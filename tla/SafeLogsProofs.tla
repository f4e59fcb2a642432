--------------------------- MODULE SafeLogsProofs ---------------------------
(***************************************************************************)
(* Proofs about the service-registry squid.                                *)
(*                                                                         *)
(* SafeLogs, for any Safes, blocks, forks and failures: the known-multisig *)
(* set covers the table, and every execution of one of our Safes is handled *)
(* exactly once.                                                           *)
(*                                                                         *)
(* ServiceActivity and ServiceRegistryGraph, for any services, agents,     *)
(* multisigs, identities and logs: the daily tables tell the same day, and *)
(* the squid keeps the rows of the subgraph it replaces.  ActivityInv and  *)
(* GraphInv are the invariants, proved log by log.                         *)
(***************************************************************************)
EXTENDS SafeLogs, ServiceRegistryGraph, SumsProofs, SequenceTheorems, TLAPS

Steps == INSTANCE IndexerProofs
           WITH Event <- Seq(Log), EmptyTable <- NoTables, Apply <- RunBlock, db <- db

-----------------------------------------------------------------------------
(* Tables and sequences. *)

LEMMA TablesFacts ==
  /\ NoTables \in Tables
  /\ \A t \in Tables : /\ t.rows \in SUBSET Safes
                       /\ t.handled \in Seq(LogId)
                       /\ t = [rows |-> t.rows, handled |-> t.handled]
BY EmptySeq DEF Tables, NoTables

LEMMA AfterOK ==
  ASSUME NEW s \in Seq(Tables), NEW n \in 0 .. Len(s)
  PROVE  After(s, n) \in Tables
BY ElementOfSeq, TablesFacts DEF After

\* After a prefix, the tables are those after the whole.
LEMMA AfterPrefix ==
  ASSUME NEW s \in Seq(Tables), NEW m \in 0 .. Len(s)
  PROVE  /\ SubSeq(s, 1, m) \in Seq(Tables)
         /\ Len(SubSeq(s, 1, m)) = m
         /\ \A n \in 0 .. m : After(SubSeq(s, 1, m), n) = After(s, n)
BY SubSeqProperties DEF After

LEMMA AfterAppend ==
  ASSUME NEW s \in Seq(Tables), NEW t \in Tables
  PROVE  /\ Append(s, t) \in Seq(Tables)
         /\ Len(Append(s, t)) = Len(s) + 1
         /\ \A n \in 0 .. Len(s) : After(Append(s, t), n) = After(s, n)
         /\ After(Append(s, t), Len(s) + 1) = t
BY AppendProperties, LenProperties DEF After

LEMMA ExecutedOK ==
  ASSUME NEW t \in Tables, NEW id \in LogId, NEW safe \in Safes
  PROVE  Executed(t, id, safe) \in Tables
BY AppendProperties DEF Executed, Tables

\* Handling one more log that was not handled yet.
LEMMA ExecutedOnce ==
  ASSUME NEW t \in Tables, NEW id \in LogId, NEW safe \in t.rows,
         NEW ids, HandledOnce(t, ids), id \notin ids
  PROVE  /\ HandledOnce(Executed(t, id, safe), ids \cup {id})
         /\ Executed(t, id, safe).rows = t.rows
<1> DEFINE u == Executed(t, id, safe)
<1>1. /\ u.handled = Append(t.handled, id) /\ u.rows = t.rows
      /\ t.handled \in Seq(LogId)
  BY DEF Executed, Tables
<1>2. /\ DOMAIN u.handled = 1 .. Len(t.handled) + 1
      /\ DOMAIN t.handled = 1 .. Len(t.handled)
      /\ Len(t.handled) \in Nat
      /\ \A k \in 1 .. Len(t.handled) : u.handled[k] = t.handled[k]
      /\ u.handled[Len(t.handled) + 1] = id
  BY <1>1, AppendProperties, LenProperties
<1> HIDE DEF u
<1>3. Contents(u.handled) = ids \cup {id}
  BY <1>2 DEF HandledOnce, Contents
<1>4. ASSUME NEW j \in DOMAIN u.handled, NEW k \in DOMAIN u.handled,
             u.handled[j] = u.handled[k]
      PROVE  j = k
  <2>1. \A i \in 1 .. Len(t.handled) : u.handled[i] # id
    BY <1>2 DEF HandledOnce, Contents
  <2>2. CASE j \in 1 .. Len(t.handled) /\ k \in 1 .. Len(t.handled)
    <3>1. t.handled[j] = t.handled[k]
      BY <1>2, <1>4, <2>2
    <3> QED BY <1>2, <2>2, <3>1 DEF HandledOnce
  <2>3. CASE j = Len(t.handled) + 1
    BY <1>2, <1>4, <2>1, <2>3
  <2>4. CASE k = Len(t.handled) + 1
    BY <1>2, <1>4, <2>1, <2>4
  <2> QED BY <1>2, <2>2, <2>3, <2>4
<1>5. HandledOnce(u, ids \cup {id})
  BY <1>3, <1>4 DEF HandledOnce
<1> QED BY <1>1, <1>5 DEF u

-----------------------------------------------------------------------------
(* What is registered and due depends on the blocks so far only. *)

LEMMA AgreeSame ==
  ASSUME NEW s, NEW t, NEW m \in Nat, Agree(s, t, m), NEW n \in 0 .. m
  PROVE  RowsOf(s, n) = RowsOf(t, n) /\ Due(s, n) = Due(t, n)
<1>1. \A b \in 1 .. m : s[b] = t[b]
  BY DEF Agree
<1>2. \A k \in 0 .. m, safe \in Safes : Registered(s, k, safe) <=> Registered(t, k, safe)
  BY <1>1 DEF Registered
<1>3. ASSUME NEW b \in 1 .. n
      PROVE  DueIn(s, b) = DueIn(t, b)
  <2>1. \A safe : Registered(s, b, safe) <=> Registered(t, b, safe)
    BY <1>1 DEF Registered
  <2> QED BY <1>1, <2>1 DEF DueIn
<1>4. RowsOf(s, n) = RowsOf(t, n)
  BY <1>2 DEF RowsOf
<1>5. Due(s, n) = Due(t, n)
  BY <1>3 DEF Due
<1> QED BY <1>4, <1>5

LEMMA NothingYet ==
  ASSUME NEW blocks
  PROVE  Exact(NoTables, blocks, 0)
<1>1. RowsOf(blocks, 0) = {} /\ Due(blocks, 0) = {}
  BY DEF RowsOf, Registered, Due
<1>2. DOMAIN NoTables.handled = {} /\ NoTables.rows = {}
  BY EmptySeq, LenProperties DEF NoTables
<1> QED BY <1>1, <1>2 DEF Exact, HandledOnce, Contents

LEMMA RowsGrow ==
  ASSUME NEW blocks, NEW m \in Nat, NEW n \in 0 .. m
  PROVE  RowsOf(blocks, n) \subseteq RowsOf(blocks, m)
BY DEF RowsOf, Registered

LEMMA DueStep ==
  ASSUME NEW blocks, NEW n \in Nat
  PROVE  /\ Due(blocks, n + 1) = Due(blocks, n) \cup {<<n + 1, i>> : i \in DueIn(blocks, n + 1)}
         /\ \A i : <<n + 1, i>> \notin Due(blocks, n)
<1>1. 1 .. n + 1 = (1 .. n) \cup {n + 1}
  OBVIOUS
<1>2. Due(blocks, n + 1) = Due(blocks, n) \cup {<<n + 1, i>> : i \in DueIn(blocks, n + 1)}
  BY <1>1 DEF Due
<1>3. \A i : <<n + 1, i>> \notin Due(blocks, n)
  BY DEF Due
<1> QED BY <1>2, <1>3

-----------------------------------------------------------------------------
(* Types. *)

LEMMA BlockTyped == Block \subseteq Seq(Log)
BY SeqDef, SafeLogsAssumption DEF Block

LEMMA InitTyped == Init => TypeOK /\ TransactionOpen
BY EmptySeq, TablesFacts DEF Init, TypeOK, TransactionOpen, NotLoaded

\* A rollback to the fork point of the chain to be handled.
LEMMA RollBackTyped ==
  ASSUME TypeOK, NEW base \in 0 .. Len(applied), fetched' \in Seq(Seq(Log)),
         IsForkPoint(applied, fetched', base), base < Len(fetched'), head' \in Nat,
         RollBackTo(base),
         UNCHANGED <<chainVars, dbVars, known>>, failures' \in Nat
  PROVE  (TypeOK /\ TransactionOpen)'
<1>1. /\ trail' \in Seq(Tables) /\ Len(trail') = base
      /\ work' \in Tables
  BY AfterPrefix, AfterOK DEF TypeOK, RollBackTo
<1>2. TypeOK'
  BY <1>1, EmptySeq DEF TypeOK, RollBackTo, chainVars, dbVars
<1>3. \A n \in 0 .. Len(fetched') : Agree(applied, fetched', n) => n <= base
  <2> SUFFICES ASSUME NEW n \in 0 .. Len(fetched'), Agree(applied, fetched', n), n > base
               PROVE  FALSE
    BY LenProperties DEF TypeOK
  <2>1. /\ base + 1 <= n /\ n \in Nat /\ base \in Nat
        /\ n <= Len(applied) /\ n <= Len(fetched')
        /\ Len(applied) \in Nat /\ Len(fetched') \in Nat
        /\ \A i \in 1 .. n : applied[i] = fetched'[i]
    BY LenProperties DEF TypeOK, Agree
  <2>2. Agree(applied, fetched', base + 1)
    BY <2>1 DEF Agree
  <2> QED BY <2>2 DEF IsForkPoint
<1>4. TransactionOpen'
  BY <1>1, <1>3 DEF TransactionOpen, RollBackTo, dbVars
<1> QED BY <1>2, <1>4

\* The fork point with the canonical chain is the one with what is fetched.
LEMMA FetchedForkPoint ==
  ASSUME NEW s, NEW t \in Seq(Seq(Log)), NEW base \in Nat, NEW n \in 1 .. Len(t),
         base < n, IsForkPoint(s, t, base)
  PROVE  /\ SubSeq(t, 1, n) \in Seq(Seq(Log)) /\ Len(SubSeq(t, 1, n)) = n
         /\ IsForkPoint(s, SubSeq(t, 1, n), base)
<1>1. /\ SubSeq(t, 1, n) \in Seq(Seq(Log)) /\ Len(SubSeq(t, 1, n)) = n
      /\ \A i \in 1 .. n : SubSeq(t, 1, n)[i] = t[i]
  BY SubSeqProperties
<1> QED BY <1>1 DEF IsForkPoint, Agree

LEMMA BeginTyped ==
  ASSUME TypeOK, BeginTransaction
  PROVE  (TypeOK /\ TransactionOpen)'
<1>1. PICK base \in 0 .. Len(applied), n \in 1 .. Len(chain) :
        /\ IsForkPoint(applied, chain, base)
        /\ n > base
        /\ fetched' = SubSeq(chain, 1, n)
        /\ head' = final
        /\ RollBackTo(base)
  BY DEF BeginTransaction
<1>2. base \in Nat /\ n \in Nat /\ chain \in Seq(Seq(Log))
  BY LenProperties DEF TypeOK
<1>3. /\ fetched' \in Seq(Seq(Log)) /\ Len(fetched') = n
      /\ IsForkPoint(applied, fetched', base)
  BY <1>1, <1>2, FetchedForkPoint
<1> QED BY <1>1, <1>2, <1>3, RollBackTyped DEF BeginTransaction, TypeOK

LEMMA RetryTyped ==
  ASSUME TypeOK, TransactionOpen, Retry
  PROVE  (TypeOK /\ TransactionOpen)'
<1>1. PICK base \in 0 .. Len(applied) :
        IsForkPoint(applied, fetched, base) /\ RollBackTo(base)
  BY DEF Retry
<1>2. base < Len(fetched)
  <2>1. Agree(applied, fetched, base)
    BY <1>1 DEF IsForkPoint
  <2>2. base \in 0 .. Len(fetched)
    BY <2>1, LenProperties DEF Agree, TypeOK
  <2> QED BY <2>1, <2>2 DEF TransactionOpen, Retry
<1>3. /\ fetched' = fetched /\ fetched' \in Seq(Seq(Log))
      /\ UNCHANGED <<chainVars, dbVars, known>>
      /\ head' \in Nat /\ failures' \in Nat
  BY DEF Retry, TypeOK
<1>4. IsForkPoint(applied, fetched', base) /\ base < Len(fetched')
  BY <1>1, <1>2, <1>3
<1> QED BY <1>1, <1>3, <1>4, RollBackTyped

LEMMA LoadedTyped ==
  ASSUME TypeOK PROVE Loaded \in SUBSET Safes
BY AfterOK, TablesFacts DEF TypeOK, Loaded

LEMMA HandleTyped ==
  ASSUME TypeOK, TransactionOpen, Handle
  PROVE  (TypeOK /\ TransactionOpen)'
<1> DEFINE log == fetched[Current][idx + 1]
<1>1. /\ Current \in 1 .. Len(fetched) /\ Current \in Nat
      /\ fetched[Current] \in Seq(Log)
      /\ log \in Log /\ log.safe \in Safes
      /\ idx + 1 \in 1 .. Len(fetched[Current])
  <2>1. Current \in 1 .. Len(fetched) /\ Current \in Nat /\ Len(fetched) \in Nat
    BY LenProperties DEF TypeOK, TransactionOpen, Handle, Current
  <2>2. fetched[Current] \in Seq(Log)
    BY <2>1, ElementOfSeq DEF TypeOK
  <2>3. idx + 1 \in 1 .. Len(fetched[Current])
    BY <2>2, LenProperties DEF TypeOK, Handle
  <2>4. log \in Log
    BY <2>2, <2>3, ElementOfSeq
  <2> QED BY <2>1, <2>2, <2>3, <2>4, SafeLogsAssumption DEF Log
<1>2. <<Current, idx + 1>> \in LogId
  <2>1. idx + 1 \in Nat
    BY DEF TypeOK
  <2> QED BY <1>1, <2>1 DEF LogId
<1>3. Loaded \in SUBSET Safes
  BY LoadedTyped
<1>4. /\ work' \in Tables /\ fresh' \in SUBSET Safes
      /\ parked' \in Seq([id : LogId, safe : Safes])
      /\ known' \in [loaded : BOOLEAN, addresses : SUBSET Safes]
  <2> HIDE DEF log
  <2>1. Dispatch(log)
    BY DEF Handle, log
  <2>2. CASE log.op = "create" /\ CreateMultisig(log.safe)
    BY <1>1, <1>3, <2>2 DEF CreateMultisig, Remember, TypeOK, Tables
  <2>3. CASE log.op = "orphan" /\ OrphanMultisig
    BY <2>3 DEF OrphanMultisig, TypeOK
  <2>4. CASE log.op = "exec" /\ SafeLog(log.safe)
    <3>1. Executed(work, <<Current, idx + 1>>, log.safe) \in Tables
      BY <1>1, <1>2, ExecutedOK DEF TypeOK
    <3>2. [id |-> <<Current, idx + 1>>, safe |-> log.safe] \in [id : LogId, safe : Safes]
      BY <1>1, <1>2
    <3>3. Append(parked, [id |-> <<Current, idx + 1>>, safe |-> log.safe])
            \in Seq([id : LogId, safe : Safes])
      BY <3>2, AppendProperties DEF TypeOK
    <3> QED BY <1>3, <2>4, <3>1, <3>3 DEF SafeLog, Remember, TypeOK
  <2> QED BY <2>1, <2>2, <2>3, <2>4 DEF Dispatch
<1>5. TypeOK'
  BY <1>4 DEF Handle, TypeOK, chainVars, dbVars, txVars
<1>6. TransactionOpen'
  BY DEF Handle, TransactionOpen, dbVars, txVars
<1> QED BY <1>5, <1>6

LEMMA BlockEndTyped ==
  ASSUME TypeOK, TransactionOpen, EndLogs \/ HandleParked \/ EndBlock
  PROVE  (TypeOK /\ TransactionOpen)'
<1>1. CASE EndLogs
  <2>1. TypeOK'
    BY <1>1 DEF EndLogs, TypeOK, chainVars, dbVars, txVars
  <2> QED BY <1>1, <2>1 DEF EndLogs, TransactionOpen, dbVars, txVars
<1>2. CASE HandleParked
  <2>1. Head(parked) \in [id : LogId, safe : Safes]
        /\ Tail(parked) \in Seq([id : LogId, safe : Safes])
    BY <1>2, HeadTailProperties DEF HandleParked, TypeOK
  <2>2. Executed(work, Head(parked).id, Head(parked).safe) \in Tables
    BY <2>1, ExecutedOK DEF TypeOK
  <2>3. TypeOK'
    BY <1>2, <2>1, <2>2 DEF HandleParked, TypeOK, chainVars, dbVars, txVars
  <2> QED BY <1>2, <2>3 DEF HandleParked, TransactionOpen, dbVars, txVars
<1>3. CASE EndBlock
  <2>1. trail' \in Seq(Tables) /\ Len(trail') = Len(trail) + 1
        /\ Len(trail) \in Nat /\ Len(fetched) \in Nat
    BY <1>3, AfterAppend, LenProperties DEF EndBlock, TypeOK
  <2>2. TypeOK'
    BY <1>3, <2>1, EmptySeq DEF EndBlock, TypeOK, chainVars, dbVars
  <2>3. TransactionOpen'
    <3>1. Len(trail) < Len(fetched)
      BY <1>3 DEF EndBlock, TransactionOpen
    <3>2. pc' = "logs" => Len(trail) + 1 < Len(fetched)
      BY <1>3, <3>1, <2>1 DEF EndBlock, CallEnd, Current, TypeOK
    <3>3. pc' \in {"logs", "flush"}
      BY <1>3 DEF EndBlock
    <3> QED BY <1>3, <2>1, <3>1, <3>2, <3>3 DEF EndBlock, TransactionOpen, dbVars
  <2> QED BY <2>2, <2>3
<1> QED BY <1>1, <1>2, <1>3

LEMMA NextTyped ==
  ASSUME TypeOK, TransactionOpen, [Next]_vars
  PROVE  (TypeOK /\ TransactionOpen)'
<1>1. CASE Grow
  <2>1. chain' \in Seq(Seq(Log))
    BY <1>1, BlockTyped, AppendProperties DEF Grow, TypeOK
  <2>2. TypeOK'
    BY <1>1, <2>1 DEF Grow, TypeOK, dbVars, txVars
  <2> QED BY <1>1, <2>2 DEF Grow, TransactionOpen, dbVars, txVars
<1>2. CASE Finalize
  <2>1. TypeOK'
    BY <1>2 DEF Finalize, TypeOK, dbVars, txVars
  <2> QED BY <1>2, <2>1 DEF Finalize, TransactionOpen, dbVars, txVars
<1>3. CASE Fork
  <2>1. PICK n \in final .. Len(chain) - 1, block \in Block :
          chain' = Append(SubSeq(chain, 1, n), block)
    BY <1>3 DEF Fork
  <2>2. chain' \in Seq(Seq(Log))
    BY <2>1, BlockTyped, SubSeqProperties, AppendProperties DEF TypeOK
  <2>3. TypeOK'
    BY <1>3, <2>2 DEF Fork, TypeOK, dbVars, txVars
  <2> QED BY <1>3, <2>3 DEF Fork, TransactionOpen, dbVars, txVars
<1>4. CASE BeginTransaction
  BY <1>4, BeginTyped
<1>5. CASE Handle
  BY <1>5, HandleTyped
<1>6. CASE EndLogs \/ HandleParked \/ EndBlock
  BY <1>6, BlockEndTyped
<1>7. CASE Flush
  <2>1. Len(trail) \in Nat /\ Len(fetched) \in Nat /\ flushed \in 0 .. Len(trail)
    BY LenProperties DEF TypeOK
  <2>2. TypeOK'
    BY <1>7, <2>1 DEF Flush, TypeOK, chainVars, dbVars
  <2> QED BY <1>7, <2>1, <2>2 DEF Flush, TransactionOpen, dbVars
<1>8. CASE Commit
  <2>1. Len(trail) = Len(fetched)
    BY <1>8 DEF Commit, TransactionOpen
  <2>2. /\ applied' \in Seq(Seq(Log)) /\ history' \in Seq(Tables)
        /\ Len(history') = Len(applied')
    BY <1>8, <2>1 DEF Commit, TypeOK
  <2>3. /\ fetched' = <<>> /\ trail' = <<>> /\ parked' = <<>> /\ work' = NoTables
        /\ pc' = "idle" /\ flushed' = 0 /\ head' = 0 /\ idx' = 0 /\ fresh' = {}
        /\ UNCHANGED <<chainVars, known, failures>>
    BY <1>8 DEF Commit, EndTransaction
  <2>4. TypeOK'
    BY <2>2, <2>3, EmptySeq, TablesFacts DEF TypeOK, chainVars
  <2> QED BY <2>3, <2>4 DEF TransactionOpen
<1>9. CASE Retry
  BY <1>9, RetryTyped
<1>10. CASE Restart
  <2>1. /\ fetched' = <<>> /\ trail' = <<>> /\ parked' = <<>> /\ work' = NoTables
        /\ pc' = "idle" /\ flushed' = 0 /\ head' = 0 /\ idx' = 0 /\ fresh' = {}
        /\ known' = NotLoaded /\ failures' = failures + 1 /\ UNCHANGED <<chainVars, dbVars>>
    BY <1>10 DEF Restart, EndTransaction
  <2>2. TypeOK'
    BY <2>1, EmptySeq, TablesFacts DEF TypeOK, NotLoaded, chainVars, dbVars
  <2> QED BY <2>1, <2>2 DEF TransactionOpen
<1>11. CASE UNCHANGED vars
  <2>1. TypeOK'
    BY <1>11 DEF vars, TypeOK
  <2> QED BY <1>11, <2>1 DEF vars, TransactionOpen
<1> QED BY <1>1, <1>2, <1>3, <1>4, <1>5, <1>6, <1>7, <1>8, <1>9, <1>10, <1>11
        DEF Next, Process

\* The state is well typed: what BlockSafeLogs keeps for a block is gone when
\* the block is over.
THEOREM SafeLogsTyped == Spec => []TypeOK
<1>1. Spec => [](TypeOK /\ TransactionOpen)
  BY InitTyped, NextTyped, PTL DEF Spec
<1> QED BY <1>1, PTL

-----------------------------------------------------------------------------
(* The inductive invariant. *)

LEMMA InitInductive == Init => Inductive
<1> SUFFICES ASSUME Init PROVE Inductive
  OBVIOUS
<1>1. Len(history) = 0 /\ Len(trail) = 0
  BY EmptySeq, LenProperties DEF Init
<1>2. CommittedExact
  BY <1>1, NothingYet DEF CommittedExact, After
<1>3. KnownCoversRows
  BY DEF KnownCoversRows, Init, NotLoaded
<1> QED BY <1>2, <1>3 DEF Inductive, Init, TransactionOpen, TransactionExact,
           BetweenBlocks, InLogs, InParked, KnownInTransaction

\* A block begins with nothing fresh and nothing parked.
LEMMA BlockBegins ==
  ASSUME TypeOK', TransactionOpen', (pc = "logs" /\ idx = 0)',
         (fresh = {} /\ parked = <<>>)', Exact(work, fetched, Len(trail))'
  PROVE  InLogs'
<1>1. /\ Created(idx)' = {} /\ Execs(idx, Old)' = {} /\ Execs(idx, Safes \ Old)' = {}
  BY DEF Created, Execs
<1>2. (DOMAIN parked)' = {}
  BY EmptySeq, LenProperties
<1>3. (work.rows = Old /\ HandledOnce(work, Due(fetched, Len(trail))))'
  BY DEF Exact, Old
<1>4. (idx <= Len(fetched[Current]))'
  <2>1. (Current \in 1 .. Len(fetched))'
    BY LenProperties DEF TypeOK, TransactionOpen, Current
  <2>2. fetched[Current]' \in Seq(Log)
    BY <2>1, ElementOfSeq DEF TypeOK
  <2> QED BY <2>2, LenProperties
<1>5. (Due(fetched, Len(trail)) \cup Ids(Execs(idx, Old)))' = Due(fetched, Len(trail))'
  BY <1>1 DEF Ids
<1>6. Contents(parked)' = {}
  BY <1>2 DEF Contents
<1>7. Entries(Execs(idx, Safes \ Old))' = {}
  BY <1>1 DEF Entries
<1>8. ParkedOnce'
  BY <1>2 DEF ParkedOnce
<1> QED BY <1>1, <1>3, <1>4, <1>5, <1>6, <1>7, <1>8 DEF InLogs

LEMMA RollBackExact ==
  ASSUME TypeOK, CommittedExact, (TypeOK /\ TransactionOpen)',
         NEW base \in 0 .. Len(applied), IsForkPoint(applied, fetched', base),
         RollBackTo(base), UNCHANGED dbVars
  PROVE  (/\ CommittedExact /\ TransactionExact /\ BetweenBlocks /\ InLogs /\ InParked)'
<1>1. /\ Len(trail') = base /\ base \in Nat /\ base \in 0 .. Len(history)
      /\ \A n \in 0 .. base : After(trail', n) = After(history, n)
      /\ work' = After(history, base)
  BY AfterPrefix, LenProperties DEF TypeOK, RollBackTo
<1>2. \A n \in 0 .. base : /\ RowsOf(applied, n) = RowsOf(fetched', n)
                           /\ Due(applied, n) = Due(fetched', n)
  BY <1>1, AgreeSame DEF IsForkPoint
<1>3. \A n \in 0 .. base : Exact(After(history, n), fetched', n)
  <2> SUFFICES ASSUME NEW n \in 0 .. base PROVE Exact(After(history, n), fetched', n)
    OBVIOUS
  <2>1. n \in 0 .. Len(history)
    BY <1>1, LenProperties DEF TypeOK
  <2>2. Exact(After(history, n), applied, n)
    BY <2>1 DEF CommittedExact
  <2> QED BY <1>2, <2>2 DEF Exact
<1>4. TransactionExact'
  BY <1>1, <1>3 DEF TransactionExact
<1>5. CommittedExact'
  BY DEF CommittedExact, dbVars
<1>6. Exact(work, fetched, Len(trail))'
  BY <1>1, <1>3
<1>7. InLogs'
  BY <1>6, BlockBegins DEF RollBackTo
<1> QED BY <1>4, <1>5, <1>7 DEF BetweenBlocks, InParked, RollBackTo

\* One more log of the block.
LEMMA LogStep ==
  ASSUME TypeOK, TransactionOpen, pc = "logs", idx < Len(fetched[Current]),
         NEW log, log = fetched[Current][idx + 1]
  PROVE  /\ log \in Log /\ log.safe \in Safes /\ <<Current, idx + 1>> \in LogId
         /\ Current \in Nat /\ idx + 1 <= Len(fetched[Current])
         /\ Created(idx + 1) = Created(idx) \cup (IF log.op = "create" THEN {log.safe} ELSE {})
         /\ \A safes : /\ Execs(idx + 1, safes)
                            = Execs(idx, safes)
                              \cup (IF log.op = "exec" /\ log.safe \in safes
                                    THEN {idx + 1} ELSE {})
                       /\ idx + 1 \notin Execs(idx, safes)
<1>1. Current \in 1 .. Len(fetched) /\ Current \in Nat /\ Len(fetched) \in Nat
  BY LenProperties DEF TypeOK, TransactionOpen, Current
<1>2. fetched[Current] \in Seq(Log)
  BY <1>1, ElementOfSeq DEF TypeOK
<1>3. idx \in Nat /\ idx + 1 \in 1 .. Len(fetched[Current])
  BY <1>2, LenProperties DEF TypeOK
<1>4. log \in Log
  BY <1>2, <1>3, ElementOfSeq
<1>5. log.safe \in Safes /\ log = [op |-> log.op, safe |-> log.safe]
  BY <1>4, SafeLogsAssumption DEF Log
<1>6. 1 .. idx + 1 = (1 .. idx) \cup {idx + 1} /\ idx + 1 \notin 1 .. idx
  BY <1>3
<1>7. \A safe \in Safes : log = [op |-> "create", safe |-> safe]
                            <=> log.op = "create" /\ safe = log.safe
  BY <1>5
<1>8. Created(idx + 1) = Created(idx) \cup (IF log.op = "create" THEN {log.safe} ELSE {})
  BY <1>5, <1>6, <1>7 DEF Created
<1>9. \A safes : /\ Execs(idx + 1, safes)
                      = Execs(idx, safes)
                        \cup (IF log.op = "exec" /\ log.safe \in safes
                              THEN {idx + 1} ELSE {})
                 /\ idx + 1 \notin Execs(idx, safes)
  BY <1>6 DEF Execs
<1> QED BY <1>1, <1>3, <1>4, <1>5, <1>8, <1>9 DEF LogId

\* The known set covers what a log of the block may ask for.
LEMMA LoadedCovers ==
  ASSUME TypeOK, TransactionOpen, TransactionExact, KnownCoversRows, KnownInTransaction,
         pc # "idle", RowsOf(fetched, Len(trail)) \subseteq work.rows
  PROVE  /\ work.rows \subseteq Loaded
         /\ \A n \in 1 .. Len(trail) : trail[n].rows \subseteq work.rows
<1>1. \A n \in 1 .. Len(trail) : trail[n].rows \subseteq work.rows
  <2> SUFFICES ASSUME NEW n \in 1 .. Len(trail) PROVE trail[n].rows \subseteq work.rows
    OBVIOUS
  <2>1. n \in 0 .. Len(trail) /\ n # 0 /\ Len(trail) \in Nat
    BY LenProperties DEF TypeOK
  <2>2. Exact(trail[n], fetched, n)
    BY <2>1 DEF TransactionExact, After
  <2>3. RowsOf(fetched, n) \subseteq RowsOf(fetched, Len(trail))
    BY <2>1, RowsGrow
  <2> QED BY <2>2, <2>3 DEF Exact
<1>2. work.rows \subseteq Loaded
  BY DEF Loaded, KnownCoversRows, KnownInTransaction
<1> QED BY <1>1, <1>2

\* In log order are handled the logs of the Safes that had a row before the
\* block: neither the set nor `fresh` changes that.
LEMMA AtOnceIsOld ==
  ASSUME TypeOK, TransactionOpen, TransactionExact, KnownCoversRows, KnownInTransaction,
         InLogs, pc = "logs", NEW safe \in Safes
  PROVE  AtOnce(safe) <=> safe \in Old
BY LoadedCovers DEF InLogs, AtOnce, Old

LEMMA OneMore ==
  ASSUME NEW js, NEW k
  PROVE  /\ Ids(js \cup {k}) = Ids(js) \cup {<<Current, k>>}
         /\ Entries(js \cup {k})
              = Entries(js) \cup {[id |-> <<Current, k>>, safe |-> fetched[Current][k].safe]}
         /\ \A entry \in Entries(js) : entry.id \in Ids(js)
<1> DEFINE entryOf(j) == [id |-> <<Current, j>>, safe |-> fetched[Current][j].safe]
<1>1. Ids(js \cup {k}) = Ids(js) \cup {<<Current, k>>}
  BY DEF Ids
<1>2. \A is : Entries(is) = {entryOf(i) : i \in is}
  BY DEF Entries
<1>3. \A i : entryOf(i).id = <<Current, i>>
  OBVIOUS
<1> HIDE DEF entryOf
<1>4. Entries(js \cup {k}) = Entries(js) \cup {entryOf(k)}
  BY <1>2
<1>5. \A entry \in Entries(js) : entry.id \in Ids(js)
  BY <1>2, <1>3 DEF Ids
<1> QED BY <1>1, <1>4, <1>5 DEF entryOf

\* What one more log of the block changes in what is due so far.
LEMMA LogHandled ==
  ASSUME TypeOK, TransactionOpen, Handle, NEW log, log = fetched[Current][idx + 1]
  PROVE  /\ pc = "logs" /\ pc' = "logs" /\ idx \in Nat /\ <<Current, idx + 1>> \in LogId
         /\ log.safe \in Safes
         /\ Old' = Old /\ Len(trail)' = Len(trail)
         /\ Due(fetched, Len(trail))' = Due(fetched, Len(trail))
         /\ (idx <= Len(fetched[Current]))'
         /\ Created(idx)' = Created(idx) \cup (IF log.op = "create" THEN {log.safe} ELSE {})
         /\ Ids(Execs(idx, Old))'
              = Ids(Execs(idx, Old))
                \cup (IF log.op = "exec" /\ log.safe \in Old
                      THEN {<<Current, idx + 1>>} ELSE {})
         /\ Entries(Execs(idx, Safes \ Old))'
              = Entries(Execs(idx, Safes \ Old))
                \cup (IF log.op = "exec" /\ log.safe \notin Old
                      THEN {[id |-> <<Current, idx + 1>>, safe |-> log.safe]} ELSE {})
         /\ \A safes : <<Current, idx + 1>> \notin Ids(Execs(idx, safes))
<1>1. pc = "logs" /\ idx < Len(fetched[Current]) /\ idx \in Nat
  BY DEF Handle, TypeOK
<1>2. /\ Created(idx + 1) = Created(idx) \cup (IF log.op = "create" THEN {log.safe} ELSE {})
      /\ \A safes : /\ Execs(idx + 1, safes)
                         = Execs(idx, safes)
                           \cup (IF log.op = "exec" /\ log.safe \in safes
                                 THEN {idx + 1} ELSE {})
                    /\ idx + 1 \notin Execs(idx, safes)
      /\ log.safe \in Safes /\ idx + 1 <= Len(fetched[Current])
      /\ <<Current, idx + 1>> \in LogId
  BY <1>1, LogStep
<1>3. fetched' = fetched /\ trail' = trail /\ idx' = idx + 1 /\ pc' = "logs"
  BY <1>1 DEF Handle, txVars
<1>4. Old' = Old /\ Current' = Current
  BY <1>3 DEF Old, Current
<1>5. /\ Created(idx)' = Created(idx + 1)
      /\ Execs(idx, Old)' = Execs(idx + 1, Old)
      /\ Execs(idx, Safes \ Old)' = Execs(idx + 1, Safes \ Old)
  BY <1>3, <1>4 DEF Created, Execs
<1>6. /\ Ids(Execs(idx, Old))' = Ids(Execs(idx + 1, Old))
      /\ Entries(Execs(idx, Safes \ Old))' = Entries(Execs(idx + 1, Safes \ Old))
  BY <1>3, <1>4, <1>5 DEF Ids, Entries
<1>7. Ids(Execs(idx + 1, Old))
        = Ids(Execs(idx, Old))
          \cup (IF log.op = "exec" /\ log.safe \in Old THEN {<<Current, idx + 1>>} ELSE {})
  <2>1. Execs(idx + 1, Old)
          = Execs(idx, Old) \cup (IF log.op = "exec" /\ log.safe \in Old THEN {idx + 1} ELSE {})
    BY <1>2
  <2>2. CASE log.op = "exec" /\ log.safe \in Old
    BY <2>1, <2>2, OneMore
  <2>3. CASE ~ (log.op = "exec" /\ log.safe \in Old)
    BY <2>1, <2>3
  <2> QED BY <2>2, <2>3
<1>8. Entries(Execs(idx + 1, Safes \ Old))
        = Entries(Execs(idx, Safes \ Old))
          \cup (IF log.op = "exec" /\ log.safe \notin Old
                THEN {[id |-> <<Current, idx + 1>>, safe |-> log.safe]} ELSE {})
  <2>1. Execs(idx + 1, Safes \ Old)
          = Execs(idx, Safes \ Old)
            \cup (IF log.op = "exec" /\ log.safe \notin Old THEN {idx + 1} ELSE {})
    BY <1>2
  <2>2. CASE log.op = "exec" /\ log.safe \notin Old
    BY <2>1, <2>2, OneMore
  <2>3. CASE ~ (log.op = "exec" /\ log.safe \notin Old)
    BY <2>1, <2>3
  <2> QED BY <2>2, <2>3
<1>9. \A safes : <<Current, idx + 1>> \notin Ids(Execs(idx, safes))
  BY <1>2 DEF Ids
<1> QED BY <1>1, <1>2, <1>3, <1>4, <1>5, <1>6, <1>7, <1>8, <1>9

LEMMA CreateExact ==
  ASSUME TypeOK, TransactionOpen, InLogs, Handle,
         NEW log, log = fetched[Current][idx + 1],
         \/ log.op = "create" /\ CreateMultisig(log.safe)
         \/ log.op = "orphan" /\ OrphanMultisig
  PROVE  InLogs'
<1>1. /\ parked' = parked
      /\ work' = [work EXCEPT !.rows = @ \cup (IF log.op = "create" THEN {log.safe} ELSE {})]
      /\ fresh' = IF log.op = "create" /\ log.safe \notin work.rows
                  THEN fresh \cup {log.safe} ELSE fresh
  BY DEF CreateMultisig, OrphanMultisig, TypeOK, Tables
<1>2. /\ work'.rows = work.rows \cup (IF log.op = "create" THEN {log.safe} ELSE {})
      /\ work'.handled = work.handled
  BY <1>1 DEF TypeOK, Tables
<1>3. HandledOnce(work, Due(fetched, Len(trail)) \cup Ids(Execs(idx, Old)))'
  BY <1>2, LogHandled DEF InLogs, HandledOnce
<1>4. (Contents(parked) = Entries(Execs(idx, Safes \ Old)) /\ ParkedOnce)'
  <2>1. pc = "logs" /\ Entries(Execs(idx, Safes \ Old))' = Entries(Execs(idx, Safes \ Old))
    BY LogHandled
  <2>2. Contents(parked) = Entries(Execs(idx, Safes \ Old)) /\ ParkedOnce
    BY <2>1 DEF InLogs
  <2>3. Contents(parked)' = Contents(parked)
    BY <1>1, Zenon DEF Contents
  <2>4. ParkedOnce'
    BY <1>1, <2>2 DEF ParkedOnce
  <2> QED BY <2>1, <2>2, <2>3, <2>4
<1>5. (idx <= Len(fetched[Current]) /\ work.rows = Old \cup Created(idx)
       /\ fresh = work.rows \ Old)'
  BY <1>1, <1>2, LogHandled DEF InLogs
<1> QED BY <1>3, <1>4, <1>5 DEF InLogs

LEMMA SafeLogExact ==
  ASSUME TypeOK, TransactionOpen, TransactionExact, KnownCoversRows, KnownInTransaction,
         InLogs, Handle, NEW log, log = fetched[Current][idx + 1],
         log.op = "exec", SafeLog(log.safe)
  PROVE  InLogs'
<1> DEFINE id  == <<Current, idx + 1>>
           ids == Due(fetched, Len(trail)) \cup Ids(Execs(idx, Old))
<1>1. /\ pc = "logs" /\ id \in LogId /\ log.safe \in Safes
      /\ id \notin ids
  BY LogHandled, DueStep, LenProperties DEF Current, TypeOK
<1>2. HandledOnce(work, ids)
  BY <1>1 DEF InLogs
<1>3. CASE log.safe \in Old
  <2>1. /\ work' = Executed(work, id, log.safe) /\ parked' = parked /\ fresh' = fresh
        /\ log.safe \in work.rows
    BY <1>1, <1>3, AtOnceIsOld DEF SafeLog, InLogs
  <2>2. HandledOnce(work', ids \cup {id}) /\ work'.rows = work.rows
    <3>1. work \in Tables
      BY DEF TypeOK
    <3>2. HandledOnce(Executed(work, id, log.safe), ids \cup {id})
          /\ Executed(work, id, log.safe).rows = work.rows
      <4> HIDE DEF id, ids
      <4> QED BY <1>1, <1>2, <2>1, <3>1, ExecutedOnce, Zenon
    <3> QED BY <2>1, <3>2
  <2>3. (Due(fetched, Len(trail)) \cup Ids(Execs(idx, Old)))' = ids \cup {id}
    BY <1>3, LogHandled
  <2>4. (HandledOnce(work, Due(fetched, Len(trail)) \cup Ids(Execs(idx, Old))))'
    BY <2>2, <2>3
  <2>5. (Contents(parked) = Entries(Execs(idx, Safes \ Old)) /\ ParkedOnce)'
    <3>1. Entries(Execs(idx, Safes \ Old))' = Entries(Execs(idx, Safes \ Old))
      BY <1>3, LogHandled
    <3>2. Contents(parked)' = Contents(parked) /\ ParkedOnce'
      BY <1>1, <2>1 DEF InLogs, Contents, ParkedOnce
    <3> QED BY <1>1, <3>1, <3>2 DEF InLogs
  <2>6. (idx <= Len(fetched[Current]) /\ work.rows = Old \cup Created(idx)
         /\ fresh = work.rows \ Old)'
    BY <2>1, <2>2, LogHandled DEF InLogs
  <2> QED BY <2>4, <2>5, <2>6 DEF InLogs
<1>4. CASE log.safe \notin Old
  <2> DEFINE entry == [id |-> id, safe |-> log.safe]
  <2>1. work' = work /\ parked' = Append(parked, entry) /\ fresh' = fresh
    BY <1>1, <1>4, AtOnceIsOld DEF SafeLog
  <2>2. (HandledOnce(work, Due(fetched, Len(trail)) \cup Ids(Execs(idx, Old))))'
    BY <1>2, <1>4, <2>1, LogHandled
  <2>3. (idx <= Len(fetched[Current]) /\ work.rows = Old \cup Created(idx)
         /\ fresh = work.rows \ Old)'
    BY <2>1, LogHandled DEF InLogs
  <2>4. /\ DOMAIN parked' = 1 .. Len(parked) + 1 /\ DOMAIN parked = 1 .. Len(parked)
        /\ Len(parked) \in Nat
        /\ \A k \in 1 .. Len(parked) : parked'[k] = parked[k]
        /\ parked'[Len(parked) + 1] = entry
    <3>1. entry \in [id : LogId, safe : Safes]
      BY <1>1
    <3> HIDE DEF entry
    <3>2. parked \in Seq([id : LogId, safe : Safes])
      BY DEF TypeOK
    <3> QED BY <2>1, <3>1, <3>2, AppendProperties, LenProperties
  <2>5. Contents(parked') = Contents(parked) \cup {entry}
    BY <2>4 DEF Contents
  <2>6. (Contents(parked) = Entries(Execs(idx, Safes \ Old)))'
    BY <1>4, <2>5, LogHandled DEF InLogs
  <2>7. \A k \in DOMAIN parked : parked[k].id # id
    <3>1. \A k \in DOMAIN parked : parked[k] \in Entries(Execs(idx, Safes \ Old))
      BY <1>1 DEF InLogs, Contents
    <3>2. \A k \in DOMAIN parked : parked[k].id \in Ids(Execs(idx, Safes \ Old))
      BY <3>1, OneMore
    <3> QED BY <3>2, LogHandled
  <2>8. ParkedOnce'
    BY <1>1, <2>4, <2>7, SMTT(30) DEF InLogs, ParkedOnce
  <2> QED BY <2>2, <2>3, <2>6, <2>8 DEF InLogs
<1> QED BY <1>3, <1>4

-----------------------------------------------------------------------------
(* The end of a block. *)

\* After its last log: what is parked for a fresh Safe is what is still due.
LEMMA BlockDue ==
  ASSUME TypeOK, TransactionOpen, InLogs, EndLogs
  PROVE  /\ RowsOf(fetched, Current) = Old \cup Created(idx)
         /\ Due(fetched, Current)
              = Due(fetched, Len(trail)) \cup Ids(Execs(idx, RowsOf(fetched, Current)))
<1>1. /\ Current \in 1 .. Len(fetched) /\ Current \in Nat /\ Len(trail) \in Nat
      /\ Current = Len(trail) + 1 /\ Len(fetched) \in Nat
  BY LenProperties DEF TypeOK, TransactionOpen, EndLogs, Current
<1>2. fetched[Current] \in Seq(Log)
  BY <1>1, ElementOfSeq DEF TypeOK
<1>3. /\ DOMAIN fetched[Current] = 1 .. idx
      /\ \A i \in 1 .. idx : fetched[Current][i].safe \in Safes
  <2>1. DOMAIN fetched[Current] = 1 .. idx
    BY <1>2, LenProperties DEF EndLogs
  <2>2. \A i \in 1 .. idx : fetched[Current][i] \in Log
    BY <1>2, <2>1, ElementOfSeq, LenProperties
  <2> QED BY <2>1, <2>2, SafeLogsAssumption DEF Log
<1>4. 1 .. Current = (1 .. Len(trail)) \cup {Current}
  BY <1>1
<1>5. RowsOf(fetched, Current) = Old \cup Created(idx)
  BY <1>3, <1>4 DEF RowsOf, Registered, Old, Created
<1>6. DueIn(fetched, Current) = Execs(idx, RowsOf(fetched, Current))
  BY <1>3 DEF DueIn, Execs, RowsOf
<1>7. Due(fetched, Current)
        = Due(fetched, Len(trail)) \cup {<<Current, i>> : i \in DueIn(fetched, Current)}
  BY <1>1, DueStep
<1> QED BY <1>5, <1>6, <1>7 DEF Ids

LEMMA LeftIs ==
  ASSUME NEW safes, fresh \subseteq safes, Contents(parked) = Entries(Execs(idx, safes))
  PROVE  Left = Ids(Execs(idx, fresh))
<1>1. \A x : x \in Left <=> \E e \in Contents(parked) : e.safe \in fresh /\ e.id = x
  BY DEF Left, Contents
<1>2. \A x : (\E e \in Entries(Execs(idx, safes)) : e.safe \in fresh /\ e.id = x)
              <=> \E j \in Execs(idx, safes) :
                     fetched[Current][j].safe \in fresh /\ x = <<Current, j>>
  <2> DEFINE entryOf(j) == [id |-> <<Current, j>>, safe |-> fetched[Current][j].safe]
  <2>1. \A e : e \in Entries(Execs(idx, safes)) <=> \E j \in Execs(idx, safes) : e = entryOf(j)
    BY DEF Entries
  <2>2. \A j : entryOf(j).id = <<Current, j>> /\ entryOf(j).safe = fetched[Current][j].safe
    OBVIOUS
  <2> HIDE DEF entryOf
  <2> SUFFICES ASSUME NEW x
               PROVE  (\E e \in Entries(Execs(idx, safes)) : e.safe \in fresh /\ e.id = x)
                        <=> \E j \in Execs(idx, safes) :
                               fetched[Current][j].safe \in fresh /\ x = <<Current, j>>
    OBVIOUS
  <2>3. ASSUME NEW e \in Entries(Execs(idx, safes)), e.safe \in fresh, e.id = x
        PROVE  \E j \in Execs(idx, safes) :
                 fetched[Current][j].safe \in fresh /\ x = <<Current, j>>
    <3>1. PICK j \in Execs(idx, safes) : e = entryOf(j)
      BY <2>1, Zenon
    <3>2. entryOf(j).safe \in fresh /\ entryOf(j).id = x
      BY <2>3, <3>1, Zenon
    <3> QED BY <2>2, <3>2, Zenon
  <2>4. ASSUME NEW j \in Execs(idx, safes),
               fetched[Current][j].safe \in fresh, x = <<Current, j>>
        PROVE  \E e \in Entries(Execs(idx, safes)) : e.safe \in fresh /\ e.id = x
    <3>1. entryOf(j) \in Entries(Execs(idx, safes))
      BY <2>1, Zenon
    <3>2. entryOf(j).safe \in fresh /\ entryOf(j).id = x
      BY <2>2, <2>4, Zenon
    <3> QED BY <3>1, <3>2, Zenon
  <2> QED BY <2>3, <2>4, Zenon
<1>3. \A j : (j \in Execs(idx, safes) /\ fetched[Current][j].safe \in fresh)
              <=> j \in Execs(idx, fresh)
  BY DEF Execs
<1>4. \A x : x \in Ids(Execs(idx, fresh)) <=> \E j \in Execs(idx, fresh) : x = <<Current, j>>
  BY DEF Ids
<1> QED BY <1>1, <1>2, <1>3, <1>4

LEMMA EndLogsExact ==
  ASSUME TypeOK, TransactionOpen, InLogs, EndLogs
  PROVE  InParked'
<1> DEFINE done == Due(fetched, Len(trail)) \cup Ids(Execs(idx, Old))
<1>1. /\ work.rows = RowsOf(fetched, Current) /\ fresh = work.rows \ Old
      /\ work.rows \subseteq Safes /\ Old \subseteq work.rows
      /\ HandledOnce(work, done) /\ ParkedOnce
      /\ Contents(parked) = Entries(Execs(idx, Safes \ Old))
  BY BlockDue, TablesFacts DEF EndLogs, InLogs, TypeOK
<1>2. Left = Ids(Execs(idx, fresh))
  BY <1>1, LeftIs
<1>3. /\ Execs(idx, work.rows) = Execs(idx, Old) \cup Execs(idx, fresh)
      /\ Execs(idx, Old) \cap Execs(idx, fresh) = {}
  BY <1>1 DEF Execs
<1>4. Due(fetched, Current) = Due(fetched, Len(trail)) \cup Ids(Execs(idx, work.rows))
  BY <1>1, BlockDue
<1>5. done \cup Left = Due(fetched, Current)
  BY <1>2, <1>3, <1>4 DEF Ids
<1>6. done \cap Left = {}
  <2>1. \A i : <<Current, i>> \notin Due(fetched, Len(trail))
    BY DueStep, LenProperties DEF Current, TypeOK
  <2> QED BY <1>2, <1>3, <2>1 DEF Ids
<1>7. \E d \in SUBSET Due(fetched, Current) :
        HandledOnce(work, d) /\ d \cup Left = Due(fetched, Current) /\ d \cap Left = {}
  <2>1. done \in SUBSET Due(fetched, Current)
    BY <1>5
  <2> HIDE DEF done
  <2> QED BY <1>1, <1>5, <1>6, <2>1
<1>8. /\ work' = work /\ fresh' = fresh /\ parked' = parked /\ fetched' = fetched
      /\ Current' = Current /\ Left' = Left /\ ParkedOnce'
  BY <1>1 DEF EndLogs, txVars, Current, Left, ParkedOnce
<1> QED BY <1>1, <1>7, <1>8 DEF InParked

LEMMA HandleParkedExact ==
  ASSUME TypeOK, InParked, HandleParked
  PROVE  InParked'
<1> DEFINE first == Head(parked)
           ids   == Due(fetched, Current)
<1>1. /\ parked \in Seq([id : LogId, safe : Safes]) /\ parked # <<>> /\ pc = "parked"
      /\ fetched' = fetched /\ Current' = Current /\ fresh' = fresh /\ parked' = Tail(parked)
      /\ work' = IF first.safe \in fresh THEN Executed(work, first.id, first.safe) ELSE work
  BY DEF HandleParked, TypeOK, txVars, Current
<1>2. /\ Len(parked) \in Nat \ {0} /\ DOMAIN parked = 1 .. Len(parked)
      /\ DOMAIN parked' = 1 .. Len(parked) - 1
      /\ \A k \in 1 .. Len(parked) - 1 : parked'[k] = parked[k + 1]
      /\ first = parked[1] /\ first \in [id : LogId, safe : Safes]
  <2>1. /\ Len(parked) \in Nat \ {0} /\ DOMAIN parked = 1 .. Len(parked)
        /\ Head(parked) = parked[1]
        /\ parked[1] \in [id : LogId, safe : Safes]
    <3>1. Len(parked) \in Nat /\ DOMAIN parked = 1 .. Len(parked) /\ Len(parked) # 0
      BY <1>1, LenProperties, EmptySeq
    <3>2. 1 \in 1 .. Len(parked)
      BY <3>1
    <3>3. parked[1] \in [id : LogId, safe : Safes]
      BY <1>1, <3>2, ElementOfSeq
    <3>4. Head(parked) = parked[1]
      BY <1>1
    <3> QED BY <3>1, <3>3, <3>4
  <2>2. /\ Tail(parked) \in Seq([id : LogId, safe : Safes])
        /\ Len(Tail(parked)) = Len(parked) - 1
        /\ \A k \in 1 .. Len(parked) - 1 : Tail(parked)[k] = parked[k + 1]
    BY <1>1, HeadTailProperties
  <2>3. DOMAIN Tail(parked) = 1 .. Len(parked) - 1
    BY <2>2, LenProperties
  <2> QED BY <1>1, <2>1, <2>2, <2>3
<1> HIDE DEF first
<1>3. /\ work.rows = RowsOf(fetched, Current) /\ fresh \subseteq work.rows /\ ParkedOnce
      /\ \E done \in SUBSET ids : HandledOnce(work, done) /\ done \cup Left = ids
                                  /\ done \cap Left = {}
  BY <1>1 DEF InParked
<1>4. PICK done \in SUBSET ids : HandledOnce(work, done) /\ done \cup Left = ids
                                 /\ done \cap Left = {}
  BY <1>3
<1>5. \A k \in 2 .. Len(parked) : parked[k] = parked'[k - 1] /\ k - 1 \in 1 .. Len(parked) - 1
  BY <1>2
<1>6. ParkedOnce'
  <2> SUFFICES ASSUME NEW j \in 1 .. Len(parked) - 1, NEW k \in 1 .. Len(parked) - 1,
                      parked'[j].id = parked'[k].id
               PROVE  j = k
    BY <1>2 DEF ParkedOnce
  <2>1. /\ j + 1 \in DOMAIN parked /\ k + 1 \in DOMAIN parked
        /\ parked[j + 1].id = parked[k + 1].id
    BY <1>2
  <2>2. j + 1 = k + 1
    BY <1>3, <2>1 DEF ParkedOnce
  <2> QED BY <2>2
<1>7. \A x : x \in Left' <=> \E k \in 2 .. Len(parked) : parked[k].safe \in fresh /\ parked[k].id = x
  <2>1. \A x : x \in Left' <=> \E k \in DOMAIN parked' :
                                  parked'[k].safe \in fresh /\ parked'[k].id = x
    BY <1>1 DEF Left
  <2>2. \A x : x \in Left' => \E k \in 2 .. Len(parked) : parked[k].safe \in fresh /\ parked[k].id = x
    <3> SUFFICES ASSUME NEW k \in 1 .. Len(parked) - 1
                 PROVE  k + 1 \in 2 .. Len(parked) /\ parked'[k] = parked[k + 1]
      BY <1>2, <2>1
    <3> QED BY <1>2
  <2>3. \A k \in 2 .. Len(parked) :
           parked[k].safe \in fresh => parked[k].id \in Left'
    BY <1>2, <1>5, <2>1
  <2> QED BY <2>2, <2>3
<1>8. \A x : x \in Left <=> \E k \in 1 .. Len(parked) : parked[k].safe \in fresh /\ parked[k].id = x
  BY <1>2 DEF Left
<1>9. CASE first.safe \in fresh
  <2>1. first.id \in Left
    BY <1>2, <1>8, <1>9
  <2>2. Left' = Left \ {first.id}
    <3>1. \A k \in 2 .. Len(parked) : parked[k].id # first.id
      BY <1>2, <1>3 DEF ParkedOnce
    <3>2. \A x : x \in Left' => x \in Left /\ x # first.id
      BY <1>2, <1>7, <1>8, <3>1
    <3>3. \A x : x \in Left /\ x # first.id => x \in Left'
      BY <1>2, <1>7, <1>8
    <3> QED BY <3>2, <3>3
  <2>3. /\ HandledOnce(work', done \cup {first.id})
        /\ work'.rows = work.rows
    <3>1. first.id \in LogId /\ first.safe \in work.rows /\ work \in Tables /\ first.id \notin done
      BY <1>2, <1>3, <1>4, <1>9, <2>1 DEF TypeOK
    <3> QED BY <1>1, <1>4, <1>9, <3>1, ExecutedOnce
  <2>4. (done \cup {first.id}) \cup Left' = ids /\ (done \cup {first.id}) \cap Left' = {}
        /\ done \cup {first.id} \in SUBSET ids
    BY <1>4, <2>1, <2>2
  <2>5. \E d \in SUBSET ids : HandledOnce(work', d) /\ d \cup Left' = ids /\ d \cap Left' = {}
    BY <2>3, <2>4
  <2> QED BY <1>1, <1>3, <1>6, <2>3, <2>5 DEF InParked
<1>10. CASE first.safe \notin fresh
  <2>1. Left' = Left
    <3>1. \A x : x \in Left' => x \in Left
      BY <1>2, <1>7, <1>8
    <3>2. \A x : x \in Left => x \in Left'
      BY <1>2, <1>7, <1>8, <1>10
    <3> QED BY <3>1, <3>2
  <2>2. work' = work
    BY <1>1, <1>10
  <2> QED BY <1>1, <1>3, <1>6, <2>1, <2>2 DEF InParked
<1> QED BY <1>9, <1>10

\* Nothing is left when endBlock returns: the tables are those of the block.
LEMMA EndBlockExact ==
  ASSUME TypeOK, TransactionOpen, CommittedExact, TransactionExact, InParked, EndBlock,
         (TypeOK /\ TransactionOpen)'
  PROVE  (CommittedExact /\ TransactionExact /\ BetweenBlocks /\ InLogs /\ InParked)'
<1>1. /\ trail' = Append(trail, work) /\ fetched' = fetched /\ work' = work
      /\ idx' = 0 /\ fresh' = {} /\ parked' = <<>> /\ parked = <<>> /\ pc = "parked"
      /\ pc' \in {"logs", "flush"} /\ dbVars' = dbVars
  BY DEF EndBlock
<1>2. /\ Len(trail) \in Nat /\ Len(trail') = Len(trail) + 1 /\ Current = Len(trail) + 1
      /\ \A n \in 0 .. Len(trail) : After(trail', n) = After(trail, n)
      /\ After(trail', Len(trail) + 1) = work
  BY <1>1, AfterAppend, LenProperties, SMTT(20) DEF TypeOK, Current
<1>3. Left = {}
  <2>1. DOMAIN parked = {}
    BY <1>1, EmptySeq, LenProperties
  <2> QED BY <2>1 DEF Left
<1>4. Exact(work, fetched, Current)
  BY <1>1, <1>3 DEF InParked, Exact
<1>5. TransactionExact'
  <2> SUFFICES ASSUME NEW n \in 0 .. Len(trail) + 1
               PROVE  Exact(After(trail', n), fetched, n)
    BY <1>1, <1>2 DEF TransactionExact
  <2>1. CASE n = Len(trail) + 1
    BY <1>2, <1>4, <2>1
  <2>2. CASE n \in 0 .. Len(trail)
    BY <1>1, <1>2, <2>2 DEF TransactionExact
  <2> QED BY <1>2, <2>1, <2>2
<1>6. CommittedExact'
  BY <1>1 DEF CommittedExact, dbVars
<1>7. BetweenBlocks'
  BY <1>1, <1>2 DEF BetweenBlocks
<1>8. InLogs'
  <2>1. Exact(work, fetched, Len(trail))'
    BY <1>1, <1>2, <1>4
  <2>2. CASE pc' = "logs"
    BY <1>1, <2>1, <2>2, BlockBegins
  <2>3. CASE pc' # "logs"
    BY <2>3 DEF InLogs
  <2> QED BY <2>2, <2>3
<1>9. InParked'
  BY <1>1 DEF InParked
<1> QED BY <1>5, <1>6, <1>7, <1>8, <1>9

LEMMA FlushExact ==
  ASSUME TypeOK, CommittedExact, TransactionExact, BetweenBlocks, Flush,
         (TypeOK /\ TransactionOpen)'
  PROVE  (CommittedExact /\ TransactionExact /\ BetweenBlocks /\ InLogs /\ InParked)'
<1>1. /\ trail' = trail /\ fetched' = fetched /\ work' = work /\ idx' = 0
      /\ fresh' = {} /\ parked' = <<>> /\ pc = "flush" /\ pc' \in {"logs", "commit"}
      /\ dbVars' = dbVars /\ work = After(trail, Len(trail)) /\ Len(trail) \in Nat
  BY LenProperties DEF Flush, TypeOK, BetweenBlocks
<1>2. CommittedExact' /\ TransactionExact' /\ BetweenBlocks' /\ InParked'
  BY <1>1 DEF CommittedExact, TransactionExact, BetweenBlocks, InParked, dbVars
<1>3. Exact(work, fetched, Len(trail))'
  BY <1>1 DEF TransactionExact
<1>4. CASE pc' = "logs"
  BY <1>1, <1>2, <1>3, <1>4, BlockBegins
<1>5. CASE pc' # "logs"
  BY <1>2, <1>5 DEF InLogs
<1> QED BY <1>4, <1>5

LEMMA CommitExact ==
  ASSUME TransactionExact, Commit
  PROVE  (CommittedExact /\ TransactionExact /\ BetweenBlocks /\ InLogs /\ InParked)'
BY DEF Commit, EndTransaction, TransactionExact, CommittedExact, BetweenBlocks, InLogs, InParked

-----------------------------------------------------------------------------
(* The known set. *)

\* A rollback leaves in the tables what the set covers already.
LEMMA RollBackKnown ==
  ASSUME TypeOK, KnownCoversRows, NEW base \in 0 .. Len(applied), RollBackTo(base),
         known' = known,
         known.loaded => \A n \in 1 .. base : history[n].rows \subseteq known.addresses
  PROVE  (KnownCoversRows /\ KnownInTransaction)'
<1>1. /\ base \in 0 .. Len(history) /\ base \in Nat
      /\ Len(trail') = base /\ flushed' = base /\ pc' = "logs"
      /\ \A n \in 0 .. base : After(trail', n) = After(history, n)
      /\ work' = After(history, base)
  BY AfterPrefix, LenProperties DEF TypeOK, RollBackTo
<1>2. \A n \in 1 .. base : trail'[n] = history[n]
  BY <1>1 DEF After
<1>3. known.loaded => After(history, base).rows \subseteq known.addresses
  BY <1>1 DEF After, NoTables
<1>4. KnownCoversRows'
  BY <1>1, <1>2, <1>3 DEF KnownCoversRows
<1>5. KnownInTransaction'
  BY <1>1 DEF KnownInTransaction
<1> QED BY <1>4, <1>5

LEMMA HandleKnown ==
  ASSUME TypeOK, TransactionOpen, TransactionExact, InLogs,
         KnownCoversRows, KnownInTransaction, Handle
  PROVE  (KnownCoversRows /\ KnownInTransaction)'
<1> DEFINE log == fetched[Current][idx + 1]
<1>1. /\ pc = "logs" /\ pc' = "logs" /\ trail' = trail /\ flushed' = flushed /\ Dispatch(log)
      /\ work \in Tables
  BY DEF Handle, txVars, TypeOK
<1>2. /\ work.rows \subseteq Loaded
      /\ \A n \in 1 .. Len(trail) : trail[n].rows \subseteq work.rows
  BY <1>1, LoadedCovers DEF InLogs, Old
<1> HIDE DEF log
<1>3. CASE OrphanMultisig
  BY <1>1, <1>3 DEF OrphanMultisig, KnownCoversRows, KnownInTransaction, After
<1>4. CASE CreateMultisig(log.safe)
  <2>1. work'.rows = work.rows \cup {log.safe} /\ known' = Remember(Loaded \cup {log.safe})
    BY <1>1, <1>4 DEF CreateMultisig, Tables
  <2> QED BY <1>1, <1>2, <2>1 DEF Remember, KnownCoversRows, KnownInTransaction
<1>5. CASE SafeLog(log.safe)
  <2>1. work'.rows = work.rows /\ known' = Remember(Loaded)
    BY <1>1, <1>5 DEF SafeLog, Executed, Tables
  <2> QED BY <1>1, <1>2, <2>1 DEF Remember, KnownCoversRows, KnownInTransaction
<1> QED BY <1>1, <1>3, <1>4, <1>5 DEF Dispatch

LEMMA NextKnown ==
  ASSUME TypeOK, Inductive, [Next]_vars
  PROVE  (KnownCoversRows /\ KnownInTransaction)'
<1> USE DEF Inductive
<1>1. CASE Grow \/ Finalize \/ Fork \/ EndLogs \/ UNCHANGED vars
  <2>1. /\ trail' = trail /\ flushed' = flushed /\ work' = work /\ history' = history
        /\ known' = known /\ (pc' = "idle" <=> pc = "idle")
    BY <1>1 DEF Grow, Finalize, Fork, EndLogs, vars, chainVars, dbVars, txVars
  <2> QED BY <2>1 DEF KnownCoversRows, KnownInTransaction, After
<1>2. CASE BeginTransaction
  <2>1. PICK base \in 0 .. Len(applied) : RollBackTo(base)
    BY <1>2 DEF BeginTransaction
  <2>2. base \in Nat /\ base <= Len(history) /\ Len(history) \in Nat /\ pc = "idle"
    BY <1>2, LenProperties DEF BeginTransaction, TypeOK
  <2>3. KnownCoversRows
    OBVIOUS
  <2>4. known.loaded => \A n \in 1 .. base : history[n].rows \subseteq known.addresses
    BY <2>2, <2>3 DEF KnownCoversRows
  <2> QED BY <1>2, <2>1, <2>4, RollBackKnown DEF BeginTransaction
<1>3. CASE Retry
  <2>1. PICK base \in 0 .. Len(applied) : IsForkPoint(applied, fetched, base) /\ RollBackTo(base)
    BY <1>3 DEF Retry
  <2>2. /\ base \in Nat /\ Len(trail) \in Nat /\ base <= Len(trail) /\ base <= Len(history)
        /\ Agree(applied, fetched, base)
    <3>1. Agree(applied, fetched, base) /\ base \in 0 .. Len(fetched)
      BY <2>1, LenProperties DEF IsForkPoint, Agree, TypeOK
    <3>2. base <= flushed
      BY <1>3, <3>1 DEF TransactionOpen, Retry
    <3> QED BY <3>1, <3>2, LenProperties DEF TypeOK
  <2>3. \A n \in 1 .. base : history[n].rows = trail[n].rows
    <3> SUFFICES ASSUME NEW n \in 1 .. base PROVE history[n].rows = trail[n].rows
      OBVIOUS
    <3>1. /\ n \in 0 .. Len(trail) /\ n \in 0 .. Len(history) /\ n # 0 /\ n \in 0 .. base
      BY <2>2, LenProperties DEF TypeOK
    <3>2. Exact(history[n], applied, n) /\ Exact(trail[n], fetched, n)
      BY <1>3, <3>1 DEF CommittedExact, TransactionExact, After, Retry
    <3>3. RowsOf(applied, n) = RowsOf(fetched, n)
      BY <2>2, <3>1, AgreeSame
    <3> QED BY <3>2, <3>3 DEF Exact
  <2>4. known.loaded => \A n \in 1 .. base : history[n].rows \subseteq known.addresses
    BY <2>2, <2>3 DEF KnownCoversRows
  <2> QED BY <1>3, <2>1, <2>4, RollBackKnown DEF Retry
<1>4. CASE Handle
  BY <1>4, HandleKnown DEF Handle
<1>5. CASE HandleParked
  <2>1. /\ work'.rows = work.rows /\ known' = known /\ trail' = trail /\ flushed' = flushed
        /\ pc' = pc /\ pc = "parked"
    BY <1>5 DEF HandleParked, Executed, Tables, TypeOK, txVars
  <2> QED BY <2>1 DEF KnownCoversRows, KnownInTransaction, After
<1>6. CASE EndBlock
  <2>1. /\ trail' = Append(trail, work) /\ flushed' = flushed /\ work' = work
        /\ known' = known /\ pc = "parked" /\ pc' # "idle"
    BY <1>6 DEF EndBlock
  <2>2. /\ Len(trail) \in Nat /\ Len(trail') = Len(trail) + 1
        /\ \A n \in 0 .. Len(trail) : After(trail', n) = After(trail, n)
        /\ After(trail', Len(trail) + 1) = work /\ flushed \in 0 .. Len(trail)
    BY <2>1, AfterAppend, LenProperties DEF TypeOK
  <2>3. \A n \in 1 .. Len(trail) + 1 : trail'[n] = IF n = Len(trail) + 1 THEN work ELSE trail[n]
    BY <2>2 DEF After
  <2>4. KnownCoversRows'
    BY <2>1, <2>2, <2>3 DEF KnownCoversRows
  <2>5. KnownInTransaction'
    BY <2>1, <2>2 DEF KnownInTransaction
  <2> QED BY <2>4, <2>5
<1>7. CASE Flush
  <2>1. /\ trail' = trail /\ flushed' = Len(trail) /\ work' = work /\ known' = known
        /\ pc' # "idle" /\ work = After(trail, Len(trail))
    BY <1>7 DEF Flush, BetweenBlocks
  <2> QED BY <2>1 DEF KnownCoversRows, KnownInTransaction
<1>8. CASE Commit
  <2>1. /\ history' = trail /\ trail' = <<>> /\ work' = NoTables /\ known' = known
        /\ pc' = "idle"
    BY <1>8 DEF Commit, EndTransaction
  <2> QED BY <2>1, EmptySeq DEF KnownCoversRows, KnownInTransaction, NoTables
<1>9. CASE Restart
  BY <1>9 DEF Restart, EndTransaction, NotLoaded, KnownCoversRows, KnownInTransaction
<1> QED BY <1>1, <1>2, <1>3, <1>4, <1>5, <1>6, <1>7, <1>8, <1>9 DEF Next, Process

-----------------------------------------------------------------------------
(* Every step preserves the inductive invariant. *)

LEMMA NextExact ==
  ASSUME TypeOK, Inductive, [Next]_vars, (TypeOK /\ TransactionOpen)'
  PROVE  (CommittedExact /\ TransactionExact /\ BetweenBlocks /\ InLogs /\ InParked)'
<1> USE DEF Inductive
<1>1. CASE Grow \/ Finalize \/ Fork \/ UNCHANGED vars
  <2>1. dbVars' = dbVars /\ txVars' = txVars /\ pc' = pc /\ work' = work /\ idx' = idx
        /\ fresh' = fresh /\ parked' = parked
    BY <1>1 DEF Grow, Finalize, Fork, vars, dbVars, txVars
  <2>2. Current' = Current /\ Old' = Old /\ Created(idx)' = Created(idx) /\ Left' = Left
    BY <2>1 DEF Current, Old, Created, Left, txVars
  <2>3. /\ Execs(idx, Old)' = Execs(idx, Old)
        /\ Execs(idx, Safes \ Old)' = Execs(idx, Safes \ Old)
    BY <2>1, <2>2 DEF Execs, txVars
  <2>4. /\ Ids(Execs(idx, Old))' = Ids(Execs(idx, Old))
        /\ Entries(Execs(idx, Safes \ Old))' = Entries(Execs(idx, Safes \ Old))
    BY <2>1, <2>2, <2>3 DEF Ids, Entries, txVars
  <2>5. CommittedExact' /\ TransactionExact' /\ BetweenBlocks'
    BY <2>1 DEF CommittedExact, TransactionExact, BetweenBlocks, dbVars, txVars
  <2>6. ParkedOnce' = ParkedOnce
    BY <2>1 DEF ParkedOnce
  <2>7. InLogs'
    BY <2>1, <2>2, <2>4, <2>6 DEF InLogs, txVars
  <2>8. InParked'
    BY <2>1, <2>2, <2>6 DEF InParked, txVars
  <2> QED BY <2>5, <2>7, <2>8
<1>2. CASE BeginTransaction
  <2>1. PICK base \in 0 .. Len(applied), n \in 1 .. Len(chain) :
          /\ IsForkPoint(applied, chain, base)
          /\ n > base
          /\ fetched' = SubSeq(chain, 1, n)
          /\ RollBackTo(base)
    BY <1>2 DEF BeginTransaction
  <2>2. base \in Nat /\ base < n /\ chain \in Seq(Seq(Log))
    BY <2>1, LenProperties DEF TypeOK
  <2>3. IsForkPoint(applied, fetched', base)
    BY <2>1, <2>2, FetchedForkPoint
  <2> QED BY <1>2, <2>1, <2>3, RollBackExact DEF BeginTransaction
<1>3. CASE Retry
  <2>1. PICK base \in 0 .. Len(applied) : IsForkPoint(applied, fetched, base) /\ RollBackTo(base)
    BY <1>3 DEF Retry
  <2>2. fetched' = fetched /\ dbVars' = dbVars
    BY <1>3 DEF Retry
  <2>3. IsForkPoint(applied, fetched', base)
    BY <2>1, <2>2
  <2> QED BY <2>1, <2>2, <2>3, RollBackExact
<1>4. CASE Handle
  <2>1. pc = "logs" /\ pc' = "logs" /\ dbVars' = dbVars /\ txVars' = txVars
    BY <1>4 DEF Handle
  <2>2. CommittedExact' /\ TransactionExact' /\ BetweenBlocks' /\ InParked'
    BY <2>1 DEF CommittedExact, TransactionExact, BetweenBlocks, InParked, dbVars, txVars
  <2>3. PICK log : log = fetched[Current][idx + 1] /\ Dispatch(log)
    BY <1>4 DEF Handle
  <2>4. InLogs'
    BY <1>4, <2>3, CreateExact, SafeLogExact DEF Dispatch
  <2> QED BY <2>2, <2>4
<1>5. CASE EndLogs \/ HandleParked
  <2>1. pc' = "parked" /\ pc # "idle" /\ dbVars' = dbVars /\ txVars' = txVars
    BY <1>5 DEF EndLogs, HandleParked
  <2>2. CommittedExact' /\ TransactionExact' /\ BetweenBlocks' /\ InLogs'
    BY <2>1 DEF CommittedExact, TransactionExact, BetweenBlocks, InLogs, dbVars, txVars
  <2> QED BY <1>5, <2>2, EndLogsExact, HandleParkedExact
<1>6. CASE EndBlock
  BY <1>6, EndBlockExact
<1>7. CASE Flush
  BY <1>7, FlushExact
<1>8. CASE Commit
  BY <1>8, CommitExact
<1>9. CASE Restart
  BY <1>9 DEF Restart, EndTransaction, CommittedExact, TransactionExact, BetweenBlocks,
          InLogs, InParked, dbVars
<1> QED BY <1>1, <1>2, <1>3, <1>4, <1>5, <1>6, <1>7, <1>8, <1>9 DEF Next, Process

LEMMA SafeLogsInductive == Spec => [](TypeOK /\ Inductive)
<1>1. Init => TypeOK /\ Inductive
  BY InitTyped, InitInductive
<1>2. (TypeOK /\ Inductive) /\ [Next]_vars => (TypeOK /\ Inductive)'
  <2> SUFFICES ASSUME TypeOK, Inductive, [Next]_vars
               PROVE  (TypeOK /\ Inductive)'
    OBVIOUS
  <2>1. (TypeOK /\ TransactionOpen)'
    BY NextTyped DEF Inductive
  <2>2. (CommittedExact /\ TransactionExact /\ BetweenBlocks /\ InLogs /\ InParked)'
    BY <2>1, NextExact
  <2>3. (KnownCoversRows /\ KnownInTransaction)'
    BY NextKnown
  <2> QED BY <2>1, <2>2, <2>3 DEF Inductive
<1> QED BY <1>1, <1>2, PTL DEF Spec

\* In every committed state, after every block, each execution log of a Safe
\* registered by the end of its block has been handled exactly once and no other
\* log has (safeLogs.ts:11-14): for any blocks, batches, forks, retries, restarts.
THEOREM ExecutionsHandledOnce == Spec => []EachExecutionOnce
<1>1. TypeOK /\ Inductive => EachExecutionOnce
  <2> SUFFICES ASSUME TypeOK, Inductive, NEW n \in 1 .. Len(applied)
               PROVE  HandledOnce(history[n], Due(applied, n))
    BY DEF EachExecutionOnce
  <2>1. n \in 0 .. Len(history) /\ n # 0
    BY LenProperties DEF TypeOK
  <2> QED BY <2>1 DEF Inductive, CommittedExact, Exact, After
<1> QED BY <1>1, SafeLogsInductive, PTL

\* Whatever is rolled back, retried or left unflushed, a miss of the known set
\* means that there is no row (entityCache.ts:78-80).
THEOREM KnownSetCovers == Spec => []KnownCoversRows
<1>1. TypeOK /\ Inductive => KnownCoversRows
  BY DEF Inductive
<1> QED BY <1>1, SafeLogsInductive, PTL

-----------------------------------------------------------------------------
(* The refinement: what is handled, in its order.                            *)

ParkedInOrder ==
  \A j, k \in DOMAIN parked : j < k => parked[j].id[2] < parked[k].id[2]

\* Within a block: the logs of the Safes that had a row before it are handled
\* in log order; at its end so are those, up to some log, of the Safes that it
\* registered, and the rest is parked.
InOrder ==
  /\ pc = "logs" =>
       work.handled = After(trail, Len(trail)).handled
                      \o Triggers(fetched[Current], Current, Old)[idx]
  /\ pc = "parked" =>
       /\ idx = Len(fetched[Current])
       /\ fresh = RowsOf(fetched, Current) \ Old
       /\ \E i \in 0 .. idx :
            /\ work.handled = After(trail, Len(trail)).handled
                              \o Triggers(fetched[Current], Current, Old)[idx]
                              \o Triggers(fetched[Current], Current, fresh)[i]
            /\ Contents(parked) = Entries({j \in Execs(idx, Safes \ Old) : i < j})
  /\ pc \in {"logs", "parked"} => ParkedInOrder

\* The tables after each block are those of graph-node.
TablesAreRuns ==
  /\ \A n \in 0 .. Len(applied) : After(history, n) = Subgraph!Run(SubSeq(applied, 1, n))
  /\ \A n \in 0 .. Len(trail) : After(trail, n) = Subgraph!Run(SubSeq(fetched, 1, n))

Refining == InOrder /\ TablesAreRuns

\* Triggers by recursion on the number of logs: a run of an Indexer of logs.
Trigger(ids, log, n) == IF log.due THEN Append(ids, log.id) ELSE ids

Logs == INSTANCE IndexerProofs
          WITH Event <- {}, EmptyTable <- <<>>, Apply <- Trigger, db <- db

Hit(block, safes, i) == block[i].op = "exec" /\ block[i].safe \in safes

Recurs(t, block, b, safes) ==
  /\ t[0] = <<>>
  /\ \A i \in 1 .. Len(block) :
        t[i] = IF Hit(block, safes, i) THEN Append(t[i - 1], <<b, i>>) ELSE t[i - 1]

LEMMA TriggersStep ==
  ASSUME NEW block, Len(block) \in Nat, NEW b, NEW safes
  PROVE  Recurs(Triggers(block, b, safes), block, b, safes)
<1> DEFINE Entry(f, i) == IF i = 0 THEN <<>>
                          ELSE IF block[i].op = "exec" /\ block[i].safe \in safes
                          THEN Append(f[i - 1], <<b, i>>) ELSE f[i - 1]
           IsTriggers(f) == f = [i \in 0 .. Len(block) |-> Entry(f, i)]
<1>1. \E f : IsTriggers(f)
  <2> DEFINE logs == [i \in 1 .. Len(block) |->
                        [due |-> block[i].op = "exec" /\ block[i].safe \in safes,
                         id |-> <<b, i>>]]
             Other(f, i) == IF i = 0 THEN <<>> ELSE Trigger(f[i - 1], logs[i], i)
  <2>1. PICK f : Logs!IsRun(f, logs, Len(block))
    BY Logs!RunExists, Zenon
  <2>2. f = [i \in 0 .. Len(block) |-> Other(f, i)]
    BY <2>1, Zenon DEF Logs!IsRun
  <2>3. \A i \in 0 .. Len(block) : Other(f, i) = Entry(f, i)
    <3> SUFFICES ASSUME NEW i \in 0 .. Len(block), i # 0
                 PROVE  Trigger(f[i - 1], logs[i], i) = Entry(f, i)
      OBVIOUS
    <3>1. logs[i] = [due |-> block[i].op = "exec" /\ block[i].safe \in safes, id |-> <<b, i>>]
      OBVIOUS
    <3> HIDE DEF logs
    <3>2. logs[i].id = <<b, i>> /\ logs[i].due = (block[i].op = "exec" /\ block[i].safe \in safes)
      BY <3>1
    <3>3. CASE block[i].op = "exec" /\ block[i].safe \in safes
      <4>1. logs[i].due
        BY <3>2, <3>3
      <4> QED BY <3>2, <3>3, <4>1, Zenon DEF Trigger
    <3>4. CASE ~ (block[i].op = "exec" /\ block[i].safe \in safes)
      <4>1. ~ logs[i].due
        BY <3>2, <3>4
      <4> QED BY <3>4, <4>1, Zenon DEF Trigger
    <3> QED BY <3>3, <3>4
  <2> HIDE DEF Other, Entry
  <2>4. [i \in 0 .. Len(block) |-> Other(f, i)] = [i \in 0 .. Len(block) |-> Entry(f, i)]
    BY <2>3
  <2>5. IsTriggers(f)
    BY <2>2, <2>4
  <2> QED BY <2>5
<1>2. IsTriggers(CHOOSE f : IsTriggers(f))
  BY <1>1, Zenon
<1>3. Triggers(block, b, safes) = CHOOSE f : IsTriggers(f)
  BY Zenon DEF Triggers
<1> DEFINE t == Triggers(block, b, safes)
<1>4. t = [i \in 0 .. Len(block) |-> Entry(t, i)]
  BY <1>2, <1>3, Zenon
<1> HIDE DEF t
<1>5. \A i \in 0 .. Len(block) : t[i] = Entry(t, i)
  <2> HIDE DEF Entry
  <2> QED BY <1>4
<1>6. t[0] = <<>>
  <2>1. 0 \in 0 .. Len(block)
    OBVIOUS
  <2>2. t[0] = Entry(t, 0)
    BY <1>5, <2>1, Zenon
  <2> QED BY <2>2, Zenon
<1>7. \A i \in 1 .. Len(block) :
        t[i] = IF Hit(block, safes, i) THEN Append(t[i - 1], <<b, i>>) ELSE t[i - 1]
  <2> SUFFICES ASSUME NEW i \in 1 .. Len(block)
               PROVE  t[i] = IF Hit(block, safes, i) THEN Append(t[i - 1], <<b, i>>) ELSE t[i - 1]
    OBVIOUS
  <2>1. i # 0 /\ t[i] = Entry(t, i)
    BY <1>5
  <2> QED BY <2>1, Zenon DEF Hit
<1>8. Recurs(t, block, b, safes)
  BY <1>6, <1>7, Zenon DEF Recurs
<1> QED BY <1>8 DEF t

LEMMA TriggersTyped ==
  ASSUME NEW block, Len(block) \in Nat, NEW b \in Nat, NEW safes
  PROVE  \A i \in 0 .. Len(block) : Triggers(block, b, safes)[i] \in Seq(LogId)
<1> DEFINE T == {i \in 0 .. Len(block) : Triggers(block, b, safes)[i] \notin Seq(LogId)}
<1> DEFINE t == Triggers(block, b, safes)
<1>0. Recurs(t, block, b, safes)
  BY TriggersStep
<1>1. SUFFICES ASSUME T # {} PROVE FALSE
  OBVIOUS
<1>2. PICK i \in T : \A y \in T : ~ (y < i)
  <2>1. T \subseteq Nat
    OBVIOUS
  <2> QED BY <1>1, <2>1, Steps!LeastNumber, Zenon
<1>3. i \in 0 .. Len(block) /\ t[i] \notin Seq(LogId)
  OBVIOUS
<1>4. i # 0
  BY <1>0, <1>3, EmptySeq, Zenon DEF Recurs
<1>5. i \in 1 .. Len(block) /\ i - 1 \in 0 .. Len(block) /\ i - 1 < i
  BY <1>3, <1>4
<1>6. t[i - 1] \in Seq(LogId)
  BY <1>2, <1>5
<1>7. <<b, i>> \in LogId
  BY <1>5 DEF LogId
<1>8. Append(t[i - 1], <<b, i>>) \in Seq(LogId)
  BY <1>6, <1>7, AppendProperties, Zenon
<1> QED BY <1>0, <1>3, <1>5, <1>6, <1>8, Zenon DEF Recurs

\* Logs that are not handled change nothing.
LEMMA TriggersSame ==
  ASSUME NEW block, Len(block) \in Nat, NEW b, NEW safes,
         NEW i \in 0 .. Len(block), NEW n \in i .. Len(block),
         \A j \in i + 1 .. n : ~ Hit(block, safes, j)
  PROVE  Triggers(block, b, safes)[n] = Triggers(block, b, safes)[i]
<1> DEFINE t == Triggers(block, b, safes)
           T == {j \in i .. n : t[j] # t[i]}
<1>1. SUFFICES ASSUME T # {} PROVE FALSE
  BY n \in i .. n
<1>2. PICK j \in T : \A y \in T : ~ (y < j)
  <2>1. T \subseteq Nat
    OBVIOUS
  <2> QED BY <1>1, <2>1, Steps!LeastNumber, Zenon
<1>3. j \in i .. n /\ t[j] # t[i]
  OBVIOUS
<1>4. j # i
  BY <1>3
<1>5. j \in i + 1 .. n /\ j - 1 \in i .. n /\ j - 1 < j /\ j \in 1 .. Len(block)
  BY <1>3, <1>4
<1>6. t[j - 1] = t[i]
  BY <1>2, <1>5
<1>7. t[j] = t[j - 1]
  <2>1. Recurs(t, block, b, safes)
    BY TriggersStep
  <2>2. ~ Hit(block, safes, j)
    BY <1>5
  <2> HIDE DEF t
  <2> QED BY <1>5, <2>1, <2>2, Zenon DEF Recurs
<1> QED BY <1>3, <1>6, <1>7

\* A sequence is longer by one when what is put behind it is.
LEMMA AppendBehind ==
  \A s, t \in Seq(LogId) : \A x \in LogId :
    s \o Append(t, x) = Append(s \o t, x) /\ s \o t \in Seq(LogId)
<1> SUFFICES ASSUME NEW s \in Seq(LogId), NEW t \in Seq(LogId), NEW x \in LogId
             PROVE  s \o Append(t, x) = Append(s \o t, x) /\ s \o t \in Seq(LogId)
  OBVIOUS
<1>1. Append(t, x) \in Seq(LogId) /\ s \o t \in Seq(LogId)
  BY AppendProperties, ConcatProperties
<1>2. s \o Append(t, x) \in Seq(LogId) /\ Append(s \o t, x) \in Seq(LogId)
  BY <1>1, AppendProperties, ConcatProperties
<1>3. Len(s \o Append(t, x)) = Len(Append(s \o t, x))
  BY <1>1, AppendProperties, ConcatProperties, LenProperties
<1>4. \A i \in 1 .. Len(Append(s \o t, x)) : (s \o Append(t, x))[i] = Append(s \o t, x)[i]
  <2>1. Len(s) \in Nat /\ Len(t) \in Nat
    BY LenProperties
  <2>2. /\ Len(Append(t, x)) = Len(t) + 1 /\ Append(t, x)[Len(t) + 1] = x
        /\ \A i \in 1 .. Len(t) : Append(t, x)[i] = t[i]
    BY AppendProperties
  <2>3. /\ Len(s \o t) = Len(s) + Len(t)
        /\ \A i \in 1 .. Len(s) + Len(t) :
              (s \o t)[i] = IF i <= Len(s) THEN s[i] ELSE t[i - Len(s)]
    BY ConcatProperties
  <2>4. /\ Len(Append(s \o t, x)) = Len(s) + Len(t) + 1
        /\ Append(s \o t, x)[Len(s) + Len(t) + 1] = x
        /\ \A i \in 1 .. Len(s) + Len(t) : Append(s \o t, x)[i] = (s \o t)[i]
    BY <1>1, <2>3, AppendProperties
  <2>5. \A i \in 1 .. Len(s) + (Len(t) + 1) :
           (s \o Append(t, x))[i]
             = IF i <= Len(s) THEN s[i] ELSE Append(t, x)[i - Len(s)]
    BY <1>1, <2>2, ConcatProperties
  <2> DEFINE u == Append(t, x)
             v == Append(s \o t, x)
             w == s \o Append(t, x)
             y == s \o t
  <2>6. \A i \in 1 .. Len(s) + Len(t) + 1 : w[i] = v[i]
    <3> SUFFICES ASSUME NEW i \in 1 .. Len(s) + Len(t) + 1 PROVE w[i] = v[i]
      OBVIOUS
    <3> HIDE DEF u, v, w, y
    <3>1. CASE i <= Len(s)
      BY <2>1, <2>3, <2>4, <2>5, <3>1 DEF u, v, w, y
    <3>2. CASE Len(s) < i /\ i <= Len(s) + Len(t)
      <4>1. /\ i - Len(s) \in 1 .. Len(t) /\ ~ (i <= Len(s)) /\ i \in 1 .. Len(s) + Len(t)
            /\ i \in 1 .. Len(s) + (Len(t) + 1)
        BY <2>1, <3>2
      <4>2. w[i] = u[i - Len(s)] /\ v[i] = y[i] /\ y[i] = t[i - Len(s)] /\ u[i - Len(s)] = t[i - Len(s)]
        BY <2>2, <2>3, <2>4, <2>5, <4>1, Zenon DEF u, v, w, y
      <4> QED BY <4>2
    <3>3. CASE i = Len(s) + Len(t) + 1
      <4>1. i - Len(s) = Len(t) + 1 /\ ~ (i <= Len(s)) /\ i \in 1 .. Len(s) + (Len(t) + 1)
        BY <2>1, <3>3
      <4>2. w[i] = u[i - Len(s)]
        BY <2>5, <4>1, Zenon DEF u, w
      <4>3. v[i] = x /\ u[Len(t) + 1] = x
        BY <2>2, <2>4, <3>3, Zenon DEF u, v
      <4> QED BY <4>1, <4>2, <4>3
    <3> QED BY <2>1, <3>1, <3>2, <3>3
  <2> QED BY <2>4, <2>6
<1> QED BY <1>1, <1>2, <1>3, <1>4, SeqEqual

\* Where the handler is: a log of a block.
LEMMA InBlock ==
  ASSUME TypeOK, TransactionOpen, pc \in {"logs", "parked"}
  PROVE  /\ Current \in 1 .. Len(fetched) /\ Current \in Nat /\ Current = Len(trail) + 1
         /\ fetched[Current] \in Seq(Log) /\ Len(fetched[Current]) \in Nat /\ idx \in Nat
         /\ Len(trail) \in Nat /\ After(trail, Len(trail)) \in Tables
         /\ After(trail, Len(trail)).handled \in Seq(LogId) /\ work.handled \in Seq(LogId)
<1>1. Current \in 1 .. Len(fetched) /\ Current \in Nat /\ Len(fetched) \in Nat
      /\ Len(trail) \in Nat /\ Current = Len(trail) + 1
  BY LenProperties DEF TypeOK, TransactionOpen, Current
<1>2. fetched[Current] \in Seq(Log)
  BY <1>1, ElementOfSeq DEF TypeOK
<1>3. After(trail, Len(trail)) \in Tables
  BY <1>1, AfterOK DEF TypeOK
<1> QED BY <1>1, <1>2, <1>3, LenProperties, TablesFacts DEF TypeOK

LEMMA HandleInOrder ==
  ASSUME TypeOK, Inductive, InOrder, Handle
  PROVE  InOrder'
<1> DEFINE log    == fetched[Current][idx + 1]
           block  == fetched[Current]
           before == After(trail, Len(trail)).handled
           ids    == Triggers(block, Current, Old)
<1>0. TransactionOpen /\ TransactionExact /\ InLogs /\ KnownCoversRows /\ KnownInTransaction
  BY DEF Inductive
<1>1. /\ pc = "logs" /\ pc' = "logs" /\ fetched' = fetched /\ trail' = trail
      /\ idx' = idx + 1 /\ Current' = Current /\ Old' = Old /\ Dispatch(log)
      /\ idx < Len(block)
  BY DEF Handle, txVars, Current, Old
<1>2. /\ Current \in Nat /\ Len(block) \in Nat /\ idx \in Nat /\ before \in Seq(LogId)
      /\ idx + 1 \in 1 .. Len(block) /\ idx \in 0 .. Len(block) /\ idx + 1 - 1 = idx
  BY <1>0, <1>1, InBlock
<1>3. /\ ids[idx + 1] = IF Hit(block, Old, idx + 1) THEN Append(ids[idx], <<Current, idx + 1>>)
                        ELSE ids[idx]
      /\ ids[idx] \in Seq(LogId)
  <2>1. Recurs(ids, block, Current, Old)
    BY <1>2, TriggersStep
  <2>2. ids[idx] \in Seq(LogId)
    BY <1>2, TriggersTyped
  <2> HIDE DEF ids, block
  <2> QED BY <1>2, <2>1, <2>2 DEF Recurs
<1>4. log.safe \in Safes /\ <<Current, idx + 1>> \in LogId
  BY <1>0, <1>1, LogStep
<1>5. SUFFICES ASSUME TRUE
               PROVE  work'.handled = before \o ids[idx + 1] /\ ParkedInOrder'
  BY <1>1 DEF InOrder
<1>6. work.handled = before \o ids[idx] /\ ParkedInOrder /\ work \in Tables
  BY <1>1 DEF InOrder, TypeOK
<1> HIDE DEF ids, before
<1>7. CASE log.op # "exec"
  <2>1. work'.handled = work.handled /\ parked' = parked
    BY <1>1, <1>6, <1>7 DEF Dispatch, CreateMultisig, OrphanMultisig, Tables
  <2>2. ~ Hit(block, Old, idx + 1)
    BY <1>7 DEF Hit
  <2> QED BY <1>3, <1>6, <2>1, <2>2 DEF ParkedInOrder
<1>8. CASE log.op = "exec" /\ log.safe \in Old
  <2>1. SafeLog(log.safe) /\ AtOnce(log.safe) /\ log.safe \in work.rows
    BY <1>0, <1>1, <1>4, <1>8, AtOnceIsOld DEF Dispatch, AtOnce
  <2>2. /\ work'.handled = Append(work.handled, <<Current, idx + 1>>)
        /\ parked' = parked
    BY <1>6, <2>1 DEF SafeLog, Executed, Tables
  <2>3. Hit(block, Old, idx + 1)
    BY <1>8 DEF Hit
  <2>4. before \o ids[idx + 1] = Append(before \o ids[idx], <<Current, idx + 1>>)
    <3>1. ids[idx + 1] = Append(ids[idx], <<Current, idx + 1>>)
      BY <1>3, <2>3
    <3>2. before \o Append(ids[idx], <<Current, idx + 1>>) = Append(before \o ids[idx], <<Current, idx + 1>>)
      BY <1>2, <1>3, <1>4, AppendBehind
    <3> QED BY <3>1, <3>2
  <2> QED BY <1>6, <2>2, <2>4 DEF ParkedInOrder
<1>9. CASE log.op = "exec" /\ log.safe \notin Old
  <2> DEFINE entry == [id |-> <<Current, idx + 1>>, safe |-> log.safe]
  <2>1. SafeLog(log.safe) /\ ~ AtOnce(log.safe)
    BY <1>0, <1>1, <1>4, <1>9, AtOnceIsOld DEF Dispatch
  <2>2. work' = work /\ parked' = Append(parked, entry)
    BY <2>1 DEF SafeLog
  <2>3. ~ Hit(block, Old, idx + 1)
    BY <1>9 DEF Hit
  <2>4. work'.handled = before \o ids[idx + 1]
    BY <1>3, <1>6, <2>2, <2>3
  <2>5. entry.id[2] = idx + 1 /\ entry \in [id : LogId, safe : Safes]
    BY <1>4
  <2>6. \A k \in DOMAIN parked : parked[k].id[2] \in 1 .. idx
    <3> SUFFICES ASSUME NEW k \in DOMAIN parked PROVE parked[k].id[2] \in 1 .. idx
      OBVIOUS
    <3>1. parked[k] \in Entries(Execs(idx, Safes \ Old))
      BY <1>0, <1>1 DEF InLogs, Contents
    <3>2. PICK j \in Execs(idx, Safes \ Old) :
            parked[k] = [id |-> <<Current, j>>, safe |-> fetched[Current][j].safe]
      BY <3>1 DEF Entries
    <3> QED BY <3>2 DEF Execs
  <2> HIDE DEF entry
  <2>7. /\ DOMAIN parked' = 1 .. Len(parked) + 1 /\ DOMAIN parked = 1 .. Len(parked)
        /\ Len(parked) \in Nat
        /\ \A k \in 1 .. Len(parked) : parked'[k] = parked[k]
        /\ parked'[Len(parked) + 1] = entry
    <3>1. parked \in Seq([id : LogId, safe : Safes])
      BY DEF TypeOK
    <3> QED BY <2>2, <2>5, <3>1, AppendProperties, LenProperties
  <2>8. ParkedInOrder'
    <3> SUFFICES ASSUME NEW j \in 1 .. Len(parked) + 1, NEW k \in 1 .. Len(parked) + 1, j < k
                 PROVE  parked'[j].id[2] < parked'[k].id[2]
      BY <2>7 DEF ParkedInOrder
    <3>1. j \in 1 .. Len(parked) /\ j \in DOMAIN parked
      BY <2>7
    <3>2. CASE k = Len(parked) + 1
      BY <1>2, <2>5, <2>6, <2>7, <3>1, <3>2
    <3>3. CASE k # Len(parked) + 1
      <4>1. k \in 1 .. Len(parked) /\ k \in DOMAIN parked
        BY <2>7, <3>3
      <4> QED BY <1>6, <2>7, <3>1, <4>1 DEF ParkedInOrder
    <3> QED BY <3>2, <3>3
  <2> QED BY <2>4, <2>8
<1> QED BY <1>7, <1>8, <1>9

LEMMA EndLogsInOrder ==
  ASSUME TypeOK, Inductive, InOrder, EndLogs
  PROVE  InOrder'
<1> DEFINE block  == fetched[Current]
           before == After(trail, Len(trail)).handled
           ids    == Triggers(block, Current, Old)[idx]
           late   == Triggers(block, Current, fresh)
<1>0. TransactionOpen /\ InLogs
  BY DEF Inductive
<1>1. /\ pc = "logs" /\ pc' = "parked" /\ fetched' = fetched /\ trail' = trail /\ idx' = idx
      /\ Current' = Current /\ Old' = Old /\ work' = work /\ fresh' = fresh
      /\ parked' = parked /\ idx = Len(block)
  BY DEF EndLogs, txVars, Current, Old
<1>2. /\ Current \in Nat /\ Len(block) \in Nat /\ before \in Seq(LogId) /\ idx \in Nat
      /\ 0 \in 0 .. idx
  BY <1>0, <1>1, InBlock
<1>3. late[0] = <<>> /\ ids \in Seq(LogId)
  <2>1. Recurs(late, block, Current, fresh)
    BY <1>2, TriggersStep
  <2>2. late[0] = <<>>
    BY <2>1, Zenon DEF Recurs
  <2>3. idx \in 0 .. Len(block)
    BY <1>1, <1>2
  <2>4. ids \in Seq(LogId)
    BY <1>2, <2>3, TriggersTyped
  <2> QED BY <2>2, <2>4
<1>4. work.handled = before \o ids /\ ParkedInOrder
  BY <1>1 DEF InOrder
<1>5. work.handled = before \o ids \o late[0]
  <2>1. before \o ids \in Seq(LogId)
    BY <1>2, <1>3, ConcatProperties
  <2> HIDE DEF late
  <2> QED BY <1>3, <1>4, <2>1, ConcatEmptySeq
<1>6. /\ fresh = RowsOf(fetched, Current) \ Old
      /\ Contents(parked) = Entries(Execs(idx, Safes \ Old))
  BY <1>0, <1>1, BlockDue DEF InLogs
<1>7. {j \in Execs(idx, Safes \ Old) : 0 < j} = Execs(idx, Safes \ Old)
  BY DEF Execs
<1>8. Contents(parked) = Entries({j \in Execs(idx, Safes \ Old) : 0 < j})
  BY <1>6, <1>7
<1>9. /\ Contents(parked)' = Contents(parked)
      /\ \A i : Entries({j \in Execs(idx, Safes \ Old) : i < j})'
                  = Entries({j \in Execs(idx, Safes \ Old) : i < j})
      /\ ParkedInOrder'
  BY <1>1, <1>4 DEF Contents, Entries, Execs, ParkedInOrder
<1> QED BY <1>1, <1>2, <1>5, <1>6, <1>8, <1>9 DEF InOrder

\* The first of what is parked, and the rest.
LEMMA FirstParked ==
  ASSUME TypeOK, parked # <<>>
  PROVE  /\ DOMAIN parked = 1 .. Len(parked) /\ 1 \in DOMAIN parked /\ Head(parked) = parked[1]
         /\ Len(parked) \in Nat
         /\ DOMAIN Tail(parked) = 1 .. Len(parked) - 1
         /\ \A k \in 1 .. Len(parked) - 1 : Tail(parked)[k] = parked[k + 1]
<1>1. /\ parked \in Seq([id : LogId, safe : Safes])
      /\ Len(parked) \in Nat /\ DOMAIN parked = 1 .. Len(parked) /\ Len(parked) # 0
  BY LenProperties, EmptySeq DEF TypeOK
<1>2. 1 \in 1 .. Len(parked) /\ Head(parked) = parked[1]
  BY <1>1
<1>3. /\ Tail(parked) \in Seq([id : LogId, safe : Safes])
      /\ Len(Tail(parked)) = Len(parked) - 1
      /\ \A k \in 1 .. Len(parked) - 1 : Tail(parked)[k] = parked[k + 1]
  BY <1>1, HeadTailProperties
<1>4. DOMAIN Tail(parked) = 1 .. Len(parked) - 1
  BY <1>3, LenProperties
<1> QED BY <1>1, <1>2, <1>3, <1>4

LEMMA HandleParkedInOrder ==
  ASSUME TypeOK, Inductive, InOrder, HandleParked
  PROVE  InOrder'
<1> DEFINE block  == fetched[Current]
           before == After(trail, Len(trail)).handled
           ids    == Triggers(block, Current, Old)[idx]
           late   == Triggers(block, Current, fresh)
           rest(i) == {j \in Execs(idx, Safes \ Old) : i < j}
           entryOf(j) == [id |-> <<Current, j>>, safe |-> block[j].safe]
<1>0. TransactionOpen /\ InParked
  BY DEF Inductive
<1>1. /\ pc = "parked" /\ pc' = "parked" /\ fetched' = fetched /\ trail' = trail /\ idx' = idx
      /\ Current' = Current /\ Old' = Old /\ fresh' = fresh
      /\ parked # <<>> /\ parked' = Tail(parked)
      /\ work' = IF Head(parked).safe \in fresh
                 THEN Executed(work, Head(parked).id, Head(parked).safe) ELSE work
  BY DEF HandleParked, txVars, Current, Old
<1>2. /\ Current \in Nat /\ Len(block) \in Nat /\ before \in Seq(LogId) /\ idx \in Nat
      /\ idx = Len(block) /\ fresh = RowsOf(fetched, Current) \ Old /\ ParkedInOrder
      /\ fresh \subseteq Safes \ Old /\ fresh \subseteq work.rows /\ work \in Tables
  BY <1>0, <1>1, InBlock DEF InOrder, InParked, RowsOf, TypeOK
<1>3. PICK i \in 0 .. idx : /\ work.handled = before \o ids \o late[i]
                            /\ Contents(parked) = Entries(rest(i))
  BY <1>1 DEF InOrder
<1>4. /\ DOMAIN parked = 1 .. Len(parked) /\ 1 \in DOMAIN parked /\ Head(parked) = parked[1]
      /\ Len(parked) \in Nat
      /\ DOMAIN parked' = 1 .. Len(parked) - 1
      /\ \A k \in 1 .. Len(parked) - 1 : parked'[k] = parked[k + 1]
  BY <1>1, FirstParked
<1>5. \A n : Entries(rest(n)) = {entryOf(j) : j \in rest(n)}
  BY DEF Entries
<1>6. \A j : entryOf(j).id[2] = j /\ entryOf(j).safe = block[j].safe /\ entryOf(j).id = <<Current, j>>
  OBVIOUS
<1> HIDE DEF entryOf
<1>7. PICK n \in rest(i) : Head(parked) = entryOf(n)
  <2>1. Head(parked) \in Entries(rest(i))
    BY <1>3, <1>4 DEF Contents
  <2> HIDE DEF rest
  <2> QED BY <1>5, <2>1
<1>8. n \in 1 .. idx /\ i < n /\ block[n].op = "exec" /\ block[n].safe \in Safes \ Old
  BY <1>7 DEF Execs
\* No log between the last one looked at and this one is parked.
<1>9. \A j \in rest(i) : n <= j
  <2> SUFFICES ASSUME NEW j \in rest(i) PROVE n <= j
    OBVIOUS
  <2>1. entryOf(j) \in Contents(parked)
    <3> HIDE DEF rest
    <3> QED BY <1>3, <1>5
  <2>2. PICK k \in DOMAIN parked : parked[k] = entryOf(j)
    BY <2>1 DEF Contents
  <2>3. k = 1 \/ 1 < k
    BY <1>4
  <2>4. CASE k = 1
    BY <1>4, <1>6, <1>7, <1>8, <2>2, <2>4
  <2>5. CASE 1 < k
    <3>1. parked[1].id[2] < parked[k].id[2]
      BY <1>2, <1>4, <2>5 DEF ParkedInOrder
    <3> QED BY <1>4, <1>6, <1>7, <1>8, <2>2, <3>1 DEF Execs
  <2> QED BY <2>3, <2>4, <2>5
<1>10. late[n - 1] = late[i]
  <2>1. \A j \in i + 1 .. n - 1 : ~ Hit(block, fresh, j)
    <3> SUFFICES ASSUME NEW j \in i + 1 .. n - 1, Hit(block, fresh, j) PROVE FALSE
      OBVIOUS
    <3>1. j \in rest(i)
      BY <1>2, <1>8 DEF Execs, Hit
    <3>2. n <= j
      BY <1>9, <3>1
    <3> QED BY <1>8, <3>2
  <2>2. i \in 0 .. Len(block) /\ n - 1 \in i .. Len(block)
    BY <1>2, <1>8
  <2>3. PICK m : m = n - 1
    OBVIOUS
  <2>4. m \in i .. Len(block) /\ \A j \in i + 1 .. m : ~ Hit(block, fresh, j)
    BY <2>1, <2>2, <2>3
  <2> HIDE DEF block
  <2>5. /\ Len(block) \in Nat /\ i \in 0 .. Len(block) /\ m \in i .. Len(block)
        /\ \A j \in i + 1 .. m : ~ Hit(block, fresh, j)
    BY <1>2, <2>2, <2>4
  <2>6. Triggers(block, Current, fresh)[m] = Triggers(block, Current, fresh)[i]
    BY <2>5, TriggersSame
  <2> QED BY <2>3, <2>6
<1>11. late[n] = IF block[n].safe \in fresh THEN Append(late[i], <<Current, n>>) ELSE late[i]
  <2>1. Recurs(late, block, Current, fresh)
    BY <1>2, TriggersStep
  <2> HIDE DEF late, block
  <2> QED BY <1>2, <1>8, <1>10, <2>1 DEF Recurs, Hit
<1>12. /\ ids \in Seq(LogId) /\ late[i] \in Seq(LogId) /\ <<Current, n>> \in LogId
       /\ before \o ids \in Seq(LogId)
  <2>1. Len(block) \in Nat /\ Current \in Nat /\ <<Current, n>> \in LogId
        /\ idx \in 0 .. Len(block) /\ i \in 0 .. Len(block)
    BY <1>2, <1>8 DEF LogId
  <2>2. ids \in Seq(LogId)
    <3> HIDE DEF block
    <3>1. \A k \in 0 .. Len(block) : Triggers(block, Current, Old)[k] \in Seq(LogId)
      BY <2>1, TriggersTyped
    <3> QED BY <2>1, <3>1
  <2>3. late[i] \in Seq(LogId)
    <3> HIDE DEF block
    <3>1. \A k \in 0 .. Len(block) : Triggers(block, Current, fresh)[k] \in Seq(LogId)
      BY <2>1, TriggersTyped
    <3> QED BY <2>1, <3>1
  <2> HIDE DEF ids, before, late
  <2> QED BY <1>2, <2>1, <2>2, <2>3, ConcatProperties
<1>13. work'.handled = before \o ids \o late[n]
  <2> HIDE DEF ids, before, late
  <2>1. CASE block[n].safe \in fresh
    <3>1. work'.handled = Append(work.handled, <<Current, n>>)
      BY <1>1, <1>2, <1>6, <1>7, <2>1 DEF Executed, Tables
    <3>2. before \o ids \o Append(late[i], <<Current, n>>)
            = Append(before \o ids \o late[i], <<Current, n>>)
      BY <1>12, AppendBehind
    <3> QED BY <1>3, <1>11, <2>1, <3>1, <3>2
  <2>2. CASE block[n].safe \notin fresh
    BY <1>1, <1>3, <1>6, <1>7, <1>11, <2>2
  <2> QED BY <2>1, <2>2
<1>14. ParkedInOrder'
  <2> SUFFICES ASSUME NEW j \in 1 .. Len(parked) - 1, NEW k \in 1 .. Len(parked) - 1, j < k
               PROVE  parked'[j].id[2] < parked'[k].id[2]
    BY <1>4 DEF ParkedInOrder
  <2>1. j + 1 \in DOMAIN parked /\ k + 1 \in DOMAIN parked /\ j + 1 < k + 1
    BY <1>4
  <2> QED BY <1>2, <1>4, <2>1 DEF ParkedInOrder
<1>15. Contents(parked') = Entries(rest(n))
  <2>1. Contents(parked') = {parked[k] : k \in 2 .. Len(parked)}
    <3>1. \A k \in 2 .. Len(parked) : k - 1 \in 1 .. Len(parked) - 1 /\ parked'[k - 1] = parked[k]
      BY <1>4
    <3>2. \A k \in 1 .. Len(parked) - 1 : k + 1 \in 2 .. Len(parked)
      BY <1>4
    <3> QED BY <1>4, <3>1, <3>2 DEF Contents
  <2>2. \A k \in 2 .. Len(parked) : parked[k] \in Entries(rest(n))
    <3> SUFFICES ASSUME NEW k \in 2 .. Len(parked) PROVE parked[k] \in Entries(rest(n))
      OBVIOUS
    <3>1. k \in DOMAIN parked /\ parked[1].id[2] < parked[k].id[2]
      BY <1>2, <1>4 DEF ParkedInOrder
    <3>2. PICK j \in rest(i) : parked[k] = entryOf(j)
      BY <1>3, <1>5, <3>1 DEF Contents
    <3>3. j \in rest(n)
      BY <1>4, <1>6, <1>7, <1>8, <3>1, <3>2 DEF Execs
    <3>4. Entries(rest(n)) = {entryOf(x) : x \in rest(n)}
      BY <1>5
    <3> HIDE DEF rest, entryOf
    <3> QED BY <3>2, <3>3, <3>4
  <2>3. ASSUME NEW j \in rest(n) PROVE entryOf(j) \in Contents(parked')
    <3>1. j \in rest(i) /\ n < j
      BY <1>8 DEF Execs
    <3>2. PICK k \in DOMAIN parked : parked[k] = entryOf(j)
      <4>1. entryOf(j) \in Contents(parked)
        <5> HIDE DEF rest
        <5> QED BY <1>3, <1>5, <3>1
      <4> QED BY <4>1 DEF Contents
    <3>3. k # 1
      <4>1. entryOf(j).id[2] = j /\ entryOf(n).id[2] = n /\ parked[1] = entryOf(n)
        BY <1>4, <1>6, <1>7
      <4>2. j \in Nat /\ n \in Nat
        BY <1>8, <3>1 DEF Execs
      <4> QED BY <3>1, <3>2, <4>1, <4>2
    <3>4. k \in 2 .. Len(parked)
      BY <1>4, <3>3
    <3> QED BY <2>1, <3>2, <3>4
  <2>4. Contents(parked') \subseteq Entries(rest(n))
    BY <2>1, <2>2
  <2>5. Entries(rest(n)) \subseteq Contents(parked')
    <3> HIDE DEF rest
    <3> QED BY <1>5, <2>3
  <2> QED BY <2>4, <2>5
<1>16. \A k : Entries({j \in Execs(idx, Safes \ Old) : k < j})' = Entries(rest(k))
  BY <1>1 DEF Entries, Execs
<1>17. \E k \in 0 .. idx : work'.handled = before \o ids \o late[k] /\ Contents(parked') = Entries(rest(k))
  <2>1. n \in 0 .. idx
    BY <1>8
  <2> HIDE DEF ids, before, late, rest
  <2> QED BY <1>13, <1>15, <2>1
<1> QED BY <1>1, <1>2, <1>14, <1>16, <1>17 DEF InOrder

\* A block begins with what its predecessor left.
LEMMA BeginsInOrder ==
  ASSUME (TypeOK /\ TransactionOpen)', pc' \notin {"parked"},
         pc' = "logs" => (idx = 0 /\ parked = <<>> /\ work = After(trail, Len(trail)))'
  PROVE  InOrder'
<1> SUFFICES ASSUME pc' = "logs" PROVE InOrder'
  BY DEF InOrder
<1>1. (/\ idx = 0 /\ parked = <<>> /\ work = After(trail, Len(trail)) /\ Current \in Nat
       /\ Len(fetched[Current]) \in Nat)'
  <2>1. (Current \in 1 .. Len(fetched) /\ Current \in Nat)'
    BY LenProperties DEF TypeOK, TransactionOpen, Current
  <2>2. (fetched[Current] \in Seq(Log))'
    BY <2>1, ElementOfSeq DEF TypeOK
  <2> QED BY <2>1, <2>2, LenProperties
<1>2. (Triggers(fetched[Current], Current, Old)[idx])' = <<>>
  <2>1. (Recurs(Triggers(fetched[Current], Current, Old), fetched[Current], Current, Old))'
    BY <1>1, TriggersStep
  <2> QED BY <1>1, <2>1, Zenon DEF Recurs
<1>3. work.handled' \in Seq(LogId)
  BY TablesFacts DEF TypeOK
<1>4. (work.handled = After(trail, Len(trail)).handled
                      \o Triggers(fetched[Current], Current, Old)[idx])'
  BY <1>1, <1>2, <1>3, ConcatEmptySeq
<1>5. ParkedInOrder'
  <2>1. (DOMAIN parked)' = {}
    BY <1>1, EmptySeq, LenProperties
  <2> QED BY <2>1 DEF ParkedInOrder
<1> QED BY <1>4, <1>5 DEF InOrder

\* The run of graph-node, block by block.
LEMMA RunStep ==
  ASSUME NEW s \in Seq(Seq(Log))
  PROVE  /\ Subgraph!Run(SubSeq(s, 1, 0)) = NoTables
         /\ \A n \in 0 .. Len(s) - 1 :
               Subgraph!Run(SubSeq(s, 1, n + 1))
                 = RunBlock(Subgraph!Run(SubSeq(s, 1, n)), s[n + 1], n + 1)
         /\ SubSeq(s, 1, Len(s)) = s
<1>1. \A t : Subgraph!Run(t) = Steps!Run(t)
  BY Zenon DEF Subgraph!Run, Steps!Run
<1> QED BY <1>1, Steps!RunStep

\* Chains that agree have the same prefixes, and none that the other goes past
\* is a prefix of it.
LEMMA AgreeIsPrefix ==
  ASSUME NEW s \in Seq(Seq(Log)), NEW t \in Seq(Seq(Log))
  PROVE  /\ \A n \in Nat : Agree(s, t, n) =>
              \A k \in 0 .. n : SubSeq(s, 1, k) = SubSeq(t, 1, k)
         /\ (\A n \in 0 .. Len(t) : Agree(s, t, n) => n < Len(t)) => ~ Subgraph!IsPrefix(t, s)
<1>0. Len(t) \in Nat
  BY LenProperties
<1>1. ASSUME NEW n \in Nat, Agree(s, t, n), NEW k \in 0 .. n
      PROVE  SubSeq(s, 1, k) = SubSeq(t, 1, k)
  <2>1. k \in 0 .. Len(s) /\ k \in 0 .. Len(t) /\ \A i \in 1 .. k : s[i] = t[i]
    BY <1>1, LenProperties DEF Agree
  <2>2. /\ SubSeq(s, 1, k) \in Seq(Seq(Log)) /\ SubSeq(t, 1, k) \in Seq(Seq(Log))
        /\ Len(SubSeq(s, 1, k)) = k /\ Len(SubSeq(t, 1, k)) = k
        /\ \A i \in 1 .. k : SubSeq(s, 1, k)[i] = SubSeq(t, 1, k)[i]
    BY <1>1, <2>1, SubSeqProperties, LenProperties
  <2> QED BY <2>2, SeqEqual
<1>2. ASSUME Subgraph!IsPrefix(t, s)
      PROVE  Agree(s, t, Len(t)) /\ Len(t) \in 0 .. Len(t)
  <2>1. Len(t) \in Nat /\ Len(s) \in Nat /\ Len(t) <= Len(s)
        /\ SubSeq(t, 1, Len(t)) = SubSeq(s, 1, Len(t))
    BY <1>2, LenProperties DEF Subgraph!IsPrefix
  <2>2. \A i \in 1 .. Len(t) : SubSeq(t, 1, Len(t))[i] = t[i] /\ SubSeq(s, 1, Len(t))[i] = s[i]
    BY <2>1, SubSeqProperties
  <2> QED BY <2>1, <2>2 DEF Agree
<1>3. ~ (Len(t) < Len(t))
  BY <1>0
<1>4. \A n \in Nat : Agree(s, t, n) => \A k \in 0 .. n : SubSeq(s, 1, k) = SubSeq(t, 1, k)
  BY <1>1
<1>5. (\A n \in 0 .. Len(t) : Agree(s, t, n) => n < Len(t)) => ~ Subgraph!IsPrefix(t, s)
  BY <1>2, <1>3, Zenon
<1> QED BY <1>4, <1>5

\* What a rollback leaves is what graph-node had after the blocks in common.
LEMMA RollBackRuns ==
  ASSUME TypeOK, TablesAreRuns, NEW base \in 0 .. Len(applied),
         fetched' \in Seq(Seq(Log)), IsForkPoint(applied, fetched', base), RollBackTo(base),
         UNCHANGED dbVars
  PROVE  TablesAreRuns' /\ work' = After(trail', Len(trail'))
<1>1. /\ base \in Nat /\ Len(trail') = base /\ base \in 0 .. Len(history)
      /\ applied \in Seq(Seq(Log)) /\ applied' = applied /\ history' = history
      /\ \A n \in 0 .. base : After(trail', n) = After(history, n)
      /\ work' = After(history, base)
  BY AfterPrefix, LenProperties DEF TypeOK, RollBackTo, dbVars
<1>2. Agree(applied, fetched', base)
  BY DEF IsForkPoint
<1>3. \A n \in 0 .. base : SubSeq(applied, 1, n) = SubSeq(fetched', 1, n)
  BY <1>1, <1>2, AgreeIsPrefix
<1>4. \A n \in 0 .. base : After(trail', n) = Subgraph!Run(SubSeq(fetched', 1, n))
  <2> SUFFICES ASSUME NEW n \in 0 .. base
               PROVE  After(trail', n) = Subgraph!Run(SubSeq(fetched', 1, n))
    OBVIOUS
  <2>1. n \in 0 .. Len(applied)
    BY <1>1, LenProperties
  <2> QED BY <1>1, <1>3, <2>1 DEF TablesAreRuns
<1>5. TablesAreRuns'
  BY <1>1, <1>4 DEF TablesAreRuns, After
<1> QED BY <1>1, <1>5

\* At the end of a block the tables are those graph-node leaves: every Safe has
\* had its turn.
LEMMA EndBlockRuns ==
  ASSUME TypeOK, Inductive, InOrder, TablesAreRuns, EndBlock
  PROVE  TablesAreRuns'
<1> DEFINE block  == fetched[Current]
           before == After(trail, Len(trail))
           late   == Triggers(block, Current, fresh)
           new    == {block[i].safe : i \in {j \in DOMAIN block : block[j].op = "create"}}
                     \ before.rows
<1>0. TransactionOpen /\ InParked /\ TransactionExact
  BY DEF Inductive
<1>1. /\ pc = "parked" /\ parked = <<>> /\ trail' = Append(trail, work) /\ fetched' = fetched
      /\ applied' = applied /\ history' = history
  BY DEF EndBlock, dbVars
<1>2. /\ Current \in 1 .. Len(fetched) /\ Current \in Nat /\ Current = Len(trail) + 1
      /\ block \in Seq(Log) /\ Len(block) \in Nat /\ idx \in Nat /\ Len(trail) \in Nat
      /\ before \in Tables /\ before.handled \in Seq(LogId) /\ work \in Tables
      /\ fetched \in Seq(Seq(Log)) /\ Len(fetched) \in Nat
  BY <1>0, <1>1, InBlock, LenProperties DEF TypeOK
<1>3. /\ Len(trail') = Len(trail) + 1
      /\ \A n \in 0 .. Len(trail) : After(trail', n) = After(trail, n)
      /\ After(trail', Len(trail) + 1) = work
  BY <1>1, <1>2, AfterAppend DEF TypeOK
<1>4. /\ before.rows = Old /\ work.rows = RowsOf(fetched, Current)
      /\ fresh = RowsOf(fetched, Current) \ Old /\ idx = Len(block)
  <2>1. Exact(before, fetched, Len(trail))
    BY <1>0, <1>1, <1>2 DEF TransactionExact
  <2> QED BY <1>0, <1>1, <2>1 DEF Exact, Old, InParked, InOrder
<1>5. RowsOf(fetched, Current) = Old \cup new
  <2>1. 1 .. Current = (1 .. Len(trail)) \cup {Current}
    BY <1>2
  <2>2. \A j \in DOMAIN block : block[j].safe \in Safes /\ block[j] \in Log
    BY <1>2, ElementOfSeq, LenProperties, SafeLogsAssumption DEF Log
  <2>3. \A j \in DOMAIN block, safe \in Safes :
           block[j] = [op |-> "create", safe |-> safe]
             <=> block[j].op = "create" /\ block[j].safe = safe
    BY <2>2 DEF Log
  <2>4. RowsOf(fetched, Current)
          = Old \cup {safe \in Safes : \E j \in DOMAIN block :
                                          block[j].op = "create" /\ block[j].safe = safe}
    BY <2>1, <2>3 DEF RowsOf, Registered, Old
  <2> QED BY <1>4, <2>2, <2>4
<1>6. fresh = new /\ work.rows = before.rows \cup new
  BY <1>4, <1>5
<1>7. work.handled = before.handled \o Triggers(block, Current, Old)[Len(block)]
                                    \o late[Len(block)]
  <2>1. PICK i \in 0 .. idx :
           /\ work.handled = before.handled \o Triggers(block, Current, Old)[idx] \o late[i]
           /\ Contents(parked) = Entries({j \in Execs(idx, Safes \ Old) : i < j})
    BY <1>1 DEF InOrder
  <2>2. Contents(parked) = {}
    BY <1>1, EmptySeq, LenProperties DEF Contents
  <2>3. {j \in Execs(idx, Safes \ Old) : i < j} = {}
    BY <2>1, <2>2 DEF Entries
  <2>4. \A j \in i + 1 .. Len(block) : ~ Hit(block, fresh, j)
    <3>1. fresh \subseteq Safes \ Old
      BY <1>4 DEF RowsOf
    <3> SUFFICES ASSUME NEW j \in i + 1 .. Len(block), Hit(block, fresh, j) PROVE FALSE
      OBVIOUS
    <3>2. j \in {k \in Execs(idx, Safes \ Old) : i < k}
      BY <1>2, <1>4, <3>1 DEF Execs, Hit
    <3> QED BY <2>3, <3>2
  <2>5. late[Len(block)] = late[i]
    <3>1. i \in 0 .. Len(block) /\ Len(block) \in i .. Len(block)
      BY <1>2, <1>4
    <3> HIDE DEF block
    <3> QED BY <1>2, <2>4, <3>1, TriggersSame
  <2> QED BY <1>4, <2>1, <2>5
<1>8. work = RunBlock(before, block, Current)
  <2>1. RunBlock(before, block, Current)
          = [rows    |-> before.rows \cup new,
             handled |-> before.handled \o Triggers(block, Current, before.rows)[Len(block)]
                                        \o Triggers(block, Current, new)[Len(block)]]
    BY DEF RunBlock
  <2>2. work = [rows |-> work.rows, handled |-> work.handled]
    BY <1>2, TablesFacts
  <2> HIDE DEF new, before
  <2> QED BY <1>4, <1>6, <1>7, <2>1, <2>2
<1>9. work = Subgraph!Run(SubSeq(fetched, 1, Len(trail) + 1))
  <2>1. before = Subgraph!Run(SubSeq(fetched, 1, Len(trail)))
    BY <1>2 DEF TablesAreRuns
  <2>2. Len(trail) \in 0 .. Len(fetched) - 1
    BY <1>2
  <2> HIDE DEF before
  <2> QED BY <1>2, <1>8, <2>1, <2>2, RunStep
<1>10. \A n \in 0 .. Len(trail') : After(trail', n) = Subgraph!Run(SubSeq(fetched, 1, n))
  <2> SUFFICES ASSUME NEW n \in 0 .. Len(trail) + 1
               PROVE  After(trail', n) = Subgraph!Run(SubSeq(fetched, 1, n))
    BY <1>3
  <2>1. CASE n = Len(trail) + 1
    BY <1>3, <1>9, <2>1
  <2>2. CASE n \in 0 .. Len(trail)
    BY <1>3, <2>2 DEF TablesAreRuns
  <2> QED BY <1>2, <2>1, <2>2
<1> QED BY <1>1, <1>10 DEF TablesAreRuns, After

LEMMA NoRuns ==
  ASSUME NEW s \in Seq(Seq(Log))
  PROVE  \A n \in 0 .. Len(<<>>) : After(<<>>, n) = Subgraph!Run(SubSeq(s, 1, n))
<1>1. Len(<<>>) = 0 /\ 0 .. 0 = {0}
  BY EmptySeq
<1> QED BY <1>1, RunStep DEF After

LEMMA InitRefining == Init => Refining
<1> SUFFICES ASSUME Init PROVE Refining
  OBVIOUS
<1>1. <<>> \in Seq(Seq(Log)) /\ pc = "idle" /\ applied = <<>> /\ history = <<>>
      /\ fetched = <<>> /\ trail = <<>>
  BY EmptySeq DEF Init
<1>2. TablesAreRuns
  BY <1>1, NoRuns DEF TablesAreRuns
<1> QED BY <1>1, <1>2 DEF Refining, InOrder

\* Every step keeps the order of what is handled and the tables of graph-node.
LEMMA NextRefining ==
  ASSUME TypeOK, Inductive, Refining, [Next]_vars, (TypeOK /\ TransactionOpen)'
  PROVE  Refining'
<1> USE DEF Refining
<1>0. Len(trail) \in Nat /\ Len(fetched) \in Nat
  BY LenProperties DEF TypeOK
<1>1. CASE Grow \/ Finalize \/ Fork \/ UNCHANGED vars
  <2>1. dbVars' = dbVars /\ txVars' = txVars /\ pc' = pc /\ work' = work /\ idx' = idx
        /\ fresh' = fresh /\ parked' = parked
    BY <1>1 DEF Grow, Finalize, Fork, vars, dbVars, txVars
  <2>2. Current' = Current /\ Old' = Old /\ ParkedInOrder' = ParkedInOrder
    BY <2>1 DEF Current, Old, txVars, ParkedInOrder
  <2>3. Execs(idx, Safes \ Old)' = Execs(idx, Safes \ Old)
    BY <2>1, <2>2 DEF Execs, txVars
  <2>4. \A i \in Nat : Entries({j \in Execs(idx, Safes \ Old) : i < j})'
                         = Entries({j \in Execs(idx, Safes \ Old) : i < j})
    BY <2>1, <2>2, <2>3 DEF Entries, txVars
  <2>5. InOrder'
    <3>1. /\ fetched' = fetched /\ trail' = trail
          /\ (Triggers(fetched[Current], Current, Old))' = Triggers(fetched[Current], Current, Old)
          /\ (Triggers(fetched[Current], Current, fresh))' = Triggers(fetched[Current], Current, fresh)
          /\ (After(trail, Len(trail)))' = After(trail, Len(trail))
          /\ RowsOf(fetched, Current)' = RowsOf(fetched, Current)
          /\ Contents(parked)' = Contents(parked)
          /\ Len(fetched[Current])' = Len(fetched[Current])
      BY <2>1, <2>2 DEF txVars
    <3>2. \A i \in 0 .. idx : i \in Nat
      BY DEF TypeOK
    <3> QED BY <2>1, <2>2, <2>4, <3>1, <3>2, Zenon DEF InOrder
  <2>6. TablesAreRuns'
    BY <2>1 DEF TablesAreRuns, dbVars, txVars
  <2> QED BY <2>5, <2>6
<1>2. CASE BeginTransaction \/ Retry
  <2>1. PICK base \in 0 .. Len(applied) : IsForkPoint(applied, fetched', base) /\ RollBackTo(base)
    <3>1. CASE BeginTransaction
      <4>1. PICK base \in 0 .. Len(applied), n \in 1 .. Len(chain) :
              /\ IsForkPoint(applied, chain, base)
              /\ n > base
              /\ fetched' = SubSeq(chain, 1, n)
              /\ RollBackTo(base)
        BY <3>1 DEF BeginTransaction
      <4>2. base \in Nat /\ base < n /\ chain \in Seq(Seq(Log))
        BY <4>1, LenProperties DEF TypeOK
      <4>3. IsForkPoint(applied, fetched', base)
        BY <4>1, <4>2, FetchedForkPoint
      <4> QED BY <4>1, <4>3
    <3>2. CASE Retry
      <4>1. PICK base \in 0 .. Len(applied) : IsForkPoint(applied, fetched, base) /\ RollBackTo(base)
        BY <3>2 DEF Retry
      <4>2. fetched' = fetched
        BY <3>2 DEF Retry
      <4> QED BY <4>1, <4>2
    <3> QED BY <1>2, <3>1, <3>2
  <2>2. fetched' \in Seq(Seq(Log)) /\ UNCHANGED dbVars
    BY <1>2 DEF TypeOK, BeginTransaction, Retry
  <2>3. TablesAreRuns' /\ work' = After(trail', Len(trail'))
    BY <2>1, <2>2, RollBackRuns
  <2>4. pc' = "logs" /\ idx' = 0 /\ parked' = <<>>
    BY <2>1 DEF RollBackTo
  <2>5. InOrder'
    BY <2>3, <2>4, BeginsInOrder
  <2> QED BY <2>3, <2>5
<1>3. CASE Handle \/ EndLogs \/ HandleParked
  <2>1. InOrder'
    BY <1>3, HandleInOrder, EndLogsInOrder, HandleParkedInOrder
  <2>2. dbVars' = dbVars /\ txVars' = txVars
    BY <1>3 DEF Handle, EndLogs, HandleParked
  <2> QED BY <2>1, <2>2 DEF TablesAreRuns, dbVars, txVars
<1>4. CASE EndBlock
  <2>1. pc' \in {"logs", "flush"} /\ idx' = 0 /\ parked' = <<>> /\ work' = work
        /\ trail' = Append(trail, work)
    BY <1>4 DEF EndBlock
  <2>2. work' = After(trail', Len(trail'))
    BY <2>1, <1>0, AfterAppend, SMTT(20) DEF TypeOK
  <2>3. InOrder'
    BY <2>1, <2>2, BeginsInOrder
  <2> QED BY <1>4, <2>3, EndBlockRuns
<1>5. CASE Flush
  <2>1. pc' # "parked" /\ dbVars' = dbVars /\ fetched' = fetched /\ trail' = trail
        /\ work' = work /\ idx' = idx /\ parked' = parked /\ pc = "flush"
    BY <1>5 DEF Flush
  <2>2. idx = 0 /\ work = After(trail, Len(trail)) /\ parked = <<>>
    BY <2>1 DEF Inductive, BetweenBlocks, TypeOK
  <2>3. InOrder'
    BY <2>1, <2>2, BeginsInOrder
  <2> QED BY <2>1, <2>3 DEF TablesAreRuns, dbVars
<1>6. CASE Commit
  <2>1. /\ pc' = "idle" /\ applied' = fetched /\ history' = trail
        /\ fetched' = <<>> /\ trail' = <<>> /\ pc = "commit"
    BY <1>6 DEF Commit, EndTransaction
  <2>2. Len(trail) = Len(fetched)
    BY <2>1 DEF Inductive, TransactionOpen
  <2>3. \A n \in 0 .. Len(applied') : After(history', n) = Subgraph!Run(SubSeq(applied', 1, n))
    BY <2>1, <2>2 DEF TablesAreRuns
  <2>4. <<>> \in Seq(Seq(Log))
    BY EmptySeq
  <2>5. \A n \in 0 .. Len(trail') : After(trail', n) = Subgraph!Run(SubSeq(fetched', 1, n))
    BY <2>1, <2>4, NoRuns
  <2>6. TablesAreRuns'
    BY <2>3, <2>5 DEF TablesAreRuns, After
  <2> QED BY <2>1, <2>6 DEF InOrder
<1>7. CASE Restart
  <2>1. /\ pc' = "idle" /\ applied' = applied /\ history' = history
        /\ fetched' = <<>> /\ trail' = <<>>
    BY <1>7 DEF Restart, EndTransaction, dbVars
  <2>2. <<>> \in Seq(Seq(Log))
    BY EmptySeq
  <2>3. TablesAreRuns'
    BY <2>1, <2>2, NoRuns DEF TablesAreRuns, After
  <2> QED BY <2>1, <2>3 DEF InOrder
<1> QED BY <1>1, <1>2, <1>3, <1>4, <1>5, <1>6, <1>7 DEF Next, Process

\* Every step of the squid is one of graph-node's, or none.
LEMMA StepImplements ==
  ASSUME TypeOK, Inductive, Refining, [Next]_vars, (TypeOK /\ TransactionOpen)'
  PROVE  [Subgraph!Next]_(Subgraph!vars)
<1> USE DEF Subgraph!Next, Subgraph!vars
<1>1. CASE Grow
  BY <1>1 DEF Grow, Subgraph!Grow, dbVars, txVars, db, After
<1>2. CASE Finalize
  BY <1>2 DEF Finalize, Subgraph!Finalize, dbVars, txVars, db, After
<1>3. CASE Fork
  BY <1>3 DEF Fork, Subgraph!Fork, dbVars, txVars, db, After
<1>4. CASE BeginTransaction
  <2>1. PICK n \in 1 .. Len(chain) : fetched' = SubSeq(chain, 1, n)
    BY <1>4 DEF BeginTransaction
  <2>2. UNCHANGED <<chain, final, forks, applied, db>> /\ pc' # "idle"
    BY <1>4 DEF BeginTransaction, RollBackTo, chainVars, dbVars, db, After
  <2>3. \A k \in 0 .. Len(fetched') : Agree(applied, fetched', k) => k < Len(fetched')
    BY <2>2 DEF TransactionOpen
  <2>4. ~ Subgraph!IsPrefix(fetched', applied)
    BY <2>3, AgreeIsPrefix DEF TypeOK
  <2> QED BY <2>1, <2>2, <2>4 DEF Subgraph!Fetch
<1>5. CASE Retry \/ Handle \/ EndLogs \/ HandleParked \/ EndBlock \/ Flush \/ UNCHANGED vars
  BY <1>5 DEF Retry, Handle, EndLogs, HandleParked, EndBlock, Flush, vars, chainVars, dbVars,
              txVars, db, After
<1>6. CASE Commit
  <2>1. /\ pc = "commit" /\ applied' = fetched /\ history' = trail /\ fetched' = <<>>
        /\ UNCHANGED <<chain, final, forks>>
    BY <1>6 DEF Commit, EndTransaction, chainVars
  <2>2. /\ Len(trail) = Len(fetched) /\ fetched \in Seq(Seq(Log)) /\ Len(fetched) \in Nat
        /\ \A k \in 0 .. Len(fetched) : Agree(applied, fetched, k) => k < Len(fetched)
    BY <2>1, LenProperties DEF Inductive, TransactionOpen, TypeOK
  <2>3. After(trail, Len(fetched)) = Subgraph!Run(fetched)
    <3>1. After(trail, Len(fetched)) = Subgraph!Run(SubSeq(fetched, 1, Len(fetched)))
      BY <2>2 DEF Refining, TablesAreRuns
    <3> QED BY <2>2, <3>1, RunStep
  <2>4. db' = Subgraph!Run(fetched)
    BY <2>1, <2>3 DEF db, After
  <2>5. ~ Subgraph!IsPrefix(fetched, applied)
    BY <2>2, AgreeIsPrefix DEF TypeOK
  <2> QED BY <2>1, <2>4, <2>5 DEF Subgraph!Commit
<1>7. CASE Restart
  BY <1>7 DEF Restart, EndTransaction, chainVars, dbVars, Subgraph!Abort, db, After
<1> QED BY <1>1, <1>2, <1>3, <1>4, <1>5, <1>6, <1>7 DEF Next, Process

\* The squid implements graph-node's templates: it handles the same Safe logs in
\* the same order, whatever shares a block, a call, a transaction, a retry or a
\* fork with them (safeLogs.ts:1-14).
THEOREM TemplatesImplemented == Spec => ImplementsTemplates
<1>1. Init => Subgraph!Init
  BY DEF Init, Subgraph!Init, db, After
<1>2. Spec => [](TypeOK /\ Inductive /\ Refining)
  <2>1. Init => TypeOK /\ Inductive /\ Refining
    BY InitTyped, InitInductive, InitRefining
  <2>2. (TypeOK /\ Inductive /\ Refining) /\ [Next]_vars => Refining'
    BY NextTyped, NextRefining DEF Inductive
  <2> QED BY <2>1, <2>2, SafeLogsInductive, PTL DEF Spec
<1>3. TypeOK /\ Inductive /\ Refining /\ [Next]_vars => [Subgraph!Next]_(Subgraph!vars)
  BY NextTyped, StepImplements DEF Inductive
<1> QED BY <1>1, <1>2, <1>3, PTL DEF Spec, ImplementsTemplates, Subgraph!Spec

-----------------------------------------------------------------------------
(* What is kept of the activity: ActivityInv.                              *)

\* Whom a service lists registered with it by now.
ListedRegistered ==
  \A s \in Services : services[s] # NoRow =>
    \A k \in DOMAIN services[s].agentIds : registered[<<s, services[s].agentIds[k]>>] \in 1 .. now

\* A multisig stands for one agent or, if its service had none, for none.
OneAgent == \A m \in Multisigs : multisigs[m] # NoRow => Len(multisigs[m].agentIds) <= 1

ClockTyped == now \in 1 .. MaxTime /\ loggedAt \in 0 .. MaxEvents
RegistryKept ==
  /\ services \in [Services -> {NoRow} \cup ServiceRow]
  /\ registered \in [Services \X Agents -> 0 .. MaxTime]
  /\ multisigs \in [Multisigs -> {NoRow} \cup MultisigRow]
  /\ operators \subseteq Operators /\ totalOperators \in Nat
  /\ totalOperators = Cardinality(operators)
  /\ ListedRegistered /\ OneAgent

DailyTyped ==
  /\ executed \in [Multisigs \X Days -> Nat]
  /\ activity \in [Days \X Services -> {NoRow} \cup Seq(Agents)]
  /\ uniqueAgents \subseteq Days \X Agents /\ uniqueCount \in [Days -> Nat]
  /\ performance \in [Days \X Agents -> [txCount : Nat, activeMultisigCount : Nat]]
  /\ agentMultisigs \subseteq Days \X Agents \X Multisigs
  /\ agentTxs \in [Agents -> Nat]
  /\ activeMultisigs \subseteq Days \X Multisigs /\ activeCount \in [Days -> Nat]
  /\ global \in [txCount : Nat, lastUpdated : 0 .. MaxTime]

\* The links of a day.
AgentsOn(d)       == {a \in Agents : <<d, a>> \in uniqueAgents}
MultisigsOn(d)    == {m \in Multisigs : <<d, m>> \in activeMultisigs}
MultisigsOf(d, a) == {m \in Multisigs : <<d, a, m>> \in agentMultisigs}
DailyCounted ==
  \A d \in Days :
    /\ uniqueCount[d] = Cardinality(AgentsOn(d)) /\ activeCount[d] = Cardinality(MultisigsOn(d))
    /\ \A a \in Agents : performance[<<d, a>>].activeMultisigCount = Cardinality(MultisigsOf(d, a))

DailyKept == DailyTyped /\ DailyCounted /\ DaysAgree /\ NoDoubleCounting

ActivityInv == ClockTyped /\ RegistryKept /\ DailyKept

GraphShaped(t) ==
  t = [service |-> t.service, multisig |-> t.multisig, registration |-> t.registration,
       operator |-> t.operator, creator |-> t.creator, totalOperators |-> t.totalOperators,
       activity |-> t.activity, uniqueAgent |-> t.uniqueAgent, uniqueCount |-> t.uniqueCount,
       performance |-> t.performance, agentMultisig |-> t.agentMultisig, agentTxs |-> t.agentTxs,
       activeMultisig |-> t.activeMultisig, activeCount |-> t.activeCount, global |-> t.global,
       identity |-> t.identity, metadata |-> t.metadata]

GraphTyped ==
  /\ GraphShaped(graph)
  /\ columns \in [Services -> ColumnsRow]
  /\ deployers \in [Multisigs -> {NoRow} \cup DeployerRow]
  /\ \A m \in Multisigs : deployers[m] = NoRow <=> multisigs[m] = NoRow
  /\ DOMAIN metadata = Identities \X Keys /\ metadata = [p \in Identities \X Keys |-> metadata[p]]
  /\ identities \in [Identities -> {NoRow, NoValue} \cup Multisigs]
  /\ graph.identity \in [Identities -> {NoRow, NoValue} \cup Multisigs]
  /\ graph.registration = [p \in Services \X Agents |-> graph.registration[p]]

\* An identity some service has been given has a row.
IdentitiesLinked ==
  \A s \in Services : columns[s].identity # NoValue => graph.identity[columns[s].identity] # NoRow

GraphInv == GraphTyped /\ IdentitiesLinked /\ RowsAsSubgraph

\* The day of the block under way is one of Days.
LEMMA DayNow ==
  ASSUME now \in 1 .. MaxTime
  PROVE  dayTimestamp(now) \in Days
<1> DEFINE q == now \div Day
           r == MaxTime \div Day
<1>1. Day \in Nat /\ Day > 0 /\ now \in Nat /\ MaxTime \in Nat /\ now <= MaxTime
  BY ServiceActivityAssumption
<1>2. q \in Nat /\ r \in Nat
  BY <1>1
<1>3. q * Day <= now /\ now < r * Day + Day
  BY <1>1
<1>4. q <= r
  <2>1. SUFFICES ASSUME r + 1 <= q PROVE FALSE
    BY <1>2
  <2>2. (r + 1) * Day <= q * Day
    BY <1>1, <1>2, <2>1
  <2> QED BY <1>1, <1>2, <1>3, <2>2
<1> QED BY <1>2, <1>4 DEF dayTimestamp, Days

-----------------------------------------------------------------------------
(* mostRecentAgentId.                                                      *)

\* mostRecentAgentId goes through the list: the best of the first i.
BestAfter(before, s, ids, i) ==
  LET ts == registered[<<s, ids[i]>>] IN
  IF ts # 0 /\ ts <= now /\ later(ts, before.ts) THEN [agent |-> ids[i], ts |-> ts] ELSE before
NoBest == [agent |-> NoAgent, ts |-> 0]
IsBest(f, s, ids, n) ==
  f = [i \in 0 .. n |-> IF i = 0 THEN NoBest ELSE BestAfter(f[i - 1], s, ids, i)]

\* The loop of mostRecentAgentId is defined for a list of any length.
LEMMA BestExists ==
  ASSUME NEW s, NEW ids, NEW n \in Nat
  PROVE  \E f : IsBest(f, s, ids, n)
<1> DEFINE T == {k \in Nat : ~ \E f : IsBest(f, s, ids, k)}
<1>1. SUFFICES ASSUME T # {} PROVE FALSE
  BY Zenon
<1>2. PICK k \in T : \A y \in T : ~ (y < k)
  BY <1>1, LeastIndex, Zenon
<1>3. k \in Nat /\ ~ \E f : IsBest(f, s, ids, k)
  BY Zenon
<1>4. CASE k = 0
  <2>1. IsBest([i \in 0 .. 0 |-> NoBest], s, ids, 0)
    BY DEF IsBest
  <2> QED BY <1>3, <1>4, <2>1
<1>5. CASE k # 0
  <2>1. k - 1 \in Nat /\ k - 1 < k
    BY <1>3, <1>5
  <2>2. PICK f : IsBest(f, s, ids, k - 1)
    BY <1>2, <2>1, Zenon
  <2> DEFINE g == [i \in 0 .. k |-> IF i < k THEN f[i] ELSE BestAfter(f[k - 1], s, ids, k)]
             Entry(h, i) == IF i = 0 THEN NoBest ELSE BestAfter(h[i - 1], s, ids, i)
  <2>3. \A i \in 0 .. k : g[i] = Entry(g, i)
    <3>1. ASSUME NEW i \in 0 .. k, i < k PROVE g[i] = Entry(g, i)
      <4>1. g[i] = f[i] /\ i \in 0 .. k - 1 /\ (i # 0 => g[i - 1] = f[i - 1])
        BY <2>1, <3>1, <1>3
      <4> HIDE DEF g
      <4> QED BY <2>2, <4>1 DEF IsBest
    <3>2. g[k] = Entry(g, k)
      <4>1. g[k] = BestAfter(f[k - 1], s, ids, k) /\ g[k - 1] = f[k - 1]
        BY <2>1, <1>3
      <4> HIDE DEF g
      <4> QED BY <1>5, <4>1
    <3>3. \A i \in 0 .. k : i < k \/ i = k
      BY <1>3
    <3> HIDE DEF g, Entry
    <3> QED BY <3>1, <3>2, <3>3
  <2>4. IsBest(g, s, ids, k)
    <3>1. g = [i \in 0 .. k |-> Entry(g, i)]
      <4>1. g = [i \in 0 .. k |-> g[i]]
        OBVIOUS
      <4> HIDE DEF g, Entry
      <4> QED BY <2>3, <4>1
    <3> HIDE DEF g
    <3> QED BY <3>1, Zenon DEF IsBest
  <2> QED BY <1>3, <2>4
<1> QED BY <1>4, <1>5

\* mostRecentAgentId is where that loop ends.
LEMMA MostRecentIsBest ==
  ASSUME NEW s, NEW ids, ids = services[s].agentIds, Len(ids) \in Nat
  PROVE  \E f : IsBest(f, s, ids, Len(ids)) /\ mostRecentAgentId(s) = f[Len(ids)].agent
<1> DEFINE chosen == CHOOSE f : IsBest(f, s, ids, Len(ids))
<1>1. IsBest(chosen, s, ids, Len(ids))
  BY BestExists, Zenon
<1>2. mostRecentAgentId(s) = chosen[Len(ids)].agent
  BY Zenon DEF mostRecentAgentId, IsBest, BestAfter, NoBest
<1> QED BY <1>1, <1>2

At(s, ids, i) == registered[<<s, ids[i]>>]

\* Of the first i, the agents that registered last, and the first of them.
FirstLatest(s, ids, i, k) ==
  \A j \in 1 .. i : At(s, ids, j) <= At(s, ids, k) /\ (j < k => At(s, ids, j) < At(s, ids, k))
Best(s, ids, k) == [agent |-> ids[k], ts |-> At(s, ids, k)]

\* One more agent of the list: the first of the latest stays the best, or the new one is.
LEMMA NextBest ==
  ASSUME NEW s, NEW ids, NEW i \in Nat, NEW k \in 1 .. i, now \in Nat,
         \A j \in 1 .. i + 1 : At(s, ids, j) \in 1 .. now,
         FirstLatest(s, ids, i, k)
  PROVE  \E l \in 1 .. i + 1 : /\ FirstLatest(s, ids, i + 1, l)
                               /\ BestAfter(Best(s, ids, k), s, ids, i + 1) = Best(s, ids, l)
<1>0. k \in 1 .. i + 1 /\ i + 1 \in 1 .. i + 1 /\ k < i + 1
  OBVIOUS
<1>1. \A j \in 1 .. i + 1 : j \in 1 .. i \/ j = i + 1
  OBVIOUS
<1>2. CASE At(s, ids, i + 1) > At(s, ids, k)
  <2>1. BestAfter(Best(s, ids, k), s, ids, i + 1) = Best(s, ids, i + 1)
    BY <1>0, <1>2 DEF BestAfter, Best, later, At
  <2>2. FirstLatest(s, ids, i + 1, i + 1)
    BY <1>0, <1>1, <1>2 DEF FirstLatest
  <2> QED BY <1>0, <2>1, <2>2
<1>3. CASE ~ (At(s, ids, i + 1) > At(s, ids, k))
  <2>1. BestAfter(Best(s, ids, k), s, ids, i + 1) = Best(s, ids, k)
    BY <1>0, <1>3 DEF BestAfter, Best, later, At
  <2>2. FirstLatest(s, ids, i + 1, k)
    BY <1>0, <1>1, <1>3 DEF FirstLatest
  <2> QED BY <1>0, <2>1, <2>2
<1> QED BY <1>2, <1>3

\* The first n registered before now, and the best of the first i is the first of the latest.
Dated(s, ids, n) == \A i \in 1 .. n : At(s, ids, i) \in 1 .. now
LatestSoFar(f, s, ids, n) ==
  \A i \in 1 .. n : \E k \in 1 .. i : FirstLatest(s, ids, i, k) /\ f[i] = Best(s, ids, k)

\* After every agent of the list, the best is the first of the latest.
LEMMA BestIsLatest ==
  ASSUME NEW s, NEW ids, NEW n \in Nat, NEW f, IsBest(f, s, ids, n), now \in Nat,
         Dated(s, ids, n)
  PROVE  LatestSoFar(f, s, ids, n)
<1> USE DEF Dated, LatestSoFar
<1> DEFINE Holds(i) == \E k \in 1 .. i : FirstLatest(s, ids, i, k) /\ f[i] = Best(s, ids, k)
           T == {i \in Nat : i \in 1 .. n /\ ~ Holds(i)}
<1>1. SUFFICES ASSUME T # {} PROVE FALSE
  <2>1. \A i \in 1 .. n : i \in Nat
    OBVIOUS
  <2>2. (\A i \in 1 .. n : Holds(i)) \/ \E i \in 1 .. n : ~ Holds(i)
    BY Zenon
  <2>3. (\A i \in 1 .. n : Holds(i)) \/ T # {}
    <3> HIDE DEF Holds
    <3> QED BY <2>1, <2>2
  <2> QED BY <2>3, Zenon
<1>2. T \subseteq Nat
  <2> HIDE DEF Holds
  <2> QED OBVIOUS
<1>3. PICK i \in T : \A y \in T : ~ (y < i)
  <2> HIDE DEF T
  <2> QED BY <1>1, <1>2, LeastIndex, Zenon
<1>4. i \in 1 .. n /\ i \in Nat /\ ~ Holds(i)
  BY Zenon
<1> HIDE DEF Holds
<1>5. f[0] = NoBest /\ f[i] = BestAfter(f[i - 1], s, ids, i)
  <2>1. 0 \in 0 .. n /\ i \in 0 .. n /\ i # 0
    BY <1>4
  <2> QED BY <2>1 DEF IsBest
<1>6. CASE i = 1
  <2>1. f[1] = Best(s, ids, 1)
    BY <1>4, <1>5, <1>6 DEF BestAfter, NoBest, later, Best, At
  <2>2. FirstLatest(s, ids, 1, 1)
    BY <1>4, <1>6 DEF FirstLatest
  <2> QED BY <1>4, <1>6, <2>1, <2>2 DEF Holds
<1>7. CASE i # 1
  <2>1. i - 1 \in 1 .. n /\ i - 1 \in Nat /\ i - 1 < i /\ (i - 1) + 1 = i
    BY <1>4, <1>7
  <2>2. Holds(i - 1)
    BY <1>3, <2>1, Zenon
  <2>3. PICK k \in 1 .. i - 1 : FirstLatest(s, ids, i - 1, k) /\ f[i - 1] = Best(s, ids, k)
    BY <2>2 DEF Holds
  <2>4. \A j \in 1 .. i : At(s, ids, j) \in 1 .. now
    BY <1>4
  <2>5. \E l \in 1 .. i : /\ FirstLatest(s, ids, i, l)
                          /\ BestAfter(Best(s, ids, k), s, ids, i) = Best(s, ids, l)
    BY <2>1, <2>3, <2>4, NextBest
  <2> QED BY <1>4, <1>5, <2>3, <2>5 DEF Holds
<1> QED BY <1>6, <1>7

\* What mostRecentAgentId returns for a service that lists somebody.
LEMMA MostRecentFound ==
  ASSUME NEW s, services[s].agentIds \in Seq(Agents), services[s].agentIds # <<>>, now \in Nat,
         \A k \in DOMAIN services[s].agentIds :
           registered[<<s, services[s].agentIds[k]>>] \in 1 .. now
  PROVE  \E k \in DOMAIN services[s].agentIds :
           /\ services[s].agentIds[k] = mostRecentAgentId(s)
           /\ FirstLatest(s, services[s].agentIds, Len(services[s].agentIds), k)
<1>1. PICK ids : ids = services[s].agentIds
  OBVIOUS
<1>2. Len(ids) \in Nat /\ Len(ids) # 0 /\ DOMAIN ids = 1 .. Len(ids)
  BY <1>1, LenProperties, EmptySeq
<1>3. PICK f : IsBest(f, s, ids, Len(ids)) /\ mostRecentAgentId(s) = f[Len(ids)].agent
  BY <1>1, <1>2, MostRecentIsBest
<1>4. \A i \in 1 .. Len(ids) : At(s, ids, i) \in 1 .. now
  BY <1>1, <1>2 DEF At
<1>5. Len(ids) \in 1 .. Len(ids)
  BY <1>2
<1>6. PICK k \in 1 .. Len(ids) : FirstLatest(s, ids, Len(ids), k) /\ f[Len(ids)] = Best(s, ids, k)
  <2>1. PICK n \in Nat : n = Len(ids)
    BY <1>2
  <2>2. IsBest(f, s, ids, n) /\ Dated(s, ids, n)
    BY <1>3, <1>4, <2>1 DEF Dated
  <2>3. LatestSoFar(f, s, ids, n)
    BY <2>2, BestIsLatest
  <2> QED BY <1>5, <2>1, <2>3, Zenon DEF LatestSoFar
<1> QED BY <1>1, <1>2, <1>3, <1>6 DEF Best

\* MostRecentIsLatest, from what the registry keeps.
LEMMA MostRecentHolds ==
  ASSUME ActivityTypeOK, ListedRegistered
  PROVE  MostRecentIsLatest
<1> SUFFICES ASSUME NEW s \in Services, services[s] # NoRow, services[s].agentIds # <<>>
             PROVE  \E k \in DOMAIN services[s].agentIds :
                      /\ services[s].agentIds[k] = mostRecentAgentId(s)
                      /\ \A i \in DOMAIN services[s].agentIds :
                           /\ registered[<<s, services[s].agentIds[i]>>]
                                <= registered[<<s, services[s].agentIds[k]>>]
                           /\ i < k => registered[<<s, services[s].agentIds[i]>>]
                                         < registered[<<s, services[s].agentIds[k]>>]
  BY Zenon DEF MostRecentIsLatest
<1>1. services[s].agentIds \in Seq(Agents) /\ now \in Nat
  BY DEF ActivityTypeOK, ServiceRow
<1>2. DOMAIN services[s].agentIds = 1 .. Len(services[s].agentIds)
  BY <1>1, LenProperties
<1> QED BY <1>1, <1>2, MostRecentFound DEF ListedRegistered, FirstLatest, At

-----------------------------------------------------------------------------
(* The registry keeps ActivityInv.                                         *)

\* ActivityInv says what DailyTablesAgree does.
LEMMA ActivitySays == ActivityInv => DailyTablesAgree
<1> SUFFICES ASSUME ActivityInv PROVE DailyTablesAgree
  OBVIOUS
<1>1. ActivityTypeOK
  BY DEF ActivityInv, ClockTyped, RegistryKept, DailyKept, DailyTyped, ActivityTypeOK
<1>2. MostRecentIsLatest
  BY <1>1, MostRecentHolds DEF ActivityInv, RegistryKept
<1>3. CountsMatchLinks
  BY DEF ActivityInv, RegistryKept, DailyKept, DailyCounted, CountsMatchLinks, AgentsOn, MultisigsOn,
         MultisigsOf
<1> QED BY <1>1, <1>2, <1>3 DEF ActivityInv, DailyKept, DailyTablesAgree

\* Days are finitely many.
LEMMA DaysFinite == IsFiniteSet(Days) /\ Days \subseteq Nat
<1>1. dayTimestamp(MaxTime) \in Int
  BY ServiceActivityAssumption DEF dayTimestamp
<1> QED BY <1>1, FS_Interval DEF Days

\* ActivityInv holds of the empty tables.
LEMMA ActivityStarts == ActivityInit => ActivityInv
<1> SUFFICES ASSUME ActivityInit PROVE ActivityInv
  OBVIOUS
<1> USE DEF ActivityInit
<1>1. ClockTyped
  BY ServiceActivityAssumption DEF ClockTyped
<1>2. RegistryKept
  BY ServiceActivityAssumption, FS_EmptySet DEF RegistryKept, ListedRegistered, OneAgent
<1>3. DailyTyped
  BY ServiceActivityAssumption DEF DailyTyped
<1>4. DailyCounted
  <2>1. \A d \in Days : AgentsOn(d) = {} /\ MultisigsOn(d) = {} /\ \A a \in Agents : MultisigsOf(d, a) = {}
    BY DEF AgentsOn, MultisigsOn, MultisigsOf
  <2> QED BY <2>1, FS_EmptySet DEF DailyCounted
<1>5. DaysAgree
  BY DEF DaysAgree
<1>6. NoDoubleCounting
  <2>1. \A d \in Days : Total(ByAgent(d), Agents) = 0 /\ Total(ByMultisig(d), Multisigs) = 0
    BY ServiceActivityAssumption, SumZero DEF ByAgent, ByMultisig
  <2>2. \A a \in Agents : Total(ByDay(a), Days) = 0
    BY DaysFinite, SumZero DEF ByDay
  <2>3. Total(agentTxs, Agents) = 0
    BY ServiceActivityAssumption, SumZero
  <2> QED BY <2>1, <2>2, <2>3 DEF NoDoubleCounting
<1> QED BY <1>1, <1>2, <1>3, <1>4, <1>5, <1>6 DEF ActivityInv, DailyKept

\* A log that writes no daily table keeps what is true of them.
LEMMA DailyStays ==
  ASSUME DailyKept, UNCHANGED <<executed, daily>>
  PROVE  DailyKept'
<1> USE DEF daily
<1>1. DailyTyped'
  BY DEF DailyKept, DailyTyped
<1>2. DailyCounted'
  BY DEF DailyKept, DailyCounted, AgentsOn, MultisigsOn, MultisigsOf
<1>3. DaysAgree'
  BY DEF DailyKept, DaysAgree
<1>4. NoDoubleCounting'
  BY DEF DailyKept, NoDoubleCounting, ByAgent, ByMultisig, ByDay
<1> QED BY <1>1, <1>2, <1>3, <1>4 DEF DailyKept

\* So does a log that writes no table of ServiceActivity.
LEMMA LoggedKeeps ==
  ASSUME ActivityInv, Logged \/ UNCHANGED loggedAt, UNCHANGED <<now, executed, registry, daily>>
  PROVE  ActivityInv'
<1>1. DailyKept'
  BY DailyStays DEF ActivityInv
<1>2. ClockTyped'
  BY ServiceActivityAssumption DEF ActivityInv, ClockTyped, Logged
<1>3. RegistryKept'
  BY DEF ActivityInv, RegistryKept, ListedRegistered, OneAgent, registry
<1> QED BY <1>1, <1>2, <1>3 DEF ActivityInv

\* Time passes: what was registered by then still is.
LEMMA NextBlockKeeps ==
  ASSUME ActivityInv, NextBlock
  PROVE  ActivityInv'
<1>1. DailyKept'
  BY DailyStays DEF ActivityInv, NextBlock
<1>2. ClockTyped'
  BY ServiceActivityAssumption DEF ActivityInv, ClockTyped, NextBlock
<1>3. now' = now + 1 /\ now \in Nat /\ UNCHANGED registry
  BY ServiceActivityAssumption DEF ActivityInv, ClockTyped, NextBlock
<1>4. ListedRegistered'
  BY <1>3 DEF ActivityInv, RegistryKept, ListedRegistered, registry
<1>5. RegistryKept'
  BY <1>3, <1>4 DEF ActivityInv, RegistryKept, OneAgent, registry
<1> QED BY <1>1, <1>2, <1>5 DEF ActivityInv

\* A CreateService log keeps ActivityInv.
LEMMA CreateServiceKeeps ==
  ASSUME ActivityInv, NEW s \in Services, CreateService(s)
  PROVE  ActivityInv'
<1> USE DEF CreateService
<1>1. DailyKept' /\ ClockTyped'
  BY ServiceActivityAssumption, DailyStays DEF ActivityInv, ClockTyped, Logged
<1>2. /\ services' = [services EXCEPT ![s] = ServiceOrNew(s)]
      /\ UNCHANGED <<now, registered, multisigs, operators, totalOperators>>
  OBVIOUS
<1>3. ServiceOrNew(s) \in ServiceRow
  <2>1. <<>> \in Seq(Agents)
    OBVIOUS
  <2> QED BY <2>1 DEF ActivityInv, RegistryKept, ServiceOrNew, ServiceRow
<1>4. ListedRegistered'
  BY <1>2 DEF ActivityInv, RegistryKept, ListedRegistered, ServiceOrNew
<1> QED BY <1>1, <1>2, <1>3, <1>4 DEF ActivityInv, RegistryKept, OneAgent

\* A TerminateService log keeps ActivityInv.
LEMMA TerminateKeeps ==
  ASSUME ActivityInv, NEW s \in Services, TerminateService(s)
  PROVE  ActivityInv'
<1> USE DEF TerminateService
<1>1. DailyKept' /\ ClockTyped'
  BY ServiceActivityAssumption, DailyStays DEF ActivityInv, ClockTyped, Logged
<1>2. /\ services' = [services EXCEPT ![s] = IF services[s] = NoRow THEN NoRow
                                           ELSE [agentIds |-> <<>>, multisig |-> NoRow]]
      /\ UNCHANGED <<now, registered, multisigs, operators, totalOperators>>
  BY DEF ActivityInv, RegistryKept
<1>3. [agentIds |-> <<>>, multisig |-> NoRow] \in ServiceRow
  <2>1. <<>> \in Seq(Agents)
    OBVIOUS
  <2> QED BY <2>1 DEF ServiceRow
<1>4. ListedRegistered'
  BY <1>2 DEF ActivityInv, RegistryKept, ListedRegistered
<1> QED BY <1>1, <1>2, <1>3, <1>4 DEF ActivityInv, RegistryKept, OneAgent

\* pushUnique adds the agent to the list, at most once more.
LEMMA Pushed ==
  ASSUME NEW ids \in Seq(Agents), NEW a \in Agents
  PROVE  /\ pushUnique(ids, a) \in Seq(Agents)
         /\ \A k \in DOMAIN pushUnique(ids, a) :
              \/ pushUnique(ids, a)[k] = a
              \/ k \in DOMAIN ids /\ pushUnique(ids, a)[k] = ids[k]
<1>1. CASE pushUnique(ids, a) = ids
  BY <1>1
<1>2. CASE pushUnique(ids, a) = Append(ids, a)
  <2>1. /\ Append(ids, a) \in Seq(Agents) /\ Len(Append(ids, a)) = Len(ids) + 1
        /\ \A k \in 1 .. Len(ids) : Append(ids, a)[k] = ids[k]
        /\ Append(ids, a)[Len(ids) + 1] = a
    BY AppendProperties
  <2>2. /\ DOMAIN Append(ids, a) = 1 .. Len(ids) + 1 /\ DOMAIN ids = 1 .. Len(ids) /\ Len(ids) \in Nat
    BY <2>1, LenProperties
  <2> QED BY <1>2, <2>1, <2>2
<1> QED BY <1>1, <1>2 DEF pushUnique

\* A RegisterInstance log keeps ActivityInv: whom it lists is registered now.
LEMMA RegisterKeeps ==
  ASSUME ActivityInv, NEW s \in Services, NEW a \in Agents, NEW o \in Operators, RegisterInstance(s, a, o)
  PROVE  ActivityInv'
<1> USE DEF RegisterInstance
<1>1. DailyKept' /\ ClockTyped'
  BY ServiceActivityAssumption, DailyStays DEF ActivityInv, ClockTyped, Logged
<1> DEFINE row == [ServiceOrNew(s) EXCEPT !.agentIds = pushUnique(@, a)]
<1>2. /\ services' = [services EXCEPT ![s] = row]
      /\ registered' = [registered EXCEPT ![<<s, a>>] = now]
      /\ operators' = operators \cup {o} /\ totalOperators' = uniqueOperators(o)
      /\ UNCHANGED <<now, multisigs>>
  OBVIOUS
<1>3. ServiceOrNew(s) \in ServiceRow
  <2>1. <<>> \in Seq(Agents)
    OBVIOUS
  <2> QED BY <2>1 DEF ActivityInv, RegistryKept, ServiceOrNew, ServiceRow
<1>4. row \in ServiceRow /\ row.agentIds = pushUnique(ServiceOrNew(s).agentIds, a)
  <2>1. ServiceOrNew(s).agentIds \in Seq(Agents)
    BY <1>3 DEF ServiceRow
  <2>2. pushUnique(ServiceOrNew(s).agentIds, a) \in Seq(Agents)
    BY <2>1, Pushed
  <2> QED BY <1>3, <2>2 DEF ServiceRow
<1>5. now \in 1 .. MaxTime /\ now \in Nat
  BY ServiceActivityAssumption DEF ActivityInv, ClockTyped
<1>6. \A t \in Services, b \in Agents :
        registered'[<<t, b>>] = IF t = s /\ b = a THEN now ELSE registered[<<t, b>>]
  BY <1>2 DEF ActivityInv, RegistryKept
<1>7. ListedRegistered'
  <2> SUFFICES ASSUME NEW t \in Services, services'[t] # NoRow, NEW k \in DOMAIN services'[t].agentIds
               PROVE  registered'[<<t, services'[t].agentIds[k]>>] \in 1 .. now'
    BY DEF ListedRegistered
  <2>1. CASE t # s
    <3>1. services'[t] = services[t]
      BY <1>2, <2>1 DEF ActivityInv, RegistryKept
    <3>2. services[t].agentIds \in Seq(Agents) /\ services[t].agentIds[k] \in Agents
      <4>1. services[t] \in ServiceRow
        BY <3>1 DEF ActivityInv, RegistryKept
      <4>2. services[t].agentIds \in Seq(Agents)
        BY <4>1 DEF ServiceRow
      <4> QED BY <3>1, <4>2, ElementOfSeq, LenProperties
    <3>3. registered[<<t, services[t].agentIds[k]>>] \in 1 .. now
      BY <3>1 DEF ActivityInv, RegistryKept, ListedRegistered
    <3> QED BY <1>2, <1>6, <2>1, <3>1, <3>2, <3>3
  <2>2. CASE t = s
    <3>1. services'[s] = row
      BY <1>2 DEF ActivityInv, RegistryKept
    <3> DEFINE old == ServiceOrNew(s).agentIds
    <3>2. old \in Seq(Agents)
      BY <1>3 DEF ServiceRow
    <3>3. \/ row.agentIds[k] = a
          \/ k \in DOMAIN old /\ row.agentIds[k] = old[k]
      <4>1. row.agentIds = pushUnique(old, a) /\ k \in DOMAIN pushUnique(old, a)
        BY <1>4, <2>2, <3>1
      <4> HIDE DEF row, old
      <4> QED BY <3>2, <4>1, Pushed
    <3>4. \A i \in DOMAIN old : old[i] \in Agents /\ registered[<<s, old[i]>>] \in 1 .. now
      <4>1. CASE services[s] = NoRow
        BY <4>1 DEF ServiceOrNew
      <4>2. CASE services[s] # NoRow
        <5>1. old = services[s].agentIds
          BY <4>2 DEF ServiceOrNew
        <5>2. \A i \in DOMAIN old : old[i] \in Agents
          BY <3>2, ElementOfSeq, LenProperties
        <5> QED BY <4>2, <5>1, <5>2 DEF ActivityInv, RegistryKept, ListedRegistered
      <4> QED BY <4>1, <4>2
    <3> HIDE DEF row, old
    <3>5. row.agentIds[k] \in Agents
      BY <3>3, <3>4
    <3>6. registered'[<<s, row.agentIds[k]>>] \in 1 .. now
      BY <1>5, <1>6, <3>3, <3>4, <3>5
    <3> QED BY <1>2, <2>2, <3>1, <3>6
  <2> QED BY <2>1, <2>2
<1>8. operators' \subseteq Operators /\ totalOperators' \in Nat /\ totalOperators' = Cardinality(operators')
  <2>1. operators \subseteq Operators /\ totalOperators = Cardinality(operators) /\ IsFiniteSet(operators)
        /\ totalOperators \in Nat
    BY ServiceActivityAssumption, FS_Subset DEF ActivityInv, RegistryKept
  <2>2. Cardinality(operators \cup {o}) = IF o \in operators THEN Cardinality(operators)
                                          ELSE Cardinality(operators) + 1
    BY <2>1, FS_AddElement
  <2> QED BY <1>2, <2>1, <2>2 DEF uniqueOperators
<1>9. services' \in [Services -> {NoRow} \cup ServiceRow] /\ registered' \in [Services \X Agents -> 0 .. MaxTime]
  <2> HIDE DEF row
  <2> QED BY <1>2, <1>4, <1>5, ServiceActivityAssumption DEF ActivityInv, RegistryKept
<1> QED BY <1>1, <1>2, <1>7, <1>8, <1>9 DEF ActivityInv, RegistryKept, OneAgent

\* A multisig stands for one agent: the service lists somebody, and then somebody registered last.
LEMMA StandsForOne ==
  ASSUME ActivityInv, NEW s \in Services, services[s] # NoRow
  PROVE  agentsOf(s) \in Seq(Agents) /\ Len(agentsOf(s)) <= 1
<1>1. services[s].agentIds \in Seq(Agents) /\ now \in Nat
  BY ServiceActivityAssumption DEF ActivityInv, RegistryKept, ClockTyped, ServiceRow
<1>2. CASE services[s].agentIds = <<>>
  <2>1. \/ agentsOf(s) = <<>>
        \/ mostRecentAgentId(s) \in Agents /\ agentsOf(s) = <<mostRecentAgentId(s)>>
    BY <1>2 DEF agentsOf
  <2>2. Len(<<>>) <= 1 /\ Len(<<mostRecentAgentId(s)>>) <= 1
    OBVIOUS
  <2>3. <<>> \in Seq(Agents)
    OBVIOUS
  <2>4. mostRecentAgentId(s) \in Agents => <<mostRecentAgentId(s)>> \in Seq(Agents)
    OBVIOUS
  <2> QED BY <2>1, <2>2, <2>3, <2>4, Zenon
<1>3. CASE services[s].agentIds # <<>>
  <2>1. PICK k \in DOMAIN services[s].agentIds : services[s].agentIds[k] = mostRecentAgentId(s)
    BY <1>1, <1>3, MostRecentFound DEF ActivityInv, RegistryKept, ListedRegistered
  <2>2. mostRecentAgentId(s) \in Agents
    BY <1>1, <2>1, ElementOfSeq, LenProperties
  <2>3. agentsOf(s) = <<mostRecentAgentId(s)>>
    BY <2>2 DEF agentsOf
  <2> QED BY <2>2, <2>3
<1> QED BY <1>2, <1>3

\* A CreateMultisigWithAgents log keeps ActivityInv: the multisig stands for one agent at most.
LEMMA DeployKeeps ==
  ASSUME ActivityInv, NEW s \in Services, NEW m \in Multisigs, CreateMultisigRow(s, m)
  PROVE  ActivityInv'
<1> USE DEF CreateMultisigRow
<1>1. DailyKept' /\ ClockTyped'
  BY ServiceActivityAssumption, DailyStays DEF ActivityInv, ClockTyped, Logged
<1>2. UNCHANGED <<now, registered, operators, totalOperators>>
  OBVIOUS
<1>3. CASE services[s] = NoRow
  BY <1>1, <1>2, <1>3 DEF ActivityInv, RegistryKept, ListedRegistered, OneAgent
<1>4. CASE services[s] # NoRow
  <2>1. /\ services' = [services EXCEPT ![s] = [services[s] EXCEPT !.multisig = m]]
        /\ multisigs' = [multisigs EXCEPT ![m] = [service |-> s, agentIds |-> agentsOf(s)]]
    BY <1>4 DEF ActivityInv, RegistryKept
  <2>2. agentsOf(s) \in Seq(Agents) /\ Len(agentsOf(s)) <= 1
    BY <1>4, StandsForOne
  <2>3. services[s] \in ServiceRow
    BY <1>4 DEF ActivityInv, RegistryKept
  <2>4. [services[s] EXCEPT !.multisig = m] \in ServiceRow
        /\ [services[s] EXCEPT !.multisig = m].agentIds = services[s].agentIds
    BY <2>3 DEF ServiceRow
  <2>5. [service |-> s, agentIds |-> agentsOf(s)] \in MultisigRow
    BY <2>2 DEF MultisigRow
  <2>6. ListedRegistered'
    BY <1>2, <1>4, <2>1, <2>4 DEF ActivityInv, RegistryKept, ListedRegistered
  <2>7. OneAgent'
    BY <2>1, <2>2 DEF ActivityInv, RegistryKept, OneAgent
  <2> QED BY <1>1, <1>2, <2>1, <2>4, <2>5, <2>6, <2>7 DEF ActivityInv, RegistryKept
<1> QED BY <1>3, <1>4

-----------------------------------------------------------------------------
(* Executions keep ActivityInv.                                            *)

\* The agents of a list, each once: none or one.
OneEach(A, ids) ==
  /\ A \in SUBSET Agents
  /\ \/ A = {}
     \/ \E b \in Agents : A = {b}
  /\ \A a \in Agents : Occurrences(a, ids) = IF a \in A THEN 1 ELSE 0

\* A list of one agent or none has each once.
LEMMA ListedOnce ==
  ASSUME NEW ids \in Seq(Agents), Len(ids) <= 1
  PROVE  \E A : OneEach(A, ids)
<1>1. DOMAIN ids = 1 .. Len(ids) /\ Len(ids) \in Nat
  BY LenProperties
<1>2. CASE Len(ids) = 0
  <2>1. \A a \in Agents : {i \in DOMAIN ids : ids[i] = a} = {}
    BY <1>1, <1>2
  <2>2. \A a \in Agents : Occurrences(a, ids) = 0
    BY <2>1, FS_EmptySet DEF Occurrences
  <2>3. OneEach({}, ids)
    BY <2>2 DEF OneEach
  <2> QED BY <2>3
<1>3. CASE Len(ids) = 1
  <2>1. DOMAIN ids = {1} /\ ids[1] \in Agents
    <3>1. 1 \in 1 .. Len(ids) /\ 1 .. Len(ids) = {1}
      BY <1>3
    <3>2. ids[1] \in Agents
      BY <3>1, ElementOfSeq, Zenon
    <3> QED BY <1>1, <3>1, <3>2
  <2>2. \A a \in Agents : {i \in DOMAIN ids : ids[i] = a} = IF a = ids[1] THEN {1} ELSE {}
    BY <2>1
  <2>3. \A a \in Agents : Occurrences(a, ids) = IF a = ids[1] THEN 1 ELSE 0
    BY <2>2, FS_EmptySet, FS_Singleton DEF Occurrences
  <2>4. OneEach({ids[1]}, ids)
    BY <2>1, <2>3 DEF OneEach
  <2> QED BY <2>4
<1> QED BY <1>1, <1>2, <1>3

\* What an execution does to the daily tables, when A are the agents of the multisig.
Executes(m, d, A) ==
  /\ uniqueAgents' = uniqueAgents \cup {<<d, a>> : a \in A}
  /\ uniqueCount' = [uniqueCount EXCEPT ![d] = uniqueCount[d] + Cardinality(A \ AgentsOn(d))]
  /\ performance' = [p \in Days \X Agents |->
       IF p[1] # d \/ p[2] \notin A THEN performance[p]
       ELSE [txCount |-> performance[p].txCount + 1,
             activeMultisigCount |-> performance[p].activeMultisigCount
                                     + (IF m \in MultisigsOf(d, p[2]) THEN 0 ELSE 1)]]
  /\ agentMultisigs' = agentMultisigs \cup {<<d, a, m>> : a \in A}
  /\ agentTxs' = [a \in Agents |-> agentTxs[a] + (IF a \in A THEN 1 ELSE 0)]
  /\ activeMultisigs' = activeMultisigs \cup {<<d, m>>}
  /\ activeCount' = IF m \in MultisigsOn(d) THEN activeCount
                    ELSE [activeCount EXCEPT ![d] = activeCount[d] + 1]
  /\ global' = [txCount |-> global.txCount + 1, lastUpdated |-> now]
  /\ executed' = [executed EXCEPT ![<<m, d>>] = executed[<<m, d>>] + 1]

\* An execution, in terms of the agents A its multisig stands for.
LEMMA ExecutionIs ==
  ASSUME ActivityInv, NEW m \in Multisigs, SafeExecution(m)
  PROVE  \E A : /\ OneEach(A, multisigs[m].agentIds) /\ Executes(m, dayTimestamp(now), A)
                /\ activity' = [activity EXCEPT ![<<dayTimestamp(now), multisigs[m].service>>] =
                                  multisigs[m].agentIds]
<1> DEFINE row == multisigs[m]
<1>1. PICK d : d = dayTimestamp(now)
  OBVIOUS
<1>2. d \in Days
  BY <1>1, DayNow DEF ActivityInv, ClockTyped
<1>3. row \in MultisigRow /\ Len(row.agentIds) <= 1 /\ row.agentIds \in Seq(Agents) /\ row.service \in Services
  BY DEF SafeExecution, ActivityInv, RegistryKept, OneAgent, MultisigRow
<1>4. PICK A : OneEach(A, row.agentIds)
  BY <1>3, ListedOnce
<1>5. A \subseteq Agents /\ \A a \in Agents : Occurrences(a, row.agentIds) = IF a \in A THEN 1 ELSE 0
  BY <1>4 DEF OneEach
<1> HIDE DEF row
<1>6. /\ updateDailyActivity(d, row) /\ updateDailyUniqueAgents(d, row)
      /\ updateDailyAgentPerformance(d, m, row) /\ updateDailyActiveMultisigs(d, m)
      /\ updateGlobalMetrics /\ executed' = [executed EXCEPT ![<<m, d>>] = executed[<<m, d>>] + 1]
  BY <1>1, Zenon DEF SafeExecution, row
<1>7. agentsNew(d, row) = A \ AgentsOn(d)
  BY <1>5 DEF agentsNew, AgentsOn
<1>8. /\ uniqueAgents' = uniqueAgents \cup {<<d, a>> : a \in A}
      /\ uniqueCount' = [uniqueCount EXCEPT ![d] = uniqueCount[d] + Cardinality(A \ AgentsOn(d))]
  <2>1. {<<d, a>> : a \in A \ AgentsOn(d)} \subseteq {<<d, a>> : a \in A}
    OBVIOUS
  <2>2. \A a \in A : a \in AgentsOn(d) => <<d, a>> \in uniqueAgents
    BY <1>5 DEF AgentsOn
  <2>3. uniqueAgents \cup {<<d, a>> : a \in A \ AgentsOn(d)} = uniqueAgents \cup {<<d, a>> : a \in A}
    BY <2>2
  <2> QED BY <1>6, <1>7, <2>3 DEF updateDailyUniqueAgents
<1>9. \A a \in Agents : multisigLinked(d, a, m) <=> m \in MultisigsOf(d, a)
  BY DEF multisigLinked, MultisigsOf
<1>10. {b \in Agents : Occurrences(b, row.agentIds) > 0} = A
  BY <1>5
<1>11. performance' = [p \in Days \X Agents |->
       IF p[1] # d \/ p[2] \notin A THEN performance[p]
       ELSE [txCount |-> performance[p].txCount + 1,
             activeMultisigCount |-> performance[p].activeMultisigCount
                                     + (IF m \in MultisigsOf(d, p[2]) THEN 0 ELSE 1)]]
  <2> DEFINE Counted(p) == IF p[1] # d \/ p[2] \notin A THEN performance[p]
                           ELSE [txCount |-> performance[p].txCount + 1,
                                 activeMultisigCount |-> performance[p].activeMultisigCount
                                                         + (IF m \in MultisigsOf(d, p[2]) THEN 0 ELSE 1)]
             CodeSays(p) ==
               IF p[1] # d THEN performance[p]
               ELSE [txCount |-> performance[p].txCount + Occurrences(p[2], row.agentIds),
                     activeMultisigCount |->
                       performance[p].activeMultisigCount
                       + (IF Occurrences(p[2], row.agentIds) > 0 /\ ~ multisigLinked(d, p[2], m)
                          THEN 1 ELSE 0)]
  <2>1. performance' = [p \in Days \X Agents |-> CodeSays(p)]
    BY <1>6, Zenon DEF updateDailyAgentPerformance
  <2>2. ASSUME NEW p \in Days \X Agents PROVE CodeSays(p) = Counted(p)
    <3>1. p[2] \in Agents /\ performance[p] \in [txCount : Nat, activeMultisigCount : Nat]
      BY DEF ActivityInv, DailyKept, DailyTyped
    <3>2. performance[p] = [txCount |-> performance[p].txCount,
                            activeMultisigCount |-> performance[p].activeMultisigCount]
          /\ performance[p].txCount \in Nat /\ performance[p].activeMultisigCount \in Nat
      BY <3>1
    <3>3. CASE p[1] # d
      BY <3>3
    <3>4. CASE p[1] = d /\ p[2] \notin A
      BY <1>5, <3>1, <3>2, <3>4
    <3>5. CASE p[1] = d /\ p[2] \in A
      BY <1>5, <1>9, <3>1, <3>2, <3>5
    <3> QED BY <3>3, <3>4, <3>5
  <2> HIDE DEF Counted, CodeSays
  <2>3. performance' = [p \in Days \X Agents |-> Counted(p)]
    BY <2>1, <2>2
  <2> QED BY <2>3, Zenon DEF Counted
<1>12. /\ agentMultisigs' = agentMultisigs \cup {<<d, a, m>> : a \in A}
       /\ agentTxs' = [a \in Agents |-> agentTxs[a] + (IF a \in A THEN 1 ELSE 0)]
  <2>1. agentMultisigs' = agentMultisigs \cup {<<d, a, m>> : a \in {b \in Agents : Occurrences(b, row.agentIds) > 0}}
        /\ agentTxs' = [a \in Agents |-> agentTxs[a] + Occurrences(a, row.agentIds)]
    BY <1>6, Zenon DEF updateDailyAgentPerformance
  <2> QED BY <1>5, <1>10, <2>1
<1>13. /\ activeMultisigs' = activeMultisigs \cup {<<d, m>>}
       /\ activeCount' = IF m \in MultisigsOn(d) THEN activeCount
                         ELSE [activeCount EXCEPT ![d] = activeCount[d] + 1]
  BY <1>6 DEF updateDailyActiveMultisigs, MultisigsOn
<1>14. Executes(m, d, A)
  BY <1>6, <1>8, <1>11, <1>12, <1>13 DEF Executes, updateGlobalMetrics
<1>15. activity' = [activity EXCEPT ![<<d, row.service>>] = row.agentIds]
  BY <1>6 DEF updateDailyActivity
<1> QED BY <1>1, <1>4, <1>14, <1>15 DEF row

\* An execution keeps the types of the daily tables.
LEMMA ExecutionTyped ==
  ASSUME ActivityInv, NEW m \in Multisigs, NEW d \in Days, NEW A, NEW ids \in Seq(Agents), NEW s \in Services,
         OneEach(A, ids), Executes(m, d, A), activity' = [activity EXCEPT ![<<d, s>>] = ids]
  PROVE  DailyTyped'
<1> USE DEF ActivityInv, DailyKept, DailyTyped, Executes
<1>1. A \subseteq Agents /\ IsFiniteSet(A) /\ Cardinality(A \ AgentsOn(d)) \in Nat
  BY ServiceActivityAssumption, FS_Subset, FS_CardinalityType DEF OneEach
<1>2. executed' \in [Multisigs \X Days -> Nat] /\ activity' \in [Days \X Services -> {NoRow} \cup Seq(Agents)]
  OBVIOUS
<1>3. uniqueAgents' \subseteq Days \X Agents /\ uniqueCount' \in [Days -> Nat]
  <2>1. uniqueAgents' \subseteq Days \X Agents
    BY <1>1
  <2>2. uniqueCount[d] + Cardinality(A \ AgentsOn(d)) \in Nat
    BY <1>1
  <2> QED BY <2>1, <2>2
<1>4. performance' \in [Days \X Agents -> [txCount : Nat, activeMultisigCount : Nat]]
  OBVIOUS
<1>5. agentMultisigs' \subseteq Days \X Agents \X Multisigs /\ agentTxs' \in [Agents -> Nat]
  BY <1>1
<1>6. activeMultisigs' \subseteq Days \X Multisigs /\ activeCount' \in [Days -> Nat]
  OBVIOUS
<1>7. global' \in [txCount : Nat, lastUpdated : 0 .. MaxTime]
  BY ServiceActivityAssumption DEF ClockTyped
<1> QED BY <1>2, <1>3, <1>4, <1>5, <1>6, <1>7

\* The counters of an execution, one cell at a time.
LEMMA PerformanceCell ==
  ASSUME NEW m \in Multisigs, NEW d \in Days, NEW A, A \subseteq Agents, Executes(m, d, A),
         NEW e \in Days, NEW a \in Agents
  PROVE  performance'[<<e, a>>] =
           IF e # d \/ a \notin A THEN performance[<<e, a>>]
           ELSE [txCount |-> performance[<<e, a>>].txCount + 1,
                 activeMultisigCount |-> performance[<<e, a>>].activeMultisigCount
                                         + (IF m \in MultisigsOf(d, a) THEN 0 ELSE 1)]
BY DEF Executes

\* The cells of the daily tables after an execution.
LEMMA ExecutionCells ==
  ASSUME ActivityInv, NEW m \in Multisigs, NEW d \in Days, NEW A, A \subseteq Agents, Executes(m, d, A)
  PROVE  /\ \A e \in Days, n \in Multisigs :
              executed'[<<n, e>>] = executed[<<n, e>>] + (IF e = d /\ n = m THEN 1 ELSE 0)
         /\ \A e \in Days :
              /\ AgentsOn(e)' = IF e = d THEN AgentsOn(d) \cup A ELSE AgentsOn(e)
              /\ MultisigsOn(e)' = IF e = d THEN MultisigsOn(d) \cup {m} ELSE MultisigsOn(e)
              /\ \A a \in Agents :
                   MultisigsOf(e, a)' = IF e = d /\ a \in A THEN MultisigsOf(d, a) \cup {m}
                                        ELSE MultisigsOf(e, a)
<1>2. \A e \in Days, n \in Multisigs :
        executed'[<<n, e>>] = executed[<<n, e>>] + (IF e = d /\ n = m THEN 1 ELSE 0)
  <2>1. executed \in [Multisigs \X Days -> Nat]
        /\ executed' = [executed EXCEPT ![<<m, d>>] = executed[<<m, d>>] + 1]
    BY DEF Executes, ActivityInv, DailyKept, DailyTyped
  <2> SUFFICES ASSUME NEW e \in Days, NEW n \in Multisigs
               PROVE  executed'[<<n, e>>] = executed[<<n, e>>] + (IF e = d /\ n = m THEN 1 ELSE 0)
    OBVIOUS
  <2>2. CASE e = d /\ n = m
    BY <2>1, <2>2
  <2>3. CASE ~ (e = d /\ n = m)
    <3>1. <<n, e>> # <<m, d>> /\ executed[<<n, e>>] \in Nat
      BY <2>1, <2>3
    <3> QED BY <2>1, <2>3, <3>1
  <2> QED BY <2>2, <2>3
<1>3. ASSUME NEW e \in Days
      PROVE  /\ AgentsOn(e)' = IF e = d THEN AgentsOn(d) \cup A ELSE AgentsOn(e)
             /\ MultisigsOn(e)' = IF e = d THEN MultisigsOn(d) \cup {m} ELSE MultisigsOn(e)
  BY DEF Executes, AgentsOn, MultisigsOn
<1>4. ASSUME NEW e \in Days, NEW a \in Agents
      PROVE  MultisigsOf(e, a)' = IF e = d /\ a \in A THEN MultisigsOf(d, a) \cup {m}
                                  ELSE MultisigsOf(e, a)
  BY DEF Executes, MultisigsOf
<1> QED BY <1>2, <1>3, <1>4

\* An execution keeps every counter column the number of its link rows.
LEMMA ExecutionCounts ==
  ASSUME ActivityInv, NEW m \in Multisigs, NEW d \in Days, NEW A, A \subseteq Agents, Executes(m, d, A),
         \/ A = {}
         \/ \E b \in Agents : A = {b}
  PROVE  DailyCounted'
<1>1. DailyCounted /\ uniqueCount \in [Days -> Nat] /\ activeCount \in [Days -> Nat]
  BY DEF ActivityInv, DailyKept, DailyTyped
<1>2. \A e \in Days : /\ IsFiniteSet(AgentsOn(e)) /\ IsFiniteSet(MultisigsOn(e))
                      /\ \A a \in Agents : IsFiniteSet(MultisigsOf(e, a))
  BY ServiceActivityAssumption, FS_Subset DEF AgentsOn, MultisigsOn, MultisigsOf
<1>3. Cardinality(AgentsOn(d) \cup A) = Cardinality(AgentsOn(d)) + Cardinality(A \ AgentsOn(d))
  <2>1. Cardinality(AgentsOn(d)) \in Nat
    BY <1>2, FS_CardinalityType
  <2>2. CASE A \subseteq AgentsOn(d)
    <3>1. AgentsOn(d) \cup A = AgentsOn(d) /\ A \ AgentsOn(d) = {}
      BY <2>2
    <3> QED BY <2>1, <3>1, FS_EmptySet
  <2>3. CASE ~ (A \subseteq AgentsOn(d))
    <3>1. PICK b \in Agents : A = {b} /\ b \notin AgentsOn(d)
      BY <2>3
    <3>2. A \ AgentsOn(d) = {b}
      BY <3>1
    <3>3. Cardinality({b}) = 1 /\ Cardinality(AgentsOn(d) \cup {b}) = Cardinality(AgentsOn(d)) + 1
      BY <1>2, <3>1, FS_Singleton, FS_AddElement
    <3> QED BY <3>1, <3>2, <3>3
  <2> QED BY <2>2, <2>3
<1>4. ASSUME NEW e \in Days
      PROVE  uniqueCount'[e] = Cardinality(AgentsOn(e)')
  <2>1. AgentsOn(e)' = IF e = d THEN AgentsOn(d) \cup A ELSE AgentsOn(e)
    BY ExecutionCells
  <2>2. uniqueCount'[e] = IF e = d THEN uniqueCount[d] + Cardinality(A \ AgentsOn(d)) ELSE uniqueCount[e]
    BY <1>1 DEF Executes
  <2> QED BY <1>1, <1>3, <2>1, <2>2 DEF DailyCounted
<1>5. ASSUME NEW e \in Days
      PROVE  activeCount'[e] = Cardinality(MultisigsOn(e)')
  <2>1. MultisigsOn(e)' = IF e = d THEN MultisigsOn(d) \cup {m} ELSE MultisigsOn(e)
    BY ExecutionCells
  <2>2. activeCount'[e] = IF e = d /\ m \notin MultisigsOn(d) THEN activeCount[d] + 1 ELSE activeCount[e]
    BY <1>1 DEF Executes
  <2>3. Cardinality(MultisigsOn(d) \cup {m}) = IF m \in MultisigsOn(d) THEN Cardinality(MultisigsOn(d))
                                               ELSE Cardinality(MultisigsOn(d)) + 1
    BY <1>2, FS_AddElement
  <2> QED BY <1>1, <2>1, <2>2, <2>3 DEF DailyCounted
<1>6. ASSUME NEW e \in Days, NEW a \in Agents
      PROVE  performance'[<<e, a>>].activeMultisigCount = Cardinality(MultisigsOf(e, a)')
  <2>1. MultisigsOf(e, a)' = IF e = d /\ a \in A THEN MultisigsOf(d, a) \cup {m} ELSE MultisigsOf(e, a)
    BY ExecutionCells
  <2>2. performance[<<e, a>>].activeMultisigCount = Cardinality(MultisigsOf(e, a))
    BY <1>1 DEF DailyCounted
  <2>0. performance'[<<e, a>>] =
          IF e # d \/ a \notin A THEN performance[<<e, a>>]
          ELSE [txCount |-> performance[<<e, a>>].txCount + 1,
                activeMultisigCount |-> performance[<<e, a>>].activeMultisigCount
                                        + (IF m \in MultisigsOf(d, a) THEN 0 ELSE 1)]
    BY PerformanceCell
  <2>3. CASE e # d \/ a \notin A
    <3>1. performance'[<<e, a>>] = performance[<<e, a>>]
      BY <2>0, <2>3
    <3> QED BY <2>1, <2>2, <2>3, <3>1
  <2>4. CASE e = d /\ a \in A
    <3>1. performance'[<<e, a>>].activeMultisigCount
            = performance[<<e, a>>].activeMultisigCount + (IF m \in MultisigsOf(d, a) THEN 0 ELSE 1)
      BY <2>0, <2>4
    <3>2. Cardinality(MultisigsOf(d, a) \cup {m}) = IF m \in MultisigsOf(d, a) THEN Cardinality(MultisigsOf(d, a))
                                                    ELSE Cardinality(MultisigsOf(d, a)) + 1
      BY <1>2, FS_AddElement
    <3>3. Cardinality(MultisigsOf(d, a)) \in Nat
      BY <1>2, FS_CardinalityType
    <3> QED BY <2>1, <2>2, <2>4, <3>1, <3>2, <3>3
  <2> QED BY <2>3, <2>4
<1> QED BY <1>4, <1>5, <1>6 DEF DailyCounted

\* An execution keeps the daily tables in agreement.
LEMMA ExecutionAgrees ==
  ASSUME ActivityInv, NEW m \in Multisigs, NEW d \in Days, NEW A, A \subseteq Agents, Executes(m, d, A)
  PROVE  DaysAgree'
<1>1. DaysAgree /\ executed \in [Multisigs \X Days -> Nat]
      /\ performance \in [Days \X Agents -> [txCount : Nat, activeMultisigCount : Nat]]
  BY DEF ActivityInv, DailyKept, DailyTyped
<1>2. ASSUME NEW e \in Days, NEW a \in Agents
      PROVE  (<<e, a>> \in uniqueAgents)' <=> \E n \in Multisigs : (<<e, a, n>> \in agentMultisigs)'
  BY <1>1 DEF DaysAgree, Executes
<1>3. ASSUME NEW e \in Days, NEW a \in Agents
      PROVE  performance'[<<e, a>>].activeMultisigCount <= performance'[<<e, a>>].txCount
  <2>1. performance[<<e, a>>] \in [txCount : Nat, activeMultisigCount : Nat]
        /\ performance[<<e, a>>].activeMultisigCount <= performance[<<e, a>>].txCount
    BY <1>1 DEF DaysAgree
  <2>0. performance'[<<e, a>>] =
          IF e # d \/ a \notin A THEN performance[<<e, a>>]
          ELSE [txCount |-> performance[<<e, a>>].txCount + 1,
                activeMultisigCount |-> performance[<<e, a>>].activeMultisigCount
                                        + (IF m \in MultisigsOf(d, a) THEN 0 ELSE 1)]
    BY PerformanceCell
  <2>2. CASE e # d \/ a \notin A
    BY <2>0, <2>1, <2>2
  <2>3. CASE e = d /\ a \in A
    <3>1. performance'[<<e, a>>] =
            [txCount |-> performance[<<e, a>>].txCount + 1,
             activeMultisigCount |-> performance[<<e, a>>].activeMultisigCount
                                     + (IF m \in MultisigsOf(d, a) THEN 0 ELSE 1)]
      BY <2>0, <2>3
    <3> QED BY <2>1, <3>1
  <2> QED BY <2>2, <2>3
<1>4. ASSUME NEW e \in Days, NEW n \in Multisigs
      PROVE  /\ (<<e, n>> \in activeMultisigs)' <=> executed'[<<n, e>>] > 0
             /\ (\E a \in Agents : (<<e, a, n>> \in agentMultisigs)') => (<<e, n>> \in activeMultisigs)'
  <2>1. executed'[<<n, e>>] = executed[<<n, e>>] + (IF e = d /\ n = m THEN 1 ELSE 0)
    BY ExecutionCells
  <2>2. executed[<<n, e>>] \in Nat
    BY <1>1
  <2>3. (<<e, n>> \in activeMultisigs)' <=> <<e, n>> \in activeMultisigs \/ (e = d /\ n = m)
    BY DEF Executes
  <2>4. (\E a \in Agents : (<<e, a, n>> \in agentMultisigs)')
          => (\E a \in Agents : <<e, a, n>> \in agentMultisigs) \/ (e = d /\ n = m)
    BY DEF Executes
  <2>5. /\ <<e, n>> \in activeMultisigs <=> executed[<<n, e>>] > 0
        /\ (\E a \in Agents : <<e, a, n>> \in agentMultisigs) => <<e, n>> \in activeMultisigs
    BY <1>1 DEF DaysAgree
  <2> QED BY <2>1, <2>2, <2>3, <2>4, <2>5
<1> QED BY <1>2, <1>3, <1>4 DEF DaysAgree

\* An execution counts once for its multisig and Global and for one agent at most.
LEMMA ExecutionCountedOnce ==
  ASSUME ActivityInv, NEW m \in Multisigs, NEW d \in Days, NEW A, A \subseteq Agents, Executes(m, d, A),
         \/ A = {}
         \/ \E b \in Agents : A = {b}
  PROVE  NoDoubleCounting'
<1>1. /\ NoDoubleCounting /\ executed \in [Multisigs \X Days -> Nat]
      /\ performance \in [Days \X Agents -> [txCount : Nat, activeMultisigCount : Nat]]
      /\ agentTxs \in [Agents -> Nat] /\ global.txCount \in Nat
  BY DEF ActivityInv, DailyKept, DailyTyped
<1>2. IsFiniteSet(Agents) /\ IsFiniteSet(Multisigs) /\ IsFiniteSet(Days)
  BY ServiceActivityAssumption, DaysFinite
<1>3. \A e \in Days, a \in Agents :
        /\ performance[<<e, a>>].txCount \in Nat
        /\ performance'[<<e, a>>].txCount = performance[<<e, a>>].txCount + (IF e = d /\ a \in A THEN 1 ELSE 0)
  <2> SUFFICES ASSUME NEW e \in Days, NEW a \in Agents
      PROVE  /\ performance[<<e, a>>].txCount \in Nat
             /\ performance'[<<e, a>>].txCount = performance[<<e, a>>].txCount + (IF e = d /\ a \in A THEN 1 ELSE 0)
    OBVIOUS
  <2>1. performance[<<e, a>>].txCount \in Nat
    BY <1>1
  <2>0. performance'[<<e, a>>] =
          IF e # d \/ a \notin A THEN performance[<<e, a>>]
          ELSE [txCount |-> performance[<<e, a>>].txCount + 1,
                activeMultisigCount |-> performance[<<e, a>>].activeMultisigCount
                                        + (IF m \in MultisigsOf(d, a) THEN 0 ELSE 1)]
    BY PerformanceCell
  <2>2. CASE e = d /\ a \in A
    BY <2>0, <2>1, <2>2
  <2>3. CASE ~ (e = d /\ a \in A)
    BY <2>0, <2>1, <2>3
  <2> QED BY <2>1, <2>2, <2>3
<1>4. ASSUME NEW f, NEW g, \A a \in Agents : f[a] \in Nat /\ g[a] = f[a] + (IF a \in A THEN 1 ELSE 0)
      PROVE  /\ Total(f, Agents) \in Nat /\ Total(g, Agents) \in Nat
             /\ Total(g, Agents) <= Total(f, Agents) + 1
  <2>1. \A a \in Agents : f[a] \in Int /\ g[a] \in Int /\ g[a] \in Nat
    BY <1>4
  <2>2. Total(f, Agents) \in Nat /\ Total(g, Agents) \in Nat
    BY <1>2, <1>4, <2>1, SumNatural
  <2>3. CASE A = {}
    <3>1. \A a \in Agents : f[a] = g[a]
      BY <1>4, <2>3
    <3>2. Total(f, Agents) = Total(g, Agents)
      BY <1>2, <3>1, SumSame
    <3> QED BY <2>2, <3>2
  <2>4. CASE \E b \in Agents : A = {b}
    <3>1. PICK b \in Agents : A = {b}
      BY <2>4
    <3>2. g[b] - f[b] = 1 /\ \A a \in Agents \ {b} : f[a] = g[a]
      BY <1>4, <3>1
    <3>3. Total(g, Agents) = Total(f, Agents) + (g[b] - f[b])
      BY <1>2, <2>1, <3>2, SumChange
    <3> QED BY <2>2, <3>2, <3>3
  <2> QED BY <2>3, <2>4
<1>5. ASSUME NEW e \in Days
      PROVE  Total(ByAgent(e)', Agents) <= Total(ByMultisig(e)', Multisigs)
  <2>1. /\ \A a \in Agents : /\ ByAgent(e)[a] \in Nat
                             /\ ByAgent(e)'[a] = ByAgent(e)[a] + (IF e = d /\ a \in A THEN 1 ELSE 0)
        /\ \A n \in Multisigs : /\ ByMultisig(e)[n] \in Nat
                                /\ ByMultisig(e)'[n] = ByMultisig(e)[n] + (IF e = d /\ n = m THEN 1 ELSE 0)
    <3>1. \A n \in Multisigs : /\ executed[<<n, e>>] \in Nat
                               /\ executed'[<<n, e>>] = executed[<<n, e>>] + (IF e = d /\ n = m THEN 1 ELSE 0)
      BY <1>1, ExecutionCells
    <3>2. \A a \in Agents : ByAgent(e)[a] = performance[<<e, a>>].txCount
                            /\ ByAgent(e)'[a] = performance'[<<e, a>>].txCount
      BY DEF ByAgent
    <3>3. \A n \in Multisigs : ByMultisig(e)[n] = executed[<<n, e>>] /\ ByMultisig(e)'[n] = executed'[<<n, e>>]
      BY DEF ByMultisig
    <3>4. \A a \in Agents : /\ ByAgent(e)[a] \in Nat
                             /\ ByAgent(e)'[a] = ByAgent(e)[a] + (IF e = d /\ a \in A THEN 1 ELSE 0)
      <4> SUFFICES ASSUME NEW a \in Agents
                   PROVE  /\ ByAgent(e)[a] \in Nat
                          /\ ByAgent(e)'[a] = ByAgent(e)[a] + (IF e = d /\ a \in A THEN 1 ELSE 0)
        OBVIOUS
      <4>1. /\ performance[<<e, a>>].txCount \in Nat
            /\ performance'[<<e, a>>].txCount
                 = performance[<<e, a>>].txCount + (IF e = d /\ a \in A THEN 1 ELSE 0)
        BY <1>3
      <4>2. /\ ByAgent(e)[a] = performance[<<e, a>>].txCount
            /\ ByAgent(e)'[a] = performance'[<<e, a>>].txCount
        BY <3>2
      <4> QED BY <4>1, <4>2
    <3>5. \A n \in Multisigs :
            /\ ByMultisig(e)[n] \in Nat
            /\ ByMultisig(e)'[n] = ByMultisig(e)[n] + (IF e = d /\ n = m THEN 1 ELSE 0)
      BY <3>1, <3>3, Zenon
    <3> QED BY <3>4, <3>5
  <2>2. Total(ByAgent(e), Agents) <= Total(ByMultisig(e), Multisigs)
    BY <1>1 DEF NoDoubleCounting
  <2>3. CASE e # d
    <3>1. \A a \in Agents : ByAgent(e)[a] = ByAgent(e)'[a]
      BY <2>1, <2>3
    <3>2. \A n \in Multisigs : ByMultisig(e)[n] = ByMultisig(e)'[n]
      BY <2>1, <2>3
    <3>3. Total(ByAgent(e), Agents) = Total(ByAgent(e)', Agents)
      BY <1>2, <3>1, SumSame
    <3>4. Total(ByMultisig(e), Multisigs) = Total(ByMultisig(e)', Multisigs)
      BY <1>2, <3>2, SumSame
    <3> QED BY <2>2, <3>3, <3>4
  <2>4. CASE e = d
    <3>1. /\ Total(ByAgent(e), Agents) \in Nat /\ Total(ByAgent(e)', Agents) \in Nat
          /\ Total(ByAgent(e)', Agents) <= Total(ByAgent(e), Agents) + 1
      BY <1>4, <2>1, <2>4
    <3>2. \A n \in Multisigs \ {m} : ByMultisig(e)[n] = ByMultisig(e)'[n]
      BY <2>1
    <3>3. ByMultisig(e)'[m] - ByMultisig(e)[m] = 1
      BY <2>1, <2>4
    <3>4. \A n \in Multisigs : ByMultisig(e)[n] \in Int /\ ByMultisig(e)'[n] \in Int
      BY <2>1
    <3>5. Total(ByMultisig(e)', Multisigs) = Total(ByMultisig(e), Multisigs) + (ByMultisig(e)'[m] - ByMultisig(e)[m])
      BY <1>2, <3>2, <3>4, SumChange
    <3>6. Total(ByMultisig(e), Multisigs) \in Nat
      BY <1>2, <2>1, SumNatural
    <3> QED BY <2>2, <3>1, <3>3, <3>5, <3>6
  <2> QED BY <2>3, <2>4
<1>6. ASSUME NEW a \in Agents
      PROVE  agentTxs'[a] = Total(ByDay(a)', Days)
  <2>1. \A e \in Days : /\ ByDay(a)[e] \in Nat /\ ByDay(a)[e] \in Int /\ ByDay(a)'[e] \in Int
                        /\ ByDay(a)'[e] = ByDay(a)[e] + (IF e = d /\ a \in A THEN 1 ELSE 0)
    <3>1. \A e \in Days : ByDay(a)[e] = performance[<<e, a>>].txCount /\ ByDay(a)'[e] = performance'[<<e, a>>].txCount
      BY DEF ByDay
    <3>2. \A e \in Days : ByDay(a)[e] \in Nat
                          /\ ByDay(a)'[e] = ByDay(a)[e] + (IF e = d /\ a \in A THEN 1 ELSE 0)
      BY <1>3, <3>1
    <3> HIDE DEF ByDay
    <3> QED BY <3>2
  <2>2. agentTxs[a] = Total(ByDay(a), Days) /\ agentTxs[a] \in Nat
    BY <1>1 DEF NoDoubleCounting
  <2>3. agentTxs'[a] = agentTxs[a] + (IF a \in A THEN 1 ELSE 0)
    BY DEF Executes
  <2>4. \A e \in Days \ {d} : ByDay(a)[e] = ByDay(a)'[e]
    BY <2>1
  <2>5. ByDay(a)'[d] - ByDay(a)[d] = IF a \in A THEN 1 ELSE 0
    BY <2>1
  <2>6. Total(ByDay(a)', Days) = Total(ByDay(a), Days) + (ByDay(a)'[d] - ByDay(a)[d])
    BY <1>2, <2>1, <2>4, SumChange
  <2> QED BY <2>2, <2>3, <2>5, <2>6
<1>7. Total(agentTxs', Agents) <= global'.txCount
  <2>1. \A a \in Agents : agentTxs[a] \in Nat /\ agentTxs'[a] = agentTxs[a] + (IF a \in A THEN 1 ELSE 0)
    BY <1>1 DEF Executes
  <2>2. /\ Total(agentTxs, Agents) \in Nat /\ Total(agentTxs', Agents) \in Nat
        /\ Total(agentTxs', Agents) <= Total(agentTxs, Agents) + 1
    BY <1>4, <2>1
  <2>3. global'.txCount = global.txCount + 1
    BY DEF Executes
  <2>4. Total(agentTxs, Agents) <= global.txCount
    BY <1>1 DEF NoDoubleCounting
  <2> QED BY <1>1, <2>2, <2>3, <2>4
<1> QED BY <1>5, <1>6, <1>7 DEF NoDoubleCounting

\* An execution keeps ActivityInv.
LEMMA ExecutionKeeps ==
  ASSUME ActivityInv, NEW m \in Multisigs, SafeExecution(m)
  PROVE  ActivityInv'
<1>1. PICK d : d = dayTimestamp(now)
  OBVIOUS
<1>2. d \in Days
  BY <1>1, DayNow DEF ActivityInv, ClockTyped
<1>3. multisigs[m].agentIds \in Seq(Agents) /\ multisigs[m].service \in Services
  BY DEF SafeExecution, ActivityInv, RegistryKept, MultisigRow
<1>4. PICK A : /\ OneEach(A, multisigs[m].agentIds) /\ Executes(m, d, A)
               /\ activity' = [activity EXCEPT ![<<d, multisigs[m].service>>] = multisigs[m].agentIds]
  BY <1>1, ExecutionIs
<1>5. DailyTyped'
  BY <1>2, <1>3, <1>4, ExecutionTyped
<1>6. /\ A \subseteq Agents
      /\ \/ A = {}
         \/ \E b \in Agents : A = {b}
  BY <1>4 DEF OneEach
<1>7. DailyCounted' /\ DaysAgree' /\ NoDoubleCounting'
  BY <1>2, <1>4, <1>6, ExecutionCounts, ExecutionAgrees, ExecutionCountedOnce
<1>8. ClockTyped'
  BY ServiceActivityAssumption DEF ActivityInv, ClockTyped, SafeExecution, Logged
<1>9. RegistryKept'
  BY DEF SafeExecution, ActivityInv, RegistryKept, ListedRegistered, OneAgent, registry
<1> QED BY <1>5, <1>7, <1>8, <1>9 DEF ActivityInv, DailyKept

-----------------------------------------------------------------------------
(* DailyTablesAgree, always.                                               *)

\* Every step keeps ActivityInv.
LEMMA ActivityStepKeeps ==
  ASSUME ActivityInv, GraphNext \/ UNCHANGED graphVars
  PROVE  ActivityInv'
<1>1. CASE NextBlock
  BY <1>1, NextBlockKeeps
<1>2. ASSUME NEW s \in Services, NEW config \in Configs, ServiceCreated(s, config) PROVE ActivityInv'
  BY <1>2, CreateServiceKeeps DEF ServiceCreated
<1>3. ASSUME NEW s \in Services, NEW config \in Configs, UpdateService(s, config) PROVE ActivityInv'
  BY <1>3, LoggedKeeps DEF UpdateService
<1>4. ASSUME NEW s \in Services, NEW a \in Agents, NEW o \in Operators, InstanceRegistered(s, a, o)
      PROVE  ActivityInv'
  BY <1>4, RegisterKeeps DEF InstanceRegistered
<1>5. ASSUME NEW s \in Services, NEW m \in Multisigs, NEW sender \in Senders, MultisigCreated(s, m, sender)
      PROVE  ActivityInv'
  BY <1>5, DeployKeeps DEF MultisigCreated
<1>6. ASSUME NEW s \in Services, ServiceTerminated(s) PROVE ActivityInv'
  BY <1>6, TerminateKeeps DEF ServiceTerminated
<1>7. ASSUME NEW m \in Multisigs, SafeExecuted(m) PROVE ActivityInv'
  BY <1>7, ExecutionKeeps DEF SafeExecuted
<1>8. ASSUME NEW s \in Services, NEW i \in Identities, ServiceAgentLinked(s, i) PROVE ActivityInv'
  BY <1>8, LoggedKeeps DEF ServiceAgentLinked
<1>9. ASSUME NEW i \in Identities, NEW m \in Multisigs, AgentWalletSet(i, m) PROVE ActivityInv'
  BY <1>9, LoggedKeeps DEF AgentWalletSet
<1>10. ASSUME NEW i \in Identities, NEW key \in Keys, NEW text \in Texts, MetadataSet(i, key, text)
       PROVE  ActivityInv'
  BY <1>10, LoggedKeeps DEF MetadataSet
<1>11. CASE UNCHANGED graphVars
  <2>1. UNCHANGED <<now, loggedAt, executed, registry, daily>>
    BY <1>11 DEF graphVars, activityVars, clock
  <2> QED BY <2>1, LoggedKeeps
<1> QED BY <1>1, <1>2, <1>3, <1>4, <1>5, <1>6, <1>7, <1>8, <1>9, <1>10, <1>11 DEF GraphNext

\* ActivityInv holds in every state the logs lead to.
LEMMA ActivityAlways == GraphSpec => []ActivityInv
<1>1. GraphInit => ActivityInv
  BY ActivityStarts DEF GraphInit
<1>2. ActivityInv /\ [GraphNext]_graphVars => ActivityInv'
  BY ActivityStepKeeps
<1> QED BY <1>1, <1>2, PTL DEF GraphSpec

\* The daily tables of the service-registry squid (handlers.ts:318-449) tell the same
\* day, whatever services, agents, multisigs and logs there are: a counter column is the
\* number of its link rows, an agent was active when a multisig of its was and a multisig
\* when it executed, and an execution counts for one agent at most.
THEOREM DailyTablesAlwaysAgree == GraphSpec => []DailyTablesAgree
BY ActivityAlways, ActivitySays, PTL

-----------------------------------------------------------------------------
(* The subgraph beside the squid: GraphInv, table by table.                *)

\* What a handler leaves alone of the subgraph's tables.
DailySame(t, u) ==
  /\ u.activity = t.activity /\ u.uniqueAgent = t.uniqueAgent /\ u.uniqueCount = t.uniqueCount
  /\ u.performance = t.performance /\ u.agentMultisig = t.agentMultisig /\ u.agentTxs = t.agentTxs
  /\ u.activeMultisig = t.activeMultisig /\ u.activeCount = t.activeCount /\ u.global = t.global
RegistrySame(t, u) ==
  /\ u.registration = t.registration /\ u.operator = t.operator /\ u.creator = t.creator
  /\ u.totalOperators = t.totalOperators
IdentitySame(t, u) == u.identity = t.identity /\ u.metadata = t.metadata

\* SameRows, by table.
SameServices  == graph.service = [s \in Services |-> ShownService(s)]
SameMultisigs == graph.multisig = [m \in Multisigs |-> ShownMultisig(m)]
SameRegistry ==
  /\ \A p \in Services \X Agents :
       graph.registration[p] = IF registered[p] = 0 THEN NoRow ELSE registered[p]
  /\ graph.operator = operators /\ graph.creator = creators
  /\ graph.totalOperators = totalOperators
SameDaily ==
  /\ graph.activity = activity
  /\ graph.uniqueAgent = uniqueAgents /\ graph.uniqueCount = uniqueCount
  /\ graph.performance = performance /\ graph.agentMultisig = agentMultisigs
  /\ graph.agentTxs = agentTxs
  /\ graph.activeMultisig = activeMultisigs /\ graph.activeCount = activeCount
  /\ graph.global = global
SameMetadata == graph.metadata = metadata

\* RowsAsSubgraph, table by table.
LEMMA RowsByTable ==
  RowsAsSubgraph <=> SameServices /\ SameMultisigs /\ SameRegistry /\ SameDaily /\ SameMetadata /\ SameIdentities
BY DEF RowsAsSubgraph, SameRows, SameServices, SameMultisigs, SameRegistry, SameDaily, SameMetadata

\* A service has a row with the subgraph when it has one with the squid.
LEMMA ServiceShown ==
  ASSUME ActivityInv, GraphInv, NEW s \in Services
  PROVE  /\ graph.service[s] = ShownService(s)
         /\ graph.service[s] = NoRow <=> services[s] = NoRow
         /\ services[s] # NoRow => graph.service[s] \in WholeServiceRow
         /\ graph.service = [r \in Services |-> graph.service[r]]
<1>1. SameServices
  BY RowsByTable DEF GraphInv
<1>2. graph.service[s] = ShownService(s) /\ graph.service = [r \in Services |-> graph.service[r]]
  BY <1>1 DEF SameServices
<1>3. columns[s] \in ColumnsRow
  BY DEF GraphInv, GraphTyped
<1>4. CASE services[s] = NoRow
  BY <1>2, <1>4 DEF ShownService
<1>5. CASE services[s] # NoRow
  <2>1. services[s] \in ServiceRow
    BY <1>5 DEF ActivityInv, RegistryKept
  <2>2. WholeService(services[s], columns[s]) \in WholeServiceRow
    BY <1>3, <2>1 DEF ServiceRow, ColumnsRow, WholeService, WholeServiceRow
  <2> QED BY <1>2, <1>5, <2>2, GraphAssumption DEF ShownService
<1> QED BY <1>2, <1>4, <1>5

\* A multisig has a row with the subgraph when it has one with the squid.
LEMMA MultisigShown ==
  ASSUME ActivityInv, GraphInv, NEW m \in Multisigs
  PROVE  /\ graph.multisig[m] = ShownMultisig(m)
         /\ graph.multisig[m] = NoRow <=> multisigs[m] = NoRow
         /\ graph.multisig = [n \in Multisigs |-> graph.multisig[n]]
<1>1. SameMultisigs
  BY RowsByTable DEF GraphInv
<1>2. graph.multisig[m] = ShownMultisig(m) /\ graph.multisig = [n \in Multisigs |-> graph.multisig[n]]
  BY <1>1 DEF SameMultisigs
<1>3. CASE multisigs[m] = NoRow
  BY <1>2, <1>3 DEF ShownMultisig
<1>4. CASE multisigs[m] # NoRow
  <2>1. multisigs[m] \in MultisigRow
    BY <1>4 DEF ActivityInv, RegistryKept
  <2>2. deployers[m] \in DeployerRow
    BY <1>4 DEF GraphInv, GraphTyped
  <2>3. ShownMultisig(m) \in WholeMultisigRow
    BY <1>4, <2>1, <2>2 DEF ShownMultisig, MultisigRow, DeployerRow, WholeMultisigRow
  <2> QED BY <1>2, <1>4, <2>3, GraphAssumption
<1> QED BY <1>2, <1>3, <1>4

\* A handler that writes one row of Service.
LEMMA OneService ==
  ASSUME SameServices, NEW s \in Services,
         graph.service' = [graph.service EXCEPT ![s] = ShownService(s)'],
         \A r \in Services \ {s} : services'[r] = services[r] /\ columns'[r] = columns[r]
  PROVE  SameServices'
<1>1. \A r \in Services \ {s} : ShownService(r)' = ShownService(r)
  BY DEF ShownService
<1>2. graph.service' = [r \in Services |-> IF r = s THEN ShownService(s)' ELSE ShownService(r)]
  BY DEF SameServices
<1>3. \A r \in Services : (IF r = s THEN ShownService(s)' ELSE ShownService(r)) = ShownService(r)'
  BY <1>1
<1> QED BY <1>2, <1>3 DEF SameServices

\* A table neither of the two writes is the same after the log: services,
LEMMA ServicesStay ==
  ASSUME SameServices, graph.service' = graph.service, UNCHANGED <<services, columns>>
  PROVE  SameServices'
BY DEF SameServices, ShownService

\* multisigs,
LEMMA MultisigsStay ==
  ASSUME SameMultisigs, graph.multisig' = graph.multisig, UNCHANGED <<multisigs, deployers>>
  PROVE  SameMultisigs'
BY DEF SameMultisigs, ShownMultisig

\* registrations, operators and creators,
LEMMA RegistryStays ==
  ASSUME SameRegistry, RegistrySame(graph, graph'), UNCHANGED <<registered, operators, totalOperators, creators>>
  PROVE  SameRegistry'
BY DEF SameRegistry, RegistrySame

\* and the daily tables.
LEMMA DailyRowsStay ==
  ASSUME SameDaily, DailySame(graph, graph'), UNCHANGED daily
  PROVE  SameDaily'
BY DEF SameDaily, DailySame, daily

\* No link from a service to an identity is new, and no identity or metadata changes.
LEMMA IdentitiesStay ==
  ASSUME SameIdentities, IdentitiesLinked, SameMetadata, IdentitySame(graph, graph'), UNCHANGED <<identities, metadata>>,
         \A s \in Services : columns'[s].identity \in {columns[s].identity, NoValue}
  PROVE  SameIdentities' /\ IdentitiesLinked' /\ SameMetadata'
<1>1. NoValue \notin Identities
  BY GraphAssumption
<1>2. SameIdentities'
  BY <1>1 DEF SameIdentities, IdentitySame
<1>3. IdentitiesLinked'
  BY DEF IdentitiesLinked, IdentitySame
<1> QED BY <1>2, <1>3 DEF SameMetadata, IdentitySame

-----------------------------------------------------------------------------
(* Services, in both.                                                      *)

\* The subgraph's getOrCreateService, when the service may be new.
RowOrNew(t, s, at) ==
  IF t.service[s] # NoRow THEN t.service[s]
  ELSE WholeService([agentIds |-> <<>>, multisig |-> NoRow], NewColumns(at))

\* The subgraph's getOrCreateService writes one row of one table.
LEMMA GetOrCreateServiceDoes ==
  ASSUME NEW t, GraphShaped(t), t.service = [r \in Services |-> t.service[r]], NEW s \in Services, NEW at
  PROVE  LET u == GetOrCreateService(t, s, at) IN
         /\ GraphShaped(u) /\ u.service = [t.service EXCEPT ![s] = RowOrNew(t, s, at)]
         /\ u.multisig = t.multisig /\ DailySame(t, u) /\ RegistrySame(t, u) /\ IdentitySame(t, u)
BY DEF GetOrCreateService, RowOrNew, GraphShaped, DailySame, RegistrySame, IdentitySame

\* The row it returns is the one the squid's returns.
LEMMA RowOrNewShown ==
  ASSUME ActivityInv, GraphInv, NEW s \in Services, NEW at \in Nat
  PROVE  /\ RowOrNew(graph, s, at) = WholeService(ServiceOrNew(s), ColumnsOrNew(s, at))
         /\ ServiceOrNew(s) \in ServiceRow /\ ColumnsOrNew(s, at) \in ColumnsRow
         /\ ColumnsOrNew(s, at).identity \in {columns[s].identity, NoValue}
<1>1. ServiceOrNew(s) \in ServiceRow
  <2>1. <<>> \in Seq(Agents)
    OBVIOUS
  <2> QED BY <2>1 DEF ActivityInv, RegistryKept, ServiceOrNew, ServiceRow
<1>2. NewColumns(at) \in ColumnsRow /\ columns[s] \in ColumnsRow
  BY DEF NewColumns, ColumnsRow, GraphInv, GraphTyped
<1>3. ColumnsOrNew(s, at) \in ColumnsRow /\ ColumnsOrNew(s, at).identity \in {columns[s].identity, NoValue}
  BY <1>2 DEF ColumnsOrNew, NewColumns
<1>4. RowOrNew(graph, s, at) = WholeService(ServiceOrNew(s), ColumnsOrNew(s, at))
  <2>1. graph.service[s] = ShownService(s) /\ (graph.service[s] = NoRow <=> services[s] = NoRow)
    BY ServiceShown
  <2> QED BY <2>1 DEF RowOrNew, ShownService, ServiceOrNew, ColumnsOrNew
<1> QED BY <1>1, <1>3, <1>4

\* A step that writes nothing keeps GraphInv.
LEMMA GraphStays ==
  ASSUME GraphInv, UNCHANGED <<registry, daily, squidVars, graph>>
  PROVE  GraphInv'
<1> USE DEF registry, daily, squidVars
<1>1. GraphTyped' /\ IdentitiesLinked'
  BY DEF GraphInv, GraphTyped, GraphShaped, IdentitiesLinked
<1>2. SameServices' /\ SameMultisigs'
  BY RowsByTable, ServicesStay, MultisigsStay DEF GraphInv
<1>3. SameRegistry' /\ SameDaily' /\ SameMetadata' /\ SameIdentities'
  BY RowsByTable DEF GraphInv, SameRegistry, SameDaily, SameMetadata, SameIdentities
<1>4. RowsAsSubgraph'
  BY <1>2, <1>3 DEF RowsAsSubgraph, SameRows, SameServices, SameMultisigs, SameRegistry, SameDaily, SameMetadata
<1> QED BY <1>1, <1>4 DEF GraphInv

\* A handler that writes one row of Service, and what it may of the registrations and operators.
LEMMA OneServiceAgrees ==
  ASSUME ActivityInv, GraphInv, NEW s \in Services, NEW c \in ColumnsRow,
         c.identity \in {columns[s].identity, NoValue},
         \A r \in Services \ {s} : services'[r] = services[r],
         columns' = [columns EXCEPT ![s] = c],
         GraphShaped(graph'), graph.service' = [graph.service EXCEPT ![s] = ShownService(s)'],
         graph.multisig' = graph.multisig, DailySame(graph, graph'), IdentitySame(graph, graph'),
         SameRegistry', graph.registration' = [p \in Services \X Agents |-> graph.registration'[p]],
         UNCHANGED <<multisigs, daily, deployers, identities, metadata>>
  PROVE  GraphInv'
<1>1. GraphTyped /\ IdentitiesLinked /\ SameServices /\ SameMultisigs /\ SameDaily /\ SameMetadata /\ SameIdentities
  BY RowsByTable DEF GraphInv
<1>2. columns' \in [Services -> ColumnsRow]
      /\ \A r \in Services : columns'[r] = IF r = s THEN c ELSE columns[r]
  BY <1>1 DEF GraphTyped
<1>3. \A r \in Services : columns'[r].identity \in {columns[r].identity, NoValue}
  BY <1>2
<1>4. SameServices'
  <2>1. \A r \in Services \ {s} : services'[r] = services[r] /\ columns'[r] = columns[r]
    BY <1>2
  <2> QED BY <1>1, <2>1, OneService
<1>5. SameMultisigs' /\ SameDaily'
  BY <1>1, MultisigsStay, DailyRowsStay
<1>6. SameIdentities' /\ IdentitiesLinked' /\ SameMetadata'
  BY <1>1, <1>3, IdentitiesStay
<1>7. GraphTyped'
  BY <1>1, <1>2 DEF GraphTyped, IdentitySame
<1>8. RowsAsSubgraph'
  BY <1>4, <1>5, <1>6 DEF RowsAsSubgraph, SameRows, SameServices, SameMultisigs, SameRegistry, SameDaily, SameMetadata
<1> QED BY <1>6, <1>7, <1>8 DEF GraphInv

\* A CreateService log keeps GraphInv.
LEMMA ServiceCreatedAgrees ==
  ASSUME ActivityInv, GraphInv, NEW s \in Services, NEW config \in Configs, ServiceCreated(s, config)
  PROVE  GraphInv'
<1> DEFINE c == [ColumnsOrNew(s, now) EXCEPT !.config = config]
<1>1. now \in Nat
  BY ServiceActivityAssumption DEF ActivityInv, ClockTyped
<1>2. /\ services' = [services EXCEPT ![s] = ServiceOrNew(s)]
      /\ UNCHANGED <<registered, multisigs, operators, totalOperators, daily>>
      /\ columns' = [columns EXCEPT ![s] = c]
      /\ graph' = [GetOrCreateService(graph, s, now) EXCEPT !.service[s].config = config]
      /\ UNCHANGED <<deployers, creators, identities, metadata>>
  BY DEF ServiceCreated, CreateService, HandleCreateService
<1>3. GraphTyped /\ SameRegistry
  BY RowsByTable DEF GraphInv
<1>4. /\ RowOrNew(graph, s, now) = WholeService(ServiceOrNew(s), ColumnsOrNew(s, now))
      /\ ServiceOrNew(s) \in ServiceRow /\ ColumnsOrNew(s, now) \in ColumnsRow
      /\ ColumnsOrNew(s, now).identity \in {columns[s].identity, NoValue}
  BY <1>1, RowOrNewShown
<1>5. c \in ColumnsRow /\ c.identity \in {columns[s].identity, NoValue}
  BY <1>4 DEF ColumnsRow
<1>6. GraphShaped(graph) /\ graph.service = [r \in Services |-> graph.service[r]]
  BY ServiceShown, <1>3 DEF GraphTyped
<1>7. /\ GraphShaped(graph')
      /\ graph.service' = [graph.service EXCEPT ![s] = [RowOrNew(graph, s, now) EXCEPT !.config = config]]
      /\ graph.multisig' = graph.multisig
      /\ DailySame(graph, graph') /\ RegistrySame(graph, graph') /\ IdentitySame(graph, graph')
  <2> DEFINE u == GetOrCreateService(graph, s, now)
  <2>1. /\ GraphShaped(u) /\ u.service = [graph.service EXCEPT ![s] = RowOrNew(graph, s, now)]
        /\ u.multisig = graph.multisig
        /\ DailySame(graph, u) /\ RegistrySame(graph, u) /\ IdentitySame(graph, u)
    BY <1>6, GetOrCreateServiceDoes
  <2>2. graph' = [u EXCEPT !.service[s].config = config]
    BY <1>2
  <2> HIDE DEF u
  <2> QED BY <1>6, <2>1, <2>2 DEF GraphShaped, DailySame, RegistrySame, IdentitySame
<1>8. ShownService(s)' = [RowOrNew(graph, s, now) EXCEPT !.config = config]
  <2>1. services'[s] = ServiceOrNew(s) /\ columns'[s] = c
    BY <1>2, <1>3 DEF ActivityInv, RegistryKept, GraphTyped
  <2>2. ShownService(s)' = WholeService(ServiceOrNew(s), c)
    BY <1>4, <2>1, ServiceActivityAssumption DEF ShownService
  <2> QED BY <1>4, <2>2 DEF WholeService, ColumnsRow
<1>9. \A r \in Services \ {s} : services'[r] = services[r]
  BY <1>2 DEF ActivityInv, RegistryKept
<1>10. SameRegistry' /\ graph.registration' = [p \in Services \X Agents |-> graph.registration'[p]]
  BY <1>2, <1>3, <1>7, RegistryStays DEF RegistrySame, GraphTyped
<1> HIDE DEF c
<1> QED BY <1>2, <1>5, <1>7, <1>8, <1>9, <1>10, OneServiceAgrees

\* An UpdateService log keeps GraphInv.
LEMMA ServiceUpdatedAgrees ==
  ASSUME ActivityInv, GraphInv, NEW s \in Services, NEW config \in Configs, UpdateService(s, config)
  PROVE  GraphInv'
<1>1. /\ columns' = IF services[s] = NoRow THEN columns ELSE [columns EXCEPT ![s].config = config]
      /\ graph' = IF graph.service[s] = NoRow THEN graph ELSE [graph EXCEPT !.service[s].config = config]
      /\ UNCHANGED <<registry, daily, deployers, creators, identities, metadata>>
  BY DEF UpdateService, HandleUpdateService
<1>2. GraphTyped /\ SameRegistry
  BY RowsByTable DEF GraphInv
<1>3. /\ graph.service[s] = ShownService(s)
      /\ graph.service[s] = NoRow <=> services[s] = NoRow
      /\ graph.service = [r \in Services |-> graph.service[r]]
  BY ServiceShown
<1>4. CASE services[s] = NoRow
  <2>1. UNCHANGED <<columns, graph>>
    BY <1>1, <1>3, <1>4
  <2> QED BY <1>1, <2>1, GraphStays DEF squidVars
<1>5. CASE services[s] # NoRow
  <2> DEFINE c == [columns[s] EXCEPT !.config = config]
  <2>1. columns[s] \in ColumnsRow /\ columns' = [columns EXCEPT ![s] = c]
    BY <1>1, <1>2, <1>5 DEF GraphTyped
  <2>2. c \in ColumnsRow /\ c.identity = columns[s].identity
    BY <2>1 DEF ColumnsRow
  <2>3. /\ GraphShaped(graph')
        /\ graph.service' = [graph.service EXCEPT ![s] = [graph.service[s] EXCEPT !.config = config]]
        /\ graph.multisig' = graph.multisig
        /\ DailySame(graph, graph') /\ RegistrySame(graph, graph') /\ IdentitySame(graph, graph')
    BY <1>1, <1>2, <1>3, <1>5 DEF GraphTyped, GraphShaped, DailySame, RegistrySame, IdentitySame
  <2>4. ShownService(s)' = [graph.service[s] EXCEPT !.config = config]
    <3>1. services'[s] = services[s] /\ columns'[s] = c
      BY <1>1, <1>2, <2>1 DEF registry, GraphTyped
    <3> QED BY <1>3, <1>5, <2>1, <3>1 DEF ShownService, WholeService, ColumnsRow
  <2>5. SameRegistry' /\ graph.registration' = [p \in Services \X Agents |-> graph.registration'[p]]
    BY <1>1, <1>2, <2>3, RegistryStays DEF RegistrySame, GraphTyped, registry
  <2>6. UNCHANGED <<multisigs, daily, deployers, identities, metadata>>
        /\ \A r \in Services \ {s} : services'[r] = services[r]
    BY <1>1 DEF registry
  <2>7. c.identity \in {columns[s].identity, NoValue}
    BY <2>2
  <2>8. graph.service' = [graph.service EXCEPT ![s] = ShownService(s)']
    BY <2>3, <2>4
  <2> HIDE DEF c
  <2> QED BY <2>1, <2>2, <2>3, <2>5, <2>6, <2>7, <2>8, OneServiceAgrees
<1> QED BY <1>4, <1>5

\* The row of a terminated service.
LEMMA Emptied ==
  ASSUME NEW ids, NEW others
  PROVE  [WholeService(ids, others) EXCEPT !.agentIds = <<>>, !.multisig = NoRow, !.creator = NoValue]
           = [agentIds |-> <<>>, multisig |-> NoRow, config |-> others.config, creator |-> NoValue,
              created |-> others.created, identity |-> others.identity]
<1> DEFINE r0 == WholeService(ids, others)
           r1 == [r0 EXCEPT !.agentIds = <<>>]
           r2 == [r1 EXCEPT !.multisig = NoRow]
           r3 == [r2 EXCEPT !.creator = NoValue]
<1>1. r1 = [agentIds |-> <<>>, multisig |-> ids.multisig, config |-> others.config,
            creator |-> others.creator, created |-> others.created, identity |-> others.identity]
  BY DEF WholeService
<1> HIDE DEF r1
<1>2. r2 = [agentIds |-> <<>>, multisig |-> NoRow, config |-> others.config,
            creator |-> others.creator, created |-> others.created, identity |-> others.identity]
  BY <1>1
<1> HIDE DEF r2
<1>3. r3 = [agentIds |-> <<>>, multisig |-> NoRow, config |-> others.config, creator |-> NoValue,
            created |-> others.created, identity |-> others.identity]
  BY <1>2
<1> HIDE DEF r3
<1>4. r3 = [r0 EXCEPT !.agentIds = <<>>, !.multisig = NoRow, !.creator = NoValue]
  BY Zenon DEF r1, r2, r3
<1> QED BY <1>3, <1>4, Zenon

\* A TerminateService log keeps GraphInv.
LEMMA TerminatedAgrees ==
  ASSUME ActivityInv, GraphInv, NEW s \in Services, ServiceTerminated(s)
  PROVE  GraphInv'
<1> DEFINE gone == [agentIds |-> <<>>, multisig |-> NoRow]
<1>1. /\ services' = [services EXCEPT ![s] = IF services[s] = NoRow THEN services[s] ELSE gone]
      /\ columns' = IF services[s] = NoRow THEN columns ELSE [columns EXCEPT ![s].creator = NoValue]
      /\ graph' = IF graph.service[s] = NoRow THEN graph
                  ELSE [graph EXCEPT !.service[s].agentIds = <<>>, !.service[s].multisig = NoRow,
                                     !.service[s].creator = NoValue]
      /\ UNCHANGED <<registered, multisigs, operators, totalOperators, daily>>
      /\ UNCHANGED <<deployers, creators, identities, metadata>>
  BY DEF ServiceTerminated, TerminateService, HandleTerminateService, ActivityInv, RegistryKept
<1>2. GraphTyped /\ SameRegistry
  BY RowsByTable DEF GraphInv
<1>3. /\ graph.service[s] = ShownService(s)
      /\ graph.service[s] = NoRow <=> services[s] = NoRow
      /\ graph.service = [r \in Services |-> graph.service[r]]
  BY ServiceShown
<1>4. CASE services[s] = NoRow
  <2>1. UNCHANGED <<services, columns, graph>>
    BY <1>1, <1>3, <1>4 DEF ActivityInv, RegistryKept
  <2> QED BY <1>1, <2>1, GraphStays DEF registry, squidVars
<1>5. CASE services[s] # NoRow
  <2> DEFINE c == [columns[s] EXCEPT !.creator = NoValue]
             row == [graph.service[s] EXCEPT !.agentIds = <<>>, !.multisig = NoRow, !.creator = NoValue]
  <2>1. columns[s] \in ColumnsRow /\ columns' = [columns EXCEPT ![s] = c]
    BY <1>1, <1>2, <1>5 DEF GraphTyped
  <2>2. c \in ColumnsRow /\ c.identity = columns[s].identity
    BY <2>1 DEF ColumnsRow
  <2>3. /\ GraphShaped(graph')
        /\ graph.service' = [graph.service EXCEPT ![s] = row]
        /\ graph.multisig' = graph.multisig
        /\ DailySame(graph, graph') /\ RegistrySame(graph, graph') /\ IdentitySame(graph, graph')
    BY <1>1, <1>2, <1>3, <1>5 DEF GraphTyped, GraphShaped, DailySame, RegistrySame, IdentitySame
  <2>4. ShownService(s)' = row
    <3>1. services'[s] = gone /\ columns'[s] = c
      BY <1>1, <1>2, <1>5, <2>1 DEF GraphTyped, ActivityInv, RegistryKept
    <3>2. <<>> \in Seq(Agents)
      OBVIOUS
    <3>3. gone \in ServiceRow
      BY <3>2 DEF ServiceRow
    <3>4. ShownService(s)' = WholeService(gone, c)
      BY <3>1, <3>3, ServiceActivityAssumption DEF ShownService
    <3>5. graph.service[s] = WholeService(services[s], columns[s])
      BY <1>3, <1>5 DEF ShownService
    <3>6. c.config = columns[s].config /\ c.creator = NoValue /\ c.created = columns[s].created
          /\ c.identity = columns[s].identity
      BY <2>1 DEF ColumnsRow
    <3>7. row = [agentIds |-> <<>>, multisig |-> NoRow, config |-> columns[s].config, creator |-> NoValue,
                 created |-> columns[s].created, identity |-> columns[s].identity]
      <4>1. row = [WholeService(services[s], columns[s]) EXCEPT !.agentIds = <<>>, !.multisig = NoRow,
                                                                !.creator = NoValue]
        BY <3>5, Zenon
      <4> QED BY <4>1, Emptied, Zenon
    <3> HIDE DEF c, row
    <3> QED BY <3>4, <3>6, <3>7 DEF WholeService
  <2>5. SameRegistry' /\ graph.registration' = [p \in Services \X Agents |-> graph.registration'[p]]
    BY <1>1, <1>2, <2>3, RegistryStays DEF RegistrySame, GraphTyped
  <2>6. \A r \in Services \ {s} : services'[r] = services[r]
    BY <1>1 DEF ActivityInv, RegistryKept
  <2>7. c.identity \in {columns[s].identity, NoValue}
    BY <2>2
  <2>8. graph.service' = [graph.service EXCEPT ![s] = ShownService(s)']
    BY <2>3, <2>4
  <2> HIDE DEF c, row
  <2> QED BY <1>1, <2>1, <2>2, <2>3, <2>5, <2>6, <2>7, <2>8, OneServiceAgrees
<1> QED BY <1>4, <1>5

\* A RegisterInstance log keeps GraphInv.
LEMMA RegisteredAgrees ==
  ASSUME ActivityInv, GraphInv, NEW s \in Services, NEW a \in Agents, NEW o \in Operators,
         InstanceRegistered(s, a, o)
  PROVE  GraphInv'
<1> DEFINE row == [ServiceOrNew(s) EXCEPT !.agentIds = pushUnique(@, a)]
           c == ColumnsOrNew(s, 0)
           old == RowOrNew(graph, s, 0)
           r1 == GetOrCreateService(graph, s, 0)
           u == CreateOrUpdateAgentRegistration(r1, s, a)
           v == IF Occurrences(a, u.service[s].agentIds) > 0 THEN u
                ELSE [u EXCEPT !.service[s].agentIds = Append(@, a)]
<1>1. /\ services' = [services EXCEPT ![s] = row]
      /\ registered' = [registered EXCEPT ![<<s, a>>] = now]
      /\ operators' = operators \cup {o} /\ totalOperators' = uniqueOperators(o)
      /\ columns' = [columns EXCEPT ![s] = c]
      /\ UNCHANGED <<multisigs, daily, deployers, creators, identities, metadata>>
  BY DEF InstanceRegistered, RegisterInstance
<1>2. graph' = UpdateUniqueOperators(v, o)
  BY DEF InstanceRegistered, HandleRegisterInstance
<1>3. GraphTyped /\ SameRegistry /\ now \in 1 .. MaxTime /\ now # 0
  BY RowsByTable, ServiceActivityAssumption DEF GraphInv, ActivityInv, ClockTyped
<1>4. /\ old = WholeService(ServiceOrNew(s), c)
      /\ ServiceOrNew(s) \in ServiceRow /\ c \in ColumnsRow
      /\ c.identity \in {columns[s].identity, NoValue}
  BY RowOrNewShown
<1>5. GraphShaped(graph) /\ graph.service = [r \in Services |-> graph.service[r]]
  BY ServiceShown, <1>3 DEF GraphTyped
<1>6. /\ GraphShaped(r1) /\ r1.service = [graph.service EXCEPT ![s] = old] /\ r1.multisig = graph.multisig
      /\ DailySame(graph, r1) /\ RegistrySame(graph, r1) /\ IdentitySame(graph, r1)
  BY <1>5, GetOrCreateServiceDoes
<1> HIDE DEF r1, old, c
<1>7. /\ GraphShaped(u) /\ u.service = [graph.service EXCEPT ![s] = old] /\ u.multisig = graph.multisig
      /\ DailySame(graph, u) /\ IdentitySame(graph, u)
      /\ u.registration = [graph.registration EXCEPT ![<<s, a>>] = now]
      /\ u.operator = graph.operator /\ u.creator = graph.creator /\ u.totalOperators = graph.totalOperators
  BY <1>6 DEF CreateOrUpdateAgentRegistration, GraphShaped, DailySame, RegistrySame, IdentitySame
<1> HIDE DEF u
<1>8. u.service[s] = old /\ old.agentIds = ServiceOrNew(s).agentIds
  BY <1>4, <1>5, <1>7 DEF WholeService
<1>9. /\ GraphShaped(v) /\ v.multisig = graph.multisig
      /\ v.service = [graph.service EXCEPT ![s] = [old EXCEPT !.agentIds = pushUnique(old.agentIds, a)]]
      /\ DailySame(graph, v) /\ IdentitySame(graph, v)
      /\ v.registration = [graph.registration EXCEPT ![<<s, a>>] = now]
      /\ v.operator = graph.operator /\ v.creator = graph.creator /\ v.totalOperators = graph.totalOperators
  <2>1. CASE Occurrences(a, old.agentIds) > 0
    <3>1. v = u /\ pushUnique(old.agentIds, a) = old.agentIds
      BY <1>8, <2>1 DEF pushUnique
    <3>2. [old EXCEPT !.agentIds = old.agentIds] = old
      BY <1>4 DEF WholeService
    <3> HIDE DEF v
    <3> QED BY <1>7, <3>1, <3>2
  <2>2. CASE ~ (Occurrences(a, old.agentIds) > 0)
    <3>1. v = [u EXCEPT !.service[s].agentIds = Append(old.agentIds, a)]
      BY <1>5, <1>7, <1>8, <2>2
    <3>2. pushUnique(old.agentIds, a) = Append(old.agentIds, a)
      BY <2>2 DEF pushUnique
    <3> HIDE DEF v
    <3> QED BY <1>5, <1>7, <1>8, <3>1, <3>2 DEF GraphShaped, DailySame, IdentitySame
  <2> QED BY <2>1, <2>2
<1> HIDE DEF v
<1>10. /\ GraphShaped(graph') /\ graph.multisig' = graph.multisig
       /\ graph.service' = v.service
       /\ DailySame(graph, graph') /\ IdentitySame(graph, graph')
       /\ graph.registration' = [graph.registration EXCEPT ![<<s, a>>] = now]
       /\ graph.operator' = graph.operator \cup {o} /\ graph.creator' = graph.creator
       /\ graph.totalOperators' = IF o \in graph.operator THEN graph.totalOperators ELSE graph.totalOperators + 1
  BY <1>2, <1>9 DEF UpdateUniqueOperators, GraphShaped, DailySame, IdentitySame
<1>11. ShownService(s)' = [old EXCEPT !.agentIds = pushUnique(old.agentIds, a)]
  <2>1. services'[s] = row /\ columns'[s] = c
    BY <1>1, <1>3 DEF ActivityInv, RegistryKept, GraphTyped
  <2>2. row \in ServiceRow
    <3>1. ServiceOrNew(s).agentIds \in Seq(Agents)
      BY <1>4 DEF ServiceRow
    <3>2. pushUnique(ServiceOrNew(s).agentIds, a) \in Seq(Agents)
      BY <3>1, Pushed
    <3> QED BY <1>4, <3>2 DEF ServiceRow
  <2>3. ShownService(s)' = WholeService(row, c)
    BY <2>1, <2>2, ServiceActivityAssumption DEF ShownService
  <2> QED BY <1>4, <1>8, <2>3 DEF WholeService, ServiceRow
<1>12. SameRegistry'
  <2>1. \A p \in Services \X Agents :
          /\ registered'[p] = IF p = <<s, a>> THEN now ELSE registered[p]
          /\ graph.registration'[p] = IF p = <<s, a>> THEN now ELSE graph.registration[p]
    BY <1>1, <1>3, <1>10 DEF ActivityInv, RegistryKept, GraphTyped
  <2>2. \A p \in Services \X Agents :
          graph.registration'[p] = IF registered'[p] = 0 THEN NoRow ELSE registered'[p]
    BY <1>3, <2>1 DEF SameRegistry
  <2> QED BY <1>1, <1>3, <1>10, <2>2 DEF SameRegistry, uniqueOperators
<1>13. graph.registration' = [p \in Services \X Agents |-> graph.registration'[p]]
  BY <1>3, <1>10 DEF GraphTyped
<1>14. \A r \in Services \ {s} : services'[r] = services[r]
  BY <1>1 DEF ActivityInv, RegistryKept
<1>15. graph.service' = [graph.service EXCEPT ![s] = ShownService(s)']
  BY <1>9, <1>10, <1>11
<1> HIDE DEF row
<1> QED BY <1>1, <1>4, <1>10, <1>12, <1>13, <1>14, <1>15, OneServiceAgrees

-----------------------------------------------------------------------------
(* Deployments, in both.                                                   *)

\* The subgraph's choice of an agent is the squid's.
LEMMA MostRecentSame ==
  ASSUME ActivityInv, GraphInv, NEW s \in Services, services[s] # NoRow, NEW u,
         u.registration = graph.registration
  PROVE  LET ids == services[s].agentIds
             recent == GetMostRecentAgentId(u, s, ids) IN
         (IF recent = NoAgent THEN ids ELSE <<recent>>) = agentsOf(s)
<1> DEFINE ids == services[s].agentIds
           at(k) == u.registration[<<s, ids[k]>>]
           eligible == {k \in DOMAIN ids : at(k) # NoRow /\ at(k) <= now}
           latest == {k \in eligible : \A j \in eligible : at(j) <= at(k)}
           recent == GetMostRecentAgentId(u, s, ids)
<1> SUFFICES (IF recent = NoAgent THEN ids ELSE <<recent>>) = agentsOf(s)
  OBVIOUS
<1>1. ids \in Seq(Agents) /\ Len(ids) \in Nat /\ DOMAIN ids = 1 .. Len(ids) /\ now \in Nat
  <2>1. services[s] \in ServiceRow
    BY DEF ActivityInv, RegistryKept
  <2>2. ids \in Seq(Agents)
    BY <2>1 DEF ServiceRow
  <2> QED BY <2>2, LenProperties, ServiceActivityAssumption DEF ActivityInv, ClockTyped
<1>2. recent = IF latest = {} THEN NoAgent ELSE ids[CHOOSE k \in latest : \A j \in latest : k <= j]
  BY DEF GetMostRecentAgentId
<1>3. NoAgent \notin Agents
  BY ServiceActivityAssumption
<1>4. CASE ids = <<>>
  <2>1. recent = NoAgent
    <3>1. latest = {}
      BY <1>1, <1>4
    <3> QED BY <1>2, <3>1
  <2>2. mostRecentAgentId(s) = NoAgent
    <3>1. Len(ids) = 0
      BY <1>4
    <3>2. PICK f : IsBest(f, s, ids, Len(ids)) /\ mostRecentAgentId(s) = f[Len(ids)].agent
      BY <1>1, MostRecentIsBest
    <3>3. f[0] = NoBest
      BY <3>1, <3>2 DEF IsBest
    <3> QED BY <3>1, <3>2, <3>3 DEF NoBest
  <2>3. agentsOf(s) = ids
    BY <1>3, <2>2 DEF agentsOf
  <2> HIDE DEF recent
  <2> QED BY <2>1, <2>3
<1>5. CASE ids # <<>>
  <2>1. \A k \in DOMAIN ids : registered[<<s, ids[k]>>] \in 1 .. now
    BY DEF ActivityInv, RegistryKept, ListedRegistered
  <2>2. PICK k \in DOMAIN ids : ids[k] = mostRecentAgentId(s) /\ FirstLatest(s, ids, Len(ids), k)
    BY <1>1, <1>5, <2>1, MostRecentFound
  <2>3. \A i \in DOMAIN ids : ids[i] \in Agents
    BY <1>1, ElementOfSeq
  <2>4. \A i \in DOMAIN ids : at(i) = registered[<<s, ids[i]>>] /\ at(i) \in 1 .. now /\ at(i) # NoRow
    <3> SUFFICES ASSUME NEW i \in DOMAIN ids
                 PROVE  at(i) = registered[<<s, ids[i]>>] /\ at(i) \in 1 .. now /\ at(i) # NoRow
      OBVIOUS
    <3>1. <<s, ids[i]>> \in Services \X Agents /\ registered[<<s, ids[i]>>] \in 1 .. now
      BY <2>1, <2>3
    <3>2. SameRegistry
      BY RowsByTable DEF GraphInv
    <3>3. at(i) = registered[<<s, ids[i]>>]
      BY <3>1, <3>2, <1>1 DEF SameRegistry
    <3>4. NoRow \notin Nat
      BY ServiceActivityAssumption
    <3> QED BY <3>1, <3>3, <3>4, <1>1
  <2>5. eligible = DOMAIN ids
    BY <1>1, <2>4
  <2>6. \A i \in DOMAIN ids : at(i) <= at(k) /\ (i < k => at(i) < at(k))
    BY <1>1, <2>2, <2>4 DEF FirstLatest, At
  <2>7. k \in latest /\ latest \subseteq DOMAIN ids
    BY <2>5, <2>6
  <2>8. \A j \in latest : k <= j
    <3>1. \A j \in latest : at(k) <= at(j)
      BY <2>5
    <3>2. \A j \in DOMAIN ids : at(j) \in Nat
      BY <2>4, <1>1
    <3>3. \A j \in DOMAIN ids : j \in Nat
      BY <1>1
    <3> HIDE DEF latest, at, ids
    <3> QED BY <2>6, <2>7, <3>1, <3>2, <3>3
  <2> HIDE DEF latest, recent
  <2>9. (CHOOSE l \in latest : \A j \in latest : l <= j) = k
    <3>1. \A l \in latest : l \in Nat
      BY <1>1, <2>7
    <3>2. \A l \in latest : (\A j \in latest : l <= j) => l = k
      BY <2>7, <2>8, <3>1
    <3> QED BY <2>7, <2>8, <3>2
  <2>10. recent = mostRecentAgentId(s) /\ recent \in Agents
    BY <1>2, <2>2, <2>3, <2>7, <2>9
  <2>11. agentsOf(s) = <<recent>>
    BY <2>10 DEF agentsOf
  <2> QED BY <1>3, <2>10, <2>11
<1> QED BY <1>4, <1>5

\* The row of a deployed service,
LEMMA ServiceDeployed ==
  ASSUME NEW row, NEW others, NEW sender, NEW m
  PROVE  [WholeService(row, others) EXCEPT !.creator = sender, !.multisig = m]
           = [agentIds |-> row.agentIds, multisig |-> m, config |-> others.config, creator |-> sender,
              created |-> others.created, identity |-> others.identity]
<1> DEFINE r0 == WholeService(row, others)
           r1 == [r0 EXCEPT !.creator = sender]
           r2 == [r1 EXCEPT !.multisig = m]
<1>1. r1 = [agentIds |-> row.agentIds, multisig |-> row.multisig, config |-> others.config,
            creator |-> sender, created |-> others.created, identity |-> others.identity]
  BY DEF WholeService
<1> HIDE DEF r1
<1>2. r2 = [agentIds |-> row.agentIds, multisig |-> m, config |-> others.config,
            creator |-> sender, created |-> others.created, identity |-> others.identity]
  BY <1>1
<1> HIDE DEF r2
<1>3. r2 = [r0 EXCEPT !.creator = sender, !.multisig = m]
  BY Zenon DEF r1, r2
<1> QED BY <1>2, <1>3, Zenon

\* and the row of its multisig.
LEMMA MultisigDeployed ==
  ASSUME NEW row, NEW s, NEW standsFor,
         row = [service |-> row.service, agentIds |-> row.agentIds, creator |-> row.creator, created |-> row.created]
  PROVE  [row EXCEPT !.service = s, !.agentIds = standsFor]
           = [service |-> s, agentIds |-> standsFor, creator |-> row.creator, created |-> row.created]
<1> DEFINE r1 == [row EXCEPT !.service = s]
           r2 == [r1 EXCEPT !.agentIds = standsFor]
<1>1. r1 = [service |-> s, agentIds |-> row.agentIds, creator |-> row.creator, created |-> row.created]
  OBVIOUS
<1> HIDE DEF r1
<1>2. r2 = [service |-> s, agentIds |-> standsFor, creator |-> row.creator, created |-> row.created]
  BY <1>1
<1> HIDE DEF r2
<1>3. r2 = [row EXCEPT !.service = s, !.agentIds = standsFor]
  BY Zenon DEF r1, r2
<1> QED BY <1>2, <1>3, Zenon

\* The rows of Service and Multisig that a deployment writes.
LEMMA RowsDeployed ==
  ASSUME NEW t, GraphShaped(t), NEW s \in Services, NEW m \in Multisigs, NEW sender, NEW standsFor,
         t.service = [r \in Services |-> t.service[r]], t.multisig = [n \in Multisigs |-> t.multisig[n]]
  PROVE  LET u == [t EXCEPT !.service[s].creator = sender, !.service[s].multisig = m,
                            !.multisig[m].service = s, !.multisig[m].agentIds = standsFor] IN
         /\ GraphShaped(u)
         /\ u.service = [t.service EXCEPT ![s] = [t.service[s] EXCEPT !.creator = sender, !.multisig = m]]
         /\ u.multisig = [t.multisig EXCEPT ![m] = [t.multisig[m] EXCEPT !.service = s, !.agentIds = standsFor]]
         /\ DailySame(t, u) /\ IdentitySame(t, u) /\ RegistrySame(t, u)
<1> DEFINE u1 == [t EXCEPT !.service[s].creator = sender]
           u2 == [u1 EXCEPT !.service[s].multisig = m]
           u3 == [u2 EXCEPT !.multisig[m].service = s]
           u4 == [u3 EXCEPT !.multisig[m].agentIds = standsFor]
           r1 == [t.service[s] EXCEPT !.creator = sender]
           r2 == [r1 EXCEPT !.multisig = m]
           m1 == [t.multisig[m] EXCEPT !.service = s]
           m2 == [m1 EXCEPT !.agentIds = standsFor]
           Framed(u) == GraphShaped(u) /\ DailySame(t, u) /\ IdentitySame(t, u) /\ RegistrySame(t, u)
<1> USE DEF GraphShaped, DailySame, IdentitySame, RegistrySame
<1>1. Framed(u1) /\ u1.service = [t.service EXCEPT ![s] = r1] /\ u1.multisig = t.multisig
  OBVIOUS
<1> HIDE DEF u1
<1>2. Framed(u2) /\ u2.service = [t.service EXCEPT ![s] = r2] /\ u2.multisig = t.multisig
  <2> HIDE DEF r1
  <2> QED BY <1>1
<1> HIDE DEF u2, r1, r2
<1>3. Framed(u3) /\ u3.service = [t.service EXCEPT ![s] = r2] /\ u3.multisig = [t.multisig EXCEPT ![m] = m1]
  BY <1>2
<1> HIDE DEF u3
<1>4. Framed(u4) /\ u4.service = [t.service EXCEPT ![s] = r2] /\ u4.multisig = [t.multisig EXCEPT ![m] = m2]
  <2> HIDE DEF m1
  <2> QED BY <1>3
<1> HIDE DEF u4, m1, m2
<1>5. /\ u4 = [t EXCEPT !.service[s].creator = sender, !.service[s].multisig = m,
                        !.multisig[m].service = s, !.multisig[m].agentIds = standsFor]
  BY Zenon DEF u1, u2, u3, u4
<1>6. /\ r2 = [t.service[s] EXCEPT !.creator = sender, !.multisig = m]
      /\ m2 = [t.multisig[m] EXCEPT !.service = s, !.agentIds = standsFor]
  BY Zenon DEF r1, r2, m1, m2
<1> HIDE DEF GraphShaped, DailySame, IdentitySame, RegistrySame
<1> QED BY <1>4, <1>5, <1>6, Zenon

\* A CreateMultisigWithAgents log keeps GraphInv: both find the same agent.
LEMMA DeployedAgrees ==
  ASSUME ActivityInv, GraphInv, NEW s \in Services, NEW m \in Multisigs, NEW sender \in Senders,
         MultisigCreated(s, m, sender)
  PROVE  GraphInv'
<1>1. GraphTyped /\ IdentitiesLinked /\ SameServices /\ SameMultisigs /\ SameRegistry /\ SameDaily /\ SameMetadata
      /\ SameIdentities
  BY RowsByTable DEF GraphInv
<1>2. /\ graph.service[s] = ShownService(s)
      /\ graph.service[s] = NoRow <=> services[s] = NoRow
      /\ graph.service = [r \in Services |-> graph.service[r]]
  BY ServiceShown
<1>3. CASE services[s] = NoRow
  <2>1. UNCHANGED <<services, multisigs, registered, operators, totalOperators, daily>>
        /\ UNCHANGED <<columns, deployers, creators, identities, metadata>>
    BY <1>3 DEF MultisigCreated, CreateMultisigRow
  <2>2. UNCHANGED graph
    BY <1>2, <1>3 DEF MultisigCreated, HandleCreateMultisig
  <2> QED BY <2>1, <2>2, GraphStays DEF registry, squidVars
<1>4. CASE services[s] # NoRow
  <2> DEFINE c == [columns[s] EXCEPT !.creator = sender]
             deployed == IF deployers[m] # NoRow THEN deployers[m] ELSE [creator |-> sender, created |-> now]
             row == [service |-> s, agentIds |-> agentsOf(s)]
             u == GetOrCreateMultisig(GetOrCreateServiceCreator(graph, sender), m, sender)
             ids == u.service[s].agentIds
             recent == GetMostRecentAgentId(u, s, ids)
             standsFor == IF recent = NoAgent THEN ids ELSE <<recent>>
             um == IF graph.multisig[m] # NoRow THEN graph.multisig[m]
                   ELSE [service |-> NoRow, agentIds |-> <<>>, creator |-> sender, created |-> now]
  <2>1. columns[s] \in ColumnsRow /\ services[s] \in ServiceRow /\ agentsOf(s) \in Seq(Agents) /\ now \in Nat
    BY <1>1, <1>4, StandsForOne, ServiceActivityAssumption DEF ActivityInv, RegistryKept, ClockTyped, GraphTyped
  <2>2. /\ services' = [services EXCEPT ![s] = [services[s] EXCEPT !.multisig = m]]
        /\ multisigs' = [multisigs EXCEPT ![m] = row]
        /\ UNCHANGED <<registered, operators, totalOperators, daily, identities, metadata>>
        /\ columns' = [columns EXCEPT ![s] = c]
        /\ creators' = creators \cup {sender}
        /\ deployers' = [deployers EXCEPT ![m] = deployed]
    BY <1>1, <1>4 DEF MultisigCreated, CreateMultisigRow, ActivityInv, RegistryKept, GraphTyped
  <2>3. graph' = [u EXCEPT !.service[s].creator = sender, !.service[s].multisig = m,
                           !.multisig[m].service = s, !.multisig[m].agentIds = standsFor]
    BY <1>2, <1>4, Zenon DEF MultisigCreated, HandleCreateMultisig
  <2>4. graph.multisig = [n \in Multisigs |-> graph.multisig[n]] /\ graph.multisig[m] = ShownMultisig(m)
        /\ (graph.multisig[m] = NoRow <=> multisigs[m] = NoRow)
    BY MultisigShown
  <2>5. /\ GraphShaped(u) /\ u.service = graph.service /\ u.multisig = [graph.multisig EXCEPT ![m] = um]
        /\ DailySame(graph, u) /\ IdentitySame(graph, u) /\ u.registration = graph.registration
        /\ u.operator = graph.operator /\ u.totalOperators = graph.totalOperators
        /\ u.creator = graph.creator \cup {sender}
    BY <1>1, <2>4 DEF GetOrCreateMultisig, GetOrCreateServiceCreator, GraphTyped, GraphShaped, DailySame,
                      IdentitySame
  <2> HIDE DEF u
  <2>6. graph.service[s] = WholeService(services[s], columns[s])
    BY <1>2, <1>4 DEF ShownService
  <2>7. ids = services[s].agentIds
    BY <2>5, <2>6 DEF WholeService
  <2>8. standsFor = agentsOf(s)
    BY <1>4, <2>5, <2>7, MostRecentSame
  <2> HIDE DEF standsFor, um
  <2>9. /\ GraphShaped(graph')
        /\ graph.service' = [graph.service EXCEPT ![s] = [graph.service[s] EXCEPT !.creator = sender, !.multisig = m]]
        /\ graph.multisig' = [graph.multisig EXCEPT ![m] = [um EXCEPT !.service = s, !.agentIds = standsFor]]
        /\ DailySame(graph, graph') /\ IdentitySame(graph, graph') /\ graph.registration' = graph.registration
        /\ graph.operator' = graph.operator /\ graph.totalOperators' = graph.totalOperators
        /\ graph.creator' = graph.creator \cup {sender}
    <3>1. u.service = [r \in Services |-> u.service[r]] /\ u.multisig = [n \in Multisigs |-> u.multisig[n]]
          /\ u.service[s] = graph.service[s] /\ u.multisig[m] = um
      BY <1>2, <2>4, <2>5
    <3>2. /\ GraphShaped(graph')
          /\ graph.service' = [u.service EXCEPT ![s] = [u.service[s] EXCEPT !.creator = sender, !.multisig = m]]
          /\ graph.multisig' = [u.multisig EXCEPT ![m] = [u.multisig[m] EXCEPT !.service = s, !.agentIds = standsFor]]
          /\ DailySame(u, graph') /\ IdentitySame(u, graph') /\ RegistrySame(u, graph')
      <4> HIDE DEF ids, recent
      <4>1. LET w == [u EXCEPT !.service[s].creator = sender, !.service[s].multisig = m,
                               !.multisig[m].service = s, !.multisig[m].agentIds = standsFor] IN
            /\ GraphShaped(w)
            /\ w.service = [u.service EXCEPT ![s] = [u.service[s] EXCEPT !.creator = sender, !.multisig = m]]
            /\ w.multisig = [u.multisig EXCEPT ![m] = [u.multisig[m] EXCEPT !.service = s, !.agentIds = standsFor]]
            /\ DailySame(u, w) /\ IdentitySame(u, w) /\ RegistrySame(u, w)
        BY <2>5, <3>1, RowsDeployed, Zenon
      <4> QED BY <2>3, <4>1, Zenon
    <3>3. [[graph.multisig EXCEPT ![m] = um] EXCEPT ![m] = [um EXCEPT !.service = s, !.agentIds = standsFor]]
            = [graph.multisig EXCEPT ![m] = [um EXCEPT !.service = s, !.agentIds = standsFor]]
      BY <2>4
    <3> QED BY <2>5, <3>1, <3>2, <3>3 DEF DailySame, IdentitySame, RegistrySame
  <2>10. /\ c \in ColumnsRow /\ c.identity = columns[s].identity /\ c.config = columns[s].config
         /\ c.creator = sender /\ c.created = columns[s].created
    BY <2>1 DEF ColumnsRow
  <2>11. SameServices'
    <3>1. services'[s] = [services[s] EXCEPT !.multisig = m] /\ columns'[s] = c
          /\ \A r \in Services \ {s} : services'[r] = services[r] /\ columns'[r] = columns[r]
      BY <1>1, <2>2 DEF ActivityInv, RegistryKept, GraphTyped
    <3>2. [services[s] EXCEPT !.multisig = m] \in ServiceRow
          /\ [services[s] EXCEPT !.multisig = m].agentIds = services[s].agentIds
          /\ [services[s] EXCEPT !.multisig = m].multisig = m
      BY <2>1 DEF ServiceRow
    <3>3. ShownService(s)' = WholeService([services[s] EXCEPT !.multisig = m], c)
      BY <3>1, <3>2, ServiceActivityAssumption DEF ShownService
    <3>4. [graph.service[s] EXCEPT !.creator = sender, !.multisig = m]
            = WholeService([services[s] EXCEPT !.multisig = m], c)
      <4>1. [WholeService(services[s], columns[s]) EXCEPT !.creator = sender, !.multisig = m]
              = [agentIds |-> services[s].agentIds, multisig |-> m, config |-> columns[s].config,
                 creator |-> sender, created |-> columns[s].created, identity |-> columns[s].identity]
        BY ServiceDeployed
      <4> HIDE DEF c
      <4> QED BY <2>6, <2>10, <3>2, <4>1 DEF WholeService
    <3> QED BY <1>1, <2>9, <3>1, <3>3, <3>4, OneService
  <2>12. deployed \in DeployerRow /\ row \in MultisigRow
    BY <1>1, <2>1 DEF DeployerRow, MultisigRow, GraphTyped
  <2>13. [um EXCEPT !.service = s, !.agentIds = standsFor]
           = [service |-> s, agentIds |-> agentsOf(s), creator |-> deployed.creator, created |-> deployed.created]
    <3>1. deployers[m] = NoRow <=> multisigs[m] = NoRow
      BY <1>1 DEF GraphTyped
    <3>2. CASE multisigs[m] = NoRow
      <4>1. um = [service |-> NoRow, agentIds |-> <<>>, creator |-> sender, created |-> now]
        BY <2>4, <3>2 DEF um
      <4>2. deployed = [creator |-> sender, created |-> now]
        BY <3>1, <3>2
      <4>3. /\ um = [service |-> um.service, agentIds |-> um.agentIds, creator |-> um.creator, created |-> um.created]
            /\ um.creator = sender /\ um.created = now
        BY <4>1
      <4>4. [um EXCEPT !.service = s, !.agentIds = standsFor]
              = [service |-> s, agentIds |-> standsFor, creator |-> um.creator, created |-> um.created]
        BY <4>3, MultisigDeployed, Zenon
      <4> HIDE DEF deployed
      <4> QED BY <2>8, <4>2, <4>3, <4>4
    <3>3. CASE multisigs[m] # NoRow
      <4>1. um = [service |-> multisigs[m].service, agentIds |-> multisigs[m].agentIds,
                  creator |-> deployers[m].creator, created |-> deployers[m].created]
        BY <2>4, <3>3 DEF um, ShownMultisig
      <4>2. deployed = deployers[m]
        BY <3>1, <3>3
      <4>3. /\ um = [service |-> um.service, agentIds |-> um.agentIds, creator |-> um.creator, created |-> um.created]
            /\ um.creator = deployers[m].creator /\ um.created = deployers[m].created
        BY <4>1
      <4>4. [um EXCEPT !.service = s, !.agentIds = standsFor]
              = [service |-> s, agentIds |-> standsFor, creator |-> um.creator, created |-> um.created]
        BY <4>3, MultisigDeployed, Zenon
      <4> HIDE DEF deployed
      <4> QED BY <2>8, <4>2, <4>3, <4>4
    <3> QED BY <3>2, <3>3
  <2> HIDE DEF deployed, row, c
  <2>14. SameMultisigs'
    <3>1. multisigs'[m] = row /\ deployers'[m] = deployed
          /\ \A n \in Multisigs \ {m} : multisigs'[n] = multisigs[n] /\ deployers'[n] = deployers[n]
      BY <1>1, <2>2 DEF ActivityInv, RegistryKept, GraphTyped
    <3>2. ShownMultisig(m)' = [service |-> s, agentIds |-> agentsOf(s), creator |-> deployed.creator,
                               created |-> deployed.created]
      BY <2>12, <3>1, ServiceActivityAssumption DEF ShownMultisig, row
    <3>3. \A n \in Multisigs \ {m} : ShownMultisig(n)' = ShownMultisig(n)
      BY <3>1 DEF ShownMultisig
    <3>4. graph.multisig' = [n \in Multisigs |-> IF n = m THEN ShownMultisig(m)' ELSE ShownMultisig(n)]
      BY <1>1, <2>9, <2>13, <3>2 DEF SameMultisigs
    <3>5. \A n \in Multisigs : (IF n = m THEN ShownMultisig(m)' ELSE ShownMultisig(n)) = ShownMultisig(n)'
      BY <3>3
    <3> QED BY <3>4, <3>5 DEF SameMultisigs
  <2>15. SameRegistry' /\ SameDaily'
    <3>1. SameRegistry'
      BY <1>1, <2>2, <2>9 DEF SameRegistry
    <3> QED BY <1>1, <2>2, <2>9, <3>1, DailyRowsStay
  <2>16. \A r \in Services : columns'[r].identity \in {columns[r].identity, NoValue}
    BY <1>1, <2>2, <2>10 DEF GraphTyped
  <2>17. SameIdentities' /\ IdentitiesLinked' /\ SameMetadata'
    BY <1>1, <2>2, <2>9, <2>16, IdentitiesStay
  <2>18. GraphTyped'
    <3>1. columns' \in [Services -> ColumnsRow] /\ deployers' \in [Multisigs -> {NoRow} \cup DeployerRow]
      BY <1>1, <2>2, <2>10, <2>12 DEF GraphTyped
    <3>2. \A n \in Multisigs : deployers'[n] = NoRow <=> multisigs'[n] = NoRow
      <4>1. row # NoRow /\ deployed # NoRow
        BY <2>12, ServiceActivityAssumption, GraphAssumption
      <4> QED BY <1>1, <2>2, <4>1 DEF GraphTyped, ActivityInv, RegistryKept
    <3> QED BY <1>1, <2>2, <2>9, <3>1, <3>2 DEF GraphTyped, IdentitySame
  <2>19. RowsAsSubgraph'
    BY <2>11, <2>14, <2>15, <2>17
       DEF RowsAsSubgraph, SameRows, SameServices, SameMultisigs, SameRegistry, SameDaily, SameMetadata
  <2> QED BY <2>17, <2>18, <2>19 DEF GraphInv
<1> QED BY <1>3, <1>4

-----------------------------------------------------------------------------
(* Identities, in both.                                                    *)

\* getOrCreateERC8004Agent, of the squid and of the subgraph.
LEMMA IdentityCreated ==
  ASSUME GraphInv, NEW i \in Identities, identities' = [identities EXCEPT ![i] = IdentityOrNew(i)]
  PROVE  \A j \in Identities : identities'[j] = IF j # i THEN identities[j]
                                               ELSE IF identities[i] = NoRow THEN NoValue ELSE identities[i]
BY DEF GraphInv, GraphTyped, IdentityOrNew

Known(wallets, i) == IF wallets[i] # NoRow THEN wallets ELSE [wallets EXCEPT ![i] = NoValue]

\* The rows of identities, once one of them is known.
LEMMA KnownRows ==
  ASSUME GraphInv, NEW i \in Identities
  PROVE  /\ Known(graph.identity, i) \in [Identities -> {NoRow, NoValue} \cup Multisigs]
         /\ \A j \in Identities : Known(graph.identity, i)[j] =
              IF j = i /\ graph.identity[i] = NoRow THEN NoValue ELSE graph.identity[j]
<1>1. graph.identity \in [Identities -> {NoRow, NoValue} \cup Multisigs]
  BY DEF GraphInv, GraphTyped
<1>2. CASE graph.identity[i] # NoRow
  BY <1>1, <1>2 DEF Known
<1>3. CASE graph.identity[i] = NoRow
  BY <1>1, <1>3 DEF Known
<1> QED BY <1>2, <1>3

\* An identity of which something other than its metadata is written has a row with both.
LEMMA IdentityRows ==
  ASSUME ActivityInv, GraphInv, NEW i \in Identities,
         graph.identity' \in [Identities -> {NoRow, NoValue} \cup Multisigs],
         identities'[i] = graph.identity'[i] /\ identities'[i] # NoRow,
         \A j \in Identities \ {i} : identities'[j] = identities[j] /\ graph.identity'[j] = graph.identity[j],
         \A j \in Identities \ {i}, key \in Keys : metadata'[<<j, key>>] = metadata[<<j, key>>],
         \A s \in Services : columns'[s].identity \in {columns[s].identity, i}
  PROVE  SameIdentities' /\ IdentitiesLinked'
<1>1. SameIdentities /\ IdentitiesLinked
  BY RowsByTable DEF GraphInv
<1>2. NoValue \notin Identities
  BY GraphAssumption
<1>3. \A s \in Services : columns[s].identity \in Identities \cup {NoValue}
  BY DEF GraphInv, GraphTyped, ColumnsRow
<1>4. IdentitiesLinked'
  <2> SUFFICES ASSUME NEW s \in Services, columns'[s].identity # NoValue
               PROVE  graph.identity'[columns'[s].identity] # NoRow
    BY DEF IdentitiesLinked
  <2>1. CASE columns'[s].identity = i
    BY <2>1
  <2>2. CASE columns'[s].identity # i
    <3>1. columns'[s].identity = columns[s].identity /\ columns[s].identity \in Identities \ {i}
      BY <1>3, <2>2
    <3>2. graph.identity[columns[s].identity] # NoRow
      BY <1>1, <3>1 DEF IdentitiesLinked
    <3> QED BY <3>1, <3>2
  <2> QED BY <2>1, <2>2
<1>5. SameIdentities'
  <2> SUFFICES ASSUME NEW j \in Identities
               PROVE  \/ identities'[j] = graph.identity'[j]
                      \/ /\ graph.identity'[j] = NoRow /\ identities'[j] = NoValue
                         /\ \E key \in Keys : metadata'[<<j, key>>] \in Texts
                         /\ \A s \in Services : columns'[s].identity # j
    BY DEF SameIdentities
  <2>1. CASE j = i
    BY <2>1
  <2>2. CASE j # i
    <3>1. /\ identities'[j] = identities[j] /\ graph.identity'[j] = graph.identity[j]
          /\ \A key \in Keys : metadata'[<<j, key>>] = metadata[<<j, key>>]
      BY <2>2
    <3>2. ASSUME NEW s \in Services, columns[s].identity # j PROVE columns'[s].identity # j
      BY <2>2, <3>2
    <3>3. \/ identities[j] = graph.identity[j]
          \/ /\ graph.identity[j] = NoRow /\ identities[j] = NoValue
             /\ \E key \in Keys : metadata[<<j, key>>] \in Texts
             /\ \A s \in Services : columns[s].identity # j
      BY <1>1 DEF SameIdentities
    <3> QED BY <3>1, <3>2, <3>3
  <2> QED BY <2>1, <2>2
<1> QED BY <1>4, <1>5

\* The subgraph's tables after a link.
Linked(t, s, i) ==
  InitializeERC8004DefaultMetadata([GetOrCreateERC8004Agent(t, i) EXCEPT !.service[s].identity = i], i, s)

\* What handleServiceAgentLinked does to the subgraph's tables.
LEMMA LinkDoes ==
  ASSUME NEW t, GraphShaped(t), NEW s \in Services, NEW i \in Identities,
         t.service = [r \in Services |-> t.service[r]]
  PROVE  /\ GraphShaped(Linked(t, s, i)) /\ DailySame(t, Linked(t, s, i)) /\ RegistrySame(t, Linked(t, s, i))
         /\ Linked(t, s, i).multisig = t.multisig
         /\ Linked(t, s, i).service = [t.service EXCEPT ![s] = [t.service[s] EXCEPT !.identity = i]]
         /\ Linked(t, s, i).identity = Known(t.identity, i)
         /\ Linked(t, s, i).metadata = [t.metadata EXCEPT ![<<i, Ecosystem>>] = Olas, ![<<i, ServiceRegistry>>] = s]
<1> DEFINE u0 == GetOrCreateERC8004Agent(t, i)
           u1 == [u0 EXCEPT !.service[s].identity = i]
           u2 == SetERC8004Metadata(u1, i, Ecosystem, Olas)
           u3 == SetERC8004Metadata(u2, i, ServiceRegistry, s)
           Framed(u) == GraphShaped(u) /\ DailySame(t, u) /\ RegistrySame(t, u) /\ u.multisig = t.multisig
           row == [t.service[s] EXCEPT !.identity = i]
           wallets == IF t.identity[i] # NoRow THEN t.identity ELSE [t.identity EXCEPT ![i] = NoValue]
           meta == [t.metadata EXCEPT ![<<i, Ecosystem>>] = Olas]
<1> USE DEF GraphShaped, DailySame, RegistrySame
<1>1. Framed(u0) /\ u0.service = t.service /\ u0.identity = wallets /\ u0.metadata = t.metadata
  BY DEF GetOrCreateERC8004Agent
<1> HIDE DEF u0, wallets
<1>2. Framed(u1) /\ u1.service = [t.service EXCEPT ![s] = row] /\ u1.identity = wallets /\ u1.metadata = t.metadata
  BY <1>1
<1> HIDE DEF u1, row
<1>3. Framed(u2) /\ u2.service = [t.service EXCEPT ![s] = row] /\ u2.identity = wallets /\ u2.metadata = meta
  BY <1>2 DEF SetERC8004Metadata
<1> HIDE DEF u2, meta
<1>4. /\ Framed(u3) /\ u3.service = [t.service EXCEPT ![s] = row] /\ u3.identity = wallets
      /\ u3.metadata = [meta EXCEPT ![<<i, ServiceRegistry>>] = s]
  BY <1>3 DEF SetERC8004Metadata
<1> HIDE DEF u3
<1>5. u3 = Linked(t, s, i)
  BY Zenon DEF u0, u1, u2, u3, InitializeERC8004DefaultMetadata, Linked
<1>6. [meta EXCEPT ![<<i, ServiceRegistry>>] = s]
        = [t.metadata EXCEPT ![<<i, Ecosystem>>] = Olas, ![<<i, ServiceRegistry>>] = s]
  BY Zenon DEF meta
<1> HIDE DEF GraphShaped, DailySame, RegistrySame
<1> QED BY <1>4, <1>5, <1>6, Zenon DEF wallets, row, Known

\* The row of a service that is given an identity.
LEMMA ServiceLinked ==
  ASSUME NEW row, NEW others, NEW i
  PROVE  [WholeService(row, others) EXCEPT !.identity = i]
           = [agentIds |-> row.agentIds, multisig |-> row.multisig, config |-> others.config,
              creator |-> others.creator, created |-> others.created, identity |-> i]
BY DEF WholeService

\* A ServiceAgentLinked log keeps GraphInv.
LEMMA LinkedAgrees ==
  ASSUME ActivityInv, GraphInv, NEW s \in Services, NEW i \in Identities, ServiceAgentLinked(s, i)
  PROVE  GraphInv'
<1>1. GraphTyped /\ SameServices /\ SameMultisigs /\ SameRegistry /\ SameDaily /\ SameMetadata
  BY RowsByTable DEF GraphInv
<1>2. /\ graph.service[s] = ShownService(s)
      /\ graph.service[s] = NoRow <=> services[s] = NoRow
      /\ graph.service = [r \in Services |-> graph.service[r]]
  BY ServiceShown
<1>3. UNCHANGED <<registry, daily, deployers, creators>>
  BY DEF ServiceAgentLinked
<1>4. CASE services[s] = NoRow
  <2>1. UNCHANGED <<columns, identities, metadata, graph>>
    BY <1>2, <1>4 DEF ServiceAgentLinked, HandleServiceAgentLinked
  <2> QED BY <1>3, <2>1, GraphStays DEF squidVars
<1>5. CASE services[s] # NoRow
  <2> DEFINE c == [columns[s] EXCEPT !.identity = i]
  <2>1. /\ identities' = [identities EXCEPT ![i] = IdentityOrNew(i)]
        /\ columns' = [columns EXCEPT ![s] = c]
        /\ metadata' = [metadata EXCEPT ![<<i, Ecosystem>>] = Olas, ![<<i, ServiceRegistry>>] = s]
    BY <1>1, <1>5 DEF ServiceAgentLinked, Defaults, GraphTyped
  <2>2. graph' = Linked(graph, s, i)
    BY <1>2, <1>5 DEF ServiceAgentLinked, HandleServiceAgentLinked, Linked
  <2>3. /\ GraphShaped(graph') /\ DailySame(graph, graph') /\ RegistrySame(graph, graph')
        /\ graph.multisig' = graph.multisig
        /\ graph.service' = [graph.service EXCEPT ![s] = [graph.service[s] EXCEPT !.identity = i]]
        /\ graph.identity' = Known(graph.identity, i)
        /\ graph.metadata' = [graph.metadata EXCEPT ![<<i, Ecosystem>>] = Olas, ![<<i, ServiceRegistry>>] = s]
    <3>1. GraphShaped(graph)
      BY <1>1 DEF GraphTyped
    <3> QED BY <1>2, <2>2, <3>1, LinkDoes
  <2>4. /\ columns[s] \in ColumnsRow /\ c \in ColumnsRow /\ c.identity = i /\ c.config = columns[s].config
        /\ c.creator = columns[s].creator /\ c.created = columns[s].created
    <3>1. columns[s] \in ColumnsRow
      BY <1>1 DEF GraphTyped
    <3> QED BY <3>1 DEF ColumnsRow
  <2>5. graph.metadata' = metadata' /\ SameMetadata'
    BY <1>1, <2>1, <2>3 DEF SameMetadata
  <2>6. SameServices'
    <3>1. columns'[s] = c /\ services' = services
          /\ \A r \in Services \ {s} : services'[r] = services[r] /\ columns'[r] = columns[r]
      BY <1>1, <1>3, <2>1 DEF registry, GraphTyped
    <3>2. ShownService(s)' = WholeService(services[s], c)
      BY <1>5, <3>1 DEF ShownService
    <3>3. [graph.service[s] EXCEPT !.identity = i] = WholeService(services[s], c)
      <4>1. graph.service[s] = WholeService(services[s], columns[s])
        BY <1>2, <1>5 DEF ShownService
      <4> HIDE DEF c
      <4> QED BY <2>4, <4>1, ServiceLinked DEF WholeService
    <3> QED BY <1>1, <2>3, <3>1, <3>2, <3>3, OneService
  <2>7. SameMultisigs' /\ SameRegistry' /\ SameDaily'
    BY <1>1, <1>3, <2>3, MultisigsStay, RegistryStays, DailyRowsStay DEF registry
  <2>8. \A r \in Services : columns'[r] \in ColumnsRow /\ columns'[r].identity \in {columns[r].identity, i}
    BY <1>1, <2>1, <2>4 DEF GraphTyped
  <2>9. /\ \A j \in Identities : /\ identities'[j] = IF j # i THEN identities[j]
                                                  ELSE IF identities[i] = NoRow THEN NoValue ELSE identities[i]
                                 /\ graph.identity'[j] = IF j = i /\ graph.identity[i] = NoRow THEN NoValue
                                                         ELSE graph.identity[j]
        /\ graph.identity' \in [Identities -> {NoRow, NoValue} \cup Multisigs]
    <3>1. identities' = [identities EXCEPT ![i] = IdentityOrNew(i)]
      BY <2>1
    <3>2. graph.identity' = Known(graph.identity, i)
      BY <2>3
    <3>3. \A j \in Identities : identities'[j] = IF j # i THEN identities[j]
                                                ELSE IF identities[i] = NoRow THEN NoValue ELSE identities[i]
      BY <3>1, IdentityCreated
    <3>4. /\ Known(graph.identity, i) \in [Identities -> {NoRow, NoValue} \cup Multisigs]
          /\ \A j \in Identities : Known(graph.identity, i)[j] =
               IF j = i /\ graph.identity[i] = NoRow THEN NoValue ELSE graph.identity[j]
      BY KnownRows
    <3> QED BY <3>2, <3>3, <3>4
  <2>10. identities'[i] = graph.identity'[i] /\ identities'[i] # NoRow
    <3>1. SameIdentities /\ NoValue # NoRow
      BY RowsByTable, GraphAssumption DEF GraphInv
    <3> QED BY <2>9, <3>1 DEF SameIdentities
  <2>11. \A j \in Identities \ {i}, key \in Keys : metadata'[<<j, key>>] = metadata[<<j, key>>]
    BY <1>1, <2>1, GraphAssumption DEF GraphTyped
  <2>12. SameIdentities' /\ IdentitiesLinked'
    <3>1. \A j \in Identities \ {i} : identities'[j] = identities[j] /\ graph.identity'[j] = graph.identity[j]
      BY <2>9
    <3>2. \A r \in Services : columns'[r].identity \in {columns[r].identity, i}
      BY <2>8
    <3> QED BY <2>9, <2>10, <2>11, <3>1, <3>2, IdentityRows
  <2>13. GraphTyped'
    <3>1. columns' \in [Services -> ColumnsRow]
      BY <1>1, <2>1, <2>4 DEF GraphTyped
    <3>2. identities' \in [Identities -> {NoRow, NoValue} \cup Multisigs]
      BY <1>1, <2>1 DEF GraphTyped, IdentityOrNew
    <3>3. DOMAIN metadata' = Identities \X Keys /\ metadata' = [p \in Identities \X Keys |-> metadata'[p]]
      BY <1>1, <2>1 DEF GraphTyped
    <3>4. \A n \in Multisigs : deployers'[n] = NoRow <=> multisigs'[n] = NoRow
      BY <1>1, <1>3 DEF GraphTyped, registry
    <3>5. graph.registration' = [p \in Services \X Agents |-> graph.registration'[p]]
      BY <1>1, <2>3 DEF GraphTyped, RegistrySame
    <3> QED BY <1>1, <1>3, <2>3, <2>9, <3>1, <3>2, <3>3, <3>4, <3>5 DEF GraphTyped
  <2>14. RowsAsSubgraph'
    BY <2>5, <2>6, <2>7, <2>12
       DEF RowsAsSubgraph, SameRows, SameServices, SameMultisigs, SameRegistry, SameDaily, SameMetadata
  <2> QED BY <2>12, <2>13, <2>14 DEF GraphInv
<1> QED BY <1>4, <1>5

\* An AgentWalletSet log keeps GraphInv.
LEMMA WalletAgrees ==
  ASSUME ActivityInv, GraphInv, NEW i \in Identities, NEW m \in Multisigs, AgentWalletSet(i, m)
  PROVE  GraphInv'
<1>1. GraphTyped /\ SameServices /\ SameMultisigs /\ SameRegistry /\ SameDaily /\ SameMetadata
  BY RowsByTable DEF GraphInv
<1>2. /\ identities' = [identities EXCEPT ![i] = m]
      /\ graph' = [GetOrCreateERC8004Agent(graph, i) EXCEPT !.identity[i] = m]
      /\ UNCHANGED <<registry, daily, columns, deployers, creators, metadata>>
  BY DEF AgentWalletSet, HandleAgentWalletSet
<1>3. /\ GraphShaped(graph') /\ graph.service' = graph.service /\ graph.multisig' = graph.multisig
      /\ DailySame(graph, graph') /\ RegistrySame(graph, graph') /\ graph.metadata' = graph.metadata
      /\ graph.identity' = [graph.identity EXCEPT ![i] = m]
  <2> DEFINE u == GetOrCreateERC8004Agent(graph, i)
  <2>1. /\ GraphShaped(u) /\ u.service = graph.service /\ u.multisig = graph.multisig
        /\ DailySame(graph, u) /\ RegistrySame(graph, u) /\ u.metadata = graph.metadata
        /\ u.identity = IF graph.identity[i] # NoRow THEN graph.identity
                        ELSE [graph.identity EXCEPT ![i] = NoValue]
    BY <1>1 DEF GetOrCreateERC8004Agent, GraphTyped, GraphShaped, DailySame, RegistrySame
  <2>2. graph' = [u EXCEPT !.identity = [u.identity EXCEPT ![i] = m]]
    BY <1>2, <2>1 DEF GraphShaped
  <2>3. [u.identity EXCEPT ![i] = m] = [graph.identity EXCEPT ![i] = m]
    BY <1>1, <2>1 DEF GraphTyped
  <2> HIDE DEF u
  <2> QED BY <2>1, <2>2, <2>3 DEF GraphShaped, DailySame, RegistrySame
<1>4. SameServices' /\ SameMultisigs' /\ SameRegistry' /\ SameDaily' /\ SameMetadata'
  BY <1>1, <1>2, <1>3, ServicesStay, MultisigsStay, RegistryStays, DailyRowsStay DEF registry, SameMetadata
<1>5. identities' \in [Identities -> {NoRow, NoValue} \cup Multisigs]
      /\ graph.identity' \in [Identities -> {NoRow, NoValue} \cup Multisigs]
  BY <1>1, <1>2, <1>3 DEF GraphTyped
<1>6. /\ identities'[i] = graph.identity'[i] /\ identities'[i] # NoRow
      /\ \A j \in Identities \ {i} : identities'[j] = identities[j] /\ graph.identity'[j] = graph.identity[j]
  BY <1>1, <1>2, <1>3, GraphAssumption DEF GraphTyped
<1>7. SameIdentities' /\ IdentitiesLinked'
  BY <1>2, <1>5, <1>6, IdentityRows
<1>8. GraphTyped'
  BY <1>1, <1>2, <1>3, <1>5 DEF GraphTyped, RegistrySame, registry
<1>9. RowsAsSubgraph'
  BY <1>4, <1>7 DEF RowsAsSubgraph, SameRows, SameServices, SameMultisigs, SameRegistry, SameDaily, SameMetadata
<1> QED BY <1>7, <1>8, <1>9 DEF GraphInv

\* A MetadataSet log keeps GraphInv: only the squid gets the row of the identity.
LEMMA MetadataAgrees ==
  ASSUME ActivityInv, GraphInv, NEW i \in Identities, NEW key \in Keys, NEW text \in Texts,
         MetadataSet(i, key, text)
  PROVE  GraphInv'
<1>1. GraphTyped /\ SameServices /\ SameMultisigs /\ SameRegistry /\ SameDaily /\ SameMetadata /\ SameIdentities
      /\ IdentitiesLinked
  BY RowsByTable DEF GraphInv
<1>2. /\ identities' = [identities EXCEPT ![i] = IdentityOrNew(i)]
      /\ metadata' = [metadata EXCEPT ![<<i, key>>] = text]
      /\ graph' = [graph EXCEPT !.metadata[<<i, key>>] = text]
      /\ UNCHANGED <<registry, daily, columns, deployers, creators>>
  BY DEF MetadataSet, HandleMetadataSet, SetERC8004Metadata
<1>3. /\ GraphShaped(graph') /\ graph.service' = graph.service /\ graph.multisig' = graph.multisig
      /\ DailySame(graph, graph') /\ RegistrySame(graph, graph') /\ graph.identity' = graph.identity
      /\ graph.metadata' = [graph.metadata EXCEPT ![<<i, key>>] = text]
  BY <1>1, <1>2 DEF GraphTyped, GraphShaped, DailySame, RegistrySame
<1>4. SameServices' /\ SameMultisigs' /\ SameRegistry' /\ SameDaily' /\ SameMetadata'
  BY <1>1, <1>2, <1>3, ServicesStay, MultisigsStay, RegistryStays, DailyRowsStay DEF registry, SameMetadata
<1>5. \A j \in Identities : identities'[j] = IF j # i THEN identities[j]
                                             ELSE IF identities[i] = NoRow THEN NoValue ELSE identities[i]
  BY <1>2, IdentityCreated
<1>6. /\ metadata'[<<i, key>>] = text
      /\ \A j \in Identities \ {i}, k \in Keys : metadata'[<<j, k>>] = metadata[<<j, k>>]
  BY <1>1, <1>2 DEF GraphTyped
<1>7. IdentitiesLinked'
  BY <1>1, <1>2, <1>3 DEF IdentitiesLinked
<1>8. SameIdentities'
  <2> SUFFICES ASSUME NEW j \in Identities
               PROVE  \/ identities'[j] = graph.identity'[j]
                      \/ /\ graph.identity'[j] = NoRow /\ identities'[j] = NoValue
                         /\ \E k \in Keys : metadata'[<<j, k>>] \in Texts
                         /\ \A s \in Services : columns'[s].identity # j
    BY DEF SameIdentities
  <2>1. CASE j # i
    BY <1>1, <1>2, <1>3, <1>5, <1>6, <2>1 DEF SameIdentities
  <2>2. CASE j = i /\ graph.identity[i] # NoRow
    <3>1. identities[i] = graph.identity[i]
      BY <1>1, <2>2 DEF SameIdentities
    <3> QED BY <1>3, <1>5, <2>2, <3>1
  <2>3. CASE j = i /\ graph.identity[i] = NoRow
    <3>1. identities'[i] = NoValue
      BY <1>1, <1>5, <2>3 DEF SameIdentities
    <3>2. \A s \in Services : columns[s].identity # i
      <4>1. i # NoValue
        BY GraphAssumption
      <4> QED BY <1>1, <2>3, <4>1 DEF IdentitiesLinked
    <3> QED BY <1>2, <1>3, <1>6, <2>3, <3>1, <3>2
  <2> QED BY <2>1, <2>2, <2>3
<1>9. GraphTyped'
  <2>1. identities' \in [Identities -> {NoRow, NoValue} \cup Multisigs]
    BY <1>1, <1>2 DEF GraphTyped, IdentityOrNew
  <2>2. DOMAIN metadata' = Identities \X Keys /\ metadata' = [p \in Identities \X Keys |-> metadata'[p]]
    BY <1>1, <1>2 DEF GraphTyped
  <2> QED BY <1>1, <1>2, <1>3, <2>1, <2>2 DEF GraphTyped, RegistrySame, registry
<1>10. RowsAsSubgraph'
  BY <1>4, <1>8 DEF RowsAsSubgraph, SameRows, SameServices, SameMultisigs, SameRegistry, SameDaily, SameMetadata
<1> QED BY <1>7, <1>9, <1>10 DEF GraphInv

-----------------------------------------------------------------------------
(* Executions, in both.                                                    *)

\* The tables no execution writes.
RestSame(t, u) ==
  /\ GraphShaped(u) /\ u.service = t.service /\ u.multisig = t.multisig
  /\ RegistrySame(t, u) /\ IdentitySame(t, u)

\* createDailyUniqueAgent writes two tables,
LEMMA UniqueAgentDoes ==
  ASSUME NEW t, GraphShaped(t), NEW d, NEW a
  PROVE  LET u == CreateDailyUniqueAgent(t, d, a) IN
         /\ RestSame(t, u) /\ u.uniqueAgent = t.uniqueAgent \cup {<<d, a>>}
         /\ u.uniqueCount = IF <<d, a>> \in t.uniqueAgent THEN t.uniqueCount
                            ELSE [t.uniqueCount EXCEPT ![d] = @ + 1]
         /\ u.activity = t.activity /\ u.performance = t.performance /\ u.agentMultisig = t.agentMultisig
         /\ u.agentTxs = t.agentTxs /\ u.activeMultisig = t.activeMultisig /\ u.activeCount = t.activeCount
         /\ u.global = t.global
<1>1. CASE <<d, a>> \in t.uniqueAgent
  BY <1>1 DEF CreateDailyUniqueAgent, RestSame, RegistrySame, IdentitySame
<1>2. CASE <<d, a>> \notin t.uniqueAgent
  BY <1>2 DEF CreateDailyUniqueAgent, GraphShaped, RestSame, RegistrySame, IdentitySame
<1> QED BY <1>1, <1>2

\* so does createDailyActiveMultisig,
LEMMA ActiveMultisigDoes ==
  ASSUME NEW t, GraphShaped(t), NEW d, NEW m
  PROVE  LET u == CreateDailyActiveMultisig(t, d, m) IN
         /\ RestSame(t, u) /\ u.activeMultisig = t.activeMultisig \cup {<<d, m>>}
         /\ u.activeCount = IF <<d, m>> \in t.activeMultisig THEN t.activeCount
                            ELSE [t.activeCount EXCEPT ![d] = @ + 1]
         /\ u.activity = t.activity /\ u.performance = t.performance /\ u.agentMultisig = t.agentMultisig
         /\ u.agentTxs = t.agentTxs /\ u.uniqueAgent = t.uniqueAgent /\ u.uniqueCount = t.uniqueCount
         /\ u.global = t.global
<1>1. CASE <<d, m>> \in t.activeMultisig
  BY <1>1 DEF CreateDailyActiveMultisig, RestSame, RegistrySame, IdentitySame
<1>2. CASE <<d, m>> \notin t.activeMultisig
  BY <1>2 DEF CreateDailyActiveMultisig, GraphShaped, RestSame, RegistrySame, IdentitySame
<1> QED BY <1>1, <1>2

Performed(t, d, m, a) ==
  LET counted == [t.performance EXCEPT ![<<d, a>>].txCount = @ + 1] IN
  IF <<d, a, m>> \in t.agentMultisig THEN counted
  ELSE [counted EXCEPT ![<<d, a>>].activeMultisigCount = @ + 1]

\* What the loop does for an agent, as AgentPerformedDoes says it.
PerformedFields(t, u, d, m, a) ==
  /\ RestSame(t, u) /\ u.performance = Performed(t, d, m, a)
  /\ u.agentMultisig = t.agentMultisig \cup {<<d, a, m>>}
  /\ u.agentTxs = [t.agentTxs EXCEPT ![a] = @ + 1]
  /\ u.activity = t.activity /\ u.uniqueAgent = t.uniqueAgent /\ u.uniqueCount = t.uniqueCount
  /\ u.activeMultisig = t.activeMultisig /\ u.activeCount = t.activeCount /\ u.global = t.global

PerformedTable(t, d, m, b) ==
  [p \in Days \X Agents |->
     IF p[1] # d \/ p[2] \notin {b} THEN t.performance[p]
     ELSE [txCount |-> t.performance[p].txCount + 1,
           activeMultisigCount |-> t.performance[p].activeMultisigCount
                                   + (IF <<d, b, m>> \in t.agentMultisig THEN 0 ELSE 1)]]

\* and the performance of one agent takes three.
LEMMA AgentPerformedDoes ==
  ASSUME NEW t, GraphShaped(t), NEW d, NEW m, NEW a, NEW u, u = AgentPerformed(t, d, m, a)
  PROVE  PerformedFields(t, u, d, m, a)
<1> DEFINE perf1 == [t.performance EXCEPT ![<<d, a>>].txCount = @ + 1]
           perf2 == IF <<d, a, m>> \in t.agentMultisig THEN perf1
                    ELSE [perf1 EXCEPT ![<<d, a>>].activeMultisigCount = @ + 1]
           counted == [t EXCEPT !.performance = perf1]
           linked == CreateDailyAgentMultisig(counted, d, a, m)
           done == [linked EXCEPT !.agentTxs = [linked.agentTxs EXCEPT ![a] = @ + 1]]
           Others(w) == /\ RestSame(t, w) /\ w.activity = t.activity /\ w.uniqueAgent = t.uniqueAgent
                        /\ w.uniqueCount = t.uniqueCount /\ w.activeMultisig = t.activeMultisig
                        /\ w.activeCount = t.activeCount /\ w.global = t.global
<1> USE DEF GraphShaped, RestSame, RegistrySame, IdentitySame
<1>1. Others(counted) /\ counted.performance = perf1 /\ counted.agentMultisig = t.agentMultisig
      /\ counted.agentTxs = t.agentTxs
  <2> HIDE DEF perf1
  <2> QED OBVIOUS
<1>2. /\ Others(linked) /\ linked.performance = perf2 /\ linked.agentTxs = t.agentTxs
      /\ linked.agentMultisig = t.agentMultisig \cup {<<d, a, m>>}
  <2> HIDE DEF perf1, counted
  <2>1. CASE <<d, a, m>> \in t.agentMultisig
    BY <1>1, <2>1 DEF CreateDailyAgentMultisig
  <2>2. CASE <<d, a, m>> \notin t.agentMultisig
    <3> DEFINE P == [counted.performance EXCEPT ![<<d, a>>].activeMultisigCount = @ + 1]
               L == counted.agentMultisig \cup {<<d, a, m>>}
    <3>1. linked = [counted EXCEPT !.agentMultisig = L, !.performance = P]
      BY <1>1, <2>2 DEF CreateDailyAgentMultisig
    <3>2. P = perf2 /\ L = t.agentMultisig \cup {<<d, a, m>>}
      BY <1>1, <2>2
    <3> HIDE DEF P, L, linked, perf2
    <3> QED BY <1>1, <3>1, <3>2
  <2> QED BY <2>1, <2>2
<1> HIDE DEF linked, perf2
<1>3. /\ Others(done) /\ done.performance = perf2 /\ done.agentTxs = [t.agentTxs EXCEPT ![a] = @ + 1]
      /\ done.agentMultisig = t.agentMultisig \cup {<<d, a, m>>}
  BY <1>2
<1>4. u = done
  BY DEF AgentPerformed, linked
<1>5. perf2 = Performed(t, d, m, a)
  BY DEF perf2, Performed
<1> HIDE DEF done, GraphShaped, RestSame, RegistrySame, IdentitySame
<1> QED BY <1>3, <1>4, <1>5 DEF PerformedFields

\* The two loops over the agents of a multisig that stands for one or for none.
UniqueTables(f, t, d, ids) ==
  f = [k \in 0 .. Len(ids) |-> IF k = 0 THEN t ELSE CreateDailyUniqueAgent(f[k - 1], d, ids[k])]
PerformanceTables(f, t, d, m, ids) ==
  f = [k \in 0 .. Len(ids) |-> IF k = 0 THEN t ELSE AgentPerformed(f[k - 1], d, m, ids[k])]

UniqueLoopDoes(t, d, ids) ==
  /\ Len(ids) = 0 => UpdateDailyUniqueAgents(t, d, ids) = t
  /\ Len(ids) = 1 => UpdateDailyUniqueAgents(t, d, ids) = CreateDailyUniqueAgent(t, d, ids[1])

\* A loop over a list of one agent or none does what it does for that agent, or nothing.
LEMMA UniqueLoop ==
  ASSUME NEW t, NEW d, NEW ids, Len(ids) \in Nat, Len(ids) <= 1
  PROVE  UniqueLoopDoes(t, d, ids)
<1> DEFINE g == [k \in 0 .. Len(ids) |-> IF k = 0 THEN t ELSE CreateDailyUniqueAgent(t, d, ids[k])]
           after == CHOOSE f : UniqueTables(f, t, d, ids)
<1>1. UniqueTables(g, t, d, ids)
  <2>1. \A k \in 0 .. Len(ids) : k # 0 => k = 1 /\ g[k - 1] = t
    OBVIOUS
  <2>2. \A k \in 0 .. Len(ids) : g[k] = IF k = 0 THEN t ELSE CreateDailyUniqueAgent(g[k - 1], d, ids[k])
    BY <2>1
  <2>3. g = [k \in 0 .. Len(ids) |-> g[k]]
    OBVIOUS
  <2> HIDE DEF g
  <2>4. g = [k \in 0 .. Len(ids) |-> IF k = 0 THEN t ELSE CreateDailyUniqueAgent(g[k - 1], d, ids[k])]
    BY <2>2, <2>3
  <2> QED BY <2>4, Zenon DEF UniqueTables
<1>2. UniqueTables(after, t, d, ids)
  BY <1>1, Zenon
<1>3. UpdateDailyUniqueAgents(t, d, ids) = after[Len(ids)]
  BY Zenon DEF UpdateDailyUniqueAgents, UniqueTables
<1> HIDE DEF after
<1>4. after[0] = t
  BY <1>2 DEF UniqueTables
<1>5. ASSUME Len(ids) = 0 PROVE after[Len(ids)] = t
  BY <1>4, <1>5
<1>6. ASSUME Len(ids) = 1 PROVE after[Len(ids)] = CreateDailyUniqueAgent(t, d, ids[1])
  <2>1. after[1] = CreateDailyUniqueAgent(after[0], d, ids[1])
    BY <1>2, <1>6 DEF UniqueTables
  <2> QED BY <1>4, <1>6, <2>1
<1> QED BY <1>3, <1>5, <1>6, Zenon DEF UniqueLoopDoes

PerformanceLoopDoes(t, d, m, ids) ==
  /\ Len(ids) = 0 => UpdateDailyAgentPerformance(t, d, m, ids) = t
  /\ Len(ids) = 1 => UpdateDailyAgentPerformance(t, d, m, ids) = AgentPerformed(t, d, m, ids[1])

\* So does the other loop.
LEMMA PerformanceLoop ==
  ASSUME NEW t, NEW d, NEW m, NEW ids, Len(ids) \in Nat, Len(ids) <= 1
  PROVE  PerformanceLoopDoes(t, d, m, ids)
<1> DEFINE g == [k \in 0 .. Len(ids) |-> IF k = 0 THEN t ELSE AgentPerformed(t, d, m, ids[k])]
           after == CHOOSE f : PerformanceTables(f, t, d, m, ids)
<1>1. PerformanceTables(g, t, d, m, ids)
  <2>1. \A k \in 0 .. Len(ids) : k # 0 => k = 1 /\ g[k - 1] = t
    OBVIOUS
  <2>2. \A k \in 0 .. Len(ids) : g[k] = IF k = 0 THEN t ELSE AgentPerformed(g[k - 1], d, m, ids[k])
    BY <2>1
  <2>3. g = [k \in 0 .. Len(ids) |-> g[k]]
    OBVIOUS
  <2> HIDE DEF g
  <2>4. g = [k \in 0 .. Len(ids) |-> IF k = 0 THEN t ELSE AgentPerformed(g[k - 1], d, m, ids[k])]
    BY <2>2, <2>3
  <2> QED BY <2>4, Zenon DEF PerformanceTables
<1>2. PerformanceTables(after, t, d, m, ids)
  BY <1>1, Zenon
<1>3. UpdateDailyAgentPerformance(t, d, m, ids) = after[Len(ids)]
  BY Zenon DEF UpdateDailyAgentPerformance, PerformanceTables
<1> HIDE DEF after
<1>4. after[0] = t
  BY <1>2 DEF PerformanceTables
<1>5. ASSUME Len(ids) = 0 PROVE after[Len(ids)] = t
  BY <1>4, <1>5
<1>6. ASSUME Len(ids) = 1 PROVE after[Len(ids)] = AgentPerformed(t, d, m, ids[1])
  <2>1. after[1] = AgentPerformed(after[0], d, m, ids[1])
    BY <1>2, <1>6 DEF PerformanceTables
  <2> QED BY <1>4, <1>6, <2>1
<1> QED BY <1>3, <1>5, <1>6, Zenon DEF PerformanceLoopDoes

\* The cell of an agent of the day, counted step by step and at once.
LEMMA PerformedCell ==
  ASSUME NEW t, NEW d \in Days, NEW m, NEW b \in Agents,
         t.performance \in [Days \X Agents -> [txCount : Nat, activeMultisigCount : Nat]]
  PROVE  Performed(t, d, m, b) = PerformedTable(t, d, m, b)
<1> DEFINE perf == t.performance
           cell == perf[<<d, b>>]
           c1 == [cell EXCEPT !.txCount = @ + 1]
           c2 == IF <<d, b, m>> \in t.agentMultisig THEN c1 ELSE [c1 EXCEPT !.activeMultisigCount = @ + 1]
           Goal(p) == IF p[1] # d \/ p[2] \notin {b} THEN perf[p]
                      ELSE [txCount |-> perf[p].txCount + 1,
                            activeMultisigCount |-> perf[p].activeMultisigCount + (IF <<d, b, m>> \in t.agentMultisig THEN 0 ELSE 1)]
<1>1. cell \in [txCount : Nat, activeMultisigCount : Nat] /\ <<d, b>> \in Days \X Agents
  OBVIOUS
<1>2. c2 = [txCount |-> cell.txCount + 1, activeMultisigCount |-> cell.activeMultisigCount + (IF <<d, b, m>> \in t.agentMultisig THEN 0 ELSE 1)]
  <2>1. c1 = [txCount |-> cell.txCount + 1, activeMultisigCount |-> cell.activeMultisigCount]
    BY <1>1
  <2> HIDE DEF c1, cell
  <2> QED BY <1>1, <2>1
<1>3. Performed(t, d, m, b) = [perf EXCEPT ![<<d, b>>] = c2]
  BY <1>1 DEF Performed
<1> HIDE DEF c2
<1>4. \A p \in Days \X Agents : [perf EXCEPT ![<<d, b>>] = c2][p] = Goal(p)
  <2> SUFFICES ASSUME NEW p \in Days \X Agents PROVE [perf EXCEPT ![<<d, b>>] = c2][p] = Goal(p)
    OBVIOUS
  <2>1. CASE p = <<d, b>>
    BY <1>2, <2>1
  <2>2. CASE p # <<d, b>>
    <3>1. p[1] # d \/ p[2] # b
      BY <2>2
    <3> QED BY <2>2, <3>1
  <2> QED BY <2>1, <2>2
<1>5. [perf EXCEPT ![<<d, b>>] = c2] = [p \in Days \X Agents |-> [perf EXCEPT ![<<d, b>>] = c2][p]]
  OBVIOUS
<1> HIDE DEF Goal
<1>6. Performed(t, d, m, b) = [p \in Days \X Agents |-> Goal(p)]
  BY <1>3, <1>4, <1>5
<1> QED BY <1>6, Zenon DEF Goal, PerformedTable

\* The subgraph's daily tables after an execution of a multisig with agents A, as Executes has the squid's.
GraphExecutes(t, u, m, d, A) ==
  /\ u.uniqueAgent = t.uniqueAgent \cup {<<d, a>> : a \in A}
  /\ u.uniqueCount = IF A \subseteq AgentsOn(d) THEN t.uniqueCount ELSE [t.uniqueCount EXCEPT ![d] = @ + 1]
  /\ u.performance = [p \in Days \X Agents |->
       IF p[1] # d \/ p[2] \notin A THEN t.performance[p]
       ELSE [txCount |-> t.performance[p].txCount + 1,
             activeMultisigCount |-> t.performance[p].activeMultisigCount
                                     + (IF m \in MultisigsOf(d, p[2]) THEN 0 ELSE 1)]]
  /\ u.agentMultisig = t.agentMultisig \cup {<<d, a, m>> : a \in A}
  /\ u.agentTxs = [a \in Agents |-> t.agentTxs[a] + (IF a \in A THEN 1 ELSE 0)]

\* Both loops, for one agent,
LEMMA LoopsOnce ==
  ASSUME NEW t, NEW d, NEW m, NEW ids, Len(ids) = 1
  PROVE  /\ UpdateDailyUniqueAgents(t, d, ids) = CreateDailyUniqueAgent(t, d, ids[1])
         /\ UpdateDailyAgentPerformance(t, d, m, ids) = AgentPerformed(t, d, m, ids[1])
<1>1. Len(ids) \in Nat /\ Len(ids) <= 1
  OBVIOUS
<1>2. UpdateDailyUniqueAgents(t, d, ids) = CreateDailyUniqueAgent(t, d, ids[1])
  <2>1. UniqueLoopDoes(t, d, ids)
    BY <1>1, UniqueLoop
  <2> QED BY <2>1 DEF UniqueLoopDoes
<1>3. UpdateDailyAgentPerformance(t, d, m, ids) = AgentPerformed(t, d, m, ids[1])
  <2>1. PerformanceLoopDoes(t, d, m, ids)
    BY <1>1, PerformanceLoop
  <2> QED BY <2>1 DEF PerformanceLoopDoes
<1> QED BY <1>2, <1>3

\* and for none.
LEMMA LoopsNever ==
  ASSUME NEW t, NEW d, NEW m, NEW ids, Len(ids) = 0
  PROVE  UpdateDailyUniqueAgents(t, d, ids) = t /\ UpdateDailyAgentPerformance(t, d, m, ids) = t
<1>1. Len(ids) \in Nat /\ Len(ids) <= 1
  OBVIOUS
<1>2. UpdateDailyUniqueAgents(t, d, ids) = t
  <2>1. UniqueLoopDoes(t, d, ids)
    BY <1>1, UniqueLoop
  <2> QED BY <2>1 DEF UniqueLoopDoes
<1>3. UpdateDailyAgentPerformance(t, d, m, ids) = t
  <2>1. PerformanceLoopDoes(t, d, m, ids)
    BY <1>1, PerformanceLoop
  <2> QED BY <2>1 DEF PerformanceLoopDoes
<1> QED BY <1>2, <1>3

\* Counters, one more for each of A.
Bumped(f, A) == [a \in Agents |-> f[a] + (IF a \in A THEN 1 ELSE 0)]

\* One more for one agent.
LEMMA OneBumped ==
  ASSUME NEW f \in [Agents -> Nat], NEW b \in Agents
  PROVE  [f EXCEPT ![b] = @ + 1] = Bumped(f, {b})
<1> DEFINE g == [f EXCEPT ![b] = @ + 1]
           h == Bumped(f, {b})
<1>1. g = [a \in Agents |-> g[a]] /\ h = [a \in Agents |-> h[a]]
  BY DEF Bumped
<1>2. \A a \in Agents : g[a] = h[a]
  <2> SUFFICES ASSUME NEW a \in Agents PROVE g[a] = h[a]
    OBVIOUS
  <2>1. g[a] = IF a = b THEN f[a] + 1 ELSE f[a]
    OBVIOUS
  <2>2. h[a] = f[a] + (IF a = b THEN 1 ELSE 0)
    BY DEF Bumped
  <2>3. f[a] \in Nat
    OBVIOUS
  <2> QED BY <2>1, <2>2, <2>3
<1> HIDE DEF g, h
<1> QED BY <1>1, <1>2 DEF g, h

\* All the two loops do.
LoopsDone(t, u, m, d, A) ==
  /\ RestSame(t, u) /\ GraphExecutes(t, u, m, d, A)
  /\ u.activity = t.activity /\ u.activeMultisig = t.activeMultisig /\ u.activeCount = t.activeCount
  /\ u.global = t.global

\* The subgraph counts an execution as the squid does, for a multisig of one agent,
LEMMA LoopDoes ==
  ASSUME ActivityInv, NEW t, GraphShaped(t), NEW m \in Multisigs, NEW d \in Days, NEW b \in Agents,
         NEW A, A = {b}, NEW v, v = CreateDailyUniqueAgent(t, d, b), NEW u, u = AgentPerformed(v, d, m, b),
         t.uniqueAgent = uniqueAgents, t.performance = performance, t.agentMultisig = agentMultisigs,
         t.agentTxs = agentTxs
  PROVE  LoopsDone(t, u, m, d, A)
<1>1. /\ performance \in [Days \X Agents -> [txCount : Nat, activeMultisigCount : Nat]]
      /\ agentTxs \in [Agents -> Nat]
  BY DEF ActivityInv, DailyKept, DailyTyped
<1>3. /\ RestSame(t, v) /\ v.uniqueAgent = t.uniqueAgent \cup {<<d, b>>}
      /\ v.uniqueCount = IF <<d, b>> \in t.uniqueAgent THEN t.uniqueCount
                         ELSE [t.uniqueCount EXCEPT ![d] = @ + 1]
      /\ v.activity = t.activity /\ v.performance = t.performance /\ v.agentMultisig = t.agentMultisig
      /\ v.agentTxs = t.agentTxs /\ v.activeMultisig = t.activeMultisig /\ v.activeCount = t.activeCount
      /\ v.global = t.global
  BY UniqueAgentDoes
<1>4. PerformedFields(v, u, d, m, b)
  <2>1. GraphShaped(v)
    BY <1>3 DEF RestSame
  <2> QED BY <2>1, AgentPerformedDoes, Zenon
<1>5. RestSame(t, u)
  BY <1>3, <1>4 DEF PerformedFields, RestSame, RegistrySame, IdentitySame
<1>6. (b \in AgentsOn(d) <=> <<d, b>> \in t.uniqueAgent) /\ (m \in MultisigsOf(d, b) <=> <<d, b, m>> \in v.agentMultisig)
  BY <1>3 DEF AgentsOn, MultisigsOf
<1>7. u.performance = [p \in Days \X Agents |->
        IF p[1] # d \/ p[2] \notin A THEN t.performance[p]
        ELSE [txCount |-> t.performance[p].txCount + 1,
              activeMultisigCount |-> t.performance[p].activeMultisigCount
                                      + (IF m \in MultisigsOf(d, p[2]) THEN 0 ELSE 1)]]
  <2>1. Performed(v, d, m, b) = PerformedTable(v, d, m, b)
    <3>1. v.performance \in [Days \X Agents -> [txCount : Nat, activeMultisigCount : Nat]]
      BY <1>1, <1>3
    <3> QED BY <3>1, PerformedCell, Zenon
  <2>2. u.performance = PerformedTable(v, d, m, b)
    BY <1>4, <2>1 DEF PerformedFields
  <2>3. \A p \in Days \X Agents :
          PerformedTable(v, d, m, b)[p] =
            IF p[1] # d \/ p[2] \notin A THEN t.performance[p]
            ELSE [txCount |-> t.performance[p].txCount + 1,
                  activeMultisigCount |-> t.performance[p].activeMultisigCount
                                          + (IF m \in MultisigsOf(d, p[2]) THEN 0 ELSE 1)]
    BY <1>3, <1>6 DEF PerformedTable
  <2>4. PerformedTable(v, d, m, b) = [p \in Days \X Agents |-> PerformedTable(v, d, m, b)[p]]
    BY DEF PerformedTable
  <2> QED BY <2>2, <2>3, <2>4
<1>8. u.agentTxs = [a \in Agents |-> t.agentTxs[a] + (IF a \in A THEN 1 ELSE 0)]
  <2>1. t.agentTxs \in [Agents -> Nat]
    BY <1>1
  <2>2. u.agentTxs = [t.agentTxs EXCEPT ![b] = @ + 1]
    BY <1>3, <1>4 DEF PerformedFields
  <2>3. [t.agentTxs EXCEPT ![b] = @ + 1] = Bumped(t.agentTxs, {b})
    BY <2>1, OneBumped
  <2>4. u.agentTxs = Bumped(t.agentTxs, A)
    BY <2>2, <2>3
  <2> QED BY <2>4, Zenon DEF Bumped
<1>9. /\ u.uniqueAgent = t.uniqueAgent \cup {<<d, a>> : a \in A}
      /\ u.agentMultisig = t.agentMultisig \cup {<<d, a, m>> : a \in A}
  BY <1>3, <1>4 DEF PerformedFields
<1>10. u.uniqueCount = IF A \subseteq AgentsOn(d) THEN t.uniqueCount ELSE [t.uniqueCount EXCEPT ![d] = @ + 1]
  BY <1>3, <1>4, <1>6 DEF PerformedFields
<1>11. GraphExecutes(t, u, m, d, A)
  BY <1>7, <1>8, <1>9, <1>10 DEF GraphExecutes
<1> QED BY <1>3, <1>4, <1>5, <1>11 DEF LoopsDone, PerformedFields

\* and of one or none.
LEMMA LoopsDo ==
  ASSUME ActivityInv, NEW t, GraphShaped(t), NEW m \in Multisigs, NEW d \in Days, NEW A, NEW ids \in Seq(Agents),
         OneEach(A, ids), Len(ids) <= 1,
         t.uniqueAgent = uniqueAgents, t.performance = performance, t.agentMultisig = agentMultisigs,
         t.agentTxs = agentTxs
  PROVE  LoopsDone(t, UpdateDailyAgentPerformance(UpdateDailyUniqueAgents(t, d, ids), d, m, ids), m, d, A)
<1>0. Len(ids) \in Nat /\ DOMAIN ids = 1 .. Len(ids)
  BY LenProperties
<1>1. /\ performance \in [Days \X Agents -> [txCount : Nat, activeMultisigCount : Nat]]
      /\ agentTxs \in [Agents -> Nat]
  BY DEF ActivityInv, DailyKept, DailyTyped
<1>2. PICK v : v = UpdateDailyUniqueAgents(t, d, ids)
  OBVIOUS
<1>3. PICK u : u = UpdateDailyAgentPerformance(v, d, m, ids)
  OBVIOUS
<1>4. CASE Len(ids) = 0
  <2>1. A = {}
    <3>1. \A a \in Agents : {i \in DOMAIN ids : ids[i] = a} = {}
      BY <1>0, <1>4
    <3>2. \A a \in Agents : Occurrences(a, ids) = 0
      BY <3>1, FS_EmptySet DEF Occurrences
    <3> QED BY <3>2 DEF OneEach
  <2>2. v = t
    BY <1>2, <1>4, LoopsNever
  <2>3. u = t
    BY <1>3, <1>4, <2>2, LoopsNever
  <2>4. RestSame(t, t)
    BY DEF RestSame, RegistrySame, IdentitySame
  <2>5. GraphExecutes(t, t, m, d, A)
    BY <1>1, <2>1 DEF GraphExecutes
  <2>6. LoopsDone(t, u, m, d, A)
    BY <2>3, <2>4, <2>5 DEF LoopsDone
  <2> QED BY <1>2, <1>3, <2>6
<1>5. CASE Len(ids) = 1
  <2>1. PICK b : b = ids[1]
    OBVIOUS
  <2>2. b \in Agents /\ A = {b}
    <3>1. 1 \in 1 .. Len(ids) /\ DOMAIN ids = {1}
      BY <1>0, <1>5
    <3>2. b \in Agents
      BY <2>1, <3>1, ElementOfSeq, Zenon
    <3>3. {i \in DOMAIN ids : ids[i] = b} = {1}
      BY <2>1, <3>1
    <3>4. Occurrences(b, ids) = 1
      BY <3>3, FS_Singleton DEF Occurrences
    <3>5. b \in A
      BY <3>2, <3>4 DEF OneEach
    <3> QED BY <3>2, <3>5 DEF OneEach
  <2>3. v = CreateDailyUniqueAgent(t, d, b)
    BY <1>2, <1>5, <2>1, LoopsOnce
  <2>4. u = AgentPerformed(v, d, m, b)
    BY <1>3, <1>5, <2>1, LoopsOnce
  <2>5. LoopsDone(t, u, m, d, A)
    BY <2>2, <2>3, <2>4, LoopDoes, Zenon
  <2> QED BY <1>2, <1>3, <2>5
<1>6. \A n \in Nat : n <= 1 => n = 0 \/ n = 1
  OBVIOUS
<1> QED BY <1>0, <1>4, <1>5, <1>6, Zenon

\* An execution keeps GraphInv.
LEMMA ExecutedAgrees ==
  ASSUME ActivityInv, GraphInv, NEW m \in Multisigs, SafeExecuted(m)
  PROVE  GraphInv'
<1>1. PICK d : d = dayTimestamp(now)
  OBVIOUS
<1>2. d \in Days
  BY <1>1, DayNow DEF ActivityInv, ClockTyped
<1>3. multisigs[m] # NoRow /\ multisigs[m].agentIds \in Seq(Agents) /\ Len(multisigs[m].agentIds) <= 1
  BY DEF SafeExecuted, SafeExecution, ActivityInv, RegistryKept, OneAgent, MultisigRow
<1> DEFINE ids == multisigs[m].agentIds
           service == multisigs[m].service
<1>4. SafeExecution(m) /\ graph' = HandleExecution(graph, m) /\ UNCHANGED squidVars /\ UNCHANGED registry
  BY DEF SafeExecuted, SafeExecution
<1>5. PICK A : /\ OneEach(A, ids) /\ Executes(m, d, A)
               /\ activity' = [activity EXCEPT ![<<d, service>>] = ids]
  BY <1>1, <1>4, ExecutionIs
<1>6. GraphTyped /\ IdentitiesLinked /\ SameServices /\ SameMultisigs /\ SameRegistry /\ SameDaily /\ SameMetadata
      /\ SameIdentities
  BY RowsByTable DEF GraphInv
<1>7. graph.multisig[m].service = service /\ graph.multisig[m].agentIds = ids
  <2>1. graph.multisig[m] = ShownMultisig(m)
    BY MultisigShown
  <2>2. graph.multisig[m] = [service |-> service, agentIds |-> ids, creator |-> deployers[m].creator,
                             created |-> deployers[m].created]
    BY <1>3, <2>1 DEF ShownMultisig
  <2> HIDE DEF ids, service
  <2> QED BY <2>2
<1> HIDE DEF ids, service
<1> DEFINE active == [graph EXCEPT !.activity[<<d, service>>] = ids]
           performed == UpdateDailyAgentPerformance(UpdateDailyUniqueAgents(active, d, ids), d, m, ids)
           counted == CreateDailyActiveMultisig(performed, d, m)
<1>8. graph' = [counted EXCEPT !.global = [txCount |-> counted.global.txCount + 1, lastUpdated |-> now]]
  BY <1>1, <1>4, <1>7, Zenon DEF HandleExecution
<1>9. /\ RestSame(graph, active) /\ active.activity = [graph.activity EXCEPT ![<<d, service>>] = ids]
      /\ active.uniqueAgent = graph.uniqueAgent /\ active.uniqueCount = graph.uniqueCount
      /\ active.performance = graph.performance /\ active.agentMultisig = graph.agentMultisig
      /\ active.agentTxs = graph.agentTxs /\ active.activeMultisig = graph.activeMultisig
      /\ active.activeCount = graph.activeCount /\ active.global = graph.global
  BY <1>6 DEF GraphTyped, GraphShaped, RestSame, RegistrySame, IdentitySame
<1> HIDE DEF active
<1>10. /\ RestSame(active, performed) /\ GraphExecutes(active, performed, m, d, A)
       /\ performed.activity = active.activity /\ performed.activeMultisig = active.activeMultisig
       /\ performed.activeCount = active.activeCount /\ performed.global = active.global
  <2>1. GraphShaped(active)
    BY <1>9 DEF RestSame
  <2>2. active.uniqueAgent = uniqueAgents /\ active.performance = performance
        /\ active.agentMultisig = agentMultisigs /\ active.agentTxs = agentTxs
    BY <1>6, <1>9 DEF SameDaily
  <2>3. ids \in Seq(Agents) /\ Len(ids) <= 1
    BY <1>3 DEF ids
  <2>4. LoopsDone(active, performed, m, d, A)
    BY <1>2, <1>5, <2>1, <2>2, <2>3, LoopsDo, Zenon
  <2> QED BY <2>4 DEF LoopsDone
<1> HIDE DEF performed
<1>11. /\ RestSame(performed, counted) /\ counted.activeMultisig = performed.activeMultisig \cup {<<d, m>>}
       /\ counted.activeCount = IF <<d, m>> \in performed.activeMultisig THEN performed.activeCount
                                ELSE [performed.activeCount EXCEPT ![d] = @ + 1]
       /\ counted.activity = performed.activity /\ counted.performance = performed.performance
       /\ counted.agentMultisig = performed.agentMultisig /\ counted.agentTxs = performed.agentTxs
       /\ counted.uniqueAgent = performed.uniqueAgent /\ counted.uniqueCount = performed.uniqueCount
       /\ counted.global = performed.global
  <2>1. GraphShaped(performed)
    BY <1>10 DEF RestSame
  <2> QED BY <2>1, ActiveMultisigDoes
<1> HIDE DEF counted
<1>12. /\ RestSame(counted, graph') /\ graph'.activity = counted.activity
       /\ graph'.global = [txCount |-> counted.global.txCount + 1, lastUpdated |-> now]
       /\ graph'.performance = counted.performance /\ graph'.agentMultisig = counted.agentMultisig
       /\ graph'.agentTxs = counted.agentTxs /\ graph'.uniqueAgent = counted.uniqueAgent
       /\ graph'.uniqueCount = counted.uniqueCount /\ graph'.activeMultisig = counted.activeMultisig
       /\ graph'.activeCount = counted.activeCount
  <2>1. GraphShaped(counted)
    BY <1>11 DEF RestSame
  <2> QED BY <1>8, <2>1 DEF GraphShaped, RestSame, RegistrySame, IdentitySame
<1>13. RestSame(graph, graph')
  BY <1>9, <1>10, <1>11, <1>12 DEF RestSame, RegistrySame, IdentitySame
<1>14. SameDaily'
  <2>1. graph'.activity = activity'
    BY <1>5, <1>6, <1>9, <1>10, <1>11, <1>12 DEF SameDaily
  <2>2. graph'.uniqueAgent = uniqueAgents' /\ graph'.agentMultisig = agentMultisigs' /\ graph'.agentTxs = agentTxs'
    BY <1>5, <1>6, <1>9, <1>10, <1>11, <1>12 DEF SameDaily, GraphExecutes, Executes
  <2>3. graph'.performance = performance'
    BY <1>5, <1>6, <1>9, <1>10, <1>11, <1>12 DEF SameDaily, GraphExecutes, Executes
  <2>4. graph'.uniqueCount = uniqueCount'
    <3>1. uniqueCount \in [Days -> Nat]
      BY DEF ActivityInv, DailyKept, DailyTyped
    <3>2. graph'.uniqueCount = IF A \subseteq AgentsOn(d) THEN uniqueCount ELSE [uniqueCount EXCEPT ![d] = @ + 1]
      BY <1>6, <1>9, <1>10, <1>11, <1>12 DEF SameDaily, GraphExecutes
    <3>3. uniqueCount' = [uniqueCount EXCEPT ![d] = uniqueCount[d] + Cardinality(A \ AgentsOn(d))]
      BY <1>5 DEF Executes
    <3>4. CASE A \subseteq AgentsOn(d)
      <4>1. A \ AgentsOn(d) = {}
        BY <3>4
      <4> QED BY <1>2, <3>1, <3>2, <3>3, <3>4, <4>1, FS_EmptySet
    <3>5. CASE ~ (A \subseteq AgentsOn(d))
      <4>1. PICK b \in Agents : A = {b}
        BY <1>5, <3>5 DEF OneEach
      <4>2. A \ AgentsOn(d) = {b}
        BY <3>5, <4>1
      <4> QED BY <3>2, <3>3, <3>5, <4>2, FS_Singleton
    <3> QED BY <3>4, <3>5
  <2>5. graph'.activeMultisig = activeMultisigs' /\ graph'.activeCount = activeCount'
    <3>1. m \in MultisigsOn(d) <=> <<d, m>> \in performed.activeMultisig
      BY <1>6, <1>9, <1>10 DEF SameDaily, MultisigsOn
    <3> QED BY <1>5, <1>6, <1>9, <1>10, <1>11, <1>12, <3>1 DEF SameDaily, Executes
  <2>6. graph'.global = global'
    BY <1>5, <1>6, <1>9, <1>10, <1>11, <1>12 DEF SameDaily, Executes
  <2> QED BY <2>1, <2>2, <2>3, <2>4, <2>5, <2>6 DEF SameDaily
<1>15. SameServices' /\ SameMultisigs' /\ SameRegistry'
  BY <1>4, <1>6, <1>13, ServicesStay, MultisigsStay, RegistryStays DEF RestSame, registry, squidVars
<1>16. SameIdentities' /\ IdentitiesLinked' /\ SameMetadata'
  <2>1. \A s \in Services : columns'[s].identity \in {columns[s].identity, NoValue}
    BY <1>4 DEF squidVars
  <2> QED BY <1>4, <1>6, <1>13, <2>1, IdentitiesStay DEF RestSame, squidVars
<1>17. GraphTyped'
  <2>1. UNCHANGED <<columns, deployers, identities, metadata, multisigs>>
    BY <1>4 DEF squidVars, registry
  <2>2. GraphShaped(graph') /\ graph.identity' = graph.identity /\ graph.registration' = graph.registration
    BY <1>13 DEF RestSame, RegistrySame, IdentitySame
  <2> QED BY <1>6, <2>1, <2>2 DEF GraphTyped
<1>18. RowsAsSubgraph'
  BY <1>14, <1>15, <1>16
     DEF RowsAsSubgraph, SameRows, SameServices, SameMultisigs, SameRegistry, SameDaily, SameMetadata
<1> QED BY <1>16, <1>17, <1>18 DEF GraphInv

-----------------------------------------------------------------------------
(* RowsAsSubgraph, always.                                                 *)

\* GraphInv holds of the empty tables.
LEMMA GraphStarts == GraphInit => GraphInv
<1> SUFFICES ASSUME GraphInit PROVE GraphInv
  OBVIOUS
<1>1. GraphTyped
  BY GraphAssumption DEF GraphInit, ActivityInit, EmptyGraph, GraphTyped, GraphShaped, ColumnsRow, NewColumns
<1>2. IdentitiesLinked
  BY GraphAssumption DEF GraphInit, EmptyGraph, NewColumns, IdentitiesLinked
<1>3. SameServices /\ SameMultisigs
  BY DEF GraphInit, ActivityInit, EmptyGraph, SameServices, SameMultisigs, ShownService, ShownMultisig
<1>4. SameRegistry /\ SameDaily /\ SameMetadata
  BY DEF GraphInit, ActivityInit, EmptyGraph, SameRegistry, SameDaily, SameMetadata
<1>5. SameIdentities
  BY DEF GraphInit, EmptyGraph, SameIdentities
<1> QED BY <1>1, <1>2, <1>3, <1>4, <1>5, RowsByTable DEF GraphInv

\* Every step keeps GraphInv.
LEMMA GraphStepAgrees ==
  ASSUME ActivityInv, GraphInv, GraphNext \/ UNCHANGED graphVars
  PROVE  GraphInv'
<1>1. CASE NextBlock /\ UNCHANGED <<squidVars, graph>>
  BY <1>1, GraphStays DEF NextBlock
<1>2. ASSUME NEW s \in Services, NEW config \in Configs, ServiceCreated(s, config) PROVE GraphInv'
  BY <1>2, ServiceCreatedAgrees
<1>3. ASSUME NEW s \in Services, NEW config \in Configs, UpdateService(s, config) PROVE GraphInv'
  BY <1>3, ServiceUpdatedAgrees
<1>4. ASSUME NEW s \in Services, NEW a \in Agents, NEW o \in Operators, InstanceRegistered(s, a, o)
      PROVE  GraphInv'
  BY <1>4, RegisteredAgrees
<1>5. ASSUME NEW s \in Services, NEW m \in Multisigs, NEW sender \in Senders, MultisigCreated(s, m, sender)
      PROVE  GraphInv'
  BY <1>5, DeployedAgrees
<1>6. ASSUME NEW s \in Services, ServiceTerminated(s) PROVE GraphInv'
  BY <1>6, TerminatedAgrees
<1>7. ASSUME NEW m \in Multisigs, SafeExecuted(m) PROVE GraphInv'
  BY <1>7, ExecutedAgrees
<1>8. ASSUME NEW s \in Services, NEW i \in Identities, ServiceAgentLinked(s, i) PROVE GraphInv'
  BY <1>8, LinkedAgrees
<1>9. ASSUME NEW i \in Identities, NEW m \in Multisigs, AgentWalletSet(i, m) PROVE GraphInv'
  BY <1>9, WalletAgrees
<1>10. ASSUME NEW i \in Identities, NEW key \in Keys, NEW text \in Texts, MetadataSet(i, key, text)
       PROVE  GraphInv'
  BY <1>10, MetadataAgrees
<1>11. CASE UNCHANGED graphVars
  <2>1. UNCHANGED <<registry, daily, squidVars, graph>>
    BY <1>11 DEF graphVars, activityVars
  <2> QED BY <2>1, GraphStays
<1> QED BY <1>1, <1>2, <1>3, <1>4, <1>5, <1>6, <1>7, <1>8, <1>9, <1>10, <1>11 DEF GraphNext

\* The squid keeps the rows the subgraph keeps, "ported branch-for-branch"
\* (handlers.ts:1), whatever services, agents, multisigs, identities and logs there are:
\* after every log the tables are equal, but for the identities that have metadata only
\* (README.md:85).
THEOREM RowsAlwaysAsSubgraph == GraphSpec => []RowsAsSubgraph
<1>1. GraphInit => GraphInv
  BY GraphStarts
<1>2. ActivityInv /\ GraphInv /\ [GraphNext]_graphVars => GraphInv'
  BY GraphStepAgrees
<1>3. GraphInv => RowsAsSubgraph
  BY DEF GraphInv
<1> QED BY <1>1, <1>2, <1>3, ActivityAlways, PTL DEF GraphSpec
=============================================================================
