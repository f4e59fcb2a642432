------------------------- MODULE TrackedIndexProofs -------------------------
(***************************************************************************)
(* Proofs about TrackedIndex, for any addresses, roles, chain length and   *)
(* number of reorganisations and failures: the index the process keeps is  *)
(* the table whenever a handler may ask it (IndexIsTable), and the squid   *)
(* implements an Indexer whose handlers ask the table (ImplementsTable).   *)
(***************************************************************************)
EXTENDS TrackedIndex, SequenceTheorems, TLAPS

Steps == INSTANCE IndexerProofs
           WITH Event <- Block, EmptyTable <- NoTables, Apply <- RunBlock, db <- db

-----------------------------------------------------------------------------
(* The invariant. *)

\* Where the transaction under way stands: its tables are those after its last
\* block, and the call ends within it.
TransactionOK ==
  /\ pc # "idle" => /\ work = After(trail, Len(trail))
                    /\ flushed <= Len(trail) /\ Len(trail) <= Len(fetched)
  /\ pc = "new" => Len(trail) = flushed /\ flushed < Len(fetched)
  /\ pc = "logs" => Len(trail) < CallEnd /\ CallEnd <= Len(fetched)
  /\ pc = "flush" => flushed < Len(trail)
  /\ pc = "commit" => Len(trail) = Len(fetched)

\* As long as nobody asked, no address became known in the call, so that the
\* table the index would be loaded from is the one the handlers see.
UnloadedIsCurrent ==
  pc \in {"logs", "flush"} /\ ~ index.loaded => work.rows = After(trail, flushed).rows

\* The index was built through what the transaction has flushed.
BuiltIsFlushed ==
  pc = "commit" /\ index.loaded => built = Len(trail)

\* Each block has its tables in the rollback log and in the transaction, those
\* of the handlers that ask the table.
TablesAreRuns ==
  /\ \A n \in 0 .. Len(applied) : After(history, n) = Squid!Run(SubSeq(applied, 1, n))
  /\ \A n \in 0 .. Len(trail) : After(trail, n) = Squid!Run(SubSeq(fetched, 1, n))

NotBehind == pc # "idle" => ~ Squid!IsPrefix(fetched, applied)

IInv ==
  /\ IndexIsTable
  /\ TransactionOK
  /\ UnloadedIsCurrent
  /\ BuiltIsFlushed
  /\ TablesAreRuns
  /\ NotBehind
-----------------------------------------------------------------------------
(* Lemmas. *)

LEMMA NoTablesTyped == NoTables \in Tables /\ NotLoaded \in [loaded : BOOLEAN, rows : Rows]
<1>1. NoTables.rows \in Rows
  BY DEF NoTables, Rows
<1>2. <<>> \in Seq(Roles \cup {NoRole})
  BY EmptySeq
<1> QED BY <1>1, <1>2 DEF NoTables, Tables, NotLoaded

LEMMA AfterTyped ==
  ASSUME NEW tables \in Seq(Tables), NEW n \in 0 .. Len(tables)
  PROVE  After(tables, n) \in Tables
BY NoTablesTyped, ElementOfSeq, LenProperties DEF After

LEMMA PrefixFacts ==
  ASSUME NEW S, NEW s \in Seq(S), NEW n \in 0 .. Len(s)
  PROVE  /\ SubSeq(s, 1, n) \in Seq(S)
         /\ Len(SubSeq(s, 1, n)) = n
         /\ \A i \in 1 .. n : SubSeq(s, 1, n)[i] = s[i]
<1>1. \A i \in 1 .. n : s[i] \in S
  BY ElementOfSeq, LenProperties
<1> QED BY <1>1, SubSeqProperties, LenProperties

\* The run of the handlers that ask the table, block by block.
LEMMA RunStep ==
  ASSUME NEW s \in Seq(Block)
  PROVE  /\ Squid!Run(SubSeq(s, 1, 0)) = NoTables
         /\ \A n \in 0 .. Len(s) - 1 :
               Squid!Run(SubSeq(s, 1, n + 1))
                 = RunBlock(Squid!Run(SubSeq(s, 1, n)), s[n + 1], n + 1)
         /\ SubSeq(s, 1, Len(s)) = s
<1>1. \A t : Squid!Run(t) = Steps!Run(t)
  BY Zenon DEF Squid!Run, Steps!Run
<1> QED BY <1>1, Steps!RunStep

\* Chains that agree have the same prefix.
LEMMA AgreeIsPrefix ==
  ASSUME NEW s \in Seq(Block), NEW t \in Seq(Block), NEW n \in Nat, Agree(s, t, n)
  PROVE  \A k \in 0 .. n : SubSeq(s, 1, k) = SubSeq(t, 1, k)
<1> SUFFICES ASSUME NEW k \in 0 .. n
             PROVE  SubSeq(s, 1, k) = SubSeq(t, 1, k)
  OBVIOUS
<1>1. k \in 0 .. Len(s) /\ k \in 0 .. Len(t) /\ \A i \in 1 .. k : s[i] = t[i]
  BY LenProperties DEF Agree
<1>2. /\ SubSeq(s, 1, k) \in Seq(Block) /\ SubSeq(t, 1, k) \in Seq(Block)
      /\ Len(SubSeq(s, 1, k)) = k /\ Len(SubSeq(t, 1, k)) = k
      /\ \A i \in 1 .. k : SubSeq(s, 1, k)[i] = SubSeq(t, 1, k)[i]
  BY <1>1, PrefixFacts
<1> QED BY <1>2, SeqEqual

\* A handler that asks an index equal to the table does what one that asks the
\* table does, and leaves the index equal to the table.
LEMMA HandlerStep ==
  ASSUME IndexTypeOK, NEW block \in Block, Dispatch(block), Loaded = work.rows
  PROVE  /\ \A n : work' = RunBlock(work, block, n)
         /\ work' \in Tables /\ index' \in [loaded : BOOLEAN, rows : Rows]
         /\ index'.loaded => index'.rows = work'.rows
         /\ ~ index'.loaded => index' = index /\ work'.rows = work.rows
<1>1. /\ work \in Tables /\ work = [rows |-> work.rows, answers |-> work.answers]
      /\ work.rows \in Rows /\ work.answers \in Seq(Roles \cup {NoRole})
  BY DEF IndexTypeOK, Tables
<1>2. CASE block.op = "track"
  <2>1. block.address \in Tracked /\ block.role \in Roles /\ Track(block.address, block.role)
    BY <1>2 DEF Block, Dispatch
  <2>2. CASE work.rows[block.address] # NoRole
    <3>1. work' = work /\ index' = [loaded |-> TRUE, rows |-> work.rows]
      BY <2>1, <2>2 DEF Track, Indexed
    <3>2. \A n : RunBlock(work, block, n) = work
      BY <1>2, <2>2 DEF RunBlock
    <3> QED BY <1>1, <3>1, <3>2
  <2>3. CASE work.rows[block.address] = NoRole
    <3> DEFINE rows == [work.rows EXCEPT ![block.address] = block.role]
    <3>1. /\ work' = [work EXCEPT !.rows = rows]
          /\ index' = [loaded |-> TRUE, rows |-> rows]
      BY <1>1, <2>1, <2>3 DEF Track, Indexed
    <3>2. rows \in Rows
      BY <1>1, <2>1 DEF Rows
    <3>3. \A n : RunBlock(work, block, n) = [work EXCEPT !.rows = rows]
      BY <1>1, <1>2, <2>3 DEF RunBlock
    <3> HIDE DEF rows
    <3>4. work' \in Tables /\ work'.rows = rows
      BY <1>1, <3>1, <3>2 DEF Tables
    <3> QED BY <3>1, <3>2, <3>3, <3>4
  <2> QED BY <2>2, <2>3
<1>3. CASE block.op = "look"
  <2>1. block.address \in Tracked /\ Look(block.address)
    BY <1>3 DEF Block, Dispatch
  <2> DEFINE answers == Append(work.answers, work.rows[block.address])
  <2>2. /\ work' = [work EXCEPT !.answers = answers]
        /\ index' = [loaded |-> TRUE, rows |-> work.rows]
    BY <1>1, <2>1 DEF Look, Indexed
  <2>3. answers \in Seq(Roles \cup {NoRole})
    BY <1>1, <2>1, AppendProperties DEF Rows
  <2>4. \A n : RunBlock(work, block, n) = [work EXCEPT !.answers = answers]
    BY <1>1, <1>3 DEF RunBlock
  <2> HIDE DEF answers
  <2>5. work' \in Tables /\ work'.rows = work.rows
    BY <1>1, <2>2, <2>3 DEF Tables
  <2> QED BY <1>1, <2>2, <2>4, <2>5
<1>4. CASE block.op = "other"
  <2>1. UNCHANGED <<work, index>>
    BY <1>4 DEF Dispatch
  <2>2. \A n : RunBlock(work, block, n) = work
    BY <1>4 DEF RunBlock
  <2>3. index'.loaded => index'.rows = work'.rows
    BY <2>1 DEF Loaded
  <2> QED BY <1>1, <2>1, <2>2, <2>3 DEF IndexTypeOK
<1> QED BY <1>2, <1>3, <1>4 DEF Block

\* What ends a transaction without a trace.
LEMMA EndFacts ==
  ASSUME EndTransaction
  PROVE  /\ pc' = "idle" /\ fetched' = <<>> /\ fetched' \in Seq(Block) /\ head' \in Nat
         /\ trail' = <<>> /\ trail' \in Seq(Tables) /\ Len(trail') = 0 /\ flushed' = 0
         /\ work' \in Tables
BY EmptySeq, NoTablesTyped DEF EndTransaction
-----------------------------------------------------------------------------
(* The invariant is inductive. *)

LEMMA InitInvariant == IndexInit => IInv
<1> SUFFICES ASSUME IndexInit PROVE IInv
  OBVIOUS
<1>1. /\ chain = <<>> /\ final = 0 /\ forks = 0 /\ applied = <<>> /\ history = <<>>
      /\ pc = "idle" /\ fetched = <<>> /\ head = 0 /\ trail = <<>> /\ flushed = 0
      /\ work = NoTables /\ index = NotLoaded /\ built = 0 /\ failures = 0
      /\ <<>> \in Seq(Block) /\ <<>> \in Seq(Tables) /\ Len(<<>>) = 0
  BY EmptySeq DEF IndexInit
<1>2. IndexTypeOK
  BY <1>1, NoTablesTyped DEF IndexTypeOK
<1>3. IndexIsTable
  BY <1>1, <1>2 DEF IndexIsTable, NotLoaded
<1>4. Squid!Run(SubSeq(<<>>, 1, 0)) = NoTables
  BY <1>1, RunStep
<1>5. TablesAreRuns
  BY <1>1, <1>4 DEF TablesAreRuns, After
<1> QED BY <1>1, <1>3, <1>5
        DEF IInv, TransactionOK, UnloadedIsCurrent, BuiltIsFlushed, NotBehind

LEMMA ChainTyped ==
  ASSUME IndexTypeOK, Grow \/ Finalize \/ Fork
  PROVE  chain' \in Seq(Block) /\ final' \in Nat /\ forks' \in Nat
<1>1. CASE Grow
  BY <1>1, AppendProperties DEF Grow, IndexTypeOK
<1>2. CASE Finalize
  BY <1>2 DEF Finalize, IndexTypeOK
<1>3. CASE Fork
  <2>1. PICK n \in final .. Len(chain) - 1, block \in Block :
           chain' = Append(SubSeq(chain, 1, n), block)
    BY <1>3 DEF Fork
  <2>2. n \in 0 .. Len(chain)
    BY <2>1, LenProperties DEF IndexTypeOK
  <2>3. SubSeq(chain, 1, n) \in Seq(Block)
    BY <2>2, PrefixFacts DEF IndexTypeOK
  <2> QED BY <1>3, <2>1, <2>3, AppendProperties DEF Fork, IndexTypeOK
<1> QED BY <1>1, <1>2, <1>3

\* A transaction begins with the tables and the rollback log of the fork point.
LEMMA BeginInvariant ==
  ASSUME IInv, BeginTransaction
  PROVE  IInv'
<1>0. /\ IndexIsTable /\ IndexTypeOK /\ TablesAreRuns
      /\ chain \in Seq(Block) /\ applied \in Seq(Block) /\ history \in Seq(Tables)
      /\ Len(history) = Len(applied) /\ Len(chain) \in Nat /\ Len(applied) \in Nat
      /\ final \in Nat
  BY LenProperties DEF IInv, IndexIsTable, IndexTypeOK
<1>1. PICK base \in 0 .. Len(applied), n \in 1 .. Len(chain) :
         /\ IsForkPoint(applied, chain, base)
         /\ n > base
         /\ fetched' = SubSeq(chain, 1, n)
         /\ trail' = SubSeq(history, 1, base)
         /\ flushed' = base
         /\ work' = After(history, base)
  BY DEF BeginTransaction
<1>2. /\ pc = "idle" /\ pc' = "new" /\ head' = final
      /\ UNCHANGED <<chain, final, forks, applied, history, index, built, failures>>
  BY DEF BeginTransaction, indexChain, dbVars
<1>3. /\ base \in Nat /\ n \in Nat /\ base + 1 \in Nat /\ base + 1 <= n
      /\ n \in 0 .. Len(chain) /\ base \in 0 .. Len(history)
  BY <1>0, <1>1
<1>4. /\ fetched' \in Seq(Block) /\ Len(fetched') = n
      /\ \A i \in 1 .. n : fetched'[i] = chain[i]
      /\ trail' \in Seq(Tables) /\ Len(trail') = base
      /\ \A i \in 1 .. base : trail'[i] = history[i]
  BY <1>0, <1>1, <1>3, PrefixFacts
<1>5. \A k \in 0 .. base : After(trail', k) = After(history, k)
  BY <1>4 DEF After
<1>6. work' \in Tables
  BY <1>0, <1>1, <1>3, AfterTyped
<1>7. IndexTypeOK'
  BY <1>0, <1>1, <1>2, <1>3, <1>4, <1>6 DEF IndexTypeOK
<1>8. Agree(applied, fetched', base)
  BY <1>0, <1>1, <1>3, <1>4 DEF IsForkPoint, Agree
<1>9. TablesAreRuns'
  <2>1. \A k \in 0 .. base : SubSeq(applied, 1, k) = SubSeq(fetched', 1, k)
    BY <1>0, <1>3, <1>4, <1>8, AgreeIsPrefix
  <2>2. \A k \in 0 .. base : After(trail', k) = Squid!Run(SubSeq(fetched', 1, k))
    <3> SUFFICES ASSUME NEW k \in 0 .. base
                 PROVE  After(trail', k) = Squid!Run(SubSeq(fetched', 1, k))
      OBVIOUS
    <3>1. k \in 0 .. Len(applied)
      BY <1>0, <1>3
    <3> QED BY <1>0, <1>5, <2>1, <3>1 DEF TablesAreRuns
  <2> QED BY <1>0, <1>2, <1>4, <2>2 DEF TablesAreRuns
<1>10. index.loaded => Current' <= built \/ index.rows = work'.rows
  <2>1. Current' = base + 1
    BY <1>4 DEF Current
  <2>2. CASE base = Len(applied)
    BY <1>0, <1>1, <1>2, <2>2 DEF IndexIsTable, db
  <2>3. CASE base < Len(applied)
    BY <1>0, <1>2, <1>3, <2>1, <2>3 DEF IndexIsTable
  <2> QED BY <1>0, <1>1, <2>2, <2>3
<1>11. ~ Squid!IsPrefix(fetched', applied)
  <2> SUFFICES ASSUME Squid!IsPrefix(fetched', applied) PROVE FALSE
    OBVIOUS
  <2>1. n <= Len(applied) /\ SubSeq(fetched', 1, n) = SubSeq(applied, 1, n)
    BY <1>4 DEF Squid!IsPrefix
  <2>2. \A i \in 1 .. n : fetched'[i] = applied[i]
    <3>1. n \in 0 .. Len(fetched') /\ n \in 0 .. Len(applied)
      BY <1>0, <1>3, <1>4, <2>1
    <3> QED BY <1>0, <1>4, <2>1, <3>1, PrefixFacts
  <2>3. Agree(applied, chain, base + 1)
    BY <1>0, <1>3, <1>4, <2>1, <2>2 DEF Agree
  <2> QED BY <1>1, <2>3 DEF IsForkPoint
<1>12. IndexIsTable'
  BY <1>2, <1>7, <1>10 DEF IndexIsTable
<1>13. TransactionOK'
  <2>1. work' = After(trail', base)
    BY <1>1, <1>3, <1>5
  <2> QED BY <1>1, <1>2, <1>3, <1>4, <2>1 DEF TransactionOK
<1> QED BY <1>2, <1>9, <1>11, <1>12, <1>13
        DEF IInv, UnloadedIsCurrent, BuiltIsFlushed, NotBehind

\* A block is handled: one more entry of the trail.
LEMMA HandleInvariant ==
  ASSUME IInv, HandleBlock
  PROVE  IInv'
<1>0. /\ IndexIsTable /\ IndexTypeOK /\ TransactionOK /\ UnloadedIsCurrent /\ TablesAreRuns
      /\ fetched \in Seq(Block) /\ trail \in Seq(Tables)
      /\ Len(fetched) \in Nat /\ Len(trail) \in Nat /\ flushed \in Nat /\ head \in Nat
  BY LenProperties DEF IInv, IndexIsTable, IndexTypeOK
<1>1. /\ pc = "logs" /\ Dispatch(fetched[Current]) /\ trail' = Append(trail, work')
      /\ pc' = (IF Current < CallEnd THEN "logs" ELSE "flush")
      /\ UNCHANGED <<chain, final, forks, applied, history, fetched, head, flushed, built,
                     failures>>
  BY DEF HandleBlock, indexChain, dbVars
<1>2. /\ Current = Len(trail) + 1 /\ Current \in 1 .. Len(fetched)
      /\ work = After(trail, Len(trail)) /\ flushed <= Len(trail)
      /\ Len(trail) < CallEnd /\ CallEnd <= Len(fetched) /\ CallEnd \in Nat
  BY <1>0, <1>1 DEF TransactionOK, Current, CallEnd
<1>3. fetched[Current] \in Block
  BY <1>0, <1>2, ElementOfSeq
<1>4. Loaded = work.rows
  BY <1>0, <1>1 DEF IndexIsTable, UnloadedIsCurrent, Loaded
<1>5. /\ \A n : work' = RunBlock(work, fetched[Current], n)
      /\ work' \in Tables /\ index' \in [loaded : BOOLEAN, rows : Rows]
      /\ index'.loaded => index'.rows = work'.rows
      /\ ~ index'.loaded => index' = index /\ work'.rows = work.rows
  BY <1>0, <1>1, <1>3, <1>4, HandlerStep
<1>6. /\ trail' \in Seq(Tables) /\ Len(trail') = Len(trail) + 1
      /\ \A i \in 1 .. Len(trail) : trail'[i] = trail[i]
      /\ trail'[Len(trail) + 1] = work'
  BY <1>0, <1>1, <1>5, AppendProperties
<1>7. /\ \A k \in 0 .. Len(trail) : After(trail', k) = After(trail, k)
      /\ After(trail', Len(trail')) = work'
  BY <1>0, <1>6 DEF After
<1>8. IndexTypeOK'
  BY <1>0, <1>1, <1>2, <1>5, <1>6 DEF IndexTypeOK
<1>9. IndexIsTable'
  BY <1>1, <1>5, <1>8 DEF IndexIsTable
<1>10. CallEnd' = CallEnd
  BY <1>1 DEF CallEnd
<1>11. TransactionOK'
  BY <1>0, <1>1, <1>2, <1>6, <1>7, <1>10 DEF TransactionOK
<1>12. UnloadedIsCurrent'
  <2> SUFFICES ASSUME ~ index'.loaded
               PROVE  work'.rows = After(trail', flushed).rows
    BY <1>1 DEF UnloadedIsCurrent
  <2>1. After(trail', flushed) = After(trail, flushed)
    BY <1>0, <1>2, <1>7
  <2> QED BY <1>0, <1>1, <1>5, <2>1 DEF UnloadedIsCurrent
<1>13. TablesAreRuns'
  <2>1. work' = Squid!Run(SubSeq(fetched, 1, Len(trail) + 1))
    <3>1. Len(trail) \in 0 .. Len(fetched) - 1
      BY <1>0, <1>2
    <3>2. work = Squid!Run(SubSeq(fetched, 1, Len(trail)))
      BY <1>0, <1>2 DEF TablesAreRuns
    <3> QED BY <1>0, <1>2, <1>5, <3>1, <3>2, RunStep
  <2>2. ASSUME NEW k \in 0 .. Len(trail')
        PROVE  After(trail', k) = Squid!Run(SubSeq(fetched, 1, k))
    <3>1. CASE k = Len(trail')
      BY <1>6, <1>7, <2>1, <3>1
    <3>2. CASE k # Len(trail')
      <4>1. k \in 0 .. Len(trail)
        BY <1>0, <1>6, <3>2
      <4> QED BY <1>0, <1>7, <4>1 DEF TablesAreRuns
    <3> QED BY <3>1, <3>2
  <2> QED BY <1>0, <1>1, <2>2 DEF TablesAreRuns, After
<1> QED BY <1>1, <1>9, <1>11, <1>12, <1>13 DEF IInv, BuiltIsFlushed, NotBehind
LEMMA NextInvariant ==
  ASSUME IInv, [IndexNext]_indexVars
  PROVE  IInv'
<1>0. /\ IndexIsTable /\ IndexTypeOK /\ TransactionOK /\ UnloadedIsCurrent /\ BuiltIsFlushed
      /\ TablesAreRuns /\ NotBehind
      /\ fetched \in Seq(Block) /\ trail \in Seq(Tables)
      /\ Len(fetched) \in Nat /\ Len(trail) \in Nat /\ flushed \in Nat /\ head \in Nat
  BY LenProperties DEF IInv, IndexIsTable, IndexTypeOK
<1>1. CASE Grow \/ Finalize \/ Fork
  <2>1. UNCHANGED <<applied, history, pc, fetched, head, trail, flushed, work, index, built,
                    failures>>
    BY <1>1 DEF Grow, Finalize, Fork, dbVars, txVars
  <2>2. IndexTypeOK'
    BY <1>0, <1>1, <2>1, ChainTyped DEF IndexTypeOK
  <2> QED BY <1>0, <2>1, <2>2
          DEF IInv, IndexIsTable, TransactionOK, UnloadedIsCurrent, BuiltIsFlushed,
              TablesAreRuns, NotBehind, After, Current, CallEnd, db
<1>2. CASE BeginTransaction
  BY <1>2, BeginInvariant
<1>3. CASE NewCache
  <2>1. /\ pc = "new" /\ pc' = "logs"
        /\ UNCHANGED <<chain, final, forks, applied, history, fetched, head, trail, flushed,
                       work, failures>>
        /\ IF index.loaded /\ Current <= built
           THEN index' = NotLoaded /\ built' = 0
           ELSE UNCHANGED <<index, built>>
    BY <1>3 DEF NewCache, NewCacheIndex, indexChain, dbVars, txVars
  <2>2. IndexTypeOK'
    BY <1>0, <2>1, NoTablesTyped DEF IndexTypeOK
  <2>3. Len(trail) = flushed /\ flushed < Len(fetched) /\ work = After(trail, flushed)
    BY <1>0, <2>1 DEF TransactionOK
  <2>4. IndexIsTable'
    BY <1>0, <2>1, <2>2 DEF IndexIsTable, NotLoaded
  <2>5. Len(trail) < CallEnd /\ CallEnd <= Len(fetched) /\ CallEnd' = CallEnd
    BY <1>0, <2>1, <2>3 DEF CallEnd
  <2>6. TransactionOK'
    BY <1>0, <2>1, <2>5 DEF TransactionOK, After
  <2>7. UnloadedIsCurrent'
    BY <2>1, <2>3 DEF UnloadedIsCurrent, After
  <2>8. TablesAreRuns'
    BY <1>0, <2>1 DEF TablesAreRuns, After
  <2> QED BY <1>0, <2>1, <2>4, <2>6, <2>7, <2>8 DEF IInv, BuiltIsFlushed, NotBehind
<1>4. CASE HandleBlock
  BY <1>4, HandleInvariant
<1>5. CASE Flush
  <2>1. /\ pc = "flush" /\ flushed' = Len(trail)
        /\ built' = (IF index.loaded THEN Len(trail) ELSE built)
        /\ pc' = (IF Len(trail) < Len(fetched) THEN "new" ELSE "commit")
        /\ UNCHANGED <<chain, final, forks, applied, history, fetched, head, trail, work,
                       index, failures>>
    BY <1>5 DEF Flush, BuiltThrough, indexChain, dbVars
  <2>2. IndexTypeOK'
    BY <1>0, <2>1 DEF IndexTypeOK
  <2>3. IndexIsTable'
    BY <1>0, <2>1, <2>2 DEF IndexIsTable
  <2>4. TransactionOK'
    BY <1>0, <2>1 DEF TransactionOK, After
  <2>5. UnloadedIsCurrent' /\ BuiltIsFlushed'
    BY <2>1 DEF UnloadedIsCurrent, BuiltIsFlushed
  <2>6. TablesAreRuns'
    BY <1>0, <2>1 DEF TablesAreRuns, After
  <2> QED BY <1>0, <2>1, <2>3, <2>4, <2>5, <2>6 DEF IInv, NotBehind
<1>6. CASE Commit
  <2>1. /\ pc = "commit" /\ applied' = fetched /\ history' = trail /\ EndTransaction
        /\ UNCHANGED <<chain, final, forks, index, built, failures>>
    BY <1>6 DEF Commit, indexChain
  <2>2. /\ Len(trail) = Len(fetched) /\ work = After(trail, Len(trail))
        /\ index.loaded => index.rows = work.rows /\ built = Len(trail)
    BY <1>0, <2>1 DEF TransactionOK, IndexIsTable, BuiltIsFlushed
  <2>3. /\ pc' = "idle" /\ fetched' \in Seq(Block) /\ fetched' = <<>> /\ head' \in Nat
        /\ trail' = <<>> /\ trail' \in Seq(Tables) /\ Len(trail') = 0 /\ flushed' = 0
        /\ work' \in Tables
    BY <2>1, EndFacts
  <2>4. IndexTypeOK'
    BY <1>0, <2>1, <2>2, <2>3 DEF IndexTypeOK
  <2>5. db' = work
    BY <2>1, <2>2 DEF db, After
  <2>6. IndexIsTable'
    BY <2>1, <2>2, <2>3, <2>4, <2>5 DEF IndexIsTable
  <2>7. TablesAreRuns'
    <3>1. \A n \in 0 .. Len(fetched) : After(trail, n) = Squid!Run(SubSeq(fetched, 1, n))
      BY <1>0, <2>2 DEF TablesAreRuns
    <3>2. After(trail', 0) = Squid!Run(SubSeq(fetched', 1, 0))
      BY <2>3, RunStep DEF After
    <3> QED BY <2>1, <2>3, <3>1, <3>2 DEF TablesAreRuns, After
  <2> QED BY <2>3, <2>6, <2>7
          DEF IInv, TransactionOK, UnloadedIsCurrent, BuiltIsFlushed, NotBehind
<1>7. CASE Restart
  <2>1. /\ EndTransaction /\ index' = NotLoaded /\ built' = 0 /\ failures' = failures + 1
        /\ UNCHANGED <<chain, final, forks, applied, history>>
    BY <1>7 DEF Restart, indexChain, dbVars
  <2>2. /\ pc' = "idle" /\ fetched' \in Seq(Block) /\ fetched' = <<>> /\ head' \in Nat
        /\ trail' = <<>> /\ trail' \in Seq(Tables) /\ Len(trail') = 0 /\ flushed' = 0
        /\ work' \in Tables
    BY <2>1, EndFacts
  <2>3. IndexTypeOK'
    BY <1>0, <2>1, <2>2, NoTablesTyped DEF IndexTypeOK
  <2>4. IndexIsTable'
    BY <2>1, <2>2, <2>3 DEF IndexIsTable, NotLoaded
  <2>5. TablesAreRuns'
    <3>1. After(trail', 0) = Squid!Run(SubSeq(fetched', 1, 0))
      BY <2>2, RunStep DEF After
    <3> QED BY <1>0, <2>1, <2>2, <3>1 DEF TablesAreRuns, After
  <2> QED BY <2>2, <2>4, <2>5
          DEF IInv, TransactionOK, UnloadedIsCurrent, BuiltIsFlushed, NotBehind
<1>8. CASE UNCHANGED indexVars
  BY <1>0, <1>8
     DEF indexVars, indexChain, dbVars, txVars, IInv, IndexIsTable, IndexTypeOK,
         TransactionOK, UnloadedIsCurrent, BuiltIsFlushed, TablesAreRuns, NotBehind, After,
         Current, CallEnd, db
<1> QED BY <1>1, <1>2, <1>3, <1>4, <1>5, <1>6, <1>7, <1>8 DEF IndexNext

LEMMA Invariance == IndexSpec => []IInv
<1>1. IInv /\ [IndexNext]_indexVars => IInv'
  BY NextInvariant
<1> QED BY <1>1, InitInvariant, PTL DEF IndexSpec

\* The index the process keeps across batches is the table wherever a handler
\* may ask it, however the chain forks and the process fails
\* (entityCache.ts:93-101).
THEOREM IndexExact == IndexSpec => []IndexIsTable
<1>1. IInv => IndexIsTable
  BY DEF IInv
<1> QED BY <1>1, Invariance, PTL

-----------------------------------------------------------------------------
(* The refinement. *)

\* A transaction is a fetch when it begins and a commit or an abort when it
\* ends; its calls, blocks and flushes are steps of none.
LEMMA StepImplements ==
  ASSUME IInv, [IndexNext]_indexVars
  PROVE  [Squid!Next]_(Squid!vars)
<1> USE DEF Squid!Next, Squid!vars
<1>1. CASE Grow
  BY <1>1 DEF Grow, Squid!Grow, dbVars, txVars, db, After
<1>2. CASE Finalize
  BY <1>2 DEF Finalize, Squid!Finalize, dbVars, txVars, db, After
<1>3. CASE Fork
  BY <1>3 DEF Fork, Squid!Fork, dbVars, txVars, db, After
<1>4. CASE BeginTransaction
  <2>1. PICK n \in 1 .. Len(chain) : fetched' = SubSeq(chain, 1, n)
    BY <1>4 DEF BeginTransaction
  <2>2. UNCHANGED <<chain, final, forks, applied, db>>
    BY <1>4 DEF BeginTransaction, indexChain, dbVars, db, After
  <2>3. ~ Squid!IsPrefix(fetched', applied)
    BY <1>4, <2>2, BeginInvariant DEF IInv, NotBehind, BeginTransaction
  <2> QED BY <2>1, <2>2, <2>3 DEF Squid!Fetch
<1>5. CASE NewCache \/ HandleBlock \/ Flush \/ UNCHANGED indexVars
  BY <1>5 DEF NewCache, HandleBlock, Flush, indexChain, dbVars, txVars, indexVars, db, After
<1>6. CASE Commit
  <2>1. /\ pc = "commit" /\ applied' = fetched /\ history' = trail /\ fetched' = <<>>
        /\ UNCHANGED <<chain, final, forks>>
    BY <1>6 DEF Commit, EndTransaction, indexChain
  <2>2. Len(trail) = Len(fetched) /\ Len(fetched) \in Nat /\ fetched \in Seq(Block)
    BY <2>1, LenProperties DEF IInv, TransactionOK, IndexIsTable, IndexTypeOK
  <2>3. After(trail, Len(fetched)) = Squid!Run(fetched)
    <3>1. After(trail, Len(fetched)) = Squid!Run(SubSeq(fetched, 1, Len(fetched)))
      BY <2>2 DEF IInv, TablesAreRuns
    <3>2. SubSeq(fetched, 1, Len(fetched)) = fetched
      BY <2>2, RunStep
    <3> QED BY <3>1, <3>2
  <2>4. db' = Squid!Run(fetched)
    BY <2>1, <2>3 DEF db, After
  <2>5. ~ Squid!IsPrefix(fetched, applied)
    BY <2>1 DEF IInv, NotBehind
  <2> QED BY <2>1, <2>4, <2>5 DEF Squid!Commit
<1>7. CASE Restart
  BY <1>7 DEF Restart, EndTransaction, indexChain, dbVars, Squid!Abort, db, After
<1> QED BY <1>1, <1>2, <1>3, <1>4, <1>5, <1>6, <1>7 DEF IndexNext

\* The index is invisible: the squid implements one whose handlers ask the
\* table itself (entityCache.ts:93-101).
THEOREM IndexRefinement == IndexSpec => ImplementsTable
<1>1. IndexInit => Squid!Init
  BY DEF IndexInit, Squid!Init, db, After
<1>2. IInv /\ [IndexNext]_indexVars => [Squid!Next]_(Squid!vars)
  BY StepImplements
<1> QED BY <1>1, <1>2, Invariance, PTL DEF IndexSpec, ImplementsTable, Squid!Spec
=============================================================================
