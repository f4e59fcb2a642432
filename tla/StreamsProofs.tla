---------------------------- MODULE StreamsProofs ----------------------------
(***************************************************************************)
(* Proofs about the squids of MCStreams.  Of MechFees: its five tables      *)
(* agree with each other and with what the trackers owe, for every set of  *)
(* mechs, chains, amounts, prices and days.  Of SpawnStream: whatever the   *)
(* blocks hold and however they are cut into batches and streams, the      *)
(* squid handles what graph-node handles, in its order, and each log once. *)
(***************************************************************************)
EXTENDS SpawnStream, MechFees, SumsProofs, SequenceTheorems

\* A table has as many rows as events made.
Finite ==
  /\ IsFiniteSet(DOMAIN mechTotals) /\ IsFiniteSet(DOMAIN mechModel)
  /\ IsFiniteSet(DOMAIN dailyTotals) /\ IsFiniteSet(DOMAIN mechDaily)
  /\ IsFiniteSet(DOMAIN drainTotals)

FeesInv == FeesAgree /\ Finite

-----------------------------------------------------------------------------
(* Tables. *)

\* A table to which amounts, all numbers, are added.
Adds(t, ids, F, id, amounts, u) ==
  /\ Table(t, ids, F) /\ IsFiniteSet(DOMAIN t) /\ id \in ids
  /\ \A f \in F : amounts[f] \in Nat
  /\ u = AddTo(t, id, amounts, F)

\* The row that gets the amounts, and the others.
Grown(t, ids, F, id, amounts, u) ==
  /\ DOMAIN u = DOMAIN t \cup {id} /\ Table(u, ids, F)
  /\ \A f \in F : u[id][f] = Row(t, id, F)[f] + amounts[f]
  /\ \A x \in DOMAIN t \ {id} : u[x] = t[x]
  /\ IsFiniteSet(DOMAIN u)

LEMMA Added ==
  ASSUME NEW t, NEW ids, NEW F, NEW id, NEW amounts, NEW u, Adds(t, ids, F, id, amounts, u)
  PROVE  Grown(t, ids, F, id, amounts, u)
<1> DEFINE old == Row(t, id, F)
<1>1. old \in [F -> Nat]
  BY DEF Adds, Table, Row, Empty
<1>2. /\ DOMAIN u = DOMAIN t \cup {id}
      /\ u[id] = [f \in F |-> old[f] + amounts[f]]
      /\ \A x \in DOMAIN t \ {id} : u[x] = t[x]
      /\ u = [x \in DOMAIN u |-> u[x]]
  BY DEF Adds, AddTo, Row
<1>3. u[id] \in [F -> Nat]
  <2> HIDE DEF old
  <2> QED BY <1>1, <1>2 DEF Adds
<1>4. \A x \in DOMAIN t : t[x] \in [F -> Nat]
  BY DEF Adds, Table
<1>5. \A x \in DOMAIN u : u[x] \in [F -> Nat]
  BY <1>2, <1>3, <1>4
<1>6. Table(u, ids, F)
  BY <1>2, <1>5 DEF Adds, Table
<1>7. IsFiniteSet(DOMAIN u)
  BY <1>2, FS_AddElement DEF Adds
<1> QED BY <1>2, <1>6, <1>7 DEF Grown

\* A column of the table, summed over ids among which the row is, or is not.
SumGrown(t, id, amounts, u, f, S) ==
  /\ (id \in DOMAIN t => id \in S) =>
       Total(Column(u, f), S \cup {id}) = Total(Column(t, f), S) + amounts[f]
  /\ id \notin S => Total(Column(u, f), S) = Total(Column(t, f), S)
  /\ Total(Column(t, f), S) \in Int

LEMMA SumAdds ==
  ASSUME NEW t, NEW ids, NEW F, NEW id, NEW amounts, NEW u, Adds(t, ids, F, id, amounts, u),
         NEW f \in F, NEW S \in SUBSET DOMAIN t
  PROVE  SumGrown(t, id, amounts, u, f, S)
<1> DEFINE before == Column(t, f)
           after == Column(u, f)
<1>1. /\ DOMAIN u = DOMAIN t \cup {id} /\ Table(u, ids, F)
      /\ u[id][f] = Row(t, id, F)[f] + amounts[f]
      /\ \A x \in DOMAIN t \ {id} : u[x] = t[x]
  <2>1. Grown(t, ids, F, id, amounts, u)
    BY Added
  <2> QED BY <2>1 DEF Grown
<1>2. IsFiniteSet(S) /\ IsFiniteSet(S \cup {id})
  BY FS_Subset, FS_AddElement DEF Adds
<1>3. /\ \A x \in DOMAIN t : before[x] = t[x][f] /\ t[x][f] \in Nat
      /\ \A x \in DOMAIN u : after[x] = u[x][f] /\ u[x][f] \in Nat
  BY <1>1 DEF Adds, Column, Table
<1>4. /\ \A x \in S : before[x] \in Int
      /\ \A x \in S \cup {id} : after[x] \in Int
      /\ \A x \in S \ {id} : before[x] = after[x]
      /\ after[id] = Row(t, id, F)[f] + amounts[f]
      /\ id \in DOMAIN t => Row(t, id, F)[f] = before[id]
      /\ id \notin DOMAIN t => Row(t, id, F)[f] = 0
      /\ amounts[f] \in Int
  BY <1>1, <1>3 DEF Adds, Row, Empty
<1> HIDE DEF before, after
<1>5. Total(before, S) \in Int
  BY <1>2, <1>4, SumTyped
<1>6. ASSUME id \notin S PROVE Total(after, S) = Total(before, S)
  <2>1. \A x \in S : before[x] = after[x]
    BY <1>4, <1>6
  <2> QED BY <1>2, <2>1, SumSame
<1>7. CASE id \in S
  <2>1. S \cup {id} = S /\ \A x \in S : before[x] \in Int /\ after[x] \in Int
    BY <1>4, <1>7
  <2>2. Total(after, S) = Total(before, S) + (after[id] - before[id])
    BY <1>2, <1>4, <1>7, <2>1, SumChange
  <2>3. after[id] - before[id] = amounts[f]
    BY <1>4, <1>7
  <2> QED BY <1>5, <1>7, <2>1, <2>2, <2>3 DEF before, after, SumGrown
<1>8. CASE id \notin S
  <2>1. (S \cup {id}) \ {id} = S
    BY <1>8
  <2>2. Total(after, S \cup {id}) = after[id] + Total(after, (S \cup {id}) \ {id})
    BY <1>2, <1>4, SumSplit
  <2>3. id \notin DOMAIN t => after[id] = amounts[f]
    BY <1>4
  <2>4. Total(after, S) = Total(before, S)
    BY <1>6, <1>8
  <2>5. (id \in DOMAIN t => id \in S) => Total(after, S \cup {id}) = Total(before, S) + amounts[f]
    <3> SUFFICES ASSUME id \notin DOMAIN t
                 PROVE  Total(after, S \cup {id}) = Total(before, S) + amounts[f]
      BY <1>8
    <3>1. Total(after, S \cup {id}) = amounts[f] + Total(before, S)
      BY <2>1, <2>2, <2>3, <2>4
    <3> HIDE DEF before, after
    <3>2. amounts[f] \in Int /\ Total(before, S) \in Int
      BY <1>4, <1>5
    <3> QED BY <3>1, <3>2
  <2> QED BY <1>5, <2>4, <2>5 DEF before, after, SumGrown
<1> QED BY <1>7, <1>8

\* Of the whole table, and of a mech's rows.
LEMMA AllAdds ==
  ASSUME NEW t, NEW ids, NEW F, NEW id, NEW amounts, NEW u, Adds(t, ids, F, id, amounts, u),
         NEW f \in F
  PROVE  Total(Column(u, f), DOMAIN u) = Total(Column(t, f), DOMAIN t) + amounts[f]
<1>1. Grown(t, ids, F, id, amounts, u)
  BY Added
<1>2. DOMAIN u = DOMAIN t \cup {id}
  BY <1>1 DEF Grown
<1>3. SumGrown(t, id, amounts, u, f, DOMAIN t)
  BY SumAdds
<1> QED BY <1>2, <1>3 DEF SumGrown

LEMMA MechAdds ==
  ASSUME NEW t, NEW ids, NEW F, NEW id, NEW amounts, NEW u, Adds(t, ids, F, id, amounts, u),
         NEW f \in F, NEW m
  PROVE  Total(Column(u, f), OfMech(u, m))
           = Total(Column(t, f), OfMech(t, m)) + IF id[1] = m THEN amounts[f] ELSE 0
<1>1. Grown(t, ids, F, id, amounts, u)
  BY Added
<1>2. DOMAIN u = DOMAIN t \cup {id}
  BY <1>1 DEF Grown
<1>3. OfMech(t, m) \in SUBSET DOMAIN t
  BY DEF OfMech
<1>4. SumGrown(t, id, amounts, u, f, OfMech(t, m))
  BY <1>3, SumAdds
<1>5. CASE id[1] = m
  <2>1. /\ OfMech(u, m) = OfMech(t, m) \cup {id}
        /\ id \in DOMAIN t => id \in OfMech(t, m)
    BY <1>2, <1>5 DEF OfMech
  <2> QED BY <1>4, <1>5, <2>1 DEF SumGrown
<1>6. CASE id[1] # m
  <2>1. OfMech(u, m) = OfMech(t, m) /\ id \notin OfMech(t, m)
    BY <1>2, <1>6 DEF OfMech
  <2> QED BY <1>4, <1>6, <2>1 DEF SumGrown
<1> QED BY <1>5, <1>6

\* A row after its table grew.
LEMMA RowGrown ==
  ASSUME NEW t, NEW ids, NEW F, NEW id, NEW amounts, NEW u, Adds(t, ids, F, id, amounts, u),
         NEW f \in F, NEW x
  PROVE  /\ Row(u, x, F)[f] = Row(t, x, F)[f] + IF x = id THEN amounts[f] ELSE 0
         /\ Row(t, x, F)[f] \in Nat
<1>1. Grown(t, ids, F, id, amounts, u)
  BY Added
<1>2. Row(t, x, F)[f] \in Nat
  BY DEF Adds, Table, Row, Empty
<1>3. CASE x = id
  <2>1. id \in DOMAIN u /\ u[id][f] = Row(t, id, F)[f] + amounts[f]
    BY <1>1 DEF Grown
  <2>2. Row(u, id, F) = u[id]
    BY <2>1 DEF Row
  <2> QED BY <1>2, <1>3, <2>1, <2>2
<1>4. CASE x # id
  <2>1. Row(u, x, F) = Row(t, x, F)
    BY <1>1, <1>4 DEF Grown, Row
  <2> QED BY <1>2, <1>4, <2>1
<1> QED BY <1>2, <1>3, <1>4

-----------------------------------------------------------------------------
(* An event of a mech. *)

\* The amounts of an event are numbers, and each column gets one of them or nothing.
LEMMA PartsTyped ==
  ASSUME NEW type, NEW usd \in Nat, NEW raw \in Nat
  PROVE  LET sums == FeeParts(type, usd, raw) IN
         /\ \A f \in SumFields : sums[f] \in Nat
         /\ DayFields \subseteq SumFields
         /\ usd = 0 => \A f \in DayFields : sums[f] = 0
         /\ usd = 0 /\ raw = 0 => \A f \in SumFields : sums[f] = 0
BY DEF FeeParts, SumFields, DayFields

\* What recordFeeIn and recordFeeOut do: all sums grow by the same.
LEMMA RecordKeeps ==
  ASSUME FeesInv, NEW type \in Types, NEW k \in Models, NEW m \in FeeMechs,
         NEW raw \in Nat, NEW usd \in Nat, Record(type, k, m, raw, usd), feeDay' \in 1 .. FeeDays
  PROVE  /\ feeGlobal' \in [GlobalFields -> Nat]
         /\ \A f \in GlobalFields \ DayFields : feeGlobal'[f] = feeGlobal[f]
         /\ Table(mechTotals', FeeMechs, SumFields)
         /\ Table(mechModel', FeeMechs \X Models, SumFields)
         /\ Table(dailyTotals', 1 .. FeeDays, DayFields)
         /\ Table(mechDaily', FeeMechs \X (1 .. FeeDays), SumFields)
         /\ Table(transactions', FeeMechs \X Models \X Types, AmountFields)
         /\ IsFiniteSet(DOMAIN mechTotals') /\ IsFiniteSet(DOMAIN mechModel')
         /\ IsFiniteSet(DOMAIN dailyTotals') /\ IsFiniteSet(DOMAIN mechDaily')
         /\ MechSums' /\ GlobalSums'
         /\ \A x : \A f \in SumFields :
              /\ Row(mechModel', x, SumFields)[f]
                   = Row(mechModel, x, SumFields)[f]
                       + IF x = <<m, k>> THEN FeeParts(type, usd, raw)[f] ELSE 0
              /\ Row(mechModel, x, SumFields)[f] \in Nat
<1> DEFINE sums == FeeParts(type, usd, raw)
<1>1. /\ \A f \in SumFields : sums[f] \in Nat
      /\ \A f \in DayFields : sums[f] \in Nat
      /\ usd = 0 => \A f \in DayFields : sums[f] = 0
      /\ usd = 0 /\ raw = 0 => \A f \in SumFields : sums[f] = 0
  BY PartsTyped
<1>2. /\ feeGlobal' = [feeGlobal EXCEPT !.inUsd = @ + sums.inUsd, !.outUsd = @ + sums.outUsd]
      /\ mechTotals' = AddTo(mechTotals, m, sums, SumFields)
      /\ mechModel' = AddTo(mechModel, <<m, k>>, sums, SumFields)
      /\ dailyTotals' = IF usd > 0 THEN AddTo(dailyTotals, feeDay', sums, DayFields)
                        ELSE dailyTotals
      /\ mechDaily' = IF usd > 0 \/ raw > 0
                      THEN AddTo(mechDaily, <<m, feeDay'>>, sums, SumFields) ELSE mechDaily
      /\ transactions' = AddTo(transactions, <<m, k, type>>, [usd |-> usd, raw |-> raw],
                               AmountFields)
  BY DEF Record, MechDailyAdds
<1>3. /\ feeGlobal \in [GlobalFields -> Nat]
      /\ Table(mechTotals, FeeMechs, SumFields) /\ Table(mechModel, FeeMechs \X Models, SumFields)
      /\ Table(dailyTotals, 1 .. FeeDays, DayFields)
      /\ Table(mechDaily, FeeMechs \X (1 .. FeeDays), SumFields)
      /\ Table(transactions, FeeMechs \X Models \X Types, AmountFields)
      /\ MechSums /\ GlobalSums /\ Finite
  BY DEF FeesInv, FeesAgree, FeeTypeOK
<1> HIDE DEF sums
<1>4. /\ feeGlobal' \in [GlobalFields -> Nat]
      /\ \A f \in DayFields : feeGlobal'[f] = feeGlobal[f] + sums[f]
      /\ \A f \in GlobalFields \ DayFields : feeGlobal'[f] = feeGlobal[f]
  <2>1. /\ feeGlobal'["inUsd"] = feeGlobal["inUsd"] + sums["inUsd"]
        /\ feeGlobal'["outUsd"] = feeGlobal["outUsd"] + sums["outUsd"]
        /\ \A f \in GlobalFields \ {"inUsd", "outUsd"} : feeGlobal'[f] = feeGlobal[f]
        /\ feeGlobal' = [f \in GlobalFields |-> feeGlobal'[f]]
    BY <1>2, <1>3 DEF GlobalFields, DayFields
  <2>2. \A f \in GlobalFields : feeGlobal'[f] \in Nat
    BY <1>1, <1>3, <2>1 DEF SumFields
  <2>3. feeGlobal' \in [GlobalFields -> Nat]
    BY <2>1, <2>2
  <2>4. \A f \in DayFields : feeGlobal'[f] = feeGlobal[f] + sums[f]
    BY <2>1 DEF DayFields
  <2>5. \A f \in GlobalFields \ DayFields : feeGlobal'[f] = feeGlobal[f]
    BY <2>1 DEF DayFields
  <2> QED BY <2>3, <2>4, <2>5
<1>5. Adds(mechTotals, FeeMechs, SumFields, m, sums, mechTotals')
  BY <1>1, <1>2, <1>3 DEF Adds, Finite
<1>6. Adds(mechModel, FeeMechs \X Models, SumFields, <<m, k>>, sums, mechModel')
  BY <1>1, <1>2, <1>3 DEF Adds, Finite
<1>7. usd > 0 => Adds(dailyTotals, 1 .. FeeDays, DayFields, feeDay', sums, dailyTotals')
  BY <1>1, <1>2, <1>3 DEF Adds, Finite
<1>8. usd > 0 \/ raw > 0 =>
        Adds(mechDaily, FeeMechs \X (1 .. FeeDays), SumFields, <<m, feeDay'>>, sums, mechDaily')
  BY <1>1, <1>2, <1>3 DEF Adds, Finite
<1>9. /\ Grown(mechTotals, FeeMechs, SumFields, m, sums, mechTotals')
      /\ Grown(mechModel, FeeMechs \X Models, SumFields, <<m, k>>, sums, mechModel')
      /\ usd > 0 => Grown(dailyTotals, 1 .. FeeDays, DayFields, feeDay', sums, dailyTotals')
      /\ usd > 0 \/ raw > 0 =>
           Grown(mechDaily, FeeMechs \X (1 .. FeeDays), SumFields, <<m, feeDay'>>, sums, mechDaily')
  BY <1>5, <1>6, <1>7, <1>8, Added
<1>10. /\ Table(mechTotals', FeeMechs, SumFields) /\ IsFiniteSet(DOMAIN mechTotals')
       /\ Table(mechModel', FeeMechs \X Models, SumFields) /\ IsFiniteSet(DOMAIN mechModel')
  BY <1>9 DEF Grown
<1>11. Table(dailyTotals', 1 .. FeeDays, DayFields) /\ IsFiniteSet(DOMAIN dailyTotals')
  BY <1>2, <1>3, <1>9 DEF Grown, Finite
<1>12. /\ Table(mechDaily', FeeMechs \X (1 .. FeeDays), SumFields)
       /\ IsFiniteSet(DOMAIN mechDaily')
  BY <1>2, <1>3, <1>9 DEF Grown, Finite
<1>13. Table(transactions', FeeMechs \X Models \X Types, AmountFields)
  <2> DEFINE amounts == [usd |-> usd, raw |-> raw]
  <2>1. \A f \in AmountFields : amounts[f] \in Nat
    BY DEF AmountFields
  <2>2. \A x \in DOMAIN transactions' : transactions'[x] \in [AmountFields -> Nat]
    <3> HIDE DEF amounts
    <3> SUFFICES ASSUME NEW x \in DOMAIN transactions' PROVE transactions'[x] \in [AmountFields -> Nat]
      OBVIOUS
    <3>1. Row(transactions, x, AmountFields) \in [AmountFields -> Nat]
      BY <1>3 DEF Table, Row, Empty
    <3>2. \/ transactions'[x] = transactions[x] /\ x \in DOMAIN transactions
          \/ transactions'[x] = [f \in AmountFields |-> Row(transactions, x, AmountFields)[f] + amounts[f]]
      BY <1>2 DEF AddTo, Row, amounts
    <3> QED BY <1>3, <2>1, <3>1, <3>2 DEF Table
  <2>3. /\ DOMAIN transactions' = DOMAIN transactions \cup {<<m, k, type>>}
        /\ transactions' = [x \in DOMAIN transactions' |-> transactions'[x]]
    BY <1>2 DEF AddTo
  <2> QED BY <1>3, <2>2, <2>3 DEF Table
<1>14. \A f \in DayFields :
         Total(Column(dailyTotals', f), DOMAIN dailyTotals')
           = Total(Column(dailyTotals, f), DOMAIN dailyTotals) + sums[f]
  <2>1. CASE usd > 0
    BY <1>7, <2>1, AllAdds
  <2>2. CASE usd = 0
    BY <1>1, <1>2, <1>3, <2>2 DEF GlobalSums, GlobalFields, DayFields
  <2> QED BY <2>1, <2>2
<1>15. \A n \in FeeMechs, f \in SumFields :
         /\ Row(mechTotals, n, SumFields)[f] \in Nat
         /\ Row(mechTotals', n, SumFields)[f]
              = Row(mechTotals, n, SumFields)[f] + IF n = m THEN sums[f] ELSE 0
  <2> SUFFICES ASSUME NEW n \in FeeMechs, NEW f \in SumFields
               PROVE  /\ Row(mechTotals, n, SumFields)[f] \in Nat
                      /\ Row(mechTotals', n, SumFields)[f]
                           = Row(mechTotals, n, SumFields)[f] + IF n = m THEN sums[f] ELSE 0
    OBVIOUS
  <2> QED BY <1>5, RowGrown
<1>16. \A n \in FeeMechs, f \in SumFields :
         Total(Column(mechModel', f), OfMech(mechModel', n))
           = Total(Column(mechModel, f), OfMech(mechModel, n)) + IF n = m THEN sums[f] ELSE 0
  <2> SUFFICES ASSUME NEW n \in FeeMechs, NEW f \in SumFields
               PROVE  Total(Column(mechModel', f), OfMech(mechModel', n))
                        = Total(Column(mechModel, f), OfMech(mechModel, n))
                            + IF n = m THEN sums[f] ELSE 0
    OBVIOUS
  <2>1. Total(Column(mechModel', f), OfMech(mechModel', n))
          = Total(Column(mechModel, f), OfMech(mechModel, n))
              + IF <<m, k>>[1] = n THEN sums[f] ELSE 0
    BY <1>6, MechAdds
  <2>2. <<m, k>>[1] = m
    OBVIOUS
  <2> QED BY <2>1, <2>2
<1>17. \A n \in FeeMechs, f \in SumFields :
         Total(Column(mechDaily', f), OfMech(mechDaily', n))
           = Total(Column(mechDaily, f), OfMech(mechDaily, n)) + IF n = m THEN sums[f] ELSE 0
  <2> SUFFICES ASSUME NEW n \in FeeMechs, NEW f \in SumFields
               PROVE  Total(Column(mechDaily', f), OfMech(mechDaily', n))
                        = Total(Column(mechDaily, f), OfMech(mechDaily, n))
                            + IF n = m THEN sums[f] ELSE 0
    OBVIOUS
  <2>1. CASE usd > 0 \/ raw > 0
    <3>1. Total(Column(mechDaily', f), OfMech(mechDaily', n))
            = Total(Column(mechDaily, f), OfMech(mechDaily, n))
                + IF <<m, feeDay'>>[1] = n THEN sums[f] ELSE 0
      BY <1>8, <2>1, MechAdds
    <3>2. <<m, feeDay'>>[1] = m
      OBVIOUS
    <3> QED BY <3>1, <3>2
  <2>2. CASE usd = 0 /\ raw = 0
    <3>1. mechDaily' = mechDaily /\ sums[f] = 0
      BY <1>1, <1>2, <2>2
    <3>2. Total(Column(mechDaily, f), OfMech(mechDaily, n)) \in Nat
      BY <1>3, <1>15 DEF MechSums
    <3> QED BY <3>1, <3>2
  <2> QED BY <2>1, <2>2
<1>18. MechSums'
  <2> SUFFICES ASSUME NEW n \in FeeMechs, NEW f \in SumFields
               PROVE  /\ Row(mechTotals', n, SumFields)[f]
                           = Total(Column(mechModel', f), OfMech(mechModel', n))
                      /\ Row(mechTotals', n, SumFields)[f]
                           = Total(Column(mechDaily', f), OfMech(mechDaily', n))
    BY DEF MechSums
  <2>1. /\ Row(mechTotals, n, SumFields)[f] = Total(Column(mechModel, f), OfMech(mechModel, n))
        /\ Row(mechTotals, n, SumFields)[f] = Total(Column(mechDaily, f), OfMech(mechDaily, n))
    BY <1>3 DEF MechSums
  <2>2. Row(mechTotals', n, SumFields)[f] = Total(Column(mechModel', f), OfMech(mechModel', n))
    BY <1>15, <1>16, <2>1, ZenonT(60)
  <2>3. Row(mechTotals', n, SumFields)[f] = Total(Column(mechDaily', f), OfMech(mechDaily', n))
    BY <1>15, <1>17, <2>1, ZenonT(60)
  <2> QED BY <2>2, <2>3
<1>19. GlobalSums'
  <2> SUFFICES ASSUME NEW f \in DayFields
               PROVE  /\ feeGlobal'[f] = Total(Column(mechTotals', f), DOMAIN mechTotals')
                      /\ feeGlobal'[f] = Total(Column(dailyTotals', f), DOMAIN dailyTotals')
    BY DEF GlobalSums
  <2>1. /\ feeGlobal[f] = Total(Column(mechTotals, f), DOMAIN mechTotals)
        /\ feeGlobal[f] = Total(Column(dailyTotals, f), DOMAIN dailyTotals)
    BY <1>3 DEF GlobalSums
  <2>2. f \in SumFields
    BY DEF DayFields, SumFields
  <2>3. Total(Column(mechTotals', f), DOMAIN mechTotals')
          = Total(Column(mechTotals, f), DOMAIN mechTotals) + sums[f]
    BY <1>5, <2>2, AllAdds
  <2> QED BY <1>4, <1>14, <2>1, <2>3
<1>20. \A x : \A f \in SumFields :
         /\ Row(mechModel', x, SumFields)[f]
              = Row(mechModel, x, SumFields)[f] + IF x = <<m, k>> THEN sums[f] ELSE 0
         /\ Row(mechModel, x, SumFields)[f] \in Nat
  <2> SUFFICES ASSUME NEW x, NEW f \in SumFields
               PROVE  /\ Row(mechModel', x, SumFields)[f]
                           = Row(mechModel, x, SumFields)[f] + IF x = <<m, k>> THEN sums[f] ELSE 0
                      /\ Row(mechModel, x, SumFields)[f] \in Nat
    OBVIOUS
  <2> QED BY <1>6, RowGrown
<1> QED BY <1>4, <1>10, <1>11, <1>12, <1>13, <1>18, <1>19, <1>20 DEF sums
-----------------------------------------------------------------------------
(* Prices. *)

\* An amount comes to a number, or to nothing.
LEMMA PricesTyped ==
  ASSUME FeeTypeOK, MechFeesAssumption, NEW k \in Models, NEW amount \in Nat
  PROVE  /\ NativeToUsd(amount) \subseteq Nat \cup {NoneF}
         /\ OlasToUsd(amount) \subseteq Nat \cup {NoneF}
         /\ PriceFeeIn(k, amount) \subseteq Nat \cup {NoneF}
         /\ PriceFeeOut(k, amount) \subseteq Nat \cup {NoneF}
<1>1. /\ amount * NvmRatio \in Nat
      /\ \A p \in FeePrices : amount * NvmRatio * p \in Nat
  BY DEF MechFeesAssumption
<1> DEFINE worth == amount * NvmRatio
<1>2. worth \in Nat /\ \A p \in FeePrices : worth * p \in Nat
  BY <1>1
<1>3. NativeToUsd(amount) \subseteq Nat \cup {NoneF}
  <2> HIDE DEF worth
  <2>1. NativeToUsd(amount) = IF feeChain.feed THEN {NoneF} \cup {worth * p : p \in FeePrices} ELSE {worth}
    BY DEF NativeToUsd, worth
  <2> QED BY <1>2, <2>1
<1>4. OlasToUsd(amount) \subseteq Nat \cup {NoneF}
  <2> HIDE DEF worth
  <2>1. feeChain.olas \in {"none", "stable", "native"}
    BY DEF FeeTypeOK, MechFeesAssumption
  <2>2. OlasToUsd(amount) \subseteq {0, NoneF} \cup {worth * p : p \in FeePrices}
    BY <2>1 DEF OlasToUsd, worth
  <2> QED BY <1>2, <2>2
<1>5. UsdcToUsd(amount) \in Nat /\ NvmCreditsToUsd(amount) \subseteq Nat \cup {NoneF}
  BY <1>1 DEF UsdcToUsd, NvmCreditsToUsd
<1>6. OrZero(OlasToUsd(amount)) \subseteq Nat
  BY <1>4 DEF OrZero
<1>7. PriceFeeIn(k, amount) \subseteq Nat \cup {NoneF}
  <2>1. CASE k = "native"
    BY <1>3, <2>1 DEF PriceFeeIn
  <2>2. CASE k = "token-usdc"
    BY <1>5, <2>2 DEF PriceFeeIn
  <2>3. CASE k = "nvm"
    BY <1>5, <2>3 DEF PriceFeeIn
  <2>4. CASE k = "token-olas"
    BY <1>6, <2>4 DEF PriceFeeIn
  <2> QED BY <2>1, <2>2, <2>3, <2>4 DEF Models
<1>8. PriceFeeOut(k, amount) \subseteq Nat \cup {NoneF}
  BY <1>3, <1>5, <1>7 DEF PriceFeeOut
<1> QED BY <1>3, <1>4, <1>7, <1>8

\* What a drain comes to is a number.
LEMMA DrainPriced ==
  ASSUME FeeTypeOK, MechFeesAssumption, NEW amount \in Nat
  PROVE  /\ OrZero(NativeToUsd(amount)) \subseteq Nat
         /\ OrZero(NvmCreditsToUsd(amount)) \subseteq Nat
         /\ OrZero(OlasToUsd(amount)) \subseteq Nat
         /\ UsdcToUsd(amount) \in Nat
<1>1. /\ NativeToUsd(amount) \subseteq Nat \cup {NoneF}
      /\ OlasToUsd(amount) \subseteq Nat \cup {NoneF}
  <2>1. "native" \in Models
    BY DEF Models
  <2> QED BY <2>1, PricesTyped
<1>2. NvmCreditsToUsd(amount) \subseteq Nat \cup {NoneF}
  BY DEF NvmCreditsToUsd
<1>3. UsdcToUsd(amount) \in Nat
  BY DEF UsdcToUsd, MechFeesAssumption
<1> QED BY <1>1, <1>2, <1>3 DEF OrZero

-----------------------------------------------------------------------------
(* The handlers. *)

LEMMA FeesStart ==
  ASSUME MechFeesAssumption, FeeInit
  PROVE  FeesInv
<1>1. FeeTypeOK
  BY DEF FeeInit, FeeTypeOK, MechFeesAssumption, Empty, Table
<1>2. Finite
  BY FS_EmptySet DEF FeeInit, Finite
<1>3. \A t : t = <<>> =>
        /\ \A f : Total(Column(t, f), DOMAIN t) = 0
        /\ \A f, m : Total(Column(t, f), OfMech(t, m)) = 0
        /\ \A x, F : Row(t, x, F) = Empty(F)
  <2> SUFFICES ASSUME NEW t, t = <<>>
               PROVE  /\ \A f : Total(Column(t, f), DOMAIN t) = 0
                      /\ \A f, m : Total(Column(t, f), OfMech(t, m)) = 0
                      /\ \A x, F : Row(t, x, F) = Empty(F)
    OBVIOUS
  <2>1. DOMAIN t = {} /\ \A m : OfMech(t, m) = {}
    BY DEF OfMech
  <2>2. \A g : Total(g, {}) = 0
    BY FS_EmptySet, SumRecurs
  <2> QED BY <2>1, <2>2 DEF Row
<1>4. MechSums
  BY <1>3 DEF MechSums, FeeInit, Empty
<1>5. GlobalSums
  BY <1>3 DEF GlobalSums, FeeInit, Empty, GlobalFields
<1>6. DrainSums
  BY <1>3 DEF DrainSums, FeeInit, Empty, GlobalFields, AmountFields
<1>7. OwedIsEarnedNotCollected
  BY <1>3 DEF OwedIsEarnedNotCollected, FeeInit, Empty, SumFields
<1> QED BY <1>1, <1>2, <1>4, <1>5, <1>6, <1>7 DEF FeesInv, FeesAgree

\* An event moves what a tracker owes a mech, or what was dropped of it, within bounds.
Moved ==
  /\ feeChain' = feeChain /\ feeDay' \in 1 .. FeeDays /\ feeEvents' \in 0 .. MaxFeeEvents
  /\ owed' \in [FeeMechs \X Models -> Nat] /\ collected' \in [Models -> Nat]
  /\ dropped' \in [FeeMechs \X Models -> Int]

LEMMA LogMoves ==
  ASSUME FeeTypeOK, MechFeesAssumption, NEW d \in 1 .. FeeDays, FeeLog(d)
  PROVE  feeDay' \in 1 .. FeeDays /\ feeEvents' \in 0 .. MaxFeeEvents
BY DEF FeeTypeOK, MechFeesAssumption, FeeLog

\* An event that is recorded: the tracker's debt moves by what the tables get.
LEMMA RecordedKeeps ==
  ASSUME FeesInv, NEW type \in Types, NEW k \in Models, NEW m \in FeeMechs,
         NEW raw \in Nat, NEW usd \in Nat, Record(type, k, m, raw, usd), Moved,
         drainTotals' = drainTotals, dropped' = dropped,
         owed'[<<m, k>>] = IF type = "FEE_IN" THEN owed[<<m, k>>] + raw ELSE owed[<<m, k>>] - raw,
         \A x \in FeeMechs \X Models : x # <<m, k>> => owed'[x] = owed[x]
  PROVE  FeesInv'
<1> DEFINE sums == FeeParts(type, usd, raw)
<1>1. /\ feeGlobal' \in [GlobalFields -> Nat]
      /\ \A f \in GlobalFields \ DayFields : feeGlobal'[f] = feeGlobal[f]
      /\ Table(mechTotals', FeeMechs, SumFields)
      /\ Table(mechModel', FeeMechs \X Models, SumFields)
      /\ Table(dailyTotals', 1 .. FeeDays, DayFields)
      /\ Table(mechDaily', FeeMechs \X (1 .. FeeDays), SumFields)
      /\ Table(transactions', FeeMechs \X Models \X Types, AmountFields)
      /\ IsFiniteSet(DOMAIN mechTotals') /\ IsFiniteSet(DOMAIN mechModel')
      /\ IsFiniteSet(DOMAIN dailyTotals') /\ IsFiniteSet(DOMAIN mechDaily')
      /\ MechSums' /\ GlobalSums'
      /\ \A x : \A f \in SumFields :
           /\ Row(mechModel', x, SumFields)[f]
                = Row(mechModel, x, SumFields)[f] + IF x = <<m, k>> THEN sums[f] ELSE 0
           /\ Row(mechModel, x, SumFields)[f] \in Nat
  BY RecordKeeps DEF Moved
<1>2. FeeTypeOK'
  BY <1>1 DEF FeesInv, FeesAgree, FeeTypeOK, Moved
<1>3. Finite'
  BY <1>1 DEF FeesInv, Finite
<1>4. DrainSums'
  <2>1. \A f \in {"drainedUsd", "burnedUsd", "burnedRaw"} : feeGlobal'[f] = feeGlobal[f]
    BY <1>1 DEF GlobalFields, DayFields
  <2> QED BY <2>1 DEF DrainSums, FeesInv, FeesAgree
<1>5. OwedIsEarnedNotCollected'
  <2> SUFFICES ASSUME NEW n \in FeeMechs, NEW l \in Models
               PROVE  Row(mechModel', <<n, l>>, SumFields)["inRaw"]
                        - Row(mechModel', <<n, l>>, SumFields)["outRaw"]
                        = owed'[<<n, l>>] + dropped'[<<n, l>>]
    BY DEF OwedIsEarnedNotCollected
  <2> DEFINE x == <<n, l>>
             in == Row(mechModel, x, SumFields)["inRaw"]
             out == Row(mechModel, x, SumFields)["outRaw"]
             o == owed[x]
             e == dropped[x]
  <2>1. /\ in \in Nat /\ out \in Nat /\ o \in Nat /\ e \in Int /\ dropped'[x] = e
        /\ in - out = o + e
    BY <1>1 DEF SumFields, FeesInv, FeesAgree, FeeTypeOK, OwedIsEarnedNotCollected
  <2>2. CASE x # <<m, k>>
    <3>1. /\ Row(mechModel', x, SumFields)["inRaw"] = in + 0
          /\ Row(mechModel', x, SumFields)["outRaw"] = out + 0
      BY <1>1, <2>2 DEF SumFields
    <3>2. owed'[x] = o
      BY <2>2
    <3> HIDE DEF x, in, out, o, e
    <3>3. /\ Row(mechModel', x, SumFields)["inRaw"] - Row(mechModel', x, SumFields)["outRaw"]
               = owed'[x] + dropped'[x]
      BY <2>1, <3>1, <3>2
    <3> QED BY <3>3 DEF x
  <2>3. CASE x = <<m, k>>
    <3>1. /\ Row(mechModel', x, SumFields)["inRaw"] = in + sums["inRaw"]
          /\ Row(mechModel', x, SumFields)["outRaw"] = out + sums["outRaw"]
      BY <1>1, <2>3 DEF SumFields
    <3>2. /\ sums["inRaw"] = IF type = "FEE_IN" THEN raw ELSE 0
          /\ sums["outRaw"] = IF type = "FEE_IN" THEN 0 ELSE raw
      BY DEF FeeParts
    <3>3. owed'[x] = IF type = "FEE_IN" THEN o + raw ELSE o - raw
      BY <2>3
    <3> HIDE DEF x, in, out, o, e, sums
    <3>4. /\ Row(mechModel', x, SumFields)["inRaw"] - Row(mechModel', x, SumFields)["outRaw"]
               = owed'[x] + dropped'[x]
      BY <2>1, <3>1, <3>2, <3>3
    <3> QED BY <3>4 DEF x
  <2> QED BY <2>2, <2>3
<1> QED BY <1>1, <1>2, <1>3, <1>4, <1>5 DEF FeesInv, FeesAgree

\* An event that is skipped: what the tracker's debt moves by is dropped.
LEMMA SkippedKeeps ==
  ASSUME FeesInv, Moved, NEW x \in FeeMechs \X Models, UNCHANGED feeTables,
         owed'[x] + dropped'[x] = owed[x] + dropped[x],
         \A y \in FeeMechs \X Models : y # x => owed'[y] = owed[y] /\ dropped'[y] = dropped[y]
  PROVE  FeesInv'
<1>1. FeeTypeOK' /\ MechSums' /\ GlobalSums' /\ DrainSums' /\ Finite'
  BY DEF FeesInv, FeesAgree, FeeTypeOK, Moved, feeTables, MechSums, GlobalSums, DrainSums, Finite
<1>2. \A y \in FeeMechs \X Models : owed'[y] + dropped'[y] = owed[y] + dropped[y]
  OBVIOUS
<1>3. mechModel' = mechModel
  BY DEF feeTables
<1>4. OwedIsEarnedNotCollected'
  BY <1>2, <1>3 DEF FeesInv, FeesAgree, OwedIsEarnedNotCollected
<1> QED BY <1>1, <1>4 DEF FeesInv, FeesAgree

LEMMA BalanceAdjusted ==
  ASSUME FeesInv, MechFeesAssumption, HandleMechBalanceAdjusted
  PROVE  FeesInv'
<1>1. PICK m \in FeeMechs, k \in feeChain.trackers, amount \in FeeAmounts, d \in 1 .. FeeDays :
        \E usd \in PriceFeeIn(k, amount) :
          /\ FeeLog(d)
          /\ owed' = [owed EXCEPT ![<<m, k>>] = @ + amount]
          /\ collected' = [collected EXCEPT ![k] = @ + 1]
          /\ IF usd = NoneF
             THEN /\ dropped' = [dropped EXCEPT ![<<m, k>>] = @ - amount]
                  /\ UNCHANGED <<feeGlobal, mechTotals, mechModel, dailyTotals, mechDaily,
                                 transactions>>
             ELSE /\ Record("FEE_IN", k, m, amount, usd)
                  /\ UNCHANGED dropped
          /\ UNCHANGED <<feeChain, drainTotals>>
  BY DEF HandleMechBalanceAdjusted
<1>2. PICK usd \in PriceFeeIn(k, amount) :
          /\ FeeLog(d)
          /\ owed' = [owed EXCEPT ![<<m, k>>] = @ + amount]
          /\ collected' = [collected EXCEPT ![k] = @ + 1]
          /\ IF usd = NoneF
             THEN /\ dropped' = [dropped EXCEPT ![<<m, k>>] = @ - amount]
                  /\ UNCHANGED <<feeGlobal, mechTotals, mechModel, dailyTotals, mechDaily,
                                 transactions>>
             ELSE /\ Record("FEE_IN", k, m, amount, usd)
                  /\ UNCHANGED dropped
          /\ UNCHANGED <<feeChain, drainTotals>>
  BY <1>1
<1>3. FeeTypeOK
  BY DEF FeesInv, FeesAgree
<1>4. k \in Models /\ amount \in Nat
  BY <1>3 DEF FeeTypeOK, MechFeesAssumption
<1>5. usd \in Nat \cup {NoneF}
  BY <1>3, <1>4, PricesTyped
<1>6. /\ owed \in [FeeMechs \X Models -> Nat] /\ dropped \in [FeeMechs \X Models -> Int]
      /\ collected \in [Models -> Nat] /\ <<m, k>> \in FeeMechs \X Models
  BY <1>3, <1>4 DEF FeeTypeOK
<1>7. /\ owed' \in [FeeMechs \X Models -> Nat] /\ owed'[<<m, k>>] = owed[<<m, k>>] + amount
      /\ \A x \in FeeMechs \X Models : x # <<m, k>> => owed'[x] = owed[x]
      /\ collected' \in [Models -> Nat]
  BY <1>2, <1>4, <1>6
<1>8. CASE usd = NoneF
  <2>1. /\ dropped' \in [FeeMechs \X Models -> Int] /\ dropped'[<<m, k>>] = dropped[<<m, k>>] - amount
        /\ \A x \in FeeMechs \X Models : x # <<m, k>> => dropped'[x] = dropped[x]
    BY <1>2, <1>4, <1>6, <1>8
  <2>2. owed'[<<m, k>>] + dropped'[<<m, k>>] = owed[<<m, k>>] + dropped[<<m, k>>]
    <3>1. owed[<<m, k>>] \in Nat /\ dropped[<<m, k>>] \in Int
      BY <1>6
    <3> QED BY <1>4, <1>7, <2>1, <3>1
  <2>3. Moved
    BY <1>2, <1>3, <1>7, <2>1, LogMoves DEF Moved
  <2>4. UNCHANGED feeTables
    BY <1>2, <1>8 DEF feeTables
  <2> QED BY <1>6, <1>7, <2>1, <2>2, <2>3, <2>4, SkippedKeeps
<1>9. CASE usd # NoneF
  <2>1. Record("FEE_IN", k, m, amount, usd) /\ dropped' = dropped /\ drainTotals' = drainTotals
    BY <1>2, <1>9
  <2>2. Moved
    BY <1>2, <1>3, <1>6, <1>7, <2>1, LogMoves DEF Moved
  <2>3. "FEE_IN" \in Types /\ usd \in Nat
    BY <1>5, <1>9 DEF Types
  <2> QED BY <1>4, <1>7, <2>1, <2>2, <2>3, RecordedKeeps
<1> QED BY <1>8, <1>9

LEMMA Withdrawal ==
  ASSUME FeesInv, MechFeesAssumption, HandleWithdraw
  PROVE  FeesInv'
<1> DEFINE Amount(m, k) == IF k = "nvm" THEN owed[<<m, k>>] \div NvmRatio ELSE owed[<<m, k>>]
<1>1. PICK m \in FeeMechs, k \in feeChain.trackers, d \in 1 .. FeeDays :
        /\ Amount(m, k) > 0
        /\ \E usd \in PriceFeeOut(k, Amount(m, k)) :
             /\ FeeLog(d)
             /\ owed' = [owed EXCEPT ![<<m, k>>] = IF k = "nvm" THEN @ - Amount(m, k) * NvmRatio ELSE 0]
             /\ IF usd = NoneF
                THEN /\ dropped' = [dropped EXCEPT ![<<m, k>>] = @ + RawCollected(k, Amount(m, k))]
                     /\ UNCHANGED <<feeGlobal, mechTotals, mechModel, dailyTotals, mechDaily,
                                    transactions>>
                ELSE /\ Record("FEE_OUT", k, m, RawCollected(k, Amount(m, k)), usd)
                     /\ UNCHANGED dropped
             /\ UNCHANGED <<feeChain, collected, drainTotals>>
  BY DEF HandleWithdraw
<1> DEFINE amount == Amount(m, k)
           raw == RawCollected(k, amount)
<1>2. PICK usd \in PriceFeeOut(k, amount) :
        /\ FeeLog(d)
        /\ owed' = [owed EXCEPT ![<<m, k>>] = IF k = "nvm" THEN @ - amount * NvmRatio ELSE 0]
        /\ IF usd = NoneF
           THEN /\ dropped' = [dropped EXCEPT ![<<m, k>>] = @ + raw]
                /\ UNCHANGED <<feeGlobal, mechTotals, mechModel, dailyTotals, mechDaily,
                               transactions>>
           ELSE /\ Record("FEE_OUT", k, m, raw, usd)
                /\ UNCHANGED dropped
        /\ UNCHANGED <<feeChain, collected, drainTotals>>
  BY <1>1
<1>3. FeeTypeOK
  BY DEF FeesInv, FeesAgree
<1>4. k \in Models /\ <<m, k>> \in FeeMechs \X Models
  BY <1>3 DEF FeeTypeOK, MechFeesAssumption
<1>5. /\ owed \in [FeeMechs \X Models -> Nat] /\ dropped \in [FeeMechs \X Models -> Int]
      /\ collected \in [Models -> Nat]
  BY <1>3 DEF FeeTypeOK
<1>6. PICK o \in Nat : o = owed[<<m, k>>]
  BY <1>4, <1>5
<1>7. PICK ratio \in Nat \ {0} : ratio = NvmRatio
  BY DEF MechFeesAssumption
<1>8. /\ amount \in Nat /\ raw \in Nat /\ raw <= o
      /\ raw = IF k = "nvm" THEN (o \div ratio) * ratio ELSE o
  <2>1. CASE k = "nvm"
    <3>1. amount = o \div ratio /\ raw = amount * ratio
      BY <1>6, <1>7, <2>1 DEF RawCollected, NvmTokenToCredits
    <3>2. PICK q \in Int : q = o \div ratio /\ q >= 0 /\ q * ratio <= o
      <4>1. o \div ratio \in Int /\ o \div ratio >= 0 /\ (o \div ratio) * ratio <= o
        OBVIOUS
      <4> QED BY <4>1
    <3>3. q * ratio \in Nat
      BY <3>2
    <3> QED BY <2>1, <3>1, <3>2, <3>3
  <2>2. CASE k # "nvm"
    BY <1>6, <2>2 DEF RawCollected
  <2> QED BY <2>1, <2>2
<1>9. /\ owed' \in [FeeMechs \X Models -> Nat] /\ owed'[<<m, k>>] = owed[<<m, k>>] - raw
      /\ \A x \in FeeMechs \X Models : x # <<m, k>> => owed'[x] = owed[x]
  <2>1. owed' = [owed EXCEPT ![<<m, k>>] = o - raw]
    <3>1. CASE k = "nvm"
      <4>1. amount * NvmRatio = raw
        BY <3>1 DEF RawCollected, NvmTokenToCredits
      <4> QED BY <1>2, <1>6, <3>1, <4>1
    <3>2. CASE k # "nvm"
      <4>1. raw = o
        BY <1>8, <3>2
      <4>2. o - raw = 0
        BY <4>1
      <4>3. owed' = [owed EXCEPT ![<<m, k>>] = 0]
        BY <1>2, <3>2
      <4> HIDE DEF raw
      <4> QED BY <4>2, <4>3
    <3> QED BY <3>1, <3>2
  <2>2. o - raw \in Nat
    BY <1>8
  <2> HIDE DEF raw
  <2> QED BY <1>4, <1>5, <1>6, <2>1, <2>2
<1>10. usd \in Nat \cup {NoneF}
  BY <1>3, <1>4, <1>8, PricesTyped
<1> HIDE DEF amount, raw
<1>11. CASE usd = NoneF
  <2>1. /\ dropped' \in [FeeMechs \X Models -> Int] /\ dropped'[<<m, k>>] = dropped[<<m, k>>] + raw
        /\ \A x \in FeeMechs \X Models : x # <<m, k>> => dropped'[x] = dropped[x]
    BY <1>2, <1>4, <1>5, <1>8, <1>11
  <2>2. owed'[<<m, k>>] + dropped'[<<m, k>>] = owed[<<m, k>>] + dropped[<<m, k>>]
    <3>1. owed[<<m, k>>] \in Nat /\ dropped[<<m, k>>] \in Int
      BY <1>4, <1>5
    <3> QED BY <1>8, <1>9, <2>1, <3>1
  <2>3. Moved
    BY <1>2, <1>3, <1>5, <1>9, <2>1, LogMoves DEF Moved
  <2>4. UNCHANGED feeTables
    BY <1>2, <1>11 DEF feeTables
  <2> QED BY <1>4, <1>9, <2>1, <2>2, <2>3, <2>4, SkippedKeeps
<1>12. CASE usd # NoneF
  <2>1. Record("FEE_OUT", k, m, raw, usd) /\ dropped' = dropped /\ drainTotals' = drainTotals
    BY <1>2, <1>12
  <2>2. Moved
    BY <1>2, <1>3, <1>5, <1>9, <2>1, LogMoves DEF Moved
  <2>3. "FEE_OUT" \in Types /\ "FEE_OUT" # "FEE_IN" /\ usd \in Nat
    BY <1>10, <1>12 DEF Types
  <2> QED BY <1>4, <1>8, <1>9, <2>1, <2>2, <2>3, RecordedKeeps
<1> QED BY <1>11, <1>12

LEMMA BurnWithdrawal ==
  ASSUME FeesInv, MechFeesAssumption, HandleBurnWithdraw
  PROVE  FeesInv'
<1>1. FeeTypeOK
  BY DEF FeesInv, FeesAgree
<1>2. UNCHANGED <<feeChain, owed, collected, feeTables, dropped>>
  BY DEF HandleBurnWithdraw
<1>3. feeDay' \in 1 .. FeeDays /\ feeEvents' \in 0 .. MaxFeeEvents
  BY <1>1, LogMoves DEF HandleBurnWithdraw
<1>4. FeeTypeOK'
  BY <1>1, <1>2, <1>3 DEF FeeTypeOK, feeTables
<1> QED BY <1>2, <1>4 DEF FeesInv, FeesAgree, feeTables, MechSums, GlobalSums, DrainSums,
           OwedIsEarnedNotCollected, Finite
LEMMA DrainKeeps ==
  ASSUME FeesInv, MechFeesAssumption, HandleDrained
  PROVE  FeesInv'
<1>1. FeeTypeOK
  BY DEF FeesInv, FeesAgree
<1>2. PICK k \in feeChain.trackers, d \in 1 .. FeeDays, usd \in Nat, raw \in Nat :
        /\ FeeLog(d)
        /\ drainTotals' = AddTo(drainTotals, k, [raw |-> raw, usd |-> usd], AmountFields)
        /\ feeGlobal' = [feeGlobal EXCEPT !.drainedUsd = @ + usd,
                                          !.burnedRaw = @ + Burned(k, raw),
                                          !.burnedUsd = @ + Burned(k, usd)]
        /\ collected' = [collected EXCEPT ![k] = 0]
        /\ UNCHANGED <<feeChain, owed, mechTotals, mechModel, dailyTotals, mechDaily,
                       transactions, dropped>>
  <2> DEFINE Usds(k) == CASE k = "native" -> OrZero(NativeToUsd(collected[k]))
                          [] k = "token-usdc" -> {UsdcToUsd(collected[k])}
                          [] k = "nvm" -> OrZero(NvmCreditsToUsd(collected[k]))
                          [] k = "token-olas" -> OrZero(OlasToUsd(collected[k]))
  <2>1. PICK k \in feeChain.trackers, d \in 1 .. FeeDays :
          /\ FeeLog(d)
          /\ \E usd \in Usds(k) :
               /\ drainTotals' = AddTo(drainTotals, k, [raw |-> collected[k], usd |-> usd],
                                       AmountFields)
               /\ feeGlobal' = [feeGlobal EXCEPT !.drainedUsd = @ + usd,
                                                 !.burnedRaw = @ + Burned(k, collected[k]),
                                                 !.burnedUsd = @ + Burned(k, usd)]
          /\ collected' = [collected EXCEPT ![k] = 0]
          /\ UNCHANGED <<feeChain, owed, mechTotals, mechModel, dailyTotals, mechDaily,
                         transactions, dropped>>
    BY DEF HandleDrained
  <2>2. k \in Models /\ collected[k] \in Nat
    BY <1>1 DEF FeeTypeOK, MechFeesAssumption
  <2>3. Usds(k) \subseteq Nat
    <3>1. /\ OrZero(NativeToUsd(collected[k])) \subseteq Nat
          /\ OrZero(NvmCreditsToUsd(collected[k])) \subseteq Nat
          /\ OrZero(OlasToUsd(collected[k])) \subseteq Nat
          /\ UsdcToUsd(collected[k]) \in Nat
      BY <1>1, <2>2, DrainPriced
    <3> QED BY <2>2, <3>1 DEF Models
  <2> HIDE DEF Usds
  <2> QED BY <2>1, <2>2, <2>3
<1> DEFINE amounts == [raw |-> raw, usd |-> usd]
           row(t) == Row(t, "token-olas", AmountFields)
<1>3. /\ Table(drainTotals, Models, AmountFields) /\ IsFiniteSet(DOMAIN drainTotals)
      /\ k \in Models /\ feeGlobal \in [GlobalFields -> Nat]
      /\ DrainSums
  BY <1>1 DEF FeesInv, FeesAgree, FeeTypeOK, Finite, MechFeesAssumption
<1>4. Adds(drainTotals, Models, AmountFields, k, amounts, drainTotals')
  <2>1. \A f \in AmountFields : amounts[f] \in Nat
    BY DEF AmountFields
  <2> QED BY <1>2, <1>3, <2>1 DEF Adds
<1>5. "usd" \in AmountFields /\ "raw" \in AmountFields /\ amounts["usd"] = usd /\ amounts["raw"] = raw
  BY DEF AmountFields
<1> HIDE DEF amounts
<1>6. Table(drainTotals', Models, AmountFields) /\ IsFiniteSet(DOMAIN drainTotals')
  <2>1. Grown(drainTotals, Models, AmountFields, k, amounts, drainTotals')
    BY <1>4, Added
  <2> QED BY <2>1 DEF Grown
<1>7. Total(Column(drainTotals', "usd"), DOMAIN drainTotals')
        = Total(Column(drainTotals, "usd"), DOMAIN drainTotals) + usd
  BY <1>4, <1>5, AllAdds
<1>8. \A f \in AmountFields :
        /\ row(drainTotals')[f] = row(drainTotals)[f] + IF "token-olas" = k THEN amounts[f] ELSE 0
        /\ row(drainTotals)[f] \in Nat
  <2> SUFFICES ASSUME NEW f \in AmountFields
               PROVE  /\ row(drainTotals')[f]
                           = row(drainTotals)[f] + IF "token-olas" = k THEN amounts[f] ELSE 0
                      /\ row(drainTotals)[f] \in Nat
    OBVIOUS
  <2> QED BY <1>4, RowGrown
<1>9. PICK burnedUsd \in Nat, burnedRaw \in Nat :
        /\ burnedUsd = Burned(k, usd) /\ burnedRaw = Burned(k, raw)
        /\ burnedUsd = IF "token-olas" = k THEN amounts["usd"] ELSE 0
        /\ burnedRaw = IF "token-olas" = k THEN amounts["raw"] ELSE 0
  BY <1>5 DEF Burned
<1>10. /\ feeGlobal'["drainedUsd"] = feeGlobal["drainedUsd"] + usd
       /\ feeGlobal'["burnedUsd"] = feeGlobal["burnedUsd"] + burnedUsd
       /\ feeGlobal'["burnedRaw"] = feeGlobal["burnedRaw"] + burnedRaw
       /\ \A f \in DayFields : feeGlobal'[f] = feeGlobal[f]
       /\ feeGlobal' = [f \in GlobalFields |-> feeGlobal'[f]]
  <2>1. feeGlobal' = [feeGlobal EXCEPT !["drainedUsd"] = @ + usd, !["burnedRaw"] = @ + burnedRaw,
                                       !["burnedUsd"] = @ + burnedUsd]
    BY <1>2, <1>9
  <2> QED BY <1>3, <2>1 DEF GlobalFields, DayFields
<1>11. feeGlobal' \in [GlobalFields -> Nat]
  <2>1. \A f \in GlobalFields : feeGlobal[f] \in Nat
    BY <1>3
  <2>2. \A f \in GlobalFields : feeGlobal'[f] \in Nat
    BY <1>10, <2>1 DEF GlobalFields
  <2> QED BY <1>10, <2>2
<1>12. FeeTypeOK'
  <2>1. feeDay' \in 1 .. FeeDays /\ feeEvents' \in 0 .. MaxFeeEvents
    BY <1>1, <1>2, LogMoves
  <2>2. collected' \in [Models -> Nat]
    BY <1>1, <1>2 DEF FeeTypeOK
  <2>3. UNCHANGED <<feeChain, owed, mechTotals, mechModel, dailyTotals, mechDaily,
                    transactions, dropped>>
    BY <1>2
  <2> QED BY <1>1, <1>6, <1>11, <2>1, <2>2, <2>3 DEF FeeTypeOK
<1>13. DrainSums'
  <2>1. /\ feeGlobal["drainedUsd"] = Total(Column(drainTotals, "usd"), DOMAIN drainTotals)
        /\ feeGlobal["burnedUsd"] = row(drainTotals)["usd"]
        /\ feeGlobal["burnedRaw"] = row(drainTotals)["raw"]
    BY <1>3 DEF DrainSums
  <2>2. /\ row(drainTotals')["usd"] = row(drainTotals)["usd"] + burnedUsd
        /\ row(drainTotals')["raw"] = row(drainTotals)["raw"] + burnedRaw
    BY <1>5, <1>8, <1>9
  <2> QED BY <1>7, <1>10, <2>1, <2>2 DEF DrainSums
<1>14. MechSums' /\ OwedIsEarnedNotCollected'
  BY <1>2 DEF FeesInv, FeesAgree, MechSums, OwedIsEarnedNotCollected
<1>15. GlobalSums'
  BY <1>2, <1>10 DEF FeesInv, FeesAgree, GlobalSums
<1>16. Finite'
  BY <1>2, <1>6 DEF FeesInv, Finite
<1> QED BY <1>12, <1>13, <1>14, <1>15, <1>16 DEF FeesInv, FeesAgree

LEMMA FeesStuttering ==
  ASSUME FeesInv, UNCHANGED feeVars
  PROVE  FeesInv'
BY DEF FeesInv, FeesAgree, feeVars, feeTables, FeeTypeOK, MechSums, GlobalSums, DrainSums,
       OwedIsEarnedNotCollected, Finite

LEMMA FeesInvariance == FeeSpec => []FeesInv
<1>1. FeeInit => FeesInv
  BY FeesStart, MechFeesAssumption
<1>2. ASSUME FeesInv, [FeeNext]_feeVars PROVE FeesInv'
  <2>1. CASE HandleMechBalanceAdjusted
    BY <1>2, <2>1, BalanceAdjusted, MechFeesAssumption
  <2>2. CASE HandleWithdraw
    BY <1>2, <2>2, Withdrawal, MechFeesAssumption
  <2>3. CASE HandleBurnWithdraw
    BY <1>2, <2>3, BurnWithdrawal, MechFeesAssumption
  <2>4. CASE HandleDrained
    BY <1>2, <2>4, DrainKeeps, MechFeesAssumption
  <2>5. CASE UNCHANGED feeVars
    BY <1>2, <2>5, FeesStuttering
  <2> QED BY <1>2, <2>1, <2>2, <2>3, <2>4, <2>5 DEF FeeNext
<1> QED BY <1>1, <1>2, PTL DEF FeeSpec

\* recordFeeIn, recordFeeOut, handleWithdraw and handleDrained (mech-fees/src/handlers.ts):
\* whatever the order of the events, whichever prices are missing, the five tables add up to
\* the same for each mech and day, the globals are their sums, and what a mech earned and did
\* not collect is what its tracker owes it, but for the events that were skipped.
THEOREM FeesAlwaysAgree == FeeSpec => []FeesAgree
<1>1. FeesInv => FeesAgree
  BY DEF FeesInv
<1> QED BY <1>1, FeesInvariance, PTL

-----------------------------------------------------------------------------
(* SpawnStream.  Its recursions are functions on intervals that a LET        *)
(* hides.  Each has a lemma that such a function exists, by induction on the *)
(* smallest interval without one, and one that gives its steps.              *)

DispatchApplied(t, log, id) == Applied(LAMBDA before : Dispatch(before, log, id), t)

LEMMA AppliedDispatch ==
  ASSUME NEW t, NEW log, NEW id
  PROVE DispatchApplied(t, log, id) = Dispatch(t, log, id)
BY DEF Applied, DispatchApplied

\* f[i]: the tables after the logs up to the i-th, of those with some indexes.
IsPass(f, t, block, n, indexes, m) ==
  f = [i \in 0 .. m |->
        IF i = 0 THEN t
        ELSE IF i \in indexes
        THEN DispatchApplied(f[i - 1], block[i], <<n, i>>)
        ELSE f[i - 1]]

LEMMA PassExists ==
  ASSUME NEW t, NEW block, NEW n, NEW indexes, NEW m \in Nat
  PROVE  \E f : IsPass(f, t, block, n, indexes, m)
<1> DEFINE T == {k \in Nat : ~ \E f : IsPass(f, t, block, n, indexes, k)}
<1>1. SUFFICES ASSUME T # {} PROVE FALSE
  BY Zenon
<1>2. PICK k \in T : \A y \in T : ~ (y < k)
  BY <1>1, LeastIndex, Zenon
<1>3. k \in Nat /\ ~ \E f : IsPass(f, t, block, n, indexes, k)
  BY Zenon
<1>4. CASE k = 0
  <2>1. IsPass([i \in 0 .. 0 |-> t], t, block, n, indexes, 0)
    BY DEF IsPass
  <2> QED BY <1>3, <1>4, <2>1
<1>5. CASE k # 0
  <2>1. k - 1 \in Nat /\ k - 1 < k
    BY <1>3, <1>5
  <2>2. PICK f : IsPass(f, t, block, n, indexes, k - 1)
    BY <1>2, <2>1, Zenon
  <2> DEFINE g == [i \in 0 .. k |-> IF i < k THEN f[i]
                                    ELSE IF k \in indexes THEN Dispatch(f[k - 1], block[k], <<n, k>>)
                                    ELSE f[k - 1]]
             Entry(h, i) == IF i = 0 THEN t
                            ELSE IF i \in indexes
                            THEN DispatchApplied(h[i - 1], block[i], <<n, i>>)
                            ELSE h[i - 1]
  <2>3. \A i \in 0 .. k : g[i] = Entry(g, i)
    <3>1. ASSUME NEW i \in 0 .. k, i < k PROVE g[i] = Entry(g, i)
      <4>1. g[i] = f[i] /\ i \in 0 .. k - 1 /\ (i # 0 => g[i - 1] = f[i - 1])
        BY <2>1, <3>1, <1>3
      <4> HIDE DEF g
      <4> QED BY <2>2, <4>1, AppliedDispatch DEF IsPass
    <3>2. g[k] = Entry(g, k)
      <4>1. g[k] = (IF k \in indexes THEN Dispatch(f[k - 1], block[k], <<n, k>>) ELSE f[k - 1])
            /\ g[k - 1] = f[k - 1]
        BY <2>1, <1>3
      <4> HIDE DEF g
      <4> QED BY <1>5, <4>1, AppliedDispatch
    <3>3. \A i \in 0 .. k : i < k \/ i = k
      BY <1>3
    <3> HIDE DEF g, Entry
    <3> QED BY <3>1, <3>2, <3>3
  <2>4. IsPass(g, t, block, n, indexes, k)
    <3>1. g = [i \in 0 .. k |-> Entry(g, i)]
      <4>1. g = [i \in 0 .. k |-> g[i]]
        OBVIOUS
      <4> HIDE DEF g, Entry
      <4> QED BY <2>3, <4>1
    <3> HIDE DEF g
    <3> QED BY <3>1, Zenon DEF IsPass
  <2> QED BY <1>3, <2>4
<1> QED BY <1>4, <1>5

Passes(f, t, block, n, indexes) ==
  /\ f[0] = t
  /\ \A i \in 1 .. Len(block) :
       f[i] = IF i \in indexes THEN Dispatch(f[i - 1], block[i], <<n, i>>) ELSE f[i - 1]

LEMMA DispatchAllPasses ==
  ASSUME NEW t, NEW block, NEW n, NEW indexes, Len(block) \in Nat
  PROVE  \E f : Passes(f, t, block, n, indexes) /\ DispatchAll(t, block, n, indexes) = f[Len(block)]
<1> DEFINE f == CHOOSE f : IsPass(f, t, block, n, indexes, Len(block))
<1>1. IsPass(f, t, block, n, indexes, Len(block))
  BY PassExists, Zenon
<1>2. DispatchAll(t, block, n, indexes) = f[Len(block)]
  BY Zenon DEF DispatchAll, IsPass, DispatchApplied
<1> HIDE DEF f
<1>3. Passes(f, t, block, n, indexes)
  BY <1>1, AppliedDispatch DEF IsPass, Passes
<1> QED BY <1>2, <1>3

BlockStart(t, block, streamed) ==
  [t |-> t, newHosts |-> {}, deferred |-> {}, carried |-> streamed,
   queue |-> {i \in DOMAIN block : Carries(block[i], tracked.services, tracked.hosts)}]

LogApplied(x, block, n, i) == Applied(LAMBDA d : ProcessLog(block, n, d, i), x)

LEMMA AppliedLog ==
  ASSUME NEW x, NEW block, NEW n, NEW i
  PROVE LogApplied(x, block, n, i) = ProcessLog(block, n, x, i)
BY DEF Applied, LogApplied

\* f[i]: where processBlock is after the first i logs of a block.
IsProcess(f, start, block, n, m) ==
  f = [i \in 0 .. m |->
        IF i = 0 THEN start ELSE LogApplied(f[i - 1], block, n, i)]

LEMMA ProcessExists ==
  ASSUME NEW start, NEW block, NEW n, NEW m \in Nat
  PROVE  \E f : IsProcess(f, start, block, n, m)
<1> DEFINE T == {k \in Nat : ~ \E f : IsProcess(f, start, block, n, k)}
<1>1. SUFFICES ASSUME T # {} PROVE FALSE
  BY Zenon
<1>2. PICK k \in T : \A y \in T : ~ (y < k)
  BY <1>1, LeastIndex, Zenon
<1>3. k \in Nat /\ ~ \E f : IsProcess(f, start, block, n, k)
  BY Zenon
<1>4. CASE k = 0
  <2>1. IsProcess([i \in 0 .. 0 |-> start], start, block, n, 0)
    BY DEF IsProcess
  <2> QED BY <1>3, <1>4, <2>1
<1>5. CASE k # 0
  <2>1. k - 1 \in Nat /\ k - 1 < k
    BY <1>3, <1>5
  <2>2. PICK f : IsProcess(f, start, block, n, k - 1)
    BY <1>2, <2>1, Zenon
  <2> DEFINE g == [i \in 0 .. k |-> IF i < k THEN f[i] ELSE ProcessLog(block, n, f[k - 1], k)]
             Entry(h, i) ==
               IF i = 0 THEN start ELSE
               LogApplied(h[i - 1], block, n, i)
  <2>3. \A i \in 0 .. k : g[i] = Entry(g, i)
    <3>1. ASSUME NEW i \in 0 .. k, i < k PROVE g[i] = Entry(g, i)
      <4>1. g[i] = f[i] /\ i \in 0 .. k - 1 /\ (i # 0 => g[i - 1] = f[i - 1])
        BY <2>1, <3>1, <1>3
      <4> HIDE DEF g
      <4> QED BY <2>2, <4>1, AppliedLog DEF IsProcess
    <3>2. g[k] = Entry(g, k)
      <4>1. g[k] = ProcessLog(block, n, f[k - 1], k) /\ g[k - 1] = f[k - 1]
        BY <2>1, <1>3
      <4> HIDE DEF g
      <4> QED BY <1>5, <4>1, AppliedLog
    <3>3. \A i \in 0 .. k : i < k \/ i = k
      BY <1>3
    <3> HIDE DEF g, Entry
    <3> QED BY <3>1, <3>2, <3>3
  <2>4. IsProcess(g, start, block, n, k)
    <3>1. g = [i \in 0 .. k |-> Entry(g, i)]
      <4>1. g = [i \in 0 .. k |-> g[i]]
        OBVIOUS
      <4> HIDE DEF g, Entry
      <4> QED BY <2>3, <4>1
    <3> HIDE DEF g
    <3> QED BY <3>1, Zenon DEF IsProcess
  <2> QED BY <1>3, <2>4
<1> QED BY <1>4, <1>5

Processes(f, t, block, n, streamed) ==
  /\ f[0] = BlockStart(t, block, streamed)
  /\ \A i \in 1 .. Len(block) : f[i] = ProcessLog(block, n, f[i - 1], i)

LEMMA BlockProcesses ==
  ASSUME NEW t, NEW block, NEW n, NEW streamed, Len(block) \in Nat
  PROVE  \E f :
           /\ Processes(f, t, block, n, streamed)
           /\ ProcessBlock(t, block, n, streamed)
                = [t |-> DispatchAll(f[Len(block)].t, block, n, f[Len(block)].deferred),
                   carried |-> f[Len(block)].carried]
<1> DEFINE start == BlockStart(t, block, streamed)
           f == CHOOSE f : IsProcess(f, start, block, n, Len(block))
<1>1. IsProcess(f, start, block, n, Len(block))
  BY ProcessExists, Zenon
<1>2. ProcessBlock(t, block, n, streamed)
        = [t |-> DispatchAll(f[Len(block)].t, block, n, f[Len(block)].deferred),
           carried |-> f[Len(block)].carried]
  BY Zenon DEF ProcessBlock, IsProcess, BlockStart, LogApplied
<1> HIDE DEF f
<1>3. Processes(f, t, block, n, streamed)
  BY <1>1, AppliedLog DEF IsProcess, Processes
<1> QED BY <1>2, <1>3

GraphNodeStep(before, block) ==
  Append(before, GraphNodeBlock(LastTables(before), block, Len(before) + 1))

GraphNodeApplied(x, block) ==
  Applied(LAMBDA before : Append(before, GraphNodeBlock(LastTables(before), block, Len(before) + 1)), x)

LEMMA AppliedGraphNode ==
  ASSUME NEW before, NEW block
  PROVE GraphNodeApplied(before, block) = GraphNodeStep(before, block)
BY DEF Applied, GraphNodeStep, GraphNodeApplied

\* f[k]: the tables of graph-node with those of k blocks more.
IsGraphNode(f, start, blocks, m) ==
  f = [k \in 0 .. m |->
        IF k = 0 THEN start ELSE GraphNodeApplied(f[k - 1], blocks[k])]

LEMMA GraphNodeExists ==
  ASSUME NEW start, NEW blocks, NEW m \in Nat
  PROVE  \E f : IsGraphNode(f, start, blocks, m)
<1> DEFINE T == {k \in Nat : ~ \E f : IsGraphNode(f, start, blocks, k)}
<1>1. SUFFICES ASSUME T # {} PROVE FALSE
  BY Zenon
<1>2. PICK k \in T : \A y \in T : ~ (y < k)
  BY <1>1, LeastIndex, Zenon
<1>3. k \in Nat /\ ~ \E f : IsGraphNode(f, start, blocks, k)
  BY Zenon
<1>4. CASE k = 0
  <2>1. IsGraphNode([i \in 0 .. 0 |-> start], start, blocks, 0)
    BY DEF IsGraphNode
  <2> QED BY <1>3, <1>4, <2>1
<1>5. CASE k # 0
  <2>1. k - 1 \in Nat /\ k - 1 < k
    BY <1>3, <1>5
  <2>2. PICK f : IsGraphNode(f, start, blocks, k - 1)
    BY <1>2, <2>1, Zenon
  <2> DEFINE g == [i \in 0 .. k |-> IF i < k THEN f[i] ELSE GraphNodeStep(f[k - 1], blocks[k])]
             Entry(h, i) ==
               IF i = 0 THEN start ELSE
               GraphNodeApplied(h[i - 1], blocks[i])
  <2>3. \A i \in 0 .. k : g[i] = Entry(g, i)
    <3>1. ASSUME NEW i \in 0 .. k, i < k PROVE g[i] = Entry(g, i)
      <4>1. g[i] = f[i] /\ i \in 0 .. k - 1 /\ (i # 0 => g[i - 1] = f[i - 1])
        BY <2>1, <3>1, <1>3
      <4> HIDE DEF g
      <4> QED BY <2>2, <4>1, AppliedGraphNode DEF IsGraphNode
    <3>2. g[k] = Entry(g, k)
      <4>1. g[k] = GraphNodeStep(f[k - 1], blocks[k]) /\ g[k - 1] = f[k - 1]
        BY <2>1, <1>3
      <4> HIDE DEF g
      <4> QED BY <1>5, <4>1, AppliedGraphNode
    <3>3. \A i \in 0 .. k : i < k \/ i = k
      BY <1>3
    <3> HIDE DEF g, Entry
    <3> QED BY <3>1, <3>2, <3>3
  <2>4. IsGraphNode(g, start, blocks, k)
    <3>1. g = [i \in 0 .. k |-> Entry(g, i)]
      <4>1. g = [i \in 0 .. k |-> g[i]]
        OBVIOUS
      <4> HIDE DEF g, Entry
      <4> QED BY <2>3, <4>1
    <3> HIDE DEF g
    <3> QED BY <3>1, Zenon DEF IsGraphNode
  <2> QED BY <1>3, <2>4
<1> QED BY <1>4, <1>5

FollowsBlocks(f, start, blocks) ==
  f[0] = start /\ \A k \in 1 .. Len(blocks) : f[k] = GraphNodeStep(f[k - 1], blocks[k])

LEMMA GraphNodeSteps ==
  ASSUME NEW start, NEW blocks, Len(blocks) \in Nat
  PROVE  \E f : FollowsBlocks(f, start, blocks) /\ GraphNode(start, blocks) = f[Len(blocks)]
<1> DEFINE f == CHOOSE f : IsGraphNode(f, start, blocks, Len(blocks))
<1>1. IsGraphNode(f, start, blocks, Len(blocks))
  BY GraphNodeExists, Zenon
<1>2. GraphNode(start, blocks) = f[Len(blocks)]
  BY Zenon DEF GraphNode, IsGraphNode, GraphNodeApplied
<1> HIDE DEF f
<1>3. FollowsBlocks(f, start, blocks)
  BY <1>1, AppliedGraphNode DEF IsGraphNode, FollowsBlocks
<1> QED BY <1>2, <1>3

Processed(before, block, n) == ProcessBlock(LastTables(before.tables), block, n, before.carried)
BatchStep(before, block, n) ==
  [tables |-> Append(before.tables, Processed(before, block, n).t),
   carried |-> Processed(before, block, n).carried]

BatchApplied(x, block, n) ==
  Applied(LAMBDA before : LET r == ProcessBlock(LastTables(before.tables), block, n, before.carried)
                          IN [tables |-> Append(before.tables, r.t), carried |-> r.carried], x)

LEMMA AppliedBatch ==
  ASSUME NEW before, NEW block, NEW n
  PROVE BatchApplied(before, block, n) = BatchStep(before, block, n)
BY DEF Applied, BatchStep, Processed, BatchApplied

\* f[k]: the tables, and what the stream carries, after the first k blocks of a batch.
IsBatch(f, start, blocks, n, m) ==
  f = [k \in 0 .. m |->
        IF k = 0 THEN start ELSE BatchApplied(f[k - 1], blocks[k], n + k)]

LEMMA BatchExists ==
  ASSUME NEW start, NEW blocks, NEW n, NEW m \in Nat
  PROVE  \E f : IsBatch(f, start, blocks, n, m)
<1> DEFINE T == {k \in Nat : ~ \E f : IsBatch(f, start, blocks, n, k)}
<1>1. SUFFICES ASSUME T # {} PROVE FALSE
  BY Zenon
<1>2. PICK k \in T : \A y \in T : ~ (y < k)
  BY <1>1, LeastIndex, Zenon
<1>3. k \in Nat /\ ~ \E f : IsBatch(f, start, blocks, n, k)
  BY Zenon
<1>4. CASE k = 0
  <2>1. IsBatch([i \in 0 .. 0 |-> start], start, blocks, n, 0)
    BY DEF IsBatch
  <2> QED BY <1>3, <1>4, <2>1
<1>5. CASE k # 0
  <2>1. k - 1 \in Nat /\ k - 1 < k
    BY <1>3, <1>5
  <2>2. PICK f : IsBatch(f, start, blocks, n, k - 1)
    BY <1>2, <2>1, Zenon
  <2> DEFINE g == [i \in 0 .. k |-> IF i < k THEN f[i] ELSE BatchStep(f[k - 1], blocks[k], n + k)]
             Entry(h, i) ==
               IF i = 0 THEN start ELSE
               BatchApplied(h[i - 1], blocks[i], n + i)
  <2>3. \A i \in 0 .. k : g[i] = Entry(g, i)
    <3>1. ASSUME NEW i \in 0 .. k, i < k PROVE g[i] = Entry(g, i)
      <4>1. g[i] = f[i] /\ i \in 0 .. k - 1 /\ (i # 0 => g[i - 1] = f[i - 1])
        BY <2>1, <3>1, <1>3
      <4> HIDE DEF g
      <4> QED BY <2>2, <4>1, AppliedBatch DEF IsBatch
    <3>2. g[k] = Entry(g, k)
      <4>1. g[k] = BatchStep(f[k - 1], blocks[k], n + k) /\ g[k - 1] = f[k - 1]
        BY <2>1, <1>3
      <4> HIDE DEF g
      <4> QED BY <1>5, <4>1, AppliedBatch
    <3>3. \A i \in 0 .. k : i < k \/ i = k
      BY <1>3
    <3> HIDE DEF g, Entry
    <3> QED BY <3>1, <3>2, <3>3
  <2>4. IsBatch(g, start, blocks, n, k)
    <3>1. g = [i \in 0 .. k |-> Entry(g, i)]
      <4>1. g = [i \in 0 .. k |-> g[i]]
        OBVIOUS
      <4> HIDE DEF g, Entry
      <4> QED BY <2>3, <4>1
    <3> HIDE DEF g
    <3> QED BY <3>1, Zenon DEF IsBatch
  <2> QED BY <1>3, <2>4
<1> QED BY <1>4, <1>5

DoesBlocks(f, blocks) ==
  /\ f[0] = [tables |-> tables, carried |-> carried]
  /\ \A k \in 1 .. Len(blocks) : f[k] = BatchStep(f[k - 1], blocks[k], Len(written) + k)

LEMMA BatchSteps ==
  ASSUME NEW blocks, Len(blocks) \in Nat
  PROVE  \E f : DoesBlocks(f, blocks) /\ ProcessBlocks(blocks) = f[Len(blocks)]
<1> DEFINE start == [tables |-> tables, carried |-> carried]
           f == CHOOSE f : IsBatch(f, start, blocks, Len(written), Len(blocks))
<1>1. IsBatch(f, start, blocks, Len(written), Len(blocks))
  BY BatchExists, Zenon
<1>2. ProcessBlocks(blocks) = f[Len(blocks)]
  BY Zenon DEF ProcessBlocks, IsBatch, BatchApplied
<1> HIDE DEF f
<1>3. f[0] = start /\ \A k \in 1 .. Len(blocks) : f[k] = BatchStep(f[k - 1], blocks[k], Len(written) + k)
  <2> HIDE DEF start
  <2>1. f[0] = start
    BY <1>1 DEF IsBatch
  <2>2. ASSUME NEW k \in 1 .. Len(blocks)
        PROVE  f[k] = BatchApplied(f[k - 1], blocks[k], Len(written) + k)
    BY <1>1 DEF IsBatch
  <2> QED BY <2>1, <2>2, AppliedBatch, Zenon
<1>4. DoesBlocks(f, blocks)
  BY <1>3 DEF DoesBlocks
<1> QED BY <1>2, <1>4

-----------------------------------------------------------------------------
(* One log.                                                                  *)

Ids == Nat \X Nat
StreamTable == [operator : [ServiceIds -> Operators \cup {NoOperator}],
          services : SUBSET Multisigs, hosts : SUBSET Hosts, handled : Seq(Ids)]

\* Two tables that differ in no more than what was handled.
Same(t, u) == t.operator = u.operator /\ t.services = u.services /\ t.hosts = u.hosts

Handles(t, log) ==
  \/ log.kind = "transfer" /\ log.safe \in t.services
  \/ log.kind = "safe" /\ log.safe \in t.hosts

LEMMA LogKinds ==
  ASSUME NEW log \in StreamLogs
  PROVE  \/ log.kind = "register" /\ log.service \in ServiceIds /\ log.operator \in Operators
         \/ log.kind = "create" /\ log.service \in ServiceIds /\ Safe[log.service] \in Multisigs
         \/ log.kind = "transfer" /\ log.safe \in Multisigs
         \/ log.kind = "safe" /\ log.safe \in Hosts
<1>1. CASE \E s \in ServiceIds, o \in Operators : log = Registered(s, o)
  BY <1>1 DEF Registered
<1>2. CASE \E s \in ServiceIds : log = Deployed(s)
  BY <1>2 DEF Deployed, Multisigs
<1>3. CASE \E m \in Multisigs : log = Transfer(m)
  BY <1>3 DEF Transfer
<1>4. CASE \E h \in Hosts : log = SafeEvent(h)
  BY <1>4 DEF SafeEvent
<1> QED BY <1>1, <1>2, <1>3, <1>4 DEF StreamLogs

LEMMA NewRows ==
  ASSUME NEW t \in StreamTable, NEW log \in StreamLogs
  PROVE  /\ NewServices(t, log) \in SUBSET Multisigs /\ NewHosts(t, log) \in SUBSET Hosts
         /\ NewHosts(t, log) \cap t.hosts = {} /\ NewServices(t, log) \cap t.services = {}
         /\ log.kind # "create" => NewServices(t, log) = {} /\ NewHosts(t, log) = {}
<1>1. t.operator \in [ServiceIds -> Operators \cup {NoOperator}]
  BY DEF StreamTable
<1>2. CASE log.kind # "create"
  BY <1>2 DEF NewServices, NewHosts
<1>3. CASE log.kind = "create"
  <2>1. log.service \in ServiceIds /\ Safe[log.service] \in Multisigs
    BY <1>3, LogKinds
  <2>2. NewServices(t, log) # {} => t.operator[log.service] \in Operators
    BY <1>1, <2>1 DEF NewServices
  <2> QED BY <1>3, <2>1, <2>2 DEF NewServices, NewHosts, Hosts
<1> QED BY <1>2, <1>3

LEMMA Dispatched ==
  ASSUME NEW t \in StreamTable, NEW log \in StreamLogs, NEW id \in Ids
  PROVE  LET u == Dispatch(t, log, id) IN
         /\ u \in StreamTable
         /\ u.services = t.services \cup NewServices(t, log)
         /\ u.hosts = t.hosts \cup NewHosts(t, log)
         /\ u.operator = IF log.kind = "register" THEN [t.operator EXCEPT ![log.service] = log.operator]
                         ELSE t.operator
         /\ u.handled = IF Handles(t, log) THEN Append(t.handled, id) ELSE t.handled
<1> DEFINE u == Dispatch(t, log, id)
<1>0. /\ t.operator \in [ServiceIds -> Operators \cup {NoOperator}]
      /\ t.services \in SUBSET Multisigs /\ t.hosts \in SUBSET Hosts /\ t.handled \in Seq(Ids)
      /\ t = [operator |-> t.operator, services |-> t.services, hosts |-> t.hosts, handled |-> t.handled]
  BY DEF StreamTable
<1>1. CASE log.kind = "register"
  <2>1. u = [t EXCEPT !.operator[log.service] = log.operator]
    BY <1>1 DEF Dispatch
  <2>2. log.service \in ServiceIds /\ log.operator \in Operators
    BY <1>1, LogKinds
  <2>3. NewServices(t, log) = {} /\ NewHosts(t, log) = {} /\ ~ Handles(t, log)
    BY <1>1, NewRows DEF Handles
  <2>4. /\ u.operator = [t.operator EXCEPT ![log.service] = log.operator]
        /\ u.services = t.services /\ u.hosts = t.hosts /\ u.handled = t.handled
        /\ u = [operator |-> u.operator, services |-> u.services, hosts |-> u.hosts, handled |-> u.handled]
    BY <1>0, <2>1
  <2>5. u.operator \in [ServiceIds -> Operators \cup {NoOperator}]
    BY <1>0, <2>2, <2>4
  <2> HIDE DEF u
  <2>6. u \in StreamTable
    BY <1>0, <2>4, <2>5 DEF StreamTable
  <2> QED BY <1>1, <2>3, <2>4, <2>6 DEF u
<1>2. CASE log.kind = "create"
  <2>1. u = [t EXCEPT !.services = @ \cup NewServices(t, log), !.hosts = @ \cup NewHosts(t, log)]
    BY <1>2 DEF Dispatch
  <2>2. NewServices(t, log) \in SUBSET Multisigs /\ NewHosts(t, log) \in SUBSET Hosts
    BY NewRows
  <2>3. /\ u.operator = t.operator /\ u.services = t.services \cup NewServices(t, log)
        /\ u.hosts = t.hosts \cup NewHosts(t, log) /\ u.handled = t.handled
        /\ u = [operator |-> u.operator, services |-> u.services, hosts |-> u.hosts, handled |-> u.handled]
    BY <1>0, <2>1
  <2> HIDE DEF u
  <2>4. u \in StreamTable
    BY <1>0, <2>2, <2>3 DEF StreamTable
  <2>5. ~ Handles(t, log)
    BY <1>2 DEF Handles
  <2> QED BY <1>2, <2>3, <2>4, <2>5 DEF u
<1>3. CASE log.kind \in {"transfer", "safe"}
  <2>1. u = IF Handles(t, log) THEN [t EXCEPT !.handled = Append(@, id)] ELSE t
    BY <1>3 DEF Dispatch, Handles
  <2>2. NewServices(t, log) = {} /\ NewHosts(t, log) = {}
    BY <1>3, NewRows
  <2>3. /\ u.operator = t.operator /\ u.services = t.services /\ u.hosts = t.hosts
        /\ u.handled = (IF Handles(t, log) THEN Append(t.handled, id) ELSE t.handled)
        /\ u = [operator |-> u.operator, services |-> u.services, hosts |-> u.hosts, handled |-> u.handled]
    BY <1>0, <2>1
  <2>4. Append(t.handled, id) \in Seq(Ids)
    BY <1>0, AppendProperties
  <2> HIDE DEF u
  <2>5. u \in StreamTable
    BY <1>0, <2>3, <2>4 DEF StreamTable
  <2> QED BY <1>3, <2>2, <2>3, <2>5 DEF u
<1> QED BY <1>1, <1>2, <1>3, LogKinds

LEMMA SameDispatched ==
  ASSUME NEW t \in StreamTable, NEW u \in StreamTable, Same(t, u), NEW log \in StreamLogs, NEW id \in Ids
  PROVE  /\ Same(Dispatch(t, log, id), Dispatch(u, log, id))
         /\ NewServices(t, log) = NewServices(u, log) /\ NewHosts(t, log) = NewHosts(u, log)
         /\ Handles(t, log) <=> Handles(u, log)
<1>1. /\ NewServices(t, log) = NewServices(u, log) /\ NewHosts(t, log) = NewHosts(u, log)
      /\ Handles(t, log) <=> Handles(u, log)
  BY DEF Same, NewServices, NewHosts, Handles
<1>2. t.operator = u.operator /\ t.services = u.services /\ t.hosts = u.hosts
  BY DEF Same
<1> DEFINE v == Dispatch(t, log, id)
           w == Dispatch(u, log, id)
<1>3. /\ v.services = t.services \cup NewServices(t, log) /\ v.hosts = t.hosts \cup NewHosts(t, log)
      /\ v.operator = IF log.kind = "register" THEN [t.operator EXCEPT ![log.service] = log.operator]
                      ELSE t.operator
  BY Dispatched
<1>4. /\ w.services = u.services \cup NewServices(u, log) /\ w.hosts = u.hosts \cup NewHosts(u, log)
      /\ w.operator = IF log.kind = "register" THEN [u.operator EXCEPT ![log.service] = log.operator]
                      ELSE u.operator
  BY Dispatched
<1> HIDE DEF v, w
<1>5. Same(v, w)
  BY <1>1, <1>2, <1>3, <1>4 DEF Same
<1> QED BY <1>1, <1>5 DEF v, w

-----------------------------------------------------------------------------
(* Logs that were handled, and the second pass over a block.                  *)

LEMMA Upward ==
  ASSUME NEW P, NEW N \in Nat, 0 \in P, \A i \in 1 .. N : i - 1 \in P => i \in P
  PROVE  0 .. N \subseteq P
<1> DEFINE T == {i \in 0 .. N : i \notin P}
<1>1. SUFFICES ASSUME T # {} PROVE FALSE
  OBVIOUS
<1>2. PICK i \in T : \A y \in T : ~ (y < i)
  <2>1. T \subseteq Nat
    OBVIOUS
  <2> QED BY <1>1, <2>1, LeastIndex, Zenon
<1>3. i \in 1 .. N /\ i \notin P /\ i - 1 \in 0 .. N /\ i - 1 < i
  OBVIOUS
<1> QED BY <1>2, <1>3

LEMMA Appended ==
  ASSUME NEW s \in Seq(Ids), NEW id \in Ids
  PROVE  /\ ToSet(Append(s, id)) = ToSet(s) \cup {id}
         /\ IsInjective(s) /\ id \notin ToSet(s) => IsInjective(Append(s, id))
<1> DEFINE a == Append(s, id)
<1>1. /\ Len(s) \in Nat /\ DOMAIN s = 1 .. Len(s) /\ DOMAIN a = 1 .. Len(s) + 1
      /\ \A i \in 1 .. Len(s) : a[i] = s[i]
      /\ a[Len(s) + 1] = id
  BY AppendProperties, LenProperties
<1> HIDE DEF a
<1>2. ToSet(a) = ToSet(s) \cup {id}
  BY <1>1 DEF ToSet
<1>3. ASSUME IsInjective(s), id \notin ToSet(s) PROVE IsInjective(a)
  <2> SUFFICES ASSUME NEW i \in 1 .. Len(s) + 1, NEW j \in 1 .. Len(s) + 1, a[i] = a[j]
               PROVE  i = j
    BY <1>1 DEF IsInjective
  <2>1. \A k \in 1 .. Len(s) : s[k] # id
    BY <1>1, <1>3 DEF ToSet
  <2> QED BY <1>1, <1>3, <2>1 DEF IsInjective
<1> QED BY <1>2, <1>3 DEF a

LEMMA HandledBy ==
  ASSUME NEW t \in StreamTable, NEW log \in StreamLogs, NEW id \in Ids
  PROVE  LET u == Dispatch(t, log, id) IN
         /\ ToSet(u.handled) = IF Handles(t, log) THEN ToSet(t.handled) \cup {id} ELSE ToSet(t.handled)
         /\ IsInjective(t.handled) /\ id \notin ToSet(t.handled) => IsInjective(u.handled)
<1> DEFINE u == Dispatch(t, log, id)
<1>1. u.handled = IF Handles(t, log) THEN Append(t.handled, id) ELSE t.handled
  BY Dispatched
<1>2. t.handled \in Seq(Ids)
  BY DEF StreamTable
<1> HIDE DEF u
<1>3. /\ ToSet(u.handled) = IF Handles(t, log) THEN ToSet(t.handled) \cup {id} ELSE ToSet(t.handled)
      /\ IsInjective(t.handled) /\ id \notin ToSet(t.handled) => IsInjective(u.handled)
  BY <1>1, <1>2, Appended
<1> QED BY <1>3 DEF u

\* Safe events of known hosts: each is handled, and nothing else changes.
LEMMA SecondPass ==
  ASSUME NEW u \in StreamTable, NEW block \in Seq(StreamLogs), NEW n \in Nat, NEW D,
         D \subseteq 1 .. Len(block), \A j \in D : IsSafe(block[j]) /\ block[j].safe \in u.hosts
  PROVE  LET r == DispatchAll(u, block, n, D) IN
         /\ r \in StreamTable /\ Same(r, u)
         /\ ToSet(r.handled) = ToSet(u.handled) \cup {<<n, j>> : j \in D}
         /\ IsInjective(u.handled) /\ (\A j \in D : <<n, j>> \notin ToSet(u.handled))
              => IsInjective(r.handled)
<1> DEFINE N == Len(block)
           r == DispatchAll(u, block, n, D)
           Fresh == IsInjective(u.handled) /\ \A j \in D : <<n, j>> \notin ToSet(u.handled)
<1>0. N \in Nat /\ \A i \in 1 .. N : block[i] \in StreamLogs
  BY LenProperties, ElementOfSeq
<1>1. PICK f : Passes(f, u, block, n, D) /\ r = f[N]
  BY <1>0, DispatchAllPasses
<1> DEFINE Inv(i) == /\ f[i] \in StreamTable /\ Same(f[i], u)
                     /\ ToSet(f[i].handled) = ToSet(u.handled) \cup {<<n, j>> : j \in D \cap (1 .. i)}
                     /\ Fresh => IsInjective(f[i].handled)
           P == {i \in 0 .. N : Inv(i)}
<1>2. Inv(0)
  <2>1. f[0] = u /\ D \cap (1 .. 0) = {}
    BY <1>1 DEF Passes
  <2> QED BY <2>1 DEF Same
<1>3. ASSUME NEW i \in 1 .. N, Inv(i - 1) PROVE Inv(i)
  <2>0. i \in Nat /\ i - 1 \in Nat /\ block[i] \in StreamLogs /\ <<n, i>> \in Ids
    BY <1>0 DEF Ids
  <2>1. CASE i \notin D
    <3>1. f[i] = f[i - 1] /\ D \cap (1 .. i) = D \cap (1 .. i - 1)
      BY <1>1, <2>0, <2>1 DEF Passes
    <3> QED BY <1>3, <3>1
  <2>2. CASE i \in D
    <3> DEFINE v == f[i - 1]
               w == Dispatch(v, block[i], <<n, i>>)
    <3>1. f[i] = w
      BY <1>1, <2>2 DEF Passes
    <3>2. v \in StreamTable /\ Same(v, u) /\ Handles(v, block[i]) /\ block[i].kind # "create" /\ block[i].kind # "register"
      BY <1>3, <2>2 DEF Same, Handles, IsSafe
    <3>3. w \in StreamTable /\ Same(w, u)
      <4>1. NewServices(v, block[i]) = {} /\ NewHosts(v, block[i]) = {}
        BY <2>0, <3>2, NewRows
      <4>2. /\ w \in StreamTable /\ w.services = v.services \cup NewServices(v, block[i])
            /\ w.hosts = v.hosts \cup NewHosts(v, block[i])
            /\ w.operator = IF block[i].kind = "register"
                            THEN [v.operator EXCEPT ![block[i].service] = block[i].operator] ELSE v.operator
        BY <2>0, <3>2, Dispatched
      <4> HIDE DEF v, w
      <4> QED BY <3>2, <4>1, <4>2 DEF Same
    <3>4. ToSet(w.handled) = ToSet(v.handled) \cup {<<n, i>>}
      BY <2>0, <3>2, HandledBy
    <3>5. D \cap (1 .. i) = (D \cap (1 .. i - 1)) \cup {i} /\ i \notin 1 .. i - 1
      BY <2>0, <2>2
    <3>6. ToSet(w.handled) = ToSet(u.handled) \cup {<<n, j>> : j \in D \cap (1 .. i)}
      BY <1>3, <3>4, <3>5
    <3>7. ASSUME Fresh PROVE IsInjective(w.handled)
      <4>1. <<n, i>> \notin ToSet(v.handled)
        BY <1>3, <2>2, <3>5, <3>7
      <4> QED BY <1>3, <2>0, <3>2, <3>7, <4>1, HandledBy
    <3> HIDE DEF w
    <3> QED BY <3>1, <3>3, <3>6, <3>7
  <2> QED BY <2>1, <2>2
<1>4. 0 .. N \subseteq P
  <2>1. 0 \in P /\ \A i \in 1 .. N : i - 1 \in P => i \in P
    BY <1>0, <1>2, <1>3
  <2> HIDE DEF P
  <2> QED BY <1>0, <2>1, Upward
<1>5. Inv(N) /\ D \cap (1 .. N) = D
  <2>1. N \in P
    BY <1>0, <1>4
  <2>2. D \cap (1 .. N) = D
    OBVIOUS
  <2> HIDE DEF Inv
  <2> QED BY <2>1, <2>2
<1> HIDE DEF r
<1>6. r \in StreamTable /\ Same(r, u) /\ ToSet(r.handled) = ToSet(u.handled) \cup {<<n, j>> : j \in D}
      /\ (Fresh => IsInjective(r.handled))
  BY <1>1, <1>5
<1> QED BY <1>6 DEF r

-----------------------------------------------------------------------------
(* A block, log by log: processBlock beside the first pass of graph-node.     *)

Streams == [services : SUBSET Multisigs, hosts : SUBSET Hosts]
Progress(block) ==
  [t : StreamTable, newHosts : SUBSET Hosts, deferred : SUBSET (1 .. Len(block)), carried : Streams,
   queue : SUBSET (1 .. Len(block))]

\* The logs of graph-node's first pass, and what one of a block does to its tables.
Old(t, log) == IsSafe(log) => log.safe \in t.hosts
FirstPass(t, g, log, id) == IF Old(t, log) THEN Dispatch(g, log, id) ELSE g

\* The Safe events that wait for the second pass.
Later(block, t, g, i) == {j \in 1 .. i : IsSafe(block[j]) /\ block[j].safe \in g.hosts \ t.hosts}

\* What fetchMissingLogs brings.
Missing(block, d, log) ==
  {j \in DOMAIN block : /\ block[j].kind \in {"transfer", "safe"}
                        /\ Carries(block[j], NewServices(d.t, log) \ d.carried.services,
                                   NewHosts(d.t, log) \ d.carried.hosts)}

Waits(block, d, i) == IsSafe(block[i]) /\ block[i].safe \in d.newHosts

LEMMA LogSkipped ==
  ASSUME NEW block, NEW n, NEW i, NEW d, i \notin d.queue
  PROVE  ProcessLog(block, n, d, i) = d
BY Zenon DEF ProcessLog

LEMMA LogDeferred ==
  ASSUME NEW block, NEW n, NEW i, NEW d, i \in d.queue, Waits(block, d, i)
  PROVE  ProcessLog(block, n, d, i) = [d EXCEPT !.deferred = @ \cup {i}]
BY Zenon DEF ProcessLog, Waits

LEMMA LogDispatched ==
  ASSUME NEW block, NEW n, NEW i, NEW d, i \in d.queue, ~ Waits(block, d, i)
  PROVE  LET log == block[i] IN
         ProcessLog(block, n, d, i)
           = [t |-> Dispatch(d.t, log, <<n, i>>),
              newHosts |-> d.newHosts \cup NewHosts(d.t, log),
              deferred |-> d.deferred
                             \cup Deferred(block, d, i, NewHosts(d.t, log), Missing(block, d, log)),
              carried |-> [services |-> d.carried.services \cup NewServices(d.t, log),
                           hosts |-> d.carried.hosts \cup NewHosts(d.t, log)],
              queue |-> d.queue \cup Missing(block, d, log)]
BY Zenon DEF ProcessLog, Waits, Missing

\* What a log of the first pass, and one that is dispatched, makes of a table.
FirstPassedTo(t, g, log, id, h) ==
  /\ h \in StreamTable
  /\ h.services = g.services \cup NewServices(g, log)
  /\ h.hosts = g.hosts \cup NewHosts(g, log)
  /\ h.operator = IF log.kind = "register" THEN [g.operator EXCEPT ![log.service] = log.operator]
                  ELSE g.operator
  /\ ToSet(h.handled) = IF Handles(g, log) /\ Old(t, log) THEN ToSet(g.handled) \cup {id}
                        ELSE ToSet(g.handled)

DispatchedTo(t, log, id, u) ==
  /\ u \in StreamTable
  /\ u.services = t.services \cup NewServices(t, log)
  /\ u.hosts = t.hosts \cup NewHosts(t, log)
  /\ u.operator = IF log.kind = "register" THEN [t.operator EXCEPT ![log.service] = log.operator]
                  ELSE t.operator
  /\ ToSet(u.handled) = IF Handles(t, log) THEN ToSet(t.handled) \cup {id} ELSE ToSet(t.handled)
  /\ IsInjective(t.handled) /\ id \notin ToSet(t.handled) => IsInjective(u.handled)

LEMMA DispatchFacts ==
  ASSUME NEW t \in StreamTable, NEW log \in StreamLogs, NEW id \in Ids
  PROVE  DispatchedTo(t, log, id, Dispatch(t, log, id))
BY Dispatched, HandledBy DEF DispatchedTo

LEMMA FirstPassed ==
  ASSUME NEW t \in StreamTable, NEW g \in StreamTable, t.hosts \subseteq g.hosts, NEW log \in StreamLogs, NEW id \in Ids
  PROVE  FirstPassedTo(t, g, log, id, FirstPass(t, g, log, id))
<1> DEFINE h == FirstPass(t, g, log, id)
           u == Dispatch(g, log, id)
<1>1. CASE ~ Old(t, log)
  <2>1. h = g /\ log.kind = "safe"
    BY <1>1 DEF FirstPass, Old, IsSafe
  <2>2. NewServices(g, log) = {} /\ NewHosts(g, log) = {}
    BY <2>1, NewRows
  <2> HIDE DEF h
  <2>3. /\ h \in StreamTable
        /\ h.services = g.services \cup NewServices(g, log) /\ h.hosts = g.hosts \cup NewHosts(g, log)
        /\ h.operator = g.operator /\ h.handled = g.handled
    BY <2>1, <2>2
  <2> QED BY <1>1, <2>1, <2>3 DEF h, FirstPassedTo
<1>2. CASE Old(t, log)
  <2>1. h = u
    BY <1>2 DEF FirstPass
  <2>2. /\ u \in StreamTable
        /\ u.services = g.services \cup NewServices(g, log) /\ u.hosts = g.hosts \cup NewHosts(g, log)
        /\ u.operator = IF log.kind = "register" THEN [g.operator EXCEPT ![log.service] = log.operator]
                        ELSE g.operator
        /\ ToSet(u.handled) = IF Handles(g, log) THEN ToSet(g.handled) \cup {id} ELSE ToSet(g.handled)
    BY Dispatched, HandledBy
  <2> HIDE DEF u, h
  <2> QED BY <1>2, <2>1, <2>2 DEF h, FirstPassedTo
<1> QED BY <1>1, <1>2

\* What is so after i logs, whatever the stream carries.
Follow(block, n, t, d, g, i) ==
  /\ d \in Progress(block) /\ g \in StreamTable
  /\ Same(d.t, g) /\ t.hosts \subseteq g.hosts
  /\ ToSet(d.t.handled) \subseteq ToSet(g.handled)
  /\ d.newHosts = g.hosts \ t.hosts
  /\ d.deferred \subseteq Later(block, t, g, i)
  /\ {j \in 1 .. Len(block) : block[j].kind \in {"register", "create"}} \subseteq d.queue
  /\ IsInjective(t.handled) => IsInjective(d.t.handled)
  /\ ToSet(d.t.handled) \subseteq ToSet(t.handled) \cup {<<n, j>> : j \in {k \in 1 .. i : Old(t, block[k])}}

\* And if it carries what the tables know.
Agree(block, t, d, g, i) ==
  /\ d.t = g
  /\ d.deferred = Later(block, t, g, i)
  /\ d.carried = [services |-> g.services, hosts |-> g.hosts]
  /\ d.queue = {j \in DOMAIN block : Carries(block[j], g.services, g.hosts)}

LEMMA LaterGrows ==
  ASSUME NEW block, NEW t, NEW g, NEW h, g.hosts \subseteq h.hosts, NEW i \in Nat \ {0}
  PROVE  Later(block, t, g, i - 1) \subseteq Later(block, t, h, i)
BY DEF Later

LEMMA FollowSkipped ==
  ASSUME NEW block \in Seq(StreamLogs), NEW n \in Nat, NEW i \in 1 .. Len(block),
         NEW t \in StreamTable, NEW d, NEW g, Follow(block, n, t, d, g, i - 1),
         i \notin d.queue
  PROVE  Follow(block, n, t, ProcessLog(block, n, d, i), FirstPass(t, g, block[i], <<n, i>>), i)
<1> DEFINE log == block[i]
           h == FirstPass(t, g, log, <<n, i>>)
<1>1. /\ d \in Progress(block) /\ d.t \in StreamTable /\ g \in StreamTable /\ log \in StreamLogs /\ <<n, i>> \in Ids
      /\ i \in Nat \ {0} /\ log.kind \notin {"register", "create"} /\ t.hosts \subseteq g.hosts
  BY ElementOfSeq, LenProperties DEF Follow, Progress, Ids
<1>2. ProcessLog(block, n, d, i) = d
  BY LogSkipped
<1>3. NewServices(g, log) = {} /\ NewHosts(g, log) = {}
  BY <1>1, NewRows
<1>4. /\ h \in StreamTable /\ h.services = g.services /\ h.hosts = g.hosts /\ h.operator = g.operator
      /\ ToSet(g.handled) \subseteq ToSet(h.handled)
  <2>1. /\ h \in StreamTable /\ h.services = g.services \cup NewServices(g, log)
        /\ h.hosts = g.hosts \cup NewHosts(g, log)
        /\ h.operator = IF log.kind = "register" THEN [g.operator EXCEPT ![log.service] = log.operator]
                        ELSE g.operator
        /\ ToSet(h.handled) = IF Handles(g, log) /\ Old(t, log) THEN ToSet(g.handled) \cup {<<n, i>>}
                              ELSE ToSet(g.handled)
    <3>1. FirstPassedTo(t, g, log, <<n, i>>, h)
      BY <1>1, FirstPassed
    <3> HIDE DEF h
    <3> QED BY <3>1 DEF FirstPassedTo
  <2> HIDE DEF h
  <2> QED BY <1>1, <1>3, <2>1
<1> HIDE DEF h
<1>5. Follow(block, n, t, d, h, i)
  <2>1. Same(d.t, h) /\ t.hosts \subseteq h.hosts /\ ToSet(d.t.handled) \subseteq ToSet(h.handled)
        /\ d.newHosts = h.hosts \ t.hosts
    BY <1>4 DEF Follow, Same
  <2>2. d.deferred \subseteq Later(block, t, h, i)
    BY <1>1, <1>4, LaterGrows DEF Follow
  <2>3. ToSet(d.t.handled) \subseteq ToSet(t.handled) \cup {<<n, j>> : j \in {k \in 1 .. i : Old(t, block[k])}}
    BY <1>1 DEF Follow
  <2> QED BY <1>1, <1>4, <2>1, <2>2, <2>3 DEF Follow
<1> QED BY <1>2, <1>5 DEF h

LEMMA FollowDeferred ==
  ASSUME NEW block \in Seq(StreamLogs), NEW n \in Nat, NEW i \in 1 .. Len(block),
         NEW t \in StreamTable, NEW d, NEW g, Follow(block, n, t, d, g, i - 1),
         i \in d.queue, Waits(block, d, i)
  PROVE  Follow(block, n, t, ProcessLog(block, n, d, i), FirstPass(t, g, block[i], <<n, i>>), i)
<1> DEFINE e == [d EXCEPT !.deferred = @ \cup {i}]
<1>0. d \in Progress(block) /\ d.newHosts = g.hosts \ t.hosts
  BY DEF Follow
<1>1. /\ d \in Progress(block) /\ i \in Nat \ {0} /\ ~ Old(t, block[i])
      /\ IsSafe(block[i]) /\ block[i].safe \in g.hosts \ t.hosts
  BY <1>0, LenProperties DEF Waits, Old
<1>2. ProcessLog(block, n, d, i) = e
  BY LogDeferred
<1>3. FirstPass(t, g, block[i], <<n, i>>) = g
  BY <1>1 DEF FirstPass
<1>4. /\ e \in Progress(block) /\ e.t = d.t /\ e.newHosts = d.newHosts /\ e.queue = d.queue
      /\ e.deferred = d.deferred \cup {i}
  BY <1>1 DEF Progress
<1> HIDE DEF e
<1>5. e.deferred \subseteq Later(block, t, g, i)
  BY <1>1, <1>4 DEF Follow, Later
<1>6. ToSet(d.t.handled) \subseteq ToSet(t.handled) \cup {<<n, j>> : j \in {k \in 1 .. i : Old(t, block[k])}}
  BY <1>1 DEF Follow
<1>7. Follow(block, n, t, e, g, i)
  BY <1>4, <1>5, <1>6 DEF Follow
<1> QED BY <1>2, <1>3, <1>7

LEMMA FollowDispatched ==
  ASSUME NEW block \in Seq(StreamLogs), NEW n \in Nat, NEW i \in 1 .. Len(block),
         NEW t \in StreamTable, NEW d, NEW g, Follow(block, n, t, d, g, i - 1),
         \A j \in 1 .. Len(block) : <<n, j>> \notin ToSet(t.handled),
         i \in d.queue, ~ Waits(block, d, i)
  PROVE  Follow(block, n, t, ProcessLog(block, n, d, i), FirstPass(t, g, block[i], <<n, i>>), i)
<1> DEFINE log == block[i]
           h == FirstPass(t, g, log, <<n, i>>)
           u == Dispatch(d.t, log, <<n, i>>)
           hosts == NewHosts(g, log)
           late == Deferred(block, d, i, NewHosts(d.t, log), Missing(block, d, log))
           e == [t |-> u,
                 newHosts |-> d.newHosts \cup NewHosts(d.t, log),
                 deferred |-> d.deferred \cup late,
                 carried |-> [services |-> d.carried.services \cup NewServices(d.t, log),
                              hosts |-> d.carried.hosts \cup NewHosts(d.t, log)],
                 queue |-> d.queue \cup Missing(block, d, log)]
<1>1. /\ d \in Progress(block) /\ d.t \in StreamTable /\ g \in StreamTable /\ log \in StreamLogs /\ <<n, i>> \in Ids
      /\ i \in Nat \ {0} /\ t.hosts \subseteq g.hosts /\ Same(d.t, g) /\ d.newHosts = g.hosts \ t.hosts
      /\ DOMAIN block = 1 .. Len(block)
  BY ElementOfSeq, LenProperties DEF Follow, Progress, Ids
<1>2. ProcessLog(block, n, d, i) = e
  BY LogDispatched, Zenon
<1>3. /\ NewServices(d.t, log) = NewServices(g, log) /\ NewHosts(d.t, log) = hosts
      /\ Handles(d.t, log) <=> Handles(g, log)
  BY <1>1, SameDispatched
<1>4. /\ h \in StreamTable /\ h.services = g.services \cup NewServices(g, log) /\ h.hosts = g.hosts \cup hosts
      /\ h.operator = IF log.kind = "register" THEN [g.operator EXCEPT ![log.service] = log.operator]
                      ELSE g.operator
      /\ ToSet(h.handled) = IF Handles(g, log) /\ Old(t, log) THEN ToSet(g.handled) \cup {<<n, i>>}
                            ELSE ToSet(g.handled)
  <2>1. FirstPassedTo(t, g, log, <<n, i>>, h)
    BY <1>1, FirstPassed
  <2> HIDE DEF h, hosts, log
  <2> QED BY <2>1 DEF FirstPassedTo, hosts
<1>5. /\ u \in StreamTable /\ u.services = d.t.services \cup NewServices(d.t, log)
      /\ u.hosts = d.t.hosts \cup NewHosts(d.t, log)
      /\ u.operator = IF log.kind = "register" THEN [d.t.operator EXCEPT ![log.service] = log.operator]
                      ELSE d.t.operator
      /\ ToSet(u.handled) = IF Handles(d.t, log) THEN ToSet(d.t.handled) \cup {<<n, i>>}
                            ELSE ToSet(d.t.handled)
      /\ IsInjective(d.t.handled) /\ <<n, i>> \notin ToSet(d.t.handled) => IsInjective(u.handled)
  <2>1. DispatchedTo(d.t, log, <<n, i>>, u)
    BY <1>1, DispatchFacts
  <2> HIDE DEF u, log
  <2> QED BY <2>1 DEF DispatchedTo
<1>6. Handles(g, log) => Old(t, log)
  BY <1>1 DEF Handles, Old, Waits, IsSafe
<1>7. hosts \in SUBSET Hosts /\ hosts \cap g.hosts = {} /\ NewServices(g, log) \in SUBSET Multisigs
  BY <1>1, NewRows
<1>8. late \subseteq Later(block, t, h, i)
  <2>1. \A j \in late : j \in 1 .. i - 1 /\ IsSafe(block[j]) /\ block[j].safe \in d.newHosts \cup hosts
    BY <1>3 DEF Deferred
  <2>2. d.newHosts \cup hosts \subseteq h.hosts \ t.hosts
    BY <1>1, <1>4, <1>7
  <2> HIDE DEF late, h, hosts
  <2> QED BY <1>1, <2>1, <2>2 DEF Later
<1>9. e \in Progress(block)
  <2>1. late \subseteq 1 .. Len(block) /\ Missing(block, d, log) \subseteq 1 .. Len(block)
    <3>1. Missing(block, d, log) \subseteq 1 .. Len(block)
      BY <1>1 DEF Missing
    <3>2. Later(block, t, h, i) \subseteq 1 .. Len(block)
      BY LenProperties DEF Later
    <3> QED BY <1>8, <3>1, <3>2
  <2> HIDE DEF late, u, hosts
  <2> QED BY <1>1, <1>3, <1>5, <1>7, <2>1 DEF Progress, Streams
<1> HIDE DEF h, u, late
<1>10. Same(u, h)
  <2> HIDE DEF hosts
  <2> QED BY <1>1, <1>3, <1>4, <1>5 DEF Same
<1>11. ToSet(u.handled) \subseteq ToSet(h.handled)
  BY <1>3, <1>4, <1>5, <1>6 DEF Follow
<1>12. ToSet(u.handled) \subseteq ToSet(t.handled) \cup {<<n, j>> : j \in {k \in 1 .. i : Old(t, block[k])}}
  <2>1. ToSet(d.t.handled) \subseteq ToSet(t.handled) \cup {<<n, j>> : j \in {k \in 1 .. i : Old(t, block[k])}}
    BY <1>1 DEF Follow
  <2>2. Handles(d.t, log) => <<n, i>> \in {<<n, j>> : j \in {k \in 1 .. i : Old(t, block[k])}}
    BY <1>1, <1>3, <1>6
  <2> QED BY <1>5, <2>1, <2>2
<1>13. IsInjective(t.handled) => IsInjective(u.handled)
  <2>1. <<n, i>> \notin ToSet(d.t.handled)
    BY <1>1 DEF Follow
  <2> QED BY <1>5, <2>1 DEF Follow
<1>14. d.newHosts \cup NewHosts(d.t, log) = h.hosts \ t.hosts
  BY <1>1, <1>3, <1>4, <1>7
<1>15. d.deferred \cup late \subseteq Later(block, t, h, i)
  <2>1. d.deferred \subseteq Later(block, t, h, i)
    BY <1>1, <1>4, LaterGrows DEF Follow
  <2> QED BY <1>8, <2>1
<1>16. Follow(block, n, t, e, h, i)
  <2>1. t.hosts \subseteq h.hosts
    BY <1>1, <1>4
  <2>2. {j \in 1 .. Len(block) : block[j].kind \in {"register", "create"}} \subseteq e.queue
    BY DEF Follow
  <2>3. e.t = u /\ e.newHosts = d.newHosts \cup NewHosts(d.t, log) /\ e.deferred = d.deferred \cup late
    OBVIOUS
  <2> HIDE DEF e
  <2> QED BY <1>4, <1>9, <1>10, <1>11, <1>12, <1>13, <1>14, <1>15, <2>1, <2>2, <2>3 DEF Follow
<1> HIDE DEF e
<1> QED BY <1>2, <1>16 DEF h

-----------------------------------------------------------------------------
(* A block of a stream that carries what the tables know.                     *)

LEMMA AgreeSkipped ==
  ASSUME NEW block \in Seq(StreamLogs), NEW n \in Nat, NEW i \in 1 .. Len(block),
         NEW t \in StreamTable, NEW d, NEW g, Follow(block, n, t, d, g, i - 1), Agree(block, t, d, g, i - 1),
         i \notin d.queue
  PROVE  Agree(block, t, ProcessLog(block, n, d, i), FirstPass(t, g, block[i], <<n, i>>), i)
<1> DEFINE log == block[i]
<1>1. /\ log \in StreamLogs /\ i \in Nat \ {0} /\ i \in DOMAIN block /\ t.hosts \subseteq g.hosts
  BY ElementOfSeq, LenProperties DEF Follow
<1>2. ProcessLog(block, n, d, i) = d
  BY LogSkipped
<1>3. ~ Carries(log, g.services, g.hosts)
  BY <1>1 DEF Agree
<1>4. \/ log.kind = "transfer" /\ log.safe \notin g.services
      \/ log.kind = "safe" /\ log.safe \notin g.hosts
  BY <1>1, <1>3, LogKinds DEF Carries
<1>5. FirstPass(t, g, log, <<n, i>>) = g
  <2>1. CASE log.kind = "transfer" /\ log.safe \notin g.services
    BY <2>1 DEF FirstPass, Dispatch
  <2>2. CASE log.kind = "safe" /\ log.safe \notin g.hosts
    BY <1>1, <2>2 DEF FirstPass, Old, IsSafe
  <2> QED BY <1>4, <2>1, <2>2
<1>6. Later(block, t, g, i) = Later(block, t, g, i - 1)
  BY <1>1, <1>4 DEF Later, IsSafe
<1> QED BY <1>2, <1>5, <1>6 DEF Agree

LEMMA AgreeDeferred ==
  ASSUME NEW block \in Seq(StreamLogs), NEW n \in Nat, NEW i \in 1 .. Len(block),
         NEW t \in StreamTable, NEW d, NEW g, Follow(block, n, t, d, g, i - 1), Agree(block, t, d, g, i - 1),
         i \in d.queue, Waits(block, d, i)
  PROVE  Agree(block, t, ProcessLog(block, n, d, i), FirstPass(t, g, block[i], <<n, i>>), i)
<1> DEFINE e == [d EXCEPT !.deferred = @ \cup {i}]
<1>0. d \in Progress(block) /\ d.newHosts = g.hosts \ t.hosts
  BY DEF Follow
<1>1. /\ i \in Nat \ {0} /\ ~ Old(t, block[i])
      /\ IsSafe(block[i]) /\ block[i].safe \in g.hosts \ t.hosts
  BY <1>0, LenProperties DEF Waits, Old
<1>2. ProcessLog(block, n, d, i) = e
  BY LogDeferred
<1>3. FirstPass(t, g, block[i], <<n, i>>) = g
  BY <1>1 DEF FirstPass
<1>4. /\ e.t = d.t /\ e.carried = d.carried /\ e.queue = d.queue /\ e.deferred = d.deferred \cup {i}
  BY <1>0 DEF Progress
<1> HIDE DEF e
<1>5. Later(block, t, g, i) = Later(block, t, g, i - 1) \cup {i}
  BY <1>1 DEF Later
<1> QED BY <1>2, <1>3, <1>4, <1>5 DEF Agree

LEMMA AgreeDispatched ==
  ASSUME NEW block \in Seq(StreamLogs), NEW n \in Nat, NEW i \in 1 .. Len(block),
         NEW t \in StreamTable, NEW d, NEW g, Follow(block, n, t, d, g, i - 1), Agree(block, t, d, g, i - 1),
         i \in d.queue, ~ Waits(block, d, i)
  PROVE  Agree(block, t, ProcessLog(block, n, d, i), FirstPass(t, g, block[i], <<n, i>>), i)
<1> DEFINE log == block[i]
           u == Dispatch(g, log, <<n, i>>)
           hosts == NewHosts(g, log)
           services == NewServices(g, log)
           missing == Missing(block, d, log)
           late == Deferred(block, d, i, hosts, missing)
           e == [t |-> u,
                 newHosts |-> d.newHosts \cup hosts,
                 deferred |-> d.deferred \cup late,
                 carried |-> [services |-> d.carried.services \cup services,
                              hosts |-> d.carried.hosts \cup hosts],
                 queue |-> d.queue \cup missing]
<1>1. /\ d \in Progress(block) /\ g \in StreamTable /\ log \in StreamLogs /\ <<n, i>> \in Ids
      /\ i \in Nat \ {0} /\ t.hosts \subseteq g.hosts /\ d.newHosts = g.hosts \ t.hosts
      /\ DOMAIN block = 1 .. Len(block) /\ d.t = g
      /\ \A j \in 1 .. Len(block) : block[j] \in StreamLogs
  BY ElementOfSeq, LenProperties DEF Follow, Agree, Progress, Ids
<1>2. ProcessLog(block, n, d, i) = e
  BY <1>1, LogDispatched, Zenon
<1>3. Carries(log, g.services, g.hosts)
  BY DEF Agree
<1>4. Old(t, log)
  BY <1>1, <1>3 DEF Old, Waits, Carries, IsSafe
<1>5. FirstPass(t, g, log, <<n, i>>) = u
  BY <1>4 DEF FirstPass
<1>6. u.services = g.services \cup services /\ u.hosts = g.hosts \cup hosts
  <2>1. DispatchedTo(g, log, <<n, i>>, u)
    BY <1>1, DispatchFacts
  <2> HIDE DEF u, log
  <2> QED BY <2>1 DEF DispatchedTo
<1>7. hosts \cap g.hosts = {} /\ services \cap g.services = {}
  BY <1>1, NewRows
<1>8. missing = {j \in DOMAIN block : \/ block[j].kind = "transfer" /\ block[j].safe \in services
                                      \/ block[j].kind = "safe" /\ block[j].safe \in hosts}
  <2>1. NewServices(d.t, log) \ d.carried.services = services /\ NewHosts(d.t, log) \ d.carried.hosts = hosts
    BY <1>1, <1>7 DEF Agree
  <2>2. missing = {j \in DOMAIN block : block[j].kind \in {"transfer", "safe"}
                                          /\ Carries(block[j], services, hosts)}
    <3> HIDE DEF services, hosts
    <3> QED BY <2>1 DEF Missing
  <2> HIDE DEF services, hosts, missing
  <2> QED BY <2>2 DEF Carries
<1> HIDE DEF u, missing, hosts, services
<1>9. d.deferred \cup late = Later(block, t, u, i)
  <2>1. d.deferred = Later(block, t, g, i - 1)
    BY DEF Agree
  <2>2. late = {j \in 1 .. i - 1 : IsSafe(block[j]) /\ block[j].safe \in hosts}
    <3>1. \A j \in late : j \in 1 .. i - 1 /\ IsSafe(block[j]) /\ block[j].safe \in hosts
      BY <1>1, <1>7, <1>8 DEF Deferred, Agree, Carries, IsSafe
    <3>2. ASSUME NEW j \in 1 .. i - 1, IsSafe(block[j]), block[j].safe \in hosts PROVE j \in late
      <4>1. j \in DOMAIN block /\ j \in missing
        BY <1>1, <1>8, <3>2 DEF IsSafe
      <4> QED BY <3>2, <4>1 DEF Deferred
    <3> HIDE DEF late
    <3> QED BY <3>1, <3>2
  <2>3. t.hosts \cap hosts = {}
    BY <1>1, <1>7
  <2> HIDE DEF late
  <2> QED BY <1>1, <1>4, <1>6, <2>1, <2>2, <2>3 DEF Later, Old
<1>10. d.queue \cup missing = {j \in DOMAIN block : Carries(block[j], u.services, u.hosts)}
  <2>1. d.queue = {j \in DOMAIN block : Carries(block[j], g.services, g.hosts)}
    BY DEF Agree
  <2>2. ASSUME NEW j \in DOMAIN block
        PROVE  Carries(block[j], u.services, u.hosts) <=>
                 Carries(block[j], g.services, g.hosts) \/ j \in missing
    BY <1>1, <1>6, <1>8, LogKinds DEF Carries
  <2> QED BY <1>8, <2>1, <2>2
<1>11. Agree(block, t, e, u, i)
  <2>1. /\ e.t = u /\ e.deferred = d.deferred \cup late /\ e.queue = d.queue \cup missing
        /\ e.carried = [services |-> d.carried.services \cup services, hosts |-> d.carried.hosts \cup hosts]
    OBVIOUS
  <2>2. e.carried = [services |-> u.services, hosts |-> u.hosts]
    BY <1>6, <2>1 DEF Agree
  <2> HIDE DEF e, late
  <2> QED BY <1>9, <1>10, <2>1, <2>2 DEF Agree
<1> HIDE DEF e
<1> QED BY <1>2, <1>5, <1>11

-----------------------------------------------------------------------------
(* A block: processBlock beside graph-node.                                   *)

\* What the stream carries is what the tables know.
Carried(t, streamed) ==
  /\ tracked.services = t.services /\ tracked.hosts = t.hosts
  /\ streamed = [services |-> t.services, hosts |-> t.hosts]

LEMMA BlockStarts ==
  ASSUME NEW block \in Seq(StreamLogs), NEW n \in Nat, NEW t \in StreamTable, NEW s \in StreamTable, NEW streamed \in Streams,
         Same(t, s), ToSet(t.handled) \subseteq ToSet(s.handled)
  PROVE  /\ Follow(block, n, t, BlockStart(t, block, streamed), s, 0)
         /\ t = s /\ Carried(t, streamed) => Agree(block, t, BlockStart(t, block, streamed), s, 0)
<1> DEFINE d == BlockStart(t, block, streamed)
<1>1. /\ d.t = t /\ d.newHosts = {} /\ d.deferred = {} /\ d.carried = streamed
      /\ d.queue = {i \in DOMAIN block : Carries(block[i], tracked.services, tracked.hosts)}
      /\ d = [t |-> d.t, newHosts |-> d.newHosts, deferred |-> d.deferred, carried |-> d.carried,
              queue |-> d.queue]
  BY DEF BlockStart
<1>2. DOMAIN block = 1 .. Len(block)
  BY LenProperties
<1> HIDE DEF d
<1>3. d \in Progress(block)
  BY <1>1, <1>2 DEF Progress
<1>4. {j \in 1 .. Len(block) : block[j].kind \in {"register", "create"}} \subseteq d.queue
  BY <1>1, <1>2 DEF Carries
<1>5. t.hosts = s.hosts
  BY DEF Same
<1>6. Follow(block, n, t, d, s, 0)
  BY <1>1, <1>3, <1>4, <1>5 DEF Follow
<1>7. ASSUME t = s, Carried(t, streamed) PROVE Agree(block, t, d, s, 0)
  <2>1. Later(block, t, s, 0) = {}
    BY <1>5 DEF Later
  <2> QED BY <1>1, <1>7, <2>1 DEF Agree, Carried
<1> QED BY <1>6, <1>7 DEF d

LEMMA LogsFollow ==
  ASSUME NEW block \in Seq(StreamLogs), NEW n \in Nat, NEW i \in 1 .. Len(block),
         NEW t \in StreamTable, NEW d, NEW g, Follow(block, n, t, d, g, i - 1),
         \A j \in 1 .. Len(block) : <<n, j>> \notin ToSet(t.handled)
  PROVE  LET e == ProcessLog(block, n, d, i)
             h == FirstPass(t, g, block[i], <<n, i>>) IN
         /\ Follow(block, n, t, e, h, i)
         /\ Agree(block, t, d, g, i - 1) => Agree(block, t, e, h, i)
<1>1. CASE i \notin d.queue
  BY <1>1, FollowSkipped, AgreeSkipped
<1>2. CASE i \in d.queue /\ Waits(block, d, i)
  BY <1>2, FollowDeferred, AgreeDeferred
<1>3. CASE i \in d.queue /\ ~ Waits(block, d, i)
  BY <1>3, FollowDispatched, AgreeDispatched
<1> QED BY <1>1, <1>2, <1>3

LEMMA BlockFollows ==
  ASSUME NEW block \in Seq(StreamLogs), NEW n \in Nat, NEW t \in StreamTable, NEW s \in StreamTable, NEW streamed \in Streams,
         Same(t, s), ToSet(t.handled) \subseteq ToSet(s.handled),
         \A j \in 1 .. Len(block) : <<n, j>> \notin ToSet(t.handled)
  PROVE  \E d, g :
           /\ Follow(block, n, t, d, g, Len(block))
           /\ t = s /\ Carried(t, streamed) => Agree(block, t, d, g, Len(block))
           /\ ProcessBlock(t, block, n, streamed)
                = [t |-> DispatchAll(d.t, block, n, d.deferred), carried |-> d.carried]
           /\ GraphNodeBlock(s, block, n) = DispatchAll(g, block, n, Later(block, t, g, Len(block)))
<1> DEFINE N == Len(block)
           old == {i \in DOMAIN block : IsSafe(block[i]) => block[i].safe \in s.hosts}
           Exact == t = s /\ Carried(t, streamed)
<1>0. N \in Nat /\ DOMAIN block = 1 .. N /\ t.hosts = s.hosts
  BY LenProperties DEF Same
<1>1. PICK d : /\ Processes(d, t, block, n, streamed)
               /\ ProcessBlock(t, block, n, streamed)
                    = [t |-> DispatchAll(d[N].t, block, n, d[N].deferred), carried |-> d[N].carried]
  BY <1>0, BlockProcesses
<1>2. PICK g : Passes(g, s, block, n, old) /\ DispatchAll(s, block, n, old) = g[N]
  <2> HIDE DEF old
  <2> QED BY <1>0, DispatchAllPasses
<1>3. \A i \in 1 .. N : /\ d[i] = ProcessLog(block, n, d[i - 1], i)
                        /\ g[i] = FirstPass(t, g[i - 1], block[i], <<n, i>>)
  BY <1>0, <1>1, <1>2 DEF Processes, Passes, FirstPass, Old
<1> DEFINE Inv(i) == /\ Follow(block, n, t, d[i], g[i], i)
                     /\ Exact => Agree(block, t, d[i], g[i], i)
           P == {i \in 0 .. N : Inv(i)}
<1>4. Inv(0)
  BY <1>1, <1>2, BlockStarts DEF Processes, Passes
<1>5. ASSUME NEW i \in 1 .. N, Inv(i - 1) PROVE Inv(i)
  BY <1>3, <1>5, LogsFollow
<1>6. N \in P
  <2>1. 0 \in P /\ \A i \in 1 .. N : i - 1 \in P => i \in P
    BY <1>0, <1>4, <1>5
  <2>2. N \in 0 .. N
    BY <1>0
  <2> HIDE DEF P, N
  <2>3. 0 .. N \subseteq P
    BY <1>0, <2>1, Upward
  <2> QED BY <2>2, <2>3
<1>7. GraphNodeBlock(s, block, n) = DispatchAll(g[N], block, n, Later(block, t, g[N], N))
  <2>1. Later(block, t, g[N], N)
          = {i \in DOMAIN block : IsSafe(block[i]) /\ block[i].safe \in g[N].hosts \ s.hosts}
    BY <1>0 DEF Later
  <2>2. GraphNodeBlock(s, block, n)
          = DispatchAll(DispatchAll(s, block, n, old), block, n,
                        {i \in DOMAIN block :
                           IsSafe(block[i]) /\ block[i].safe \in DispatchAll(s, block, n, old).hosts \ s.hosts})
    BY Zenon DEF GraphNodeBlock
  <2> HIDE DEF old
  <2> QED BY <1>2, <2>1, <2>2
<1>8. Inv(N)
  <2> HIDE DEF Inv
  <2> QED BY <1>6
<1> QED BY <1>1, <1>7, <1>8

\* r of the squid and q of graph-node after a block, from t and s before it.
BlockDone(block, n, t, s, streamed, r, q) ==
  /\ r.t \in StreamTable /\ q \in StreamTable /\ r.carried \in Streams
  /\ Same(r.t, q) /\ ToSet(r.t.handled) \subseteq ToSet(q.handled)
  /\ IsInjective(t.handled) => IsInjective(r.t.handled)
  /\ ToSet(r.t.handled) \subseteq ToSet(t.handled) \cup {<<n, j>> : j \in 1 .. Len(block)}
  /\ t = s /\ Carried(t, streamed) => r.t = q /\ r.carried = [services |-> q.services, hosts |-> q.hosts]

\* r after the second pass over the logs D, from u.
Passed(u, n, D, r) ==
  /\ r \in StreamTable /\ Same(r, u)
  /\ ToSet(r.handled) = ToSet(u.handled) \cup {<<n, j>> : j \in D}
  /\ IsInjective(u.handled) /\ (\A j \in D : <<n, j>> \notin ToSet(u.handled)) => IsInjective(r.handled)

LEMMA PassFacts ==
  ASSUME NEW u \in StreamTable, NEW block \in Seq(StreamLogs), NEW n \in Nat, NEW D,
         D \subseteq 1 .. Len(block), \A j \in D : IsSafe(block[j]) /\ block[j].safe \in u.hosts
  PROVE  Passed(u, n, D, DispatchAll(u, block, n, D))
BY SecondPass DEF Passed

LEMMA BlockProcessed ==
  ASSUME NEW block \in Seq(StreamLogs), NEW n \in Nat, NEW t \in StreamTable, NEW s \in StreamTable, NEW streamed \in Streams,
         Same(t, s), ToSet(t.handled) \subseteq ToSet(s.handled),
         \A j \in 1 .. Len(block) : <<n, j>> \notin ToSet(t.handled)
  PROVE  BlockDone(block, n, t, s, streamed, ProcessBlock(t, block, n, streamed), GraphNodeBlock(s, block, n))
<1> DEFINE N == Len(block)
           r == ProcessBlock(t, block, n, streamed)
           q == GraphNodeBlock(s, block, n)
<1>1. PICK d, g : /\ Follow(block, n, t, d, g, N)
                  /\ t = s /\ Carried(t, streamed) => Agree(block, t, d, g, N)
                  /\ r = [t |-> DispatchAll(d.t, block, n, d.deferred), carried |-> d.carried]
                  /\ q = DispatchAll(g, block, n, Later(block, t, g, N))
  BY BlockFollows
<1> DEFINE D == d.deferred
           L == Later(block, t, g, N)
<1>2. /\ d.t \in StreamTable /\ g \in StreamTable /\ d.carried \in Streams /\ D \subseteq 1 .. N /\ L \subseteq 1 .. N
      /\ D \subseteq L /\ d.t.hosts = g.hosts
  BY <1>1 DEF Follow, Progress, Later, Same
<1>3. \A j \in L : IsSafe(block[j]) /\ block[j].safe \in g.hosts /\ ~ Old(t, block[j])
  BY DEF Later, Old
<1> DEFINE v == DispatchAll(d.t, block, n, D)
           w == DispatchAll(g, block, n, L)
<1>4. \A j \in D : <<n, j>> \notin ToSet(d.t.handled)
  BY <1>1, <1>2, <1>3 DEF Follow
<1> HIDE DEF L, D
<1>5. /\ v \in StreamTable /\ Same(v, d.t)
      /\ ToSet(v.handled) = ToSet(d.t.handled) \cup {<<n, j>> : j \in D}
      /\ IsInjective(d.t.handled) => IsInjective(v.handled)
  <2>1. \A j \in D : IsSafe(block[j]) /\ block[j].safe \in d.t.hosts
    BY <1>2, <1>3
  <2>2. d.t \in StreamTable /\ D \subseteq 1 .. Len(block)
    BY <1>2
  <2>3. Passed(d.t, n, D, v)
    BY <2>1, <2>2, PassFacts
  <2> HIDE DEF v
  <2> QED BY <1>4, <2>3 DEF Passed
<1>6. /\ w \in StreamTable /\ Same(w, g)
      /\ ToSet(w.handled) = ToSet(g.handled) \cup {<<n, j>> : j \in L}
  <2>1. g \in StreamTable /\ L \subseteq 1 .. Len(block) /\ \A j \in L : IsSafe(block[j]) /\ block[j].safe \in g.hosts
    BY <1>2, <1>3
  <2>2. Passed(g, n, L, w)
    BY <2>1, PassFacts
  <2> HIDE DEF w
  <2> QED BY <2>2 DEF Passed
<1>7. r.t = v /\ r.carried = d.carried /\ q = w
  BY <1>1 DEF D, L
<1>8. t = s /\ Carried(t, streamed) => v = w /\ d.carried = [services |-> w.services, hosts |-> w.hosts]
  <2>1. ASSUME t = s, Carried(t, streamed) PROVE d.t = g /\ D = L /\ d.carried = [services |-> g.services, hosts |-> g.hosts]
    BY <1>1, <2>1 DEF Agree, D, L
  <2> QED BY <1>6, <2>1 DEF Same
<1> HIDE DEF v, w
<1>9. Same(v, w)
  BY <1>1, <1>5, <1>6 DEF Follow, Same
<1>10. ToSet(v.handled) \subseteq ToSet(w.handled)
  BY <1>1, <1>2, <1>5, <1>6 DEF Follow
<1>11. IsInjective(t.handled) => IsInjective(v.handled)
  BY <1>1, <1>5 DEF Follow
<1>12. ToSet(v.handled) \subseteq ToSet(t.handled) \cup {<<n, j>> : j \in 1 .. N}
  BY <1>1, <1>2, <1>5 DEF Follow
<1> HIDE DEF r, q
<1>13. BlockDone(block, n, t, s, streamed, r, q)
  BY <1>2, <1>5, <1>6, <1>7, <1>8, <1>9, <1>10, <1>11, <1>12 DEF BlockDone
<1> QED BY <1>13 DEF r, q

-----------------------------------------------------------------------------
(* A batch.                                                                  *)

Known(t) == {s \in ServiceIds : t.operator[s] # NoOperator}

\* The squid's tables p beside those of graph-node, e.
Beside(p, e) ==
  /\ p \in Seq(StreamTable) /\ e \in Seq(StreamTable) /\ Len(p) = Len(e)
  /\ \A n \in 1 .. Len(p) :
       /\ Same(p[n], e[n]) /\ ToSet(p[n].handled) \subseteq ToSet(e[n].handled)
       /\ IsInjective(p[n].handled)
       /\ \A id \in ToSet(p[n].handled) : id[1] <= n

\* The last of both, at height n.
LastBeside(t, s, n) ==
  /\ t \in StreamTable /\ s \in StreamTable /\ Same(t, s) /\ ToSet(t.handled) \subseteq ToSet(s.handled)
  /\ IsInjective(t.handled)
  /\ \A id \in ToSet(t.handled) : id[1] <= n

LEMMA NoTablesFacts ==
  NoTables \in StreamTable /\ ToSet(NoTables.handled) = {} /\ IsInjective(NoTables.handled)
<1>1. <<>> \in Seq(Ids) /\ DOMAIN <<>> = {}
  OBVIOUS
<1>2. [s \in ServiceIds |-> NoOperator] \in [ServiceIds -> Operators \cup {NoOperator}]
  OBVIOUS
<1>3. NoTables \in StreamTable /\ NoTables.handled = <<>>
  BY <1>1, <1>2 DEF NoTables, StreamTable
<1> QED BY <1>1, <1>3 DEF ToSet, IsInjective

LEMMA LastTablesBeside ==
  ASSUME NEW p, NEW e, Beside(p, e)
  PROVE  LastBeside(LastTables(p), LastTables(e), Len(p))
<1>1. Len(p) \in Nat /\ Len(e) = Len(p) /\ p \in Seq(StreamTable) /\ e \in Seq(StreamTable)
  BY LenProperties DEF Beside
<1>2. CASE p = <<>>
  <2>1. e = <<>>
    BY <1>1, <1>2, EmptySeq
  <2>2. LastTables(p) = NoTables /\ LastTables(e) = NoTables
    BY <1>2, <2>1 DEF LastTables
  <2> QED BY <2>2, NoTablesFacts DEF LastBeside, Same
<1>3. CASE p # <<>>
  <2>1. Len(p) # 0 /\ e # <<>>
    BY <1>1, <1>3, EmptySeq
  <2>2. LastTables(p) = p[Len(p)] /\ LastTables(e) = e[Len(p)] /\ Len(p) \in 1 .. Len(p)
    BY <1>1, <1>3, <2>1 DEF LastTables, Last
  <2>3. p[Len(p)] \in StreamTable /\ e[Len(p)] \in StreamTable
    BY <1>1, <2>1, <2>2, ElementOfSeq
  <2> QED BY <2>2, <2>3 DEF Beside, LastBeside
<1> QED BY <1>2, <1>3

\* One block more.
BlockBeside(p, e, streamed, r, q) ==
  /\ Beside(Append(p, r.t), Append(e, q)) /\ r.t \in StreamTable /\ q \in StreamTable /\ r.carried \in Streams
  /\ p = e /\ Carried(LastTables(e), streamed)
       => r.t = q /\ r.carried = [services |-> q.services, hosts |-> q.hosts]

LEMMA NextBlock ==
  ASSUME NEW p, NEW e, Beside(p, e), NEW block \in Seq(StreamLogs), NEW streamed \in Streams
  PROVE  BlockBeside(p, e, streamed, ProcessBlock(LastTables(p), block, Len(p) + 1, streamed),
                     GraphNodeBlock(LastTables(e), block, Len(e) + 1))
<1> DEFINE t == LastTables(p)
           s == LastTables(e)
           n == Len(p) + 1
           r == ProcessBlock(t, block, n, streamed)
           q == GraphNodeBlock(s, block, n)
<1>1. LastBeside(t, s, Len(p)) /\ Len(p) \in Nat /\ Len(e) = Len(p) /\ p \in Seq(StreamTable) /\ e \in Seq(StreamTable)
  BY LastTablesBeside, LenProperties DEF Beside
<1> HIDE DEF t, s
<1>2. /\ t \in StreamTable /\ s \in StreamTable /\ Same(t, s) /\ ToSet(t.handled) \subseteq ToSet(s.handled)
      /\ IsInjective(t.handled) /\ \A id \in ToSet(t.handled) : id[1] <= Len(p)
  BY <1>1 DEF LastBeside
<1>3. \A j \in 1 .. Len(block) : <<n, j>> \notin ToSet(t.handled)
  BY <1>1, <1>2
<1>4. BlockDone(block, n, t, s, streamed, r, q)
  BY <1>1, <1>2, <1>3, BlockProcessed
<1> HIDE DEF r, q
<1>5. /\ r.t \in StreamTable /\ q \in StreamTable /\ r.carried \in Streams
      /\ Same(r.t, q) /\ ToSet(r.t.handled) \subseteq ToSet(q.handled) /\ IsInjective(r.t.handled)
      /\ ToSet(r.t.handled) \subseteq ToSet(t.handled) \cup {<<n, j>> : j \in 1 .. Len(block)}
      /\ t = s /\ Carried(t, streamed) => r.t = q /\ r.carried = [services |-> q.services, hosts |-> q.hosts]
  BY <1>2, <1>4 DEF BlockDone
<1>6. \A id \in ToSet(r.t.handled) : id[1] <= n
  <2>1. \A id \in ToSet(t.handled) : id \in Ids
    <3>1. t.handled \in Seq(Ids)
      BY <1>2 DEF StreamTable
    <3> QED BY <3>1, ElementOfSeq, LenProperties DEF ToSet
  <2>2. \A id \in ToSet(t.handled) : id[1] <= n
    BY <1>1, <1>2, <2>1 DEF Ids
  <2>3. n \in Nat
    BY <1>1
  <2> HIDE DEF n
  <2>4. \A id \in {<<n, j>> : j \in 1 .. Len(block)} : id[1] <= n
    BY <2>3
  <2> QED BY <1>5, <2>2, <2>4
<1>7. Beside(Append(p, r.t), Append(e, q))
  <2> DEFINE a == Append(p, r.t)
             b == Append(e, q)
  <2>1. /\ a \in Seq(StreamTable) /\ Len(a) = n /\ a[n] = r.t /\ \A i \in 1 .. Len(p) : a[i] = p[i]
    BY <1>1, <1>5, AppendProperties
  <2>2. /\ b \in Seq(StreamTable) /\ Len(b) = n /\ b[n] = q /\ \A i \in 1 .. Len(p) : b[i] = e[i]
    BY <1>1, <1>5, AppendProperties
  <2> HIDE DEF a, b
  <2>3. ASSUME NEW i \in 1 .. n
        PROVE  /\ Same(a[i], b[i]) /\ ToSet(a[i].handled) \subseteq ToSet(b[i].handled)
               /\ IsInjective(a[i].handled)
               /\ \A id \in ToSet(a[i].handled) : id[1] <= i
    <3>1. CASE i = n
      BY <1>5, <1>6, <2>1, <2>2, <3>1
    <3>2. CASE i \in 1 .. Len(p)
      BY <2>1, <2>2, <3>2 DEF Beside
    <3> QED BY <1>1, <3>1, <3>2
  <2>4. Beside(a, b)
    BY <2>1, <2>2, <2>3 DEF Beside
  <2> QED BY <2>4 DEF a, b
<1>8. p = e => t = s
  BY DEF t, s
<1>9. BlockBeside(p, e, streamed, r, q)
  BY <1>5, <1>7, <1>8 DEF BlockBeside, s
<1> QED BY <1>1, <1>9 DEF r, q, t, s

LEMMA QuietBlock ==
  ASSUME NEW block \in Seq(StreamLogs), NEW n \in Nat, NEW t \in StreamTable,
         tracked.services = t.services, ~ Spawns(block, Known(t))
  PROVE  LET q == GraphNodeBlock(t, block, n) IN
         /\ q.services = t.services /\ q.hosts = t.hosts
         /\ Known(q) = Known(t) \cup Registrations(ToSet(block))
<1> DEFINE N == Len(block)
           old == {i \in DOMAIN block : IsSafe(block[i]) => block[i].safe \in t.hosts}
           Upto(i) == {block[j] : j \in 1 .. i}
<1>0. N \in Nat /\ DOMAIN block = 1 .. N /\ \A i \in 1 .. N : block[i] \in StreamLogs
  BY LenProperties, ElementOfSeq
<1>1. PICK g : Passes(g, t, block, n, old) /\ DispatchAll(t, block, n, old) = g[N]
  <2> HIDE DEF old
  <2> QED BY <1>0, DispatchAllPasses
<1> DEFINE Inv(i) == /\ g[i] \in StreamTable /\ g[i].services = t.services /\ g[i].hosts = t.hosts
                     /\ Known(g[i]) = Known(t) \cup Registrations(Upto(i))
           P == {i \in 0 .. N : Inv(i)}
<1>2. Inv(0)
  <2>1. g[0] = t /\ Upto(0) = {}
    BY <1>1 DEF Passes
  <2> QED BY <2>1 DEF Registrations
<1>3. ASSUME NEW i \in 1 .. N, Inv(i - 1) PROVE Inv(i)
  <2> DEFINE log == block[i]
             v == g[i - 1]
             u == Dispatch(v, log, <<n, i>>)
  <2>0. /\ i \in Nat \ {0} /\ log \in StreamLogs /\ <<n, i>> \in Ids /\ v \in StreamTable
        /\ v.services = t.services /\ v.hosts = t.hosts
        /\ Known(v) = Known(t) \cup Registrations(Upto(i - 1))
    BY <1>0, <1>3 DEF Ids
  <2>1. Upto(i) = Upto(i - 1) \cup {log}
    BY <2>0
  <2>2. Registrations(Upto(i)) = Registrations(Upto(i - 1)) \cup Registrations({log})
    <3> HIDE DEF Upto, log
    <3> QED BY <2>1 DEF Registrations
  <2>3. CASE i \notin old
    <3>1. g[i] = v /\ log.kind = "safe"
      BY <1>0, <1>1, <2>3 DEF Passes, IsSafe
    <3>2. Registrations({log}) = {}
      BY <3>1 DEF Registrations
    <3> HIDE DEF v, log, Upto
    <3> QED BY <2>0, <2>2, <3>1, <3>2
  <2>4. CASE i \in old
    <3>1. g[i] = u
      BY <1>1, <2>4 DEF Passes
    <3>2. NewServices(v, log) = {} /\ NewHosts(v, log) = {}
      <4>1. ASSUME log.kind = "create", v.operator[log.service] # NoOperator
            PROVE  Safe[log.service] \in t.services
        <5>1. log.service \in Known(t) \cup Registrations(Upto(i - 1))
          <6>1. log.service \in Known(v)
            BY <2>0, <4>1, LogKinds DEF Known
          <6> QED BY <2>0, <6>1
        <5> QED BY <1>0, <4>1, <5>1 DEF Spawns
      <4> QED BY <2>0, <4>1 DEF NewServices, NewHosts
    <3>3. DispatchedTo(v, log, <<n, i>>, u)
      BY <2>0, DispatchFacts
    <3> HIDE DEF u, v, log, Upto
    <3>4. /\ u \in StreamTable /\ u.services = t.services /\ u.hosts = t.hosts
          /\ u.operator = IF log.kind = "register" THEN [v.operator EXCEPT ![log.service] = log.operator]
                          ELSE v.operator
      BY <2>0, <3>2, <3>3 DEF DispatchedTo
    <3>5. Known(u) = Known(v) \cup Registrations({log})
      <4>1. CASE log.kind = "register"
        <5>1. log.service \in ServiceIds /\ log.operator \in Operators /\ NoOperator \notin Operators
          BY <2>0, <4>1, LogKinds, StreamAssumption
        <5>2. v.operator \in [ServiceIds -> Operators \cup {NoOperator}]
          BY <2>0 DEF StreamTable
        <5>3. Registrations({log}) = {log.service}
          BY <4>1 DEF Registrations
        <5> QED BY <3>4, <4>1, <5>1, <5>2, <5>3 DEF Known
      <4>2. CASE log.kind # "register"
        <5>1. Registrations({log}) = {}
          BY <4>2 DEF Registrations
        <5> QED BY <3>4, <4>2, <5>1 DEF Known
      <4> QED BY <4>1, <4>2
    <3> QED BY <2>0, <2>2, <3>1, <3>4, <3>5
  <2> HIDE DEF Inv, old
  <2> QED BY <2>3, <2>4
<1>4. Inv(N)
  <2>1. 0 \in P /\ \A i \in 1 .. N : i - 1 \in P => i \in P
    <3> HIDE DEF Inv, N
    <3> QED BY <1>0, <1>2, <1>3
  <2>2. N \in 0 .. N
    BY <1>0
  <2> HIDE DEF P, N
  <2>3. 0 .. N \subseteq P
    BY <1>0, <2>1, Upward
  <2>4. N \in P
    BY <2>2, <2>3
  <2> HIDE DEF Inv
  <2> QED BY <2>4 DEF P
<1>5. Upto(N) = ToSet(block)
  BY <1>0 DEF ToSet
<1>6. Passed(g[N], n, {}, GraphNodeBlock(t, block, n))
  <2>1. GraphNodeBlock(t, block, n)
          = DispatchAll(DispatchAll(t, block, n, old), block, n,
                        {i \in DOMAIN block :
                           IsSafe(block[i]) /\ block[i].safe \in DispatchAll(t, block, n, old).hosts \ t.hosts})
    BY Zenon DEF GraphNodeBlock
  <2>2. g[N].hosts \ t.hosts = {} /\ g[N] \in StreamTable
    BY <1>4
  <2> HIDE DEF old
  <2>3. GraphNodeBlock(t, block, n) = DispatchAll(g[N], block, n, {})
    BY <1>1, <2>1, <2>2
  <2> QED BY <2>2, <2>3, PassFacts
<1> DEFINE q == GraphNodeBlock(t, block, n)
<1> HIDE DEF q
<1>7. q.services = t.services /\ q.hosts = t.hosts /\ Known(q) = Known(t) \cup Registrations(ToSet(block))
  BY <1>4, <1>5, <1>6 DEF Passed, Same, Known, q
<1> QED BY <1>7 DEF q

\* What a stream that follows the chain knows of the last tables.
Knows(t, streamed, ids) == Carried(t, streamed) /\ ids = Known(t)

LEMMA LastAppended ==
  ASSUME NEW e \in Seq(StreamTable), NEW q \in StreamTable
  PROVE  LastTables(Append(e, q)) = q
<1>1. Append(e, q) \in Seq(StreamTable) /\ Len(Append(e, q)) = Len(e) + 1 /\ Append(e, q)[Len(e) + 1] = q /\ Len(e) \in Nat
  BY AppendProperties, LenProperties
<1> DEFINE a == Append(e, q)
<1> HIDE DEF a
<1>2. a # <<>>
  BY <1>1, EmptySeq DEF a
<1>3. LastTables(a) = q
  BY <1>1, <1>2 DEF LastTables, Last, a
<1> QED BY <1>3 DEF a

\* The next block of a stream that knows the last tables and does not spawn.
LEMMA QuietNext ==
  ASSUME NEW block \in Seq(StreamLogs), NEW n \in Nat, NEW t \in StreamTable, NEW streamed, NEW ids, NEW q,
         q = GraphNodeBlock(t, block, n), Knows(t, streamed, ids), ~ Spawns(block, ids)
  PROVE  Knows(q, [services |-> q.services, hosts |-> q.hosts], ids \cup Registrations(ToSet(block)))
<1>1. tracked.services = t.services /\ tracked.hosts = t.hosts /\ ids = Known(t)
  BY DEF Knows, Carried
<1>2. q.services = t.services /\ q.hosts = t.hosts /\ Known(q) = Known(t) \cup Registrations(ToSet(block))
  BY <1>1, QuietBlock
<1> QED BY <1>1, <1>2 DEF Knows, Carried

LEMMA KnownBeforeNext ==
  ASSUME NEW blocks, NEW k \in Nat \ {0}
  PROVE  KnownBefore(blocks, k + 1) = KnownBefore(blocks, k) \cup Registrations(ToSet(blocks[k]))
BY DEF KnownBefore

\* done of the squid and exp of graph-node after some blocks, from the committed tables.
BatchDone(blocks, done, exp) ==
  LET Exact == tables = expected /\ Knows(LastTables(expected), carried, basius)
      Quiet(k) == \A j \in 1 .. k : ~ Spawns(blocks[j], KnownBefore(blocks, j)) IN
  /\ Beside(done.tables, exp) /\ Len(done.tables) = Len(tables) + Len(blocks) /\ done.carried \in Streams
  /\ Exact /\ Quiet(Len(blocks) - 1) => done.tables = exp
  /\ Exact /\ Quiet(Len(blocks)) => Knows(LastTables(exp), done.carried, KnownBefore(blocks, Len(blocks) + 1))

LEMMA BatchBeside ==
  ASSUME NEW blocks \in Seq(Seq(StreamLogs)), Beside(tables, expected), Len(tables) = Len(written),
         carried \in Streams
  PROVE  BatchDone(blocks, ProcessBlocks(blocks), GraphNode(expected, blocks))
<1> DEFINE m == Len(blocks)
           Exact == tables = expected /\ Knows(LastTables(expected), carried, basius)
           Quiet(k) == \A j \in 1 .. k : ~ Spawns(blocks[j], KnownBefore(blocks, j))
<1>0. m \in Nat /\ Len(tables) \in Nat /\ \A k \in 1 .. m : blocks[k] \in Seq(StreamLogs)
  BY LenProperties, ElementOfSeq DEF Beside
<1>1. PICK p : DoesBlocks(p, blocks) /\ ProcessBlocks(blocks) = p[m]
  BY <1>0, BatchSteps
<1>2. PICK e : FollowsBlocks(e, expected, blocks) /\ GraphNode(expected, blocks) = e[m]
  BY <1>0, GraphNodeSteps
<1> DEFINE Inv(k) ==
             /\ Beside(p[k].tables, e[k]) /\ Len(p[k].tables) = Len(tables) + k /\ p[k].carried \in Streams
             /\ Exact /\ Quiet(k - 1) => p[k].tables = e[k]
             /\ Exact /\ Quiet(k) => Knows(LastTables(e[k]), p[k].carried, KnownBefore(blocks, k + 1))
           P == {k \in 0 .. m : Inv(k)}
<1>3. Inv(0)
  <2>1. p[0].tables = tables /\ p[0].carried = carried /\ e[0] = expected
    BY <1>1, <1>2 DEF FollowsBlocks, DoesBlocks
  <2>2. KnownBefore(blocks, 0 + 1) = basius
    BY DEF KnownBefore
  <2> HIDE DEF Quiet
  <2> QED BY <1>0, <2>1, <2>2
<1>4. ASSUME NEW k \in 1 .. m, Inv(k - 1) PROVE Inv(k)
  <2> DEFINE a == p[k - 1].tables
             b == e[k - 1]
             c == p[k - 1].carried
             block == blocks[k]
             r == ProcessBlock(LastTables(a), block, Len(a) + 1, c)
             q == GraphNodeBlock(LastTables(b), block, Len(b) + 1)
  <2>0. /\ k \in Nat \ {0} /\ k - 1 \in Nat /\ block \in Seq(StreamLogs)
        /\ Beside(a, b) /\ Len(a) = Len(tables) + (k - 1) /\ c \in Streams
        /\ Len(a) + 1 = Len(written) + k
    BY <1>0, <1>4
  <2>1. p[k] = [tables |-> Append(a, r.t), carried |-> r.carried]
    <3>1. p[k] = BatchStep(p[k - 1], block, Len(a) + 1)
      BY <1>1, <2>0 DEF DoesBlocks
    <3> QED BY <3>1, Zenon DEF BatchStep, Processed
  <2>2. e[k] = Append(b, q)
    <3>1. e[k] = GraphNodeStep(b, block)
      BY <1>2 DEF FollowsBlocks
    <3> QED BY <3>1, Zenon DEF GraphNodeStep
  <2>3. BlockBeside(a, b, c, r, q)
    <3> HIDE DEF a, b, c, block
    <3> QED BY <2>0, NextBlock
  <2>4. /\ Exact /\ Quiet(k - 1) => a = b /\ Knows(LastTables(b), c, KnownBefore(blocks, k))
    <3>1. Quiet(k - 1) => Quiet(k - 1 - 1)
      BY <2>0
    <3>2. Exact /\ Quiet(k - 1) => Knows(LastTables(b), c, KnownBefore(blocks, k - 1 + 1))
      BY <1>4
    <3>3. k - 1 + 1 = k
      BY <2>0
    <3> HIDE DEF Quiet, Exact
    <3> QED BY <1>4, <3>1, <3>2, <3>3
  <2>5. LastBeside(LastTables(a), LastTables(b), Len(a)) /\ Len(a) \in Nat /\ Len(b) = Len(a) /\ b \in Seq(StreamTable)
    BY <2>0, LastTablesBeside, LenProperties DEF Beside
  <2>6. LastTables(b) \in StreamTable
    BY <2>5 DEF LastBeside
  <2>7. Quiet(k) => Quiet(k - 1) /\ ~ Spawns(block, KnownBefore(blocks, k))
    BY <2>0
  <2> HIDE DEF r, a, c, Quiet, Exact, block
  <2>8. q = GraphNodeBlock(LastTables(b), block, Len(b) + 1)
    OBVIOUS
  <2> HIDE DEF q, b
  <2>9. /\ Beside(Append(a, r.t), Append(b, q)) /\ r.t \in StreamTable /\ q \in StreamTable /\ r.carried \in Streams
        /\ a = b /\ Carried(LastTables(b), c)
             => r.t = q /\ r.carried = [services |-> q.services, hosts |-> q.hosts]
    BY <2>3 DEF BlockBeside
  <2>10. Len(Append(a, r.t)) = Len(tables) + k
    <3>1. a \in Seq(StreamTable)
      BY <2>0 DEF Beside
    <3>2. Len(Append(a, r.t)) = Len(a) + 1
      BY <2>9, <3>1, AppendProperties
    <3> QED BY <1>0, <2>0, <3>2
  <2>11. p[k].tables = Append(a, r.t) /\ p[k].carried = r.carried
    BY <2>1
  <2>12. Exact /\ Quiet(k - 1) => /\ r.t = q /\ r.carried = [services |-> q.services, hosts |-> q.hosts]
                                  /\ a = b /\ Knows(LastTables(b), c, KnownBefore(blocks, k))
    BY <2>4, <2>9 DEF Knows
  <2>13. ASSUME Exact, Quiet(k) PROVE Knows(LastTables(e[k]), p[k].carried, KnownBefore(blocks, k + 1))
    <3>1. /\ Knows(LastTables(b), c, KnownBefore(blocks, k)) /\ ~ Spawns(block, KnownBefore(blocks, k))
          /\ r.carried = [services |-> q.services, hosts |-> q.hosts]
      BY <2>7, <2>12, <2>13
    <3>2. Len(b) + 1 \in Nat
      BY <2>5
    <3>3. Knows(q, [services |-> q.services, hosts |-> q.hosts],
                KnownBefore(blocks, k) \cup Registrations(ToSet(block)))
      BY <2>0, <2>6, <2>8, <3>1, <3>2, QuietNext
    <3>4. LastTables(e[k]) = q
      BY <2>2, <2>5, <2>9, LastAppended
    <3>5. KnownBefore(blocks, k + 1) = KnownBefore(blocks, k) \cup Registrations(ToSet(block))
      BY <2>0, KnownBeforeNext DEF block
    <3> QED BY <2>11, <3>1, <3>3, <3>4, <3>5
  <2> QED BY <2>2, <2>9, <2>10, <2>11, <2>12, <2>13
<1>5. Inv(m)
  <2>1. 0 \in P /\ \A i \in 1 .. m : i - 1 \in P => i \in P
    <3> HIDE DEF Inv, m
    <3> QED BY <1>0, <1>3, <1>4
  <2>2. m \in 0 .. m
    BY <1>0
  <2> HIDE DEF P, m
  <2>3. 0 .. m \subseteq P
    BY <1>0, <2>1, Upward
  <2>4. m \in P
    BY <2>2, <2>3
  <2> HIDE DEF Inv
  <2> QED BY <2>4 DEF P
<1> QED BY <1>1, <1>2, <1>5 DEF BatchDone

-----------------------------------------------------------------------------
(* The specification.                                                        *)

\* The inductive invariant: LogsAsGraphNode, that what was written is of the chain, and
\* that a run knows the last tables.
StreamInv ==
  /\ canon \in Seq(StreamBlocks) /\ Len(canon) <= MaxHeight /\ written \in Seq(StreamBlocks)
  /\ reorgs \in 0 .. MaxReorgs /\ restarts \in 0 .. MaxRestarts /\ running \in BOOLEAN
  /\ tracked.ids \subseteq ServiceIds /\ basius \subseteq ServiceIds /\ carried \in Streams
  /\ Beside(tables, expected) /\ Len(tables) = Len(written)
  /\ reorgs = 0 =>
       /\ tables = expected /\ IsPrefix(written, canon)
       /\ running => Knows(LastTables(expected), carried, basius)

LEMMA BlocksTyped ==
  ASSUME NEW s \in Seq(StreamBlocks)
  PROVE  s \in Seq(Seq(StreamLogs))
<1>1. \A i \in 1 .. Len(s) : s[i] \in Seq(StreamLogs)
  BY ElementOfSeq, StreamAssumption
<1> QED BY <1>1, IsASeq, LenProperties

\* A prefix by its entries.
LEMMA PrefixEntries ==
  ASSUME NEW S, NEW w \in Seq(S), NEW c \in Seq(S)
  PROVE  IsPrefix(w, c) <=> Len(w) <= Len(c) /\ \A i \in 1 .. Len(w) : w[i] = c[i]
<1> DEFINE x == SubSeq(w, 1, Len(w))
           y == SubSeq(c, 1, Len(w))
<1>1. Len(w) \in Nat /\ Len(c) \in Nat
  BY LenProperties
<1>2. SUFFICES ASSUME Len(w) <= Len(c)
               PROVE  x = y <=> \A i \in 1 .. Len(w) : w[i] = c[i]
  BY DEF IsPrefix
<1>3. \A i \in 1 .. Len(w) : w[i] \in S /\ c[i] \in S
  BY <1>1, <1>2, ElementOfSeq
<1>4. x \in Seq(S) /\ Len(x) = (IF 1 <= Len(w) THEN Len(w) - 1 + 1 ELSE 0)
      /\ \A i \in 1 .. Len(w) - 1 + 1 : x[i] = w[1 + i - 1]
  BY <1>1, <1>3, SubSeqProperties
<1>5. y \in Seq(S) /\ Len(y) = (IF 1 <= Len(w) THEN Len(w) - 1 + 1 ELSE 0)
      /\ \A i \in 1 .. Len(w) - 1 + 1 : y[i] = c[1 + i - 1]
  BY <1>1, <1>3, SubSeqProperties
<1> HIDE DEF x, y
<1>6. /\ \A i \in 1 .. Len(w) : x[i] = w[i] /\ y[i] = c[i]
      /\ Len(x) = Len(w) /\ Len(y) = Len(w)
  BY <1>1, <1>4, <1>5
<1>7. ASSUME \A i \in 1 .. Len(w) : w[i] = c[i] PROVE x = y
  BY <1>4, <1>5, <1>6, <1>7, SeqEqual
<1> QED BY <1>6, <1>7

LEMMA PrefixAppended ==
  ASSUME NEW S, NEW w \in Seq(S), NEW c \in Seq(S), NEW b \in S, IsPrefix(w, c)
  PROVE  IsPrefix(w, Append(c, b))
<1> DEFINE a == Append(c, b)
<1>1. a \in Seq(S) /\ Len(a) = Len(c) + 1 /\ \A i \in 1 .. Len(c) : a[i] = c[i]
  BY AppendProperties
<1>2. Len(w) \in Nat /\ Len(c) \in Nat /\ Len(w) <= Len(c) /\ \A i \in 1 .. Len(w) : w[i] = c[i]
  BY LenProperties, PrefixEntries
<1> HIDE DEF a
<1>3. Len(w) <= Len(a) /\ \A i \in 1 .. Len(w) : w[i] = a[i]
  BY <1>1, <1>2
<1>4. IsPrefix(w, a)
  BY <1>1, <1>3, PrefixEntries
<1> QED BY <1>4 DEF a

LEMMA PrefixExtended ==
  ASSUME NEW S, NEW w \in Seq(S), NEW c \in Seq(S), IsPrefix(w, c), NEW size \in Nat \ {0},
         Len(w) + size <= Len(c)
  PROVE  LET b == SubSeq(c, Len(w) + 1, Len(w) + size) IN
         /\ b \in Seq(S) /\ Len(b) = size /\ w \o b \in Seq(S) /\ Len(w \o b) = Len(w) + size
         /\ IsPrefix(w \o b, c)
<1> DEFINE n == Len(w)
           b == SubSeq(c, n + 1, n + size)
           x == w \o b
<1>1. n \in Nat /\ Len(c) \in Nat /\ \A i \in 1 .. n : w[i] = c[i]
  BY LenProperties, PrefixEntries
<1>2. \A i \in n + 1 .. n + size : c[i] \in S
  BY <1>1, ElementOfSeq
<1>3. b \in Seq(S) /\ Len(b) = (IF n + 1 <= n + size THEN n + size - (n + 1) + 1 ELSE 0)
      /\ \A i \in 1 .. n + size - (n + 1) + 1 : b[i] = c[n + 1 + i - 1]
  <2>1. n + 1 \in Int /\ n + size \in Int
    BY <1>1
  <2> QED BY <1>2, <2>1, SubSeqProperties
<1> HIDE DEF b
<1>4. Len(b) = size /\ \A i \in 1 .. size : b[i] = c[n + i]
  BY <1>1, <1>3
<1>5. x \in Seq(S) /\ Len(x) = n + size
      /\ \A i \in 1 .. n + size : x[i] = IF i <= n THEN w[i] ELSE b[i - n]
  <2>1. /\ w \o b \in Seq(S) /\ Len(w \o b) = Len(w) + Len(b)
        /\ \A i \in 1 .. Len(w) + Len(b) : (w \o b)[i] = IF i <= Len(w) THEN w[i] ELSE b[i - Len(w)]
    BY <1>3, ConcatProperties, Zenon
  <2> QED BY <1>4, <2>1, Zenon
<1> HIDE DEF x
<1>6. ASSUME NEW i \in 1 .. n + size PROVE x[i] = c[i]
  <2> HIDE DEF n
  <2>1. CASE i <= n
    BY <1>1, <1>5, <2>1
  <2>2. CASE ~ (i <= n)
    <3>1. i - n \in 1 .. size /\ n + (i - n) = i
      BY <1>1, <2>2
    <3>2. b[i - n] = c[n + (i - n)]
      BY <1>4, <3>1
    <3> QED BY <1>5, <2>2, <3>1, <3>2
  <2> QED BY <2>1, <2>2
<1>7. IsPrefix(x, c)
  BY <1>1, <1>5, <1>6, PrefixEntries
<1> QED BY <1>3, <1>4, <1>5, <1>7 DEF x, b

LEMMA FrontProperties ==
  ASSUME NEW S, NEW s \in Seq(S), s # <<>>
  PROVE  /\ Front(s) \in Seq(S) /\ Len(Front(s)) = Len(s) - 1
         /\ \A i \in 1 .. Len(s) - 1 : Front(s)[i] = s[i]
<1>1. Len(s) \in Nat \ {0} /\ \A i \in 1 .. Len(s) - 1 : s[i] \in S
  BY EmptySeq, ElementOfSeq
<1>2. /\ Front(s) \in Seq(S)
      /\ Len(Front(s)) = (IF 1 <= Len(s) - 1 THEN Len(s) - 1 - 1 + 1 ELSE 0)
      /\ \A i \in 1 .. Len(s) - 1 - 1 + 1 : Front(s)[i] = s[1 + i - 1]
  BY <1>1, SubSeqProperties DEF Front
<1>3. Len(s) - 1 - 1 + 1 = Len(s) - 1 /\ \A i \in 1 .. Len(s) - 1 : 1 + i - 1 = i
  <2> DEFINE n == Len(s)
  <2>1. n \in Nat
    BY <1>1
  <2> HIDE DEF n
  <2>2. n - 1 - 1 + 1 = n - 1 /\ \A i \in 1 .. n - 1 : 1 + i - 1 = i
    BY <2>1
  <2> QED BY <2>2 DEF n
<1>4. Len(Front(s)) = Len(s) - 1
  <2> DEFINE n == Len(s)
             m == Len(Front(s))
  <2>1. n \in Nat \ {0} /\ m = IF 1 <= n - 1 THEN n - 1 - 1 + 1 ELSE 0
    BY <1>1, <1>2
  <2> HIDE DEF n, m
  <2>2. m = n - 1
    BY <2>1
  <2> QED BY <2>2 DEF n, m
<1>5. ASSUME NEW i \in 1 .. Len(s) - 1 PROVE Front(s)[i] = s[i]
  BY <1>2, <1>3
<1> QED BY <1>2, <1>4, <1>5

LEMMA FrontBeside ==
  ASSUME NEW p, NEW e, Beside(p, e), p # <<>>
  PROVE  Beside(Front(p), Front(e)) /\ Len(Front(p)) = Len(p) - 1
<1>1. p \in Seq(StreamTable) /\ e \in Seq(StreamTable) /\ Len(p) = Len(e) /\ Len(p) \in Nat \ {0} /\ e # <<>>
  BY EmptySeq DEF Beside
<1>2. /\ Front(p) \in Seq(StreamTable) /\ Len(Front(p)) = Len(p) - 1
      /\ \A i \in 1 .. Len(p) - 1 : Front(p)[i] = p[i]
  BY <1>1, FrontProperties
<1>3. /\ Front(e) \in Seq(StreamTable) /\ Len(Front(e)) = Len(p) - 1
      /\ \A i \in 1 .. Len(p) - 1 : Front(e)[i] = e[i]
  BY <1>1, FrontProperties
<1> DEFINE x == Front(p)
           y == Front(e)
<1> HIDE DEF x, y
<1>4. ASSUME NEW i \in 1 .. Len(x)
      PROVE  /\ Same(x[i], y[i]) /\ ToSet(x[i].handled) \subseteq ToSet(y[i].handled)
             /\ IsInjective(x[i].handled)
             /\ \A id \in ToSet(x[i].handled) : id[1] <= i
  <2>1. i \in 1 .. Len(p) - 1 /\ i \in 1 .. Len(p)
    BY <1>1, <1>2 DEF x
  <2>2. x[i] = p[i] /\ y[i] = e[i]
    BY <1>2, <1>3, <2>1 DEF x, y
  <2> QED BY <2>1, <2>2 DEF Beside
<1>5. Beside(x, y)
  BY <1>2, <1>3, <1>4 DEF Beside, x, y
<1> QED BY <1>2, <1>5 DEF x, y

LEMMA Starts ==
  ASSUME Init
  PROVE  StreamInv
<1>1. /\ <<>> \in Seq(StreamBlocks) /\ <<>> \in Seq(StreamTable) /\ Len(<<>>) = 0 /\ 1 .. 0 = {}
  BY EmptySeq
<1>2. Beside(<<>>, <<>>)
  BY <1>1 DEF Beside
<1>3. IsPrefix(<<>>, <<>>)
  BY DEF IsPrefix
<1>4. MaxHeight \in Nat /\ MaxReorgs \in Nat /\ MaxRestarts \in Nat
  BY StreamAssumption
<1>5. carried \in Streams /\ tracked.ids = {} /\ basius = {}
  BY DEF Init, Streams, NothingTracked
<1>6. /\ canon = <<>> /\ written = <<>> /\ tables = <<>> /\ expected = <<>>
      /\ reorgs = 0 /\ restarts = 0 /\ running = FALSE
  BY DEF Init
<1>7. reorgs \in 0 .. MaxReorgs /\ restarts \in 0 .. MaxRestarts /\ Len(canon) <= MaxHeight
  BY <1>1, <1>4, <1>6
<1> QED BY <1>1, <1>2, <1>3, <1>5, <1>6, <1>7 DEF StreamInv

\* What the run and its stream know, and the tables.
Unmoved == UNCHANGED <<written, tables, expected, running, tracked, basius, carried>>

LEMMA UnmovedKnows ==
  ASSUME Unmoved
  PROVE  Knows(LastTables(expected), carried, basius)' <=> Knows(LastTables(expected), carried, basius)
BY DEF Unmoved, Knows, Carried, Known, LastTables

LEMMA Grows ==
  ASSUME StreamInv, Grow
  PROVE  StreamInv'
<1>1. PICK block \in StreamBlocks :
        /\ Len(canon) < MaxHeight /\ canon' = Append(canon, block)
        /\ UNCHANGED <<reorgs, restarts>> /\ Unmoved
  BY DEF Grow, Unmoved
<1>2. canon' \in Seq(StreamBlocks) /\ Len(canon') <= MaxHeight
  BY <1>1, AppendProperties, LenProperties, StreamAssumption DEF StreamInv
<1>3. reorgs' = 0 => IsPrefix(written', canon')
  BY <1>1, PrefixAppended DEF StreamInv, Unmoved
<1> QED BY <1>1, <1>2, <1>3, UnmovedKnows DEF StreamInv, Unmoved

LEMMA Reorganises ==
  ASSUME StreamInv, Reorg
  PROVE  StreamInv'
<1>1. PICK block \in StreamBlocks :
        /\ reorgs < MaxReorgs /\ canon # <<>> /\ canon' = Append(Front(canon), block) /\ reorgs' = reorgs + 1
        /\ UNCHANGED restarts /\ Unmoved
  BY DEF Reorg, Unmoved
<1>2. canon' \in Seq(StreamBlocks) /\ Len(canon') = Len(canon)
  <2>1. canon \in Seq(StreamBlocks) /\ Len(canon) \in Nat
    BY LenProperties DEF StreamInv
  <2>2. Front(canon) \in Seq(StreamBlocks) /\ Len(Front(canon)) = Len(canon) - 1
    BY <1>1, <2>1, FrontProperties
  <2> QED BY <1>1, <2>1, <2>2, AppendProperties
<1>3. reorgs' \in 0 .. MaxReorgs /\ reorgs' # 0
  BY <1>1, StreamAssumption DEF StreamInv
<1> QED BY <1>1, <1>2, <1>3 DEF StreamInv, Unmoved

LEMMA Connects ==
  ASSUME StreamInv, Connect
  PROVE  StreamInv'
<1> DEFINE t == LastTables(tables)
<1>1. /\ running' = TRUE /\ tracked' = LoadTracked(t) /\ basius' = tracked'.ids
      /\ carried' = [services |-> tracked'.services, hosts |-> tracked'.hosts]
      /\ UNCHANGED <<canon, reorgs, restarts, written, tables, expected>>
  BY DEF Connect
<1>2. t \in StreamTable
  BY LastTablesBeside DEF StreamInv, LastBeside
<1>3. /\ tracked'.ids = Known(t) /\ tracked'.services = t.services /\ tracked'.hosts = t.hosts
  BY <1>1 DEF LoadTracked, Known
<1>4. Known(t) \subseteq ServiceIds /\ t.services \in SUBSET Multisigs /\ t.hosts \in SUBSET Hosts
  BY <1>2 DEF Known, StreamTable
<1> HIDE DEF t
<1>5. carried' \in Streams
  BY <1>1, <1>3, <1>4 DEF Streams
<1>6. reorgs = 0 => Knows(LastTables(expected), carried, basius)'
  BY <1>1, <1>3 DEF StreamInv, Knows, Carried, Known, LastTables, t
<1> QED BY <1>1, <1>3, <1>4, <1>5, <1>6 DEF StreamInv

LEMMA RollsBack ==
  ASSUME StreamInv, Rollback
  PROVE  StreamInv'
<1>1. /\ ~ IsPrefix(written, canon)
      /\ written' = Front(written) /\ tables' = Front(tables) /\ expected' = Front(expected)
      /\ basius' = tracked.ids
      /\ UNCHANGED <<canon, reorgs, restarts, running, tracked, carried>>
  BY DEF Rollback
<1>2. reorgs # 0 /\ reorgs' # 0
  BY <1>1 DEF StreamInv
<1>3. written # <<>> /\ tables # <<>>
  <2>1. written # <<>>
    <3>1. canon \in Seq(StreamBlocks) /\ Len(canon) \in Nat
      BY LenProperties DEF StreamInv
    <3>2. <<>> \in Seq(StreamBlocks) /\ Len(<<>>) = 0
      BY EmptySeq
    <3>3. ASSUME NEW w \in Seq(StreamBlocks), Len(w) = 0 PROVE IsPrefix(w, canon)
      <4>1. Len(w) <= Len(canon) /\ 1 .. Len(w) = {}
        BY <3>1, <3>3
      <4> QED BY <3>1, <4>1, PrefixEntries
    <3> QED BY <1>1, <3>2, <3>3
  <2> QED BY <2>1, EmptySeq DEF StreamInv, Beside
<1>4. written' \in Seq(StreamBlocks) /\ Len(written') = Len(written) - 1
  BY <1>1, <1>3, FrontProperties DEF StreamInv
<1>5. Beside(tables', expected') /\ Len(tables') = Len(tables) - 1
  BY <1>1, <1>3, FrontBeside DEF StreamInv
<1> QED BY <1>1, <1>2, <1>4, <1>5 DEF StreamInv, Beside

LEMMA Restarts ==
  ASSUME StreamInv, Restart
  PROVE  StreamInv'
<1>1. restarts < MaxRestarts /\ restarts' = restarts + 1 /\ running' = FALSE
      /\ UNCHANGED <<canon, reorgs, written, tables, expected, tracked, basius, carried>>
  BY DEF Restart
<1>2. restarts' \in 0 .. MaxRestarts
  BY <1>1, StreamAssumption DEF StreamInv
<1> QED BY <1>1, <1>2 DEF StreamInv, Beside

LEMMA KnownBeforeTyped ==
  ASSUME NEW blocks \in Seq(Seq(StreamLogs)), NEW k \in Nat, k <= Len(blocks) + 1, basius \subseteq ServiceIds
  PROVE  KnownBefore(blocks, k) \subseteq ServiceIds
<1>1. ASSUME NEW j \in 1 .. k - 1 PROVE Registrations(ToSet(blocks[j])) \subseteq ServiceIds
  <2>1. Len(blocks) \in Nat /\ j \in 1 .. Len(blocks)
    BY LenProperties
  <2>2. blocks[j] \in Seq(StreamLogs)
    BY <2>1, ElementOfSeq
  <2>3. ToSet(blocks[j]) \subseteq StreamLogs
    BY <2>2, ElementOfSeq, LenProperties DEF ToSet
  <2> QED BY <2>3, LogKinds DEF Registrations
<1> QED BY <1>1 DEF KnownBefore

\* A batch that is written.
Writes(blocks, size) ==
  /\ blocks \in Seq(Seq(StreamLogs)) /\ Len(blocks) = size
  /\ written \o blocks \in Seq(StreamBlocks) /\ Len(written \o blocks) = Len(written) + size
  /\ IsPrefix(written \o blocks, canon)
  /\ BatchDone(blocks, ProcessBlocks(blocks), GraphNode(expected, blocks))

LEMMA BatchWrites ==
  ASSUME StreamInv, NEW size \in 1 .. MaxBatch, Len(written) + size <= Len(canon), IsPrefix(written, canon)
  PROVE  Writes(SubSeq(canon, Len(written) + 1, Len(written) + size), size)
<1> DEFINE b == SubSeq(canon, Len(written) + 1, Len(written) + size)
<1>1. size \in Nat \ {0} /\ written \in Seq(StreamBlocks) /\ canon \in Seq(StreamBlocks)
  BY StreamAssumption DEF StreamInv
<1>2. /\ b \in Seq(StreamBlocks) /\ Len(b) = size
      /\ written \o b \in Seq(StreamBlocks) /\ Len(written \o b) = Len(written) + size
      /\ IsPrefix(written \o b, canon)
  BY <1>1, PrefixExtended
<1> HIDE DEF b
<1>3. b \in Seq(Seq(StreamLogs))
  BY <1>2, BlocksTyped
<1>4. BatchDone(b, ProcessBlocks(b), GraphNode(expected, b))
  BY <1>3, BatchBeside DEF StreamInv
<1>5. Writes(b, size)
  BY <1>2, <1>3, <1>4 DEF Writes
<1> QED BY <1>5 DEF b

LEMMA BatchPasses ==
  ASSUME StreamInv, PassBatch
  PROVE  StreamInv'
<1>1. PICK size \in 1 .. MaxBatch :
        /\ running /\ Len(written) + size <= Len(canon) /\ IsPrefix(written, canon)
        /\ LET blocks == SubSeq(canon, Len(written) + 1, Len(written) + size)
               done == ProcessBlocks(blocks) IN
           /\ \A k \in 1 .. size : ~ Spawns(blocks[k], KnownBefore(blocks, k))
           /\ tables' = done.tables /\ carried' = done.carried
           /\ expected' = GraphNode(expected, blocks)
           /\ written' = written \o blocks /\ basius' = KnownBefore(blocks, size + 1)
        /\ UNCHANGED <<canon, reorgs, restarts, running, tracked>>
  BY DEF PassBatch
<1> DEFINE blocks == SubSeq(canon, Len(written) + 1, Len(written) + size)
           done == ProcessBlocks(blocks)
           exp == GraphNode(expected, blocks)
<1>2. Writes(blocks, size)
  BY <1>1, BatchWrites
<1>3. /\ \A k \in 1 .. size : ~ Spawns(blocks[k], KnownBefore(blocks, k))
      /\ tables' = done.tables /\ carried' = done.carried /\ expected' = exp
      /\ written' = written \o blocks /\ basius' = KnownBefore(blocks, size + 1)
      /\ UNCHANGED <<canon, reorgs, restarts, running, tracked>>
  BY <1>1
<1> HIDE DEF blocks
<1>4. /\ blocks \in Seq(Seq(StreamLogs)) /\ Len(blocks) = size /\ size \in Nat \ {0}
      /\ written' \in Seq(StreamBlocks) /\ Len(written') = Len(written) + size /\ IsPrefix(written', canon')
      /\ BatchDone(blocks, done, exp)
  BY <1>2, <1>3, StreamAssumption DEF Writes
<1> HIDE DEF done, exp
<1>5. /\ Beside(tables', expected') /\ Len(tables') = Len(tables) + size /\ carried' \in Streams
      /\ tables = expected /\ Knows(LastTables(expected), carried, basius)
           => tables' = expected' /\ Knows(LastTables(expected'), carried', basius')
  BY <1>3, <1>4 DEF BatchDone
<1>6. basius' \subseteq ServiceIds
  <2>1. size + 1 \in Nat /\ size + 1 <= Len(blocks) + 1 /\ basius \subseteq ServiceIds
    BY <1>4 DEF StreamInv
  <2> QED BY <1>3, <1>4, <2>1, KnownBeforeTyped
<1>7. Knows(LastTables(expected'), carried', basius') => Knows(LastTables(expected), carried, basius)'
  BY <1>3 DEF Knows, Carried, Known, LastTables
<1>8. reorgs' = 0 => tables' = expected' /\ Knows(LastTables(expected), carried, basius)'
  BY <1>1, <1>3, <1>5, <1>7 DEF StreamInv
<1> QED BY <1>3, <1>4, <1>5, <1>6, <1>8 DEF StreamInv, Beside

LEMMA Cuts ==
  ASSUME StreamInv, CutBatch
  PROVE  StreamInv'
<1>1. PICK size \in 1 .. MaxBatch :
        /\ running /\ Len(written) + size <= Len(canon) /\ IsPrefix(written, canon)
        /\ LET blocks == SubSeq(canon, Len(written) + 1, Len(written) + size)
               done == ProcessBlocks(blocks) IN
           /\ \A k \in 1 .. size - 1 : ~ Spawns(blocks[k], KnownBefore(blocks, k))
           /\ tables' = done.tables /\ carried' = done.carried
           /\ expected' = GraphNode(expected, blocks)
           /\ written' = written \o blocks
        /\ running' = FALSE /\ UNCHANGED <<canon, reorgs, restarts, tracked, basius>>
  BY DEF CutBatch
<1> DEFINE blocks == SubSeq(canon, Len(written) + 1, Len(written) + size)
           done == ProcessBlocks(blocks)
           exp == GraphNode(expected, blocks)
<1>2. Writes(blocks, size)
  BY <1>1, BatchWrites
<1>3. /\ \A k \in 1 .. size - 1 : ~ Spawns(blocks[k], KnownBefore(blocks, k))
      /\ tables' = done.tables /\ carried' = done.carried /\ expected' = exp
      /\ written' = written \o blocks
      /\ running' = FALSE /\ UNCHANGED <<canon, reorgs, restarts, tracked, basius>>
  BY <1>1
<1> HIDE DEF blocks
<1>4. /\ Len(blocks) = size
      /\ written' \in Seq(StreamBlocks) /\ Len(written') = Len(written) + size /\ IsPrefix(written', canon')
      /\ BatchDone(blocks, done, exp)
  BY <1>2, <1>3 DEF Writes
<1> HIDE DEF done, exp
<1>5. /\ Beside(tables', expected') /\ Len(tables') = Len(tables) + size /\ carried' \in Streams
      /\ tables = expected /\ Knows(LastTables(expected), carried, basius) => tables' = expected'
  BY <1>3, <1>4 DEF BatchDone
<1>6. reorgs' = 0 => tables' = expected'
  BY <1>1, <1>3, <1>5 DEF StreamInv
<1> QED BY <1>3, <1>4, <1>5, <1>6 DEF StreamInv, Beside

LEMMA StaysStreamInv ==
  ASSUME StreamInv, UNCHANGED vars
  PROVE  StreamInv'
<1>1. Unmoved /\ UNCHANGED <<canon, reorgs, restarts>>
  BY DEF vars, Unmoved
<1> QED BY <1>1, UnmovedKnows DEF StreamInv, Unmoved, Beside

LEMMA StreamInvariance == Spec => []StreamInv
<1>1. Init => StreamInv
  BY Starts
<1>2. StreamInv /\ [Next]_vars => StreamInv'
  <2> SUFFICES ASSUME StreamInv, [Next]_vars PROVE StreamInv'
    OBVIOUS
  <2>1. CASE Grow
    BY <2>1, Grows
  <2>2. CASE Reorg
    BY <2>2, Reorganises
  <2>3. CASE Restart
    BY <2>3, Restarts
  <2>4. CASE Connect
    BY <2>4, Connects
  <2>5. CASE PassBatch
    BY <2>5, BatchPasses
  <2>6. CASE CutBatch
    BY <2>6, Cuts
  <2>7. CASE Rollback
    BY <2>7, RollsBack
  <2>8. CASE UNCHANGED vars
    BY <2>8, StaysStreamInv
  <2> QED BY <2>1, <2>2, <2>3, <2>4, <2>5, <2>6, <2>7, <2>8 DEF Next, Run
<1> QED BY <1>1, <1>2, PTL DEF Spec

LEMMA StreamInvImplies == StreamInv => LogsAsGraphNode
<1> SUFFICES ASSUME StreamInv PROVE LogsAsGraphNode
  OBVIOUS
<1>1. /\ tables \in Seq(StreamTable) /\ DOMAIN tables = 1 .. Len(tables)
      /\ Len(tables) = Len(expected) /\ Len(tables) = Len(written)
  BY LenProperties DEF StreamInv, Beside
<1>2. ASSUME NEW n \in DOMAIN tables
      PROVE  /\ tables[n] \in StreamTable /\ Same(tables[n], expected[n])
             /\ ToSet(tables[n].handled) \subseteq ToSet(expected[n].handled) /\ IsInjective(tables[n].handled)
  BY <1>1, ElementOfSeq DEF StreamInv, Beside
<1>3. TypeOK
  <2>1. \A n \in DOMAIN tables :
          /\ tables[n].operator \in [ServiceIds -> Operators \cup {NoOperator}]
          /\ tables[n].services \subseteq Multisigs /\ tables[n].hosts \subseteq Hosts
    BY <1>2 DEF StreamTable
  <2>2. carried.services \subseteq Multisigs /\ carried.hosts \subseteq Hosts
    BY DEF StreamInv, Streams
  <2> QED BY <1>1, <2>1, <2>2 DEF StreamInv, TypeOK
<1>4. AsGraphNode
  BY DEF StreamInv, AsGraphNode
<1>5. NoForeignLogs
  BY <1>1, <1>2 DEF NoForeignLogs, Same
<1>6. HandledOnce
  BY <1>2 DEF HandledOnce
<1> QED BY <1>3, <1>4, <1>5, <1>6 DEF LogsAsGraphNode

\* processBlock and cutAtSpawn (babydegen/src/block.ts:71-123, sources.ts:116-134):
\* whatever the chain's blocks hold, however they are cut into batches and streams and
\* whenever the process restarts, the squid handles what graph-node handles, in its
\* order, and each log once; a reorganisation costs no more than logs.
THEOREM LogsAlwaysAsGraphNode == Spec => []LogsAsGraphNode
<1>1. Spec => []StreamInv
  BY StreamInvariance
<1>2. StreamInv => LogsAsGraphNode
  BY StreamInvImplies
<1> QED BY <1>1, <1>2, PTL
==============================================================================
