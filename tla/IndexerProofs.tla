--------------------------- MODULE IndexerProofs ---------------------------
(***************************************************************************)
(* What the run of an Indexer is, for any handlers: its tables after no    *)
(* event are the empty ones, and one event more is one Apply more.  Run is *)
(* defined by recursion, and the facts are proved by induction on the      *)
(* least number of events they would not hold for.                         *)
(***************************************************************************)
EXTENDS Indexer, SequenceTheorems, NaturalsInduction, WellFoundedInduction, TLAPS

\* A set of numbers that is not empty has a least element: how the proofs
\* below do induction.
LEMMA LeastNumber ==
  ASSUME NEW T, T \subseteq Nat, T # {}
  PROVE  \E x \in T : \A y \in T : ~ (y < x)
<1>1. PICK x \in T : \A y \in T : ~ (<<y, x>> \in OpToRel(<, Nat))
  BY NatLessThanWellFounded, WFMin, Zenon
<1> QED BY <1>1, Zenon DEF OpToRel

\* f[i]: the tables after the first i of the events, for i up to n.
IsRun(f, events, n) ==
  f = [i \in 0 .. n |-> IF i = 0 THEN EmptyTable ELSE Apply(f[i - 1], events[i], i)]

LEMMA RunExists ==
  ASSUME NEW events, NEW m \in Nat
  PROVE  \E f : IsRun(f, events, m)
<1> DEFINE T == {n \in Nat : ~ \E f : IsRun(f, events, n)}
<1>1. SUFFICES ASSUME T # {} PROVE FALSE
  BY Zenon
<1>2. PICK n \in T : \A y \in T : ~ (y < n)
  BY <1>1, LeastNumber, Zenon
<1>3. n \in Nat /\ ~ \E f : IsRun(f, events, n)
  BY Zenon
<1>4. CASE n = 0
  <2>1. IsRun([i \in 0 .. 0 |-> EmptyTable], events, 0)
    BY DEF IsRun
  <2> QED BY <1>3, <1>4, <2>1
<1>5. CASE n # 0
  <2>1. n - 1 \in Nat /\ n - 1 < n
    BY <1>3, <1>5
  <2>2. PICK f : IsRun(f, events, n - 1)
    BY <1>2, <2>1, Zenon
  <2>3. IsRun([i \in 0 .. n |-> IF i < n THEN f[i] ELSE Apply(f[n - 1], events[n], n)],
              events, n)
    BY <2>1, <2>2, <1>3, <1>5 DEF IsRun
  <2> QED BY <1>3, <2>3
<1> QED BY <1>4, <1>5

\* Two runs are the same as far as their events are.
LEMMA RunsAgree ==
  ASSUME NEW s, NEW t, NEW n \in Nat, NEW m \in Nat, n <= m, NEW f, NEW g,
         IsRun(f, s, n), IsRun(g, t, m), \A i \in 1 .. n : s[i] = t[i]
  PROVE  f[n] = g[n]
<1> DEFINE T == {i \in 0 .. n : f[i] # g[i]}
<1>1. SUFFICES ASSUME T # {} PROVE FALSE
  BY n \in 0 .. n
<1>2. PICK i \in T : \A y \in T : ~ (y < i)
  <2>1. T \subseteq Nat
    OBVIOUS
  <2> QED BY <1>1, <2>1, LeastNumber, Zenon
<1>3. i \in 0 .. n /\ f[i] # g[i]
  BY Zenon
<1>4. i # 0
  BY <1>3 DEF IsRun
<1>5. i - 1 \in 0 .. n /\ i - 1 < i
  BY <1>3, <1>4
<1>6. f[i - 1] = g[i - 1]
  BY <1>2, <1>5
<1>7. s[i] = t[i]
  BY <1>3, <1>4
<1>8. f[i] = Apply(f[i - 1], s[i], i)
  BY <1>3, <1>4 DEF IsRun
<1>9. g[i] = Apply(g[i - 1], t[i], i)
  <2>1. i \in 0 .. m
    BY <1>3
  <2> QED BY <1>4, <2>1 DEF IsRun
<1> QED BY <1>3, <1>6, <1>7, <1>8, <1>9

LEMMA RunIsLast ==
  ASSUME NEW events, Len(events) \in Nat
  PROVE  \E f : IsRun(f, events, Len(events)) /\ Run(events) = f[Len(events)]
<1> DEFINE g == CHOOSE f : IsRun(f, events, Len(events))
<1>1. IsRun(g, events, Len(events))
  BY RunExists, Zenon
<1>2. Run(events) = g[Len(events)]
  BY Zenon DEF Run, IsRun
<1> QED BY <1>1, <1>2

\* The first n events of a sequence.
LEMMA PrefixFacts ==
  ASSUME NEW s \in Seq(Event), NEW n \in 0 .. Len(s)
  PROVE  /\ SubSeq(s, 1, n) \in Seq(Event)
         /\ Len(SubSeq(s, 1, n)) = n
         /\ \A i \in 1 .. n : SubSeq(s, 1, n)[i] = s[i]
<1>1. \A i \in 1 .. n : s[i] \in Event
  BY ElementOfSeq, LenProperties
<1> QED BY <1>1, SubSeqProperties, LenProperties

\* The run over no event, and over one event more.
LEMMA RunStep ==
  ASSUME NEW s \in Seq(Event)
  PROVE  /\ Run(SubSeq(s, 1, 0)) = EmptyTable
         /\ \A n \in 0 .. Len(s) - 1 :
               Run(SubSeq(s, 1, n + 1))
                 = Apply(Run(SubSeq(s, 1, n)), s[n + 1], n + 1)
         /\ SubSeq(s, 1, Len(s)) = s
<1>0. Len(s) \in Nat
  BY LenProperties
<1>1. Run(SubSeq(s, 1, 0)) = EmptyTable
  <2> DEFINE a == SubSeq(s, 1, 0)
  <2>1. Len(a) = 0 /\ Len(a) \in Nat
    BY <1>0, PrefixFacts
  <2> HIDE DEF a
  <2>2. PICK f : IsRun(f, a, 0) /\ Run(a) = f[0]
    BY <2>1, RunIsLast
  <2> QED BY <2>2 DEF IsRun, a
<1>2. ASSUME NEW n \in 0 .. Len(s) - 1
      PROVE  Run(SubSeq(s, 1, n + 1))
               = Apply(Run(SubSeq(s, 1, n)), s[n + 1], n + 1)
  <2> DEFINE a == SubSeq(s, 1, n)
             b == SubSeq(s, 1, n + 1)
  <2>1. /\ n \in 0 .. Len(s) /\ n + 1 \in 0 .. Len(s) /\ n \in Nat /\ n + 1 \in Nat
        /\ n + 1 \in 1 .. n + 1 /\ n + 1 # 0 /\ n + 1 - 1 = n
        /\ n + 1 \in 0 .. n + 1
    BY <1>0
  <2>2. /\ Len(a) = n /\ Len(b) = n + 1
        /\ \A i \in 1 .. n : a[i] = s[i]
        /\ \A i \in 1 .. n + 1 : b[i] = s[i]
    BY <2>1, PrefixFacts
  <2>3. \A i \in 1 .. n : a[i] = b[i]
    BY <2>1, <2>2
  <2> HIDE DEF a, b
  <2>4. PICK f : IsRun(f, a, n) /\ Run(a) = f[n]
    BY <2>1, <2>2, RunIsLast
  <2>5. PICK g : IsRun(g, b, n + 1) /\ Run(b) = g[n + 1]
    BY <2>1, <2>2, RunIsLast
  <2>6. f[n] = g[n]
    <3> DEFINE m == n + 1
    <3>1. n \in Nat /\ m \in Nat /\ n <= m
      BY <2>1
    <3>2. IsRun(f, a, n) /\ IsRun(g, b, m) /\ \A i \in 1 .. n : a[i] = b[i]
      BY <2>3, <2>4, <2>5
    <3> HIDE DEF m
    <3> QED BY <3>1, <3>2, RunsAgree
  <2>7. g[n + 1] = Apply(g[n], b[n + 1], n + 1)
    BY <2>1, <2>5 DEF IsRun
  <2> QED BY <2>1, <2>2, <2>4, <2>5, <2>6, <2>7 DEF a, b
<1>3. SubSeq(s, 1, Len(s)) = s
  BY <1>0, PrefixFacts, SeqEqual
<1> QED BY <1>1, <1>2, <1>3
=============================================================================
