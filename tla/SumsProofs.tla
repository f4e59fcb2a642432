------------------------------- MODULE SumsProofs -------------------------------
(***************************************************************************)
(* What a sum over a finite set is, in whatever order it is computed, and  *)
(* what it becomes when one of its terms changes.  Total is defined by       *)
(* recursion on the set, and the facts are proved by induction on the      *)
(* smallest set they would not hold for.                                   *)
(***************************************************************************)
EXTENDS Sums, FiniteSetTheorems, NaturalsInduction, WellFoundedInduction, TLAPS

\* A set of numbers has a least one, and a set of finite sets a smallest one.
LEMMA LeastIndex ==
  ASSUME NEW T, T \subseteq Nat, T # {}
  PROVE  \E x \in T : \A y \in T : ~ (y < x)
<1>1. PICK x \in T : \A y \in T : ~ (<<y, x>> \in OpToRel(<, Nat))
  BY NatLessThanWellFounded, WFMin, Zenon
<1> QED BY <1>1, Zenon DEF OpToRel

LEMMA SmallestSet ==
  ASSUME NEW F, F # {}, \A T \in F : IsFiniteSet(T)
  PROVE  \E T \in F : \A U \in F : ~ (Cardinality(U) < Cardinality(T))
<1> DEFINE N == {Cardinality(T) : T \in F}
<1>1. N \subseteq Nat /\ N # {}
  BY FS_CardinalityType
<1>2. PICK n \in N : \A y \in N : ~ (y < n)
  <2> HIDE DEF N
  <2> QED BY <1>1, LeastIndex, Zenon
<1>3. PICK T \in F : n = Cardinality(T)
  OBVIOUS
<1> QED BY <1>2, <1>3

Pick(s) == CHOOSE x \in s : TRUE

\* The value of the sum for every subset of S, as Total computes it.
IsSum(g, f, S) ==
  g = [s \in SUBSET S |-> IF s = {} THEN 0 ELSE f[Pick(s)] + g[s \ {Pick(s)}]]

LEMMA Picked ==
  ASSUME NEW s, IsFiniteSet(s), s # {}
  PROVE  /\ Pick(s) \in s
         /\ \A x \in s : IsFiniteSet(s \ {x}) /\ Cardinality(s \ {x}) < Cardinality(s)
<1>1. Pick(s) \in s
  BY DEF Pick
<1>2. ASSUME NEW x \in s PROVE IsFiniteSet(s \ {x}) /\ Cardinality(s \ {x}) < Cardinality(s)
  <2>1. /\ IsFiniteSet(s \ {x}) /\ Cardinality(s \ {x}) = Cardinality(s) - 1
        /\ Cardinality(s) \in Nat
    BY FS_RemoveElement, FS_CardinalityType
  <2> QED BY <2>1
<1> QED BY <1>1, <1>2

LEMMA SumsAgree ==
  ASSUME NEW f, NEW g, NEW h, NEW A, NEW B, IsSum(g, f, A), IsSum(h, f, B),
         IsFiniteSet(A)
  PROVE  \A s \in SUBSET (A \cap B) : g[s] = h[s]
<1> DEFINE F == {s \in SUBSET (A \cap B) : g[s] # h[s]}
<1>1. SUFFICES ASSUME F # {} PROVE FALSE
  OBVIOUS
<1>2. \A s \in F : IsFiniteSet(s)
  <2>1. \A s \in F : s \in SUBSET A
    OBVIOUS
  <2> HIDE DEF F
  <2> QED BY <2>1, FS_Subset
<1>3. PICK s \in F : \A u \in F : ~ (Cardinality(u) < Cardinality(s))
  <2> HIDE DEF F
  <2> QED BY <1>1, <1>2, SmallestSet
<1>4. s \in SUBSET A /\ s \in SUBSET B /\ g[s] # h[s] /\ IsFiniteSet(s)
  BY <1>2
<1> HIDE DEF F
<1>5. g[s] = (IF s = {} THEN 0 ELSE f[Pick(s)] + g[s \ {Pick(s)}])
  BY <1>4 DEF IsSum
<1>6. h[s] = (IF s = {} THEN 0 ELSE f[Pick(s)] + h[s \ {Pick(s)}])
  BY <1>4 DEF IsSum
<1>7. s # {}
  BY <1>4, <1>5, <1>6
<1>8. s \ {Pick(s)} \in SUBSET (A \cap B) /\ Cardinality(s \ {Pick(s)}) < Cardinality(s)
  BY <1>4, <1>7, Picked
<1>9. g[s \ {Pick(s)}] = h[s \ {Pick(s)}]
  BY <1>3, <1>8 DEF F
<1> QED BY <1>4, <1>5, <1>6, <1>9

\* The function that Total chooses.
Chosen(f, S) == CHOOSE g : IsSum(g, f, S)

LEMMA SumIsChosen ==
  ASSUME NEW f, NEW S PROVE Total(f, S) = Chosen(f, S)[S]
BY Zenon DEF Total, Chosen, IsSum, Pick

LEMMA SumExists ==
  ASSUME NEW f, NEW S, IsFiniteSet(S)
  PROVE  IsSum(Chosen(f, S), f, S)
<1> DEFINE F == {T \in SUBSET S : ~ \E g : IsSum(g, f, T)}
<1>1. \E g : IsSum(g, f, S)
  <2>1. SUFFICES ASSUME F # {} PROVE FALSE
    BY Zenon
  <2>2. \A T \in F : IsFiniteSet(T)
    BY FS_Subset
  <2>3. PICK T \in F : \A U \in F : ~ (Cardinality(U) < Cardinality(T))
    <3> HIDE DEF F
    <3> QED BY <2>1, <2>2, SmallestSet
  <2>4. T \in SUBSET S /\ ~ (\E g : IsSum(g, f, T)) /\ IsFiniteSet(T)
    BY <2>2
  <2>5. ASSUME NEW U \in SUBSET T, U # T PROVE IsSum(Chosen(f, U), f, U) /\ IsFiniteSet(U)
    <3>1. IsFiniteSet(U) /\ Cardinality(U) < Cardinality(T) /\ U \in SUBSET S
      <4>1. /\ IsFiniteSet(U) /\ Cardinality(U) <= Cardinality(T) /\ Cardinality(U) # Cardinality(T)
            /\ Cardinality(U) \in Nat /\ Cardinality(T) \in Nat
        BY <2>4, <2>5, FS_Subset, FS_CardinalityType
      <4> QED BY <2>4, <4>1
    <3>2. \E g : IsSum(g, f, U)
      BY <2>3, <3>1
    <3> QED BY <3>1, <3>2, Zenon DEF Chosen
  <2>6. ASSUME NEW U \in SUBSET T, U # T, U # {}
        PROVE  Total(f, U) = f[Pick(U)] + Total(f, U \ {Pick(U)})
    <3> DEFINE V == U \ {Pick(U)}
    <3>1. IsSum(Chosen(f, U), f, U) /\ IsSum(Chosen(f, V), f, V) /\ IsFiniteSet(U)
          /\ V \in SUBSET U
      <4>1. IsSum(Chosen(f, U), f, U) /\ IsFiniteSet(U)
        BY <2>5, <2>6
      <4>2. V \in SUBSET T /\ V # T /\ V \in SUBSET U
        BY <2>6, <4>1, Picked
      <4> HIDE DEF V
      <4> QED BY <2>5, <4>1, <4>2
    <3>2. Chosen(f, U)[U] = f[Pick(U)] + Chosen(f, U)[V]
      BY <2>6, <3>1 DEF IsSum
    <3> HIDE DEF V
    <3>3. V \in SUBSET (U \cap V)
      BY <3>1
    <3>4. Chosen(f, U)[V] = Chosen(f, V)[V]
      <4>1. \A s \in SUBSET (U \cap V) : Chosen(f, U)[s] = Chosen(f, V)[s]
        BY <3>1, SumsAgree
      <4> QED BY <3>3, <4>1
    <3>5. Total(f, U) = f[Pick(U)] + Total(f, V)
      BY <3>2, <3>4, SumIsChosen
    <3> QED BY <3>5 DEF V
  <2>7. \A U \in SUBSET T : U = {} /\ U # T => Total(f, U) = 0
    <3> SUFFICES ASSUME {} # T PROVE Total(f, {}) = 0
      OBVIOUS
    <3>1. IsSum(Chosen(f, {}), f, {})
      BY <2>5
    <3>2. Chosen(f, {})[{}] = 0
      BY <3>1 DEF IsSum
    <3> QED BY <3>2, SumIsChosen
  <2> DEFINE Value(s) == IF s = T /\ T # {} THEN f[Pick(T)] + Total(f, T \ {Pick(T)})
                         ELSE IF s = {} THEN 0 ELSE Total(f, s)
             g == [s \in SUBSET T |-> Value(s)]
             Body(s) == IF s = {} THEN 0 ELSE f[Pick(s)] + g[s \ {Pick(s)}]
  <2>8. \A s \in SUBSET T : Value(s) = Body(s)
    <3> SUFFICES ASSUME NEW s \in SUBSET T, s # {} PROVE Value(s) = f[Pick(s)] + g[s \ {Pick(s)}]
      OBVIOUS
    <3> DEFINE r == s \ {Pick(s)}
    <3>1. IsFiniteSet(s) /\ Pick(s) \in s /\ r \in SUBSET T /\ r # T
      <4>1. IsFiniteSet(s)
        BY <2>4, FS_Subset
      <4> QED BY <4>1, Picked
    <3>2. g[r] = Value(r)
      BY <3>1
    <3>3. Value(r) = Total(f, r)
      BY <2>7, <3>1
    <3>4. Value(s) = f[Pick(s)] + Total(f, r)
      BY <2>6
    <3> QED BY <3>2, <3>3, <3>4
  <2>9. g = [s \in SUBSET T |-> Body(s)]
    <3> HIDE DEF Value, Body
    <3> QED BY <2>8
  <2>10. IsSum(g, f, T)
    BY <2>9, Zenon DEF IsSum
  <2> QED BY <2>4, <2>10
<1> QED BY <1>1, Zenon DEF Chosen

\* One term more: the recursion of Total, for sums over different sets.
LEMMA SumRecurs ==
  ASSUME NEW f, NEW S, IsFiniteSet(S)
  PROVE  /\ Total(f, {}) = 0
         /\ S # {} => Total(f, S) = f[Pick(S)] + Total(f, S \ {Pick(S)})
<1>1. Total(f, {}) = 0
  <2>1. IsSum(Chosen(f, {}), f, {})
    BY FS_EmptySet, SumExists
  <2>2. Chosen(f, {})[{}] = 0
    BY <2>1 DEF IsSum
  <2> QED BY <2>2, SumIsChosen
<1>2. ASSUME S # {} PROVE Total(f, S) = f[Pick(S)] + Total(f, S \ {Pick(S)})
  <2> DEFINE R == S \ {Pick(S)}
  <2>1. IsFiniteSet(R) /\ R \in SUBSET S /\ R \in SUBSET (S \cap R)
    BY <1>2, Picked
  <2>2. IsSum(Chosen(f, S), f, S)
    BY SumExists
  <2>3. Chosen(f, S)[S] = f[Pick(S)] + Chosen(f, S)[R]
    BY <1>2, <2>2 DEF IsSum
  <2> HIDE DEF R
  <2>4. IsSum(Chosen(f, R), f, R)
    BY <2>1, SumExists
  <2>5. Chosen(f, S)[R] = Chosen(f, R)[R]
    <3>1. \A s \in SUBSET (S \cap R) : Chosen(f, S)[s] = Chosen(f, R)[s]
      BY <2>2, <2>4, SumsAgree
    <3> QED BY <2>1, <3>1
  <2>6. Total(f, S) = f[Pick(S)] + Total(f, R)
    BY <2>3, <2>5, SumIsChosen
  <2> QED BY <2>6 DEF R
<1> QED BY <1>1, <1>2

LEMMA SumTyped ==
  ASSUME NEW f, NEW S, IsFiniteSet(S), \A x \in S : f[x] \in Int
  PROVE  Total(f, S) \in Int
<1> DEFINE F == {T \in SUBSET S : Total(f, T) \notin Int}
<1>1. SUFFICES ASSUME F # {} PROVE FALSE
  BY Zenon
<1>2. \A T \in F : IsFiniteSet(T)
  BY FS_Subset
<1>3. PICK T \in F : \A U \in F : ~ (Cardinality(U) < Cardinality(T))
  <2> HIDE DEF F
  <2> QED BY <1>1, <1>2, SmallestSet
<1>4. T \in SUBSET S /\ Total(f, T) \notin Int /\ IsFiniteSet(T)
  BY <1>2
<1>5. T # {}
  <2>1. Total(f, {}) = 0
    BY FS_EmptySet, SumRecurs
  <2> QED BY <1>4, <2>1
<1> DEFINE R == T \ {Pick(T)}
<1>6. Pick(T) \in S /\ Cardinality(R) < Cardinality(T) /\ R \in SUBSET S
  BY <1>4, <1>5, Picked
<1>7. Total(f, R) \in Int
  BY <1>3, <1>6
<1> HIDE DEF F
<1>8. Total(f, T) = f[Pick(T)] + Total(f, R)
  BY <1>4, <1>5, SumRecurs
<1> QED BY <1>4, <1>6, <1>7, <1>8

\* Whichever term is taken out, the others make the rest.
LEMMA SumSplit ==
  ASSUME NEW f, NEW S, IsFiniteSet(S), \A x \in S : f[x] \in Int, NEW e \in S
  PROVE  Total(f, S) = f[e] + Total(f, S \ {e})
<1> DEFINE F == {T \in SUBSET S : \E x \in T : Total(f, T) # f[x] + Total(f, T \ {x})}
<1>1. SUFFICES ASSUME F # {} PROVE FALSE
  BY Zenon
<1>2. \A T \in F : IsFiniteSet(T)
  BY FS_Subset
<1>3. PICK T \in F : \A U \in F : ~ (Cardinality(U) < Cardinality(T))
  <2> HIDE DEF F
  <2> QED BY <1>1, <1>2, SmallestSet
<1>4. T \in SUBSET S /\ IsFiniteSet(T)
  BY <1>2
<1>5. PICK x \in T : Total(f, T) # f[x] + Total(f, T \ {x})
  OBVIOUS
<1>6. PICK c : c = Pick(T)
  OBVIOUS
<1>7. c \in T /\ Total(f, T) = f[c] + Total(f, T \ {c})
  BY <1>4, <1>5, <1>6, Picked, SumRecurs
<1>8. x # c
  BY <1>5, <1>7
<1>9. \A y \in T : /\ IsFiniteSet(T \ {y}) /\ T \ {y} \in SUBSET S
                   /\ Cardinality(T \ {y}) < Cardinality(T)
  BY <1>4, <1>5, Picked
<1>10. \A y \in T : \A z \in T \ {y} : Total(f, T \ {y}) = f[z] + Total(f, (T \ {y}) \ {z})
  BY <1>3, <1>9
<1> HIDE DEF F
<1>11. /\ Total(f, T \ {c}) = f[x] + Total(f, (T \ {c}) \ {x})
       /\ Total(f, T \ {x}) = f[c] + Total(f, (T \ {x}) \ {c})
  BY <1>5, <1>7, <1>8, <1>10
<1>12. (T \ {c}) \ {x} = (T \ {x}) \ {c}
  OBVIOUS
<1>13. PICK rest : rest = Total(f, (T \ {x}) \ {c}) /\ rest \in Int
  <2>1. (T \ {x}) \ {c} \in SUBSET S
    BY <1>4
  <2>2. IsFiniteSet((T \ {x}) \ {c}) /\ \A y \in (T \ {x}) \ {c} : f[y] \in Int
    BY <2>1, FS_Subset
  <2> QED BY <2>2, SumTyped
<1>14. f[x] \in Int /\ f[c] \in Int
  BY <1>4, <1>5, <1>7
<1>15. Total(f, T) = f[c] + (f[x] + rest) /\ Total(f, T \ {x}) = f[c] + rest
  BY <1>7, <1>11, <1>12, <1>13
<1> QED BY <1>5, <1>14, <1>15, <1>13

LEMMA SumSame ==
  ASSUME NEW f, NEW g, NEW S, IsFiniteSet(S), \A x \in S : f[x] = g[x]
  PROVE  Total(f, S) = Total(g, S)
<1> DEFINE F == {T \in SUBSET S : Total(f, T) # Total(g, T)}
<1>1. SUFFICES ASSUME F # {} PROVE FALSE
  BY Zenon
<1>2. \A T \in F : IsFiniteSet(T)
  BY FS_Subset
<1>3. PICK T \in F : \A U \in F : ~ (Cardinality(U) < Cardinality(T))
  <2> HIDE DEF F
  <2> QED BY <1>1, <1>2, SmallestSet
<1>4. T \in SUBSET S /\ Total(f, T) # Total(g, T) /\ IsFiniteSet(T)
  BY <1>2
<1>5. T # {}
  BY <1>4, SumRecurs
<1> DEFINE R == T \ {Pick(T)}
<1>6. Pick(T) \in S /\ Cardinality(R) < Cardinality(T) /\ R \in SUBSET S
  BY <1>4, <1>5, Picked
<1>7. Total(f, R) = Total(g, R) /\ f[Pick(T)] = g[Pick(T)]
  BY <1>3, <1>6
<1> HIDE DEF F
<1>8. Total(f, T) = f[Pick(T)] + Total(f, R) /\ Total(g, T) = g[Pick(T)] + Total(g, R)
  BY <1>4, <1>5, SumRecurs
<1> QED BY <1>4, <1>7, <1>8

\* A term changes, and the sum by as much.
LEMMA SumChange ==
  ASSUME NEW f, NEW g, NEW S, IsFiniteSet(S), \A x \in S : f[x] \in Int /\ g[x] \in Int,
         NEW e \in S, \A x \in S \ {e} : f[x] = g[x]
  PROVE  Total(g, S) = Total(f, S) + (g[e] - f[e])
<1>1. Total(f, S) = f[e] + Total(f, S \ {e}) /\ Total(g, S) = g[e] + Total(g, S \ {e})
  BY SumSplit
<1>2. IsFiniteSet(S \ {e})
  BY FS_RemoveElement
<1>3. Total(f, S \ {e}) = Total(g, S \ {e}) /\ Total(f, S \ {e}) \in Int
  BY <1>2, SumSame, SumTyped
<1>4. f[e] \in Int /\ g[e] \in Int
  OBVIOUS
<1> QED BY <1>1, <1>3, <1>4

LEMMA SumZero ==
  ASSUME NEW f, NEW S, IsFiniteSet(S), \A x \in S : f[x] = 0
  PROVE  Total(f, S) = 0
<1> DEFINE F == {T \in SUBSET S : Total(f, T) # 0}
<1>1. SUFFICES ASSUME F # {} PROVE FALSE
  BY Zenon
<1>2. \A T \in F : IsFiniteSet(T)
  BY FS_Subset
<1>3. PICK T \in F : \A U \in F : ~ (Cardinality(U) < Cardinality(T))
  <2> HIDE DEF F
  <2> QED BY <1>1, <1>2, SmallestSet
<1>4. T \in SUBSET S /\ Total(f, T) # 0 /\ IsFiniteSet(T)
  BY <1>2
<1>5. T # {}
  BY <1>4, SumRecurs
<1> DEFINE R == T \ {Pick(T)}
<1>6. Pick(T) \in S /\ Cardinality(R) < Cardinality(T) /\ R \in SUBSET S
  BY <1>4, <1>5, Picked
<1>7. Total(f, R) = 0 /\ f[Pick(T)] = 0
  BY <1>3, <1>6
<1> HIDE DEF F
<1>8. Total(f, T) = f[Pick(T)] + Total(f, R)
  BY <1>4, <1>5, SumRecurs
<1> QED BY <1>4, <1>7, <1>8

LEMMA SumNatural ==
  ASSUME NEW f, NEW S, IsFiniteSet(S), \A x \in S : f[x] \in Nat
  PROVE  Total(f, S) \in Nat
<1> DEFINE F == {T \in SUBSET S : Total(f, T) \notin Nat}
<1>1. SUFFICES ASSUME F # {} PROVE FALSE
  BY Zenon
<1>2. \A T \in F : IsFiniteSet(T)
  BY FS_Subset
<1>3. PICK T \in F : \A U \in F : ~ (Cardinality(U) < Cardinality(T))
  <2> HIDE DEF F
  <2> QED BY <1>1, <1>2, SmallestSet
<1>4. T \in SUBSET S /\ Total(f, T) \notin Nat /\ IsFiniteSet(T)
  BY <1>2
<1>5. T # {}
  <2>1. Total(f, {}) = 0
    BY FS_EmptySet, SumRecurs
  <2> QED BY <1>4, <2>1
<1> DEFINE R == T \ {Pick(T)}
<1>6. Pick(T) \in S /\ Cardinality(R) < Cardinality(T) /\ R \in SUBSET S
  BY <1>4, <1>5, Picked
<1>7. Total(f, R) \in Nat
  BY <1>3, <1>6
<1> HIDE DEF F
<1>8. Total(f, T) = f[Pick(T)] + Total(f, R)
  BY <1>4, <1>5, SumRecurs
<1> QED BY <1>4, <1>6, <1>7, <1>8

\* Some of the terms grow by the same amount.
LEMMA SumEach ==
  ASSUME NEW f, NEW g, NEW S, IsFiniteSet(S), \A x \in S : f[x] \in Int, NEW R \in SUBSET S,
         NEW c \in Nat, \A x \in S : g[x] = IF x \in R THEN f[x] + c ELSE f[x]
  PROVE  Total(g, S) = Total(f, S) + c * Cardinality(R) /\ Cardinality(R) \in Nat
<1> DEFINE Grown(T) == Total(g, T) = Total(f, T) + c * Cardinality(T \cap R)
           F == {T \in SUBSET S : ~ Grown(T)}
<1>1. SUFFICES ASSUME F # {} PROVE FALSE
  <2>1. F = {} => Grown(S)
    OBVIOUS
  <2>2. S \cap R = R /\ IsFiniteSet(R)
    BY FS_Subset
  <2>3. Cardinality(R) \in Nat
    BY <2>2, FS_CardinalityType
  <2> QED BY <2>1, <2>2, <2>3
<1>2. \A T \in F : IsFiniteSet(T)
  BY FS_Subset
<1>3. PICK T \in F : \A U \in F : ~ (Cardinality(U) < Cardinality(T))
  <2> HIDE DEF F
  <2> QED BY <1>1, <1>2, SmallestSet
<1>4. T \in SUBSET S /\ ~ Grown(T) /\ IsFiniteSet(T)
  BY <1>2
<1>5. T # {}
  <2>1. Grown({})
    <3>1. Total(f, {}) = 0 /\ Total(g, {}) = 0
      BY FS_EmptySet, SumRecurs
    <3>2. {} \cap R = {} /\ Cardinality({}) = 0
      BY FS_EmptySet
    <3> QED BY <3>1, <3>2
  <2> HIDE DEF Grown
  <2> QED BY <1>4, <2>1
<1>6. PICK x : x = Pick(T)
  OBVIOUS
<1> DEFINE U == T \ {x}
<1>7. x \in T /\ x \in S /\ Cardinality(U) < Cardinality(T) /\ U \in SUBSET S /\ IsFiniteSet(U)
  BY <1>4, <1>5, <1>6, Picked
<1>8. Grown(U)
  <2> HIDE DEF Grown
  <2> QED BY <1>3, <1>7
<1> HIDE DEF F
<1>9. Total(f, T) = f[x] + Total(f, U) /\ Total(g, T) = g[x] + Total(g, U)
  BY <1>4, <1>5, <1>6, SumRecurs
<1>10. Total(f, U) \in Int
  BY <1>7, SumTyped
<1>11. IsFiniteSet(U \cap R) /\ Cardinality(U \cap R) \in Nat
  <2>1. U \cap R \in SUBSET U
    OBVIOUS
  <2> QED BY <1>7, <2>1, FS_Subset, FS_CardinalityType
<1>12. CASE x \in R
  <2>1. T \cap R = (U \cap R) \cup {x} /\ x \notin U \cap R
    BY <1>7, <1>12
  <2>2. Cardinality(T \cap R) = Cardinality(U \cap R) + 1
    BY <1>11, <2>1, FS_AddElement
  <2>3. PICK k \in Nat : k = Cardinality(U \cap R)
    BY <1>11
  <2>4. c * (k + 1) = c * k + c /\ c * k \in Nat
    BY <2>3
  <2>5. Total(g, T) = f[x] + c + (Total(f, U) + c * k) /\ f[x] \in Int
    BY <1>7, <1>8, <1>9, <1>12, <2>3
  <2>6. Total(g, T) = Total(f, T) + c * (k + 1)
    <3> HIDE DEF U
    <3>1. PICK m \in Nat : m = c * k
      BY <2>4
    <3> QED BY <1>9, <1>10, <2>4, <2>5, <3>1
  <2> QED BY <1>4, <2>2, <2>3, <2>6
<1>13. CASE x \notin R
  <2>1. T \cap R = U \cap R
    BY <1>13
  <2>2. PICK k \in Nat : k = c * Cardinality(U \cap R)
    BY <1>11
  <2>3. Total(g, T) = f[x] + (Total(f, U) + k) /\ f[x] \in Int
    BY <1>7, <1>8, <1>9, <1>13, <2>2
  <2>4. Total(g, T) = Total(f, T) + k
    <3> HIDE DEF U
    <3> QED BY <1>9, <1>10, <2>2, <2>3
  <2> QED BY <1>4, <2>1, <2>2, <2>4
<1> QED BY <1>12, <1>13
=============================================================================
