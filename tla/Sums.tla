---------------------------------- MODULE Sums ----------------------------------
(***************************************************************************)
(* Sums over finite sets.                                                  *)
(***************************************************************************)
EXTENDS Integers

\* The sum of f[x] for the x of the set.
Total(f, set) ==
  LET sum[s \in SUBSET set] ==
        IF s = {} THEN 0 ELSE LET x == CHOOSE x \in s : TRUE IN f[x] + sum[s \ {x}]
  IN sum[set]
=============================================================================
