------------------------------ MODULE Induction ------------------------------
(***************************************************************************)
(* Induction over the natural numbers, least and greatest elements, and    *)
(* functions defined by recursion, stated for sets instead of predicates,  *)
(* so that a proof can cite them.  They rest on the well-foundedness of    *)
(* strict inclusion among finite sets: of the intervals 0 .. k with k in   *)
(* a set, a minimal one belongs to the least k.                            *)
(***************************************************************************)
EXTENDS Integers, FiniteSetTheorems, TLAPS

\* A nonempty subset of 0 .. n contains a lower bound of itself.  It is what
\* makes the lowest timestamp of kgsl_syncobj_wait_any well defined.
LEMMA LeastExists ==
  ASSUME NEW n \in Nat, NEW T \in SUBSET (0 .. n), T # {}
  PROVE  \E x \in T : \A y \in T : x <= y
<1> DEFINE Below == {0 .. k : k \in T}
<1>1. IsWellFoundedOn(StrictSubsetOrdering(0 .. n), FiniteSubsetsOf(0 .. n))
  BY FS_StrictSubsetOrderingWellFounded
<1>2. IsFiniteSet(0 .. n)
  BY FS_Interval
<1>3. FiniteSubsetsOf(0 .. n) = SUBSET (0 .. n)
  BY <1>2, FS_FiniteSubsetsOfFinite
<1>4. Below \subseteq SUBSET (0 .. n) /\ Below # {}
  <2>1. \A k \in T : k \in 0 .. n /\ 0 .. k \subseteq 0 .. n
    BY Z3
  <2>2. QED BY <2>1
<1>5. \E B \in Below : \A C \in Below : <<C, B>> \notin StrictSubsetOrdering(0 .. n)
  <2> HIDE DEF Below
  <2> QED BY <1>1, <1>3, <1>4, WFMin
<1>6. PICK x \in T : \A y \in T : <<0 .. y, 0 .. x>> \notin StrictSubsetOrdering(0 .. n)
  BY <1>5
<1>7. ASSUME NEW y \in T PROVE x <= y
  <2>1. SUFFICES ASSUME y < x PROVE FALSE
    OBVIOUS
  <2>2. 0 .. y \subseteq 0 .. x /\ x \in 0 .. x /\ x \notin 0 .. y
    BY <2>1
  <2>3. <<0 .. y, 0 .. x>> \in StrictSubsetOrdering(0 .. n)
    BY <1>4, <2>2 DEF StrictSubsetOrdering
  <2>4. QED BY <1>6, <2>3
<1>8. QED BY <1>7

\* A nonempty set of natural numbers has a least element.
LEMMA LeastNat ==
  ASSUME NEW T \in SUBSET Nat, T # {}
  PROVE  \E x \in T : \A y \in T : x <= y
<1>1. PICK n \in T : TRUE
  OBVIOUS
<1> DEFINE Low == T \cap (0 .. n)
<1>2. n \in Nat /\ Low \in SUBSET (0 .. n) /\ n \in Low
  BY <1>1
<1>3. PICK x \in Low : \A y \in Low : x <= y
  <2> HIDE DEF Low
  <2> QED BY <1>2, LeastExists
<1>4. \A y \in T : x <= y
  BY <1>1, <1>2, <1>3
<1>5. QED BY <1>3, <1>4

\* Induction: a set that has 0, and with a number the next, has all.
LEMMA NatSetInduction ==
  ASSUME NEW S, 0 \in S, \A n \in Nat : n \in S => n + 1 \in S
  PROVE  \A n \in Nat : n \in S
<1> DEFINE T == {n \in Nat : n \notin S}
<1>1. SUFFICES ASSUME T # {} PROVE FALSE
  OBVIOUS
<1>2. PICK x \in T : \A y \in T : x <= y
  <2> HIDE DEF T
  <2>1. T \in SUBSET Nat
    BY DEF T
  <2>2. QED BY <1>1, <2>1, LeastNat
<1>3. x \in Nat /\ x # 0 /\ x - 1 \in Nat /\ x - 1 < x
  BY <1>2
<1>4. x - 1 \in S
  BY <1>2, <1>3
<1>5. (x - 1) + 1 \in S
  BY <1>3, <1>4
<1>6. QED BY <1>2, <1>3, <1>5

\* A nonempty set of natural numbers below a bound has a greatest element.
LEMMA GreatestExists ==
  ASSUME NEW n \in Nat, NEW T \in SUBSET (0 .. n), T # {}
  PROVE  \E x \in T : \A y \in T : y <= x
<1> DEFINE Co == {n - y : y \in T}
<1>1. Co \in SUBSET (0 .. n) /\ Co # {}
  <2>1. \A y \in T : n - y \in 0 .. n
    BY Z3
  <2>2. QED BY <2>1
<1>2. PICK c \in Co : \A d \in Co : c <= d
  <2> HIDE DEF Co
  <2> QED BY <1>1, LeastExists
<1>3. PICK x \in T : c = n - x
  BY <1>2
<1>4. ASSUME NEW y \in T PROVE y <= x
  <2>1. n - x <= n - y
    BY <1>2, <1>3
  <2>2. x \in Int /\ y \in Int
    BY <1>3
  <2>3. QED BY <2>1, <2>2
<1>5. QED BY <1>4

-----------------------------------------------------------------------------
(* Functions defined by recursion *)

\* A function that starts from x and applies step[n] to come to its value at n.
IsIteration(f, N, x, step) ==
    /\ DOMAIN f = 0 .. N
    /\ f[0] = x
    /\ \A n \in 1 .. N : f[n] = step[n][f[n - 1]]

\* There is one, of any length.
LEMMA IterationExists ==
  ASSUME NEW X, NEW x \in X, NEW N \in Nat, NEW step \in [1 .. N -> [X -> X]]
  PROVE  \E f \in [0 .. N -> X] : IsIteration(f, N, x, step)
<1> DEFINE S == {n \in Nat : n <= N => \E f \in [0 .. n -> X] : IsIteration(f, n, x, step)}
<1>1. 0 \in S
  <2>1. [k \in 0 .. 0 |-> x] \in [0 .. 0 -> X]
    OBVIOUS
  <2>2. IsIteration([k \in 0 .. 0 |-> x], 0, x, step)
    BY DEF IsIteration
  <2>3. QED BY <2>1, <2>2
<1>2. ASSUME NEW n \in Nat, n \in S PROVE n + 1 \in S
  <2>1. SUFFICES ASSUME n + 1 <= N
                 PROVE  \E f \in [0 .. n + 1 -> X] : IsIteration(f, n + 1, x, step)
    OBVIOUS
  <2>2. PICK f \in [0 .. n -> X] : IsIteration(f, n, x, step)
    BY <1>2, <2>1
  <2> DEFINE g == [k \in 0 .. n + 1 |-> IF k = n + 1 THEN step[n + 1][f[n]] ELSE f[k]]
  <2>3. step[n + 1][f[n]] \in X
    <3>1. n + 1 \in 1 .. N /\ f[n] \in X
      BY <2>1, <2>2
    <3>2. step[n + 1] \in [X -> X]
      BY <3>1
    <3>3. QED BY <3>1, <3>2
  <2>4. g \in [0 .. n + 1 -> X]
    <3>1. \A k \in 0 .. n + 1 : k # n + 1 => k \in 0 .. n
      OBVIOUS
    <3>2. QED BY <2>2, <2>3, <3>1
  <2>5. IsIteration(g, n + 1, x, step)
    <3>1. g[0] = x
      BY <2>2 DEF IsIteration
    <3>2. ASSUME NEW k \in 1 .. n + 1 PROVE g[k] = step[k][g[k - 1]]
      <4>1. g[k - 1] = f[k - 1]
        OBVIOUS
      <4>2. CASE k = n + 1
        BY <4>1, <4>2
      <4>3. CASE k # n + 1
        BY <2>2, <4>1, <4>3 DEF IsIteration
      <4>4. QED BY <4>2, <4>3
    <3>3. QED BY <3>1, <3>2 DEF IsIteration
  <2>6. QED BY <2>4, <2>5
<1>3. N \in S
  <2> HIDE DEF S
  <2> QED BY <1>1, <1>2, NatSetInduction
<1>4. QED BY <1>3

\* There is only one.
LEMMA IterationUnique ==
  ASSUME NEW N \in Nat, NEW x, NEW step, NEW f, NEW g,
         IsIteration(f, N, x, step), IsIteration(g, N, x, step)
  PROVE  \A n \in 0 .. N : f[n] = g[n]
<1> DEFINE S == {n \in Nat : n <= N => f[n] = g[n]}
<1>1. 0 \in S
  BY DEF IsIteration
<1>2. ASSUME NEW n \in Nat, n \in S PROVE n + 1 \in S
  <2>1. CASE n + 1 <= N
    <3>1. n + 1 \in 1 .. N /\ (n + 1) - 1 = n /\ f[n] = g[n]
      BY <1>2, <2>1
    <3>2. f[n + 1] = step[n + 1][f[n]] /\ g[n + 1] = step[n + 1][g[n]]
      BY <3>1 DEF IsIteration
    <3>3. QED BY <3>1, <3>2
  <2>2. QED BY <2>1
<1>3. \A n \in Nat : n \in S
  <2> HIDE DEF S
  <2> QED BY <1>1, <1>2, NatSetInduction
<1>4. QED BY <1>3

\* The same without an end.
LEMMA IterationOverNat ==
  ASSUME NEW X, NEW x \in X, NEW step \in [X -> X]
  PROVE  \E f \in [Nat -> X] : f[0] = x /\ \A n \in Nat : f[n + 1] = step[f[n]]
<1> DEFINE steps(n) == [i \in 1 .. n |-> step]
           iter(n) == CHOOSE g \in [0 .. n -> X] : IsIteration(g, n, x, steps(n))
           f == [n \in Nat |-> iter(n)[n]]
<1>1. ASSUME NEW n \in Nat
      PROVE  iter(n) \in [0 .. n -> X] /\ IsIteration(iter(n), n, x, steps(n))
  <2>1. steps(n) \in [1 .. n -> [X -> X]]
    OBVIOUS
  <2> HIDE DEF steps
  <2>2. \E g \in [0 .. n -> X] : IsIteration(g, n, x, steps(n))
    BY <2>1, IterationExists
  <2>3. QED BY <2>2
<1> HIDE DEF iter
<1>2. ASSUME NEW n \in Nat
      PROVE  iter(n)[0] = x /\ \A i \in 1 .. n : iter(n)[i] = step[iter(n)[i - 1]]
  BY <1>1 DEF IsIteration
<1>3. ASSUME NEW n \in Nat PROVE iter(n + 1)[n] = iter(n)[n]
  <2> DEFINE g == [i \in 0 .. n |-> iter(n + 1)[i]]
  <2>1. iter(n + 1)[0] = x /\ \A i \in 1 .. n + 1 : iter(n + 1)[i] = step[iter(n + 1)[i - 1]]
    BY <1>2
  <2>2. DOMAIN g = 0 .. n /\ g[0] = x
    BY <2>1
  <2>3. ASSUME NEW i \in 1 .. n PROVE g[i] = steps(n)[i][g[i - 1]]
    <3>1. i \in 0 .. n /\ i - 1 \in 0 .. n /\ i \in 1 .. n + 1
      OBVIOUS
    <3>2. g[i] = iter(n + 1)[i] /\ g[i - 1] = iter(n + 1)[i - 1] /\ steps(n)[i] = step
      BY <3>1
    <3> HIDE DEF g, steps
    <3>3. QED BY <2>1, <3>1, <3>2
  <2>4. IsIteration(g, n, x, steps(n))
    <3> HIDE DEF g, steps
    <3> QED BY <2>2, <2>3 DEF IsIteration
  <2>5. \A i \in 0 .. n : g[i] = iter(n)[i]
    <3> HIDE DEF g, steps
    <3> QED BY <1>1, <2>4, IterationUnique
  <2>6. n \in 0 .. n
    OBVIOUS
  <2>7. QED BY <2>5, <2>6
<1>4. f \in [Nat -> X]
  <2>1. \A n \in Nat : n \in 0 .. n
    OBVIOUS
  <2>2. \A n \in Nat : iter(n)[n] \in X
    BY <1>1, <2>1
  <2>3. QED BY <2>2
<1>5. f[0] = x
  BY <1>2
<1>6. ASSUME NEW n \in Nat PROVE f[n + 1] = step[f[n]]
  <2>1. n + 1 \in 1 .. n + 1 /\ (n + 1) - 1 = n /\ n + 1 \in Nat
    OBVIOUS
  <2>2. iter(n + 1)[n + 1] = step[iter(n + 1)[n]]
    BY <1>2, <2>1
  <2>3. QED BY <1>3, <2>1, <2>2
<1> HIDE DEF f
<1>7. QED BY <1>4, <1>5, <1>6
=============================================================================
