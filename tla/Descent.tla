------------------------------ MODULE Descent -------------------------------
(***************************************************************************)
(* What the other proofs need of the natural numbers: there is no endless  *)
(* descent, alone or lexicographically, induction for sets, and functions  *)
(* defined by recursion.  Every fact speaks of sets and functions, not of  *)
(* operators, so that the provers can instantiate it.                      *)
(***************************************************************************)
EXTENDS Integers, WellFoundedInduction, TLAPS

\* The order of the natural numbers as a relation.
Less == {pair \in Nat \X Nat : pair[1] < pair[2]}

LEMMA LessMeans ==
  ASSUME NEW m \in Nat, NEW n \in Nat
  PROVE  <<m, n>> \in Less <=> m < n
<1>1. <<m, n>> \in Nat \X Nat /\ <<m, n>>[1] = m /\ <<m, n>>[2] = n
  OBVIOUS
<1> QED
  BY <1>1, Zenon DEF Less

LEMMA LessWellFounded == IsWellFoundedOn(Less, Nat)
<1>1. Less = OpToRel(<, Nat)
  BY DEF Less, OpToRel
<1> QED
  BY <1>1, NatLessThanWellFounded, Zenon

\* A set of natural numbers that is not empty has a least element.
LEMMA LeastElement ==
  ASSUME NEW T \in SUBSET Nat, T # {}
  PROVE  \E least \in T : \A m \in T : least <= m
<1>1. PICK least \in T : \A m \in T : <<m, least>> \notin Less
  BY LessWellFounded, WFMin, Zenon
<1>2. ASSUME NEW m \in T PROVE least <= m
  <2>1. m \in Nat /\ least \in Nat
    OBVIOUS
  <2>2. ~(m < least)
    BY <1>1, <2>1, LessMeans, Zenon
  <2> QED
    BY <2>1, <2>2
<1> QED
  BY <1>2, Zenon

\* What holds of 0 and passes on to the next number holds of all.
LEMMA SetInduction ==
  ASSUME NEW T, 0 \in T, \A n \in Nat : n \in T => n + 1 \in T
  PROVE  Nat \subseteq T
<1> SUFFICES ASSUME Nat \ T # {} PROVE FALSE
  OBVIOUS
<1>1. PICK least \in Nat \ T : \A m \in Nat \ T : least <= m
  <2>1. Nat \ T \in SUBSET Nat
    OBVIOUS
  <2> QED
    BY <2>1, LeastElement, Zenon
<1>2. least # 0 /\ least - 1 \in Nat /\ (least - 1) + 1 = least
  OBVIOUS
<1>3. least - 1 \in T
  BY <1>1, <1>2
<1> QED
  BY <1>1, <1>2, <1>3, Zenon

\* A function on the natural numbers may be defined by its first value and by
\* what each value makes of the one before.
UpTo(n, S, first, step) ==
  {f \in [0..n -> S] : f[0] = first /\ \A i \in 0..(n - 1) : f[i + 1] = step[f[i]]}

LEMMA UpToExists ==
  ASSUME NEW S, NEW first \in S, NEW step \in [S -> S]
  PROVE  \A n \in Nat : UpTo(n, S, first, step) # {}
<1> DEFINE T == {n \in Nat : UpTo(n, S, first, step) # {}}
<1>1. 0 \in T
  <2>1. [i \in 0..0 |-> first] \in UpTo(0, S, first, step)
    BY DEF UpTo
  <2> QED
    BY <2>1
<1>2. ASSUME NEW n \in Nat, n \in T PROVE n + 1 \in T
  <2>1. PICK f \in [0..n -> S] :
          f[0] = first /\ \A i \in 0..(n - 1) : f[i + 1] = step[f[i]]
    BY <1>2 DEF UpTo
  <2> DEFINE g == [i \in 0..(n + 1) |-> IF i = n + 1 THEN step[f[n]] ELSE f[i]]
  <2>2. f[n] \in S /\ step[f[n]] \in S
    BY <2>1
  <2>3. g \in [0..(n + 1) -> S]
    <3>1. ASSUME NEW i \in 0..(n + 1), i # n + 1 PROVE f[i] \in S
      BY <3>1, <2>1
    <3> QED
      BY <2>2, <3>1
  <2>4. g[0] = first
    BY <2>1
  <2>5. ASSUME NEW i \in 0..((n + 1) - 1) PROVE g[i + 1] = step[g[i]]
    <3>1. CASE i = n
      BY <3>1
    <3>2. CASE i # n
      <4>1. i \in 0..(n - 1) /\ i + 1 # n + 1 /\ i # n + 1 /\ i + 1 \in 0..(n + 1)
        BY <3>2
      <4> QED
        BY <4>1, <2>1
    <3> QED
      BY <3>1, <3>2
  <2>6. g \in UpTo(n + 1, S, first, step)
    BY <2>3, <2>4, <2>5 DEF UpTo
  <2> QED
    BY <2>6
<1>3. Nat \subseteq T
  <2> HIDE DEF T
  <2> QED
    BY <1>1, <1>2, SetInduction
<1> QED
  BY <1>3

LEMMA UpToUnique ==
  ASSUME NEW S, NEW first \in S, NEW step \in [S -> S],
         NEW m \in Nat, NEW n \in Nat,
         NEW f \in UpTo(m, S, first, step), NEW g \in UpTo(n, S, first, step)
  PROVE  \A i \in Nat : i <= m /\ i <= n => f[i] = g[i]
<1> DEFINE T == {i \in Nat : i <= m /\ i <= n => f[i] = g[i]}
<1>1. 0 \in T
  BY DEF UpTo
<1>2. ASSUME NEW i \in Nat, i \in T PROVE i + 1 \in T
  <2> SUFFICES ASSUME i + 1 <= m, i + 1 <= n PROVE f[i + 1] = g[i + 1]
    OBVIOUS
  <2>1. f[i] = g[i]
    BY <1>2
  <2>2. i \in 0..(m - 1) /\ i \in 0..(n - 1)
    OBVIOUS
  <2>3. f[i + 1] = step[f[i]] /\ g[i + 1] = step[g[i]]
    BY <2>2 DEF UpTo
  <2> QED
    BY <2>1, <2>3
<1>3. Nat \subseteq T
  <2> HIDE DEF T
  <2> QED
    BY <1>1, <1>2, SetInduction
<1> QED
  BY <1>3

Recursions(S, first, step) ==
  {f \in [Nat -> S] : f[0] = first /\ \A n \in Nat : f[n + 1] = step[f[n]]}

LEMMA RecursionExists ==
  ASSUME NEW S, NEW first \in S, NEW step \in [S -> S]
  PROVE  Recursions(S, first, step) # {}
<1> DEFINE part(n) == CHOOSE g : g \in UpTo(n, S, first, step)
           f == [n \in Nat |-> part(n)[n]]
<1>1. ASSUME NEW n \in Nat PROVE part(n) \in UpTo(n, S, first, step)
  <2>1. UpTo(n, S, first, step) # {}
    BY UpToExists
  <2> QED
    BY <2>1
<1> HIDE DEF part
<1>2. ASSUME NEW n \in Nat PROVE part(n)[n] \in S
  BY <1>1 DEF UpTo
<1>3. f \in [Nat -> S]
  BY <1>2
<1>4. f[0] = first
  BY <1>1 DEF UpTo
<1>5. ASSUME NEW n \in Nat PROVE f[n + 1] = step[f[n]]
  <2>1. n + 1 \in Nat /\ n \in 0..((n + 1) - 1) /\ n <= n /\ n <= n + 1
    OBVIOUS
  <2>2. part(n) \in UpTo(n, S, first, step) /\ part(n + 1) \in UpTo(n + 1, S, first, step)
    BY <1>1, <2>1
  <2>3. part(n + 1)[n + 1] = step[part(n + 1)[n]]
    BY <2>1, <2>2 DEF UpTo
  <2>4. part(n)[n] = part(n + 1)[n]
    BY <2>1, <2>2, UpToUnique
  <2> QED
    BY <2>1, <2>3, <2>4
<1> QED
  BY <1>3, <1>4, <1>5 DEF Recursions
-----------------------------------------------------------------------------
\* Tuples of n natural numbers in lexicographic order: <<s, t>> is in it if s is
\* smaller at the first place at which they differ.
Below(n) == LexProductOrdering(Less, Nat, n)

\* No sequence of tuples descends for ever: a program each of whose steps makes
\* such a measure smaller stops after finitely many.
LEMMA NoEndlessDescent ==
  ASSUME NEW n \in Nat
  PROVE  IsWellFoundedOn(Below(n), [1..n -> Nat])
  BY LessWellFounded, WFLexProductOrdering, Zenon DEF Below

LEMMA BelowMeans ==
  ASSUME NEW n \in Nat, NEW s \in [1..n -> Nat], NEW t \in [1..n -> Nat],
         NEW j \in 1..n, \A i \in 1..(j - 1) : s[i] = t[i], s[j] < t[j]
  PROVE  <<s, t>> \in Below(n)
<1>1. <<s[j], t[j]>> \in Less
  <2>1. s[j] \in Nat /\ t[j] \in Nat
    OBVIOUS
  <2> QED
    BY <2>1, LessMeans, Zenon
<1>2. <<s, t>> \in [1..n -> Nat] \X [1..n -> Nat] /\ <<s, t>>[1] = s /\ <<s, t>>[2] = t
  OBVIOUS
<1>3. \E k \in 1..n : /\ \A i \in 1..(k - 1) : s[i] = t[i]
                      /\ <<s[k], t[k]>> \in Less
  BY <1>1
<1> QED
  BY <1>2, <1>3, Zenon DEF Below, LexProductOrdering

LEMMA BelowTwo ==
  ASSUME NEW a \in Nat, NEW b \in Nat,
         NEW p \in Nat, NEW q \in Nat,
         \/ p < a
         \/ p = a /\ q < b
  PROVE  <<<<p, q>>, <<a, b>>>> \in Below(2)
<1>1. <<p, q>> \in [1..2 -> Nat] /\ <<a, b>> \in [1..2 -> Nat]
  OBVIOUS
<1>2. CASE p < a
  <2>1. /\ 1 \in 1..2 /\ 2 \in Nat
        /\ \A i \in 1..(1 - 1) : <<p, q>>[i] = <<a, b>>[i]
        /\ <<p, q>>[1] < <<a, b>>[1]
    BY <1>2
  <2> QED
    BY <1>1, <2>1, BelowMeans, Zenon
<1>3. CASE p = a /\ q < b
  <2>1. /\ 2 \in 1..2 /\ 2 \in Nat
        /\ \A i \in 1..(2 - 1) : <<p, q>>[i] = <<a, b>>[i]
        /\ <<p, q>>[2] < <<a, b>>[2]
    BY <1>3
  <2> QED
    BY <1>1, <2>1, BelowMeans, Zenon
<1> QED
  BY <1>2, <1>3

LEMMA BelowThree ==
  ASSUME NEW a \in Nat, NEW b \in Nat, NEW c \in Nat,
         NEW p \in Nat, NEW q \in Nat, NEW r \in Nat,
         \/ p < a
         \/ p = a /\ q < b
         \/ p = a /\ q = b /\ r < c
  PROVE  <<<<p, q, r>>, <<a, b, c>>>> \in Below(3)
<1>1. <<p, q, r>> \in [1..3 -> Nat] /\ <<a, b, c>> \in [1..3 -> Nat]
  OBVIOUS
<1>2. CASE p < a
  <2>1. /\ 1 \in 1..3 /\ 3 \in Nat
        /\ \A i \in 1..(1 - 1) : <<p, q, r>>[i] = <<a, b, c>>[i]
        /\ <<p, q, r>>[1] < <<a, b, c>>[1]
    BY <1>2
  <2> QED
    BY <1>1, <2>1, BelowMeans, Zenon
<1>3. CASE p = a /\ q < b
  <2>1. /\ 2 \in 1..3 /\ 3 \in Nat
        /\ \A i \in 1..(2 - 1) : <<p, q, r>>[i] = <<a, b, c>>[i]
        /\ <<p, q, r>>[2] < <<a, b, c>>[2]
    BY <1>3
  <2> QED
    BY <1>1, <2>1, BelowMeans, Zenon
<1>4. CASE p = a /\ q = b /\ r < c
  <2>1. /\ 3 \in 1..3 /\ 3 \in Nat
        /\ \A i \in 1..(3 - 1) : <<p, q, r>>[i] = <<a, b, c>>[i]
        /\ <<p, q, r>>[3] < <<a, b, c>>[3]
    BY <1>4
  <2> QED
    BY <1>1, <2>1, BelowMeans, Zenon
<1> QED
  BY <1>2, <1>3, <1>4

LEMMA BelowFour ==
  ASSUME NEW a \in Nat, NEW b \in Nat, NEW c \in Nat, NEW d \in Nat,
         NEW p \in Nat, NEW q \in Nat, NEW r \in Nat, NEW s \in Nat,
         \/ p < a
         \/ p = a /\ q < b
         \/ p = a /\ q = b /\ r < c
         \/ p = a /\ q = b /\ r = c /\ s < d
  PROVE  <<<<p, q, r, s>>, <<a, b, c, d>>>> \in Below(4)
<1>1. <<p, q, r, s>> \in [1..4 -> Nat] /\ <<a, b, c, d>> \in [1..4 -> Nat]
  OBVIOUS
<1>2. CASE p < a
  <2>1. /\ 1 \in 1..4 /\ 4 \in Nat
        /\ \A i \in 1..(1 - 1) : <<p, q, r, s>>[i] = <<a, b, c, d>>[i]
        /\ <<p, q, r, s>>[1] < <<a, b, c, d>>[1]
    BY <1>2
  <2> QED
    BY <1>1, <2>1, BelowMeans, Zenon
<1>3. CASE p = a /\ q < b
  <2>1. /\ 2 \in 1..4 /\ 4 \in Nat
        /\ \A i \in 1..(2 - 1) : <<p, q, r, s>>[i] = <<a, b, c, d>>[i]
        /\ <<p, q, r, s>>[2] < <<a, b, c, d>>[2]
    BY <1>3
  <2> QED
    BY <1>1, <2>1, BelowMeans, Zenon
<1>4. CASE p = a /\ q = b /\ r < c
  <2>1. /\ 3 \in 1..4 /\ 4 \in Nat
        /\ \A i \in 1..(3 - 1) : <<p, q, r, s>>[i] = <<a, b, c, d>>[i]
        /\ <<p, q, r, s>>[3] < <<a, b, c, d>>[3]
    BY <1>4
  <2> QED
    BY <1>1, <2>1, BelowMeans, Zenon
<1>5. CASE p = a /\ q = b /\ r = c /\ s < d
  <2>1. /\ 4 \in 1..4 /\ 4 \in Nat
        /\ \A i \in 1..(4 - 1) : <<p, q, r, s>>[i] = <<a, b, c, d>>[i]
        /\ <<p, q, r, s>>[4] < <<a, b, c, d>>[4]
    BY <1>5
  <2> QED
    BY <1>1, <2>1, BelowMeans, Zenon
<1> QED
  BY <1>2, <1>3, <1>4, <1>5
=============================================================================
