---------------------------- MODULE CommonProofs ----------------------------
(***************************************************************************)
(* What the proofs of several parts rest on: induction over the naturals   *)
(* and over finite sets, what sums over sets and FlattenSeq yield, and the *)
(* arithmetic of module Budget, which every owner of a guard relies on.    *)
(* And what the adapters and the price of an answer promise, for every     *)
(* vendor, every report and every pricing table.                           *)
(***************************************************************************)
EXTENDS Providers, SequencesExt, FiniteSetTheorems, TLAPS

(* Every set of naturals with a member has a least one: < is well          *)
(* founded.                                                                *)
LEMMA Least ==
  ASSUME NEW S, S \subseteq Nat, S # {}
  PROVE  \E m \in S : \A k \in S : m <= k
<1> DEFINE R == OpToRel(<, Nat)
<1>1. IsWellFoundedOn(R, Nat)
  BY NatLessThanWellFounded
<1> HIDE DEF R
<1>2. PICK m \in S : \A k \in S : <<k, m>> \notin R
  BY <1>1, WFMin
<1>3. \A k \in S : <<k, m>> \in R <=> k < m
  BY DEF R, OpToRel
<1>4. \A k \in S : m <= k
  <2> TAKE k \in S
  <2>1. ~(k < m)
    BY <1>2, <1>3
  <2>2. k \in Nat /\ m \in Nat
    OBVIOUS
  <2> QED
    BY <2>1, <2>2
<1> QED
  BY <1>4

(* A set with 0 and with n + 1 for each of its n has every natural in it. *)
LEMMA Induction ==
  ASSUME NEW S, 0 \in S, \A n \in Nat : n \in S => n + 1 \in S
  PROVE  Nat \subseteq S
<1> SUFFICES ASSUME Nat \ S # {} PROVE FALSE
  OBVIOUS
<1>1. PICK m \in Nat \ S : \A k \in Nat \ S : m <= k
  BY Least
<1>2. m # 0 /\ m \in Nat
  OBVIOUS
<1>3. m - 1 \in Nat /\ m - 1 + 1 = m /\ ~(m <= m - 1)
  BY <1>2
<1>4. m - 1 \in S
  BY <1>1, <1>3
<1> QED
  BY <1>3, <1>4

(* Induction up to a bound. *)
LEMMA Climb ==
  ASSUME NEW S, NEW n \in Nat, 0 \in S, \A m \in 1 .. n : m - 1 \in S => m \in S
  PROVE  0 .. n \subseteq S
<1> DEFINE T == {m \in Nat : m <= n => m \in S}
<1>1. 0 \in T
  OBVIOUS
<1>2. ASSUME NEW m \in Nat, m \in T PROVE m + 1 \in T
  <2> SUFFICES ASSUME m + 1 <= n PROVE m + 1 \in S
    OBVIOUS
  <2>1. m \in S
    BY <1>2
  <2>2. m + 1 \in 1 .. n /\ (m + 1) - 1 = m
    OBVIOUS
  <2> QED
    BY <2>1, <2>2
<1> HIDE DEF T
<1>3. Nat \subseteq T
  BY <1>1, <1>2, Induction
<1> QED
  BY <1>3 DEF T

(* f is the recursion from base over 1 .. n, with values in V. *)
Recurs(f, V, base, n, step) ==
  /\ f \in [0 .. n -> V]
  /\ f[0] = base
  /\ \A m \in 1 .. n : f[m] = step[m][f[m - 1]]

(* There is one when its steps stay in V. *)
LEMMA Recursion ==
  ASSUME NEW V, NEW base \in V, NEW n \in Nat, NEW step \in [1 .. n -> [V -> V]]
  PROVE  \E f : Recurs(f, V, base, n, step)
<1> DEFINE S == {k \in 0 .. n : \E f : Recurs(f, V, base, k, step)}
<1>1. 0 \in S
  <2>1. Recurs([i \in 0 .. 0 |-> base], V, base, 0, step)
    BY DEF Recurs
  <2> QED
    BY <2>1
<1>2. ASSUME NEW k \in 1 .. n, k - 1 \in S PROVE k \in S
  <2>1. PICK f : Recurs(f, V, base, k - 1, step)
    BY <1>2
  <2> DEFINE g == [i \in 0 .. k |-> IF i = k THEN step[k][f[k - 1]] ELSE f[i]]
  <2>2. k - 1 \in 0 .. k - 1 /\ f[k - 1] \in V /\ step[k] \in [V -> V]
    BY <2>1 DEF Recurs
  <2>3. step[k][f[k - 1]] \in V
    BY <2>2
  <2>4. \A i \in 0 .. k : i # k => i \in 0 .. k - 1
    OBVIOUS
  <2>5. g \in [0 .. k -> V]
    BY <2>1, <2>3, <2>4 DEF Recurs
  <2>6. g[0] = base
    <3>1. 0 \in 0 .. k /\ 0 # k
      OBVIOUS
    <3> QED
      BY <3>1, <2>1 DEF Recurs
  <2>7. ASSUME NEW m \in 1 .. k PROVE g[m] = step[m][g[m - 1]]
    <3>1. m - 1 \in 0 .. k /\ m - 1 # k /\ m \in 0 .. k
      OBVIOUS
    <3>2. g[m - 1] = f[m - 1]
      BY <3>1
    <3>3. CASE m = k
      BY <3>1, <3>2, <3>3
    <3>4. CASE m # k
      <4>1. m \in 1 .. k - 1
        BY <3>4
      <4>2. f[m] = step[m][f[m - 1]]
        BY <2>1, <4>1 DEF Recurs
      <4>3. g[m] = f[m]
        BY <3>1, <3>4
      <4> QED
        BY <3>2, <4>2, <4>3
    <3> QED
      BY <3>3, <3>4
  <2> HIDE DEF g
  <2>8. Recurs(g, V, base, k, step)
    BY <2>5, <2>6, <2>7 DEF Recurs
  <2>9. k \in 0 .. n
    OBVIOUS
  <2> QED
    BY <2>8, <2>9
<1>3. n \in 0 .. n
  OBVIOUS
<1> HIDE DEF S
<1>4. n \in S
  BY <1>1, <1>2, <1>3, Climb
<1> QED
  BY <1>4 DEF S

-----------------------------------------------------------------------------
(* Induction over the subsets of a finite set, by their size. *)
LEMMA BySize ==
  ASSUME NEW S, IsFiniteSet(S), NEW P,
         {} \in P,
         \A s \in SUBSET S : s # {} /\ (\A x \in s : s \ {x} \in P) => s \in P
  PROVE  SUBSET S \subseteq P
<1> DEFINE N == Cardinality(S)
           T == {k \in 0 .. N : \A s \in SUBSET S : Cardinality(s) <= k => s \in P}
<1>1. N \in Nat
  BY FS_CardinalityType
<1>2. \A s \in SUBSET S : IsFiniteSet(s) /\ Cardinality(s) \in Nat /\ Cardinality(s) <= N
  BY FS_Subset, FS_CardinalityType
<1> HIDE DEF N
<1>3. 0 \in T
  <2>1. \A s \in SUBSET S : Cardinality(s) <= 0 => s = {}
    BY <1>2, FS_EmptySet
  <2> QED
    BY <1>1, <2>1
<1>4. ASSUME NEW k \in 1 .. N, k - 1 \in T PROVE k \in T
  <2>1. k \in 0 .. N
    BY <1>1
  <2>2. ASSUME NEW s \in SUBSET S, Cardinality(s) <= k PROVE s \in P
    <3>1. CASE s = {}
      BY <3>1
    <3>2. CASE s # {}
      <4>1. ASSUME NEW x \in s PROVE s \ {x} \in P
        <5>1. Cardinality(s \ {x}) = Cardinality(s) - 1
          BY <1>2, FS_RemoveElement
        <5>2. Cardinality(s \ {x}) <= k - 1 /\ s \ {x} \in SUBSET S
          BY <1>2, <2>2, <5>1
        <5> QED
          BY <1>4, <5>2
      <4> QED
        BY <3>2, <4>1
    <3> QED
      BY <3>1, <3>2
  <2> QED
    BY <2>1, <2>2
<1>5. N \in 0 .. N
  BY <1>1
<1> HIDE DEF T
<1>6. N \in T
  BY <1>1, <1>3, <1>4, <1>5, Climb
<1> QED
  BY <1>2, <1>6 DEF T

(* f has the sum of fun over every subset of S, whichever of its elements  *)
(* is taken last.                                                          *)
Sums(f, fun, S) ==
  /\ f \in [SUBSET S -> Nat]
  /\ f[{}] = 0
  /\ \A s \in SUBSET S : \A x \in s : f[s] = fun[x] + f[s \ {x}]

(* Counting the elements of S along an enumeration of it gives such an f.  *)
LEMMA SumsExist ==
  ASSUME NEW S, IsFiniteSet(S), NEW fun, \A x \in S : fun[x] \in Nat
  PROVE  \E f : Sums(f, fun, S)
<1>1. PICK n \in Nat : ExistsBijection(1 .. n, S)
  BY FS_NatBijection
<1>2. PICK a : a \in Bijection(1 .. n, S)
  BY <1>1 DEF ExistsBijection
<1>3. /\ a \in [1 .. n -> S]
      /\ \A i, j \in 1 .. n : a[i] = a[j] => i = j
      /\ \A x \in S : \E i \in 1 .. n : a[i] = x
  BY <1>2 DEF Bijection, Injection, Surjection, IsInjective
<1> DEFINE step(s) == [m \in 1 .. n |-> [v \in Nat |-> v + (IF a[m] \in s THEN fun[a[m]] ELSE 0)]]
           Upto(c, s) == Recurs(c, Nat, 0, n, step(s))
           along == [s \in SUBSET S |-> CHOOSE c : Upto(c, s)]
<1>4. ASSUME NEW s \in SUBSET S PROVE Upto(along[s], s)
  <2>1. step(s) \in [1 .. n -> [Nat -> Nat]]
    BY <1>3
  <2>2. \E c : Upto(c, s)
    <3> HIDE DEF step
    <3>1. 0 \in Nat
      OBVIOUS
    <3> QED
      BY <2>1, <3>1, Recursion
  <2>3. along[s] = CHOOSE c : Upto(c, s)
    OBVIOUS
  <2> HIDE DEF along, Upto
  <2> QED
    BY <2>2, <2>3
<1> HIDE DEF along
<1>5. ASSUME NEW s \in SUBSET S
      PROVE  /\ along[s] \in [0 .. n -> Nat] /\ along[s][0] = 0
             /\ \A m \in 1 .. n : along[s][m] = along[s][m - 1] + (IF a[m] \in s THEN fun[a[m]] ELSE 0)
  <2>1. Recurs(along[s], Nat, 0, n, step(s))
    BY <1>4
  <2>2. \A m \in 1 .. n : \A v \in Nat : step(s)[m][v] = v + (IF a[m] \in s THEN fun[a[m]] ELSE 0)
    OBVIOUS
  <2> HIDE DEF step
  <2>3. /\ along[s] \in [0 .. n -> Nat] /\ along[s][0] = 0
        /\ \A m \in 1 .. n : along[s][m] = step(s)[m][along[s][m - 1]]
    BY <2>1 DEF Recurs
  <2>4. \A m \in 1 .. n : m - 1 \in 0 .. n
    OBVIOUS
  <2>5. \A m \in 1 .. n : along[s][m - 1] \in Nat
    BY <2>3, <2>4
  <2> QED
    BY <2>2, <2>3, <2>5
<1> HIDE DEF step, Upto
<1> DEFINE f == [s \in SUBSET S |-> along[s][n]]
<1>6. f \in [SUBSET S -> Nat]
  <2>1. \A s \in SUBSET S : along[s][n] \in Nat
    BY <1>5
  <2> QED
    BY <2>1
<1>7. f[{}] = 0
  <2> DEFINE c == along[{}]
             Z == {m \in 0 .. n : c[m] = 0}
  <2>1. c[0] = 0 /\ \A m \in 1 .. n : c[m] = c[m - 1] + 0
    BY <1>5
  <2> HIDE DEF c
  <2>2. 0 \in Z /\ n \in 0 .. n
    BY <2>1
  <2>3. ASSUME NEW m \in 1 .. n, m - 1 \in Z PROVE m \in Z
    BY <2>1, <2>3
  <2> HIDE DEF Z
  <2>4. n \in Z
    BY <2>2, <2>3, Climb
  <2> QED
    BY <2>4 DEF Z, c
<1>8. ASSUME NEW s \in SUBSET S, NEW x \in s PROVE f[s] = fun[x] + f[s \ {x}]
  <2>1. PICK i \in 1 .. n : a[i] = x
    BY <1>3
  <2>2. s \ {x} \in SUBSET S
    OBVIOUS
  <2> DEFINE c == along[s]
             d == along[s \ {x}]
             add == fun[x]
             Z == {m \in 0 .. n : c[m] = d[m] + (IF i <= m THEN add ELSE 0)}
  <2>3. /\ c \in [0 .. n -> Nat] /\ c[0] = 0 /\ d \in [0 .. n -> Nat] /\ d[0] = 0
        /\ \A m \in 1 .. n : /\ c[m] = c[m - 1] + (IF a[m] \in s THEN fun[a[m]] ELSE 0)
                             /\ d[m] = d[m - 1] + (IF a[m] \in s \ {x} THEN fun[a[m]] ELSE 0)
    BY <1>5, <2>2
  <2>4. add \in Nat
    OBVIOUS
  <2>5. \A m \in 1 .. n : a[m] = x <=> m = i
    BY <1>3, <2>1
  <2>6. \A m \in 1 .. n : a[m] \in S /\ fun[a[m]] \in Nat
    BY <1>3
  <2> HIDE DEF c, d, add
  <2>7. 0 \in Z
    <3>1. ~(i <= 0) /\ 0 \in 0 .. n
      OBVIOUS
    <3> QED
      BY <2>3, <3>1
  <2>8. ASSUME NEW m \in 1 .. n, m - 1 \in Z PROVE m \in Z
    <3>1. m \in 0 .. n /\ m - 1 \in 0 .. n
      OBVIOUS
    <3>2. c[m - 1] \in Nat /\ d[m - 1] \in Nat /\ c[m - 1] = d[m - 1] + (IF i <= m - 1 THEN add ELSE 0)
      BY <2>3, <2>8, <3>1
    <3>3. CASE m = i
      <4>1. a[m] = x /\ fun[a[m]] = add
        BY <2>1, <3>3 DEF add
      <4>2. c[m] = c[m - 1] + add /\ d[m] = d[m - 1] + 0
        BY <2>3, <4>1
      <4>3. c[m - 1] = d[m - 1]
        BY <3>2, <3>3
      <4>4. c[m] = d[m] + add
        BY <2>4, <3>2, <4>2, <4>3
      <4> QED
        BY <3>1, <3>3, <4>4
    <3>4. CASE m # i
      <4>1. (a[m] \in s) <=> (a[m] \in s \ {x})
        BY <2>5, <3>4
      <4>2. PICK v \in Nat : c[m] = c[m - 1] + v /\ d[m] = d[m - 1] + v
        BY <2>3, <2>6, <4>1
      <4>3. (i <= m) <=> (i <= m - 1)
        BY <3>4
      <4>4. c[m] = d[m] + (IF i <= m THEN add ELSE 0)
        BY <2>4, <3>2, <4>2, <4>3
      <4> QED
        BY <3>1, <4>4
    <3> QED
      BY <3>3, <3>4
  <2>9. n \in 0 .. n /\ i <= n
    OBVIOUS
  <2> HIDE DEF Z
  <2>10. n \in Z
    BY <2>7, <2>8, <2>9, Climb
  <2>11. c[n] = d[n] + add
    BY <2>9, <2>10 DEF Z
  <2>12. c[n] \in Nat /\ d[n] \in Nat
    BY <2>3, <2>9
  <2> QED
    BY <2>2, <2>4, <2>11, <2>12 DEF c, d, add
<1> HIDE DEF f
<1> QED
  BY <1>6, <1>7, <1>8 DEF Sums

(* SumFunctionOnSet, which chooses an order of its own, has that sum. *)
LEMMA FoldIsSum ==
  ASSUME NEW S, IsFiniteSet(S), NEW fun, \A x \in S : fun[x] \in Nat
  PROVE  \E f : Sums(f, fun, S) /\ SumFunctionOnSet(fun, S) = f[S]
<1> DEFINE Is(g) == g = [s \in SUBSET S |->
                          IF s = {} THEN 0
                          ELSE LET x == CHOOSE x \in s : TRUE IN fun[x] + g[s \ {x}]]
<1>1. SumFunctionOnSet(fun, S) = (CHOOSE g : Is(g))[S]
  BY DEF SumFunctionOnSet, FoldFunctionOnSet, MapThenFoldSet
<1>2. PICK f : Sums(f, fun, S)
  BY SumsExist
<1>3. f \in [SUBSET S -> Nat] /\ f[{}] = 0
      /\ \A s \in SUBSET S : \A x \in s : f[s] = fun[x] + f[s \ {x}]
  BY <1>2 DEF Sums
<1>4. \A s \in SUBSET S : s # {} => (CHOOSE x \in s : TRUE) \in s
  OBVIOUS
<1>5. Is(f)
  BY <1>3, <1>4
<1> DEFINE g == CHOOSE h : Is(h)
<1>6. Is(g)
  <2> HIDE DEF Is
  <2> QED
    BY <1>5
<1> HIDE DEF g
<1>7. \A s \in SUBSET S :
        g[s] = IF s = {} THEN 0
               ELSE LET x == CHOOSE x \in s : TRUE IN fun[x] + g[s \ {x}]
  BY <1>6
<1> DEFINE P == {s \in SUBSET S : g[s] = f[s]}
<1>8. {} \in P
  BY <1>3, <1>7
<1>9. ASSUME NEW s \in SUBSET S, s # {}, \A x \in s : s \ {x} \in P PROVE s \in P
  <2>1. PICK x \in s : x = CHOOSE y \in s : TRUE
    BY <1>4, <1>9
  <2>2. g[s] = fun[x] + g[s \ {x}]
    BY <1>7, <1>9, <2>1
  <2>3. f[s] = fun[x] + f[s \ {x}]
    BY <1>3
  <2>4. g[s \ {x}] = f[s \ {x}]
    BY <1>9
  <2> QED
    BY <2>2, <2>3, <2>4
<1> HIDE DEF P
<1>10. SUBSET S \subseteq P
  BY <1>8, <1>9, BySize
<1>11. g[S] = f[S]
  BY <1>10 DEF P
<1> QED
  BY <1>1, <1>2, <1>11 DEF g

(* What is zero can be left out of a sum. *)
LEMMA ZerosLeftOut ==
  ASSUME NEW S, IsFiniteSet(S), NEW R \in SUBSET S, NEW all, NEW some,
         \A x \in S : all[x] \in Nat,
         \A x \in R : some[x] = all[x],
         \A x \in S \ R : all[x] = 0
  PROVE  SumFunctionOnSet(some, R) = SumFunctionOnSet(all, S)
<1>1. IsFiniteSet(R)
  BY FS_Subset
<1>2. PICK f : Sums(f, all, S) /\ SumFunctionOnSet(all, S) = f[S]
  BY FoldIsSum
<1>3. PICK g : Sums(g, some, R) /\ SumFunctionOnSet(some, R) = g[R]
  <2>1. \A x \in R : some[x] \in Nat
    OBVIOUS
  <2> QED
    BY <1>1, <2>1, FoldIsSum
<1>4. /\ f \in [SUBSET S -> Nat] /\ f[{}] = 0 /\ g[{}] = 0
      /\ \A s \in SUBSET S : \A x \in s : f[s] = all[x] + f[s \ {x}]
      /\ \A s \in SUBSET R : \A x \in s : g[s] = some[x] + g[s \ {x}]
  BY <1>2, <1>3 DEF Sums
<1> DEFINE P == {s \in SUBSET S : f[s] = g[s \intersect R]}
<1>5. {} \in P
  <2>1. {} \intersect R = {}
    OBVIOUS
  <2> QED
    BY <1>4, <2>1
<1>6. ASSUME NEW s \in SUBSET S, s # {}, \A x \in s : s \ {x} \in P PROVE s \in P
  <2>1. PICK x \in s : TRUE
    BY <1>6
  <2>2. f[s] = all[x] + f[s \ {x}]
    BY <1>4
  <2>3. f[s \ {x}] = g[(s \ {x}) \intersect R]
    BY <1>6
  <2>4. CASE x \in R
    <3>1. (s \ {x}) \intersect R = (s \intersect R) \ {x} /\ x \in s \intersect R
      BY <2>4
    <3>2. g[s \intersect R] = some[x] + g[(s \intersect R) \ {x}]
      BY <1>4, <3>1
    <3>3. some[x] = all[x]
      BY <2>4
    <3> QED
      BY <2>2, <2>3, <3>1, <3>2, <3>3
  <2>5. CASE x \notin R
    <3>1. (s \ {x}) \intersect R = s \intersect R
      BY <2>5
    <3>2. all[x] = 0 /\ s \ {x} \in SUBSET S
      BY <2>5
    <3>3. f[s \ {x}] \in Nat
      BY <1>4, <3>2
    <3>4. f[s] = f[s \ {x}]
      BY <2>2, <3>2, <3>3
    <3> QED
      BY <2>3, <3>1, <3>4
  <2> QED
    BY <2>4, <2>5
<1> HIDE DEF P
<1>7. SUBSET S \subseteq P
  BY <1>5, <1>6, BySize
<1>8. S \intersect R = R
  OBVIOUS
<1>9. f[S] = g[R]
  BY <1>7, <1>8 DEF P
<1> QED
  BY <1>2, <1>3, <1>9

-----------------------------------------------------------------------------
IsFlat(f, ss, n) ==
  f = [i \in 1 .. n |-> IF i = 1 THEN ss[i] ELSE f[i - 1] \o ss[i]]

(* The function FlattenSeq chooses exists, however many sequences there    *)
(* are.                                                                    *)
LEMMA FlatExists ==
  ASSUME NEW ss, NEW n \in Nat
  PROVE  \E f : IsFlat(f, ss, n)
<1> DEFINE S == {m \in Nat : \E f : IsFlat(f, ss, m)}
<1>1. 0 \in S
  <2>1. IsFlat([i \in 1 .. 0 |-> 0], ss, 0)
    BY DEF IsFlat
  <2> QED
    BY <2>1
<1>2. ASSUME NEW m \in Nat, m \in S PROVE m + 1 \in S
  <2>1. PICK f : IsFlat(f, ss, m)
    BY <1>2
  <2> DEFINE last == IF m = 0 THEN ss[1] ELSE f[m] \o ss[m + 1]
             g == [i \in 1 .. (m + 1) |-> IF i = m + 1 THEN last ELSE f[i]]
  <2>2. ASSUME NEW i \in 1 .. (m + 1)
        PROVE  g[i] = IF i = 1 THEN ss[i] ELSE g[i - 1] \o ss[i]
    <3>1. CASE i = m + 1
      <4>1. g[i] = last
        BY <3>1
      <4>2. CASE i = 1
        BY <4>1, <4>2, <3>1
      <4>3. CASE i # 1
        <5>1. i - 1 \in 1 .. (m + 1) /\ i - 1 # m + 1 /\ i - 1 = m /\ m # 0
          BY <4>3, <3>1
        <5>2. g[i - 1] = f[m]
          BY <5>1
        <5> QED
          BY <4>1, <4>3, <3>1, <5>1, <5>2
      <4> QED
        BY <4>2, <4>3
    <3>2. CASE i # m + 1
      <4>1. i \in 1 .. m /\ (i # 1 => i - 1 \in 1 .. m /\ i - 1 # m + 1)
        BY <3>2
      <4>2. g[i] = f[i] /\ (i # 1 => g[i - 1] = f[i - 1])
        BY <4>1, <3>2
      <4>3. f[i] = IF i = 1 THEN ss[i] ELSE f[i - 1] \o ss[i]
        BY <2>1, <4>1 DEF IsFlat
      <4> QED
        BY <4>2, <4>3
    <3> QED
      BY <3>1, <3>2
  <2>3. g = [i \in 1 .. (m + 1) |-> g[i]]
    OBVIOUS
  <2> HIDE DEF g
  <2>4. IsFlat(g, ss, m + 1)
    BY <2>2, <2>3 DEF IsFlat
  <2> QED
    BY <2>4
<1> HIDE DEF S
<1>3. n \in S
  BY <1>1, <1>2, Induction
<1> QED
  BY <1>3 DEF S

(* FlattenSeq yields the last value of that function. *)
LEMMA FlatIs ==
  ASSUME NEW ss, Len(ss) \in Nat \ {0}
  PROVE  \E f : IsFlat(f, ss, Len(ss)) /\ FlattenSeq(ss) = f[Len(ss)]
<1>1. FlattenSeq(ss) = (CHOOSE f : IsFlat(f, ss, Len(ss)))[Len(ss)]
  BY DEF FlattenSeq, IsFlat
<1>2. IsFlat(CHOOSE f : IsFlat(f, ss, Len(ss)), ss, Len(ss))
  BY FlatExists
<1> QED
  BY <1>1, <1>2

Distinct(s) == \A i, j \in DOMAIN s : s[i] = s[j] => i = j

Apart(ss) ==
  /\ \A i \in DOMAIN ss : Distinct(ss[i])
  /\ \A i, j \in DOMAIN ss : i # j => Range(ss[i]) \intersect Range(ss[j]) = {}

(* s is the first n sequences of ss one after the other. *)
FlatUpTo(s, ss, n, X) ==
  /\ s \in Seq(X)
  /\ \A x : x \in Range(s) <=> \E i \in 1 .. n : x \in Range(ss[i])
  /\ Apart(ss) => Distinct(s)

(* What concatenation does to the range of two sequences, and when it      *)
(* repeats nothing.                                                        *)
LEMMA Joined ==
  ASSUME NEW X, NEW s \in Seq(X), NEW t \in Seq(X)
  PROVE  /\ s \o t \in Seq(X)
         /\ Range(s \o t) = Range(s) \union Range(t)
         /\ Distinct(s) /\ Distinct(t) /\ Range(s) \intersect Range(t) = {} => Distinct(s \o t)
<1>1. s \o t \in Seq(X) /\ Len(s \o t) = Len(s) + Len(t)
  OBVIOUS
<1>2. \A i \in DOMAIN (s \o t) :
        /\ i \in DOMAIN s => (s \o t)[i] = s[i]
        /\ i \notin DOMAIN s => i - Len(s) \in DOMAIN t /\ (s \o t)[i] = t[i - Len(s)]
  OBVIOUS
<1>3. \A i \in DOMAIN s : i \in DOMAIN (s \o t)
  OBVIOUS
<1>4. \A i \in DOMAIN t : i + Len(s) \in DOMAIN (s \o t) /\ (s \o t)[i + Len(s)] = t[i]
  OBVIOUS
<1>5. Range(s \o t) = Range(s) \union Range(t)
  <2>1. Range(s \o t) \subseteq Range(s) \union Range(t)
    BY <1>2 DEF Range
  <2>2. Range(s) \subseteq Range(s \o t)
    BY <1>2, <1>3 DEF Range
  <2>3. Range(t) \subseteq Range(s \o t)
    BY <1>4 DEF Range
  <2> QED
    BY <2>1, <2>2, <2>3
<1>6. ASSUME Distinct(s), Distinct(t), Range(s) \intersect Range(t) = {}
      PROVE  Distinct(s \o t)
  <2> SUFFICES ASSUME NEW i \in DOMAIN (s \o t), NEW j \in DOMAIN (s \o t),
                      (s \o t)[i] = (s \o t)[j]
               PROVE  i = j
    BY DEF Distinct
  <2>1. CASE i \in DOMAIN s /\ j \in DOMAIN s
    BY <1>2, <1>6, <2>1 DEF Distinct
  <2>2. CASE i \notin DOMAIN s /\ j \notin DOMAIN s
    <3>1. i - Len(s) = j - Len(s)
      BY <1>2, <1>6, <2>2 DEF Distinct
    <3>2. i \in Nat /\ j \in Nat /\ Len(s) \in Nat
      BY <1>1
    <3> QED
      BY <3>1, <3>2
  <2>3. CASE i \in DOMAIN s /\ j \notin DOMAIN s
    <3>1. (s \o t)[i] \in Range(s) /\ (s \o t)[j] \in Range(t)
      BY <1>2, <2>3 DEF Range
    <3> QED
      BY <3>1, <1>6
  <2>4. CASE i \notin DOMAIN s /\ j \in DOMAIN s
    <3>1. (s \o t)[j] \in Range(s) /\ (s \o t)[i] \in Range(t)
      BY <1>2, <2>4 DEF Range
    <3> QED
      BY <3>1, <1>6
  <2> QED
    BY <2>1, <2>2, <2>3, <2>4
<1> QED
  BY <1>1, <1>5, <1>6

(* FlattenSeq puts its sequences one after the other, and repeats nothing  *)
(* where they neither repeat nor share anything.                           *)
LEMMA Flattened ==
  ASSUME NEW X, NEW ss \in Seq(Seq(X))
  PROVE  FlatUpTo(FlattenSeq(ss), ss, Len(ss), X)
<1>1. CASE Len(ss) = 0
  <2>1. FlattenSeq(ss) = <<>>
    BY <1>1 DEF FlattenSeq
  <2> QED
    BY <2>1, <1>1 DEF FlatUpTo, Range, Distinct
<1>2. CASE Len(ss) # 0
  <2> DEFINE n == Len(ss)
  <2>1. n \in Nat \ {0}
    BY <1>2
  <2>2. PICK f : IsFlat(f, ss, n) /\ FlattenSeq(ss) = f[n]
    BY <2>1, FlatIs
  <2> DEFINE S == {m \in Nat : m + 1 <= n => FlatUpTo(f[m + 1], ss, m + 1, X)}
  <2> HIDE DEF n
  <2>3. \A i \in 1 .. n : ss[i] \in Seq(X) /\ i \in DOMAIN ss
    BY DEF n
  <2>4. 0 \in S
    <3>1. 1 \in 1 .. n
      BY <2>1
    <3>2. f[1] = ss[1]
      BY <3>1, <2>2 DEF IsFlat
    <3>3. FlatUpTo(f[1], ss, 1, X)
      BY <3>1, <3>2, <2>3 DEF FlatUpTo, Apart
    <3> QED
      BY <3>3
  <2>5. ASSUME NEW m \in Nat, m \in S PROVE m + 1 \in S
    <3> SUFFICES ASSUME m + 2 <= n PROVE FlatUpTo(f[m + 2], ss, m + 2, X)
      OBVIOUS
    <3>1. m + 2 \in 1 .. n /\ m + 1 <= n /\ m + 2 # 1 /\ m + 2 - 1 = m + 1
      BY <2>1
    <3>2. f[m + 2] = f[m + 1] \o ss[m + 2]
      <4>1. \A i \in 1 .. n : f[i] = IF i = 1 THEN ss[i] ELSE f[i - 1] \o ss[i]
        BY <2>2 DEF IsFlat
      <4>2. PICK i \in 1 .. n : i = m + 2 /\ i # 1 /\ i - 1 = m + 1
        BY <3>1
      <4>3. f[i] = f[i - 1] \o ss[i]
        BY <4>1, <4>2
      <4> QED
        BY <4>2, <4>3
    <3>3. FlatUpTo(f[m + 1], ss, m + 1, X)
      BY <2>5, <3>1
    <3>4. ss[m + 2] \in Seq(X) /\ m + 2 \in DOMAIN ss
      BY <2>3, <3>1
    <3>5. \A i \in 1 .. (m + 1) : i \in DOMAIN ss /\ i # m + 2
      BY <2>3, <3>1, <2>1
    <3>6. \A i : i \in 1 .. (m + 2) <=> i \in 1 .. (m + 1) \/ i = m + 2
      OBVIOUS
    <3>7. \A x : x \in Range(f[m + 2]) <=> \E i \in 1 .. (m + 2) : x \in Range(ss[i])
      BY <3>2, <3>3, <3>4, <3>6, Joined DEF FlatUpTo
    <3>8. Apart(ss) => Range(f[m + 1]) \intersect Range(ss[m + 2]) = {}
      <4> SUFFICES ASSUME Apart(ss), NEW x \in Range(f[m + 1]), x \in Range(ss[m + 2])
                   PROVE  FALSE
        OBVIOUS
      <4>1. PICK i \in 1 .. (m + 1) : x \in Range(ss[i])
        BY <3>3 DEF FlatUpTo
      <4>2. i \in DOMAIN ss /\ i # m + 2
        BY <3>5
      <4>3. Range(ss[i]) \intersect Range(ss[m + 2]) = {}
        BY <3>4, <4>2 DEF Apart
      <4> QED
        BY <4>1, <4>3
    <3>9. Apart(ss) => Distinct(f[m + 2])
      BY <3>2, <3>3, <3>4, <3>8, Joined DEF FlatUpTo, Apart
    <3>10. f[m + 2] \in Seq(X)
      BY <3>2, <3>3, <3>4, Joined DEF FlatUpTo
    <3> QED
      BY <3>7, <3>9, <3>10 DEF FlatUpTo
  <2>6. n - 1 \in Nat /\ n - 1 + 1 = n /\ n <= n
    BY <2>1
  <2> HIDE DEF S
  <2>7. n - 1 \in S
    BY <2>4, <2>5, <2>6, Induction
  <2>8. FlatUpTo(f[n], ss, n, X)
    BY <2>6, <2>7 DEF S
  <2> QED
    BY <2>2, <2>8 DEF n
<1> QED
  BY <1>1, <1>2

-----------------------------------------------------------------------------
(* A pricing.yaml that the loader accepts. *)
PricingFiles(file) ==
  \A v \in DOMAIN file : \A m \in DOMAIN file[v] : file[v][m] \in EntryType

UsageType == [input : Nat, output : Nat, reasoning : Nat, cache_read : Nat, cache_write : Nat]

-----------------------------------------------------------------------------
(* What an adapter makes of a report is a usage, and no token is in two of *)
(* its buckets or in none: its total is every token once, although the     *)
(* vendors disagree on which count includes which.                         *)
THEOREM TokensCountedOnce ==
  ASSUME NEW vendor \in Vendors, NEW c \in Reported(vendor)
  PROVE  /\ UsageOf(vendor, c) \in UsageType
         /\ TotalAll(UsageOf(vendor, c)) = CountedOnce(vendor, c)
<1>0. /\ c \in Counts
      /\ vendor \in CachedWithinPrompt => c.cached <= c.prompt
      /\ vendor \in ThinkingWithinCompletion => c.thinking <= c.completion
      /\ vendor = "openai_compat" => c.cached = 0 /\ c.thinking = 0
      /\ vendor # "anthropic" => c.written = 0
  BY DEF Reported
<1>1. /\ c.prompt \in Nat /\ c.completion \in Nat /\ c.cached \in Nat
      /\ c.thinking \in Nat /\ c.written \in Nat
  BY <1>0 DEF Counts
<1>2. CASE vendor = "anthropic"
  BY <1>0, <1>1, <1>2
  DEF UsageOf, AnthropicUsage, TokenUsage, UsageType, TotalAll, CountedOnce, Less,
      CachedWithinPrompt, ThinkingWithinCompletion
<1>3. CASE vendor = "openai"
  BY <1>0, <1>1, <1>3
  DEF UsageOf, OpenAIUsage, TokenUsage, UsageType, TotalAll, CountedOnce, Less,
      CachedWithinPrompt, ThinkingWithinCompletion
<1>4. CASE vendor = "gemini"
  BY <1>0, <1>1, <1>4
  DEF UsageOf, GeminiUsage, TokenUsage, UsageType, TotalAll, CountedOnce, Less,
      CachedWithinPrompt, ThinkingWithinCompletion
<1>5. CASE vendor = "openai_compat"
  BY <1>0, <1>1, <1>5
  DEF UsageOf, CompatUsage, TokenUsage, UsageType, TotalAll, CountedOnce,
      CachedWithinPrompt, ThinkingWithinCompletion
<1>6. QED
  BY <1>2, <1>3, <1>4, <1>5 DEF Vendors

-----------------------------------------------------------------------------
(* A loaded row has a rate for every bucket. *)
LEMMA RateRow ==
  ASSUME NEW model, NEW entry \in EntryType
  PROVE  ModelPricingRow(model, entry) \in RateType
  BY DEF ModelPricingRow, EntryType, RateType, TokenUsage

(* RowFor returns such a row, or nothing; and rows are not None. *)
LEMMA RowForType ==
  ASSUME NEW file, PricingFiles(file), NEW vendor, NEW model,
         RowFor(Catalogue(file), vendor, model) # None
  PROVE  RowFor(Catalogue(file), vendor, model) \in RateType
<1>1. \A v \in DOMAIN file : \A m \in DOMAIN file[v] :
        ModelPricingRow(m, file[v][m]) \in RateType
  BY RateRow DEF PricingFiles
<1> QED
  BY <1>1 DEF RowFor, Catalogue

LEMMA ProductIsNat ==
  ASSUME NEW a \in Nat, NEW b \in Nat
  PROVE  a * b \in Nat
  OBVIOUS

(* estimate_cost returns a bill the guard can count: whole amounts, and no *)
(* charge without a price.                                                 *)
LEMMA EstimateType ==
  ASSUME NEW file, PricingFiles(file), NEW vendor, NEW model, NEW u \in UsageType
  PROVE  EstimateCost(Catalogue(file), vendor, model, u) \in BillType
<1> DEFINE row == RowFor(Catalogue(file), vendor, model)
           bill == EstimateCost(Catalogue(file), vendor, model, u)
<1>1. /\ u.input \in Nat /\ u.output \in Nat /\ u.reasoning \in Nat
      /\ u.cache_read \in Nat /\ u.cache_write \in Nat
  BY DEF UsageType
<1>2. TotalAll(u) \in Nat
  BY <1>1 DEF TotalAll
<1>3. CASE row = None
  <2>1. bill = [cost |-> 0, tokens |-> TotalAll(u), priced |-> FALSE]
    BY <1>3 DEF EstimateCost
  <2> QED
    BY <2>1, <1>2 DEF BillType
<1>4. CASE row # None
  <2>1. row \in RateType
    BY <1>4, RowForType
  <2>2. /\ row.input \in Nat /\ row.output \in Nat /\ row.reasoning \in Nat
        /\ row.cache_read \in Nat /\ row.cache_write \in Nat
    BY <2>1 DEF RateType
  <2> DEFINE total == u.input * row.input + u.output * row.output
                        + u.reasoning * row.reasoning
                        + u.cache_read * row.cache_read + u.cache_write * row.cache_write
  <2>3. /\ u.input * row.input \in Nat
        /\ u.output * row.output \in Nat
        /\ u.reasoning * row.reasoning \in Nat
        /\ u.cache_read * row.cache_read \in Nat
        /\ u.cache_write * row.cache_write \in Nat
    BY <1>1, <2>2, ProductIsNat
  <2>4. total \in Nat
    BY <2>3
  <2>5. bill = [cost |-> total, tokens |-> TotalAll(u), priced |-> TRUE]
    BY <1>4 DEF EstimateCost
  <2> HIDE DEF total
  <2> QED
    BY <2>4, <2>5, <1>2 DEF BillType
<1> QED
  BY <1>3, <1>4

(* The bill of an answer, whatever the vendor reports and the table holds: *)
(* one the guard can count, for every token once, and priced as soon as    *)
(* the table knows the model under either of its names, so that a dated    *)
(* model id does not slip past max_cost_usd.                               *)
THEOREM AnswerIsBilled ==
  ASSUME NEW file, PricingFiles(file), NEW vendor \in Vendors, NEW c \in Reported(vendor),
         NEW alias, NEW resolved
  PROVE  LET bill == BillFor(Catalogue(file), vendor, alias, resolved, UsageOf(vendor, c))
         IN  /\ bill \in BillType
             /\ bill.tokens = CountedOnce(vendor, c)
             /\ bill.priced <=> \/ RowFor(Catalogue(file), vendor, alias) # None
                                \/ RowFor(Catalogue(file), vendor, resolved) # None
<1> DEFINE u == UsageOf(vendor, c)
<1>1. u \in UsageType /\ TotalAll(u) = CountedOnce(vendor, c)
  BY TokensCountedOnce
<1>2. \A model : LET bill == EstimateCost(Catalogue(file), vendor, model, u)
                 IN  /\ bill \in BillType
                     /\ bill.tokens = CountedOnce(vendor, c)
                     /\ bill.priced = (RowFor(Catalogue(file), vendor, model) # None)
  <2> TAKE model
  <2>1. EstimateCost(Catalogue(file), vendor, model, u) \in BillType
    BY <1>1, EstimateType
  <2> QED
    BY <1>1, <2>1 DEF EstimateCost
<1> HIDE DEF u
<1>3. BillFor(Catalogue(file), vendor, alias, resolved, u) =
        IF EstimateCost(Catalogue(file), vendor, resolved, u).priced
        THEN EstimateCost(Catalogue(file), vendor, resolved, u)
        ELSE EstimateCost(Catalogue(file), vendor, alias, u)
  BY DEF BillFor
<1> QED
  BY <1>2, <1>3 DEF u

-----------------------------------------------------------------------------
(* A status is worth another try when it is 429 or a server error. *)
LEMMA TransientStatus ==
  ASSUME NEW status \in Nat \cup {None}
  PROVE  /\ Retriable(MapStatus(status)) <=> status = 429 \/ (status # None /\ status >= 500)
         /\ MapStatus(status).code = "other" =>
              status \notin {401, 403} /\ ~Retriable(MapStatus(status))
         /\ ~Retriable(MapStatus(status)) /\ status \notin {401, 403} =>
              MapStatus(status).code = "other"
  BY NoneAssumption DEF Retriable, MapStatus, LLMError

(* What is tried again, for every vendor: being throttled (Gemini may say  *)
(* so in words, unless the status has settled it otherwise) and a failing  *)
(* server; never a timeout.                                                *)
THEOREM OnlyTransientRetried ==
  ASSUME NEW vendor \in Vendors, NEW f \in FailureType
  PROVE  Retriable(ErrorOf(vendor, f)) <=>
           \/ f.status = 429
           \/ f.status # None /\ f.status >= 500
           \/ vendor = "gemini" /\ f.quota /\ f.status \notin {401, 403}
<1>1. f.status \in Nat \cup {None} /\ f.timeout \in BOOLEAN /\ f.quota \in BOOLEAN
  BY DEF FailureType
<1> DEFINE again == f.status = 429 \/ (f.status # None /\ f.status >= 500)
<1>2. Retriable(MapStatus(f.status)) <=> again
  BY <1>1, TransientStatus
<1>3. CASE vendor = "anthropic"
  <2>1. ErrorOf(vendor, f) = AnthropicError(f)
    BY <1>3 DEF ErrorOf
  <2>2. CASE f.status = None /\ f.timeout
    BY <1>3, <2>1, <2>2, NoneAssumption DEF AnthropicError, Retriable, LLMError
  <2>3. CASE f.status = 413
    BY <1>3, <2>1, <2>3, NoneAssumption
    DEF AnthropicError, MapAnthropicStatus, Retriable, LLMError
  <2>4. CASE ~(f.status = None /\ f.timeout) /\ f.status # 413
    <3>1. ErrorOf(vendor, f) = MapStatus(f.status)
      BY <2>1, <2>4 DEF AnthropicError, MapAnthropicStatus
    <3> QED
      BY <1>2, <1>3, <3>1
  <2> QED
    BY <2>2, <2>3, <2>4
<1>4. CASE vendor = "openai"
  <2>1. ErrorOf(vendor, f) = OpenAIError(f)
    BY <1>4 DEF ErrorOf
  <2>2. CASE f.status = None /\ f.timeout
    BY <1>4, <2>1, <2>2, NoneAssumption DEF OpenAIError, Retriable, LLMError
  <2>3. CASE f.status = 400
    BY <1>4, <2>1, <2>3, NoneAssumption
    DEF OpenAIError, MapOpenAIStatus, Retriable, LLMError
  <2>4. CASE ~(f.status = None /\ f.timeout) /\ f.status # 400
    <3>1. ErrorOf(vendor, f) = MapStatus(f.status)
      BY <2>1, <2>4 DEF OpenAIError, MapOpenAIStatus
    <3> QED
      BY <1>2, <1>4, <3>1
  <2> QED
    BY <2>2, <2>3, <2>4
<1>5. CASE vendor = "gemini"
  <2>1. ErrorOf(vendor, f) = GeminiError(f)
    BY <1>5 DEF ErrorOf
  <2>2. CASE f.quota /\ MapStatus(f.status).code = "other"
    <3>1. Retriable(ErrorOf(vendor, f))
      BY <2>1, <2>2 DEF GeminiError, Retriable, LLMError
    <3>2. f.status \notin {401, 403}
      BY <1>1, <2>2, TransientStatus
    <3> QED
      BY <1>5, <2>2, <3>1, <3>2
  <2>3. CASE ~(f.quota /\ MapStatus(f.status).code = "other")
    <3>1. ErrorOf(vendor, f) = MapStatus(f.status)
      BY <2>1, <2>3 DEF GeminiError
    <3>2. f.quota /\ f.status \notin {401, 403} => again
      BY <1>1, <1>2, <2>3, TransientStatus, ZenonT(60)
    <3> QED
      BY <1>2, <1>5, <3>1, <3>2
  <2> QED
    BY <2>2, <2>3
<1>6. CASE vendor = "openai_compat"
  BY <1>2, <1>6 DEF ErrorOf, CompatError
<1> QED
  BY <1>3, <1>4, <1>5, <1>6 DEF Vendors

-----------------------------------------------------------------------------
(* The guard's arithmetic (module Budget), which every owner of a guard     *)
(* relies on. First the kinds of values it works on.                       *)
LEMMA GuardShape ==
  ASSUME NEW b \in BudgetType, NEW g \in GuardType, NEW x \in BillType
  PROVE  /\ b.max_cost_usd \in Nat \cup {None}
         /\ b.max_total_tokens \in Nat \cup {None}
         /\ b.max_calls \in Nat \cup {None}
         /\ g.spent \in Nat /\ g.tokens \in Nat /\ g.calls \in Nat
         /\ g.tripped \in BOOLEAN
         /\ x.cost \in Nat /\ x.tokens \in Nat /\ x.priced \in BOOLEAN
  BY DEF BudgetType, GuardType, BillType, Cap

(* record, field by field. *)
LEMMA RecordedFields ==
  ASSUME NEW b \in BudgetType, NEW g \in GuardType, NEW x \in BillType
  PROVE  /\ Recorded(b, g, x) \in GuardType
         /\ Unaccountable(b, x) =>
              Recorded(b, g, x) = [spent |-> g.spent, tokens |-> g.tokens,
                                   calls |-> g.calls, tripped |-> TRUE]
         /\ ~Unaccountable(b, x) =>
              Recorded(b, g, x) = [spent |-> g.spent + x.cost,
                                   tokens |-> g.tokens + x.tokens,
                                   calls |-> g.calls + 1,
                                   tripped |-> g.tripped]
  <1>1. CASE Unaccountable(b, x)
    <2>1. Recorded(b, g, x) = [g EXCEPT !.tripped = TRUE]
      BY <1>1 DEF Recorded
    <2> QED  BY <1>1, <2>1 DEF GuardType
  <1>2. CASE ~Unaccountable(b, x)
    <2>1. Recorded(b, g, x) = [g EXCEPT !.spent = @ + x.cost,
                                        !.tokens = @ + x.tokens,
                                        !.calls = @ + 1]
      BY <1>2 DEF Recorded
    <2>2. /\ g.spent \in Nat /\ g.tokens \in Nat /\ g.calls \in Nat
          /\ x.cost \in Nat /\ x.tokens \in Nat /\ g.tripped \in BOOLEAN
      BY GuardShape
    <2>3. Recorded(b, g, x) = [spent |-> g.spent + x.cost,
                               tokens |-> g.tokens + x.tokens,
                               calls |-> g.calls + 1,
                               tripped |-> g.tripped]
      BY <2>1 DEF GuardType
    <2>4. Recorded(b, g, x) \in GuardType
      BY <2>2, <2>3 DEF GuardType
    <2> QED  BY <1>2, <2>3, <2>4
  <1> QED  BY <1>1, <1>2

(* Recording never reopens a guard that refuses, and a guard whose record  *)
(* raised refuses.                                                         *)
LEMMA RecordCloses ==
  ASSUME NEW b \in BudgetType, NEW g \in GuardType, NEW x \in BillType
  PROVE  /\ EnsureNotExceeded(b, Recorded(b, g, x)) => EnsureNotExceeded(b, g)
         /\ ~RecordReturns(b, g, x) => ~EnsureNotExceeded(b, Recorded(b, g, x))
  <1>1. CASE Unaccountable(b, x)
    BY <1>1, RecordedFields DEF EnsureNotExceeded
  <1>2. CASE ~Unaccountable(b, x)
    <2> DEFINE r == Recorded(b, g, x)
    <2>1. /\ r.spent = g.spent + x.cost
          /\ r.tokens = g.tokens + x.tokens
          /\ r.calls = g.calls + 1
          /\ r.tripped = g.tripped
      BY <1>2, RecordedFields
    <2>2. /\ g.spent \in Nat /\ g.tokens \in Nat /\ g.calls \in Nat
          /\ x.cost \in Nat /\ x.tokens \in Nat
          /\ b.max_cost_usd # None => b.max_cost_usd \in Nat
          /\ b.max_total_tokens # None => b.max_total_tokens \in Nat
          /\ b.max_calls # None => b.max_calls \in Nat
      BY GuardShape
    <2> HIDE DEF r
    <2>3. EnsureNotExceeded(b, r) => EnsureNotExceeded(b, g)
      BY <2>1, <2>2 DEF EnsureNotExceeded
    <2>4. ~RecordReturns(b, g, x) => ~EnsureNotExceeded(b, r)
      BY <1>2, <2>1, <2>2 DEF EnsureNotExceeded, RecordReturns, r
    <2> QED  BY <2>3, <2>4 DEF r
  <1> QED  BY <1>1, <1>2

(* What record adds to the money and the tokens: the whole bill, which is  *)
(* nothing where the call is not counted because it has no price.          *)
LEMMA RecordedCounts ==
  ASSUME NEW b \in BudgetType, NEW g \in GuardType, NEW x \in BillType
  PROVE  /\ Recorded(b, g, x) \in GuardType
         /\ Unaccountable(b, x) => x.cost = 0
         /\ Recorded(b, g, x).spent = g.spent + x.cost
         /\ \/ Recorded(b, g, x).tripped
            \/ ~g.tripped /\ Recorded(b, g, x).tokens = g.tokens + x.tokens
<1>1. /\ g.spent \in Nat /\ x.cost \in Nat /\ g.tripped \in BOOLEAN
      /\ Unaccountable(b, x) => x.cost = 0
  BY GuardShape DEF Unaccountable, BillType
<1>2. CASE Unaccountable(b, x)
  <2>1. Recorded(b, g, x).spent = g.spent /\ Recorded(b, g, x).tripped = TRUE
    BY <1>2, RecordedFields
  <2>2. Recorded(b, g, x).spent = g.spent + x.cost
    BY <1>1, <1>2, <2>1
  <2> QED
    BY <1>1, <2>1, <2>2, RecordedFields, Zenon
<1>3. CASE ~Unaccountable(b, x)
  BY <1>1, <1>3, RecordedFields
<1> QED
  BY <1>2, <1>3
=============================================================================
