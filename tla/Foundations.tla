---------------------------- MODULE Foundations -----------------------------
(***************************************************************************)
(* What the proofs of several components rest on.                          *)
(*                                                                         *)
(* Recursive functions are reasoned about without an induction principle   *)
(* that takes an operator: a set of naturals has a least element, hence    *)
(* induction over an interval, hence a function defined from one argument  *)
(* to the next exists and obeys its equation.  Powers of two are counted   *)
(* as the sets they are the number of.  Buffered channels of pointers are  *)
(* sequences without duplicates.                                           *)
(***************************************************************************)
EXTENDS Integers, Sequences, FiniteSets, FunctionTheorems, FiniteSetTheorems,
        SequenceTheorems, WellFoundedInduction, TLAPS

-----------------------------------------------------------------------------
(* Induction over an interval, and functions defined by recursion on it.   *)

(* Every set of natural numbers that has an element has a least one.       *)
LEMMA LeastNumber ==
  ASSUME NEW T \in SUBSET Nat, T # {}
  PROVE  \E x \in T : \A y \in T : x <= y
<1> DEFINE R == {ss \in Nat \X Nat : ss[1] < ss[2]}
<1>1. IsWellFoundedOn(R, Nat)
  BY NatLessThanWellFounded DEF OpToRel
<1>2. \E x \in T : \A y \in T : <<y, x>> \notin R
  <2>1. T \subseteq Nat
    OBVIOUS
  <2> HIDE DEF R
  <2> QED BY <1>1, <2>1, WFMin
<1>3. PICK x \in T : \A y \in T : <<y, x>> \notin R
  BY <1>2
<1>4. ASSUME NEW y \in T PROVE x <= y
  <2>1. ~(y < x)
    BY <1>3
  <2> QED BY <2>1
<1> QED BY <1>4

(* Induction over an interval.                                             *)
LEMMA Induction ==
  ASSUME NEW m \in Int, NEW l \in Int, NEW T,
         m <= l => m \in T,
         \A x \in m .. l - 1 : x \in T => x + 1 \in T
  PROVE  m .. l \subseteq T
<1> DEFINE missing == {d \in Nat : m + d \in (m .. l) \ T}
<1> SUFFICES ASSUME ~(m .. l \subseteq T) PROVE FALSE
  OBVIOUS
<1>1. PICK z \in m .. l : z \notin T
  OBVIOUS
<1>2. z - m \in missing
  BY <1>1
<1>3. PICK d \in missing : \A y \in missing : d <= y
  <2>1. missing \in SUBSET Nat /\ missing # {}
    BY <1>2
  <2> HIDE DEF missing
  <2> QED BY <2>1, LeastNumber
<1>4. d \in Nat /\ m + d \in m .. l /\ m + d \notin T
  OBVIOUS
<1>5. d # 0
  BY <1>4
<1>6. d - 1 \in Nat /\ d - 1 \notin missing
  BY <1>3, <1>4, <1>5
<1>7. m + (d - 1) \in m .. l - 1 /\ m + (d - 1) \in T
  BY <1>4, <1>6
<1>8. (m + (d - 1)) + 1 = m + d
  BY <1>4
<1> QED BY <1>4, <1>7, <1>8

(* A function may be defined from one argument to the next: c is its first *)
(* value, and G[x][v] the value at x if v is the one before.               *)
Follows(g, m, l, c, G) == g = [x \in m .. l |-> IF x = m THEN c ELSE G[x][g[x - 1]]]

(* There is such a function, V[x] being the set its value at x is in.      *)
LEMMA Recursion ==
  ASSUME NEW m \in Int, NEW l \in Int, NEW V, NEW G, NEW c \in V[m],
         \A x \in m + 1 .. l : \A v \in V[x - 1] : G[x][v] \in V[x]
  PROVE  \E g : Follows(g, m, l, c, G) /\ \A x \in m .. l : g[x] \in V[x]
<1> USE DEF Follows
<1> DEFINE Good(g, u) == /\ g = [x \in m .. u |-> IF x = m THEN c ELSE G[x][g[x - 1]]]
                         /\ \A x \in m .. u : g[x] \in V[x]
           T == {u \in m - 1 .. l : \E g : Good(g, u)}
<1>1. m - 1 <= l => m - 1 \in T
  <2> SUFFICES ASSUME m - 1 <= l PROVE \E g : Good(g, m - 1)
    OBVIOUS
  <2> DEFINE g0 == [x \in m .. m - 1 |-> 0]
  <2>1. m .. m - 1 = {}
    OBVIOUS
  <2>2. Good(g0, m - 1)
    BY <2>1
  <2> QED BY <2>2
<1>2. ASSUME NEW u \in m - 1 .. l - 1, u \in T PROVE u + 1 \in T
  <2>1. PICK g : Good(g, u)
    BY <1>2
  <2> DEFINE h == [x \in m .. u + 1 |-> IF x = u + 1 THEN IF x = m THEN c ELSE G[x][g[x - 1]] ELSE g[x]]
  <2>2. \A x \in m .. u : h[x] = g[x] /\ g[x] = IF x = m THEN c ELSE G[x][g[x - 1]]
    <3>1. \A x \in m .. u : g[x] = IF x = m THEN c ELSE G[x][g[x - 1]]
      BY <2>1
    <3>2. ASSUME NEW x \in m .. u PROVE h[x] = g[x]
      <4>1. x \in m .. u + 1 /\ x # u + 1
        OBVIOUS
      <4> QED BY <4>1
    <3> HIDE DEF h
    <3> QED BY <3>1, <3>2
  <2>3. \A x \in m .. u + 1 : x # m => x - 1 \in m .. u
    OBVIOUS
  <2>4. h = [x \in m .. u + 1 |-> IF x = m THEN c ELSE G[x][h[x - 1]]]
    <3>1. ASSUME NEW x \in m .. u + 1 PROVE h[x] = IF x = m THEN c ELSE G[x][h[x - 1]]
      <4>1. CASE x = u + 1
        BY <2>2, <2>3, <4>1
      <4>2. CASE x # u + 1
        <5>1. x \in m .. u
          BY <4>2
        <5> QED BY <2>2, <2>3, <5>1
      <4> QED BY <4>1, <4>2
    <3> QED BY <3>1
  <2>5. ASSUME NEW x \in m .. u + 1 PROVE h[x] \in V[x]
    <3>1. CASE x = u + 1
      <4>1. CASE x = m
        BY <3>1, <4>1
      <4>2. CASE x # m
        <5>1. x - 1 \in m .. u /\ g[x - 1] \in V[x - 1] /\ x \in m + 1 .. l
          BY <2>1, <2>3, <4>2
        <5> QED BY <3>1, <4>2, <5>1
      <4> QED BY <4>1, <4>2
    <3>2. CASE x # u + 1
      <4>1. x \in m .. u
        BY <3>2
      <4> QED BY <2>1, <2>2, <4>1
    <3> QED BY <3>1, <3>2
  <2>6. Good(h, u + 1)
    <3> HIDE DEF h
    <3> QED BY <2>4, <2>5
  <2> HIDE DEF Good, h
  <2> QED BY <2>6
<1>3. m - 1 .. l \subseteq T
  <2> HIDE DEF T
  <2> QED BY <1>1, <1>2, Induction
<1>4. CASE m - 1 <= l
  <2>1. l \in m - 1 .. l
    BY <1>4
  <2>2. l \in T
    <3> HIDE DEF T
    <3> QED BY <1>3, <2>1
  <2> QED BY <2>2
<1>5. CASE ~(m - 1 <= l)
  <2> DEFINE g0 == [x \in m .. l |-> 0]
  <2>1. m .. l = {}
    BY <1>5
  <2>2. g0 = [x \in m .. l |-> IF x = m THEN c ELSE G[x][g0[x - 1]]]
    BY <2>1
  <2> QED BY <2>1, <2>2
<1> QED BY <1>4, <1>5

(* A function may also go down further than by one: D[x] is the argument   *)
(* that x refers to.                                                       *)
Descends(g, l, D, c, G) == \A x \in 0 .. l : g[x] = IF x = 0 THEN c ELSE G[x][g[D[x]]]

(* What one step keeps, all values have.                                   *)
LEMMA DescentStays ==
  ASSUME NEW l \in Nat, NEW D, \A x \in 1 .. l : D[x] \in 0 .. x - 1,
         NEW V, NEW G, NEW c \in V[0], \A x \in 1 .. l : \A v \in V[D[x]] : G[x][v] \in V[x],
         NEW g, Descends(g, l, D, c, G)
  PROVE  \A x \in 0 .. l : g[x] \in V[x]
<1> DEFINE T == {u \in 0 .. l : \A x \in 0 .. u : g[x] \in V[x]}
<1>1. 0 \in T
  <2>1. 0 \in 0 .. l /\ \A x \in 0 .. 0 : x = 0
    OBVIOUS
  <2> QED BY <2>1 DEF Descends
<1>2. ASSUME NEW u \in 0 .. l - 1, u \in T PROVE u + 1 \in T
  <2>1. u + 1 \in 1 .. l /\ u + 1 \in 0 .. l /\ u + 1 # 0 /\ (u + 1) - 1 = u
    OBVIOUS
  <2>2. D[u + 1] \in 0 .. u
    BY <2>1
  <2>3. g[D[u + 1]] \in V[D[u + 1]]
    BY <1>2, <2>2
  <2>4. g[u + 1] = G[u + 1][g[D[u + 1]]]
    BY <2>1 DEF Descends
  <2>5. g[u + 1] \in V[u + 1]
    BY <2>1, <2>3, <2>4
  <2>6. \A x \in 0 .. u + 1 : x \in 0 .. u \/ x = u + 1
    OBVIOUS
  <2> QED BY <1>2, <2>1, <2>5, <2>6
<1>3. 0 .. l \subseteq T
  <2>1. 0 \in Int /\ l \in Int
    OBVIOUS
  <2> HIDE DEF T
  <2> QED BY <1>1, <1>2, <2>1, Induction
<1>4. \A x \in 0 .. l : x \in 0 .. x
  OBVIOUS
<1> QED BY <1>3, <1>4

(* There is such a function.                                               *)
IsDescent(g, l, D, c, G) == g = [x \in 0 .. l |-> IF x = 0 THEN c ELSE G[x][g[D[x]]]]

LEMMA Descent ==
  ASSUME NEW l \in Nat, NEW D, \A x \in 1 .. l : D[x] \in 0 .. x - 1,
         NEW V, NEW G, NEW c \in V[0], \A x \in 1 .. l : \A v \in V[D[x]] : G[x][v] \in V[x]
  PROVE  \E g : IsDescent(g, l, D, c, G) /\ \A x \in 0 .. l : g[x] \in V[x]
<1> DEFINE Is(g, u) == g = [x \in 0 .. u |-> IF x = 0 THEN c ELSE G[x][g[D[x]]]]
           T == {u \in 0 .. l : \E g : Is(g, u)}
<1>1. 0 \in T
  <2> DEFINE g == [x \in 0 .. 0 |-> c]
  <2>1. \A x \in 0 .. 0 : x = 0
    OBVIOUS
  <2>2. Is(g, 0)
    BY <2>1
  <2> HIDE DEF Is
  <2> QED BY <2>2
<1>2. ASSUME NEW u \in 0 .. l - 1, u \in T PROVE u + 1 \in T
  <2>1. PICK g : Is(g, u)
    BY <1>2
  <2> DEFINE d == D[u + 1]
             h == [x \in 0 .. u + 1 |-> IF x = u + 1 THEN G[u + 1][g[d]] ELSE g[x]]
  <2>2. /\ u + 1 \in 1 .. l /\ u + 1 \in 0 .. l /\ u + 1 # 0 /\ (u + 1) - 1 = u
        /\ \A x \in 0 .. u : x \in 0 .. u + 1 /\ x # u + 1 /\ (x # 0 => x \in 1 .. l)
        /\ \A x \in 0 .. u + 1 : x = u + 1 \/ x \in 0 .. u
        /\ \A x \in 0 .. u : \A y \in 0 .. x - 1 : y \in 0 .. u
    OBVIOUS
  <2>3. d \in 0 .. u
    BY <2>2
  <2>4. \A x \in 0 .. u : g[x] = IF x = 0 THEN c ELSE G[x][g[D[x]]]
    BY <2>1
  <2>5. h[u + 1] = G[u + 1][g[d]] /\ \A x \in 0 .. u : h[x] = g[x]
    BY <2>2
  <2>6. ASSUME NEW x \in 0 .. u + 1 PROVE h[x] = IF x = 0 THEN c ELSE G[x][h[D[x]]]
    <3> HIDE DEF h
    <3>1. CASE x = u + 1
      BY <2>2, <2>3, <2>5, <3>1
    <3>2. CASE x # u + 1
      <4>1. x \in 0 .. u
        BY <2>2, <3>2
      <4>2. x # 0 => h[D[x]] = g[D[x]]
        BY <2>2, <2>5, <4>1
      <4> QED BY <2>4, <2>5, <4>1, <4>2
    <3> QED BY <3>1, <3>2
  <2>7. h = [x \in 0 .. u + 1 |-> h[x]]
    OBVIOUS
  <2>8. Is(h, u + 1)
    <3> HIDE DEF h
    <3> QED BY <2>6, <2>7
  <2> HIDE DEF Is, h
  <2> QED BY <2>2, <2>8
<1>3. 0 .. l \subseteq T
  <2>1. 0 \in Int /\ l \in Int
    OBVIOUS
  <2> HIDE DEF T
  <2> QED BY <1>1, <1>2, <2>1, Induction
<1>4. PICK g : Is(g, l)
  <2>1. l \in T
    <3> HIDE DEF T
    <3> QED BY <1>3
  <2> QED BY <2>1
<1>5. Descends(g, l, D, c, G)
  BY <1>4 DEF Descends
<1>6. \A x \in 0 .. l : g[x] \in V[x]
  BY <1>5, DescentStays
<1> QED BY <1>4, <1>6 DEF IsDescent

-----------------------------------------------------------------------------
(* Powers of two.                                                          *)

(* One element more doubles the number of subsets.                         *)
LEMMA PowerStep ==
  ASSUME NEW n \in Nat
  PROVE  2^(n + 1) = 2 * 2^n
<1> DEFINE S == 1 .. n
           T == 1 .. n + 1
           A == SUBSET S
           B == {X \cup {n + 1} : X \in A}
<1>1. IsFiniteSet(S) /\ Cardinality(S) = n /\ IsFiniteSet(T) /\ Cardinality(T) = n + 1
  <2>1. /\ IsFiniteSet(S) /\ Cardinality(S) = IF 1 > n THEN 0 ELSE n - 1 + 1
        /\ IsFiniteSet(T) /\ Cardinality(T) = IF 1 > n + 1 THEN 0 ELSE (n + 1) - 1 + 1
    BY FS_Interval
  <2> QED BY <2>1
<1>2. /\ IsFiniteSet(A) /\ Cardinality(A) = 2^n
      /\ IsFiniteSet(SUBSET T) /\ Cardinality(SUBSET T) = 2^(n + 1)
  BY <1>1, FS_SUBSET
<1>3. IsFiniteSet(B) /\ Cardinality(B) = 2^n
  <2> DEFINE f == [X \in A |-> X \cup {n + 1}]
  <2>1. f \in [A -> B]
    OBVIOUS
  <2>2. ASSUME NEW X \in A, NEW Y \in A, f[X] = f[Y] PROVE X = Y
    <3>1. n + 1 \notin X /\ n + 1 \notin Y
      OBVIOUS
    <3>2. X = f[X] \ {n + 1} /\ Y = f[Y] \ {n + 1}
      BY <3>1
    <3> QED BY <2>2, <3>2
  <2>3. \A y \in B : \E X \in A : f[X] = y
    OBVIOUS
  <2> HIDE DEF f, A, B
  <2>4. f \in Bijection(A, B)
    BY <2>1, <2>2, <2>3 DEF Bijection, Injection, Surjection, IsInjective
  <2>5. ExistsBijection(A, B)
    BY <2>4 DEF ExistsBijection
  <2> QED BY <1>2, <2>5, FS_Bijection
<1>4. SUBSET T = A \cup B
  <2>1. T = S \cup {n + 1}
    OBVIOUS
  <2>2. ASSUME NEW Z \in SUBSET T PROVE Z \in A \cup B
    <3>1. Z \ {n + 1} \in A
      BY <2>1
    <3>2. CASE n + 1 \in Z
      <4>1. Z = (Z \ {n + 1}) \cup {n + 1}
        BY <3>2
      <4> QED BY <3>1, <4>1
    <3>3. CASE n + 1 \notin Z
      <4>1. Z = Z \ {n + 1}
        BY <3>3
      <4> QED BY <3>1, <4>1
    <3> QED BY <3>2, <3>3
  <2>3. ASSUME NEW Z \in A \cup B PROVE Z \in SUBSET T
    BY <2>1
  <2> QED BY <2>2, <2>3
<1>5. A \cap B = {}
  <2>1. n + 1 \notin S
    OBVIOUS
  <2> QED BY <2>1
<1> HIDE DEF S, T, A, B
<1>6. Cardinality(A \cup B) = Cardinality(A) + Cardinality(B) - Cardinality(A \cap B)
  BY <1>2, <1>3, FS_Union
<1>7. Cardinality(A \cap B) = 0
  BY <1>5, FS_EmptySet
<1>8. 2^(n + 1) = 2^n + 2^n - 0
  BY <1>2, <1>3, <1>4, <1>6, <1>7
<1>9. 2^n \in Int
  OBVIOUS
<1> QED BY <1>8, <1>9

(* A power of two is positive ...                                          *)
LEMMA PowerPositive ==
  ASSUME NEW n \in Nat
  PROVE  2^n \in Nat \ {0}
<1> DEFINE T == {k \in 0 .. n : 2^k \in Nat \ {0}}
<1>1. 0 \in T
  <2>1. 2^0 = 1
    OBVIOUS
  <2> QED BY <2>1
<1>2. ASSUME NEW k \in 0 .. n - 1, k \in T PROVE k + 1 \in T
  <2>1. 2^(k + 1) = 2 * 2^k /\ k + 1 \in 0 .. n
    BY PowerStep
  <2>2. 2^k \in Nat \ {0}
    BY <1>2
  <2> QED BY <2>1, <2>2
<1>3. 0 .. n \subseteq T
  <2> HIDE DEF T
  <2> QED BY <1>1, <1>2, Induction
<1>4. n \in T
  <2> HIDE DEF T
  <2> QED BY <1>3
<1> QED BY <1>4

(* ... and exponents add up.                                               *)
LEMMA PowerSum ==
  ASSUME NEW a \in Nat, NEW b \in Nat
  PROVE  2^(a + b) = 2^a * 2^b
<1> DEFINE T == {k \in 0 .. b : 2^(a + k) = 2^a * 2^k}
<1>1. 0 \in T
  <2>1. 2^0 = 1 /\ a + 0 = a /\ 2^a \in Int
    OBVIOUS
  <2>2. 2^(a + 0) = 2^a * 2^0
    BY <2>1
  <2> QED BY <2>2
<1>2. ASSUME NEW k \in 0 .. b - 1, k \in T PROVE k + 1 \in T
  <2>1. k \in Nat /\ a + k \in Nat /\ a + (k + 1) = (a + k) + 1 /\ k + 1 \in 0 .. b
    OBVIOUS
  <2>2. 2^((a + k) + 1) = 2 * 2^(a + k) /\ 2^(k + 1) = 2 * 2^k
    BY <2>1, PowerStep
  <2>3. 2^(a + k) = 2^a * 2^k
    BY <1>2
  <2>4. 2^a \in Int /\ 2^k \in Int
    BY <2>1
  <2>5. 2 * (2^a * 2^k) = 2^a * (2 * 2^k)
    BY <2>4
  <2>6. 2^(a + (k + 1)) = 2^a * 2^(k + 1)
    BY <2>1, <2>2, <2>3, <2>5
  <2> QED BY <2>1, <2>6
<1>3. 0 .. b \subseteq T
  <2> HIDE DEF T
  <2> QED BY <1>1, <1>2, Induction
<1>4. b \in T
  <2> HIDE DEF T
  <2> QED BY <1>3
<1> QED BY <1>4

-----------------------------------------------------------------------------
(* Division, and the parts of a number in binary.                          *)

(* A number is a multiple of another and a remainder ...                   *)
LEMMA Division ==
  ASSUME NEW d \in Nat \ {0}, NEW v \in Nat
  PROVE  v \div d \in Nat /\ v % d \in 0 .. d - 1 /\ v = d * (v \div d) + (v % d) /\ v = (v \div d) * d + (v % d)
OBVIOUS

(* ... in one way only ...                                                 *)
LEMMA DivisionUnique ==
  ASSUME NEW d \in Nat \ {0}, NEW q \in Nat, NEW s \in 0 .. d - 1
  PROVE  (d * q + s) \div d = q /\ (d * q + s) % d = s
<1> DEFINE a == d * q + s
           p == a \div d
           t == a % d
<1>1. a \in Nat /\ p \in Int /\ t \in 0 .. d - 1 /\ a = d * p + t
  OBVIOUS
<1> HIDE DEF a, p, t
<1>2. d * p + t = d * q + s
  BY <1>1 DEF a
<1>3. ~(p < q)
  <2> SUFFICES ASSUME p < q PROVE FALSE
    OBVIOUS
  <2>1. q - p >= 1 /\ q - p \in Nat
    BY <1>1
  <2>2. d * (q - p) >= d
    BY <2>1
  <2>3. d * (q - p) = d * q - d * p
    BY <1>1
  <2>4. d * q \in Int /\ d * p \in Int
    BY <1>1
  <2> QED BY <1>1, <1>2, <2>2, <2>3, <2>4
<1>4. ~(q < p)
  <2> SUFFICES ASSUME q < p PROVE FALSE
    OBVIOUS
  <2>1. p - q >= 1 /\ p - q \in Nat
    BY <1>1
  <2>2. d * (p - q) >= d
    BY <2>1
  <2>3. d * (p - q) = d * p - d * q
    BY <1>1
  <2>4. d * q \in Int /\ d * p \in Int
    BY <1>1
  <2> QED BY <1>1, <1>2, <2>2, <2>3, <2>4
<1>5. p = q
  BY <1>1, <1>3, <1>4
<1>6. d * q \in Int
  OBVIOUS
<1>7. t = s
  BY <1>1, <1>2, <1>5, <1>6
<1> QED BY <1>5, <1>7 DEF p, t, a

(* ... and whole multiples come out of both.                               *)
LEMMA DivisionShift ==
  ASSUME NEW d \in Nat \ {0}, NEW x \in Nat, NEW r \in Nat
  PROVE  (x * d + r) \div d = x + (r \div d) /\ (x * d + r) % d = r % d
<1> DEFINE q == r \div d
           s == r % d
<1>1. q \in Nat /\ s \in 0 .. d - 1 /\ r = d * q + s
  OBVIOUS
<1> HIDE DEF q, s
<1>2. d * (x + q) = d * x + d * q /\ x * d = d * x /\ d * x \in Int /\ d * q \in Int /\ x + q \in Nat
  BY <1>1
<1>3. x * d + r = d * (x + q) + s
  BY <1>1, <1>2
<1>4. (d * (x + q) + s) \div d = x + q /\ (d * (x + q) + s) % d = s
  BY <1>1, <1>2, DivisionUnique
<1> QED BY <1>3, <1>4 DEF q, s

(* Multiples grow by whole steps.                                          *)
LEMMA Multiples ==
  ASSUME NEW d \in Nat \ {0}, NEW a \in Nat, NEW b \in Nat
  PROVE  /\ d * a \in Nat /\ d * b \in Nat
         /\ a <= b => d * a <= d * b
         /\ a < b => d * a + d <= d * b
<1>1. d * a \in Nat /\ d * b \in Nat
  OBVIOUS
<1>2. ASSUME a <= b PROVE d * a <= d * b
  <2>1. b - a \in Nat
    BY <1>2
  <2>2. d * (b - a) \in Nat
    BY <2>1
  <2>3. d * (b - a) = d * b - d * a
    OBVIOUS
  <2> QED BY <1>1, <2>2, <2>3
<1>3. ASSUME a < b PROVE d * a + d <= d * b
  <2>1. b - a - 1 \in Nat
    BY <1>3
  <2>2. d * (b - a - 1) \in Nat
    BY <2>1
  <2>3. d * (b - a - 1) = d * b - d * a - d
    OBVIOUS
  <2> QED BY <1>1, <2>2, <2>3
<1> QED BY <1>1, <1>2, <1>3

(* Larger exponents, larger powers.                                        *)
LEMMA PowerGrows ==
  ASSUME NEW a \in Nat, NEW b \in Nat, a <= b
  PROVE  2^a <= 2^b /\ (a < b => 2 * 2^a <= 2^b)
<1>1. b - a \in Nat /\ a + (b - a) = b
  OBVIOUS
<1>2. 2^b = 2^a * 2^(b - a)
  BY <1>1, PowerSum
<1>3. 2^a \in Nat \ {0} /\ 2^(b - a) \in Nat \ {0}
  BY <1>1, PowerPositive
<1>4. ASSUME NEW x \in Nat \ {0}, NEW y \in Nat \ {0} PROVE x <= x * y
  OBVIOUS
<1>5. 2^a <= 2^b
  BY <1>2, <1>3, <1>4
<1>6. ASSUME a < b PROVE 2 * 2^a <= 2^b
  <2>1. b - a - 1 \in Nat /\ b - a = (b - a - 1) + 1
    BY <1>6
  <2>2. 2^(b - a) = 2 * 2^(b - a - 1)
    BY <2>1, PowerStep
  <2>3. 2^(b - a - 1) \in Nat \ {0}
    BY <2>1, PowerPositive
  <2>4. 2^a * (2 * 2^(b - a - 1)) = (2 * 2^a) * 2^(b - a - 1)
    BY <1>3, <2>3
  <2>5. (2 * 2^a) <= (2 * 2^a) * 2^(b - a - 1)
    BY <1>3, <1>4, <2>3
  <2> QED BY <1>2, <2>2, <2>4, <2>5
<1> QED BY <1>5, <1>6

(* Dividing by one power and then by another.                              *)
LEMMA DivDiv ==
  ASSUME NEW v \in Nat, NEW p \in Nat, NEW q \in Nat
  PROVE  (v \div 2^p) \div 2^q = v \div 2^(p + q) /\ v \div 2^p \in Nat
<1>1. 2^p \in Nat \ {0} /\ 2^q \in Nat \ {0} /\ 2^(p + q) = 2^p * 2^q
  BY PowerPositive, PowerSum
<1>2. ASSUME NEW m \in Nat \ {0}, NEW n \in Nat \ {0} PROVE (v \div m) \div n = v \div (m * n) /\ v \div m \in Nat
  OBVIOUS
<1> QED BY <1>1, <1>2

(* The remainder by a power of two has the low bits.                       *)
LEMMA ModBit ==
  ASSUME NEW v \in Nat, NEW m \in Nat, NEW i \in 0 .. m - 1
  PROVE  ((v % 2^m) \div 2^i) % 2 = (v \div 2^i) % 2
<1> DEFINE A == v \div 2^m
           r == v % 2^m
           d == 2^i
           y == 2^(m - i - 1)
<1>1. 2^m \in Nat \ {0} /\ d \in Nat \ {0} /\ y \in Nat \ {0} /\ i \in Nat /\ m - i - 1 \in Nat
  BY PowerPositive
<1>2. 2^m = (2 * y) * d
  <2>1. (m - i - 1) + 1 \in Nat /\ ((m - i - 1) + 1) + i = m
    BY <1>1
  <2>2. 2^m = 2^((m - i - 1) + 1) * 2^i
    BY <1>1, <2>1, PowerSum
  <2> QED BY <1>1, <2>2, PowerStep
<1>3. A \in Nat /\ r \in Nat /\ v = A * 2^m + r
  <2> DEFINE c == 2^m
  <2>1. c \in Nat \ {0}
    BY <1>1
  <2> HIDE DEF c
  <2>2. v \div c \in Nat /\ v % c \in 0 .. c - 1 /\ v = (v \div c) * c + (v % c)
    BY <2>1, Division
  <2>3. v % c \in Nat
    BY <2>1, <2>2
  <2> QED BY <2>2, <2>3 DEF c
<1> HIDE DEF A, r, d, y
<1>4. v = (A * (2 * y)) * d + r /\ A * (2 * y) \in Nat
  BY <1>1, <1>2, <1>3
<1>5. v \div d = A * (2 * y) + (r \div d)
  <2>1. ((A * (2 * y)) * d + r) \div d = A * (2 * y) + (r \div d)
    BY <1>1, <1>3, <1>4, DivisionShift
  <2> QED BY <1>4, <2>1
<1>6. A * (2 * y) = (A * y) * 2 /\ A * y \in Nat /\ r \div d \in Nat
  BY <1>1, <1>3
<1>7. (v \div d) % 2 = (r \div d) % 2
  BY <1>5, <1>6, DivisionShift
<1> QED BY <1>7 DEF r, d

(* A number without its p low bits, and those.                             *)
Upper(v, p) == v \div 2^p
Lower(v, p) == v % 2^p

(* The high part is a number.                                              *)
LEMMA UpperTypes == \A v, p \in Nat : Upper(v, p) \in Nat
BY DivDiv DEF Upper

(* Low bits may be dropped in two steps.                                   *)
LEMMA UpperUpper == \A v, p, q \in Nat : Upper(Upper(v, p), q) = Upper(v, p + q)
BY DivDiv DEF Upper

(* The two parts make up the number.                                       *)
LEMMA UpperLaw ==
  ASSUME NEW v \in Nat, NEW p \in Nat
  PROVE  /\ Upper(v, p) \in Nat /\ Lower(v, p) \in 0 .. 2^p - 1 /\ Lower(v, p) \in Nat
         /\ v = Upper(v, p) * 2^p + Lower(v, p)
<1> DEFINE d == 2^p
<1>1. d \in Nat \ {0}
  BY PowerPositive
<1> HIDE DEF d
<1>2. v \div d \in Nat /\ v % d \in 0 .. d - 1 /\ v % d \in Nat /\ v = (v \div d) * d + (v % d)
  <2>1. v \div d \in Nat /\ v % d \in 0 .. d - 1 /\ v = (v \div d) * d + (v % d)
    BY <1>1, Division
  <2> QED BY <1>1, <2>1
<1> QED BY <1>2 DEF Upper, Lower, d

(* The low part has the low bits.                                          *)
LEMMA LowerBits ==
  ASSUME NEW v \in Nat, NEW m \in Nat, NEW i \in 0 .. m - 1
  PROVE  Upper(Lower(v, m), i) % 2 = Upper(v, i) % 2
BY ModBit DEF Upper, Lower

(* Nothing is above the length of a number.                                *)
LEMMA UpperEnds ==
  /\ \A v \in Nat : Upper(v, 0) = v
  /\ \A v, n \in Nat : v < 2^n => Upper(v, n) = 0
<1>1. ASSUME NEW v \in Nat PROVE Upper(v, 0) = v
  <2>1. 2^0 = 1 /\ v \div 1 = v
    OBVIOUS
  <2> QED BY <2>1 DEF Upper
<1>2. ASSUME NEW v \in Nat, NEW n \in Nat, v < 2^n PROVE Upper(v, n) = 0
  <2>1. ASSUME NEW d \in Nat \ {0}, v < d PROVE v \div d = 0
    BY <2>1
  <2>2. 2^n \in Nat \ {0}
    BY PowerPositive
  <2> QED BY <1>2, <2>1, <2>2 DEF Upper
<1> QED BY <1>1, <1>2

-----------------------------------------------------------------------------
(* Channels, and the arrays that the pointers in them lead to.              *)

(* The pointers in a channel, and that none is in it twice.                *)
Elems(s) == { s[k] : k \in 1 .. Len(s) }
NoDup(s) == \A k, l \in 1 .. Len(s) : s[k] = s[l] => k = l

(* A send adds one batch to those in the channel.                          *)
LEMMA SendElems ==
  ASSUME NEW S, NEW s \in Seq(S), NEW e \in S
  PROVE  /\ Append(s, e) \in Seq(S)
         /\ Elems(Append(s, e)) = Elems(s) \cup {e}
         /\ NoDup(s) /\ e \notin Elems(s) => NoDup(Append(s, e))
<1>1. /\ Append(s, e) \in Seq(S)
      /\ Len(Append(s, e)) = Len(s) + 1 /\ Len(s) \in Nat
      /\ \A k \in 1 .. Len(s) : Append(s, e)[k] = s[k]
      /\ Append(s, e)[Len(s) + 1] = e
  OBVIOUS
<1>2. Elems(Append(s, e)) = Elems(s) \cup {e}
  <2>1. ASSUME NEW x \in Elems(Append(s, e)) PROVE x \in Elems(s) \cup {e}
    BY <1>1 DEF Elems
  <2>2. ASSUME NEW x \in Elems(s) \cup {e} PROVE x \in Elems(Append(s, e))
    <3>1. CASE x = e
      BY <1>1, <3>1 DEF Elems
    <3>2. CASE x \in Elems(s)
      BY <1>1, <3>2 DEF Elems
    <3> QED BY <3>1, <3>2
  <2> QED BY <2>1, <2>2
<1>3. NoDup(s) /\ e \notin Elems(s) => NoDup(Append(s, e))
  BY <1>1 DEF NoDup, Elems
<1> QED BY <1>1, <1>2, <1>3

(* A receive takes one batch out of the channel.                           *)
LEMMA ReceiveElems ==
  ASSUME NEW S, NEW s \in Seq(S), s # <<>>, NoDup(s)
  PROVE  /\ Head(s) \in S /\ Head(s) \in Elems(s)
         /\ Tail(s) \in Seq(S)
         /\ Elems(Tail(s)) = Elems(s) \ {Head(s)}
         /\ NoDup(Tail(s))
<1>1. /\ Tail(s) \in Seq(S) /\ Head(s) \in S
      /\ Len(s) \in Nat /\ Len(s) >= 1 /\ Len(Tail(s)) = Len(s) - 1
      /\ Head(s) = s[1]
      /\ \A k \in 1 .. Len(s) - 1 : Tail(s)[k] = s[k + 1]
  OBVIOUS
<1>2. NoDup(Tail(s))
  BY <1>1 DEF NoDup
<1>3. Head(s) \in Elems(s)
  BY <1>1 DEF Elems
<1>4. Elems(Tail(s)) = Elems(s) \ {Head(s)}
  <2>1. ASSUME NEW x \in Elems(Tail(s)) PROVE x \in Elems(s) /\ x # Head(s)
    BY <1>1, <2>1 DEF Elems, NoDup
  <2>2. ASSUME NEW x \in Elems(s), x # Head(s) PROVE x \in Elems(Tail(s))
    <3>1. PICK k \in 1 .. Len(s) : x = s[k]
      BY DEF Elems
    <3>2. k - 1 \in 1 .. Len(Tail(s)) /\ Tail(s)[k - 1] = s[k]
      BY <1>1, <2>2, <3>1
    <3> QED BY <3>1, <3>2 DEF Elems
  <2> QED BY <2>1, <2>2
<1> QED BY <1>1, <1>2, <1>3, <1>4

(* The empty channel holds no batch.                                       *)
LEMMA EmptyElems == Elems(<<>>) = {} /\ NoDup(<<>>)
BY DEF Elems, NoDup

(* Writing one slot of one batch leaves every other slot as it was.        *)
LEMMA SlotUpdate ==
  ASSUME NEW A, NEW B, NEW C, NEW f \in [A -> [B -> C]], NEW a \in A, NEW b \in B, NEW v \in C
  PROVE  LET g == [f EXCEPT ![a][b] = v] IN
         /\ g \in [A -> [B -> C]]
         /\ g[a][b] = v
         /\ \A x \in A, y \in B : x # a \/ y # b => g[x][y] = f[x][y]
OBVIOUS

(* A channel without duplicates that lacks one of the pointers holds fewer *)
(* of them than there are.                                                 *)
LEMMA RoomLeft ==
  ASSUME NEW S, IsFiniteSet(S), NEW s \in Seq(S), NoDup(s), NEW b \in S, b \notin Elems(s)
  PROVE  Len(s) < Cardinality(S)
<1>. DEFINE others == S \ {b}
<1>1. IsFiniteSet(1 .. Len(s)) /\ Cardinality(1 .. Len(s)) = Len(s)
  <2>1. PICK l \in Int : l = Len(s) /\ l \in Nat
    OBVIOUS
  <2>2. IsFiniteSet(1 .. l) /\ Cardinality(1 .. l) = IF 1 > l THEN 0 ELSE l - 1 + 1
    <3>1. 1 \in Int
      OBVIOUS
    <3>. QED  BY <3>1, FS_Interval, Zenon
  <2>3. Cardinality(1 .. l) = l
    BY <2>1, <2>2
  <2>. QED  BY <2>1, <2>2, <2>3
<1>2. Cardinality(S) \in Nat
  BY FS_CardinalityType
<1>3. IsFiniteSet(others) /\ Cardinality(others) = Cardinality(S) - 1
  BY FS_RemoveElement
<1>4. s \in [1 .. Len(s) -> others]
  BY DEF Elems
<1>5. ~(Cardinality(S) - 1 < Len(s))
  BY <1>1, <1>3, <1>4, FS_PigeonHole DEF NoDup
<1>6. Len(s) \in Nat
  OBVIOUS
<1>. QED  BY <1>2, <1>5, <1>6
=============================================================================
