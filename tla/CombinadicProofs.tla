-------------------------- MODULE CombinadicProofs --------------------------
(***************************************************************************)
(* What the arithmetic of the blocks computes, for every size of the cache *)
(* and every set of positions: the cache holds Pascal's triangle, a set is *)
(* listed in ascending order, its rank is the sum of the coefficients of   *)
(* its positions, and unranking takes that sum apart again; positions that *)
(* are reduced to a smaller universe are found again there.  And what the  *)
(* bit writer and reader do, for every width of bytes and words: a write   *)
(* puts the bits of its field after those written before, and a read finds *)
(* the number whose bits are in its place.                                 *)
(***************************************************************************)
EXTENDS Combinadic, BitStream, Foundations

-----------------------------------------------------------------------------
(* binomial.go: the cache.                                                 *)

(* The cache covers a universe of two at least; a machine word has a bit.  *)
LEMMA CacheTypes == CacheN \in Nat /\ CacheN >= 2 /\ AccBits \in Nat \ {0}
BY CombinadicAssumption

(* binomial.go: every coefficient C(n, k), 0 < k < n, with n up to the     *)
(* argument of InitCache, is looked up inside the half-diagonals that      *)
(* InitCache allocated: no index of BinCoef is out of range.               *)
THEOREM LookupInCache ==
  ASSUME NEW n \in 2 .. CacheN, NEW k \in 1 .. n - 1
  PROVE  /\ Cell(n, k)[1] \in CachedRows
         /\ Cell(n, k)[2] \in CachedColumns(Cell(n, k)[1])
<1>0. CacheN \in Nat /\ CacheN >= 2
  BY CacheTypes
<1>1. CASE k > n \div 2
  <2>1. Cell(n, k)[1] = n - k - 1 /\ Cell(n, k)[2] = 2 * k - n
    BY <1>1 DEF Cell
  <2>2. n - k - 1 \in CachedRows
    BY <1>0, <1>1 DEF CachedRows
  <2>3. 2 * k - n \in CachedColumns(n - k - 1)
    BY <1>0, <1>1 DEF CachedColumns
  <2>. QED  BY <2>1, <2>2, <2>3
<1>2. CASE ~(k > n \div 2)
  <2>1. Cell(n, k)[1] = k - 1 /\ Cell(n, k)[2] = n - 2 * k
    BY <1>2 DEF Cell
  <2>2. k - 1 \in CachedRows
    BY <1>0, <1>2 DEF CachedRows
  <2>3. n - 2 * k \in CachedColumns(k - 1)
    BY <1>0, <1>2 DEF CachedColumns
  <2>. QED  BY <2>1, <2>2, <2>3
<1>. QED  BY <1>1, <1>2

(* The values of the cache: no coefficient it stores is zero.              *)
Positive == Nat \ {0}

(* InitCache, its inner loop: one half-diagonal from the one above it, as  *)
(* the equations a recursive function stands for.                          *)
LEMMA NextDiagonalLaw ==
  ASSUME NEW i \in CachedRows, i # 0, NEW above \in [CachedColumns(i - 1) -> Positive]
  PROVE  /\ NextDiagonal(above, i) \in [CachedColumns(i) -> Positive]
         /\ \A j \in CachedColumns(i) :
              NextDiagonal(above, i)[j] = IF j = 0 THEN 2 * above[1] ELSE NextDiagonal(above, i)[j - 1] + above[j + 1]
<1> DEFINE l == CacheN - 2 * i - 1
           V == [x \in 0 .. l |-> Positive]
           G == [x \in 0 .. l |-> [v \in Positive |-> v + above[x + 1]]]
           c == 2 * above[1]
<1>1. /\ CacheN \in Nat /\ i \in Nat \ {0} /\ 2 * i + 2 <= CacheN
      /\ CachedColumns(i) = 0 .. l /\ CachedColumns(i - 1) = 0 .. l + 2 /\ l \in Nat
  BY CacheTypes DEF CachedRows, CachedColumns
<1>2. /\ \A x \in 0 .. l : V[x] = Positive
      /\ \A x \in 0 .. l : \A v \in Positive : G[x][v] = v + above[x + 1]
  OBVIOUS
<1>3. c \in Positive /\ \A x \in 0 .. l : above[x + 1] \in Positive
  BY <1>1 DEF Positive
<1>4. PICK g : Follows(g, 0, l, c, G) /\ \A x \in 0 .. l : g[x] \in V[x]
  <2> HIDE DEF l, V, G, c
  <2>1. c \in V[0] /\ 0 \in Int /\ l \in Int
    BY <1>1, <1>2, <1>3
  <2>2. ASSUME NEW x \in 0 + 1 .. l, NEW v \in V[x - 1] PROVE G[x][v] \in V[x]
    <3>1. x \in 0 .. l /\ x - 1 \in 0 .. l
      BY <1>1
    <3>2. v \in Positive /\ G[x][v] = v + above[x + 1] /\ above[x + 1] \in Positive /\ V[x] = Positive
      BY <1>2, <1>3, <3>1
    <3> QED BY <3>2 DEF Positive
  <2> QED BY <2>1, <2>2, Recursion
<1>5. \A x \in 0 .. l : g[x] \in Positive /\ g[x] = IF x = 0 THEN 2 * above[1] ELSE g[x - 1] + above[x + 1]
  <2> SUFFICES ASSUME NEW x \in 0 .. l
               PROVE g[x] \in Positive /\ g[x] = IF x = 0 THEN 2 * above[1] ELSE g[x - 1] + above[x + 1]
    OBVIOUS
  <2> HIDE DEF G, V, l
  <2>1. g[x] = IF x = 0 THEN c ELSE G[x][g[x - 1]]
    BY <1>4 DEF Follows
  <2>2. x # 0 => x - 1 \in 0 .. l
    BY <1>1
  <2>3. g[x] \in Positive /\ (x # 0 => g[x - 1] \in Positive)
    BY <1>2, <1>4, <2>2
  <2> QED BY <1>2, <2>1, <2>3
<1>6. g = [j \in CachedColumns(i) |-> IF j = 0 THEN 2 * above[1] ELSE g[j - 1] + above[j + 1]]
  <2>1. g = [x \in 0 .. l |-> g[x]]
    BY <1>4 DEF Follows
  <2> HIDE DEF l
  <2> QED BY <1>1, <1>5, <2>1
<1>7. NextDiagonal(above, i) = [j \in CachedColumns(i) |-> IF j = 0 THEN 2 * above[1] ELSE NextDiagonal(above, i)[j - 1] + above[j + 1]]
  BY <1>6 DEF NextDiagonal
<1> DEFINE f == NextDiagonal(above, i)
           T == {x \in 0 .. l : f[x] = g[x]}
<1>8. \A x \in 0 .. l : f[x] = IF x = 0 THEN 2 * above[1] ELSE f[x - 1] + above[x + 1]
  <2> HIDE DEF f, l
  <2> QED BY <1>1, <1>7 DEF f
<1>9. 0 .. l \subseteq T
  <2>1. 0 \in T
    BY <1>1, <1>5, <1>8
  <2>2. ASSUME NEW x \in 0 .. l - 1, x \in T PROVE x + 1 \in T
    <3>1. x + 1 \in 0 .. l /\ x + 1 # 0 /\ (x + 1) - 1 = x
      BY <1>1
    <3> HIDE DEF f, l
    <3> QED BY <1>5, <1>8, <2>2, <3>1
  <2> HIDE DEF T, l
  <2> QED BY <1>1, <2>1, <2>2, Induction
<1>10. f = [j \in CachedColumns(i) |-> f[j]]
  BY <1>7
<1> HIDE DEF f, l
<1> QED BY <1>1, <1>5, <1>8, <1>9, <1>10 DEF f

(* InitCache, its outer loop: all half-diagonals, each from the one above. *)
LEMMA HalfDiagonalsLaw ==
  /\ \A i \in CachedRows : HalfDiagonals[i] \in [CachedColumns(i) -> Positive]
  /\ \A j \in CachedColumns(0) : HalfDiagonals[0][j] = j + 2
  /\ \A i \in CachedRows : i # 0 => HalfDiagonals[i] = NextDiagonal(HalfDiagonals[i - 1], i)
<1> DEFINE l == (CacheN \div 2) - 1
           V == [x \in 0 .. l |-> [CachedColumns(x) -> Positive]]
           G == [x \in 0 .. l |-> [v \in V[x - 1] |-> NextDiagonal(v, x)]]
           c == [j \in CachedColumns(0) |-> j + 2]
<1>1. CachedRows = 0 .. l /\ l \in Nat
  BY CacheTypes DEF CachedRows
<1>2. /\ \A x \in 0 .. l : V[x] = [CachedColumns(x) -> Positive]
      /\ \A x \in 0 .. l : \A v \in V[x - 1] : G[x][v] = NextDiagonal(v, x)
  OBVIOUS
<1>3. c \in [CachedColumns(0) -> Positive]
  BY CacheTypes DEF Positive, CachedColumns
<1>4. PICK g : Follows(g, 0, l, c, G) /\ \A x \in 0 .. l : g[x] \in V[x]
  <2> HIDE DEF l, V, G, c
  <2>1. c \in V[0] /\ 0 \in Int /\ l \in Int
    BY <1>1, <1>2, <1>3
  <2>2. ASSUME NEW x \in 0 + 1 .. l, NEW v \in V[x - 1] PROVE G[x][v] \in V[x]
    <3>1. x \in 0 .. l /\ x - 1 \in 0 .. l /\ x \in CachedRows /\ x # 0
      BY <1>1
    <3>2. v \in [CachedColumns(x - 1) -> Positive]
      BY <1>2, <3>1
    <3>3. NextDiagonal(v, x) \in [CachedColumns(x) -> Positive]
      BY <3>1, <3>2, NextDiagonalLaw
    <3> QED BY <1>2, <3>1, <3>3
  <2> QED BY <2>1, <2>2, Recursion
<1>5. \A x \in 0 .. l : g[x] = IF x = 0 THEN c ELSE NextDiagonal(g[x - 1], x)
  <2> SUFFICES ASSUME NEW x \in 0 .. l PROVE g[x] = IF x = 0 THEN c ELSE NextDiagonal(g[x - 1], x)
    OBVIOUS
  <2> HIDE DEF G, V, l, c
  <2>1. g[x] = IF x = 0 THEN c ELSE G[x][g[x - 1]]
    BY <1>4 DEF Follows
  <2>2. x # 0 => x - 1 \in 0 .. l
    BY <1>1
  <2>3. x # 0 => g[x - 1] \in V[x - 1]
    BY <1>4, <2>2
  <2> QED BY <1>2, <2>1, <2>3
<1>6. g = [i \in CachedRows |-> IF i = 0 THEN [j \in CachedColumns(0) |-> j + 2] ELSE NextDiagonal(g[i - 1], i)]
  <2>1. g = [x \in 0 .. l |-> g[x]]
    BY <1>4 DEF Follows
  <2> HIDE DEF l
  <2> QED BY <1>1, <1>5, <2>1
<1>7. HalfDiagonals = [i \in CachedRows |-> IF i = 0 THEN [j \in CachedColumns(0) |-> j + 2] ELSE NextDiagonal(HalfDiagonals[i - 1], i)]
  BY <1>6 DEF HalfDiagonals
<1> DEFINE f == HalfDiagonals
           T == {x \in 0 .. l : f[x] = g[x]}
<1>8. \A x \in 0 .. l : f[x] = IF x = 0 THEN c ELSE NextDiagonal(f[x - 1], x)
  <2> HIDE DEF f, l
  <2> QED BY <1>1, <1>7 DEF f
<1>0. f[0] = c /\ g[0] = c /\ 0 \in 0 .. l
  <2> HIDE DEF f, l, c
  <2>1. 0 \in 0 .. l
    BY <1>1
  <2> QED BY <1>5, <1>8, <2>1
<1>9. 0 .. l \subseteq T
  <2>1. 0 \in T
    BY <1>0
  <2>2. ASSUME NEW x \in 0 .. l - 1, x \in T PROVE x + 1 \in T
    <3>1. x + 1 \in 0 .. l /\ x + 1 # 0 /\ (x + 1) - 1 = x
      BY <1>1
    <3> HIDE DEF f, l
    <3> QED BY <1>5, <1>8, <2>2, <3>1
  <2> HIDE DEF T, l
  <2> QED BY <1>1, <2>1, <2>2, Induction
<1>10. \A x \in 0 .. l : f[x] = g[x] /\ g[x] \in [CachedColumns(x) -> Positive]
  <2> HIDE DEF f, l
  <2> QED BY <1>2, <1>4, <1>9
<1>12. \A j \in CachedColumns(0) : f[0][j] = j + 2
  <2> HIDE DEF f
  <2> QED BY <1>0
<1> HIDE DEF f, l
<1> QED BY <1>1, <1>8, <1>10, <1>12 DEF f

(* BinCoef looks up the coefficients of the left half of a row where       *)
(* InitCache put them.                                                     *)
LEMMA LowerHalf ==
  ASSUME NEW n \in 2 .. CacheN, NEW k \in 1 .. n - 1, 2 * k <= n
  PROVE  /\ BinCoef(n, k) = HalfDiagonals[k - 1][n - 2 * k]
         /\ k - 1 \in CachedRows /\ n - 2 * k \in CachedColumns(k - 1)
<1>1. n \in Nat /\ k \in Nat /\ CacheN \in Nat /\ n <= CacheN
  BY CacheTypes
<1>2. ~(k > n \div 2) /\ ~(k > n) /\ k # 0 /\ k # n
  BY <1>1
<1>3. Cell(n, k) = <<k - 1, n - 2 * k>>
  BY <1>2 DEF Cell
<1>4. BinCoef(n, k) = HalfDiagonals[k - 1][n - 2 * k]
  BY <1>2, <1>3 DEF BinCoef
<1> QED BY <1>1, <1>4 DEF CachedRows, CachedColumns

(* ... and those of the right half at the place of their mirror image.     *)
LEMMA Symmetry ==
  ASSUME NEW n \in 0 .. CacheN, NEW k \in 0 .. n
  PROVE  BinCoef(n, k) = BinCoef(n, n - k)
<1>0. n \in Nat /\ k \in Nat
  OBVIOUS
<1>1. CASE k = 0 \/ k = n
  BY <1>0, <1>1 DEF BinCoef
<1>2. CASE k # 0 /\ k # n /\ 2 * k > n
  <2>1. k > n \div 2 /\ ~(n - k > n \div 2)
    BY <1>0, <1>2
  <2>2. Cell(n, k) = <<n - k - 1, 2 * k - n>>
    BY <2>1 DEF Cell
  <2>3. Cell(n, n - k) = <<(n - k) - 1, n - 2 * (n - k)>>
    BY <2>1 DEF Cell
  <2>4. n - 2 * (n - k) = 2 * k - n
    BY <1>0
  <2> QED BY <1>0, <1>2, <2>2, <2>3, <2>4 DEF BinCoef
<1>3. CASE k # 0 /\ k # n /\ 2 * k < n
  <2>1. n - k > n \div 2 /\ ~(k > n \div 2)
    BY <1>0, <1>3
  <2>2. Cell(n, n - k) = <<n - (n - k) - 1, 2 * (n - k) - n>>
    BY <2>1 DEF Cell
  <2>3. Cell(n, k) = <<k - 1, n - 2 * k>>
    BY <2>1 DEF Cell
  <2>4. n - (n - k) - 1 = k - 1 /\ 2 * (n - k) - n = n - 2 * k
    BY <1>0
  <2> QED BY <1>0, <1>3, <2>2, <2>3, <2>4 DEF BinCoef
<1>4. CASE 2 * k = n
  <2>1. n - k = k
    BY <1>0, <1>4
  <2> QED BY <2>1
<1> QED BY <1>0, <1>1, <1>2, <1>3, <1>4

(* The values outside the triangle and on its edges.                       *)
LEMMA Edges ==
  ASSUME NEW n \in Nat, NEW k \in Nat
  PROVE  /\ k > n => BinCoef(n, k) = 0
         /\ k = n \/ k = 0 => BinCoef(n, k) = 1
BY DEF BinCoef

(* The others are positive.                                                *)
LEMMA CoefficientTypes ==
  ASSUME NEW n \in 0 .. CacheN, NEW k \in Nat
  PROVE  BinCoef(n, k) \in Nat /\ (k <= n => BinCoef(n, k) > 0)
<1>0. n \in Nat /\ k \in Nat
  BY CacheTypes
<1>1. ASSUME NEW j \in 1 .. n - 1, 2 * j <= n PROVE BinCoef(n, j) \in Positive
  <2>1. n \in 2 .. CacheN
    BY <1>1
  <2>2. BinCoef(n, j) = HalfDiagonals[j - 1][n - 2 * j] /\ j - 1 \in CachedRows /\ n - 2 * j \in CachedColumns(j - 1)
    BY <1>1, <2>1, LowerHalf
  <2>3. HalfDiagonals[j - 1] \in [CachedColumns(j - 1) -> Positive]
    BY <2>2, HalfDiagonalsLaw
  <2> QED BY <2>2, <2>3
<1>2. CASE k > n \/ k = n \/ k = 0
  BY <1>0, <1>2, Edges
<1>3. CASE k < n /\ k # 0 /\ 2 * k <= n
  <2>1. k \in 1 .. n - 1
    BY <1>0, <1>3
  <2> QED BY <1>1, <1>3, <2>1 DEF Positive
<1>4. CASE k < n /\ k # 0 /\ ~(2 * k <= n)
  <2>1. n - k \in 1 .. n - 1 /\ 2 * (n - k) <= n /\ k \in 0 .. n
    BY <1>0, <1>4
  <2>2. BinCoef(n, n - k) \in Positive
    BY <1>1, <2>1
  <2>3. BinCoef(n, k) = BinCoef(n, n - k)
    BY <2>1, Symmetry
  <2> QED BY <2>2, <2>3 DEF Positive
<1> QED BY <1>0, <1>2, <1>3, <1>4

(* Pascal's rule, for the half of the triangle that is stored.             *)
LEMMA PascalLower ==
  ASSUME NEW n \in 2 .. CacheN, NEW k \in 1 .. n - 1, 2 * k <= n
  PROVE  BinCoef(n, k) = BinCoef(n - 1, k - 1) + BinCoef(n - 1, k)
<1>0. n \in Nat /\ k \in Nat /\ n - 1 \in Nat /\ k - 1 \in Nat /\ CacheN \in Nat
  BY CacheTypes
<1>1. BinCoef(n, k) = HalfDiagonals[k - 1][n - 2 * k] /\ k - 1 \in CachedRows /\ n - 2 * k \in CachedColumns(k - 1)
  BY LowerHalf
<1>2. CASE k = 1
  <2>1. BinCoef(n, k) = n
    <3>1. n - 2 \in CachedColumns(0) /\ k - 1 = 0 /\ n - 2 * k = n - 2 /\ (n - 2) + 2 = n
      BY <1>0, <1>1, <1>2
    <3>2. HalfDiagonals[0][n - 2] = (n - 2) + 2
      BY <3>1, HalfDiagonalsLaw
    <3> QED BY <1>1, <3>1, <3>2
  <2>2. BinCoef(n - 1, k - 1) = 1
    BY <1>0, <1>2, Edges
  <2>3. BinCoef(n - 1, k) = n - 1
    <3>1. CASE n = 2
      BY <1>0, <1>2, <3>1, Edges
    <3>2. CASE n # 2
      <4>1. n - 1 \in 2 .. CacheN /\ k \in 1 .. (n - 1) - 1 /\ 2 * k <= n - 1
        BY <1>0, <1>2, <3>2
      <4>2. BinCoef(n - 1, k) = HalfDiagonals[k - 1][(n - 1) - 2 * k] /\ (n - 1) - 2 * k \in CachedColumns(k - 1)
        BY <4>1, LowerHalf
      <4>3. n - 3 \in CachedColumns(0) /\ k - 1 = 0 /\ (n - 1) - 2 * k = n - 3 /\ (n - 3) + 2 = n - 1
        BY <1>0, <1>2, <4>2
      <4>4. HalfDiagonals[0][n - 3] = (n - 3) + 2
        BY <4>3, HalfDiagonalsLaw
      <4> QED BY <4>2, <4>3, <4>4
    <3> QED BY <3>1, <3>2
  <2> QED BY <1>0, <2>1, <2>2, <2>3
<1>3. CASE k # 1
  <2> DEFINE i == k - 1
             above == HalfDiagonals[i - 1]
             j == n - 2 * k
  <2>1. /\ i \in CachedRows /\ i # 0 /\ i - 1 = k - 2 /\ i - 1 \in CachedRows
        /\ j \in CachedColumns(i) /\ j \in Nat /\ i \in Nat
    BY <1>0, <1>1, <1>3 DEF CachedRows, CachedColumns
  <2>2. HalfDiagonals[i] = NextDiagonal(above, i) /\ above \in [CachedColumns(i - 1) -> Positive]
    <3>1. above \in [CachedColumns(i - 1) -> Positive]
      BY <2>1, HalfDiagonalsLaw
    <3>2. HalfDiagonals[i] = NextDiagonal(above, i)
      <4> HIDE DEF i
      <4> QED BY <2>1, HalfDiagonalsLaw
    <3> QED BY <3>1, <3>2
  <2>3. HalfDiagonals[i][j] = IF j = 0 THEN 2 * above[1] ELSE HalfDiagonals[i][j - 1] + above[j + 1]
    <3> HIDE DEF i, j, above
    <3> QED BY <2>1, <2>2, NextDiagonalLaw
  <2>4. BinCoef(n - 1, k - 1) = above[j + 1]
    <3>1. n - 1 \in 2 .. CacheN /\ k - 1 \in 1 .. (n - 1) - 1 /\ 2 * (k - 1) <= n - 1
      BY <1>0, <1>3
    <3>2. BinCoef(n - 1, k - 1) = HalfDiagonals[(k - 1) - 1][(n - 1) - 2 * (k - 1)]
      BY <3>1, LowerHalf
    <3>3. (k - 1) - 1 = i - 1 /\ (n - 1) - 2 * (k - 1) = j + 1
      BY <1>0
    <3> QED BY <3>2, <3>3
  <2>5. above[j + 1] \in Positive
    <3>1. j + 1 \in CachedColumns(i - 1)
      BY <1>0, <2>1 DEF CachedColumns
    <3> HIDE DEF i, j, above
    <3> QED BY <2>2, <3>1
  <2>6. CASE j = 0
    <3>1. BinCoef(n - 1, k) = BinCoef(n - 1, k - 1)
      <4>1. n - 1 \in 0 .. CacheN /\ k \in 0 .. n - 1 /\ (n - 1) - k = k - 1
        BY <1>0, <2>6
      <4>2. BinCoef(n - 1, k) = BinCoef(n - 1, (n - 1) - k)
        BY <4>1, Symmetry
      <4> QED BY <4>1, <4>2
    <3>2. BinCoef(n, k) = 2 * above[1] /\ BinCoef(n - 1, k - 1) = above[1] /\ above[1] \in Positive
      <4>1. j + 1 = 1
        BY <2>6
      <4>2. BinCoef(n, k) = HalfDiagonals[i][j]
        BY <1>1
      <4> HIDE DEF i, j, above
      <4> QED BY <2>3, <2>4, <2>5, <2>6, <4>1, <4>2
    <3> HIDE DEF i, j, above
    <3> QED BY <3>1, <3>2 DEF Positive
  <2>7. CASE j # 0
    <3>1. n - 1 \in 2 .. CacheN /\ k \in 1 .. (n - 1) - 1 /\ 2 * k <= n - 1
      BY <1>0, <1>3, <2>1, <2>7
    <3>2. BinCoef(n - 1, k) = HalfDiagonals[k - 1][(n - 1) - 2 * k]
      BY <3>1, LowerHalf
    <3>3. (n - 1) - 2 * k = j - 1
      BY <1>0
    <3>4. BinCoef(n - 1, k) = HalfDiagonals[i][j - 1]
      BY <3>2, <3>3
    <3>5. BinCoef(n - 1, k) \in Nat
      BY <3>1, <1>0, CoefficientTypes
    <3>6. BinCoef(n, k) = HalfDiagonals[i][j]
      BY <1>1
    <3> HIDE DEF i, j, above
    <3> QED BY <2>3, <2>4, <2>5, <2>7, <3>4, <3>5, <3>6 DEF Positive
  <2> QED BY <2>6, <2>7
<1> QED BY <1>2, <1>3

(* binomial.go: whatever the size of the cache, what BinCoef returns obeys *)
(* Pascal's rule, so that with the edges it is the binomial coefficient.   *)
THEOREM Pascal ==
  ASSUME NEW n \in 1 .. CacheN, NEW k \in Nat \ {0}
  PROVE  BinCoef(n, k) = BinCoef(n - 1, k - 1) + BinCoef(n - 1, k)
<1>0. n \in Nat /\ k \in Nat /\ n - 1 \in 0 .. CacheN /\ n - 1 \in Nat /\ k - 1 \in Nat /\ CacheN \in Nat
  BY CacheTypes
<1>t. BinCoef(n - 1, k - 1) \in Nat /\ BinCoef(n - 1, k) \in Nat
  BY <1>0, CoefficientTypes
<1>1. CASE k >= n
  <2>1. BinCoef(n, k) = IF k = n THEN 1 ELSE 0
    BY <1>0, <1>1, Edges
  <2>2. BinCoef(n - 1, k - 1) = IF k = n THEN 1 ELSE 0
    <3>1. k - 1 > n - 1 \/ k - 1 = n - 1
      BY <1>0, <1>1
    <3>2. k - 1 = n - 1 <=> k = n
      BY <1>0
    <3> QED BY <1>0, <3>1, <3>2, Edges
  <2>3. BinCoef(n - 1, k) = 0
    BY <1>0, <1>1, Edges
  <2> QED BY <2>1, <2>2, <2>3
<1>2. CASE k < n /\ 2 * k <= n
  <2>1. n \in 2 .. CacheN /\ k \in 1 .. n - 1
    BY <1>0, <1>2
  <2> QED BY <1>2, <2>1, PascalLower
<1>3. CASE k < n /\ ~(2 * k <= n)
  <2> DEFINE m == n - k
  <2>1. n \in 2 .. CacheN /\ m \in 1 .. n - 1 /\ 2 * m <= n /\ k \in 0 .. n
    BY <1>0, <1>3
  <2>2. BinCoef(n, m) = BinCoef(n - 1, m - 1) + BinCoef(n - 1, m)
    <3> HIDE DEF m
    <3> QED BY <2>1, PascalLower
  <2>3. BinCoef(n, k) = BinCoef(n, m)
    BY <2>1, Symmetry
  <2>4. k \in 0 .. n - 1 /\ k - 1 \in 0 .. n - 1 /\ (n - 1) - k = m - 1 /\ (n - 1) - (k - 1) = m
    BY <1>0, <1>3
  <2>5. BinCoef(n - 1, k) = BinCoef(n - 1, m - 1)
    <3>1. BinCoef(n - 1, k) = BinCoef(n - 1, (n - 1) - k)
      BY <1>0, <2>4, Symmetry
    <3> HIDE DEF m
    <3> QED BY <3>1, <2>4
  <2>6. BinCoef(n - 1, k - 1) = BinCoef(n - 1, m)
    <3>1. BinCoef(n - 1, k - 1) = BinCoef(n - 1, (n - 1) - (k - 1))
      BY <1>0, <2>4, Symmetry
    <3> HIDE DEF m
    <3> QED BY <3>1, <2>4
  <2> HIDE DEF m
  <2> QED BY <1>t, <2>2, <2>3, <2>5, <2>6
<1> QED BY <1>0, <1>1, <1>2, <1>3

(* Coefficients grow with n.                                               *)
LEMMA CoefficientGrows ==
  ASSUME NEW m \in 0 .. CacheN, NEW n \in m .. CacheN, NEW k \in Nat
  PROVE  BinCoef(m, k) <= BinCoef(n, k)
<1> DEFINE T == {x \in m .. CacheN : BinCoef(m, k) <= BinCoef(x, k)}
<1>0. m \in Nat /\ CacheN \in Nat /\ m <= CacheN
  BY CacheTypes
<1>1. \A x \in m .. CacheN : BinCoef(x, k) \in Nat
  <2>1. \A x \in m .. CacheN : x \in 0 .. CacheN
    BY <1>0
  <2> QED BY <2>1, CoefficientTypes
<1>2. m \in T
  BY <1>0, <1>1
<1>3. ASSUME NEW x \in m .. CacheN - 1, x \in T PROVE x + 1 \in T
  <2>1. x + 1 \in m .. CacheN /\ x + 1 \in 1 .. CacheN /\ x \in m .. CacheN /\ x \in 0 .. CacheN /\ (x + 1) - 1 = x
    BY <1>0
  <2>2. CASE k = 0
    <3>1. BinCoef(m, k) = 1 /\ BinCoef(x + 1, k) = 1
      BY <1>0, <2>1, <2>2, Edges
    <3> QED BY <2>1, <3>1
  <2>3. CASE k # 0
    <3>1. BinCoef(x + 1, k) = BinCoef((x + 1) - 1, k - 1) + BinCoef((x + 1) - 1, k)
      BY <2>1, <2>3, Pascal
    <3>2. BinCoef(x, k - 1) \in Nat /\ BinCoef(x, k) \in Nat /\ BinCoef(m, k) \in Nat
      <4>1. k - 1 \in Nat
        BY <2>3
      <4>2. m \in 0 .. CacheN
        BY <1>0
      <4> QED BY <2>1, <4>1, <4>2, CoefficientTypes
    <3>3. BinCoef(m, k) <= BinCoef(x, k)
      BY <1>3
    <3> QED BY <2>1, <3>1, <3>2, <3>3
  <2> QED BY <2>2, <2>3
<1>4. m .. CacheN \subseteq T
  <2> HIDE DEF T
  <2> QED BY <1>0, <1>2, <1>3, Induction
<1> QED BY <1>4

(* The closed forms of the first three columns.                            *)
LEMMA ClosedForms ==
  ASSUME NEW n \in 0 .. CacheN
  PROVE  /\ BinCoef(n, 1) = n
         /\ 2 * BinCoef(n, 2) = n * (n - 1)
         /\ 6 * BinCoef(n, 3) = n * (n - 1) * (n - 2)
<1> DEFINE P(x) == /\ BinCoef(x, 1) = x
                   /\ 2 * BinCoef(x, 2) = x * (x - 1)
                   /\ 6 * BinCoef(x, 3) = x * (x - 1) * (x - 2)
           T == {x \in 0 .. CacheN : P(x)}
<1>0. CacheN \in Nat
  BY CacheTypes
<1>1. P(0)
  <2>1. BinCoef(0, 1) = 0 /\ BinCoef(0, 2) = 0 /\ BinCoef(0, 3) = 0
    BY Edges
  <2> QED BY <2>1
<1>2. ASSUME NEW x \in 0 .. CacheN - 1, P(x) PROVE P(x + 1)
  <2>1. x + 1 \in 1 .. CacheN /\ (x + 1) - 1 = x /\ x \in 0 .. CacheN /\ x \in Nat
    BY <1>0
  <2>2. /\ BinCoef(x + 1, 1) = BinCoef(x, 0) + BinCoef(x, 1)
        /\ BinCoef(x + 1, 2) = BinCoef(x, 1) + BinCoef(x, 2)
        /\ BinCoef(x + 1, 3) = BinCoef(x, 2) + BinCoef(x, 3)
    <3>1. ASSUME NEW k \in {1, 2, 3} PROVE BinCoef(x + 1, k) = BinCoef(x, k - 1) + BinCoef(x, k)
      <4>1. BinCoef(x + 1, k) = BinCoef((x + 1) - 1, k - 1) + BinCoef((x + 1) - 1, k)
        BY <2>1, Pascal
      <4> QED BY <2>1, <4>1
    <3> QED BY <3>1
  <2>3. BinCoef(x, 0) = 1 /\ BinCoef(x, 1) = x
    BY <1>2, <2>1, Edges
  <2>4. PICK b \in Nat : b = BinCoef(x, 2)
    BY <2>1, CoefficientTypes
  <2>5. PICK c \in Nat : c = BinCoef(x, 3)
    BY <2>1, CoefficientTypes
  <2>6. 2 * b = x * (x - 1) /\ 6 * c = x * (x - 1) * (x - 2)
    BY <1>2, <2>4, <2>5
  <2>7. 2 * (x + b) = (x + 1) * x
    BY <2>1, <2>6
  <2>8. 6 * (b + c) = (x + 1) * x * (x - 1)
    <3>1. 6 * (b + c) = 3 * (x * (x - 1)) + x * (x - 1) * (x - 2)
      BY <2>1, <2>6
    <3>2. 3 * (x * (x - 1)) + x * (x - 1) * (x - 2) = (x * (x - 1)) * (3 + (x - 2))
      BY <2>1
    <3>3. (x * (x - 1)) * (3 + (x - 2)) = (x + 1) * x * (x - 1)
      BY <2>1
    <3> QED BY <2>1, <3>1, <3>2, <3>3
  <2>9. (x + 1) - 2 = x - 1
    BY <2>1
  <2> QED BY <2>1, <2>2, <2>3, <2>4, <2>5, <2>7, <2>8, <2>9
<1>3. 0 .. CacheN \subseteq T
  <2>1. 0 \in T
    BY <1>0, <1>1
  <2>2. ASSUME NEW x \in 0 .. CacheN - 1, x \in T PROVE x + 1 \in T
    <3>1. x + 1 \in 0 .. CacheN
      BY <1>0
    <3>2. P(x)
      BY <2>2
    <3>3. P(x + 1)
      <4> HIDE DEF P
      <4> QED BY <1>2, <3>2
    <3> QED BY <3>1, <3>3
  <2> HIDE DEF T
  <2> QED BY <1>0, <2>1, <2>2, Induction
<1> QED BY <1>3

-----------------------------------------------------------------------------
(* util.go: the list of a set.                                             *)

(* How many elements of S are below x.                                     *)
Below(S, x) == {y \in S : y < x}

(* A greater element has more of them below it.                            *)
LEMMA BelowGrows ==
  ASSUME NEW S \in SUBSET Int, IsFiniteSet(S), NEW x \in S
  PROVE  /\ IsFiniteSet(Below(S, x))
         /\ Cardinality(Below(S, x)) \in 0 .. Cardinality(S) - 1
         /\ \A z \in S : x < z => Cardinality(Below(S, x)) < Cardinality(Below(S, z))
<1>1. ASSUME NEW z \in S
      PROVE  /\ IsFiniteSet(Below(S, z)) /\ Cardinality(Below(S, z)) \in Nat
             /\ z \notin Below(S, z)
  <2>1. Below(S, z) \in SUBSET S /\ z \notin Below(S, z)
    BY DEF Below
  <2> QED BY <2>1, FS_Subset, FS_CardinalityType
<1>2. IsFiniteSet(Below(S, x) \cup {x}) /\ Cardinality(Below(S, x) \cup {x}) = Cardinality(Below(S, x)) + 1
  BY <1>1, FS_AddElement
<1>3. Below(S, x) \cup {x} \in SUBSET S
  BY DEF Below
<1>4. Cardinality(Below(S, x)) + 1 <= Cardinality(S) /\ Cardinality(S) \in Nat
  BY <1>2, <1>3, FS_Subset, FS_CardinalityType
<1>5. ASSUME NEW z \in S, x < z PROVE Cardinality(Below(S, x)) < Cardinality(Below(S, z))
  <2>0. \A y \in S : y \in Int
    OBVIOUS
  <2>1. Below(S, x) \cup {x} \in SUBSET Below(S, z)
    <3>1. ASSUME NEW y \in S, y < x PROVE y < z
      BY <1>5, <2>0, <3>1
    <3> QED BY <1>5, <3>1 DEF Below
  <2>2. Cardinality(Below(S, x)) + 1 <= Cardinality(Below(S, z))
    BY <1>1, <1>2, <2>1, FS_Subset
  <2> QED BY <1>1, <2>2
<1> QED BY <1>1, <1>4, <1>5

(* Each place of the list is that of the element with so many below it.    *)
LEMMA IndexSetPlace ==
  ASSUME NEW S \in SUBSET Int, IsFiniteSet(S), NEW i \in 1 .. Cardinality(S)
  PROVE  IndexSet(S)[i] \in S /\ Cardinality(Below(S, IndexSet(S)[i])) = i - 1
<1> DEFINE m == Cardinality(S)
           below == [x \in S |-> Cardinality(Below(S, x))]
<1>1. m \in Nat
  BY FS_CardinalityType
<1>2. IsFiniteSet(0 .. m - 1) /\ Cardinality(0 .. m - 1) = m
  <2>1. 0 \in Int /\ m - 1 \in Int /\ (m = 0 \/ m > 0)
    BY <1>1
  <2> HIDE DEF m
  <2> QED BY <1>1, <2>1, FS_Interval
<1>3. below \in [S -> 0 .. m - 1]
  BY BelowGrows
<1>4. ASSUME NEW x \in S, NEW z \in S, below[x] = below[z] PROVE x = z
  <2>1. x \in Int /\ z \in Int
    OBVIOUS
  <2>2. Cardinality(Below(S, x)) \in Int /\ Cardinality(Below(S, x)) = Cardinality(Below(S, z))
    BY <1>4, BelowGrows
  <2>3. ~(x < z) /\ ~(z < x)
    BY <2>2, BelowGrows
  <2> QED BY <2>1, <2>3
<1>5. below \in Surjection(S, 0 .. m - 1)
  <2>1. below \in Injection(S, 0 .. m - 1)
    BY <1>3, <1>4, Fun_IsInj
  <2> QED BY <1>2, <2>1, FS_Injection
<1>6. i - 1 \in 0 .. m - 1
  BY <1>1
<1>7. \E x \in S : below[x] = i - 1
  <2> HIDE DEF below
  <2> QED BY <1>5, <1>6 DEF Surjection
<1>8. \E x \in S : Cardinality({y \in S : y < x}) = i - 1
  BY <1>7 DEF Below
<1>9. IndexSet(S)[i] = CHOOSE x \in S : Cardinality({y \in S : y < x}) = i - 1
  BY DEF IndexSet
<1> QED BY <1>8, <1>9 DEF Below

(* util.go, GetIndexSet: every element of the set once, in ascending order. *)
LEMMA IndexSetAscends ==
  ASSUME NEW S \in SUBSET Int, IsFiniteSet(S)
  PROVE  /\ IndexSet(S) \in Seq(S) /\ Len(IndexSet(S)) = Cardinality(S)
         /\ \A x \in S : \E i \in 1 .. Cardinality(S) : IndexSet(S)[i] = x
         /\ \A i, j \in 1 .. Cardinality(S) : i < j => IndexSet(S)[i] < IndexSet(S)[j]
<1> DEFINE m == Cardinality(S)
           below == [x \in S |-> Cardinality(Below(S, x))]
<1>1. m \in Nat
  BY FS_CardinalityType
<1>2. ASSUME NEW x \in S, NEW z \in S, below[x] = below[z] PROVE x = z
  <2>1. x \in Int /\ z \in Int
    OBVIOUS
  <2>2. Cardinality(Below(S, x)) \in Int /\ Cardinality(Below(S, x)) = Cardinality(Below(S, z))
    BY <1>2, BelowGrows
  <2>3. ~(x < z) /\ ~(z < x)
    BY <2>2, BelowGrows
  <2> QED BY <2>1, <2>3
<1>3. ASSUME NEW i \in 1 .. m
      PROVE  IndexSet(S)[i] \in S /\ Cardinality(Below(S, IndexSet(S)[i])) = i - 1
  BY IndexSetPlace
<1>4. IndexSet(S) \in Seq(S) /\ Len(IndexSet(S)) = m
  <2>1. IndexSet(S) \in [1 .. m -> S]
    BY <1>3 DEF IndexSet
  <2> QED BY <1>1, <2>1
<1>5. ASSUME NEW x \in S PROVE \E i \in 1 .. m : IndexSet(S)[i] = x
  <2>1. Cardinality(Below(S, x)) + 1 \in 1 .. m
    BY <1>1, BelowGrows
  <2>2. PICK i \in 1 .. m : i = Cardinality(Below(S, x)) + 1
    BY <2>1
  <2>3. below[IndexSet(S)[i]] = below[x] /\ IndexSet(S)[i] \in S
    BY <1>1, <1>3, <2>2, BelowGrows
  <2> QED BY <1>2, <2>3
<1>6. ASSUME NEW i \in 1 .. m, NEW j \in 1 .. m, i < j PROVE IndexSet(S)[i] < IndexSet(S)[j]
  <2>1. /\ IndexSet(S)[i] \in S /\ IndexSet(S)[j] \in S
        /\ Cardinality(Below(S, IndexSet(S)[i])) < Cardinality(Below(S, IndexSet(S)[j]))
    BY <1>1, <1>3, <1>6
  <2>2. IndexSet(S)[i] \in Int /\ IndexSet(S)[j] \in Int
    BY <2>1
  <2>3. ASSUME IndexSet(S)[j] < IndexSet(S)[i] PROVE FALSE
    <3>1. Cardinality(Below(S, IndexSet(S)[j])) < Cardinality(Below(S, IndexSet(S)[i]))
      BY <2>1, <2>3, BelowGrows
    <3> QED BY <1>1, <1>3, <1>6, <3>1
  <2>4. IndexSet(S)[i] # IndexSet(S)[j]
    BY <1>1, <1>3, <1>6
  <2> QED BY <2>2, <2>3, <2>4
<1> QED BY <1>4, <1>5, <1>6

(* p lists the m elements of S in ascending order.                         *)
Lists(p, m, S) ==
  /\ p \in [1 .. m -> S]
  /\ \A x \in S : \E i \in 1 .. m : p[i] = x
  /\ \A i, j \in 1 .. m : i < j => p[i] < p[j]

(* There is only one such list.                                            *)
LEMMA OneList ==
  ASSUME NEW S \in SUBSET Int, NEW m \in Nat, NEW p, NEW q, Lists(p, m, S), Lists(q, m, S)
  PROVE  p = q
<1> DEFINE T == {i \in 0 .. m : \A j \in 1 .. i : p[j] = q[j]}
<1>1. ASSUME NEW a, NEW b, Lists(a, m, S), Lists(b, m, S), NEW i \in 1 .. m, \A j \in 1 .. i - 1 : a[j] = b[j]
      PROVE  a[i] \in Int /\ b[i] \in Int /\ b[i] <= a[i]
  <2>1. a[i] \in S /\ b[i] \in S /\ a[i] \in Int /\ b[i] \in Int
    BY <1>1 DEF Lists
  <2>2. PICK j \in 1 .. m : b[j] = a[i]
    BY <1>1, <2>1 DEF Lists
  <2>3. CASE j < i
    <3>1. j \in 1 .. i - 1
      BY <2>3
    <3>2. a[j] = a[i]
      BY <1>1, <2>2, <3>1
    <3>3. a[j] < a[i]
      BY <1>1, <2>3 DEF Lists
    <3> QED BY <2>1, <3>2, <3>3
  <2>4. CASE j = i
    BY <2>1, <2>2, <2>4
  <2>5. CASE j > i
    <3>1. b[i] < b[j]
      BY <1>1, <2>5 DEF Lists
    <3> QED BY <2>1, <2>2, <3>1
  <2> QED BY <2>3, <2>4, <2>5
<1>2. 0 \in T
  OBVIOUS
<1>3. ASSUME NEW i \in 0 .. m - 1, i \in T PROVE i + 1 \in T
  <2>1. i + 1 \in 1 .. m /\ (i + 1) - 1 = i /\ \A j \in 1 .. i : p[j] = q[j]
    BY <1>3
  <2>2. p[i + 1] \in Int /\ q[i + 1] \in Int /\ q[i + 1] <= p[i + 1]
    <3>1. \A j \in 1 .. (i + 1) - 1 : p[j] = q[j]
      BY <2>1
    <3> QED BY <1>1, <2>1, <3>1
  <2>3. p[i + 1] <= q[i + 1]
    <3>1. \A j \in 1 .. (i + 1) - 1 : q[j] = p[j]
      BY <2>1
    <3> QED BY <1>1, <2>1, <3>1
  <2>4. p[i + 1] = q[i + 1]
    BY <2>2, <2>3
  <2>5. \A j \in 1 .. i + 1 : j \in 1 .. i \/ j = i + 1
    BY <2>1
  <2> QED BY <2>1, <2>4, <2>5
<1>4. 0 .. m \subseteq T
  <2>1. 0 \in Int /\ m \in Int
    OBVIOUS
  <2> HIDE DEF T
  <2> QED BY <1>2, <1>3, <2>1, Induction
<1>5. \A j \in 1 .. m : p[j] = q[j]
  <2>1. m \in T
    <3> HIDE DEF T
    <3> QED BY <1>4
  <2> QED BY <2>1
<1> QED BY <1>5 DEF Lists

(* Any such list of S is the one GetIndexSet makes.                        *)
LEMMA IndexSetIs ==
  ASSUME NEW S \in SUBSET Int, NEW m \in Nat, NEW q, Lists(q, m, S)
  PROVE  IsFiniteSet(S) /\ Cardinality(S) = m /\ IndexSet(S) = q
<1>1. IsFiniteSet(S) /\ Cardinality(S) = m
  <2>1. q \in Bijection(1 .. m, S)
    <3>1. q \in [1 .. m -> S] /\ \A x \in S : \E i \in 1 .. m : q[i] = x
      BY DEF Lists
    <3>2. ASSUME NEW i \in 1 .. m, NEW j \in 1 .. m, q[i] = q[j] PROVE i = j
      <4>1. q[i] \in Int /\ q[j] \in Int
        BY <3>1
      <4>2. ~(i < j) /\ ~(j < i)
        BY <3>2, <4>1 DEF Lists
      <4> QED BY <4>2
    <3>3. q \in Injection(1 .. m, S)
      BY <3>1, <3>2, Fun_IsInj
    <3>4. q \in Surjection(1 .. m, S)
      BY <3>1, Fun_IsSurj
    <3> QED BY <3>3, <3>4 DEF Bijection
  <2>2. IsFiniteSet(1 .. m) /\ Cardinality(1 .. m) = m
    BY FS_Interval
  <2>3. IsFiniteSet(S)
    BY <2>1, <2>2, FS_Surjection DEF Bijection
  <2>4. Cardinality(1 .. m) = Cardinality(S)
    BY <2>1, <2>2, FS_Surjection DEF Bijection
  <2> QED BY <2>2, <2>3, <2>4
<1>2. Lists(IndexSet(S), m, S)
  <2>1. IndexSet(S) \in Seq(S) /\ Len(IndexSet(S)) = m
    BY <1>1, IndexSetAscends
  <2>2. IndexSet(S) \in [1 .. m -> S]
    BY <2>1
  <2> QED BY <1>1, <2>2, IndexSetAscends DEF Lists
<1> QED BY <1>1, <1>2, OneList

(* Positions of a universe of size u, in ascending order.                  *)
Ascending(p, u) ==
  /\ p \in Seq(0 .. u - 1)
  /\ \A i, j \in 1 .. Len(p) : i < j => p[i] < p[j]

(* GetIndexSet of a set of positions of a universe.                        *)
LEMMA IndexSetLists ==
  ASSUME NEW u \in Nat, NEW S \in SUBSET (0 .. u - 1)
  PROVE  /\ IsFiniteSet(S) /\ Cardinality(S) \in Nat
         /\ Len(IndexSet(S)) = Cardinality(S)
         /\ Ascending(IndexSet(S), u)
         /\ Lists(IndexSet(S), Cardinality(S), S)
<1>1. IsFiniteSet(S) /\ Cardinality(S) \in Nat /\ S \in SUBSET Int
  <2>1. IsFiniteSet(0 .. u - 1)
    BY FS_Interval
  <2>2. IsFiniteSet(S)
    BY <2>1, FS_Subset
  <2>3. S \in SUBSET Int
    OBVIOUS
  <2> QED BY <2>2, <2>3, FS_CardinalityType
<1>2. /\ IndexSet(S) \in Seq(S) /\ Len(IndexSet(S)) = Cardinality(S)
      /\ \A x \in S : \E i \in 1 .. Cardinality(S) : IndexSet(S)[i] = x
      /\ \A i, j \in 1 .. Cardinality(S) : i < j => IndexSet(S)[i] < IndexSet(S)[j]
  BY <1>1, IndexSetAscends
<1>3. IndexSet(S) \in [1 .. Cardinality(S) -> S]
  BY <1>2
<1>4. IndexSet(S) \in Seq(0 .. u - 1)
  <2>1. IndexSet(S) \in [1 .. Cardinality(S) -> 0 .. u - 1]
    BY <1>3
  <2> QED BY <1>1, <2>1
<1> QED BY <1>1, <1>2, <1>3, <1>4 DEF Ascending, Lists

(* A list of positions of a universe, as GetIndexSet makes them.           *)
LEMMA ListAscends ==
  ASSUME NEW u \in Nat, NEW S \in SUBSET (0 .. u - 1), NEW m \in Nat, NEW p, Lists(p, m, S)
  PROVE  Ascending(p, u) /\ Len(p) = m
<1>1. p \in [1 .. m -> 0 .. u - 1]
  <2>1. p \in [1 .. m -> S]
    BY DEF Lists
  <2> QED BY <2>1
<1>2. p \in Seq(0 .. u - 1) /\ Len(p) = m
  BY <1>1
<1> QED BY <1>2 DEF Ascending, Lists

(* What the list of a set of positions consists of.                        *)
LEMMA ListTypes ==
  ASSUME NEW u \in Nat, NEW S \in SUBSET (0 .. u - 1), NEW m \in Nat, NEW p, Lists(p, m, S)
  PROVE  \A i \in 1 .. m : p[i] \in S /\ p[i] \in Nat /\ p[i] < u
<1>1. p \in [1 .. m -> S]
  BY DEF Lists
<1>2. \A i \in 1 .. m : p[i] \in S
  BY <1>1
<1>3. \A y \in S : y \in Nat /\ y < u
  OBVIOUS
<1> QED BY <1>2, <1>3

-----------------------------------------------------------------------------
(* The sums of the coefficients of ascending positions.                    *)

(* W[i] is the sum of the coefficients of the first i positions.           *)
Sums(p, W) ==
  /\ W \in [0 .. Len(p) -> Nat] /\ W[0] = 0
  /\ \A i \in 1 .. Len(p) : W[i] = W[i - 1] + BinCoef(p[i], i)

(* Positions and their coefficients are numbers, and every position is at  *)
(* least its index in a slice of Go.                                       *)
LEMMA PositionTypes ==
  ASSUME NEW u \in 0 .. CacheN, NEW p, Ascending(p, u)
  PROVE  /\ Len(p) \in Nat /\ u \in Nat /\ CacheN \in Nat /\ u <= CacheN
         /\ \A i \in 1 .. Len(p) : /\ i \in Nat /\ p[i] \in Nat /\ p[i] < u /\ p[i] \in 0 .. CacheN
                                   /\ p[i] + 1 \in 0 .. CacheN /\ i - 1 <= p[i] /\ BinCoef(p[i], i) \in Nat
<1>1. Len(p) \in Nat /\ u \in Nat /\ CacheN \in Nat /\ u <= CacheN
  BY CacheTypes DEF Ascending
<1>2. \A i \in 1 .. Len(p) : p[i] \in 0 .. u - 1 /\ i \in Nat
  <2>1. p \in Seq(0 .. u - 1)
    BY DEF Ascending
  <2> QED BY <2>1, <1>1
<1> DEFINE T == {i \in 1 .. Len(p) : i - 1 <= p[i]}
<1>3. 1 .. Len(p) \subseteq T
  <2>1. 1 <= Len(p) => 1 \in T
    BY <1>1, <1>2
  <2>2. ASSUME NEW i \in 1 .. Len(p) - 1, i \in T PROVE i + 1 \in T
    <3>1. i \in 1 .. Len(p) /\ i + 1 \in 1 .. Len(p) /\ i < i + 1
      BY <1>1
    <3>2. p[i] < p[i + 1]
      BY <3>1 DEF Ascending
    <3>3. p[i] \in Int /\ p[i + 1] \in Int /\ i - 1 <= p[i]
      BY <1>2, <2>2, <3>1
    <3> QED BY <3>1, <3>2, <3>3
  <2> DEFINE l == Len(p)
  <2>3. l \in Int /\ 1 \in Int /\ (1 <= l => 1 \in T) /\ \A x \in 1 .. l - 1 : x \in T => x + 1 \in T
    BY <1>1, <2>1, <2>2
  <2>4. 1 .. l \subseteq T
    <3> HIDE DEF T, l
    <3> QED BY <2>3, Induction
  <2> QED BY <2>4
<1>4. ASSUME NEW i \in 1 .. Len(p) PROVE BinCoef(p[i], i) \in Nat /\ p[i] \in 0 .. CacheN /\ p[i] + 1 \in 0 .. CacheN
  <2>1. p[i] \in 0 .. CacheN /\ i \in Nat /\ p[i] + 1 \in 0 .. CacheN
    BY <1>1, <1>2
  <2> QED BY <2>1, CoefficientTypes
<1>5. ASSUME NEW i \in 1 .. Len(p) PROVE i \in Nat /\ p[i] \in Nat /\ p[i] < u /\ i - 1 <= p[i]
  BY <1>1, <1>2, <1>3
<1> QED BY <1>1, <1>4, <1>5

(* There are such sums.                                                    *)
LEMMA SumsExist ==
  ASSUME NEW u \in 0 .. CacheN, NEW p, Ascending(p, u)
  PROVE  \E W : Sums(p, W)
<1> DEFINE l == Len(p)
           V == [x \in 0 .. l |-> Nat]
           G == [x \in 0 .. l |-> [v \in Nat |-> v + BinCoef(p[x], x)]]
<1>1. l \in Nat /\ \A x \in 1 .. l : BinCoef(p[x], x) \in Nat
  BY PositionTypes
<1>2. /\ \A x \in 0 .. l : V[x] = Nat
      /\ \A x \in 0 .. l : \A v \in Nat : G[x][v] = v + BinCoef(p[x], x)
  OBVIOUS
<1>3. PICK g : Follows(g, 0, l, 0, G) /\ \A x \in 0 .. l : g[x] \in V[x]
  <2> HIDE DEF l, V, G
  <2>1. 0 \in V[0] /\ 0 \in Int /\ l \in Int
    BY <1>1, <1>2
  <2>2. ASSUME NEW x \in 0 + 1 .. l, NEW v \in V[x - 1] PROVE G[x][v] \in V[x]
    <3>1. x \in 0 .. l /\ x - 1 \in 0 .. l /\ x \in 1 .. l
      BY <1>1
    <3>2. v \in Nat /\ G[x][v] = v + BinCoef(p[x], x) /\ BinCoef(p[x], x) \in Nat /\ V[x] = Nat
      BY <1>1, <1>2, <3>1
    <3> QED BY <3>2
  <2> QED BY <2>1, <2>2, Recursion
<1>4. ASSUME NEW x \in 1 .. l PROVE g[x] = g[x - 1] + BinCoef(p[x], x)
  <2> HIDE DEF G, V, l
  <2>1. x \in 0 .. l /\ x - 1 \in 0 .. l /\ x # 0
    BY <1>1
  <2>2. g[x] = G[x][g[x - 1]]
    BY <1>3, <2>1 DEF Follows
  <2>3. g[x - 1] \in Nat
    BY <1>2, <1>3, <2>1
  <2> QED BY <1>2, <2>1, <2>2, <2>3
<1>5. g \in [0 .. l -> Nat] /\ g[0] = 0
  <2>1. g = [x \in 0 .. l |-> g[x]]
    BY <1>3 DEF Follows
  <2>2. g[0] = 0
    <3> HIDE DEF G, V, l
    <3>1. 0 \in 0 .. l
      BY <1>1
    <3> QED BY <1>3, <3>1 DEF Follows
  <2> HIDE DEF G, l
  <2> QED BY <1>2, <1>3, <2>1, <2>2
<1> QED BY <1>4, <1>5 DEF Sums

(* They stay below the next coefficient.                                   *)
LEMMA SumsBelow ==
  ASSUME NEW u \in 0 .. CacheN, NEW p, Ascending(p, u), NEW W, Sums(p, W)
  PROVE  \A i \in 1 .. Len(p) : W[i] \in Nat /\ W[i] < BinCoef(p[i] + 1, i)
<1> DEFINE T == {i \in 1 .. Len(p) : W[i] < BinCoef(p[i] + 1, i)}
<1>1. /\ Len(p) \in Nat /\ \A i \in 0 .. Len(p) : W[i] \in Nat
      /\ \A i \in 1 .. Len(p) : W[i] = W[i - 1] + BinCoef(p[i], i)
  BY PositionTypes DEF Sums
<1>2. 1 <= Len(p) => 1 \in T
  <2> SUFFICES ASSUME 1 <= Len(p) PROVE W[1] < BinCoef(p[1] + 1, 1)
    BY <1>1
  <2>1. 1 \in 1 .. Len(p) /\ 1 - 1 = 0
    BY <1>1
  <2>2. p[1] \in Nat /\ p[1] \in 0 .. CacheN /\ p[1] + 1 \in 0 .. CacheN
    BY <2>1, PositionTypes
  <2>3. BinCoef(p[1], 1) = p[1] /\ BinCoef(p[1] + 1, 1) = p[1] + 1
    BY <2>2, ClosedForms
  <2>4. W[1] = W[0] + BinCoef(p[1], 1) /\ W[0] = 0
    BY <1>1, <2>1 DEF Sums
  <2> QED BY <2>2, <2>3, <2>4
<1>3. ASSUME NEW i \in 1 .. Len(p) - 1, i \in T PROVE i + 1 \in T
  <2>1. i \in 1 .. Len(p) /\ i + 1 \in 1 .. Len(p) /\ i < i + 1 /\ (i + 1) - 1 = i /\ i \in Nat /\ i \in 0 .. Len(p)
    BY <1>1
  <2>2. /\ p[i] \in Nat /\ p[i + 1] \in Nat /\ p[i] + 1 \in 0 .. CacheN /\ p[i + 1] \in 0 .. CacheN
        /\ p[i + 1] + 1 \in 0 .. CacheN
    BY <2>1, PositionTypes
  <2>3. p[i] < p[i + 1]
    BY <2>1 DEF Ascending
  <2>4. p[i + 1] \in p[i] + 1 .. CacheN /\ p[i + 1] + 1 \in 1 .. CacheN /\ (p[i + 1] + 1) - 1 = p[i + 1]
        /\ i + 1 \in Nat \ {0}
    BY <2>1, <2>2, <2>3
  <2>5. BinCoef(p[i] + 1, i) <= BinCoef(p[i + 1], i)
    BY <2>1, <2>2, <2>4, CoefficientGrows
  <2>6. BinCoef(p[i + 1] + 1, i + 1) = BinCoef(p[i + 1], i) + BinCoef(p[i + 1], i + 1)
    <3>1. BinCoef(p[i + 1] + 1, i + 1) = BinCoef((p[i + 1] + 1) - 1, (i + 1) - 1) + BinCoef((p[i + 1] + 1) - 1, i + 1)
      BY <2>4, Pascal
    <3> QED BY <2>1, <2>4, <3>1
  <2>7. /\ BinCoef(p[i] + 1, i) \in Nat /\ BinCoef(p[i + 1], i) \in Nat /\ BinCoef(p[i + 1], i + 1) \in Nat
    BY <2>1, <2>2, <2>4, CoefficientTypes
  <2>8. W[i + 1] = W[i] + BinCoef(p[i + 1], i + 1) /\ W[i] \in Nat /\ W[i] < BinCoef(p[i] + 1, i)
    BY <1>1, <1>3, <2>1
  <2>9. W[i + 1] < BinCoef(p[i + 1] + 1, i + 1)
    BY <2>5, <2>6, <2>7, <2>8
  <2> QED BY <2>1, <2>9
<1>4. 1 .. Len(p) \subseteq T
  <2> DEFINE l == Len(p)
  <2>1. l \in Int /\ 1 \in Int /\ (1 <= l => 1 \in T) /\ \A x \in 1 .. l - 1 : x \in T => x + 1 \in T
    BY <1>1, <1>2, <1>3
  <2>2. 1 .. l \subseteq T
    <3> HIDE DEF T, l
    <3> QED BY <2>1, Induction
  <2> QED BY <2>2
<1>5. \A i \in 1 .. Len(p) : i \in 0 .. Len(p)
  BY <1>1
<1> QED BY <1>1, <1>4, <1>5

(* The sum of a set stays below the number of sets.                        *)
LEMMA SumFits ==
  ASSUME NEW u \in 0 .. CacheN, NEW S \in SUBSET (0 .. u - 1), NEW m \in Nat, NEW p, Lists(p, m, S),
         NEW W, Sums(p, W)
  PROVE  W[m] \in Nat /\ W[m] < BinCoef(u, m)
<1>1. u \in Nat /\ CacheN \in Nat /\ u <= CacheN
  BY CacheTypes
<1>2. Ascending(p, u) /\ Len(p) = m
  BY <1>1, ListAscends
<1>3. CASE m = 0
  <2>1. W[0] = 0
    BY DEF Sums
  <2>2. BinCoef(u, 0) = 1
    BY <1>1, Edges
  <2> QED BY <1>3, <2>1, <2>2
<1>4. CASE m # 0
  <2>1. m \in 1 .. Len(p)
    BY <1>2, <1>4
  <2>2. W[m] \in Nat /\ W[m] < BinCoef(p[m] + 1, m)
    BY <1>2, <2>1, SumsBelow
  <2>3. p[m] + 1 \in 0 .. CacheN /\ p[m] < u /\ p[m] \in Nat
    BY <1>2, <2>1, PositionTypes
  <2>4. u \in p[m] + 1 .. CacheN
    BY <1>1, <2>3
  <2>5. BinCoef(p[m] + 1, m) <= BinCoef(u, m)
    BY <2>3, <2>4, CoefficientGrows
  <2>6. BinCoef(p[m] + 1, m) \in Nat /\ BinCoef(u, m) \in Nat
    BY <2>3, CoefficientTypes
  <2> QED BY <2>2, <2>5, <2>6
<1> QED BY <1>3, <1>4

(* The first r positions follow each other, from c on.                     *)
Consecutive(p, c, r) == \A i \in 1 .. r : p[i] = c + i - 1

(* Their sums, in closed form.                                             *)
HockeySums(W, c, r) == \A i \in 0 .. r : W[i] = BinCoef(c + i, i) - 1

(* The hockey-stick identity.                                              *)
LEMMA RunSum ==
  ASSUME NEW u \in 0 .. CacheN, NEW p, Ascending(p, u), NEW W, Sums(p, W),
         NEW c \in Nat, NEW r \in 0 .. Len(p), c + r <= CacheN,
         Consecutive(p, c, r)
  PROVE  HockeySums(W, c, r)
<1> DEFINE T == {i \in 0 .. r : W[i] = BinCoef(c + i, i) - 1}
<1>1. /\ Len(p) \in Nat /\ \A i \in 0 .. Len(p) : W[i] \in Nat /\ W[0] = 0
      /\ \A i \in 1 .. Len(p) : W[i] = W[i - 1] + BinCoef(p[i], i)
      /\ r \in Nat /\ r <= Len(p) /\ CacheN \in Nat
  BY PositionTypes DEF Sums
<1>2. 0 \in T
  <2>1. BinCoef(c + 0, 0) = 1
    BY Edges
  <2> QED BY <1>1, <2>1
<1>3. ASSUME NEW i \in 0 .. r - 1, i \in T PROVE i + 1 \in T
  <2>1. /\ i + 1 \in 1 .. r /\ i + 1 \in 1 .. Len(p) /\ (i + 1) - 1 = i /\ i \in Nat /\ i \in 0 .. r
        /\ c + i \in 0 .. CacheN /\ c + (i + 1) \in 1 .. CacheN /\ (c + (i + 1)) - 1 = c + i /\ i + 1 \in Nat \ {0}
        /\ i + 1 \in 0 .. r
    BY <1>1
  <2>2. p[i + 1] = c + i
    <3>1. p[i + 1] = c + (i + 1) - 1
      BY <2>1 DEF Consecutive
    <3> QED BY <2>1, <3>1
  <2>3. W[i + 1] = W[i] + BinCoef(c + i, i + 1)
    BY <1>1, <2>1, <2>2
  <2>4. BinCoef(c + (i + 1), i + 1) = BinCoef(c + i, i) + BinCoef(c + i, i + 1)
    <3>1. BinCoef(c + (i + 1), i + 1) = BinCoef((c + (i + 1)) - 1, (i + 1) - 1) + BinCoef((c + (i + 1)) - 1, i + 1)
      BY <2>1, Pascal
    <3> QED BY <2>1, <3>1
  <2>5. BinCoef(c + i, i) \in Nat /\ BinCoef(c + i, i + 1) \in Nat
    BY <2>1, CoefficientTypes
  <2>6. W[i] = BinCoef(c + i, i) - 1
    BY <1>3
  <2> QED BY <2>1, <2>3, <2>4, <2>5, <2>6
<1>4. 0 .. r \subseteq T
  <2>1. r \in Int /\ 0 \in Int /\ (0 <= r => 0 \in T) /\ \A x \in 0 .. r - 1 : x \in T => x + 1 \in T
    BY <1>1, <1>2, <1>3
  <2> HIDE DEF T
  <2> QED BY <2>1, Induction
<1> QED BY <1>4 DEF HockeySums

-----------------------------------------------------------------------------
(* compressor.go: the rank is the last of these sums.                      *)

(* Products of greater numbers are greater.                                *)
LEMMA ProductGrows ==
  ASSUME NEW a \in Nat, NEW b \in Nat, NEW c \in Nat, NEW d \in Nat, a <= c, b <= d
  PROVE  a * b \in Nat /\ a * b <= c * d
<1>1. a * b <= c * b
  OBVIOUS
<1>2. c * b <= c * d
  OBVIOUS
<1> QED BY <1>1, <1>2

(* The products of the closed forms fit in a word.                         *)
LEMMA ProductsFit ==
  ASSUME NEW u \in Nat \ {0}, NEW x \in 0 .. u - 1
  PROVE  /\ x * (x - 1) < u * u * u /\ u * u <= u * u * u
         /\ x >= 1 => x * (x - 1) \in Nat /\ (x + 1) * x \in Nat /\ (x + 1) * x <= u * u
         /\ x >= 2 => /\ x * (x - 1) * (x - 2) \in Nat /\ x * (x - 1) * (x - 2) < u * u * u
                      /\ (x + 1) * x * (x - 1) \in Nat /\ (x + 1) * x * (x - 1) <= u * u * u
<1>0. u \in Nat /\ u >= 1 /\ x \in Nat /\ x + 1 <= u /\ u * u \in Nat /\ u * u >= 1 /\ u * u * u \in Nat
  <2>1. u \in Nat /\ 1 \in Nat /\ u >= 1
    OBVIOUS
  <2>2. u * u \in Nat /\ 1 * 1 <= u * u
    BY <2>1, ProductGrows
  <2>3. (u * u) * u \in Nat
    BY <2>1, <2>2, ProductGrows
  <2> QED BY <2>1, <2>2, <2>3
<1>1. u * u <= u * u * u
  <2>1. (u * u) * 1 <= (u * u) * u
    BY <1>0, ProductGrows
  <2> QED BY <1>0, <2>1
<1>2. ASSUME x >= 1 PROVE x * (x - 1) \in Nat /\ (x + 1) * x \in Nat /\ (x + 1) * x <= u * u /\ x * (x - 1) < u * u
  <2>1. x - 1 \in Nat /\ x + 1 \in Nat /\ x <= u /\ x - 1 <= u
    BY <1>0, <1>2
  <2>2. x * (x - 1) \in Nat
    BY <1>0, <2>1, ProductGrows
  <2>3. (x + 1) * x \in Nat /\ (x + 1) * x <= u * u
    BY <1>0, <2>1, ProductGrows
  <2>4. x * (x - 1) < (x + 1) * x
    <3>1. (x + 1) * x = x * (x - 1) + 2 * x
      BY <1>0
    <3> QED BY <1>0, <1>2, <2>2, <3>1
  <2> QED BY <1>0, <2>2, <2>3, <2>4
<1>3. x * (x - 1) < u * u * u
  <2>1. CASE x = 0
    BY <1>0, <1>1, <2>1
  <2>2. CASE x >= 1
    BY <1>0, <1>1, <1>2, <2>2
  <2> QED BY <1>0, <2>1, <2>2
<1>4. ASSUME x >= 2
      PROVE  /\ x * (x - 1) * (x - 2) \in Nat /\ x * (x - 1) * (x - 2) < u * u * u
             /\ (x + 1) * x * (x - 1) \in Nat /\ (x + 1) * x * (x - 1) <= u * u * u
  <2>1. x >= 1 /\ x - 1 \in Nat /\ x - 2 \in Nat /\ x - 1 <= u /\ x - 2 <= u
    BY <1>0, <1>4
  <2>2. ((x + 1) * x) * (x - 1) \in Nat /\ ((x + 1) * x) * (x - 1) <= (u * u) * u
    BY <1>0, <1>2, <2>1, ProductGrows
  <2>3. (x * (x - 1)) * (x - 2) \in Nat
    BY <1>0, <1>2, <2>1, ProductGrows
  <2>4. (x * (x - 1)) * (x - 2) < ((x + 1) * x) * (x - 1)
    <3> DEFINE y == x * (x - 1)
    <3>1. ((x + 1) * x) * (x - 1) = (x + 1) * y
      BY <1>0
    <3>2. y \in Nat /\ y >= 1
      <4>1. 1 * 1 <= x * (x - 1)
        <5>1. 1 <= x /\ 1 <= x - 1 /\ 1 \in Nat
          BY <1>0, <1>4
        <5> QED BY <1>0, <2>1, <5>1, ProductGrows
      <4> QED BY <1>2, <2>1, <4>1
    <3>3. y * (x - 2) < (x + 1) * y
      <4> HIDE DEF y
      <4>1. (x + 1) * y = y * (x - 2) + 3 * y
        BY <1>0, <3>2
      <4>2. y * (x - 2) \in Nat
        BY <2>1, <3>2, ProductGrows
      <4> QED BY <3>2, <4>1, <4>2
    <3> QED BY <3>1, <3>3
  <2> QED BY <1>0, <2>2, <2>3, <2>4
<1> QED BY <1>1, <1>2, <1>3, <1>4

(* A machine word counts its values.                                       *)
LEMMA WordType == Word \in Int
BY CacheTypes DEF Word

(* The remainder of a number below the modulus.                            *)
LEMMA Within ==
  ASSUME NEW m \in Int, NEW a \in Nat, a < m
  PROVE  a % m = a
OBVIOUS

(* The products of the closed forms stay below a word.                     *)
WordHolds(u) == u * u * u <= Word

(* Every accumulator holds the sum so far, whatever its kind.              *)
LEMMA AccumulatedSum ==
  ASSUME NEW u \in 0 .. CacheN, NEW p, Ascending(p, u), NEW W, Sums(p, W),
         Len(p) >= 3, Seed3(p) = W[3]
  PROVE  Accumulated(p)[Len(p)].val = W[Len(p)]
<1> DEFINE l == Len(p)
           V == [x \in 3 .. l |-> {[big |-> b, val |-> W[x]] : b \in BOOLEAN}]
           term == [x \in 3 .. l |-> BinCoef(p[x], x)]
           G == [x \in 3 .. l |-> [v \in V[x - 1] |-> Added(v, BinCoef(p[x], x))]]
           c == [big |-> FALSE, val |-> Seed3(p)]
<1>1. /\ l \in Nat /\ l >= 3 /\ \A x \in 3 .. l : x \in 1 .. l /\ x \in 0 .. l
      /\ \A x \in 0 .. l : W[x] \in Nat
      /\ \A x \in 1 .. l : W[x] = W[x - 1] + BinCoef(p[x], x) /\ BinCoef(p[x], x) \in Nat
  <2>1. l \in Nat /\ \A x \in 1 .. l : BinCoef(p[x], x) \in Nat
    BY PositionTypes
  <2>2. l >= 3 /\ \A x \in 3 .. l : x \in 1 .. l /\ x \in 0 .. l
    BY <2>1
  <2>3. (\A x \in 0 .. l : W[x] \in Nat) /\ \A x \in 1 .. l : W[x] = W[x - 1] + BinCoef(p[x], x)
    BY DEF Sums
  <2> QED BY <2>1, <2>2, <2>3
<1>2. /\ \A x \in 3 .. l : V[x] = {[big |-> b, val |-> W[x]] : b \in BOOLEAN}
      /\ \A x \in 3 .. l : \A v \in V[x - 1] : G[x][v] = Added(v, BinCoef(p[x], x))
  OBVIOUS
<1>3. c \in V[3]
  <2>1. V[3] = {[big |-> b, val |-> W[3]] : b \in BOOLEAN}
    BY <1>1, <1>2
  <2>2. c = [big |-> FALSE, val |-> W[3]] /\ FALSE \in BOOLEAN
    OBVIOUS
  <2> HIDE DEF V, c
  <2> QED BY <2>1, <2>2
<1>4. ASSUME NEW x \in 4 .. l, NEW v \in V[x - 1] PROVE Added(v, BinCoef(p[x], x)) \in V[x]
  <2>1. x \in 3 .. l /\ x - 1 \in 3 .. l /\ x \in 1 .. l /\ x \in 0 .. l /\ x - 1 \in 0 .. l
    BY <1>1
  <2>2. PICK b \in BOOLEAN : v = [big |-> b, val |-> W[x - 1]]
    BY <1>2, <2>1
  <2>3. PICK t \in Nat : t = BinCoef(p[x], x)
    BY <1>1, <2>1
  <2>4. W[x] = W[x - 1] + t /\ W[x - 1] \in Nat /\ W[x] \in Nat
    BY <1>1, <2>1, <2>3
  <2>5. v.big = b /\ v.val = W[x - 1]
    BY <2>2
  <2>6. CASE v.big \/ Overflows(v.val, t)
    <3>1. Added(v, t) = [big |-> TRUE, val |-> W[x]]
      BY <2>4, <2>5, <2>6 DEF Added
    <3>2. [big |-> TRUE, val |-> W[x]] \in V[x]
      BY <1>2, <2>1
    <3> HIDE DEF V
    <3> QED BY <2>3, <3>1, <3>2
  <2>7. CASE ~(v.big \/ Overflows(v.val, t))
    <3>1. v.val + t < Word /\ v.val + t = W[x]
      <4>1. ~(v.val + t >= Word)
        BY <2>7 DEF Overflows
      <4>2. Word \in Int
        BY WordType
      <4> QED BY <2>4, <2>5, <4>1, <4>2
    <3>2. (v.val + t) % Word = W[x]
      <4>1. Word \in Int
        BY WordType
      <4> QED BY <2>4, <3>1, <4>1, Within
    <3>3. Added(v, t) = [big |-> FALSE, val |-> W[x]]
      BY <2>7, <3>2 DEF Added
    <3>4. [big |-> FALSE, val |-> W[x]] \in V[x]
      BY <1>2, <2>1
    <3> HIDE DEF V
    <3> QED BY <2>3, <3>3, <3>4
  <2> QED BY <2>6, <2>7
<1>5. PICK g : Follows(g, 3, l, c, G) /\ \A x \in 3 .. l : g[x] \in V[x]
  <2> HIDE DEF l, V, G, c
  <2>1. 3 \in Int /\ l \in Int
    BY <1>1
  <2>2. ASSUME NEW x \in 3 + 1 .. l, NEW v \in V[x - 1] PROVE G[x][v] \in V[x]
    <3>1. x \in 4 .. l /\ x \in 3 .. l
      BY <1>1
    <3> QED BY <1>2, <1>4, <3>1
  <2> QED BY <1>3, <2>1, <2>2, Recursion
<1>6. \A x \in 3 .. l : g[x] = IF x = 3 THEN c ELSE Added(g[x - 1], BinCoef(p[x], x))
  <2> SUFFICES ASSUME NEW x \in 3 .. l PROVE g[x] = IF x = 3 THEN c ELSE Added(g[x - 1], BinCoef(p[x], x))
    OBVIOUS
  <2> HIDE DEF G, V, l, c
  <2>1. g[x] = IF x = 3 THEN c ELSE G[x][g[x - 1]]
    BY <1>5 DEF Follows
  <2>2. x # 3 => x - 1 \in 3 .. l
    BY <1>1
  <2>3. x # 3 => g[x - 1] \in V[x - 1]
    BY <1>5, <2>2
  <2> QED BY <1>2, <2>1, <2>3
<1>7. g = [i \in 3 .. Len(p) |-> IF i = 3 THEN [big |-> FALSE, val |-> Seed3(p)] ELSE Added(g[i - 1], BinCoef(p[i], i))]
  <2>1. g = [x \in 3 .. l |-> g[x]]
    BY <1>5 DEF Follows
  <2> QED BY <1>6, <2>1
<1>8. Accumulated(p) = [i \in 3 .. Len(p) |-> IF i = 3 THEN [big |-> FALSE, val |-> Seed3(p)]
                                              ELSE Added(Accumulated(p)[i - 1], BinCoef(p[i], i))]
  BY <1>7 DEF Accumulated
<1> DEFINE f == Accumulated(p)
           T == {x \in 3 .. l : f[x] = g[x]}
<1>9. \A x \in 3 .. l : f[x] = IF x = 3 THEN c ELSE Added(f[x - 1], BinCoef(p[x], x))
  <2> HIDE DEF f
  <2> QED BY <1>8 DEF f
<1>10. 3 .. l \subseteq T
  <2>1. 3 <= l => 3 \in T
    <3> HIDE DEF f, c, l
    <3>1. 3 \in 3 .. l
      BY <1>1
    <3> QED BY <1>6, <1>9, <3>1
  <2>2. ASSUME NEW x \in 3 .. l - 1, x \in T PROVE x + 1 \in T
    <3>1. x + 1 \in 3 .. l /\ x + 1 # 3 /\ (x + 1) - 1 = x
      BY <1>1
    <3> HIDE DEF f, l
    <3> QED BY <1>6, <1>9, <2>2, <3>1
  <2>3. l \in Int /\ 3 \in Int
    BY <1>1
  <2> HIDE DEF T, l
  <2> QED BY <2>1, <2>2, <2>3, Induction
<1>11. f[l] = g[l] /\ g[l] \in V[l] /\ l \in 3 .. l
  <2>1. l \in 3 .. l
    BY <1>1
  <2>2. l \in T
    <3> HIDE DEF T, l
    <3> QED BY <1>10, <2>1
  <2>3. f[l] = g[l]
    <3> HIDE DEF f, l
    <3> QED BY <2>2
  <2> HIDE DEF f, l, V
  <2> QED BY <1>5, <2>1, <2>3
<1>12. PICK b \in BOOLEAN : f[l] = [big |-> b, val |-> W[l]]
  <2> HIDE DEF f, l, V
  <2> QED BY <1>2, <1>11
<1>13. f[l].val = W[l]
  <2> HIDE DEF f, l
  <2> QED BY <1>12
<1> QED BY <1>13

(* The rank is the sum of all coefficients.                                *)
LEMMA RankIsSum ==
  ASSUME NEW u \in 1 .. CacheN, WordHolds(u), NEW p, Ascending(p, u), NEW W, Sums(p, W)
  PROVE  Rank(p) = W[Len(p)]
<1>1. /\ u \in 0 .. CacheN /\ u \in Nat \ {0} /\ Len(p) \in Nat
      /\ \A i \in 0 .. Len(p) : W[i] \in Nat /\ W[0] = 0
      /\ \A i \in 1 .. Len(p) : W[i] = W[i - 1] + BinCoef(p[i], i)
      /\ Word \in Int
  <2>1. u \in 0 .. CacheN /\ u \in Nat \ {0} /\ Word \in Int
    BY CacheTypes, WordType
  <2> QED BY <2>1, PositionTypes DEF Sums
<1>2. \A i \in 1 .. Len(p) : /\ i \in Nat /\ p[i] \in Nat /\ p[i] \in 0 .. u - 1 /\ i - 1 <= p[i]
                             /\ p[i] \in 0 .. CacheN /\ p[i] + 1 \in 0 .. CacheN
  BY <1>1, PositionTypes
<1>3. CASE Len(p) = 0
  BY <1>1, <1>3 DEF Rank
<1>4. ASSUME Len(p) >= 1 PROVE W[1] = p[1] /\ p[1] \in Nat
  <2>1. 1 \in 1 .. Len(p) /\ 1 - 1 = 0
    BY <1>1, <1>4
  <2>2. BinCoef(p[1], 1) = p[1]
    BY <1>2, <2>1, ClosedForms
  <2>3. W[1] = W[0] + BinCoef(p[1], 1) /\ W[0] = 0
    BY <1>1, <2>1
  <2> QED BY <1>2, <2>1, <2>2, <2>3
<1>5. CASE Len(p) = 1
  BY <1>4, <1>5 DEF Rank
<1>6. ASSUME Len(p) >= 2 PROVE Seed2(p) = W[2]
  <2>1. 2 \in 1 .. Len(p) /\ 2 - 1 = 1 /\ 2 \in 0 .. Len(p)
    BY <1>1, <1>6
  <2>2. PICK x \in 0 .. u - 1 : x = p[2] /\ x \in Nat /\ x >= 1 /\ x \in 0 .. CacheN /\ x + 1 \in 0 .. CacheN
    BY <1>2, <2>1
  <2>3. PICK c \in Nat : c = BinCoef(x, 2) /\ 2 * c = x * (x - 1)
    BY <2>2, CoefficientTypes, ClosedForms
  <2>4. PICK d \in Nat : d = BinCoef(x + 1, 2) /\ 2 * d = (x + 1) * x
    <3>1. BinCoef(x + 1, 2) \in Nat
      BY <2>2, CoefficientTypes
    <3>2. 2 * BinCoef(x + 1, 2) = (x + 1) * ((x + 1) - 1)
      BY <2>2, ClosedForms
    <3>3. (x + 1) - 1 = x
      BY <2>2
    <3> QED BY <3>1, <3>2, <3>3
  <2>5. W[2] = p[1] + c /\ W[2] \in Nat
    <3>1. W[2] = W[1] + BinCoef(p[2], 2)
      BY <1>1, <2>1
    <3>2. W[1] = p[1] /\ p[1] \in Nat
      BY <1>1, <1>4, <1>6
    <3>3. BinCoef(p[2], 2) = c
      BY <2>2, <2>3
    <3> QED BY <2>3, <3>1, <3>2, <3>3
  <2>6. W[2] < d
    BY <1>1, <2>1, <2>2, <2>4, SumsBelow
  <2>7. 2 * d <= Word /\ 2 * c < Word
    <3>1. (x + 1) * x <= u * u /\ u * u <= u * u * u /\ x * (x - 1) < u * u * u
      BY <1>1, <2>2, ProductsFit
    <3>2. PICK t \in Int : t = u * u * u
      BY <1>1
    <3>3. PICK s \in Int : s = u * u
      BY <1>1
    <3>4. t <= Word
      BY <3>2 DEF WordHolds
    <3>5. 2 * d <= s /\ s <= t /\ 2 * c < t
      BY <2>3, <2>4, <3>1, <3>2, <3>3
    <3> QED BY <1>1, <3>4, <3>5
  <2>8. W[2] < Word
    BY <1>1, <2>5, <2>6, <2>7
  <2>9. (x * (x - 1)) % Word = 2 * c
    <3>1. PICK e \in Nat : e = 2 * c /\ e < Word
      BY <2>3, <2>7
    <3>2. e % Word = e
      BY <1>1, <3>1, Within
    <3> QED BY <2>3, <3>1, <3>2
  <2>10. Seed2(p) = (p[1] + ((2 * c) \div 2)) % Word
    BY <2>2, <2>9 DEF Seed2
  <2>11. (2 * c) \div 2 = c
    OBVIOUS
  <2>12. W[2] % Word = W[2]
    BY <1>1, <2>5, <2>8, Within
  <2> QED BY <2>5, <2>10, <2>11, <2>12
<1>7. CASE Len(p) = 2
  BY <1>6, <1>7 DEF Rank
<1>8. CASE Len(p) >= 3
  <2>1. 3 \in 1 .. Len(p) /\ 3 - 1 = 2 /\ 3 \in 0 .. Len(p) /\ 2 \in 0 .. Len(p)
    BY <1>1, <1>8
  <2>2. PICK x \in 0 .. u - 1 : x = p[3] /\ x \in Nat /\ x >= 2 /\ x \in 0 .. CacheN /\ x + 1 \in 0 .. CacheN
    BY <1>2, <2>1
  <2>3. PICK c \in Nat : c = BinCoef(x, 3) /\ 6 * c = x * (x - 1) * (x - 2)
    BY <2>2, CoefficientTypes, ClosedForms
  <2>4. PICK d \in Nat : d = BinCoef(x + 1, 3) /\ 6 * d = (x + 1) * x * (x - 1)
    <3>1. BinCoef(x + 1, 3) \in Nat
      BY <2>2, CoefficientTypes
    <3>2. 6 * BinCoef(x + 1, 3) = (x + 1) * ((x + 1) - 1) * ((x + 1) - 2)
      BY <2>2, ClosedForms
    <3>3. (x + 1) - 1 = x /\ (x + 1) - 2 = x - 1
      BY <2>2
    <3> QED BY <3>1, <3>2, <3>3
  <2>5. W[3] = W[2] + c /\ W[3] \in Nat /\ W[2] \in Nat
    BY <1>1, <2>1, <2>2, <2>3
  <2>6. W[3] < d
    BY <1>1, <2>1, <2>2, <2>4, SumsBelow
  <2>7. 6 * d <= Word /\ 6 * c < Word
    <3>1. (x + 1) * x * (x - 1) <= u * u * u /\ x * (x - 1) * (x - 2) < u * u * u
      BY <1>1, <2>2, ProductsFit
    <3>2. PICK t \in Int : t = u * u * u
      BY <1>1
    <3>3. t <= Word
      BY <3>2 DEF WordHolds
    <3>4. 6 * d <= t /\ 6 * c < t
      BY <2>3, <2>4, <3>1, <3>2
    <3> QED BY <1>1, <3>3, <3>4
  <2>8. W[3] < Word
    BY <1>1, <2>5, <2>6, <2>7
  <2>9. (x * (x - 1) * (x - 2)) % Word = 6 * c
    <3>0. 6 * c \in Nat /\ Word \in Int /\ 6 * c < Word
      BY <1>1, <2>7
    <3>1. (6 * c) % Word = 6 * c
      BY <3>0, Within
    <3> QED BY <2>3, <3>1
  <2>10. Seed3(p) = (Seed2(p) + ((6 * c) \div 6)) % Word
    BY <2>2, <2>9 DEF Seed3
  <2>11. (6 * c) \div 6 = c
    OBVIOUS
  <2>12. W[3] % Word = W[3]
    BY <1>1, <2>5, <2>8, Within
  <2>13. Seed3(p) = W[3]
    BY <1>6, <1>8, <2>5, <2>10, <2>11, <2>12
  <2>14. Accumulated(p)[Len(p)].val = W[Len(p)]
    BY <1>1, <1>8, <2>13, AccumulatedSum
  <2>15. Len(p) # 0 /\ Len(p) # 1 /\ Len(p) # 2
    BY <1>1, <1>8
  <2>16. Rank(p) = Accumulated(p)[Len(p)].val
    BY <2>15 DEF Rank
  <2> QED BY <2>14, <2>16
<1>9. Len(p) = 0 \/ Len(p) = 1 \/ Len(p) = 2 \/ Len(p) >= 3
  <2>1. \A m \in Nat : m = 0 \/ m = 1 \/ m = 2 \/ m >= 3
    OBVIOUS
  <2> QED BY <1>1, <2>1
<1> QED BY <1>3, <1>5, <1>7, <1>8, <1>9

-----------------------------------------------------------------------------
(* decompressor.go: the scans take the sum apart.                          *)

(* g counts halvings.                                                      *)
Halves(g, u) == \A x \in 0 .. u : g[x] \in Nat /\ g[x] = IF x = 0 THEN 0 ELSE 1 + g[x \div 2]

(* There is such a count for every number.                                 *)
LEMMA HalvesExist ==
  ASSUME NEW u \in Nat
  PROVE  \E g : g = [x \in 0 .. u |-> IF x = 0 THEN 0 ELSE 1 + g[x \div 2]] /\ Halves(g, u)
<1> DEFINE Good(g, n) == /\ g = [x \in 0 .. n |-> IF x = 0 THEN 0 ELSE 1 + g[x \div 2]]
                         /\ \A x \in 0 .. n : g[x] \in Nat
           T == {n \in 0 .. u : \E g : Good(g, n)}
<1>1. 0 \in T
  <2> DEFINE g == [x \in 0 .. 0 |-> 0]
  <2>1. \A x \in 0 .. 0 : x = 0
    OBVIOUS
  <2>2. g = [x \in 0 .. 0 |-> IF x = 0 THEN 0 ELSE 1 + g[x \div 2]]
    BY <2>1
  <2>3. Good(g, 0)
    BY <2>1, <2>2
  <2> HIDE DEF Good
  <2> QED BY <2>3
<1>2. ASSUME NEW n \in 0 .. u - 1, n \in T PROVE n + 1 \in T
  <2>1. PICK g : Good(g, n)
    BY <1>2
  <2> DEFINE h == [x \in 0 .. n + 1 |-> IF x = n + 1 THEN 1 + g[(n + 1) \div 2] ELSE g[x]]
  <2>2. /\ \A x \in 0 .. n + 1 : x # 0 => x \div 2 \in 0 .. n /\ x \div 2 # n + 1 /\ x \div 2 \in 0 .. n + 1
        /\ \A x \in 0 .. n + 1 : x # n + 1 => x \in 0 .. n
        /\ n + 1 # 0 /\ n + 1 \in 0 .. n + 1 /\ n + 1 \in 0 .. u
    OBVIOUS
  <2>3. \A x \in 0 .. n : h[x] = g[x] /\ g[x] \in Nat /\ g[x] = IF x = 0 THEN 0 ELSE 1 + g[x \div 2]
    <3>1. \A x \in 0 .. n : x \in 0 .. n + 1 /\ x # n + 1
      OBVIOUS
    <3> QED BY <2>1, <3>1
  <2>4. h[n + 1] = 1 + g[(n + 1) \div 2]
    BY <2>2
  <2>5. ASSUME NEW x \in 0 .. n + 1 PROVE h[x] \in Nat /\ h[x] = IF x = 0 THEN 0 ELSE 1 + h[x \div 2]
    <3> HIDE DEF h
    <3>1. CASE x = n + 1
      <4>1. x # 0 /\ x \div 2 \in 0 .. n
        BY <2>2, <3>1
      <4>2. h[x \div 2] = g[x \div 2] /\ g[x \div 2] \in Nat
        BY <2>3, <4>1
      <4> QED BY <2>4, <3>1, <4>1, <4>2
    <3>2. CASE x # n + 1
      <4>1. x \in 0 .. n /\ (x # 0 => x \div 2 \in 0 .. n)
        BY <2>2, <3>2
      <4> QED BY <2>3, <4>1
    <3> QED BY <3>1, <3>2
  <2>6. h = [x \in 0 .. n + 1 |-> IF x = 0 THEN 0 ELSE 1 + h[x \div 2]]
    <3>1. h = [x \in 0 .. n + 1 |-> h[x]]
      OBVIOUS
    <3> HIDE DEF h
    <3> QED BY <2>5, <3>1
  <2>7. Good(h, n + 1)
    <3> HIDE DEF h
    <3> QED BY <2>5, <2>6
  <2> HIDE DEF Good, h
  <2> QED BY <2>2, <2>7
<1>3. 0 .. u \subseteq T
  <2>1. 0 \in Int /\ u \in Int
    OBVIOUS
  <2> HIDE DEF T
  <2> QED BY <1>1, <1>2, <2>1, Induction
<1>4. PICK g : Good(g, u)
  <2>1. u \in T
    <3> HIDE DEF T
    <3> QED BY <1>3
  <2> QED BY <2>1
<1>5. Halves(g, u)
  BY <1>4 DEF Halves
<1> QED BY <1>4, <1>5

(* All such functions agree.                                               *)
LEMMA HalvesAgree ==
  ASSUME NEW u \in Nat, NEW w \in Nat, u <= w, NEW f, NEW g, Halves(f, u), Halves(g, w)
  PROVE  f[u] = g[u]
<1> DEFINE T == {n \in 0 .. u : \A x \in 0 .. n : f[x] = g[x]}
<1>0. \A x \in 0 .. u : x \in 0 .. w
  OBVIOUS
<1>1. 0 \in T
  <2>1. 0 \in 0 .. u /\ 0 \in 0 .. w /\ \A x \in 0 .. 0 : x = 0
    OBVIOUS
  <2>2. f[0] = 0 /\ g[0] = 0
    BY <2>1 DEF Halves
  <2> QED BY <2>1, <2>2
<1>2. ASSUME NEW n \in 0 .. u - 1, n \in T PROVE n + 1 \in T
  <2>1. n + 1 \in 0 .. u /\ n + 1 \in 0 .. w /\ (n + 1) \div 2 \in 0 .. n /\ n + 1 # 0
    OBVIOUS
  <2>2. f[(n + 1) \div 2] = g[(n + 1) \div 2]
    BY <1>2, <2>1
  <2>3. f[n + 1] = 1 + f[(n + 1) \div 2] /\ g[n + 1] = 1 + g[(n + 1) \div 2]
    BY <2>1 DEF Halves
  <2>4. f[n + 1] = g[n + 1]
    BY <2>2, <2>3
  <2>5. \A x \in 0 .. n + 1 : x \in 0 .. n \/ x = n + 1
    OBVIOUS
  <2> QED BY <1>2, <2>1, <2>4, <2>5
<1>3. 0 .. u \subseteq T
  <2>1. 0 \in Int /\ u \in Int
    OBVIOUS
  <2> HIDE DEF T
  <2> QED BY <1>1, <1>2, <2>1, Induction
<1>4. u \in T /\ u \in 0 .. u
  <2> HIDE DEF T
  <2> QED BY <1>3
<1> QED BY <1>4

(* BitLength is such a count.                                              *)
LEMMA BitLengthLaw ==
  ASSUME NEW v \in Nat
  PROVE  \E f : Halves(f, v) /\ BitLength(v) = f[v]
<1> DEFINE f == CHOOSE f : f = [x \in 0 .. v |-> IF x = 0 THEN 0 ELSE 1 + f[x \div 2]]
<1>1. PICK g : g = [x \in 0 .. v |-> IF x = 0 THEN 0 ELSE 1 + g[x \div 2]] /\ Halves(g, v)
  BY HalvesExist
<1>2. f = [x \in 0 .. v |-> IF x = 0 THEN 0 ELSE 1 + f[x \div 2]]
  BY <1>1
<1>3. BitLength(v) = f[v]
  BY DEF BitLength
<1> DEFINE T == {n \in 0 .. v : \A x \in 0 .. n : f[x] = g[x]}
<1> HIDE DEF f
<1>4. \A x \in 0 .. v : f[x] = IF x = 0 THEN 0 ELSE 1 + f[x \div 2]
  BY <1>2
<1>5. 0 \in T
  <2>1. 0 \in 0 .. v /\ \A x \in 0 .. 0 : x = 0
    OBVIOUS
  <2>2. f[0] = 0 /\ g[0] = 0
    BY <1>1, <1>4, <2>1 DEF Halves
  <2> QED BY <2>1, <2>2
<1>6. ASSUME NEW n \in 0 .. v - 1, n \in T PROVE n + 1 \in T
  <2>1. n + 1 \in 0 .. v /\ (n + 1) \div 2 \in 0 .. n /\ n + 1 # 0
    OBVIOUS
  <2>2. f[(n + 1) \div 2] = g[(n + 1) \div 2]
    BY <1>6, <2>1
  <2>3. f[n + 1] = 1 + f[(n + 1) \div 2] /\ g[n + 1] = 1 + g[(n + 1) \div 2]
    BY <1>1, <1>4, <2>1 DEF Halves
  <2>4. f[n + 1] = g[n + 1]
    BY <2>2, <2>3
  <2>5. \A x \in 0 .. n + 1 : x \in 0 .. n \/ x = n + 1
    OBVIOUS
  <2> QED BY <1>6, <2>1, <2>4, <2>5
<1>7. 0 .. v \subseteq T
  <2>1. 0 \in Int /\ v \in Int
    OBVIOUS
  <2> HIDE DEF T
  <2> QED BY <1>5, <1>6, <2>1, Induction
<1>8. f[v] = g[v]
  <2>1. v \in T /\ v \in 0 .. v
    <3> HIDE DEF T
    <3> QED BY <1>7
  <2> QED BY <2>1
<1> QED BY <1>1, <1>3, <1>8

(* A longer number is greater, and a greater one no shorter.               *)
LEMMA BitLengthGrows ==
  ASSUME NEW u \in Nat, NEW v \in Nat, u <= v
  PROVE  BitLength(u) \in Nat /\ BitLength(v) \in Nat /\ BitLength(u) <= BitLength(v)
<1>1. PICK f : Halves(f, u) /\ BitLength(u) = f[u]
  BY BitLengthLaw
<1>2. PICK g : Halves(g, v) /\ BitLength(v) = g[v]
  BY BitLengthLaw
<1>3. f[u] = g[u]
  BY <1>1, <1>2, HalvesAgree
<1>4. \A x \in 0 .. v : g[x] \in Nat /\ g[x] = IF x = 0 THEN 0 ELSE 1 + g[x \div 2]
  BY <1>2 DEF Halves
<1> DEFINE T == {n \in 0 .. v : \A a, b \in 0 .. n : a <= b => g[a] <= g[b]}
<1>5. 0 \in T
  <2>1. 0 \in 0 .. v /\ \A x \in 0 .. 0 : x = 0
    OBVIOUS
  <2>2. g[0] <= g[0]
    BY <1>4, <2>1
  <2> QED BY <2>1, <2>2
<1>6. ASSUME NEW n \in 0 .. v - 1, n \in T PROVE n + 1 \in T
  <2>1. n + 1 \in 0 .. v /\ \A x \in 0 .. n + 1 : x \in 0 .. v /\ (x \in 0 .. n \/ x = n + 1)
    OBVIOUS
  <2>2. ASSUME NEW a \in 0 .. n + 1 PROVE g[a] <= g[n + 1]
    <3>1. CASE a = 0
      <4>1. g[a] = 0 /\ g[n + 1] \in Nat
        BY <1>4, <2>1, <3>1
      <4> QED BY <4>1
    <3>2. CASE a # 0
      <4>1. a \div 2 \in 0 .. n /\ (n + 1) \div 2 \in 0 .. n /\ a \div 2 <= (n + 1) \div 2 /\ n + 1 # 0
        BY <3>2
      <4>2. g[a \div 2] <= g[(n + 1) \div 2] /\ g[a \div 2] \in Nat /\ g[(n + 1) \div 2] \in Nat
        BY <1>4, <1>6, <2>1, <4>1
      <4>3. g[a] = 1 + g[a \div 2] /\ g[n + 1] = 1 + g[(n + 1) \div 2]
        BY <1>4, <2>1, <3>2, <4>1
      <4> QED BY <4>2, <4>3
    <3> QED BY <3>1, <3>2
  <2>3. ASSUME NEW a \in 0 .. n + 1, NEW b \in 0 .. n + 1, a <= b PROVE g[a] <= g[b]
    <3>1. CASE b = n + 1
      BY <2>2, <3>1
    <3>2. CASE b # n + 1
      <4>1. a \in 0 .. n /\ b \in 0 .. n
        BY <2>3, <3>2
      <4> QED BY <1>6, <2>3, <4>1
    <3> QED BY <3>1, <3>2
  <2> QED BY <2>1, <2>3
<1>7. 0 .. v \subseteq T
  <2>1. 0 \in Int /\ v \in Int
    OBVIOUS
  <2> HIDE DEF T
  <2> QED BY <1>5, <1>6, <2>1, Induction
<1>8. v \in T /\ u \in 0 .. v /\ v \in 0 .. v
  <2> HIDE DEF T
  <2> QED BY <1>7
<1>9. g[u] <= g[v] /\ g[u] \in Nat /\ g[v] \in Nat
  BY <1>4, <1>8
<1> QED BY <1>1, <1>2, <1>3, <1>9

(* A number fits in its length ...                                         *)
LEMMA BitLengthHolds ==
  ASSUME NEW v \in Nat
  PROVE  BitLength(v) \in Nat /\ v < 2^BitLength(v)
<1>1. PICK g : Halves(g, v) /\ BitLength(v) = g[v]
  BY BitLengthLaw
<1>2. \A x \in 0 .. v : g[x] \in Nat /\ g[x] = IF x = 0 THEN 0 ELSE 1 + g[x \div 2]
  BY <1>1 DEF Halves
<1> DEFINE T == {n \in 0 .. v : \A x \in 0 .. n : x < 2^g[x]}
<1>3. 0 \in T
  <2>1. 0 \in 0 .. v /\ \A x \in 0 .. 0 : x = 0
    OBVIOUS
  <2>2. 2^g[0] \in Nat \ {0}
    BY <1>2, <2>1, PowerPositive
  <2>3. 0 < 2^g[0]
    BY <2>2
  <2> QED BY <2>1, <2>3
<1>4. ASSUME NEW n \in 0 .. v - 1, n \in T PROVE n + 1 \in T
  <2> DEFINE h == (n + 1) \div 2
  <2>1. h \in 0 .. n /\ n + 1 # 0 /\ n + 1 \in 0 .. v /\ h \in 0 .. v /\ n + 1 <= 2 * h + 1
    OBVIOUS
  <2>2. h < 2^g[h] /\ g[h] \in Nat /\ g[n + 1] = 1 + g[h]
    BY <1>2, <1>4, <2>1
  <2>3. 2^(g[h] + 1) = 2 * 2^g[h] /\ 2^g[h] \in Nat \ {0}
    BY <2>2, PowerStep, PowerPositive
  <2> HIDE DEF h
  <2>4. 2^g[n + 1] = 2 * 2^g[h]
    <3>1. g[n + 1] = g[h] + 1
      BY <2>2
    <3> QED BY <2>3, <3>1
  <2>5. n + 1 < 2 * 2^g[h]
    <3> DEFINE p == 2^g[h]
    <3>1. h < p /\ p \in Nat /\ h \in Nat
      BY <2>1, <2>2, <2>3
    <3> HIDE DEF p
    <3>2. n + 1 < 2 * p
      BY <2>1, <3>1
    <3> QED BY <3>2 DEF p
  <2>6. n + 1 < 2^g[n + 1]
    BY <2>4, <2>5
  <2>7. \A x \in 0 .. n + 1 : x \in 0 .. n \/ x = n + 1
    OBVIOUS
  <2> QED BY <1>4, <2>1, <2>6, <2>7
<1>5. 0 .. v \subseteq T
  <2>1. 0 \in Int /\ v \in Int
    OBVIOUS
  <2> HIDE DEF T
  <2> QED BY <1>3, <1>4, <2>1, Induction
<1>6. v \in T /\ v \in 0 .. v
  <2> HIDE DEF T
  <2> QED BY <1>5
<1> QED BY <1>1, <1>2, <1>6

(* ... and in no shorter one.                                              *)
LEMMA BitLengthLeast ==
  ASSUME NEW v \in Nat, NEW w \in Nat, v < 2^w
  PROVE  BitLength(v) <= w
<1>1. PICK g : Halves(g, v) /\ BitLength(v) = g[v]
  BY BitLengthLaw
<1>2. \A x \in 0 .. v : g[x] \in Nat /\ g[x] = IF x = 0 THEN 0 ELSE 1 + g[x \div 2]
  BY <1>1 DEF Halves
<1> DEFINE T == {u \in 0 .. w : \A x \in 0 .. v : x < 2^u => g[x] <= u}
<1>3. 0 \in T
  <2>1. 2^0 = 1 /\ 0 \in 0 .. w /\ 0 \in 0 .. v
    OBVIOUS
  <2>2. ASSUME NEW x \in 0 .. v, x < 2^0 PROVE g[x] <= 0
    <3>1. x = 0
      BY <2>1, <2>2
    <3> QED BY <1>2, <2>1, <3>1
  <2> QED BY <2>1, <2>2
<1>4. ASSUME NEW u \in 0 .. w - 1, u \in T PROVE u + 1 \in T
  <2>1. u \in Nat /\ u + 1 \in 0 .. w /\ 2^(u + 1) = 2 * 2^u /\ 2^u \in Nat \ {0}
    BY PowerStep, PowerPositive
  <2>2. ASSUME NEW x \in 0 .. v, x < 2^(u + 1) PROVE g[x] <= u + 1
    <3>1. CASE x = 0
      BY <1>2, <2>1, <3>1
    <3>2. CASE x # 0
      <4> DEFINE p == 2^u
      <4>1. p \in Nat /\ x < 2 * p
        BY <2>1, <2>2
      <4> HIDE DEF p
      <4>2. x \div 2 \in 0 .. v /\ x \div 2 < p
        BY <4>1
      <4>3. g[x \div 2] <= u
        BY <1>4, <4>2 DEF p
      <4>4. g[x] = 1 + g[x \div 2] /\ g[x \div 2] \in Nat
        BY <1>2, <3>2, <4>2
      <4> QED BY <2>1, <4>3, <4>4
    <3> QED BY <3>1, <3>2
  <2> QED BY <2>1, <2>2
<1>5. 0 .. w \subseteq T
  <2>1. 0 \in Int /\ w \in Int
    OBVIOUS
  <2> HIDE DEF T
  <2> QED BY <1>3, <1>4, <2>1, Induction
<1>6. w \in T /\ v \in 0 .. v
  <2> HIDE DEF T
  <2> QED BY <1>5
<1> QED BY <1>1, <1>6

(* decompressor.go: comparing lengths first does not change the outcome.   *)
LEMMA FitsLaw ==
  ASSUME NEW v \in Nat, NEW rest \in Nat
  PROVE  Fits(v, rest) <=> v <= rest
<1>1. BitLength(v) \in Nat /\ BitLength(rest) \in Nat
  BY BitLengthGrows
<1>2. v <= rest => BitLength(v) <= BitLength(rest)
  BY BitLengthGrows
<1>3. rest <= v => BitLength(rest) <= BitLength(v)
  BY BitLengthGrows
<1> QED BY <1>1, <1>2, <1>3 DEF Fits

(* The scan stops at the first position that fits.                         *)
LEMMA LargestLaw ==
  ASSUME NEW start \in Nat, NEW weight, NEW rest, NEW j \in 0 .. start,
         Fits(BinCoef(j, weight), rest),
         \A i \in j + 1 .. start : ~Fits(BinCoef(i, weight), rest)
  PROVE  Largest(start, weight, rest) = j
<1> DEFINE Fit == {x \in -1 .. start : x = -1 \/ Fits(BinCoef(x, weight), rest)}
           V == [x \in -1 .. start |-> Int]
           G == [x \in -1 .. start |-> [v \in Int |-> IF x \in Fit THEN x ELSE v]]
           c == -1
<1>1. /\ \A x \in -1 .. start : V[x] = Int
      /\ \A x \in -1 .. start : \A v \in Int : G[x][v] = IF x \in Fit THEN x ELSE v
      /\ -1 \in Fit
  OBVIOUS
<1>2. PICK g : Follows(g, -1, start, c, G) /\ \A x \in -1 .. start : g[x] \in V[x]
  <2> HIDE DEF V, G, Fit
  <2>1. c \in V[-1] /\ -1 \in Int /\ start \in Int
    BY <1>1
  <2>2. ASSUME NEW x \in -1 + 1 .. start, NEW v \in V[x - 1] PROVE G[x][v] \in V[x]
    <3>1. x \in -1 .. start /\ x - 1 \in -1 .. start
      OBVIOUS
    <3> QED BY <1>1, <3>1
  <2> DEFINE m == -1
  <2>3. m \in Int /\ start \in Int /\ c \in V[m]
    BY <2>1
  <2>4. \A x \in m + 1 .. start : \A v \in V[x - 1] : G[x][v] \in V[x]
    BY <2>2
  <2>5. \E g : Follows(g, m, start, c, G) /\ \A x \in m .. start : g[x] \in V[x]
    <3> HIDE DEF m, c
    <3> QED BY <2>3, <2>4, Recursion
  <2> QED BY <2>5
<1>3. \A x \in -1 .. start : g[x] = IF x \in Fit THEN x ELSE g[x - 1]
  <2> SUFFICES ASSUME NEW x \in -1 .. start PROVE g[x] = IF x \in Fit THEN x ELSE g[x - 1]
    OBVIOUS
  <2> HIDE DEF G, V, Fit
  <2>1. g[x] = IF x = -1 THEN c ELSE G[x][g[x - 1]]
    BY <1>2 DEF Follows
  <2>2. CASE x = -1
    BY <1>1, <2>1, <2>2
  <2>3. CASE x # -1
    <3>1. x - 1 \in -1 .. start
      BY <2>3
    <3>2. g[x - 1] \in Int
      BY <1>1, <1>2, <3>1
    <3> QED BY <1>1, <2>1, <2>3, <3>2
  <2> QED BY <2>2, <2>3
<1>4. g = [x \in -1 .. start |-> IF x = -1 \/ Fits(BinCoef(x, weight), rest) THEN x ELSE g[x - 1]]
  <2>1. g = [x \in -1 .. start |-> g[x]]
    BY <1>2 DEF Follows
  <2>2. \A x \in -1 .. start : g[x] = IF x = -1 \/ Fits(BinCoef(x, weight), rest) THEN x ELSE g[x - 1]
    BY <1>3
  <2> HIDE DEF G, V, Fit, c
  <2> QED BY <2>1, <2>2
<1> DEFINE f == CHOOSE f : f = [x \in -1 .. start |-> IF x = -1 \/ Fits(BinCoef(x, weight), rest) THEN x ELSE f[x - 1]]
<1>5. f = [x \in -1 .. start |-> IF x = -1 \/ Fits(BinCoef(x, weight), rest) THEN x ELSE f[x - 1]]
  BY <1>4
<1>6. Largest(start, weight, rest) = f[start]
  BY DEF Largest
<1> HIDE DEF f
<1>7. \A x \in -1 .. start : f[x] = IF x = -1 \/ Fits(BinCoef(x, weight), rest) THEN x ELSE f[x - 1]
  BY <1>5
<1> DEFINE T == {x \in j .. start : f[x] = j}
<1>8. j \in T
  <2>1. j \in -1 .. start /\ j \in j .. start
    OBVIOUS
  <2> QED BY <1>7, <2>1
<1>9. ASSUME NEW x \in j .. start - 1, x \in T PROVE x + 1 \in T
  <2>1. x + 1 \in -1 .. start /\ x + 1 \in j + 1 .. start /\ x + 1 # -1 /\ (x + 1) - 1 = x /\ x + 1 \in j .. start
    OBVIOUS
  <2>2. f[x + 1] = f[x]
    BY <1>7, <2>1
  <2> QED BY <1>9, <2>1, <2>2
<1>10. j .. start \subseteq T
  <2>1. j \in Int /\ start \in Int
    OBVIOUS
  <2> HIDE DEF T
  <2> QED BY <1>8, <1>9, <2>1, Induction
<1>11. f[start] = j
  <2>1. start \in T
    <3> HIDE DEF T
    <3> QED BY <1>10
  <2> QED BY <2>1
<1> QED BY <1>6, <1>11

(* The scan for weight w stops at the w-th position and leaves the sum of  *)
(* those before.                                                           *)
Finds(p, W, w, start) == Largest(start, w, W[w]) = p[w] /\ W[w] - BinCoef(p[w], w) = W[w - 1]

(* decompressor.go: the scan for weight w finds the w-th position, from    *)
(* wherever between it and the end of the universe it starts, if what is   *)
(* left of the index is the sum of the first w.                            *)
LEMMA ScanFinds ==
  ASSUME NEW u \in 0 .. CacheN, NEW p, Ascending(p, u), NEW W, Sums(p, W), NEW w \in 1 .. Len(p),
         NEW start \in Nat, start < u, p[w] <= start
  PROVE  Finds(p, W, w, start)
<1>1. /\ u \in Nat /\ CacheN \in Nat /\ u <= CacheN /\ w \in Nat /\ p[w] \in Nat /\ p[w] < u
      /\ p[w] + 1 \in 0 .. CacheN /\ BinCoef(p[w], w) \in Nat /\ p[w] \in 0 .. start
  BY PositionTypes
<1>2. W[w] = W[w - 1] + BinCoef(p[w], w) /\ W[w] \in Nat /\ W[w - 1] \in Nat
  <2>1. w - 1 \in 0 .. Len(p) /\ w \in 0 .. Len(p)
    BY PositionTypes
  <2> QED BY <2>1 DEF Sums
<1>3. W[w] < BinCoef(p[w] + 1, w)
  BY SumsBelow
<1>4. Fits(BinCoef(p[w], w), W[w])
  <2>1. BinCoef(p[w], w) <= W[w]
    BY <1>1, <1>2
  <2> QED BY <1>1, <1>2, <2>1, FitsLaw
<1>5. ASSUME NEW i \in p[w] + 1 .. start PROVE ~Fits(BinCoef(i, w), W[w])
  <2>1. i \in p[w] + 1 .. CacheN /\ i \in 0 .. CacheN
    BY <1>1
  <2>2. BinCoef(p[w] + 1, w) <= BinCoef(i, w)
    BY <1>1, <2>1, CoefficientGrows
  <2>3. BinCoef(i, w) \in Nat /\ BinCoef(p[w] + 1, w) \in Nat
    BY <1>1, <2>1, CoefficientTypes
  <2>4. ~(BinCoef(i, w) <= W[w])
    BY <1>2, <1>3, <2>2, <2>3
  <2> QED BY <1>2, <2>3, <2>4, FitsLaw
<1>6. Largest(start, w, W[w]) = p[w]
  <2>1. PICK j \in 0 .. start : j = p[w]
    BY <1>1
  <2>2. PICK r : r = W[w]
    OBVIOUS
  <2>3. Fits(BinCoef(j, w), r)
    BY <1>4, <2>1, <2>2
  <2>4. \A i \in j + 1 .. start : ~Fits(BinCoef(i, w), r)
    BY <1>5, <2>1, <2>2
  <2>5. Largest(start, w, r) = j
    BY <2>3, <2>4, LargestLaw
  <2> QED BY <2>1, <2>2, <2>5
<1> QED BY <1>1, <1>2, <1>6 DEF Finds

(* decompressor.go: unranking the sum of the positions gives them back.    *)
LEMMA UnrankLaw ==
  ASSUME NEW u \in 1 .. CacheN, NEW S \in SUBSET (0 .. u - 1), NEW W, Sums(IndexSet(S), W)
  PROVE  Unrank(W[Cardinality(S)], Cardinality(S), u) = S
<1> DEFINE p == IndexSet(S)
           k == Cardinality(S)
<1>1. /\ u \in Nat /\ u \in 0 .. CacheN /\ CacheN \in Nat /\ k \in Nat
      /\ Lists(p, k, S) /\ Ascending(p, u) /\ Len(p) = k /\ IsFiniteSet(S)
  <2>1. u \in Nat /\ u \in 0 .. CacheN /\ CacheN \in Nat
    BY CacheTypes
  <2> QED BY <2>1, IndexSetLists
<1>2. Sums(p, W) /\ \A i \in 0 .. k : W[i] \in Nat
  BY <1>1 DEF Sums
<1>3. \A i \in 1 .. k : i \in Nat /\ p[i] \in Nat /\ p[i] < u /\ p[i] \in S
  <2>1. \A i \in 1 .. k : p[i] \in S /\ p[i] \in Nat /\ p[i] < u
    BY <1>1, ListTypes
  <2> QED BY <1>1, <2>1
<1>4. CASE k = 0
  <2>1. S = {}
    BY <1>1, <1>4, FS_EmptySet
  <2> QED BY <1>4, <2>1 DEF Unrank
<1>5. CASE k # 0
  <2> DEFINE index == W[k]
             Tops(i) == {p[h] : h \in k + 1 - i .. k}
             E == [i \in 0 .. k - 1 |-> [start |-> IF i = 0 THEN u - 1 ELSE p[k + 1 - i] - 1,
                                         rest |-> W[k - i], set |-> Tops(i)]]
             V == [i \in 0 .. k - 1 |-> {E[i]}]
             G == [i \in 0 .. k - 1 |-> [v \in V[i - 1] |-> Found(v, k + 1 - i)]]
             c == [start |-> u - 1, rest |-> index, set |-> {}]
  <2>1. /\ \A i \in 0 .. k - 1 : V[i] = {E[i]}
        /\ \A i \in 0 .. k - 1 : \A v \in V[i - 1] : G[i][v] = Found(v, k + 1 - i)
        /\ k - 1 \in Int /\ 0 \in 0 .. k - 1
    BY <1>1, <1>5
  <2>2. c = E[0]
    <3>1. Tops(0) = {} /\ k - 0 = k
      BY <1>1
    <3> HIDE DEF Tops
    <3> QED BY <1>1, <2>1, <3>1
  <2>3. ASSUME NEW i \in 1 .. k - 1 PROVE Found(E[i - 1], k + 1 - i) = E[i]
    <3> DEFINE w == k + 1 - i
               s == E[i - 1]
    <3>1. /\ i \in Nat /\ i - 1 \in 0 .. k - 1 /\ i \in 0 .. k - 1 /\ w \in 1 .. k /\ k - (i - 1) = w /\ k - i = w - 1
          /\ k + 1 - (i - 1) = w + 1 /\ (i - 1 # 0 => w + 1 \in 1 .. k) /\ w \in Nat
      BY <1>1, <1>5
    <3>2. s.rest = W[w] /\ s.set = Tops(i - 1) /\ s.start = IF i - 1 = 0 THEN u - 1 ELSE p[w + 1] - 1
      <4> HIDE DEF Tops
      <4> QED BY <3>1
    <3>3. s.start \in Nat /\ s.start < u /\ p[w] <= s.start
      <4>1. p[w] \in Nat /\ p[w] < u
        BY <1>3, <3>1
      <4>2. CASE i - 1 = 0
        <5>1. s.start = u - 1
          BY <3>2, <4>2
        <5> HIDE DEF s, p
        <5> QED BY <1>1, <4>1, <5>1
      <4>3. CASE i - 1 # 0
        <5>1. s.start = p[w + 1] - 1 /\ w + 1 \in 1 .. k
          BY <3>1, <3>2, <4>3
        <5>2. p[w] < p[w + 1] /\ p[w + 1] \in Nat /\ p[w + 1] < u
          <6>1. w < w + 1
            BY <3>1
          <6> HIDE DEF w, p
          <6> QED BY <1>1, <1>3, <3>1, <5>1, <6>1 DEF Lists
        <5> HIDE DEF s, p
        <5> QED BY <1>1, <4>1, <5>1, <5>2
      <4> QED BY <4>2, <4>3
    <3>4. Largest(s.start, w, s.rest) = p[w] /\ s.rest - BinCoef(p[w], w) = W[w - 1]
      <4>1. PICK t \in Nat : t = s.start /\ t < u /\ p[w] <= t
        BY <3>3
      <4>2. Largest(t, w, W[w]) = p[w] /\ W[w] - BinCoef(p[w], w) = W[w - 1]
        <5>1. w \in 1 .. Len(p) /\ u \in 0 .. CacheN /\ Ascending(p, u) /\ Sums(p, W)
          BY <1>1, <1>2, <3>1
        <5> HIDE DEF s, p, w, k
        <5>2. Finds(p, W, w, t)
          BY <4>1, <5>1, ScanFinds
        <5> QED BY <5>2 DEF Finds
      <4> HIDE DEF s, p, w
      <4> QED BY <3>2, <4>1, <4>2
    <3>5. p[w] # -1
      <4>1. p[w] \in Nat
        BY <1>3, <3>1
      <4> HIDE DEF p, w
      <4> QED BY <4>1
    <3>6. Found(s, w) = [start |-> p[w] - 1, rest |-> W[w - 1], set |-> Tops(i - 1) \cup {p[w]}]
      <4> HIDE DEF s, p, w, Tops
      <4> QED BY <3>2, <3>4, <3>5 DEF Found
    <3>7. Tops(i - 1) \cup {p[w]} = Tops(i)
      <4>1. \A h : h \in w .. k <=> h \in w + 1 .. k \/ h = w
        BY <1>1, <3>1
      <4>2. Tops(i) = {p[h] : h \in w .. k}
        OBVIOUS
      <4>3. Tops(i - 1) = {p[h] : h \in w + 1 .. k}
        BY <3>1
      <4> HIDE DEF Tops, p, w
      <4> QED BY <4>1, <4>2, <4>3
    <3>8. E[i] = [start |-> p[w] - 1, rest |-> W[w - 1], set |-> Tops(i)]
      <4>1. i # 0
        BY <3>1
      <4> HIDE DEF Tops
      <4> QED BY <3>1, <4>1
    <3> QED BY <3>6, <3>7, <3>8
  <2>4. PICK g : Follows(g, 0, k - 1, c, G) /\ \A x \in 0 .. k - 1 : g[x] \in V[x]
    <3> DEFINE l == k - 1
    <3>1. c \in V[0] /\ l \in Int /\ 0 \in Int
      <4> HIDE DEF V, c, E
      <4> QED BY <2>1, <2>2
    <3>2. ASSUME NEW x \in 0 + 1 .. l, NEW v \in V[x - 1] PROVE G[x][v] \in V[x]
      <4>1. x \in 1 .. k - 1 /\ x \in 0 .. k - 1 /\ x - 1 \in 0 .. k - 1
        BY <1>1
      <4> HIDE DEF V, G, E
      <4>2. v = E[x - 1]
        BY <2>1, <3>2, <4>1
      <4> QED BY <2>1, <2>3, <4>1, <4>2
    <3>3. \E g : Follows(g, 0, l, c, G) /\ \A x \in 0 .. l : g[x] \in V[x]
      <4> HIDE DEF V, G, c, l
      <4> QED BY <3>1, <3>2, Recursion
    <3> QED BY <3>3
  <2> DEFINE Step(h) == [i \in 0 .. k - 1 |->
                           IF i = 0 THEN [start |-> u - 1, rest |-> index, set |-> {}] ELSE Found(h[i - 1], k + 1 - i)]
  <2>5. \A i \in 0 .. k - 1 : g[i] = IF i = 0 THEN c ELSE Found(g[i - 1], k + 1 - i)
    <3> SUFFICES ASSUME NEW i \in 0 .. k - 1 PROVE g[i] = IF i = 0 THEN c ELSE Found(g[i - 1], k + 1 - i)
      OBVIOUS
    <3> HIDE DEF V, G, c, E
    <3>1. g[i] = IF i = 0 THEN c ELSE G[i][g[i - 1]]
      BY <2>4 DEF Follows
    <3>2. i # 0 => i - 1 \in 0 .. k - 1
      BY <1>1
    <3>3. i # 0 => g[i - 1] \in V[i - 1]
      BY <2>4, <3>2
    <3> QED BY <2>1, <3>1, <3>3
  <2>6. g = Step(g)
    <3>1. g = [i \in 0 .. k - 1 |-> g[i]]
      BY <2>4 DEF Follows
    <3> HIDE DEF G, V, E, index
    <3> QED BY <2>5, <3>1
  <2> DEFINE f == FoundBy(index, k, u)
  <2>7. f = Step(f)
    BY <2>6 DEF FoundBy
  <2>8. \A i \in 0 .. k - 1 : f[i] = IF i = 0 THEN c ELSE Found(f[i - 1], k + 1 - i)
    <3> HIDE DEF f
    <3> QED BY <2>7
  <2> DEFINE T == {x \in 0 .. k - 1 : f[x] = g[x]}
  <2>9. 0 .. k - 1 \subseteq T
    <3> DEFINE l == k - 1
    <3>1. 0 <= l => 0 \in T
      <4> HIDE DEF f, c, k
      <4> QED BY <2>1, <2>5, <2>8
    <3>2. ASSUME NEW x \in 0 .. l - 1, x \in T PROVE x + 1 \in T
      <4>1. x + 1 \in 0 .. k - 1 /\ x + 1 # 0 /\ (x + 1) - 1 = x
        BY <1>1
      <4> HIDE DEF f, k
      <4> QED BY <2>5, <2>8, <3>2, <4>1
    <3>3. 0 \in Int /\ l \in Int
      BY <1>1
    <3> HIDE DEF T, l
    <3>4. 0 .. l \subseteq T
      BY <3>1, <3>2, <3>3, Induction
    <3> QED BY <3>4 DEF l
  <2>10. f[k - 1] = E[k - 1]
    <3>1. k - 1 \in 0 .. k - 1
      BY <1>1, <1>5
    <3>2. k - 1 \in T
      <4> HIDE DEF T
      <4> QED BY <2>9, <3>1
    <3>3. f[k - 1] = g[k - 1]
      <4> HIDE DEF f
      <4> QED BY <3>2
    <3>4. g[k - 1] \in {E[k - 1]}
      <4> HIDE DEF V, E
      <4> QED BY <2>1, <2>4, <3>1
    <3> HIDE DEF f, E
    <3> QED BY <3>3, <3>4
  <2>11. f[k - 1].rest = p[1] /\ f[k - 1].set = {p[h] : h \in 2 .. k}
    <3>1. k - 1 \in 0 .. k - 1 /\ k - (k - 1) = 1 /\ k + 1 - (k - 1) = 2 /\ 1 \in 1 .. k /\ 1 - 1 = 0
      BY <1>1, <1>5
    <3>2. E[k - 1].rest = W[1] /\ E[k - 1].set = {p[h] : h \in 2 .. k}
      BY <3>1
    <3>3. W[1] = p[1]
      <4>1. W[1] = W[0] + BinCoef(p[1], 1) /\ W[0] = 0
        BY <1>1, <1>2, <3>1 DEF Sums
      <4>2. p[1] \in Nat /\ p[1] \in 0 .. CacheN
        BY <1>1, <1>3, <3>1
      <4>3. BinCoef(p[1], 1) = p[1]
        BY <4>2, ClosedForms
      <4> HIDE DEF p
      <4> QED BY <4>1, <4>2, <4>3
    <3> HIDE DEF f, E, p
    <3> QED BY <2>10, <3>2, <3>3
  <2>12. f[k - 1].set \cup {f[k - 1].rest} = S
    <3>1. \A h : h \in 1 .. k <=> h \in 2 .. k \/ h = 1
      BY <1>1, <1>5
    <3>2. {p[h] : h \in 2 .. k} \cup {p[1]} = {p[h] : h \in 1 .. k}
      <4> HIDE DEF p, k
      <4> QED BY <3>1
    <3>3. {p[h] : h \in 1 .. k} = S
      <4>1. \A y \in S : \E h \in 1 .. k : p[h] = y
        BY <1>1 DEF Lists
      <4> HIDE DEF p, k
      <4> QED BY <1>3, <4>1
    <3> HIDE DEF f, p, k
    <3> QED BY <2>11, <3>2, <3>3
  <2>13. Unrank(index, k, u) = f[k - 1].set \cup {f[k - 1].rest}
    BY <1>5 DEF Unrank
  <2> QED BY <2>12, <2>13
<1> QED BY <1>4, <1>5

(* compressor.go and decompressor.go: the rank of k positions is below the *)
(* coefficient it is sent with, and unranking it gives the positions back. *)
THEOREM RankRoundTrip ==
  ASSUME NEW u \in 1 .. CacheN, WordHolds(u), NEW S \in SUBSET (0 .. u - 1)
  PROVE  /\ Rank(IndexSet(S)) \in 0 .. BinCoef(u, Cardinality(S)) - 1
         /\ Unrank(Rank(IndexSet(S)), Cardinality(S), u) = S
<1> DEFINE p == IndexSet(S)
           k == Cardinality(S)
<1>1. u \in Nat /\ u \in 0 .. CacheN
  BY CacheTypes
<1>2. Ascending(p, u) /\ Len(p) = k /\ Lists(p, k, S) /\ k \in Nat
  BY <1>1, IndexSetLists
<1>3. PICK W : Sums(p, W)
  <2> HIDE DEF p
  <2> QED BY <1>1, <1>2, SumsExist
<1>4. Rank(p) = W[k]
  <2>1. Rank(p) = W[Len(p)]
    <3> HIDE DEF p
    <3> QED BY <1>2, <1>3, RankIsSum
  <2> QED BY <1>2, <2>1
<1>5. W[k] \in Nat /\ W[k] < BinCoef(u, k) /\ BinCoef(u, k) \in Nat
  <2>1. BinCoef(u, k) \in Nat
    <3> HIDE DEF k
    <3> QED BY <1>1, <1>2, CoefficientTypes
  <2> HIDE DEF p, k
  <2> QED BY <1>1, <1>2, <1>3, <2>1, SumFits
<1>6. Unrank(W[k], k, u) = S
  BY <1>3, UnrankLaw
<1>7. Rank(p) \in 0 .. BinCoef(u, k) - 1
  <2> HIDE DEF p, k
  <2> QED BY <1>4, <1>5
<1> QED BY <1>4, <1>6, <1>7

-----------------------------------------------------------------------------
(* util.go: numbers, bytes and bits.                                       *)

(* What a sequence of bits consists of.                                    *)
Bit == {0, 1}

(* Sequences of bits, one after the other.                                 *)
Joined(s, t) == s \o t

(* They are sequences of bits again, whatever the grouping.                *)
LEMMA JoinedLaw ==
  /\ \A s, t \in Seq(Bit) : Joined(s, t) \in Seq(Bit) /\ Len(Joined(s, t)) = Len(s) + Len(t)
  /\ \A s, t, u \in Seq(Bit) : Joined(Joined(s, t), u) = Joined(s, Joined(t, u))
  /\ \A s \in Seq(Bit) : Joined(s, <<>>) = s /\ Joined(<<>>, s) = s
  /\ <<>> \in Seq(Bit)
<1>1. \A s, t \in Seq(Bit) : s \o t \in Seq(Bit) /\ Len(s \o t) = Len(s) + Len(t)
  BY ConcatProperties
<1>2. \A s, t, u \in Seq(Bit) : (s \o t) \o u = s \o (t \o u)
  BY ConcatAssociative
<1>3. \A s \in Seq(Bit) : s \o <<>> = s /\ <<>> \o s = s
  BY ConcatEmptySeq
<1> QED BY <1>1, <1>2, <1>3 DEF Joined

(* The bits of the first come first.                                       *)
LEMMA JoinedAt ==
  \A s, t \in Seq(Bit) : \A i \in 1 .. Len(s) + Len(t) :
    Joined(s, t)[i] = IF i <= Len(s) THEN s[i] ELSE t[i - Len(s)]
BY ConcatProperties DEF Joined

(* BitsOf(v, width) is a sequence of bits ...                              *)
LEMMA BitsTypes ==
  ASSUME NEW v \in Nat, NEW width \in Nat
  PROVE  /\ BitsOf(v, width) \in Seq(Bit) /\ Len(BitsOf(v, width)) = width
         /\ \A b \in 1 .. width : BitsOf(v, width)[b] = Upper(v, width - b) % 2
<1>1. ASSUME NEW b \in 1 .. width PROVE Upper(v, width - b) % 2 \in Bit
  <2>1. width - b \in Nat
    OBVIOUS
  <2>2. Upper(v, width - b) \in Nat
    BY <2>1, UpperLaw
  <2> QED BY <2>2 DEF Bit
<1>2. BitsOf(v, width) = [b \in 1 .. width |-> Upper(v, width - b) % 2]
  BY DEF BitsOf, Upper
<1>3. BitsOf(v, width) \in [1 .. width -> Bit]
  BY <1>1, <1>2
<1>4. BitsOf(v, width) \in Seq(Bit) /\ Len(BitsOf(v, width)) = width
  BY <1>3
<1> QED BY <1>2, <1>4

(* ... those of v modulo 2^width ...                                       *)
LEMMA BitsModulo ==
  ASSUME NEW v \in Nat, NEW width \in Nat
  PROVE  BitsOf(Lower(v, width), width) = BitsOf(v, width)
<1>1. ASSUME NEW b \in 1 .. width PROVE Upper(Lower(v, width), width - b) % 2 = Upper(v, width - b) % 2
  <2>1. width - b \in 0 .. width - 1
    OBVIOUS
  <2> QED BY <2>1, LowerBits
<1> QED BY <1>1 DEF BitsOf, Upper

(* The low bits of a remainder.                                            *)
LEMMA BitsLow ==
  ASSUME NEW v \in Nat, NEW n \in Nat, NEW m \in 0 .. n
  PROVE  BitsOf(Lower(v, n), m) = BitsOf(v, m)
<1>1. ASSUME NEW b \in 1 .. m PROVE Upper(Lower(v, n), m - b) % 2 = Upper(v, m - b) % 2
  <2>1. m - b \in 0 .. n - 1
    OBVIOUS
  <2> QED BY <2>1, LowerBits
<1> QED BY <1>1 DEF BitsOf, Upper

(* ... namely its high bits and then its low ones.                         *)
LEMMA BitsSplit ==
  ASSUME NEW v \in Nat, NEW p \in Nat, NEW q \in Nat, NEW t, t = p + q
  PROVE  BitsOf(v, t) = Joined(BitsOf(Upper(v, q), p), BitsOf(v, q))
<1> DEFINE hi == BitsOf(Upper(v, q), p)
           lo == BitsOf(v, q)
<1>1. Upper(v, q) \in Nat /\ \A e \in Nat : Upper(Upper(v, q), e) = Upper(v, q + e)
  BY UpperTypes, UpperUpper
<1>2. /\ hi \in Seq(Bit) /\ Len(hi) = p /\ \A b \in 1 .. p : hi[b] = Upper(Upper(v, q), p - b) % 2
      /\ lo \in Seq(Bit) /\ Len(lo) = q /\ \A b \in 1 .. q : lo[b] = Upper(v, q - b) % 2
      /\ BitsOf(v, p + q) \in Seq(Bit) /\ Len(BitsOf(v, p + q)) = p + q
      /\ \A b \in 1 .. p + q : BitsOf(v, p + q)[b] = Upper(v, (p + q) - b) % 2
  <2>1. p + q \in Nat
    OBVIOUS
  <2> QED BY <1>1, <2>1, BitsTypes
<1> HIDE DEF hi, lo
<1>3. /\ Joined(hi, lo) \in Seq(Bit) /\ Len(Joined(hi, lo)) = p + q
      /\ \A b \in 1 .. p + q : Joined(hi, lo)[b] = IF b <= p THEN hi[b] ELSE lo[b - p]
  <2>1. Joined(hi, lo) \in Seq(Bit) /\ Len(Joined(hi, lo)) = p + q
    BY <1>2, JoinedLaw
  <2>2. Len(hi) = p /\ hi \in Seq(Bit) /\ lo \in Seq(Bit) /\ Len(hi) + Len(lo) = p + q
    BY <1>2
  <2>3. \A b \in 1 .. p + q : Joined(hi, lo)[b] = IF b <= p THEN hi[b] ELSE lo[b - p]
    <3>1. \A b \in 1 .. Len(hi) + Len(lo) :
            Joined(hi, lo)[b] = IF b <= Len(hi) THEN hi[b] ELSE lo[b - Len(hi)]
      BY <2>2, JoinedAt
    <3> QED BY <2>2, <3>1
  <2> QED BY <2>1, <2>3
<1>4. ASSUME NEW b \in 1 .. p + q PROVE BitsOf(v, p + q)[b] = Joined(hi, lo)[b]
  <2>1. CASE b <= p
    <3>1. p - b \in Nat /\ q + (p - b) = (p + q) - b /\ b \in 1 .. p
      BY <2>1
    <3>2. Upper(Upper(v, q), p - b) = Upper(v, (p + q) - b)
      BY <1>1, <3>1
    <3> QED BY <1>2, <1>3, <2>1, <3>1, <3>2
  <2>2. CASE ~(b <= p)
    <3>1. b - p \in 1 .. q /\ q - (b - p) = (p + q) - b
      BY <2>2
    <3> QED BY <1>2, <1>3, <2>2, <3>1
  <2> QED BY <2>1, <2>2
<1>5. BitsOf(v, p + q) = Joined(hi, lo)
  BY <1>2, <1>3, <1>4, SeqEqual
<1> QED BY <1>5 DEF hi, lo

(* Two numbers are joined by a shift and a sum.                            *)
LEMMA BitsJoin ==
  ASSUME NEW a \in Nat, NEW v \in Nat, NEW p \in Nat, NEW q \in Nat,
         NEW u, u = a * 2^q + Lower(v, q), NEW t, t = p + q
  PROVE  BitsOf(u, t) = Joined(BitsOf(a, p), BitsOf(v, q))
<1> DEFINE d == 2^q
           r == Lower(v, q)
<1>1. u = a * d + r
  OBVIOUS
<1>2. d \in Nat \ {0} /\ r \in 0 .. d - 1
  BY PowerPositive, UpperLaw
<1>3. u \in Nat /\ Upper(u, q) = a /\ Lower(u, q) = r
  <2> HIDE DEF r, d
  <2>1. u \in Nat
    BY <1>1, <1>2
  <2>2. u = d * a + r
    BY <1>1, <1>2
  <2>3. (d * a + r) \div d = a /\ (d * a + r) % d = r
    BY <1>2, DivisionUnique
  <2>4. u \div d = a /\ u % d = r
    BY <2>2, <2>3
  <2> QED BY <2>1, <2>4 DEF d, Upper, Lower
<1> HIDE DEF d, r
<1>4. BitsOf(u, t) = Joined(BitsOf(Upper(u, q), p), BitsOf(u, q))
  BY <1>3, BitsSplit
<1>5. BitsOf(u, q) = BitsOf(Lower(u, q), q) /\ BitsOf(r, q) = BitsOf(v, q)
  <2>1. BitsOf(Lower(u, q), q) = BitsOf(u, q)
    BY <1>3, BitsModulo
  <2>2. BitsOf(Lower(v, q), q) = BitsOf(v, q)
    BY BitsModulo
  <2> QED BY <2>1, <2>2 DEF r
<1> QED BY <1>3, <1>4, <1>5

(* A byte is a number of so many bits.                                     *)
LEMMA ByteTypes ==
  /\ ByteBits \in Nat \ {0} /\ 2^ByteBits \in Nat \ {0} /\ Bytes = 0 .. 2^ByteBits - 1
  /\ Bytes \subseteq Nat /\ 0 \in Bytes
<1>1. ByteBits \in Nat \ {0} /\ 2^ByteBits \in Nat \ {0}
  BY BitAssumption, PowerPositive
<1> QED BY <1>1 DEF Bytes

(* Position x is in byte (x - 1) \div ByteBits.                            *)
LEMMA BitPlace ==
  ASSUME NEW k \in Nat, NEW x \in 1 .. ByteBits * k
  PROVE  LET b == ((x - 1) \div ByteBits) + 1  i == ((x - 1) % ByteBits) + 1 IN
         /\ b \in 1 .. k /\ i \in 1 .. ByteBits /\ x = ByteBits * (b - 1) + i
<1> DEFINE q == (x - 1) \div ByteBits
           s == (x - 1) % ByteBits
<1>1. ByteBits \in Nat \ {0} /\ x - 1 \in Nat /\ x \in Nat /\ ByteBits * k \in Nat
  BY ByteTypes
<1>2. q \in Nat /\ s \in 0 .. ByteBits - 1 /\ x - 1 = ByteBits * q + s
  <2>1. ASSUME NEW d \in Nat \ {0}, NEW v \in Nat
        PROVE v \div d \in Nat /\ v % d \in 0 .. d - 1 /\ v = d * (v \div d) + (v % d)
    BY Division
  <2> QED BY <1>1, <2>1
<1> HIDE DEF q, s
<1>3. ~(q >= k)
  <2> SUFFICES ASSUME q >= k PROVE FALSE
    OBVIOUS
  <2>1. ByteBits * q >= ByteBits * k
    BY <1>1, <1>2
  <2>2. ByteBits * q \in Int
    BY <1>1, <1>2
  <2> QED BY <1>1, <1>2, <2>1, <2>2
<1>4. q + 1 \in 1 .. k /\ s + 1 \in 1 .. ByteBits /\ (q + 1) - 1 = q
  BY <1>1, <1>2, <1>3
<1>5. x = ByteBits * q + (s + 1)
  <2>1. ByteBits * q \in Int
    BY <1>1, <1>2
  <2> QED BY <1>1, <1>2, <2>1
<1> QED BY <1>4, <1>5 DEF q, s

(* The bits of bytes.                                                      *)
LEMMA UnpackedTypes ==
  ASSUME NEW bytes \in Seq(Nat)
  PROVE  /\ Unpacked(bytes) \in Seq(Bit) /\ Len(Unpacked(bytes)) = ByteBits * Len(bytes)
         /\ \A b \in 1 .. Len(bytes), i \in 1 .. ByteBits :
              Unpacked(bytes)[ByteBits * (b - 1) + i] = BitsOf(bytes[b], ByteBits)[i]
<1>1. ByteBits \in Nat \ {0} /\ Len(bytes) \in Nat /\ ByteBits * Len(bytes) \in Nat
  BY ByteTypes
<1>2. ASSUME NEW b \in 1 .. Len(bytes), NEW i \in 1 .. ByteBits PROVE BitsOf(bytes[b], ByteBits)[i] \in Bit
  <2>1. bytes[b] \in Nat
    BY <1>2
  <2>2. BitsOf(bytes[b], ByteBits) \in Seq(Bit) /\ Len(BitsOf(bytes[b], ByteBits)) = ByteBits
    BY <1>1, <2>1, BitsTypes
  <2> QED BY <2>2, ElementOfSeq
<1>3. Unpacked(bytes) \in [1 .. ByteBits * Len(bytes) -> Bit]
  <2>1. ASSUME NEW x \in 1 .. ByteBits * Len(bytes)
        PROVE  /\ ((x - 1) \div ByteBits) + 1 \in 1 .. Len(bytes)
               /\ ((x - 1) % ByteBits) + 1 \in 1 .. ByteBits
    BY <1>1, BitPlace
  <2> QED BY <1>2, <2>1 DEF Unpacked
<1>4. Unpacked(bytes) \in Seq(Bit) /\ Len(Unpacked(bytes)) = ByteBits * Len(bytes)
  BY <1>1, <1>3
<1>5. ASSUME NEW b \in 1 .. Len(bytes), NEW i \in 1 .. ByteBits
      PROVE  Unpacked(bytes)[ByteBits * (b - 1) + i] = BitsOf(bytes[b], ByteBits)[i]
  <2> DEFINE x == ByteBits * (b - 1) + i
  <2>1. b - 1 \in Nat /\ i - 1 \in 0 .. ByteBits - 1 /\ b \in Nat /\ i \in Nat
    BY <1>1
  <2>2. x \in 1 .. ByteBits * Len(bytes)
    <3>1. b - 1 < Len(bytes)
      BY <1>1, <2>1
    <3> DEFINE z == ByteBits * (b - 1)
               l == ByteBits * Len(bytes)
    <3>2. z \in Nat /\ l \in Nat /\ z + ByteBits <= l
      BY <1>1, <2>1, <3>1, Multiples
    <3> HIDE DEF z, l
    <3>3. z + i \in 1 .. l
      BY <1>1, <2>1, <3>2
    <3> QED BY <3>3 DEF z, l
  <2>3. x - 1 = ByteBits * (b - 1) + (i - 1)
    <3>1. ByteBits * (b - 1) \in Int
      BY <1>1, <2>1
    <3> QED BY <2>1, <3>1
  <2>4. (ByteBits * (b - 1) + (i - 1)) \div ByteBits = b - 1 /\ (ByteBits * (b - 1) + (i - 1)) % ByteBits = i - 1
    BY <1>1, <2>1, DivisionUnique
  <2> HIDE DEF x
  <2>5. (((x - 1) \div ByteBits) + 1) = b /\ (((x - 1) % ByteBits) + 1) = i
    BY <2>1, <2>3, <2>4
  <2>6. Unpacked(bytes)[x] = BitsOf(bytes[((x - 1) \div ByteBits) + 1], ByteBits)[((x - 1) % ByteBits) + 1]
    BY <2>2 DEF Unpacked
  <2> QED BY <2>5, <2>6 DEF x
<1> QED BY <1>4, <1>5

(* Bytes one after the other have their bits one after the other.          *)
LEMMA UnpackedConcat ==
  ASSUME NEW s \in Seq(Nat), NEW t \in Seq(Nat)
  PROVE  Unpacked(s \o t) = Joined(Unpacked(s), Unpacked(t))
<1> DEFINE m == ByteBits * Len(s)
           l == ByteBits * Len(t)
           u == Joined(Unpacked(s), Unpacked(t))
<1>1. /\ ByteBits \in Nat \ {0} /\ Len(s) \in Nat /\ Len(t) \in Nat
      /\ s \o t \in Seq(Nat) /\ Len(s \o t) = Len(s) + Len(t)
      /\ \A b \in 1 .. Len(s) + Len(t) : (s \o t)[b] = IF b <= Len(s) THEN s[b] ELSE t[b - Len(s)]
  BY ByteTypes, ConcatProperties
<1>2. m \in Nat /\ l \in Nat /\ ByteBits * (Len(s) + Len(t)) = m + l
  BY <1>1
<1>3. /\ Unpacked(s) \in Seq(Bit) /\ Len(Unpacked(s)) = m
      /\ Unpacked(t) \in Seq(Bit) /\ Len(Unpacked(t)) = l
      /\ Unpacked(s \o t) \in Seq(Bit) /\ Len(Unpacked(s \o t)) = m + l
  BY <1>1, <1>2, UnpackedTypes
<1>4. /\ u \in Seq(Bit) /\ Len(u) = m + l
      /\ \A x \in 1 .. m + l : u[x] = IF x <= m THEN Unpacked(s)[x] ELSE Unpacked(t)[x - m]
  <2> DEFINE y == Unpacked(s)
             z == Unpacked(t)
  <2>1. y \in Seq(Bit) /\ z \in Seq(Bit) /\ Len(y) = m /\ Len(z) = l
    BY <1>3
  <2> HIDE DEF m, l, y, z
  <2>2. Joined(y, z) \in Seq(Bit) /\ Len(Joined(y, z)) = m + l
    BY <2>1, JoinedLaw
  <2>3. \A x \in 1 .. m + l : Joined(y, z)[x] = IF x <= m THEN y[x] ELSE z[x - m]
    BY <2>1, JoinedAt
  <2> QED BY <2>2, <2>3 DEF y, z
<1> HIDE DEF u
<1>5. ASSUME NEW x \in 1 .. m + l PROVE Unpacked(s \o t)[x] = u[x]
  <2>1. PICK b \in 1 .. Len(s) + Len(t), i \in 1 .. ByteBits : x = ByteBits * (b - 1) + i
    <3>1. x \in 1 .. ByteBits * (Len(s) + Len(t)) /\ Len(s) + Len(t) \in Nat
      BY <1>1, <1>2
    <3> QED BY <3>1, BitPlace
  <2>2. Unpacked(s \o t)[x] = BitsOf((s \o t)[b], ByteBits)[i]
    <3>1. b \in 1 .. Len(s \o t)
      BY <1>1
    <3>2. Unpacked(s \o t)[ByteBits * (b - 1) + i] = BitsOf((s \o t)[b], ByteBits)[i]
      BY <1>1, <3>1, UnpackedTypes
    <3> QED BY <2>1, <3>2
  <2>3. b - 1 \in Nat /\ i \in Nat /\ b \in Nat /\ ByteBits * (b - 1) \in Nat
    BY <1>1
  <2>4. CASE b <= Len(s)
    <3>1. b \in 1 .. Len(s)
      BY <2>4
    <3>2. x <= m
      <4>1. b - 1 < Len(s)
        BY <1>1, <2>3, <2>4
      <4> DEFINE z == ByteBits * (b - 1)
      <4>2. z + ByteBits <= m /\ z \in Nat /\ m \in Nat
        BY <1>1, <2>3, <4>1, Multiples
      <4>3. x = z + i
        BY <2>1
      <4> HIDE DEF z, m
      <4> QED BY <1>1, <2>3, <4>2, <4>3
    <3>3. u[x] = BitsOf(s[b], ByteBits)[i]
      BY <1>4, <2>1, <3>1, <3>2, UnpackedTypes
    <3> QED BY <1>1, <2>2, <2>4, <3>3
  <2>5. CASE ~(b <= Len(s))
    <3>1. b - Len(s) \in 1 .. Len(t) /\ (b - Len(s)) - 1 = (b - 1) - Len(s)
      BY <1>1, <2>3, <2>5
    <3>2. ByteBits * ((b - 1) - Len(s)) = ByteBits * (b - 1) - m
      BY <1>1, <2>3
    <3>3. (b - 1) - Len(s) \in Nat
      BY <1>1, <2>3, <2>5
    <3>4. ByteBits * ((b - 1) - Len(s)) >= 0
      <4>1. ASSUME NEW z \in Nat PROVE ByteBits * z >= 0
        BY <1>1
      <4> QED BY <3>3, <4>1
    <3>5. ~(x <= m) /\ x - m = ByteBits * ((b - Len(s)) - 1) + i
      <4> DEFINE z == ByteBits * (b - 1)
                 d == ByteBits * ((b - 1) - Len(s))
      <4>1. z \in Nat /\ m \in Nat /\ i \in Nat /\ i >= 1 /\ d = z - m /\ d >= 0 /\ x = z + i
        BY <1>2, <2>1, <2>3, <3>2, <3>4
      <4>2. d = ByteBits * ((b - Len(s)) - 1)
        BY <3>1
      <4> HIDE DEF z, d, m
      <4>3. ~(x <= m) /\ x - m = d + i
        BY <4>1
      <4> QED BY <4>2, <4>3
    <3>6. Unpacked(t)[ByteBits * ((b - Len(s)) - 1) + i] = BitsOf(t[b - Len(s)], ByteBits)[i]
      BY <3>1, UnpackedTypes
    <3>7. u[x] = BitsOf(t[b - Len(s)], ByteBits)[i]
      BY <1>4, <3>5, <3>6
    <3> QED BY <1>1, <2>2, <2>5, <3>7
  <2> QED BY <2>4, <2>5
<1>6. Unpacked(s \o t) = u
  BY <1>3, <1>4, <1>5, SeqEqual
<1> QED BY <1>6 DEF u

(* The k bytes of a number above its low bits.                             *)
Cut(v, k, t) == [b \in 1 .. k |-> Lower(Upper(v, t - b * ByteBits), ByteBits)]

(* They hold the bits of that number without the low ones.                 *)
LEMMA UnpackedBytes ==
  ASSUME NEW v \in Nat, NEW k \in Nat, NEW rest \in Nat,
         NEW w, w = k * ByteBits, NEW t, t = w + rest
  PROVE  /\ Cut(v, k, t) \in Seq(Bytes) /\ Len(Cut(v, k, t)) = k
         /\ Unpacked(Cut(v, k, t)) = BitsOf(Upper(v, rest), w)
<1> DEFINE bytes == Cut(v, k, t)
           u == Upper(v, rest)
           bits == BitsOf(u, w)
<1>1. /\ ByteBits \in Nat \ {0} /\ ByteBits \in Nat /\ w \in Nat /\ ByteBits * k = w
      /\ u \in Nat /\ \A h \in Nat : Upper(u, h) = Upper(v, rest + h)
  <2>1. ByteBits \in Nat \ {0} /\ ByteBits \in Nat
    BY ByteTypes
  <2>2. w \in Nat /\ ByteBits * k = w
    BY <2>1
  <2>3. u \in Nat /\ \A h \in Nat : Upper(u, h) = Upper(v, rest + h)
    BY UpperTypes, UpperUpper
  <2> QED BY <2>1, <2>2, <2>3
<1>2. \A b \in 1 .. k : bytes[b] = Lower(Upper(v, t - b * ByteBits), ByteBits)
  BY DEF Cut
<1>3. bytes = [b \in 1 .. k |-> bytes[b]]
  BY DEF Cut
<1> HIDE DEF bytes
<1>4. ASSUME NEW b \in 1 .. k
      PROVE  /\ t - b * ByteBits \in Nat /\ ByteBits * (b - 1) = b * ByteBits - ByteBits
             /\ b * ByteBits \in Nat
  <2> DEFINE y == b * ByteBits
  <2>1. ByteBits * b <= ByteBits * k /\ ByteBits * b \in Nat
    BY <1>1, Multiples
  <2>2. y = ByteBits * b /\ ByteBits * (b - 1) = y - ByteBits
    BY <1>1
  <2>3. y <= w /\ y \in Nat
    BY <1>1, <2>1, <2>2
  <2> HIDE DEF y
  <2>4. t - y \in Nat
    BY <1>1, <2>3
  <2> QED BY <2>2, <2>3, <2>4 DEF y
<1>5. bytes \in Seq(Bytes) /\ Len(bytes) = k
  <2>1. ASSUME NEW b \in 1 .. k PROVE bytes[b] \in Bytes
    <3>1. PICK f \in Nat : f = t - b * ByteBits
      BY <1>4
    <3>2. PICK y \in Nat : y = Upper(v, f)
      BY UpperTypes, UpperUpper
    <3>3. Lower(y, ByteBits) \in 0 .. 2^ByteBits - 1
      BY <1>1, UpperLaw
    <3> QED BY <1>2, <3>1, <3>2, <3>3 DEF Bytes
  <2>2. bytes \in [1 .. k -> Bytes]
    BY <1>3, <2>1
  <2> QED BY <2>2
<1>6. /\ Unpacked(bytes) \in Seq(Bit) /\ Len(Unpacked(bytes)) = w
      /\ \A b \in 1 .. k, i \in 1 .. ByteBits : Unpacked(bytes)[ByteBits * (b - 1) + i] = BitsOf(bytes[b], ByteBits)[i]
  <2>1. bytes \in Seq(Nat)
    BY <1>5, ByteTypes, SeqMonotonic
  <2> QED BY <1>1, <1>5, <2>1, UnpackedTypes
<1>7. /\ bits \in Seq(Bit) /\ Len(bits) = w
      /\ \A x \in 1 .. w : bits[x] = Upper(u, w - x) % 2
  <2> HIDE DEF u
  <2> QED BY <1>1, BitsTypes
<1> HIDE DEF bits, u
<1>8. (\A f \in Nat : Upper(v, f) \in Nat) /\ (\A f, j \in Nat : Upper(Upper(v, f), j) = Upper(v, f + j))
  <2>1. \A f \in Nat : Upper(v, f) \in Nat
    BY UpperTypes
  <2>2. \A f, j \in Nat : Upper(Upper(v, f), j) = Upper(v, f + j)
    BY UpperUpper
  <2> QED BY <2>1, <2>2
<1>9. \A y \in Nat, i \in 1 .. ByteBits : BitsOf(Lower(y, ByteBits), ByteBits)[i] = Upper(y, ByteBits - i) % 2
  <2>1. \A y \in Nat : BitsOf(Lower(y, ByteBits), ByteBits) = BitsOf(y, ByteBits)
    BY <1>1, BitsModulo
  <2>2. \A y \in Nat, i \in 1 .. ByteBits : BitsOf(y, ByteBits)[i] = Upper(y, ByteBits - i) % 2
    BY <1>1, BitsTypes
  <2> QED BY <2>1, <2>2
<1>10. ASSUME NEW x \in 1 .. w PROVE Unpacked(bytes)[x] = bits[x]
  <2>1. PICK b \in 1 .. k, i \in 1 .. ByteBits : x = ByteBits * (b - 1) + i
    <3>1. x \in 1 .. ByteBits * k
      BY <1>1
    <3> QED BY <3>1, BitPlace
  <2>2. PICK f \in Nat : f = t - b * ByteBits
    BY <1>4
  <2>3. PICK h \in Nat : h = w - x
    BY <1>1
  <2>4. PICK j \in Nat : j = ByteBits - i
    BY <1>1
  <2>5. f + j = rest + h
    BY <1>1, <1>4, <2>1, <2>2, <2>3, <2>4
  <2> DEFINE y == Upper(v, f)
  <2>6. y \in Nat /\ Upper(y, j) = Upper(v, f + j)
    BY <1>8
  <2>7. Unpacked(bytes)[x] = BitsOf(Lower(y, ByteBits), ByteBits)[i]
    BY <1>2, <1>6, <2>1, <2>2
  <2>8. bits[x] = Upper(v, rest + h) % 2
    BY <1>1, <1>7, <2>3
  <2> HIDE DEF y
  <2>9. BitsOf(Lower(y, ByteBits), ByteBits)[i] = Upper(y, j) % 2
    BY <1>9, <2>4, <2>6
  <2> QED BY <2>5, <2>7, <2>8, <2>9, <2>6
<1>11. Unpacked(bytes) = bits
  BY <1>1, <1>6, <1>7, <1>10, SeqEqual
<1> QED BY <1>5, <1>11 DEF bits, u, bytes

(* Between writes less than a byte is pending.                             *)
Writers == [buf : Seq(Bytes), acc : Nat, nAcc : 0 .. ByteBits - 1]
Sound(w) == w \in Writers /\ w.acc \in 0 .. 2^w.nAcc - 1

(* The bits written so far.                                                *)
Held(w) == Joined(Unpacked(w.buf), BitsOf(w.acc, w.nAcc))

(* In a writer that is sound there are bits.                               *)
LEMMA HeldTypes ==
  ASSUME NEW w, Sound(w)
  PROVE  /\ w.buf \in Seq(Nat) /\ w.acc \in Nat /\ w.nAcc \in Nat /\ 2^w.nAcc \in Nat \ {0}
         /\ Unpacked(w.buf) \in Seq(Bit) /\ BitsOf(w.acc, w.nAcc) \in Seq(Bit)
         /\ Held(w) \in Seq(Bit)
<1>1. w.buf \in Seq(Bytes) /\ w.nAcc \in Nat /\ w.acc \in Nat
  BY DEF Sound, Writers
<1>2. w.buf \in Seq(Nat) /\ w.nAcc \in Nat
  BY <1>1, ByteTypes, SeqMonotonic
<1>3. 2^w.nAcc \in Nat \ {0}
  BY <1>2, PowerPositive
<1>4. w.acc \in Nat
  BY <1>1
<1>5. Unpacked(w.buf) \in Seq(Bit) /\ BitsOf(w.acc, w.nAcc) \in Seq(Bit)
  BY <1>2, <1>4, UnpackedTypes, BitsTypes
<1>6. Held(w) \in Seq(Bit)
  BY <1>5, JoinedLaw DEF Held
<1> QED BY <1>2, <1>3, <1>4, <1>5, <1>6

(* The pending bits and the new ones fit in a word.                        *)
LEMMA PushedLaw ==
  ASSUME NEW w, Sound(w), NEW v \in Nat, NEW n \in 0 .. MaxWidth
  PROVE  /\ n \in Nat /\ Pushed(w, v, n) \in Nat
         /\ BitsOf(Pushed(w, v, n), w.nAcc + n) = Joined(BitsOf(w.acc, w.nAcc), BitsOf(v, n))
<1> DEFINE a == w.acc
           m == w.nAcc
           d == 2^n
           r == Lower(v, n)
<1>1. AccBits \in Nat /\ ByteBits \in Nat \ {0} /\ n \in Nat /\ MaxWidth = AccBits - ByteBits
  BY BitAssumption DEF MaxWidth
<1>2. /\ m \in 0 .. ByteBits - 1 /\ m \in Nat /\ a \in 0 .. 2^m - 1 /\ a \in Nat
      /\ 2^m \in Nat \ {0} /\ d \in Nat \ {0} /\ r \in 0 .. d - 1
  BY <1>1, HeldTypes, PowerPositive, UpperLaw DEF Sound, Writers
<1>3. m + n \in Nat /\ m + n <= AccBits /\ 2^(m + n) = 2^m * d /\ 2^(m + n) <= Word /\ Word \in Nat
  <2>1. m + n \in Nat /\ m + n <= AccBits
    BY <1>1, <1>2
  <2> QED BY <1>1, <1>2, <2>1, PowerSum, PowerGrows, PowerPositive DEF Word
<1> HIDE DEF a, m, d, r
<1>4. d * a + d <= 2^m * d
  <2>1. a < 2^m /\ 2^m \in Nat
    BY <1>2
  <2>2. d * a + d <= d * 2^m
    <3> DEFINE p == 2^m
    <3> HIDE DEF p
    <3>1. a < p /\ p \in Nat
      BY <2>1 DEF p
    <3>2. d * a + d <= d * p
      BY <1>2, <3>1, Multiples
    <3> QED BY <3>2 DEF p
  <2> QED BY <1>2, <2>1, <2>2
<1>5. a * d \in Nat /\ a * d = d * a /\ a * d < Word
  <2>1. d * a \in Nat /\ a * d = d * a
    BY <1>2
  <2> QED BY <1>2, <1>3, <1>4, <2>1
<1>6. (a * d) % Word = a * d
  <2>1. Word \in Nat \ {0} /\ a * d \in 0 .. Word - 1
    BY <1>3, <1>5
  <2> QED BY <2>1, Within
<1>7. Pushed(w, v, n) = a * d + r
  BY <1>6 DEF Pushed, a, d, r, Lower
<1>8. a * d + r \in Nat
  BY <1>2, <1>5
<1>9. BitsOf(a * 2^n + Lower(v, n), m + n) = Joined(BitsOf(a, m), BitsOf(v, n))
  <2>1. a * 2^n + Lower(v, n) = a * 2^n + Lower(v, n) /\ m + n = m + n
    OBVIOUS
  <2> QED BY <1>1, <1>2, <2>1, BitsJoin
<1> QED BY <1>1, <1>7, <1>8, <1>9 DEF a, m, d, r

(* util.go, WriteBits: the low n bits of v come after the ones before.     *)
LEMMA WriteBitsLaw ==
  ASSUME NEW w, Sound(w), NEW v \in Nat, NEW n \in 0 .. MaxWidth
  PROVE  /\ Sound(WriteBits(w, v, n))
         /\ Held(WriteBits(w, v, n)) = Joined(Held(w), BitsOf(v, n))
<1> DEFINE A == Pushed(w, v, n)
           t == w.nAcc + n
           whole == t \div ByteBits
           rest == t % ByteBits
           bytes == Cut(A, whole, t)
           high == whole * ByteBits
           x == WriteBits(w, v, n)
<1>1. /\ n \in Nat /\ A \in Nat /\ t \in Nat /\ ByteBits \in Nat \ {0}
      /\ BitsOf(A, t) = Joined(BitsOf(w.acc, w.nAcc), BitsOf(v, n))
  <2>1. w.nAcc \in Nat /\ ByteBits \in Nat \ {0}
    BY HeldTypes, ByteTypes
  <2>2. n \in Nat /\ A \in Nat /\ BitsOf(A, t) = Joined(BitsOf(w.acc, w.nAcc), BitsOf(v, n))
    BY PushedLaw, Zenon
  <2> HIDE DEF A
  <2>3. t \in Nat
    BY <2>1, <2>2
  <2> QED BY <2>1, <2>2, <2>3
<1>2. whole \in Nat /\ rest \in 0 .. ByteBits - 1 /\ rest \in Nat /\ t = high + rest
      /\ high \in Nat
  <2> HIDE DEF t
  <2>1. whole \in Nat /\ rest \in 0 .. ByteBits - 1 /\ t = whole * ByteBits + rest
    BY <1>1, Division
  <2> HIDE DEF whole, rest
  <2> QED BY <1>1, <2>1
<1>3. x = [buf |-> w.buf \o bytes, acc |-> Lower(A, rest), nAcc |-> rest]
  <2>1. x = [buf |-> w.buf \o [b \in 1 .. whole |-> Lower(Upper(A, t - b * ByteBits), ByteBits)],
             acc |-> Lower(A, rest), nAcc |-> rest]
    BY DEF WriteBits, Pending, Upper, Lower
  <2>2. bytes = [b \in 1 .. whole |-> Lower(Upper(A, t - b * ByteBits), ByteBits)]
    BY DEF Cut
  <2> QED BY <2>1, <2>2
<1>4. high = whole * ByteBits
  OBVIOUS
<1> HIDE DEF A, t, whole, rest, high
<1>5. bytes \in Seq(Bytes) /\ Unpacked(bytes) = BitsOf(Upper(A, rest), high)
  <2>1. whole \in Nat /\ rest \in Nat /\ A \in Nat
    BY <1>1, <1>2
  <2>2. t = high + rest
    BY <1>2
  <2> QED BY <1>4, <2>1, <2>2, UnpackedBytes
<1>6. Lower(A, rest) \in 0 .. 2^rest - 1 /\ BitsOf(Lower(A, rest), rest) = BitsOf(A, rest) /\ Upper(A, rest) \in Nat
  BY <1>1, <1>2, UpperLaw, BitsModulo, UpperTypes
<1>7. Lower(A, rest) \in Nat
  BY <1>1, <1>2, UpperLaw
<1> HIDE DEF bytes
<1>8. w.buf \o bytes \in Seq(Bytes) /\ Unpacked(w.buf \o bytes) = Joined(Unpacked(w.buf), Unpacked(bytes))
  <2>1. bytes \in Seq(Nat) /\ w.buf \in Seq(Nat)
    BY <1>5, ByteTypes, SeqMonotonic, HeldTypes
  <2> QED BY <1>5, <2>1, UnpackedConcat, ConcatProperties DEF Sound, Writers
<1> HIDE DEF x
<1>9. x.buf = w.buf \o bytes /\ x.acc = Lower(A, rest) /\ x.nAcc = rest
  BY <1>3
<1>10. Sound(x)
  <2>1. x = [buf |-> w.buf \o bytes, acc |-> Lower(A, rest), nAcc |-> rest]
    BY <1>3
  <2>2. x \in Writers
    BY <1>2, <1>8, <1>7, <2>1 DEF Writers
  <2> QED BY <1>6, <1>9, <2>2 DEF Sound
<1>11. BitsOf(A, t) = Joined(Unpacked(bytes), BitsOf(A, rest))
  <2>1. BitsOf(A, t) = Joined(BitsOf(Upper(A, rest), high), BitsOf(A, rest))
    BY <1>1, <1>2, BitsSplit
  <2> QED BY <1>2, <1>5, <2>1
<1>12. /\ Unpacked(w.buf) \in Seq(Bit) /\ Unpacked(bytes) \in Seq(Bit) /\ BitsOf(A, rest) \in Seq(Bit)
      /\ BitsOf(w.acc, w.nAcc) \in Seq(Bit) /\ BitsOf(v, n) \in Seq(Bit)
  <2>1. bytes \in Seq(Nat)
    BY <1>5, ByteTypes, SeqMonotonic
  <2> QED BY <1>1, <1>2, <2>1, HeldTypes, BitsTypes, UnpackedTypes
<1>13. Held(x) = Joined(Unpacked(w.buf), Joined(Unpacked(bytes), BitsOf(A, rest)))
  BY <1>6, <1>8, <1>9, <1>12, JoinedLaw DEF Held
<1>14. Joined(Held(w), BitsOf(v, n)) = Joined(Unpacked(w.buf), Joined(BitsOf(w.acc, w.nAcc), BitsOf(v, n)))
  BY <1>12, JoinedLaw DEF Held
<1> QED BY <1>1, <1>10, <1>11, <1>13, <1>14 DEF x

(* Zeros are the bits of zero.                                             *)
LEMMA ZeroBits ==
  ASSUME NEW p \in Nat, NEW q \in Nat, NEW t, t = p + q
  PROVE  BitsOf(0, t) = Joined(BitsOf(0, p), BitsOf(0, q))
<1>1. Upper(0, q) = 0
  <2>1. 2^q \in Nat \ {0}
    BY PowerPositive
  <2>2. \A d \in Nat \ {0} : 0 \div d = 0
    OBVIOUS
  <2> QED BY <2>1, <2>2 DEF Upper
<1>2. BitsOf(0, t) = Joined(BitsOf(Upper(0, q), p), BitsOf(0, q))
  BY BitsSplit
<1> QED BY <1>1, <1>2

(* No bits.                                                                *)
LEMMA NoBits == \A v \in Nat : BitsOf(v, 0) = <<>>
<1>1. ASSUME NEW v \in Nat PROVE BitsOf(v, 0) = <<>>
  <2>1. BitsOf(v, 0) \in Seq(Bit) /\ Len(BitsOf(v, 0)) = 0
    BY BitsTypes
  <2> QED BY <2>1, EmptySeq
<1> QED BY <1>1

(* x is w with some bits written after the ones before.                    *)
Adds(x, w, bits) == Sound(x) /\ Held(x) = Joined(Held(w), bits)

(* One write after the other.                                              *)
LEMMA AddsTwice ==
  ASSUME NEW w, Sound(w), NEW x, NEW y, NEW s \in Seq(Bit), NEW t \in Seq(Bit),
         Adds(x, w, s), Adds(y, x, t)
  PROVE  Adds(y, w, Joined(s, t))
<1>1. Held(w) \in Seq(Bit)
  BY HeldTypes
<1>2. Joined(Joined(Held(w), s), t) = Joined(Held(w), Joined(s, t))
  BY <1>1, JoinedLaw
<1> QED BY <1>2 DEF Adds

(* Writing nothing.                                                        *)
LEMMA AddsNothing ==
  ASSUME NEW w, Sound(w)
  PROVE  Adds(w, w, <<>>)
<1>1. Held(w) \in Seq(Bit)
  BY HeldTypes
<1> QED BY <1>1, JoinedLaw DEF Adds

(* util.go, WriteZeros: n zeros come after the bits before.                *)
LEMMA WriteZerosLaw ==
  ASSUME NEW w, Sound(w), NEW n \in Nat
  PROVE  Adds(WriteZeros(w, n), w, BitsOf(0, n))
<1> DEFINE k == n \div ZeroChunk
           rest == n % ZeroChunk
           Chunk == CHOOSE f : f = [c \in 0 .. k |-> IF c = 0 THEN w ELSE WriteBits(f[c - 1], 0, ZeroChunk)]
           S == {x \in Writers : Sound(x)}
           V == [c \in 0 .. k |-> S]
           G == [c \in 1 .. k |-> [x \in S |-> WriteBits(x, 0, ZeroChunk)]]
<1>1. /\ ZeroChunk \in Nat \ {0} /\ ZeroChunk \in 0 .. MaxWidth
      /\ \A r \in 0 .. ZeroChunk - 1 : r \in 0 .. MaxWidth
  BY BitAssumption DEF MaxWidth
<1>2. k \in Nat /\ rest \in 0 .. ZeroChunk - 1 /\ n = k * ZeroChunk + rest
  BY <1>1, Division
<1>3. WriteZeros(w, n) = WriteBits(Chunk[k], 0, rest)
  BY DEF WriteZeros
<1> HIDE DEF k, rest
<1>4. \A x \in S : WriteBits(x, 0, ZeroChunk) \in S
  <2>1. ASSUME NEW x, Sound(x) PROVE Sound(WriteBits(x, 0, ZeroChunk))
    BY <1>1, <2>1, WriteBitsLaw
  <2> QED BY <2>1 DEF Sound
<1>5. PICK g : g = [c \in 0 .. k |-> IF c = 0 THEN w ELSE WriteBits(g[c - 1], 0, ZeroChunk)]
  <2>1. w \in V[0]
    BY <1>2 DEF Sound
  <2>2. ASSUME NEW c \in 0 + 1 .. k, NEW x \in V[c - 1] PROVE G[c][x] \in V[c] /\ G[c][x] = WriteBits(x, 0, ZeroChunk)
    <3>1. c \in 1 .. k /\ c \in 0 .. k /\ c - 1 \in 0 .. k
      BY <1>2
    <3>2. x \in S
      BY <3>1
    <3> HIDE DEF S
    <3> QED BY <1>4, <3>1, <3>2
  <2> HIDE DEF G
  <2>3. \E g : Follows(g, 0, k, w, G) /\ \A c \in 0 .. k : g[c] \in V[c]
    <3> HIDE DEF V
    <3>1. 0 \in Int /\ k \in Int
      BY <1>2
    <3> QED BY <2>1, <2>2, <3>1, Recursion
  <2>4. PICK g : Follows(g, 0, k, w, G) /\ \A c \in 0 .. k : g[c] \in V[c]
    BY <2>3
  <2>5. ASSUME NEW c \in 0 .. k, c # 0 PROVE G[c][g[c - 1]] = WriteBits(g[c - 1], 0, ZeroChunk)
    <3>1. c \in 0 + 1 .. k /\ c - 1 \in 0 .. k
      BY <1>2, <2>5
    <3>2. g[c - 1] \in V[c - 1]
      BY <2>4, <3>1
    <3> QED BY <2>2, <3>1, <3>2
  <2>6. g = [c \in 0 .. k |-> IF c = 0 THEN w ELSE G[c][g[c - 1]]]
    BY <2>4 DEF Follows
  <2> QED BY <2>5, <2>6
<1>6. Chunk = [c \in 0 .. k |-> IF c = 0 THEN w ELSE WriteBits(Chunk[c - 1], 0, ZeroChunk)]
  BY <1>5
<1> HIDE DEF Chunk
<1> DEFINE T == {c \in 0 .. k : Adds(Chunk[c], w, BitsOf(0, c * ZeroChunk))}
<1>7. 0 \in T
  <2>1. Chunk[0] = w /\ 0 * ZeroChunk = 0 /\ 0 \in 0 .. k
    BY <1>1, <1>2, <1>6
  <2> QED BY <2>1, NoBits, AddsNothing
<1>8. ASSUME NEW c \in 0 .. k - 1, c \in T PROVE c + 1 \in T
  <2> DEFINE a == c * ZeroChunk
  <2>1. /\ c + 1 \in 0 .. k /\ c + 1 # 0 /\ (c + 1) - 1 = c
        /\ a \in Nat /\ (c + 1) * ZeroChunk = a + ZeroChunk
    BY <1>1, <1>2
  <2>2. Chunk[c + 1] = WriteBits(Chunk[c], 0, ZeroChunk)
    BY <1>6, <2>1
  <2>3. Adds(Chunk[c], w, BitsOf(0, a))
    BY <1>8
  <2> HIDE DEF a
  <2>4. Adds(Chunk[c + 1], Chunk[c], BitsOf(0, ZeroChunk))
    BY <1>1, <2>2, <2>3, WriteBitsLaw DEF Adds
  <2>5. BitsOf(0, a) \in Seq(Bit) /\ BitsOf(0, ZeroChunk) \in Seq(Bit)
    BY <1>1, <2>1, BitsTypes
  <2>6. Adds(Chunk[c + 1], w, Joined(BitsOf(0, a), BitsOf(0, ZeroChunk)))
    BY <2>3, <2>4, <2>5, AddsTwice
  <2>7. BitsOf(0, a + ZeroChunk) = Joined(BitsOf(0, a), BitsOf(0, ZeroChunk))
    BY <1>1, <2>1, ZeroBits
  <2> QED BY <2>1, <2>6, <2>7
<1>9. k \in T
  <2>1. 0 .. k \subseteq T
    <3>1. 0 \in Int /\ k \in Int
      BY <1>2
    <3> HIDE DEF T
    <3> QED BY <1>7, <1>8, <3>1, Induction
  <2>2. k \in 0 .. k
    BY <1>2
  <2> QED BY <2>1, <2>2
<1> DEFINE a == k * ZeroChunk
<1>10. a \in Nat /\ n = a + rest /\ rest \in Nat /\ rest \in 0 .. MaxWidth
  BY <1>1, <1>2
<1>11. Adds(Chunk[k], w, BitsOf(0, a))
  BY <1>9
<1> HIDE DEF a
<1>12. Adds(WriteZeros(w, n), Chunk[k], BitsOf(0, rest))
  BY <1>3, <1>10, <1>11, WriteBitsLaw DEF Adds
<1>13. BitsOf(0, a) \in Seq(Bit) /\ BitsOf(0, rest) \in Seq(Bit)
  BY <1>10, BitsTypes
<1>14. Adds(WriteZeros(w, n), w, Joined(BitsOf(0, a), BitsOf(0, rest)))
  BY <1>11, <1>12, <1>13, AddsTwice
<1>15. BitsOf(0, n) = Joined(BitsOf(0, a), BitsOf(0, rest))
  BY <1>10, ZeroBits
<1> QED BY <1>14, <1>15

(* util.go, ReadBigInt and WriteBigIntBits: the bytes that hold a bits,    *)
(* all but the first of them full.                                         *)
LEMMA BytesForLaw ==
  ASSUME NEW a \in Nat
  PROVE  /\ BytesFor(a) \in Nat /\ (a = 0 <=> BytesFor(a) = 0)
         /\ a # 0 => a - (BytesFor(a) - 1) * ByteBits \in 1 .. ByteBits
<1> DEFINE c == a + ByteBits - 1
           l == c \div ByteBits
           r == c % ByteBits
           z == l * ByteBits
<1>1. ByteBits \in Nat \ {0} /\ c \in Nat
  BY ByteTypes
<1>2. BytesFor(a) = l
  BY DEF BytesFor
<1>3. l \in Nat /\ r \in 0 .. ByteBits - 1 /\ c = z + r
  <2> HIDE DEF c
  <2> QED BY <1>1, Division
<1>4. z \in Nat /\ (l - 1) * ByteBits = z - ByteBits /\ (l = 0 => z = 0) /\ (l # 0 => z >= ByteBits)
  <2> HIDE DEF l
  <2>1. ASSUME NEW d \in Nat \ {0}
        PROVE  l * d \in Nat /\ (l - 1) * d = l * d - d /\ (l = 0 => l * d = 0) /\ (l # 0 => l * d >= d)
    <3>1. l * d \in Nat /\ (l - 1) * d = l * d - d /\ (l = 0 => l * d = 0)
      BY <1>3
    <3>2. ASSUME l # 0 PROVE l * d >= d
      <4>1. l - 1 \in Nat
        BY <1>3, <3>2
      <4>2. (l - 1) * d \in Nat
        BY <4>1
      <4> QED BY <3>1, <4>2
    <3> QED BY <3>1, <3>2
  <2> QED BY <1>1, <2>1
<1> HIDE DEF l, r, z
<1>5. a = z + r - ByteBits + 1
  BY <1>1, <1>3, <1>4
<1>6. a = 0 <=> l = 0
  BY <1>1, <1>3, <1>4, <1>5
<1>7. a # 0 => a - (l - 1) * ByteBits \in 1 .. ByteBits
  BY <1>1, <1>3, <1>4, <1>5
<1> QED BY <1>2, <1>3, <1>6, <1>7

(* util.go, WriteBigIntBits: the value comes after the bits before, in as  *)
(* many bits as asked for.                                                 *)
LEMMA WriteBigIntBitsLaw ==
  ASSUME NEW w, Sound(w), NEW v \in Nat, NEW n \in Nat, v < 2^n
  PROVE  Adds(WriteBigIntBits(w, v, n), w, BitsOf(v, n))
<1> DEFINE actual == BitLength(v)
           L == BytesFor(actual)
           bytes == BytesOf(v, L)
           padded == IF actual < n THEN WriteZeros(w, n - actual) ELSE w
           top == actual - (L - 1) * ByteBits
           Byte == CHOOSE f : f = [b \in 0 .. Len(bytes) |->
                     IF b = 0 THEN padded
                     ELSE WriteBits(f[b - 1], bytes[b], IF b = 1 THEN actual - (Len(bytes) - 1) * ByteBits ELSE ByteBits)]
<1>1. WriteBigIntBits(w, v, n) = Byte[Len(bytes)]
  BY DEF WriteBigIntBits
<1>2. actual \in Nat /\ actual <= n /\ v < 2^actual
  BY BitLengthHolds, BitLengthLeast
<1> HIDE DEF actual
<1>3. /\ L \in Nat /\ (L = 0 <=> actual = 0) /\ (L # 0 => top \in 1 .. ByteBits)
      /\ ByteBits \in Nat \ {0}
  BY <1>2, BytesForLaw, ByteTypes
<1> HIDE DEF L
<1>4. /\ Len(bytes) = L
      /\ \A b \in 1 .. L : bytes[b] = Lower(Upper(v, ByteBits * (L - b)), ByteBits)
  <2>1. bytes = [b \in 1 .. L |-> Lower(Upper(v, ByteBits * (L - b)), ByteBits)]
    BY DEF BytesOf, Lower, Upper
  <2> HIDE DEF bytes
  <2>2. Len([b \in 1 .. L |-> Lower(Upper(v, ByteBits * (L - b)), ByteBits)]) = L
    BY <1>3
  <2> QED BY <2>1, <2>2
<1> HIDE DEF bytes
<1> DEFINE W == [b \in 1 .. L |-> IF b = 1 THEN top ELSE ByteBits]
<1>5. /\ \A b \in 1 .. L : W[b] \in 0 .. MaxWidth /\ W[b] \in 0 .. ByteBits
      /\ \A b \in 1 .. L : W[b] = IF b = 1 THEN actual - (Len(bytes) - 1) * ByteBits ELSE ByteBits
  <2>1. ByteBits <= MaxWidth /\ MaxWidth \in Int
    BY BitAssumption DEF MaxWidth
  <2>2. L # 0 => top \in 0 .. ByteBits /\ top \in 0 .. MaxWidth
    BY <1>3, <2>1
  <2>3. ByteBits \in 0 .. ByteBits /\ ByteBits \in 0 .. MaxWidth
    BY <1>3, <2>1
  <2>4. \A b \in 1 .. L : L # 0
    BY <1>3
  <2>5. top = actual - (Len(bytes) - 1) * ByteBits
    BY <1>4
  <2> HIDE DEF top
  <2> QED BY <2>2, <2>3, <2>4, <2>5
<1>6. /\ Byte = CHOOSE f : f = [b \in 0 .. L |-> IF b = 0 THEN padded ELSE WriteBits(f[b - 1], bytes[b], W[b])]
      /\ Byte[Len(bytes)] = Byte[L]
  <2>1. ASSUME NEW f PROVE [b \in 0 .. Len(bytes) |->
                     IF b = 0 THEN padded
                     ELSE WriteBits(f[b - 1], bytes[b], IF b = 1 THEN actual - (Len(bytes) - 1) * ByteBits ELSE ByteBits)]
                  = [b \in 0 .. L |-> IF b = 0 THEN padded ELSE WriteBits(f[b - 1], bytes[b], W[b])]
    <3>1. ASSUME NEW b \in 0 .. L, b # 0 PROVE W[b] = IF b = 1 THEN actual - (Len(bytes) - 1) * ByteBits ELSE ByteBits
      <4>1. b \in 1 .. L
        BY <1>3, <3>1
      <4> QED BY <1>5, <4>1
    <3> HIDE DEF W, padded
    <3> QED BY <1>4, <3>1
  <2> HIDE DEF W, padded
  <2> QED BY <1>4, <2>1
<1> HIDE DEF Byte, top
<1> DEFINE S == {x \in Writers : Sound(x)}
           V == [b \in 0 .. L |-> S]
           G == [b \in 1 .. L |-> [x \in S |-> WriteBits(x, bytes[b], W[b])]]
<1>7. \A b \in 1 .. L : /\ L - b \in Nat /\ ByteBits * (L - b) \in Nat
                         /\ Upper(v, ByteBits * (L - b)) \in Nat /\ bytes[b] \in Nat
  <2>1. ASSUME NEW b \in 1 .. L
        PROVE  /\ L - b \in Nat /\ ByteBits * (L - b) \in Nat
               /\ Upper(v, ByteBits * (L - b)) \in Nat /\ bytes[b] \in Nat
    <3>1. L - b \in Nat /\ ByteBits \in Nat
      BY <1>3
    <3>2. ByteBits * (L - b) \in Nat
      BY <3>1
    <3>3. Upper(v, ByteBits * (L - b)) \in Nat
      BY <3>2, UpperTypes
    <3>4. Lower(Upper(v, ByteBits * (L - b)), ByteBits) \in Nat
      BY <3>1, <3>3, UpperLaw
    <3> QED BY <1>4, <3>1, <3>2, <3>3, <3>4
  <2> QED BY <2>1
<1>8. Adds(padded, w, BitsOf(0, n - actual)) /\ n - actual \in Nat
  <2>1. n - actual \in Nat
    BY <1>2
  <2>2. CASE actual < n
    BY <2>1, <2>2, WriteZerosLaw
  <2>3. CASE ~(actual < n)
    <3>1. n - actual = 0
      BY <1>2, <2>3
    <3>2. BitsOf(0, n - actual) = <<>>
      BY <3>1, NoBits
    <3> QED BY <2>1, <2>3, <3>2, AddsNothing
  <2> QED BY <2>1, <2>2, <2>3
<1> HIDE DEF padded, W
<1>9. PICK g : g = [b \in 0 .. L |-> IF b = 0 THEN padded ELSE WriteBits(g[b - 1], bytes[b], W[b])]
  <2>1. padded \in V[0]
    <3>1. padded \in Writers /\ Sound(padded) /\ 0 \in 0 .. L
      BY <1>3, <1>8 DEF Adds, Sound
    <3> QED BY <3>1
  <2>2. ASSUME NEW b \in 0 + 1 .. L, NEW x \in V[b - 1] PROVE G[b][x] \in V[b] /\ G[b][x] = WriteBits(x, bytes[b], W[b])
    <3>1. b \in 1 .. L /\ b \in 0 .. L /\ b - 1 \in 0 .. L
      BY <1>3
    <3>2. x \in S
      BY <3>1
    <3>3. Sound(WriteBits(x, bytes[b], W[b]))
      BY <1>5, <1>7, <3>1, <3>2, WriteBitsLaw
    <3>4. WriteBits(x, bytes[b], W[b]) \in S
      BY <3>3 DEF Sound
    <3> HIDE DEF S
    <3> QED BY <3>1, <3>2, <3>4
  <2> HIDE DEF G, V
  <2>3. \E g : Follows(g, 0, L, padded, G) /\ \A b \in 0 .. L : g[b] \in V[b]
    <3>1. 0 \in Int /\ L \in Int
      BY <1>3
    <3> QED BY <2>1, <2>2, <3>1, Recursion
  <2>4. PICK g : Follows(g, 0, L, padded, G) /\ \A b \in 0 .. L : g[b] \in V[b]
    BY <2>3
  <2>5. ASSUME NEW b \in 0 .. L, b # 0 PROVE G[b][g[b - 1]] = WriteBits(g[b - 1], bytes[b], W[b])
    <3>1. b \in 0 + 1 .. L /\ b - 1 \in 0 .. L
      BY <1>3, <2>5
    <3>2. g[b - 1] \in V[b - 1]
      BY <2>4, <3>1
    <3> QED BY <2>2, <3>1, <3>2
  <2>6. g = [b \in 0 .. L |-> IF b = 0 THEN padded ELSE G[b][g[b - 1]]]
    BY <2>4 DEF Follows
  <2> QED BY <2>5, <2>6
<1>10. Byte = [b \in 0 .. L |-> IF b = 0 THEN padded ELSE WriteBits(Byte[b - 1], bytes[b], W[b])]
  BY <1>6, <1>9
<1> DEFINE P(b) == IF b = 0 THEN 0 ELSE top + ByteBits * (b - 1)
           T == {b \in 0 .. L : Adds(Byte[b], padded, BitsOf(Upper(v, ByteBits * (L - b)), P(b)))}
<1>11. 0 \in T
  <2>1. Byte[0] = padded /\ P(0) = 0 /\ 0 \in 0 .. L /\ ByteBits * (L - 0) \in Nat
    BY <1>3, <1>10
  <2>2. Upper(v, ByteBits * (L - 0)) \in Nat
    BY <2>1, UpperTypes
  <2>3. BitsOf(Upper(v, ByteBits * (L - 0)), P(0)) = <<>>
    BY <2>1, <2>2, NoBits
  <2> QED BY <1>8, <2>1, <2>3, AddsNothing DEF Adds
<1>12. ASSUME NEW b \in 0 .. L - 1, b \in T PROVE b + 1 \in T
  <2> DEFINE e == ByteBits * (L - (b + 1))
             y == Upper(v, e)
             t == W[b + 1]
  <2>1. b + 1 \in 1 .. L /\ b + 1 \in 0 .. L /\ b + 1 # 0 /\ (b + 1) - 1 = b
    BY <1>3
  <2>2. e \in Nat /\ y \in Nat /\ t \in 0 .. MaxWidth /\ t \in 0 .. ByteBits /\ t \in Nat /\ bytes[b + 1] = Lower(y, ByteBits)
    BY <1>4, <1>5, <1>7, <2>1
  <2>3. Byte[b + 1] = WriteBits(Byte[b], bytes[b + 1], t)
    BY <1>10, <2>1
  <2>4. Sound(Byte[b])
    BY <1>12 DEF Adds
  <2>5. Adds(Byte[b + 1], Byte[b], BitsOf(y, t))
    <3>1. bytes[b + 1] \in Nat
      BY <1>7, <2>1
    <3>2. BitsOf(bytes[b + 1], t) = BitsOf(y, t)
      BY <1>3, <2>2, BitsLow
    <3>3. Adds(WriteBits(Byte[b], bytes[b + 1], t), Byte[b], BitsOf(bytes[b + 1], t))
      BY <2>2, <2>4, <3>1, WriteBitsLaw DEF Adds
    <3> QED BY <2>3, <3>2, <3>3
  <2>6. ByteBits * (L - b) = e + ByteBits
    BY <1>3
  <2>7. Adds(Byte[b], padded, BitsOf(Upper(v, e + ByteBits), P(b)))
    BY <1>12, <2>6
  <2>8. P(b) \in Nat /\ P(b + 1) = P(b) + t
    <3>1. CASE b = 0
      <4>1. t = top /\ ByteBits * ((b + 1) - 1) = 0 /\ top \in Nat
        BY <1>3, <2>1, <3>1 DEF W
      <4> QED BY <3>1, <4>1
    <3>2. CASE b # 0
      <4>1. t = ByteBits /\ top \in Nat
        BY <1>3, <2>1, <3>2 DEF W
      <4>2. ByteBits * ((b + 1) - 1) = ByteBits * (b - 1) + ByteBits /\ ByteBits * (b - 1) \in Nat
        BY <1>3, <3>2
      <4> QED BY <1>3, <3>2, <4>1, <4>2
    <3> QED BY <3>1, <3>2
  <2>9. BitsOf(y, P(b + 1)) = Joined(BitsOf(Upper(v, e + ByteBits), P(b)), BitsOf(y, t))
    <3>1. CASE b = 0
      <4>1. P(b) = 0 /\ P(b + 1) = t
        BY <2>2, <2>8, <3>1
      <4>2. e + ByteBits \in Nat
        BY <1>3, <2>2
      <4>3. BitsOf(Upper(v, e + ByteBits), 0) = <<>>
        BY <4>2, NoBits, UpperTypes
      <4>4. BitsOf(y, t) \in Seq(Bit)
        BY <2>2, BitsTypes
      <4> HIDE DEF P, y, t
      <4> QED BY <4>1, <4>3, <4>4, JoinedLaw
    <3>2. CASE b # 0
      <4>1. t = ByteBits
        BY <2>1, <3>2 DEF W
      <4> HIDE DEF P, t, e
      <4>2. Upper(y, t) = Upper(v, e + ByteBits)
        BY <1>3, <2>2, <4>1, UpperUpper
      <4> HIDE DEF y
      <4>3. BitsOf(y, P(b + 1)) = Joined(BitsOf(Upper(y, t), P(b)), BitsOf(y, t))
        BY <2>2, <2>8, BitsSplit
      <4> QED BY <4>2, <4>3
    <3> QED BY <3>1, <3>2
  <2>10. Adds(Byte[b + 1], padded, Joined(BitsOf(Upper(v, e + ByteBits), P(b)), BitsOf(y, t)))
    <3> HIDE DEF P, y, t, e
    <3>1. e + ByteBits \in Nat
      BY <1>3, <2>2
    <3>2. Upper(v, e + ByteBits) \in Nat
      BY <3>1, UpperTypes
    <3>3. BitsOf(Upper(v, e + ByteBits), P(b)) \in Seq(Bit) /\ BitsOf(y, t) \in Seq(Bit)
      BY <2>2, <2>8, <3>2, BitsTypes
    <3>4. Sound(padded)
      BY <1>8 DEF Adds
    <3> QED BY <2>5, <2>7, <3>3, <3>4, AddsTwice
  <2> QED BY <2>1, <2>9, <2>10
<1>13. L \in T
  <2>1. 0 .. L \subseteq T
    <3>1. 0 \in Int /\ L \in Int
      BY <1>3
    <3> HIDE DEF T
    <3> QED BY <1>11, <1>12, <3>1, Induction
  <2>2. L \in 0 .. L
    BY <1>3
  <2> HIDE DEF T
  <2> QED BY <2>1, <2>2
<1>14. P(L) = actual /\ ByteBits * (L - L) = 0
  <2>1. ByteBits * (L - L) = 0
    BY <1>3
  <2>2. CASE L = 0
    BY <1>3, <2>2
  <2>3. CASE L # 0
    <3>1. (L - 1) * ByteBits = ByteBits * (L - 1) /\ (L - 1) * ByteBits \in Int
      BY <1>3
    <3> QED BY <1>2, <2>1, <2>3, <3>1 DEF top
  <2> QED BY <2>1, <2>2, <2>3
<1>15. Adds(Byte[L], padded, BitsOf(v, actual))
  <2>1. Upper(v, ByteBits * (L - L)) = v
    BY <1>14, UpperEnds
  <2> QED BY <1>13, <1>14, <2>1
<1>16. BitsOf(v, n) = Joined(BitsOf(0, n - actual), BitsOf(v, actual))
  <2>1. Upper(v, actual) = 0 /\ n = (n - actual) + actual
    BY <1>2, UpperEnds
  <2>2. BitsOf(v, n) = Joined(BitsOf(Upper(v, actual), n - actual), BitsOf(v, actual))
    BY <1>2, <1>8, <2>1, BitsSplit
  <2> QED BY <2>1, <2>2
<1>17. BitsOf(0, n - actual) \in Seq(Bit) /\ BitsOf(v, actual) \in Seq(Bit)
  BY <1>2, <1>8, BitsTypes
<1>18. Adds(Byte[L], w, Joined(BitsOf(0, n - actual), BitsOf(v, actual)))
  BY <1>8, <1>15, <1>17, AddsTwice
<1> QED BY <1>1, <1>6, <1>16, <1>18

(* util.go, Bytes: the last byte is filled up with zeros.                  *)
LEMMA FlushedLaw ==
  ASSUME NEW w, Sound(w)
  PROVE  LET x == Flushed(w)  fill == ByteBits * Len(x.buf) - Len(Held(w)) IN
         /\ Sound(x) /\ x.nAcc = 0 /\ fill \in 0 .. ByteBits - 1
         /\ Unpacked(x.buf) = Joined(Held(w), BitsOf(0, fill))
<1> DEFINE x == Flushed(w)
           a == w.acc
           m == w.nAcc
           q == ByteBits - m
           u == a * 2^q
           fill == ByteBits * Len(x.buf) - Len(Held(w))
<1>1. /\ w \in Writers /\ a \in Nat /\ m \in 0 .. ByteBits - 1 /\ m \in Nat /\ q \in 1 .. ByteBits /\ q \in Nat
      /\ a < 2^m /\ ByteBits \in Nat \ {0} /\ w.buf \in Seq(Bytes) /\ w.buf \in Seq(Nat)
  <2>1. w.buf \in Seq(Nat) /\ a \in Nat /\ m \in Nat /\ ByteBits \in Nat \ {0} /\ 2^m \in Nat
    BY HeldTypes, ByteTypes
  <2> QED BY <2>1 DEF Sound, Writers
<1>2. /\ Unpacked(w.buf) \in Seq(Bit) /\ Len(Unpacked(w.buf)) = ByteBits * Len(w.buf)
      /\ BitsOf(a, m) \in Seq(Bit) /\ Len(BitsOf(a, m)) = m
  BY <1>1, UnpackedTypes, BitsTypes
<1>3. Len(Held(w)) = ByteBits * Len(w.buf) + m
  <2> DEFINE r == Unpacked(w.buf)
             y == BitsOf(a, m)
  <2>1. r \in Seq(Bit) /\ y \in Seq(Bit) /\ Len(r) = ByteBits * Len(w.buf) /\ Len(y) = m /\ Held(w) = Joined(r, y)
    BY <1>2 DEF Held
  <2> HIDE DEF r, y, m
  <2>2. Len(Joined(r, y)) = Len(r) + Len(y)
    BY <2>1, JoinedLaw
  <2> QED BY <2>1, <2>2
<1>4. Len(w.buf) \in Nat /\ ByteBits * Len(w.buf) \in Nat
  BY <1>1
<1>5. CASE m = 0
  <2>1. x = w
    BY <1>5 DEF Flushed
  <2>2. fill = 0
    BY <1>3, <1>4, <1>5, <2>1
  <2>3. Held(w) = Unpacked(w.buf)
    <3>1. BitsOf(a, m) = <<>>
      BY <1>1, <1>5, NoBits
    <3> QED BY <1>2, <3>1, JoinedLaw DEF Held
  <2>4. Joined(Held(w), BitsOf(0, fill)) = Held(w)
    <3>1. BitsOf(0, 0) = <<>>
      BY NoBits
    <3> QED BY <1>2, <2>2, <2>3, <3>1, JoinedLaw
  <2>5. fill \in 0 .. ByteBits - 1
    BY <1>1, <2>2
  <2> QED BY <1>5, <2>1, <2>3, <2>4, <2>5
<1>6. CASE m # 0
  <2>1. x = [buf |-> Append(w.buf, u), acc |-> 0, nAcc |-> 0]
    BY <1>6 DEF Flushed
  <2>2. u \in Bytes /\ u \in Nat
    <3> DEFINE d == 2^q
               p == 2^m
    <3>1. d \in Nat \ {0} /\ p \in Nat \ {0} /\ 2^ByteBits = p * d
      <4>1. m + q = ByteBits
        BY <1>1
      <4> QED BY <1>1, <4>1, PowerPositive, PowerSum
    <3>2. a < p
      BY <1>1
    <3> HIDE DEF d, p, a
    <3>3. d * a + d <= d * p /\ d * a \in Nat
      BY <1>1, <3>1, <3>2, Multiples
    <3>4. a * d = d * a /\ p * d = d * p
      BY <1>1, <3>1
    <3>5. a * d \in Nat /\ a * d < 2^ByteBits /\ 2^ByteBits \in Nat
      BY <3>1, <3>3, <3>4
    <3>6. a * d \in 0 .. 2^ByteBits - 1
      BY <3>5
    <3> QED BY <3>5, <3>6 DEF Bytes, d
  <2> HIDE DEF u
  <2>3. /\ Append(w.buf, u) \in Seq(Bytes) /\ Len(Append(w.buf, u)) = Len(w.buf) + 1
        /\ Append(w.buf, u) = w.buf \o <<u>> /\ <<u>> \in Seq(Nat)
    <3>1. Append(w.buf, u) \in Seq(Bytes) /\ Len(Append(w.buf, u)) = Len(w.buf) + 1 /\ <<u>> \in Seq(Nat)
      BY <1>1, <2>2
    <3>2. Append(w.buf, u) = w.buf \o <<u>>
      BY <1>1, <2>2, AppendIsConcat
    <3> QED BY <3>1, <3>2
  <2>4. Unpacked(<<u>>) = BitsOf(u, ByteBits)
    <3>1. /\ Unpacked(<<u>>) \in Seq(Bit) /\ Len(Unpacked(<<u>>)) = ByteBits
          /\ \A i \in 1 .. ByteBits : Unpacked(<<u>>)[i] = BitsOf(u, ByteBits)[i]
      <4>1. Len(<<u>>) = 1 /\ <<u>>[1] = u /\ ByteBits * 1 = ByteBits
        BY <1>1
      <4>2. /\ Unpacked(<<u>>) \in Seq(Bit) /\ Len(Unpacked(<<u>>)) = ByteBits * 1
            /\ \A b \in 1 .. 1, i \in 1 .. ByteBits : Unpacked(<<u>>)[ByteBits * (b - 1) + i] = BitsOf(<<u>>[b], ByteBits)[i]
        BY <2>3, <4>1, UnpackedTypes
      <4>3. \A i \in 1 .. ByteBits : ByteBits * (1 - 1) + i = i
        BY <1>1
      <4>4. ASSUME NEW i \in 1 .. ByteBits PROVE Unpacked(<<u>>)[i] = BitsOf(u, ByteBits)[i]
        <5>1. 1 \in 1 .. 1
          OBVIOUS
        <5>2. Unpacked(<<u>>)[ByteBits * (1 - 1) + i] = BitsOf(<<u>>[1], ByteBits)[i]
          BY <4>2, <5>1
        <5> QED BY <4>1, <4>3, <5>2
      <4> QED BY <4>1, <4>2, <4>4
    <3>2. BitsOf(u, ByteBits) \in Seq(Bit) /\ Len(BitsOf(u, ByteBits)) = ByteBits
      BY <1>1, <2>2, BitsTypes
    <3> QED BY <3>1, <3>2, SeqEqual
  <2>5. BitsOf(u, ByteBits) = Joined(BitsOf(a, m), BitsOf(0, q))
    <3>1. Lower(0, q) = 0
      <4>1. \A d \in Nat \ {0} : 0 % d = 0
        OBVIOUS
      <4> QED BY <1>1, <4>1, PowerPositive DEF Lower
    <3>2. a * 2^q \in Int
      <4>1. 2^q \in Nat
        BY <1>1, PowerPositive
      <4> QED BY <1>1, <4>1
    <3>3. u = a * 2^q + Lower(0, q)
      BY <3>1, <3>2 DEF u
    <3>4. ByteBits = m + q
      BY <1>1
    <3> HIDE DEF a, m, q
    <3> QED BY <1>1, <3>3, <3>4, BitsJoin
  <2>6. Unpacked(x.buf) = Joined(Unpacked(w.buf), BitsOf(u, ByteBits))
    <3>1. x.buf = w.buf \o <<u>>
      BY <2>1, <2>3
    <3> QED BY <1>1, <2>3, <2>4, <3>1, UnpackedConcat
  <2>7. Len(x.buf) = Len(w.buf) + 1
    BY <2>1, <2>3
  <2>8. fill = q
    <3>1. ByteBits * (Len(w.buf) + 1) = ByteBits * Len(w.buf) + ByteBits
      BY <1>1, <1>4
    <3>2. ByteBits * Len(x.buf) = ByteBits * Len(w.buf) + ByteBits
      BY <2>7, <3>1
    <3>3. PICK b \in Int : b = ByteBits * Len(w.buf)
      BY <1>4
    <3>4. fill = (b + ByteBits) - (b + m)
      BY <1>3, <3>2, <3>3
    <3> HIDE DEF fill, m
    <3> QED BY <1>1, <3>4
  <2>9. Joined(Held(w), BitsOf(0, q)) = Joined(Unpacked(w.buf), Joined(BitsOf(a, m), BitsOf(0, q)))
    <3>1. BitsOf(0, q) \in Seq(Bit)
      BY <1>1, BitsTypes
    <3> QED BY <1>2, <3>1, JoinedLaw DEF Held
  <2>10. Sound(x)
    <3>1. x \in Writers
      BY <1>1, <2>1, <2>3 DEF Writers
    <3>2. 2^0 = 1 /\ x.acc = 0 /\ x.nAcc = 0
      BY <2>1
    <3> QED BY <3>1, <3>2 DEF Sound
  <2>11. fill \in 0 .. ByteBits - 1 /\ x.nAcc = 0
    <3>1. x.nAcc = 0
      BY <2>1
    <3>2. q \in 0 .. ByteBits - 1
      BY <1>1, <1>6
    <3> HIDE DEF fill
    <3> QED BY <2>8, <3>1, <3>2
  <2> QED BY <2>5, <2>6, <2>8, <2>9, <2>10, <2>11
<1> QED BY <1>5, <1>6

-----------------------------------------------------------------------------
(* util.go: BitReader.                                                     *)

(* n bits from position pos on.                                            *)
Slice(bits, pos, n) == [b \in 1 .. n |-> bits[pos + b]]

LEMMA SliceTypes ==
  ASSUME NEW bits \in Seq(Bit), NEW pos \in Nat, NEW n \in Nat, pos + n <= Len(bits)
  PROVE  Slice(bits, pos, n) \in Seq(Bit) /\ Len(Slice(bits, pos, n)) = n
<1>1. ASSUME NEW b \in 1 .. n PROVE bits[pos + b] \in Bit
  <2>1. pos + b \in 1 .. Len(bits)
    OBVIOUS
  <2> QED BY <2>1
<1> QED BY <1>1 DEF Slice

(* Two slices side by side are one.                                        *)
LEMMA SliceJoin ==
  ASSUME NEW bits \in Seq(Bit), NEW pos \in Nat, NEW p \in Nat, NEW q \in Nat,
         NEW f, f = pos + p, NEW t, t = p + q, pos + t <= Len(bits)
  PROVE  Slice(bits, pos, t) = Joined(Slice(bits, pos, p), Slice(bits, f, q))
<1> DEFINE x == Slice(bits, pos, p)
           y == Slice(bits, f, q)
           z == Slice(bits, pos, t)
<1>1. /\ x \in Seq(Bit) /\ Len(x) = p /\ y \in Seq(Bit) /\ Len(y) = q /\ z \in Seq(Bit) /\ Len(z) = t
  <2>1. t \in Nat /\ f \in Nat /\ pos + p <= Len(bits) /\ f + q <= Len(bits)
    OBVIOUS
  <2> QED BY <2>1, SliceTypes
<1>2. /\ \A b \in 1 .. t : z[b] = bits[pos + b]
      /\ \A b \in 1 .. p : x[b] = bits[pos + b]
      /\ \A b \in 1 .. q : y[b] = bits[f + b]
  BY DEF Slice
<1> HIDE DEF x, y, z
<1>3. Joined(x, y) \in Seq(Bit) /\ Len(Joined(x, y)) = t
  BY <1>1, JoinedLaw
<1>4. \A b \in 1 .. p + q : Joined(x, y)[b] = IF b <= p THEN x[b] ELSE y[b - p]
  BY <1>1, JoinedAt
<1>5. ASSUME NEW b \in 1 .. t PROVE z[b] = Joined(x, y)[b]
  <2>1. CASE b <= p
    <3>1. b \in 1 .. p /\ b \in 1 .. p + q
      BY <2>1
    <3> QED BY <1>2, <1>4, <2>1, <3>1
  <2>2. CASE ~(b <= p)
    <3>1. b - p \in 1 .. q /\ f + (b - p) = pos + b /\ b \in 1 .. p + q
      BY <2>2
    <3> QED BY <1>2, <1>4, <2>2, <3>1
  <2> QED BY <2>1, <2>2
<1>6. z = Joined(x, y)
  BY <1>1, <1>3, <1>5, SeqEqual
<1> QED BY <1>6 DEF x, y, z

(* v is the number whose n bits are those from position pos on.            *)
Reads(v, bits, pos, n) == v \in 0 .. 2^n - 1 /\ BitsOf(v, n) = Slice(bits, pos, n)

(* A number read before another makes its high bits.                       *)
LEMMA ReadsJoin ==
  ASSUME NEW bits \in Seq(Bit), NEW pos \in Nat, NEW p \in Nat, NEW q \in Nat,
         NEW f, f = pos + p, NEW t, t = p + q, pos + t <= Len(bits),
         NEW a, Reads(a, bits, pos, p), NEW v, Reads(v, bits, f, q)
  PROVE  Reads(a * 2^q + v, bits, pos, t)
<1> DEFINE c == 2^p
           d == 2^q
<1>1. c \in Nat \ {0} /\ d \in Nat \ {0} /\ 2^t = c * d
  BY PowerPositive, PowerSum
<1>2. a \in Nat /\ a < c /\ v \in Nat /\ v < d
  BY <1>1 DEF Reads
<1>3. Lower(v, q) = v
  <2> HIDE DEF d
  <2>1. v % d = v
    BY <1>1, <1>2, Within
  <2> QED BY <2>1 DEF Lower, d
<1> DEFINE u == a * d + v
<1>4. u \in 0 .. 2^t - 1
  <2> HIDE DEF c, d
  <2> DEFINE e == a * d
             g == c * d
  <2>1. e \in Nat /\ g \in Nat /\ e + d <= g
    <3>1. d * a \in Nat /\ d * c \in Nat /\ d * a + d <= d * c
      BY <1>1, <1>2, Multiples
    <3>2. d * a = a * d /\ d * c = c * d
      BY <1>1, <1>2
    <3> QED BY <3>1, <3>2
  <2>2. 2^t = g /\ u = e + v
    BY <1>1
  <2> HIDE DEF e, g, u
  <2> QED BY <1>1, <1>2, <2>1, <2>2
<1>5. BitsOf(u, t) = Joined(BitsOf(a, p), BitsOf(v, q))
  <2>1. u = a * 2^q + Lower(v, q)
    BY <1>3
  <2> HIDE DEF c, d, u
  <2> QED BY <1>2, <2>1, BitsJoin
<1>6. Slice(bits, pos, t) = Joined(Slice(bits, pos, p), Slice(bits, f, q))
  BY SliceJoin
<1> HIDE DEF u
<1>7. Reads(u, bits, pos, t)
  BY <1>4, <1>5, <1>6 DEF Reads
<1> QED BY <1>7 DEF u

(* take bits of one byte, at position o of it.                             *)
LEMMA ByteReads ==
  ASSUME NEW data \in Seq(Nat), NEW k \in 1 .. Len(data), NEW o \in Nat, NEW take \in Nat, NEW shift \in Nat,
         o + take + shift = ByteBits, NEW first, first = ByteBits * (k - 1) + o
  PROVE  Reads(Lower(Upper(data[k], shift), take), Unpacked(data), first, take)
<1> DEFINE x == data[k]
           y == Upper(x, shift)
           v == Lower(y, take)
<1>1. x \in Nat /\ y \in Nat /\ v \in 0 .. 2^take - 1 /\ v \in Nat
  <2>1. x \in Nat
    OBVIOUS
  <2>2. y \in Nat
    BY <2>1, UpperTypes
  <2> HIDE DEF x, y
  <2> QED BY <2>1, <2>2, UpperLaw
<1>2. BitsOf(v, take) = BitsOf(y, take)
  BY <1>1, BitsModulo
<1>3. ASSUME NEW b \in 1 .. take PROVE BitsOf(y, take)[b] = Unpacked(data)[first + b]
  <2>1. o + b \in 1 .. ByteBits /\ ByteBits - (o + b) = shift + (take - b) /\ take - b \in Nat
        /\ ByteBits \in Nat
    BY ByteTypes
  <2>2. BitsOf(y, take)[b] = Upper(y, take - b) % 2
    BY <1>1, BitsTypes
  <2>3. Upper(y, take - b) = Upper(x, shift + (take - b))
    <3> HIDE DEF x
    <3> DEFINE i == take - b
    <3>1. i \in Nat
      BY <2>1
    <3> HIDE DEF i
    <3>2. Upper(Upper(x, shift), i) = Upper(x, shift + i)
      <4> HIDE DEF y, v
      <4>1. x \in Nat /\ shift \in Nat
        BY <1>1
      <4>2. \A j, l, m \in Nat : Upper(Upper(j, l), m) = Upper(j, l + m)
        BY UpperUpper, Zenon
      <4> QED BY <3>1, <4>1, <4>2
    <3> QED BY <3>2 DEF i
  <2>4. BitsOf(x, ByteBits)[o + b] = Upper(x, ByteBits - (o + b)) % 2
    <3> DEFINE j == o + b
    <3>1. j \in 1 .. ByteBits /\ ByteBits \in Nat /\ x \in Nat
      BY <1>1, <2>1
    <3> HIDE DEF j, x
    <3>2. BitsOf(x, ByteBits)[j] = Upper(x, ByteBits - j) % 2
      BY <3>1, BitsTypes
    <3> QED BY <3>2 DEF j
  <2>5. Unpacked(data)[ByteBits * (k - 1) + (o + b)] = BitsOf(x, ByteBits)[o + b]
    BY <2>1, UnpackedTypes
  <2>6. ByteBits * (k - 1) + (o + b) = first + b
    <3>1. \A z \in Int : z + (o + b) = (z + o) + b
      OBVIOUS
    <3>2. ByteBits * (k - 1) \in Int
      BY <2>1
    <3> QED BY <3>1, <3>2
  <2> HIDE DEF x, y
  <2> QED BY <2>1, <2>2, <2>3, <2>4, <2>5, <2>6
<1>4. BitsOf(y, take) = Slice(Unpacked(data), first, take)
  <2>1. BitsOf(y, take) = [b \in 1 .. take |-> BitsOf(y, take)[b]]
    BY DEF BitsOf
  <2> HIDE DEF y
  <2> QED BY <1>3, <2>1 DEF Slice
<1> HIDE DEF v, y
<1>5. Reads(v, Unpacked(data), first, take)
  BY <1>1, <1>2, <1>4 DEF Reads
<1> QED BY <1>5 DEF v, y, x

(* f is the first bit of a round that ends before position e: it is in the *)
(* same byte as the last one, the k-th of so many.                         *)
InOneByte(f, pos, e, k, len) ==
  /\ f \in Nat /\ f >= pos /\ f < e /\ f \div ByteBits = k /\ k + 1 \in 1 .. len
  /\ f % ByteBits \in Nat /\ f = ByteBits * k + (f % ByteBits)
  /\ ByteBits - (f % ByteBits) - (e - f) \in Nat

(* util.go, ReadBits: such are the bits that a round reads.                *)
LEMMA RoundLaw ==
  ASSUME NEW pos \in Nat, NEW m \in Nat \ {0}, NEW len \in Nat, pos + m <= ByteBits * len,
         NEW k, k = (pos + m - 1) \div ByteBits, NEW f, f = Max({pos, k * ByteBits})
  PROVE  InOneByte(f, pos, pos + m, k, len)
<1> DEFINE r == (pos + m - 1) % ByteBits
           z == ByteBits * k
<1>1. ByteBits \in Nat \ {0} /\ pos + m - 1 \in Nat
  BY ByteTypes
<1>2. k \in Nat /\ r \in 0 .. ByteBits - 1 /\ pos + m - 1 = ByteBits * k + r
  BY <1>1, Division
<1>3. z \in Nat /\ k * ByteBits = z /\ pos + m - 1 = z + r
  BY <1>1, <1>2
<1> HIDE DEF r, z
<1>4. f \in {pos, z} /\ f >= pos /\ f >= z
  <2> DEFINE S == {pos, z}
  <2>1. \E x \in S : \A y \in S : x >= y
    <3>1. CASE pos >= z
      BY <1>3, <3>1
    <3>2. CASE ~(pos >= z)
      BY <1>3, <3>2
    <3> QED BY <3>1, <3>2
  <2>2. f = Max(S)
    BY <1>3
  <2>3. f \in S /\ \A y \in S : f >= y
    <3> HIDE DEF S
    <3> QED BY <2>1, <2>2 DEF Max
  <2> QED BY <2>3
<1>5. f \in Nat /\ f < pos + m /\ f - z \in 0 .. ByteBits - 1
  BY <1>1, <1>2, <1>3, <1>4
<1>6. f = ByteBits * k + (f - z)
  BY <1>1, <1>2, <1>5 DEF z
<1>7. f \div ByteBits = k /\ f % ByteBits = f - z
  <2> DEFINE o == f - z
  <2>1. o \in 0 .. ByteBits - 1 /\ f = ByteBits * k + o
    BY <1>5, <1>6
  <2> HIDE DEF o
  <2>2. (ByteBits * k + o) \div ByteBits = k /\ (ByteBits * k + o) % ByteBits = o
    BY <1>1, <1>2, <2>1, DivisionUnique
  <2>3. f \div ByteBits = k /\ f % ByteBits = o
    BY <2>1, <2>2
  <2> QED BY <2>3 DEF o
<1>8. k < len
  <2> SUFFICES ASSUME len <= k PROVE FALSE
    BY <1>2
  <2> DEFINE y == ByteBits * len
  <2>1. y \in Nat /\ y <= z
    BY <1>1, <1>2, Multiples DEF z
  <2>2. pos + m <= y
    OBVIOUS
  <2> HIDE DEF y
  <2> QED BY <1>1, <1>2, <1>3, <2>1, <2>2
<1>9. ByteBits - (f % ByteBits) - (pos + m - f) \in Nat
  <2>1. f % ByteBits = f - z /\ f \in Nat
    BY <1>5, <1>7
  <2>2. ByteBits - (f - z) - (pos + m - f) \in Nat
    BY <1>1, <1>2, <1>3, <1>5
  <2> QED BY <2>1, <2>2
<1>10. k + 1 \in 1 .. len
  BY <1>2, <1>8
<1>11. f % ByteBits \in Nat /\ f = ByteBits * k + (f % ByteBits)
  <2>1. f - z \in Nat
    BY <1>5
  <2> QED BY <1>6, <1>7, <2>1
<1> QED BY <1>4, <1>5, <1>7, <1>9, <1>10, <1>11 DEF InOneByte

(* util.go, ReadBits: what is read is a number, and has the bits that are  *)
(* there unless there are too many of them.                                *)
LEMMA ReadBitsValues ==
  ASSUME NEW data \in Seq(Nat), NEW pos \in Nat, NEW n \in Nat, pos + n <= ByteBits * Len(data)
  PROVE  /\ ReadBits(data, pos, n) \in Nat
         /\ n <= MaxWidth => Reads(ReadBits(data, pos, n), Unpacked(data), pos, n)
<1> DEFINE bits == Unpacked(data)
           First(m) == Max({pos, ((pos + m - 1) \div ByteBits) * ByteBits})
           take(m) == pos + m - First(m)
           shift(m) == ByteBits - (First(m) % ByteBits) - take(m)
           chunk(m) == (data[First(m) \div ByteBits + 1] \div 2^shift(m)) % 2^take(m)
           Value == CHOOSE f : f = [m \in 0 .. n |->
                      IF m = 0 THEN 0 ELSE ((f[m - take(m)] * 2^take(m)) % Word) + chunk(m)]
           D == [m \in 1 .. n |-> m - take(m)]
           V == [m \in 0 .. n |-> {v \in Nat : n <= MaxWidth => Reads(v, bits, pos, m)}]
           G == [m \in 1 .. n |-> [v \in V[D[m]] |-> ((v * 2^take(m)) % Word) + chunk(m)]]
<1>0. n \in Nat /\ MaxWidth \in Nat /\ MaxWidth <= AccBits /\ AccBits \in Nat /\ Len(data) \in Nat
  <2>1. AccBits \in Nat /\ ByteBits \in Nat /\ ByteBits <= AccBits - ByteBits
    BY BitAssumption
  <2> QED BY <2>1 DEF MaxWidth
<1>1. ReadBits(data, pos, n) = Value[n]
  BY DEF ReadBits
<1>2. bits \in Seq(Bit) /\ Len(bits) = ByteBits * Len(data)
  BY UnpackedTypes
<1> HIDE DEF bits
<1>3. ASSUME NEW m \in 1 .. n
      PROVE  /\ m - take(m) \in 0 .. m - 1 /\ take(m) \in Nat /\ First(m) = pos + (m - take(m))
             /\ Reads(chunk(m), bits, First(m), take(m))
  <2> DEFINE f == First(m)
             k == (pos + m - 1) \div ByteBits
  <2>1. m \in Nat \ {0} /\ pos + m <= ByteBits * Len(data)
    <3> DEFINE y == ByteBits * Len(data)
    <3>1. pos + n <= y
      OBVIOUS
    <3>2. y \in Int
      BY <1>0, ByteTypes
    <3> HIDE DEF y
    <3>3. m \in Nat \ {0} /\ pos + m <= y
      BY <1>0, <3>1, <3>2
    <3> QED BY <3>3 DEF y
  <2>2. /\ f \in Nat /\ f >= pos /\ f < pos + m /\ f \div ByteBits = k /\ k + 1 \in 1 .. Len(data)
        /\ f % ByteBits \in Nat /\ f = ByteBits * k + (f % ByteBits)
        /\ ByteBits - (f % ByteBits) - (pos + m - f) \in Nat
    <3>1. f = Max({pos, k * ByteBits})
      OBVIOUS
    <3>2. k = (pos + m - 1) \div ByteBits
      OBVIOUS
    <3> DEFINE len == Len(data)
    <3>3. len \in Nat /\ pos + m <= ByteBits * len
      BY <1>0, <2>1
    <3> HIDE DEF f, k, len
    <3>4. InOneByte(f, pos, pos + m, k, len)
      BY <2>1, <3>1, <3>2, <3>3, RoundLaw
    <3> QED BY <3>4 DEF InOneByte, len
  <2>3. chunk(m) = Lower(Upper(data[k + 1], shift(m)), take(m))
    BY <2>2 DEF Lower, Upper
  <2>4. take(m) = pos + m - f /\ shift(m) = ByteBits - (f % ByteBits) - (pos + m - f)
    OBVIOUS
  <2>5. Reads(Lower(Upper(data[k + 1], shift(m)), take(m)), bits, f, take(m))
    <3> DEFINE s == shift(m)
               t == take(m)
    <3>1. PICK o \in Nat : o = f % ByteBits
      BY <2>2
    <3>2. s \in Nat /\ t \in Nat /\ o + t + s = ByteBits
      <4>1. ByteBits \in Nat
        BY ByteTypes
      <4>2. t = pos + m - f /\ s = ByteBits - o - (pos + m - f)
        BY <2>4, <3>1
      <4>3. f \in Nat /\ f < pos + m /\ ByteBits - o - (pos + m - f) \in Nat
        BY <2>2, <3>1
      <4> HIDE DEF f, s, t
      <4> QED BY <2>1, <4>1, <4>2, <4>3
    <3>3. f = ByteBits * ((k + 1) - 1) + o /\ k + 1 \in 1 .. Len(data)
      <4>1. \A j \in Nat : (j + 1) - 1 = j
        OBVIOUS
      <4>2. k \in Nat
        <5> DEFINE x == pos + m - 1
        <5>1. x \in Nat /\ ByteBits \in Nat \ {0}
          BY <2>1, ByteTypes
        <5> HIDE DEF x
        <5>2. x \div ByteBits \in Nat
          BY <5>1, Division
        <5> QED BY <5>2 DEF x
      <4> HIDE DEF f, k
      <4> QED BY <2>2, <3>1, <4>1, <4>2
    <3> HIDE DEF s, t, f, k
    <3>4. Reads(Lower(Upper(data[k + 1], s), t), Unpacked(data), f, t)
      BY <3>2, <3>3, ByteReads
    <3> QED BY <3>4 DEF bits, s, t
  <2>6. m - take(m) \in 0 .. m - 1 /\ take(m) \in Nat /\ f = pos + (m - take(m))
    <3> DEFINE t == take(m)
    <3>1. t = pos + m - f
      BY <2>4
    <3>2. f \in Nat /\ f >= pos /\ f < pos + m
      BY <2>2
    <3> HIDE DEF f, t
    <3>3. m - t \in 0 .. m - 1 /\ t \in Nat /\ f = pos + (m - t)
      BY <2>1, <3>1, <3>2
    <3> QED BY <3>3 DEF t
  <2> QED BY <2>3, <2>5, <2>6
<1> HIDE DEF First, take, shift, chunk
<1>4. \A m \in 1 .. n : D[m] = m - take(m) /\ D[m] \in 0 .. m - 1 /\ D[m] \in 0 .. n
  <2>1. \A m \in 1 .. n : \A d \in 0 .. m - 1 : d \in 0 .. n
    BY <1>0
  <2> QED BY <1>3, <2>1
<1>5. ASSUME NEW m \in 1 .. n, NEW v \in V[D[m]]
      PROVE  G[m][v] = ((v * 2^take(m)) % Word) + chunk(m) /\ G[m][v] \in V[m]
  <2>1. G[m][v] = ((v * 2^take(m)) % Word) + chunk(m)
    <3> HIDE DEF V, D
    <3> QED OBVIOUS
  <2>2. v \in Nat /\ (n <= MaxWidth => Reads(v, bits, pos, D[m]))
    BY <1>4
  <2> DEFINE d == D[m]
             t == take(m)
             f == First(m)
             e == chunk(m)
  <2>3. d \in Nat /\ t \in Nat /\ f = pos + d /\ m = d + t /\ m \in Nat /\ Reads(e, bits, f, t)
    BY <1>3, <1>4
  <2> HIDE DEF d, t, f, e, D
  <2>4. pos + m <= Len(bits)
    <3> DEFINE y == ByteBits * Len(data)
    <3>1. pos + n <= y /\ Len(bits) = y
      BY <1>2
    <3>2. y \in Int
      BY <1>0, ByteTypes
    <3> HIDE DEF y
    <3> QED BY <1>0, <3>1, <3>2
  <2>5. ASSUME n <= MaxWidth PROVE (v * 2^t) % Word = v * 2^t /\ Reads(v * 2^t + e, bits, pos, m)
    <3>1. Reads(v * 2^t + e, bits, pos, m)
      BY <1>2, <2>2, <2>3, <2>4, <2>5, ReadsJoin DEF d
    <3>2. v * 2^t \in Nat /\ e \in Nat /\ v * 2^t + e < 2^m
      <4>1. 2^t \in Nat /\ 2^m \in Nat
        BY <2>3, PowerPositive
      <4>2. v * 2^t \in Nat
        BY <2>2, <4>1
      <4>3. e \in Nat /\ v * 2^t + e \in 0 .. 2^m - 1
        BY <2>3, <3>1, <4>1 DEF Reads
      <4> QED BY <4>1, <4>2, <4>3
    <3>3. 2^m <= Word /\ 2^m \in Nat /\ Word \in Nat
      <4>1. m <= AccBits
        BY <1>0, <2>5
      <4> QED BY <1>0, <2>3, <4>1, PowerGrows, PowerPositive DEF Word
    <3> DEFINE x == v * 2^t
    <3>4. x \in Nat /\ x < Word
      <4> HIDE DEF x
      <4>1. x \in Nat /\ x + e < 2^m
        BY <3>2 DEF x
      <4> QED BY <3>2, <3>3, <4>1
    <3> HIDE DEF x
    <3>5. x % Word = x
      <4>1. Word \in Int
        BY <3>3
      <4> QED BY <3>4, <4>1, Within
    <3> QED BY <3>1, <3>5 DEF x
  <2>6. G[m][v] \in Nat
    <3> DEFINE x == v * 2^t
    <3>1. x \in Nat /\ Word \in Nat \ {0} /\ e \in Nat
      <4>1. 2^t \in Nat /\ 2^AccBits \in Nat \ {0}
        BY <1>0, <2>3, PowerPositive
      <4>2. x \in Nat
        BY <2>2, <4>1
      <4> QED BY <2>3, <4>1, <4>2 DEF Reads, Word
    <3>2. G[m][v] = (x % Word) + e
      BY <2>1 DEF t, e
    <3> HIDE DEF x, G
    <3>3. x % Word \in Nat
      BY <3>1, Division
    <3> QED BY <3>1, <3>2, <3>3
  <2>7. m \in 0 .. n
    BY <1>0
  <2> HIDE DEF G
  <2>8. ASSUME n <= MaxWidth PROVE Reads(G[m][v], bits, pos, m)
    <3>1. G[m][v] = v * 2^t + e
      BY <2>1, <2>5, <2>8 DEF t, e
    <3> QED BY <2>5, <2>8, <3>1
  <2>9. G[m][v] \in V[m]
    BY <2>6, <2>7, <2>8
  <2> QED BY <2>1, <2>9
<1>6. 0 \in V[0]
  <2>1. 2^0 = 1
    OBVIOUS
  <2>2. BitsOf(0, 0) = <<>>
    BY NoBits
  <2>3. Slice(bits, pos, 0) = <<>>
    BY <1>2 DEF Slice
  <2>4. 0 \in 0 .. n
    BY <1>0
  <2> QED BY <2>1, <2>2, <2>3, <2>4 DEF Reads
<1> HIDE DEF D, V, G
<1>7. PICK g : IsDescent(g, n, D, 0, G) /\ \A m \in 0 .. n : g[m] \in V[m]
  <2>1. \A m \in 1 .. n : D[m] \in 0 .. m - 1
    BY <1>4
  <2>2. \A m \in 1 .. n : \A v \in V[D[m]] : G[m][v] \in V[m]
    BY <1>5
  <2> QED BY <1>0, <1>6, <2>1, <2>2, Descent
<1>8. g = [m \in 0 .. n |-> IF m = 0 THEN 0 ELSE ((g[m - take(m)] * 2^take(m)) % Word) + chunk(m)]
  <2>1. ASSUME NEW m \in 0 .. n, m # 0
        PROVE  G[m][g[D[m]]] = ((g[m - take(m)] * 2^take(m)) % Word) + chunk(m)
    <3>1. m \in 1 .. n
      BY <2>1
    <3>2. g[D[m]] \in V[D[m]] /\ D[m] = m - take(m)
      BY <1>4, <1>7, <3>1
    <3> QED BY <1>5, <3>1, <3>2
  <2> QED BY <1>7, <2>1 DEF IsDescent
<1>9. Value = [m \in 0 .. n |-> IF m = 0 THEN 0 ELSE ((Value[m - take(m)] * 2^take(m)) % Word) + chunk(m)]
  BY <1>8
<1> HIDE DEF Value
<1> DEFINE T == {u \in 0 .. n : \A m \in 0 .. u : Value[m] \in V[m]}
<1>10. 0 \in T
  <2>1. 0 \in 0 .. n /\ \A x \in 0 .. 0 : x = 0
    BY <1>0
  <2>2. Value[0] = 0
    BY <1>9, <2>1
  <2> QED BY <1>6, <2>1, <2>2
<1>11. ASSUME NEW u \in 0 .. n - 1, u \in T PROVE u + 1 \in T
  <2>1. u + 1 \in 1 .. n /\ u + 1 \in 0 .. n /\ u + 1 # 0 /\ (u + 1) - 1 = u
    BY <1>0
  <2>2. D[u + 1] \in 0 .. u /\ D[u + 1] = (u + 1) - take(u + 1)
    BY <1>4, <2>1
  <2>3. Value[D[u + 1]] \in V[D[u + 1]]
    BY <1>11, <2>2
  <2>4. Value[u + 1] = G[u + 1][Value[D[u + 1]]]
    <3>1. Value[u + 1] = ((Value[D[u + 1]] * 2^take(u + 1)) % Word) + chunk(u + 1)
      BY <1>9, <2>1, <2>2
    <3> QED BY <1>5, <2>1, <2>3, <3>1
  <2>5. Value[u + 1] \in V[u + 1]
    BY <1>5, <2>1, <2>3, <2>4
  <2>6. \A m \in 0 .. u + 1 : m \in 0 .. u \/ m = u + 1
    OBVIOUS
  <2> QED BY <1>11, <2>1, <2>5, <2>6
<1>12. 0 .. n \subseteq T
  <2>1. 0 \in Int /\ n \in Int
    BY <1>0
  <2> HIDE DEF T
  <2> QED BY <1>10, <1>11, <2>1, Induction
<1>13. Value[n] \in V[n]
  <2>1. n \in 0 .. n
    BY <1>0
  <2>2. n \in T
    <3> HIDE DEF T
    <3> QED BY <1>12, <2>1
  <2> QED BY <2>1, <2>2
<1>14. Value[n] \in Nat /\ (n <= MaxWidth => Reads(Value[n], bits, pos, n))
  <2>1. n \in 0 .. n
    BY <1>0
  <2> QED BY <1>13, <2>1 DEF V
<1> QED BY <1>1, <1>14 DEF bits

(* util.go, ReadBits: the field at a position has the bits that are there. *)
LEMMA ReadBitsLaw ==
  ASSUME NEW data \in Seq(Nat), NEW pos \in Nat, NEW n \in 0 .. MaxWidth, pos + n <= ByteBits * Len(data)
  PROVE  Reads(ReadBits(data, pos, n), Unpacked(data), pos, n)
<1>1. MaxWidth \in Int
  BY BitAssumption DEF MaxWidth
<1>2. n \in Nat /\ n <= MaxWidth
  BY <1>1
<1> QED BY <1>2, ReadBitsValues

(* g is the number that the first bytes make, one byte after the other.    *)
Numbers(g, bytes) ==
  g[0] = 0 /\ \A b \in 1 .. Len(bytes) : g[b - 1] \in Nat /\ g[b] \in Nat /\ g[b] = g[b - 1] * 2^ByteBits + bytes[b]

(* NumberOf is the last of them.                                           *)
LEMMA NumberOfLaw ==
  ASSUME NEW bytes \in Seq(Nat)
  PROVE  /\ NumberOf(bytes) \in Nat
         /\ \E g : Numbers(g, bytes) /\ NumberOf(bytes) = g[Len(bytes)]
<1> DEFINE l == Len(bytes)
           f == CHOOSE f : f = [b \in 0 .. l |-> IF b = 0 THEN 0 ELSE f[b - 1] * 2^ByteBits + bytes[b]]
           D == [b \in 1 .. l |-> b - 1]
           V == [b \in 0 .. l |-> Nat]
           G == [b \in 1 .. l |-> [v \in Nat |-> v * 2^ByteBits + bytes[b]]]
<1>1. l \in Nat /\ \A b \in 1 .. l : bytes[b] \in Nat
  OBVIOUS
<1>2. NumberOf(bytes) = f[l]
  BY DEF NumberOf
<1> HIDE DEF l
<1>3. \A b \in 1 .. l : D[b] = b - 1 /\ D[b] \in 0 .. b - 1 /\ D[b] \in 0 .. l /\ V[D[b]] = Nat /\ V[b] = Nat
  BY <1>1
<1>4. \A b \in 1 .. l : \A v \in Nat : G[b][v] = v * 2^ByteBits + bytes[b] /\ G[b][v] \in Nat
  <2> DEFINE d == 2^ByteBits
  <2>1. d \in Nat
    BY ByteTypes
  <2>2. \A b \in 1 .. l : \A v \in Nat : G[b][v] = v * d + bytes[b]
    OBVIOUS
  <2>3. \A v, x \in Nat : v * d + x \in Nat
    <3> HIDE DEF d
    <3> QED BY <2>1
  <2> HIDE DEF d, G
  <2>4. \A b \in 1 .. l : \A v \in Nat : G[b][v] \in Nat
    BY <1>1, <2>2, <2>3
  <2> QED BY <2>2, <2>4 DEF d
<1>5. 0 \in V[0] /\ \A b \in 0 .. l : V[b] = Nat
  BY <1>1
<1>6. \A b \in 1 .. l : \A v \in V[D[b]] : G[b][v] \in V[b]
  <2> HIDE DEF D, V, G
  <2> QED BY <1>3, <1>4
<1>7. PICK g : IsDescent(g, l, D, 0, G) /\ \A b \in 0 .. l : g[b] \in V[b]
  <2>1. \A b \in 1 .. l : D[b] \in 0 .. b - 1
    BY <1>3
  <2>2. 0 \in V[0]
    BY <1>5
  <2> HIDE DEF D, V, G
  <2> QED BY <1>1, <1>6, <2>1, <2>2, Descent
<1> HIDE DEF D, V, G
<1>8. g = [b \in 0 .. l |-> IF b = 0 THEN 0 ELSE g[b - 1] * 2^ByteBits + bytes[b]]
  <2>1. ASSUME NEW b \in 0 .. l, b # 0 PROVE G[b][g[D[b]]] = g[b - 1] * 2^ByteBits + bytes[b]
    <3>1. b \in 1 .. l
      BY <1>1, <2>1
    <3>2. g[b - 1] \in Nat /\ D[b] = b - 1
      BY <1>3, <1>5, <1>7, <3>1
    <3> QED BY <1>4, <3>1, <3>2
  <2> QED BY <1>7, <2>1 DEF IsDescent
<1>9. f = [b \in 0 .. l |-> IF b = 0 THEN 0 ELSE f[b - 1] * 2^ByteBits + bytes[b]]
  BY <1>8
<1> HIDE DEF f
<1> DEFINE T == {u \in 0 .. l : f[u] \in Nat}
<1>10. 0 \in 0 .. l /\ f[0] = 0
  <2>1. 0 \in 0 .. l
    BY <1>1
  <2> QED BY <1>9, <2>1
<1>11. ASSUME NEW u \in 0 .. l - 1, u \in T
       PROVE  u + 1 \in T /\ f[u + 1] = f[u] * 2^ByteBits + bytes[u + 1]
  <2>1. u + 1 \in 0 .. l /\ u + 1 # 0 /\ (u + 1) - 1 = u /\ u + 1 \in 1 .. l /\ u \in 0 .. l
    BY <1>1
  <2>2. f[u + 1] = f[u] * 2^ByteBits + bytes[u + 1]
    BY <1>9, <2>1
  <2>3. f[u] * 2^ByteBits + bytes[u + 1] \in Nat
    BY <1>4, <1>11, <2>1
  <2> QED BY <2>1, <2>2, <2>3
<1>12. 0 .. l \subseteq T
  <2>1. 0 \in Int /\ l \in Int
    BY <1>1
  <2>2. 0 \in T
    BY <1>10
  <2> HIDE DEF T
  <2> QED BY <1>11, <2>1, <2>2, Induction
<1>13. Numbers(f, bytes)
  <2>1. ASSUME NEW b \in 1 .. l
        PROVE  f[b - 1] \in Nat /\ f[b] \in Nat /\ f[b] = f[b - 1] * 2^ByteBits + bytes[b]
    <3>1. b - 1 \in 0 .. l - 1 /\ b \in 0 .. l /\ b - 1 \in 0 .. l /\ (b - 1) + 1 = b
      BY <1>1
    <3>2. f[b - 1] \in Nat /\ f[b] \in Nat
      BY <1>12, <3>1
    <3>3. f[(b - 1) + 1] = f[b - 1] * 2^ByteBits + bytes[(b - 1) + 1]
      BY <1>11, <3>1, <3>2
    <3> QED BY <3>1, <3>2, <3>3
  <2> QED BY <1>10, <2>1 DEF Numbers, l
<1>14. f[l] \in Nat
  <2>1. l \in 0 .. l
    BY <1>1
  <2> QED BY <1>12, <2>1
<1> QED BY <1>2, <1>13, <1>14 DEF l

(* util.go, ReadBigInt: the same for a field of any width.                 *)
LEMMA ReadBigIntLaw ==
  ASSUME NEW data \in Seq(Nat), NEW pos \in Nat, NEW n \in Nat, pos + n <= ByteBits * Len(data)
  PROVE  Reads(ReadBigInt(data, pos, n), Unpacked(data), pos, n)
<1> DEFINE bits == Unpacked(data)
           l == BytesFor(n)
           top == TopBits(n)
           bytes == [b \in 1 .. l |->
                       IF b = 1 THEN ReadBits(data, pos, top)
                       ELSE ReadBits(data, pos + top + (b - 2) * ByteBits, ByteBits)]
           room == ByteBits * Len(data)
<1>1. /\ bits \in Seq(Bit) /\ Len(bits) = room /\ room \in Nat /\ pos + n <= room
      /\ ByteBits \in Nat \ {0} /\ ByteBits \in 0 .. MaxWidth
      /\ \A w \in 1 .. ByteBits : w \in 0 .. MaxWidth
  <2>1. ByteBits \in Nat \ {0} /\ ByteBits <= MaxWidth /\ MaxWidth \in Int
    BY BitAssumption DEF MaxWidth
  <2>2. bits \in Seq(Bit) /\ Len(bits) = room /\ Len(data) \in Nat
    BY UnpackedTypes
  <2> QED BY <2>1, <2>2
<1>2. CASE n = 0
  <2>1. ReadBigInt(data, pos, n) = 0
    BY <1>2 DEF ReadBigInt
  <2>2. 2^0 = 1 /\ BitsOf(0, 0) = <<>>
    BY NoBits
  <2>3. Slice(bits, pos, 0) = <<>>
    BY DEF Slice
  <2> HIDE DEF bits
  <2>4. Reads(0, bits, pos, 0)
    BY <2>2, <2>3 DEF Reads
  <2> QED BY <1>2, <2>1, <2>4 DEF bits
<1>3. CASE n # 0
  <2>1. l \in Nat \ {0} /\ top \in 1 .. ByteBits /\ n = top + (l - 1) * ByteBits
    <3>1. l \in Nat /\ l # 0 /\ n - (l - 1) * ByteBits \in 1 .. ByteBits
      BY <1>3, BytesForLaw
    <3>2. top = n - (l - 1) * ByteBits
      BY DEF TopBits
    <3> DEFINE z == (l - 1) * ByteBits
    <3>3. z \in Int
      BY <1>1, <3>1
    <3> HIDE DEF z, l, top
    <3> QED BY <3>1, <3>2, <3>3 DEF z
  <2>2. ReadBigInt(data, pos, n) = NumberOf(bytes)
    BY <1>3 DEF ReadBigInt
  <2> HIDE DEF l, top, bits, room
  <2> DEFINE at(b) == top + (b - 1) * ByteBits
  <2>3. ASSUME NEW b \in 1 .. l PROVE at(b) \in Nat /\ at(b) <= n /\ (b = 1 => at(b) = top)
    <3>1. /\ ByteBits * (b - 1) \in Nat /\ ByteBits * (l - 1) \in Nat
          /\ ByteBits * (b - 1) <= ByteBits * (l - 1)
      <4>1. b - 1 \in Nat /\ l - 1 \in Nat /\ b - 1 <= l - 1
        BY <2>1
      <4> QED BY <1>1, <4>1, Multiples
    <3>2. (b - 1) * ByteBits = ByteBits * (b - 1) /\ (l - 1) * ByteBits = ByteBits * (l - 1)
      BY <1>1, <2>1
    <3> DEFINE x == ByteBits * (b - 1)
               y == ByteBits * (l - 1)
    <3>3. x \in Nat /\ y \in Nat /\ x <= y /\ n = top + y /\ at(b) = top + x
      BY <2>1, <3>1, <3>2
    <3>4. b = 1 => x = 0
      BY <1>1
    <3> HIDE DEF x, y, at
    <3> QED BY <2>1, <3>3, <3>4
  <2>4. ASSUME NEW b \in 2 .. l PROVE b \in 1 .. l /\ b - 1 \in 1 .. l /\ at(b) = at(b - 1) + ByteBits
    <3>1. b \in 1 .. l /\ b - 1 \in 1 .. l /\ (b - 1) * ByteBits = ((b - 1) - 1) * ByteBits + ByteBits
      BY <1>1, <2>1
    <3> DEFINE x == ((b - 1) - 1) * ByteBits
    <3>2. x \in Int /\ at(b) = top + (x + ByteBits) /\ at(b - 1) = top + x
      BY <1>1, <3>1
    <3> HIDE DEF x, at
    <3> QED BY <1>1, <2>1, <3>1, <3>2
  <2> HIDE DEF at
  <2>5. l >= 1 => Reads(bytes[1], bits, pos, top)
    <3>1. bytes[1] = ReadBits(data, pos, top)
      BY <2>1
    <3>2. top \in 0 .. MaxWidth /\ pos + top <= room
      <4>1. at(1) = top /\ at(1) <= n
        BY <2>1, <2>3
      <4> QED BY <1>1, <2>1, <4>1
    <3> HIDE DEF bytes
    <3> QED BY <3>1, <3>2, ReadBitsLaw DEF bits, room
  <2>6. ASSUME NEW b \in 2 .. l PROVE Reads(bytes[b], bits, pos + at(b - 1), ByteBits)
    <3>1. bytes[b] = ReadBits(data, pos + top + (b - 2) * ByteBits, ByteBits)
      BY <2>4
    <3>2. pos + top + (b - 2) * ByteBits = pos + at(b - 1)
      <4>1. (b - 1) - 1 = b - 2
        OBVIOUS
      <4>2. at(b - 1) = top + (b - 2) * ByteBits /\ (b - 2) * ByteBits \in Int
        BY <1>1, <4>1 DEF at
      <4> DEFINE x == (b - 2) * ByteBits
      <4> HIDE DEF x
      <4>3. at(b - 1) = top + x /\ x \in Int
        BY <4>2 DEF x
      <4>4. pos + top + x = pos + at(b - 1)
        BY <2>1, <4>3
      <4> QED BY <4>4 DEF x
    <3> DEFINE x == pos + at(b - 1)
    <3>3. x \in Nat /\ x + ByteBits <= room
      <4>1. at(b - 1) \in Nat /\ at(b) = at(b - 1) + ByteBits /\ at(b) <= n
        BY <2>3, <2>4
      <4> QED BY <1>1, <4>1
    <3> HIDE DEF bytes, x
    <3>4. Reads(ReadBits(data, x, ByteBits), bits, x, ByteBits)
      BY <1>1, <3>3, ReadBitsLaw DEF bits, room
    <3> QED BY <3>1, <3>2, <3>4 DEF x
  <2>7. bytes \in Seq(Nat) /\ Len(bytes) = l
    <3>1. ASSUME NEW b \in 1 .. l PROVE bytes[b] \in Nat
      <4>1. CASE b = 1
        <5>1. 2^top \in Nat
          BY <2>1, PowerPositive
        <5> HIDE DEF bytes
        <5> QED BY <2>1, <2>5, <4>1, <5>1 DEF Reads
      <4>2. CASE b # 1
        <5>1. b \in 2 .. l
          BY <4>2
        <5> HIDE DEF bytes
        <5> QED BY <2>6, <5>1, ByteTypes DEF Reads
      <4> QED BY <4>1, <4>2
    <3>2. bytes \in [1 .. l -> Nat]
      <4>1. bytes = [b \in 1 .. l |-> bytes[b]]
        OBVIOUS
      <4> HIDE DEF bytes
      <4> QED BY <3>1, <4>1
    <3> HIDE DEF bytes
    <3>3. l \in Nat
      BY <2>1
    <3> QED BY <3>2, <3>3
  <2> HIDE DEF bytes
  <2>8. PICK g : Numbers(g, bytes) /\ NumberOf(bytes) = g[l]
    BY <2>7, NumberOfLaw
  <2> DEFINE T == {b \in 1 .. l : Reads(g[b], bits, pos, at(b))}
  <2>9. 1 \in T
    <3>1. 1 \in 1 .. l /\ at(1) = top
      BY <2>1, <2>3
    <3>2. g[1] = bytes[1]
      <4>1. g[1 - 1] = 0 /\ g[1] = g[1 - 1] * 2^ByteBits + bytes[1] /\ bytes[1] \in Nat
        BY <2>7, <2>8, <3>1 DEF Numbers
      <4>2. 0 * 2^ByteBits = 0
        BY ByteTypes
      <4> QED BY <4>1, <4>2
    <3> QED BY <2>1, <2>5, <3>1, <3>2
  <2>10. ASSUME NEW b \in 1 .. l - 1, b \in T PROVE b + 1 \in T
    <3>1. b + 1 \in 2 .. l /\ b + 1 \in 1 .. l /\ (b + 1) - 1 = b /\ b \in 1 .. l
      BY <2>1
    <3>2. g[b + 1] = g[b] * 2^ByteBits + bytes[b + 1]
      BY <2>7, <2>8, <3>1 DEF Numbers
    <3>3. Reads(bytes[b + 1], bits, pos + at(b), ByteBits)
      BY <2>6, <3>1
    <3>4. at(b) \in Nat /\ at(b + 1) = at(b) + ByteBits /\ at(b + 1) <= n
      BY <2>3, <2>4, <3>1
    <3> DEFINE p == at(b)
               t == at(b + 1)
               f == pos + p
    <3>5. p \in Nat /\ f = pos + p /\ t = p + ByteBits /\ pos + t <= Len(bits)
      BY <1>1, <3>4
    <3>6. Reads(g[b], bits, pos, p) /\ Reads(bytes[b + 1], bits, f, ByteBits)
      BY <2>10, <3>3
    <3> HIDE DEF p, t, f
    <3>7. Reads(g[b] * 2^ByteBits + bytes[b + 1], bits, pos, t)
      BY <1>1, <3>5, <3>6, ReadsJoin
    <3> QED BY <3>1, <3>2, <3>7 DEF t
  <2>11. l \in T
    <3>1. 1 .. l \subseteq T
      <4>1. 1 \in Int /\ l \in Int
        BY <2>1
      <4> HIDE DEF T
      <4> QED BY <2>9, <2>10, <4>1, Induction
    <3>2. l \in 1 .. l
      BY <2>1
    <3> HIDE DEF T
    <3> QED BY <3>1, <3>2
  <2>12. at(l) = n
    BY <2>1 DEF at
  <2> QED BY <2>2, <2>8, <2>11, <2>12 DEF bits
<1> QED BY <1>2, <1>3

-----------------------------------------------------------------------------
(* Least and greatest numbers.                                             *)

(* A bounded set of numbers has a least and a greatest one.                *)
LEMMA MinLaw ==
  ASSUME NEW S \in SUBSET Nat, S # {}
  PROVE  Min(S) \in S /\ \A x \in S : Min(S) <= x
<1>1. \E x \in S : \A y \in S : x <= y
  BY LeastNumber
<1> QED BY <1>1 DEF Min

(* A bounded one has a greatest.                                           *)
LEMMA MaxLaw ==
  ASSUME NEW b \in Nat, NEW S \in SUBSET (0 .. b), S # {}
  PROVE  Max(S) \in S /\ \A x \in S : x <= Max(S)
<1> DEFINE T == {x \in Nat : b - x \in S}
<1>1. PICK s \in S : TRUE
  OBVIOUS
<1>2. b - s \in Nat /\ b - (b - s) = s /\ s \in 0 .. b
  OBVIOUS
<1>3. T \in SUBSET Nat /\ T # {}
  BY <1>1, <1>2
<1>4. PICK t \in T : \A y \in T : t <= y
  <2> HIDE DEF T
  <2> QED BY <1>3, LeastNumber
<1>5. b - t \in S /\ t \in Nat
  OBVIOUS
<1>6. \A y \in S : b - t >= y
  <2>1. ASSUME NEW y \in S PROVE b - t >= y
    <3>1. y \in 0 .. b /\ b - y \in Nat /\ b - (b - y) = y
      OBVIOUS
    <3>2. b - y \in T
      BY <3>1
    <3>3. t <= b - y
      BY <1>4, <3>2
    <3> QED BY <1>5, <3>1, <3>3
  <2> QED BY <2>1
<1>7. \E x \in S : \A y \in S : x >= y
  BY <1>5, <1>6
<1>8. Max(S) \in S /\ \A y \in S : Max(S) >= y
  BY <1>7 DEF Max
<1> QED BY <1>8

(* The larger of two numbers.                                              *)
LEMMA LargerLaw ==
  ASSUME NEW a \in Nat, NEW b \in Nat
  PROVE  Max({a, b}) \in {a, b} /\ Max({a, b}) \in Nat /\ Max({a, b}) >= a /\ Max({a, b}) >= b
<1> DEFINE S == {a, b}
<1>1. S \in SUBSET (0 .. a + b) /\ S # {} /\ a + b \in Nat
  OBVIOUS
<1>2. Max(S) \in S /\ \A x \in S : x <= Max(S)
  <2> HIDE DEF S
  <2> QED BY <1>1, MaxLaw
<1> QED BY <1>2

(* So many positions.                                                      *)
LEMMA UpTo ==
  ASSUME NEW u \in Nat
  PROVE  IsFiniteSet(0 .. u - 1) /\ Cardinality(0 .. u - 1) = u
<1>1. 0 \in Int /\ u - 1 \in Int
  OBVIOUS
<1>2. IsFiniteSet(0 .. u - 1) /\ Cardinality(0 .. u - 1) = IF 0 > u - 1 THEN 0 ELSE (u - 1) - 0 + 1
  BY <1>1, FS_Interval
<1> QED BY <1>2

(* A number is below its power of two.                                     *)
LEMMA BelowPower ==
  ASSUME NEW m \in Nat
  PROVE  m < 2^m /\ 2^m \in Nat
<1> DEFINE T == {x \in 0 .. m : x < 2^x}
<1>1. 0 \in T
  BY 2^0 = 1
<1>2. ASSUME NEW x \in 0 .. m - 1, x \in T PROVE x + 1 \in T
  <2> DEFINE d == 2^x
             e == 2^(x + 1)
  <2>1. x \in Nat /\ d \in Nat /\ e = 2 * d /\ x < d
    BY <1>2, PowerPositive, PowerStep
  <2> HIDE DEF d, e
  <2>2. x + 1 < e /\ x + 1 \in 0 .. m
    BY <2>1
  <2> QED BY <2>2 DEF e
<1>3. 0 .. m \subseteq T
  <2> HIDE DEF T
  <2>1. 0 \in Int /\ m \in Int
    OBVIOUS
  <2> QED BY <1>1, <1>2, <2>1, Induction
<1> QED BY <1>3, PowerPositive

-----------------------------------------------------------------------------
(* decompressor.go: unrank, of any index below the coefficient.            *)

(* The state of a scan for the weight w: what is left of the index is      *)
(* below the next coefficient of that weight.                              *)
ScanState(s, u, w) ==
  /\ s.start \in -1 .. u - 1 /\ s.rest \in Nat /\ s.rest < BinCoef(s.start + 1, w)
  /\ s.set \in SUBSET (0 .. u - 1)

(* A scan finds the largest position that fits, and the rest is below the  *)
(* next smaller weight's coefficient of it.                                *)
LEMMA FoundLaw ==
  ASSUME NEW u \in 1 .. CacheN, NEW w \in Nat, w >= 2, NEW s, ScanState(s, u, w)
  PROVE  ScanState(Found(s, w), u, w - 1)
<1> DEFINE a == s.start
           r == s.rest
           C == {x \in 0 .. a : BinCoef(x, w) <= r}
           j == Max(C)
<1>1. a \in -1 .. u - 1 /\ r \in Nat /\ r < BinCoef(a + 1, w) /\ s.set \in SUBSET (0 .. u - 1)
  BY DEF ScanState
<1>2. CacheN \in Nat /\ u \in Nat /\ u <= CacheN
  BY CacheTypes
<1> HIDE DEF a, r
<1>3. BinCoef(0, w) = 0
  BY DEF BinCoef
<1>4. a \in Nat /\ a < u /\ 0 \in C
  <2>1. a # -1
    BY <1>1, <1>3
  <2>2. a \in Nat /\ a < u
    BY <1>1, <1>2, <2>1
  <2> QED BY <1>1, <1>3, <2>2
<1>5. j \in 0 .. a /\ BinCoef(j, w) <= r /\ \A i \in j + 1 .. a : ~(BinCoef(i, w) <= r)
  <2>1. C \in SUBSET (0 .. a) /\ C # {}
    BY <1>4
  <2>2. j \in C /\ \A x \in C : x <= j
    <3> HIDE DEF C
    <3> QED BY <1>4, <2>1, MaxLaw
  <2> HIDE DEF j
  <2>3. ASSUME NEW i \in j + 1 .. a, BinCoef(i, w) <= r PROVE FALSE
    <3>1. i \in 0 .. a /\ ~(i <= j)
      BY <2>2, <2>3
    <3>2. i \in C
      BY <2>3, <3>1
    <3> QED BY <2>2, <3>1, <3>2
  <2> QED BY <2>2, <2>3
<1> HIDE DEF j, C
<1>6. \A i \in 0 .. a : i \in 0 .. CacheN /\ BinCoef(i, w) \in Nat
  <2>1. \A i \in 0 .. a : i \in 0 .. CacheN
    BY <1>2, <1>4
  <2> QED BY <2>1, CoefficientTypes
<1>7. Largest(a, w, r) = j
  <2>1. Fits(BinCoef(j, w), r)
    BY <1>1, <1>5, <1>6, FitsLaw
  <2>2. ASSUME NEW i \in j + 1 .. a PROVE ~Fits(BinCoef(i, w), r)
    <3>1. i \in 0 .. a
      BY <1>5
    <3> QED BY <1>1, <1>5, <1>6, <2>2, <3>1, FitsLaw
  <2> QED BY <1>1, <1>4, <1>5, <2>1, <2>2, LargestLaw
<1>8. r < BinCoef(j + 1, w)
  <2>1. CASE j = a
    BY <1>1, <2>1
  <2>2. CASE j # a
    <3>1. j + 1 \in j + 1 .. a /\ j + 1 \in 0 .. a
      BY <1>4, <1>5, <2>2
    <3> QED BY <1>1, <1>5, <1>6, <3>1
  <2> QED BY <2>1, <2>2
<1>9. BinCoef(j + 1, w) = BinCoef(j, w - 1) + BinCoef(j, w)
  <2>1. j + 1 \in 1 .. CacheN /\ w \in Nat \ {0} /\ (j + 1) - 1 = j
    BY <1>2, <1>4, <1>5
  <2> DEFINE m == j + 1
  <2> HIDE DEF m
  <2>2. BinCoef(m, w) = BinCoef(m - 1, w - 1) + BinCoef(m - 1, w)
    BY <2>1, Pascal DEF m
  <2> QED BY <2>1, <2>2 DEF m
<1> DEFINE b == BinCoef(j, w)
           d == BinCoef(j, w - 1)
<1>10. b \in Nat /\ d \in Nat /\ b <= r /\ r < d + b
  <2>1. w - 1 \in Nat /\ j \in 0 .. CacheN
    BY <1>5, <1>6
  <2> QED BY <1>5, <1>6, <1>8, <1>9, <2>1, CoefficientTypes
<1> HIDE DEF b, d
<1>11. r - b \in Nat /\ r - b < d
  BY <1>1, <1>10
<1>12. j # -1 /\ j - 1 \in -1 .. u - 1 /\ (j - 1) + 1 = j /\ j \in 0 .. u - 1
  BY <1>2, <1>4, <1>5
<1>13. Found(s, w) = [start |-> j - 1, rest |-> r - b, set |-> s.set \cup {j}]
  BY <1>7, <1>12 DEF Found, a, r, b
<1>14. s.set \cup {j} \in SUBSET (0 .. u - 1)
  BY <1>1, <1>12
<1> QED BY <1>11, <1>12, <1>13, <1>14 DEF ScanState, d

(* Whatever index below the coefficient is unranked, it gives positions of *)
(* the universe.                                                           *)
LEMMA UnrankWithin ==
  ASSUME NEW u \in 1 .. CacheN, NEW k \in 0 .. u, NEW index \in Nat, index < BinCoef(u, k)
  PROVE  Unrank(index, k, u) \in SUBSET (0 .. u - 1)
<1>1. CacheN \in Nat /\ u \in Nat /\ k \in Nat /\ u \in 0 .. CacheN
  BY CacheTypes
<1>2. CASE k = 0
  BY <1>2 DEF Unrank
<1>3. CASE k # 0
  <2> DEFINE l == k - 1
             c == [start |-> u - 1, rest |-> index, set |-> {}]
             States == [start : -1 .. u - 1, rest : Nat, set : SUBSET (0 .. u - 1)]
             V == [i \in 0 .. l |-> {s \in {c} \cup States : ScanState(s, u, k - i)}]
             G == [i \in 1 .. l |-> [s \in {c} \cup States |-> Found(s, k + 1 - i)]]
             f == FoundBy(index, k, u)
  <2>1. l \in Nat /\ k - 0 = k /\ l = k - 1
    BY <1>1, <1>3
  <2>2. c \in V[0]
    <3>1. c.start = u - 1 /\ c.rest = index /\ c.set = {} /\ c.start + 1 = u
      BY <1>1
    <3>2. u - 1 \in -1 .. u - 1
      BY <1>1
    <3>3. ScanState(c, u, k)
      BY <3>1, <3>2 DEF ScanState
    <3> HIDE DEF c
    <3> QED BY <2>1, <3>3
  <2>3. ASSUME NEW i \in 1 .. l, NEW s \in V[i - 1]
        PROVE  G[i][s] = Found(s, k + 1 - i) /\ G[i][s] \in V[i]
    <3>1. i - 1 \in 0 .. l /\ i \in 0 .. l /\ k - (i - 1) = k + 1 - i /\ (k + 1 - i) - 1 = k - i /\ k + 1 - i \in Nat /\ k + 1 - i >= 2
      BY <1>1, <2>1
    <3>2. s \in {c} \cup States /\ ScanState(s, u, k + 1 - i)
      BY <3>1
    <3> DEFINE w == k + 1 - i
               t == Found(s, w)
    <3>3. G[i][s] = t
      <4> HIDE DEF States, c, t
      <4> QED BY <3>2 DEF t
    <3>4. ScanState(t, u, w - 1)
      <4> HIDE DEF w
      <4> QED BY <3>1, <3>2, FoundLaw DEF w
    <3>5. t = s \/ t \in States
      <4>1. t.start \in -1 .. u - 1 /\ t.rest \in Nat /\ t.set \in SUBSET (0 .. u - 1)
        <5> HIDE DEF t
        <5> QED BY <3>4 DEF ScanState
      <4>2. t = s \/ \E a, b, d : t = [start |-> a, rest |-> b, set |-> d]
        BY DEF Found
      <4> HIDE DEF t
      <4> QED BY <4>1, <4>2
    <3> HIDE DEF G, States, c, t
    <3>6. t \in V[i]
      BY <3>1, <3>2, <3>4, <3>5
    <3> QED BY <3>3, <3>6 DEF t
  <2> HIDE DEF V, G, States
  <2>4. PICK g : Follows(g, 0, l, c, G) /\ \A x \in 0 .. l : g[x] \in V[x]
    <3>1. 0 \in Int /\ l \in Int
      BY <2>1
    <3>2. \A i \in 0 + 1 .. l : \A s \in V[i - 1] : G[i][s] \in V[i]
      BY <2>3
    <3> HIDE DEF c, l
    <3> QED BY <2>2, <3>1, <3>2, Recursion
  <2> DEFINE Step(h) == [i \in 0 .. k - 1 |->
                           IF i = 0 THEN [start |-> u - 1, rest |-> index, set |-> {}] ELSE Found(h[i - 1], k + 1 - i)]
  <2>5. \A i \in 0 .. l : g[i] = IF i = 0 THEN c ELSE Found(g[i - 1], k + 1 - i)
    <3> SUFFICES ASSUME NEW i \in 0 .. l PROVE g[i] = IF i = 0 THEN c ELSE Found(g[i - 1], k + 1 - i)
      OBVIOUS
    <3>1. g[i] = IF i = 0 THEN c ELSE G[i][g[i - 1]]
      BY <2>4 DEF Follows
    <3>2. i # 0 => i \in 1 .. l /\ i - 1 \in 0 .. l
      BY <2>1
    <3>3. i # 0 => g[i - 1] \in V[i - 1]
      BY <2>4, <3>2
    <3> HIDE DEF c, l
    <3> QED BY <2>3, <3>1, <3>2, <3>3
  <2>6. g = Step(g)
    <3>1. g = [i \in 0 .. l |-> g[i]]
      BY <2>4 DEF Follows
    <3> QED BY <2>5, <3>1
  <2>7. f = Step(f)
    BY <2>6 DEF FoundBy
  <2>8. \A i \in 0 .. l : f[i] = IF i = 0 THEN c ELSE Found(f[i - 1], k + 1 - i)
    <3> HIDE DEF f
    <3> QED BY <2>7
  <2> HIDE DEF f, c
  <2> DEFINE T == {x \in 0 .. l : f[x] \in V[x]}
  <2>9. 0 \in T
    <3>1. 0 \in 0 .. l
      BY <2>1
    <3> QED BY <2>2, <2>8, <3>1
  <2>10. ASSUME NEW x \in 0 .. l - 1, x \in T PROVE x + 1 \in T
    <3>1. x + 1 \in 1 .. l /\ x + 1 \in 0 .. l /\ x + 1 # 0 /\ (x + 1) - 1 = x
      BY <2>1
    <3>2. f[x + 1] = Found(f[x], k + 1 - (x + 1))
      BY <2>8, <3>1
    <3>3. f[x] \in V[(x + 1) - 1]
      BY <2>10, <3>1
    <3>4. Found(f[x], k + 1 - (x + 1)) \in V[x + 1]
      <4> HIDE DEF T
      <4> QED BY <2>3, <3>1, <3>3
    <3> QED BY <3>1, <3>2, <3>4
  <2>11. 0 .. l \subseteq T
    <3> HIDE DEF T, l
    <3>1. 0 \in Int /\ l \in Int
      BY <2>1
    <3> QED BY <2>9, <2>10, <3>1, Induction
  <2>12. f[l] \in V[l] /\ k - l = 1
    BY <1>1, <2>1, <2>11
  <2> DEFINE s == f[l]
  <2>13. ScanState(s, u, 1)
    <3>1. l \in 0 .. l
      BY <2>1
    <3> HIDE DEF s, l
    <3>2. s \in V[l]
      BY <2>12 DEF s
    <3> QED BY <2>12, <3>1, <3>2 DEF V
  <2> HIDE DEF s
  <2>14. s.rest \in 0 .. u - 1 /\ s.set \in SUBSET (0 .. u - 1)
    <3>1. s.start + 1 \in 0 .. CacheN /\ s.start + 1 <= u /\ s.rest \in Nat /\ s.rest < BinCoef(s.start + 1, 1) /\ s.set \in SUBSET (0 .. u - 1)
      <4>1. s.start \in -1 .. u - 1
        BY <2>13 DEF ScanState
      <4> QED BY <1>1, <2>13, <4>1 DEF ScanState
    <3> DEFINE a == s.start + 1
    <3> HIDE DEF a
    <3>2. a \in 0 .. CacheN /\ a <= u /\ s.rest < BinCoef(a, 1)
      BY <3>1 DEF a
    <3>3. BinCoef(a, 1) = a
      BY <3>2, ClosedForms
    <3> QED BY <1>1, <3>1, <3>2, <3>3
  <2>15. Unrank(index, k, u) = s.set \cup {s.rest}
    BY <1>3 DEF Unrank, f, s, l
  <2> QED BY <2>14, <2>15
<1> QED BY <1>2, <1>3

-----------------------------------------------------------------------------
(* util.go: ReduceIndexSet, and the way back.                              *)

(* Disjoint sets have together as many elements as each of them.           *)
LEMMA DisjointUnion ==
  ASSUME NEW S, IsFiniteSet(S), NEW T, IsFiniteSet(T), S \cap T = {}
  PROVE  /\ IsFiniteSet(S \cup T) /\ Cardinality(S \cup T) \in Nat
         /\ Cardinality(S) \in Nat /\ Cardinality(T) \in Nat
         /\ Cardinality(S \cup T) = Cardinality(S) + Cardinality(T)
<1>1. Cardinality(S) \in Nat /\ Cardinality(T) \in Nat
  BY FS_CardinalityType
<1>2. IsFiniteSet(S \cup T) /\ Cardinality(S \cup T) = Cardinality(S) + Cardinality(T) - Cardinality(S \cap T)
  BY FS_Union
<1>3. Cardinality(S \cap T) = 0
  BY FS_EmptySet
<1> QED BY <1>1, <1>2, <1>3

(* ReduceIndexSet: a position less the removed ones below it, which is the *)
(* number of those left below it.                                          *)
LEMMA ReducedPosition ==
  ASSUME NEW u \in Nat, NEW P \in SUBSET (0 .. u - 1), NEW G \in SUBSET (0 .. u - 1), P \cap G = {}
  PROVE  ReduceIndexSet(IndexSet(P), G) =
           [i \in 1 .. Cardinality(P) |-> Cardinality(Below((0 .. u - 1) \ G, IndexSet(P)[i]))]
<1> DEFINE p == IndexSet(P)
           m == Cardinality(P)
           L == (0 .. u - 1) \ G
           Segment(i) == {x \in G \cup {p[h] : h \in 1 .. i} : SegmentStart(p, i) <= x /\ x < p[i]}
           f == CHOOSE f : f = [i \in 0 .. Len(p) |-> IF i = 0 THEN 0 ELSE f[i - 1] + Cardinality(Segment(i))]
           V == [i \in 0 .. m |-> Int]
           F == [i \in 1 .. m |-> [v \in Int |-> v + Cardinality(Segment(i))]]
<1>1. m \in Nat /\ Len(p) = m /\ Lists(p, m, P)
  BY IndexSetLists
<1>2. \A i \in 1 .. m : p[i] \in P /\ p[i] \in Nat /\ p[i] < u
  BY <1>1, ListTypes
<1>3. \A i, j \in 1 .. m : i < j => p[i] < p[j]
  BY <1>1 DEF Lists
<1>4. ReduceIndexSet(p, G) = [i \in 1 .. m |-> p[i] - f[i]]
  BY <1>1 DEF ReduceIndexSet
<1> HIDE DEF p, m
<1>5. \A S \in SUBSET (0 .. u - 1) : IsFiniteSet(S) /\ Cardinality(S) \in Nat
  <2>1. 0 \in Int /\ u - 1 \in Int
    OBVIOUS
  <2>2. IsFiniteSet(0 .. u - 1)
    BY <2>1, FS_Interval
  <2> QED BY <2>2, FS_Subset, FS_CardinalityType
<1>6. ASSUME NEW i \in 1 .. m
      PROVE  /\ Segment(i) = {x \in G : SegmentStart(p, i) <= x /\ x < p[i]}
             /\ Segment(i) \in SUBSET (0 .. u - 1)
  <2>1. ASSUME NEW h \in 1 .. i PROVE ~(SegmentStart(p, i) <= p[h] /\ p[h] < p[i])
    <3>1. h \in 1 .. m /\ i \in Int /\ h \in Int
      BY <1>1
    <3>2. CASE h = i
      BY <1>2, <3>1, <3>2
    <3>3. CASE h # i
      <4>1. i # 1 /\ i - 1 \in 1 .. m /\ SegmentStart(p, i) = p[i - 1] + 1
        BY <1>1, <3>1, <3>3 DEF SegmentStart
      <4>2. p[h] <= p[i - 1]
        <5>1. CASE h = i - 1
          BY <1>2, <4>1, <5>1
        <5>2. CASE h # i - 1
          <6>1. h < i - 1
            BY <3>1, <3>3, <5>2
          <6> QED BY <1>2, <1>3, <3>1, <4>1, <6>1
        <5> QED BY <5>1, <5>2
      <4>3. p[h] \in Nat /\ p[i - 1] \in Nat
        BY <1>2, <3>1, <4>1
      <4> QED BY <4>1, <4>2, <4>3
    <3> QED BY <3>2, <3>3
  <2>2. Segment(i) = {x \in G : SegmentStart(p, i) <= x /\ x < p[i]}
    BY <2>1
  <2> QED BY <2>2
<1> HIDE DEF Segment
<1>7. PICK g : Follows(g, 0, m, 0, F) /\ \A i \in 0 .. m : g[i] \in V[i]
  <2>1. 0 \in Int /\ m \in Int /\ 0 \in V[0]
    BY <1>1
  <2>2. ASSUME NEW i \in 0 + 1 .. m, NEW v \in V[i - 1] PROVE F[i][v] \in V[i]
    <3>1. i \in 1 .. m /\ i - 1 \in 0 .. m /\ i \in 0 .. m
      BY <1>1
    <3>2. v \in Int
      BY <3>1
    <3>3. F[i][v] = v + Cardinality(Segment(i)) /\ Cardinality(Segment(i)) \in Nat
      BY <1>5, <1>6, <3>1, <3>2
    <3> HIDE DEF F
    <3> QED BY <3>1, <3>2, <3>3
  <2> HIDE DEF V, F
  <2> QED BY <2>1, <2>2, Recursion
<1>8. g = [i \in 0 .. m |-> IF i = 0 THEN 0 ELSE g[i - 1] + Cardinality(Segment(i))]
  <2>1. ASSUME NEW i \in 0 .. m, i # 0 PROVE F[i][g[i - 1]] = g[i - 1] + Cardinality(Segment(i))
    <3>1. i \in 1 .. m /\ i - 1 \in 0 .. m
      BY <1>1, <2>1
    <3>2. g[i - 1] \in Int
      BY <1>7, <3>1
    <3> QED BY <3>1, <3>2
  <2> HIDE DEF F
  <2> QED BY <1>7, <2>1 DEF Follows
<1>9. f = [i \in 0 .. m |-> IF i = 0 THEN 0 ELSE f[i - 1] + Cardinality(Segment(i))]
  BY <1>1, <1>8
<1> HIDE DEF f, V, F
<1> DEFINE T == {i \in 0 .. m : i # 0 => f[i] = Cardinality(Below(G, p[i]))}
<1>a. \A x : Below(G, x) \in SUBSET (0 .. u - 1)
  BY DEF Below
<1>b. 0 \in T
  BY <1>1
<1>c. ASSUME NEW j \in 0 .. m - 1, j \in T PROVE j + 1 \in T
  <2> DEFINE i == j + 1
             before == IF j = 0 THEN {} ELSE Below(G, p[j])
  <2>1. i \in 1 .. m /\ i \in 0 .. m /\ i # 0 /\ i - 1 = j /\ j \in Nat
    BY <1>1
  <2>2. before \in SUBSET (0 .. u - 1) /\ f[j] = Cardinality(before)
    <3>1. CASE j = 0
      <4>1. before = {} /\ Cardinality(before) = 0
        BY <3>1, FS_EmptySet
      <4>2. f[j] = 0
        BY <1>1, <1>9, <3>1
      <4> HIDE DEF before
      <4> QED BY <4>1, <4>2
    <3>2. CASE j # 0
      BY <1>a, <1>c, <3>2
    <3> QED BY <3>1, <3>2
  <2>3. Below(G, p[i]) = before \cup Segment(i) /\ before \cap Segment(i) = {}
    <3>1. Segment(i) = {x \in G : SegmentStart(p, i) <= x /\ x < p[i]} /\ p[i] \in Nat
      BY <1>2, <1>6, <2>1
    <3>2. CASE j = 0
      <4>1. SegmentStart(p, i) = 0
        BY <2>1, <3>2 DEF SegmentStart
      <4>2. before = {}
        BY <3>2
      <4> HIDE DEF before, i
      <4>3. Segment(i) = Below(G, p[i])
        <5>1. \A x \in G : x \in Int /\ 0 <= x
          OBVIOUS
        <5>2. Segment(i) = {x \in G : 0 <= x /\ x < p[i]}
          BY <3>1, <4>1
        <5> QED BY <5>1, <5>2 DEF Below
      <4> QED BY <4>2, <4>3
    <3>3. CASE j # 0
      <4>1. SegmentStart(p, i) = p[j] + 1 /\ j \in 1 .. m /\ j < i
        BY <1>1, <2>1, <3>3 DEF SegmentStart
      <4>2. p[j] \in Nat /\ p[j] \notin G /\ p[j] < p[i]
        BY <1>2, <1>3, <2>1, <4>1
      <4>3. before = Below(G, p[j])
        BY <3>3
      <4> DEFINE a == p[j]
                 b == p[i]
      <4>4. a \in Nat /\ b \in Nat /\ a \notin G /\ a < b /\ before = Below(G, a)
            /\ Segment(i) = {x \in G : a + 1 <= x /\ x < b}
        BY <3>1, <4>1, <4>2, <4>3
      <4> HIDE DEF before, i, a, b
      <4>5. \A x \in G : x \in Int /\ x # a /\ (x < b <=> x < a \/ (a + 1 <= x /\ x < b)) /\ ~(x < a /\ a + 1 <= x)
        BY <4>4
      <4>6. Below(G, b) = before \cup Segment(i) /\ before \cap Segment(i) = {}
        BY <4>4, <4>5 DEF Below
      <4> QED BY <4>6 DEF b
    <3> QED BY <3>2, <3>3
  <2>4. f[i] = f[j] + Cardinality(Segment(i))
    BY <1>9, <2>1
  <2> HIDE DEF before, i
  <2>5. IsFiniteSet(before) /\ IsFiniteSet(Segment(i))
    BY <1>5, <1>6, <2>1, <2>2
  <2>6. Cardinality(before \cup Segment(i)) = Cardinality(before) + Cardinality(Segment(i))
    <3>1. Cardinality(before) \in Nat /\ Cardinality(Segment(i)) \in Nat
      BY <1>5, <1>6, <2>1, <2>2
    <3> QED BY <2>3, <2>5, <3>1, DisjointUnion
  <2>7. i \in T
    BY <2>1, <2>2, <2>3, <2>4, <2>6
  <2> QED BY <2>7 DEF i
<1>d. 0 .. m \subseteq T
  <2> HIDE DEF T
  <2>1. 0 \in Int /\ m \in Int
    BY <1>1
  <2> QED BY <1>b, <1>c, <2>1, Induction
<1>e. ASSUME NEW i \in 1 .. m PROVE p[i] - f[i] = Cardinality(Below(L, p[i]))
  <2> DEFINE x == p[i]
             A == Below(G, x)
             B == Below(L, x)
  <2>1. f[i] = Cardinality(A)
    BY <1>1, <1>d
  <2>2. x \in Nat /\ x < u
    BY <1>2
  <2> HIDE DEF x
  <2>3. A \in SUBSET (0 .. u - 1) /\ B \in SUBSET (0 .. u - 1) /\ A \cap B = {} /\ A \cup B = 0 .. x - 1
    <3>1. \A y \in 0 .. x - 1 : y \in 0 .. u - 1 /\ y < x
      BY <2>2
    <3>2. \A y \in 0 .. u - 1 : y < x => y \in 0 .. x - 1
      BY <2>2
    <3>3. A = {y \in 0 .. x - 1 : y \in G} /\ B = {y \in 0 .. x - 1 : y \notin G}
      BY <3>1, <3>2 DEF Below
    <3> QED BY <3>1, <3>3
  <2> HIDE DEF A, B
  <2>4. IsFiniteSet(A) /\ IsFiniteSet(B) /\ Cardinality(A) \in Nat /\ Cardinality(B) \in Nat
    BY <1>5, <2>3
  <2>5. Cardinality(A \cup B) = Cardinality(A) + Cardinality(B)
    BY <2>3, <2>4, DisjointUnion
  <2>6. Cardinality(0 .. x - 1) = x
    <3>1. 0 \in Int /\ x - 1 \in Int
      BY <2>2
    <3>2. Cardinality(0 .. x - 1) = IF 0 > x - 1 THEN 0 ELSE (x - 1) - 0 + 1
      BY <3>1, FS_Interval
    <3> QED BY <2>2, <3>2
  <2>7. x = Cardinality(A) + Cardinality(B)
    BY <2>3, <2>5, <2>6
  <2>8. x - Cardinality(A) = Cardinality(B)
    BY <2>4, <2>7
  <2> QED BY <2>1, <2>8 DEF B, x
<1>f. ReduceIndexSet(p, G) = [i \in 1 .. m |-> Cardinality(Below(L, p[i]))]
  BY <1>4, <1>e
<1> QED BY <1>f DEF p, m

(* The reduced positions of a set are those of a set of the same size in   *)
(* the universe left; put back, they give the set again.                   *)
Reduced(P, L) == {Cardinality(Below(L, x)) : x \in P}

Restored(R, L) == {IndexSet(L)[q + 1] : q \in R \cap 0 .. Len(IndexSet(L)) - 1}

(* Reduced positions are those of a smaller universe, in which the decoder *)
(* finds them again.                                                       *)
LEMMA ReducedLaw ==
  ASSUME NEW u \in Nat, NEW P \in SUBSET (0 .. u - 1), NEW G \in SUBSET (0 .. u - 1), P \cap G = {}
  PROVE  LET L == (0 .. u - 1) \ G IN
         /\ Reduced(P, L) \in SUBSET (0 .. Cardinality(L) - 1)
         /\ Cardinality(Reduced(P, L)) = Cardinality(P)
         /\ ReduceIndexSet(IndexSet(P), G) = IndexSet(Reduced(P, L))
         /\ Len(ReduceIndexSet(IndexSet(P), G)) = Cardinality(P)
         /\ Restored(Reduced(P, L), L) = P
<1> DEFINE L == (0 .. u - 1) \ G
           R == Reduced(P, L)
           p == IndexSet(P)
           m == Cardinality(P)
           q == ReduceIndexSet(p, G)
           r(x) == Cardinality(Below(L, x))
<1>1. m \in Nat /\ Len(p) = m /\ Lists(p, m, P)
  BY IndexSetLists
<1>2. L \in SUBSET (0 .. u - 1) /\ L \in SUBSET Int /\ P \in SUBSET L
  OBVIOUS
<1>3. IsFiniteSet(L) /\ Cardinality(L) \in Nat /\ Len(IndexSet(L)) = Cardinality(L)
  BY <1>2, IndexSetLists
<1> HIDE DEF L
<1>4. ASSUME NEW x \in P PROVE r(x) \in 0 .. Cardinality(L) - 1 /\ x \in L /\ x \in Int
  BY <1>2, <1>3, BelowGrows
<1>5. ASSUME NEW x \in L, NEW y \in L, x < y PROVE r(x) < r(y)
  BY <1>2, <1>3, <1>5, BelowGrows
<1>6. R \in SUBSET (0 .. Cardinality(L) - 1) /\ R \in SUBSET Int
  <2>1. R \in SUBSET (0 .. Cardinality(L) - 1)
    BY <1>4 DEF Reduced
  <2> QED BY <1>3, <2>1
<1>8. q = [i \in 1 .. m |-> r(p[i])]
  BY ReducedPosition DEF L
<1>7. \A i \in 1 .. m : q[i] = r(p[i])
  BY <1>8
<1>9. /\ \A i \in 1 .. m : p[i] \in P
      /\ \A x \in P : \E i \in 1 .. m : p[i] = x
      /\ \A i, j \in 1 .. m : i < j => p[i] < p[j]
  BY <1>1 DEF Lists
<1> HIDE DEF q, p, m
<1>a. Lists(q, m, R)
  <2>1. \A i \in 1 .. m : q[i] \in R
    BY <1>7, <1>9 DEF Reduced
  <2>2. q \in [1 .. m -> R]
    BY <1>8, <2>1
  <2>3. ASSUME NEW y \in R PROVE \E i \in 1 .. m : q[i] = y
    <3>1. PICK x \in P : y = r(x)
      BY DEF Reduced
    <3>2. PICK i \in 1 .. m : p[i] = x
      BY <1>9
    <3> QED BY <1>7, <3>1, <3>2
  <2>4. ASSUME NEW i \in 1 .. m, NEW j \in 1 .. m, i < j PROVE q[i] < q[j]
    <3>1. p[i] \in L /\ p[j] \in L /\ p[i] < p[j]
      BY <1>4, <1>9, <2>4
    <3> QED BY <1>5, <1>7, <3>1
  <2> QED BY <2>2, <2>3, <2>4 DEF Lists
<1>b. Cardinality(R) = m /\ IndexSet(R) = q
  BY <1>1, <1>6, <1>a, IndexSetIs
<1>c. Len(q) = m
  BY <1>1, <1>8
<1>d. ASSUME NEW x \in P
      PROVE  r(x) + 1 \in 1 .. Cardinality(L) /\ IndexSet(L)[r(x) + 1] = x
  <2> DEFINE y == IndexSet(L)[r(x) + 1]
  <2>1. r(x) + 1 \in 1 .. Cardinality(L) /\ r(x) \in Int /\ x \in L /\ x \in Int
    <3> DEFINE a == r(x)
               c == Cardinality(L)
    <3>1. a \in 0 .. c - 1 /\ c \in Nat
      BY <1>3, <1>4
    <3> HIDE DEF a, c
    <3>2. a + 1 \in 1 .. c /\ a \in Int
      BY <3>1
    <3> QED BY <1>4, <3>2 DEF a, c
  <2>2. y \in L /\ r(y) = (r(x) + 1) - 1
    BY <1>2, <1>3, <2>1, IndexSetPlace
  <2>3. r(y) = r(x) /\ y \in Int
    <3> DEFINE a == r(x)
               b == r(y)
    <3>1. b = (a + 1) - 1 /\ a \in Int /\ y \in Int
      BY <1>2, <2>1, <2>2
    <3> HIDE DEF a, b, y
    <3>2. b = a
      BY <3>1
    <3> QED BY <3>1, <3>2 DEF a, b
  <2> HIDE DEF y
  <2>4. ~(x < y) /\ ~(y < x)
    <3> DEFINE a == r(x)
               b == r(y)
    <3>1. a = b /\ a \in Int
      BY <2>1, <2>3
    <3>2. (x < y => a < b) /\ (y < x => b < a)
      BY <1>5, <2>1, <2>2
    <3> HIDE DEF a, b
    <3> QED BY <3>1, <3>2
  <2>5. y = x
    BY <2>1, <2>3, <2>4
  <2> QED BY <2>1, <2>5 DEF y
<1>e. Restored(R, L) = P
  <2>1. Restored(R, L) = {IndexSet(L)[z + 1] : z \in R \cap 0 .. Cardinality(L) - 1}
    BY <1>3 DEF Restored
  <2>2. R \cap 0 .. Cardinality(L) - 1 = R
    BY <1>6
  <2>3. Restored(R, L) = {IndexSet(L)[z + 1] : z \in R}
    BY <2>1, <2>2
  <2>4. {IndexSet(L)[z + 1] : z \in R} = {IndexSet(L)[r(x) + 1] : x \in P}
    BY DEF Reduced
  <2>5. {IndexSet(L)[r(x) + 1] : x \in P} = P
    BY <1>d
  <2> QED BY <2>3, <2>4, <2>5
<1> QED BY <1>6, <1>b, <1>c, <1>e DEF L, m, p, q

-----------------------------------------------------------------------------
(* Numbers, their bits and their bytes.                                    *)

(* A sequence of elements of S is one of elements of a larger set.         *)
LEMMA SeqWithin ==
  ASSUME NEW S, NEW T, S \subseteq T, NEW s \in Seq(S)
  PROVE  s \in Seq(T)
<1>1. Len(s) \in Nat /\ s \in [1 .. Len(s) -> S]
  OBVIOUS
<1>2. s \in [1 .. Len(s) -> T]
  BY <1>1
<1> QED BY <1>1, <1>2

(* The bits of a number determine it.                                      *)
LEMMA BitsDetermine ==
  ASSUME NEW m \in Nat, NEW v \in 0 .. 2^m - 1, NEW w \in 0 .. 2^m - 1, BitsOf(v, m) = BitsOf(w, m)
  PROVE  v = w
<1> DEFINE T == {i \in 0 .. m : Upper(v, m - i) = Upper(w, m - i)}
<1>1. v \in Nat /\ w \in Nat /\ v < 2^m /\ w < 2^m
  <2>1. 2^m \in Nat
    BY PowerPositive
  <2> QED BY <2>1
<1>2. 0 \in T
  <2>1. Upper(v, m) = 0 /\ Upper(w, m) = 0 /\ m - 0 = m /\ 0 \in 0 .. m
    BY <1>1, UpperEnds
  <2> QED BY <2>1
<1>3. ASSUME NEW i \in 0 .. m - 1, i \in T PROVE i + 1 \in T
  <2> DEFINE k == m - (i + 1)
  <2>1. k \in Nat /\ m - i = k + 1 /\ m - k \in 1 .. m /\ m - (m - k) = k /\ i + 1 \in 0 .. m
    OBVIOUS
  <2>2. Upper(v, k + 1) = Upper(w, k + 1)
    BY <1>3, <2>1
  <2> HIDE DEF k
  <2>3. ASSUME NEW x \in Nat
        PROVE  Upper(x, k) \in Nat /\ Upper(x, k) = 2 * Upper(x, k + 1) + (Upper(x, k) % 2)
               /\ BitsOf(x, m)[m - k] = Upper(x, k) % 2
    <3>1. Upper(x, k) \in Nat /\ Upper(Upper(x, k), 1) = Upper(x, k + 1)
      <4>1. Upper(x, k) \in Nat
        BY <2>1, UpperTypes
      <4>2. 1 \in Nat
        OBVIOUS
      <4>3. Upper(Upper(x, k), 1) = Upper(x, k + 1)
        BY <2>1, <2>3, <4>2, UpperUpper
      <4> QED BY <4>1, <4>3
    <3> DEFINE y == Upper(x, k)
    <3>5. y \in Nat
      BY <3>1
    <3> HIDE DEF y
    <3>2. Upper(y, 1) = y \div 2
      BY DEF Upper
    <3>3. y = 2 * (y \div 2) + (y % 2)
      BY <3>5, Division
    <3>4. BitsOf(x, m)[m - k] = Upper(x, m - (m - k)) % 2
      BY <2>1, BitsTypes
    <3> QED BY <2>1, <3>1, <3>2, <3>3, <3>4 DEF y
  <2>4. Upper(v, k) % 2 = Upper(w, k) % 2
    BY <1>1, <2>3
  <2>5. Upper(v, k) = Upper(w, k)
    BY <1>1, <2>2, <2>3, <2>4
  <2> QED BY <2>1, <2>5 DEF k
<1>4. 0 .. m \subseteq T
  <2> HIDE DEF T
  <2>1. 0 \in Int /\ m \in Int
    OBVIOUS
  <2> QED BY <1>2, <1>3, <2>1, Induction
<1>5. m \in T
  BY <1>4
<1>6. Upper(v, 0) = Upper(w, 0)
  BY <1>5
<1> QED BY <1>1, <1>6, UpperEnds

(* A number written as bytes reads as that number.                         *)
LEMMA BytesOfLaw ==
  ASSUME NEW l \in Nat, NEW t, t = ByteBits * l, NEW v \in Nat, v < 2^t
  PROVE  BytesOf(v, l) \in Seq(Bytes) /\ Len(BytesOf(v, l)) = l /\ NumberOf(BytesOf(v, l)) = v
<1> DEFINE s == BytesOf(v, l)
           at(b) == ByteBits * (l - b)
<1>1. ByteBits \in Nat \ {0} /\ t \in Nat /\ \A b \in 0 .. l : at(b) \in Nat
  <2>1. ByteBits \in Nat \ {0}
    BY ByteTypes
  <2> QED BY <2>1
<1>2. ASSUME NEW b \in 1 .. l
      PROVE  s[b] = Lower(Upper(v, at(b)), ByteBits) /\ s[b] \in Bytes
             /\ Upper(v, at(b)) = Upper(v, at(b - 1)) * 2^ByteBits + s[b]
  <2> DEFINE y == Upper(v, at(b))
  <2>1. at(b) \in Nat /\ at(b - 1) = at(b) + ByteBits
    BY <1>1
  <2>2. s[b] = Lower(y, ByteBits)
    BY DEF BytesOf, Lower, Upper
  <2>3. y \in Nat /\ Upper(y, ByteBits) = Upper(v, at(b) + ByteBits)
    <3> DEFINE a == at(b)
    <3> HIDE DEF a
    <3>1. Upper(v, a) \in Nat /\ Upper(Upper(v, a), ByteBits) = Upper(v, a + ByteBits)
      BY <1>1, <2>1, UpperTypes, UpperUpper DEF a
    <3> QED BY <3>1 DEF a
  <2> HIDE DEF y, s
  <2>4. y = Upper(y, ByteBits) * 2^ByteBits + Lower(y, ByteBits) /\ Lower(y, ByteBits) \in 0 .. 2^ByteBits - 1
    BY <1>1, <2>3, UpperLaw
  <2>5. Upper(y, ByteBits) = Upper(v, at(b - 1))
    BY <2>1, <2>3
  <2> QED BY <2>2, <2>4, <2>5 DEF Bytes, y
<1>3. s \in Seq(Bytes) /\ s \in Seq(Nat) /\ Len(s) = l
  <2>1. s = [b \in 1 .. l |-> s[b]]
    BY DEF BytesOf
  <2> HIDE DEF s
  <2>2. s \in [1 .. l -> Bytes]
    BY <1>2, <2>1
  <2>3. s \in Seq(Bytes) /\ Len(s) = l
    BY <2>2
  <2> QED BY <2>3, ByteTypes, SeqWithin
<1> HIDE DEF s
<1>4. PICK g : Numbers(g, s) /\ NumberOf(s) = g[l]
  BY <1>3, NumberOfLaw
<1> DEFINE T == {b \in 0 .. l : g[b] = Upper(v, at(b))}
<1>5. 0 \in T
  <2>1. Upper(v, t) = 0 /\ at(0) = t /\ 0 \in 0 .. l
    BY <1>1, UpperEnds
  <2> HIDE DEF at
  <2> QED BY <1>4, <2>1 DEF Numbers
<1>6. ASSUME NEW b \in 0 .. l - 1, b \in T PROVE b + 1 \in T
  <2> HIDE DEF at
  <2>1. b + 1 \in 1 .. l /\ (b + 1) - 1 = b /\ b + 1 \in 0 .. l
    OBVIOUS
  <2>2. g[b + 1] = g[b] * 2^ByteBits + s[b + 1]
    BY <1>3, <1>4, <2>1 DEF Numbers
  <2>3. Upper(v, at(b + 1)) = Upper(v, at(b)) * 2^ByteBits + s[b + 1]
    BY <1>2, <2>1
  <2> QED BY <1>6, <2>1, <2>2, <2>3
<1>7. 0 .. l \subseteq T
  <2> HIDE DEF T
  <2>1. 0 \in Int /\ l \in Int
    OBVIOUS
  <2> QED BY <1>5, <1>6, <2>1, Induction
<1>8. l \in T
  BY <1>7
<1>9. g[l] = Upper(v, 0)
  BY <1>1, <1>8
<1> QED BY <1>3, <1>4, <1>9, UpperEnds DEF s

(* The bytes hold all bits of it.                                          *)
LEMMA BytesForHolds ==
  ASSUME NEW a \in Nat
  PROVE  BytesFor(a) \in Nat /\ a <= ByteBits * BytesFor(a)
<1>1. ByteBits \in Nat \ {0}
  BY ByteTypes
<1>2. BytesFor(a) \in Nat
  BY BytesForLaw
<1>3. CASE a = 0
  BY <1>1, <1>2, <1>3
<1>4. CASE a # 0
  <2> DEFINE x == BytesFor(a)
  <2>1. a - (x - 1) * ByteBits \in 1 .. ByteBits /\ x \in Nat
    BY <1>2, <1>4, BytesForLaw
  <2> HIDE DEF x
  <2>2. (x - 1) * ByteBits = ByteBits * x - ByteBits /\ ByteBits * x \in Nat
    BY <1>1, <2>1
  <2>3. a <= ByteBits * x
    BY <1>1, <2>1, <2>2
  <2> QED BY <1>2, <2>3 DEF x
<1> QED BY <1>3, <1>4

-----------------------------------------------------------------------------
(* compressor.go: the hockey-stick variant of the rank.                    *)

(* The run of q that starts at s has length r: its positions follow each   *)
(* other, and then another run starts, or q ends.                          *)
WholeRun(q, s, r) ==
  /\ r \in Nat \ {0} /\ s + r <= Len(q) + 1
  /\ \A x \in s + 1 .. s + r - 1 : x \notin RunStarts(q) /\ q[x] = q[x - 1] + 1
  /\ s + r <= Len(q) => s + r \in RunStarts(q)

(* findContiguityLengths finds it.                                         *)
LEMMA WholeRunLaw ==
  ASSUME NEW l \in Nat, NEW q, Len(q) = l, NEW s \in 1 .. l
  PROVE  WholeRun(q, s, ContiguityLength(q, s))
<1> DEFINE N == {t \in RunStarts(q) : t > s} \cup {l + 1}
           t == Min(N)
<1>1. N \in SUBSET Nat /\ N # {}
  BY DEF RunStarts
<1>2. t \in N /\ \A x \in N : t <= x
  <2> HIDE DEF N
  <2> QED BY <1>1, MinLaw
<1>3. t \in Nat /\ t > s /\ t <= l + 1 /\ (t <= l => t \in RunStarts(q))
  <2>1. l + 1 \in N
    OBVIOUS
  <2>2. \A x \in N : x \in Nat /\ x > s /\ (x <= l => x \in RunStarts(q))
    BY DEF RunStarts
  <2> HIDE DEF N
  <2> QED BY <1>2, <2>1, <2>2
<1>4. ASSUME NEW x \in s + 1 .. t - 1 PROVE x \notin RunStarts(q) /\ q[x] = q[x - 1] + 1
  <2>1. x \in 1 .. l /\ x # 1 /\ x > s /\ ~(t <= x)
    BY <1>3
  <2>2. x \notin RunStarts(q)
    <3>1. x \in RunStarts(q) => x \in N
      BY <2>1
    <3> HIDE DEF N
    <3> QED BY <1>2, <2>1, <3>1
  <2> QED BY <2>1, <2>2 DEF RunStarts
<1>5. ContiguityLength(q, s) = t - s
  BY DEF ContiguityLength
<1> HIDE DEF t
<1>6. s + (t - s) = t /\ t - s \in Nat \ {0}
  BY <1>3
<1> QED BY <1>3, <1>4, <1>5, <1>6 DEF WholeRun

(* What is left of the positions, the first taken off.                     *)
LEMMA Rest ==
  ASSUME NEW u \in Nat, NEW p, Ascending(p, u), p # <<>>
  PROVE  /\ Len(p) \in Nat \ {0} /\ Len(Tail(p)) = Len(p) - 1
         /\ \A x \in 1 .. Len(p) - 1 : Tail(p)[x] = p[x + 1]
BY DEF Ascending

(* The r positions from s on follow each other.                            *)
RunAscends(q, s, r) == \A j \in 0 .. r - 1 : q[s + j] = q[s] + j

(* The positions of a run do.                                              *)
LEMMA RunConsecutive ==
  ASSUME NEW q, NEW l \in Nat, NEW s \in 1 .. l, NEW r, WholeRun(q, s, r), Len(q) = l,
         \A x \in 1 .. l : q[x] \in Nat
  PROVE  RunAscends(q, s, r)
<1> DEFINE T == {j \in 0 .. r - 1 : q[s + j] = q[s] + j}
           m == r - 1
<1>1. r \in Nat \ {0} /\ s + r <= l + 1 /\ \A x \in s + 1 .. s + r - 1 : q[x] = q[x - 1] + 1
  BY DEF WholeRun
<1>2. 0 \in T
  BY <1>1
<1>3. ASSUME NEW j \in 0 .. m - 1, j \in T PROVE j + 1 \in T
  <2>1. s + (j + 1) \in s + 1 .. s + r - 1 /\ (s + (j + 1)) - 1 = s + j /\ s + j \in 1 .. l /\ s \in 1 .. l /\ j + 1 \in 0 .. r - 1
    BY <1>1
  <2>2. q[s + (j + 1)] = q[s + j] + 1
    BY <1>1, <2>1
  <2>3. q[s + j] = q[s] + j /\ q[s] \in Nat
    BY <1>3, <2>1
  <2> QED BY <2>1, <2>2, <2>3
<1>4. 0 .. m \subseteq T
  <2>1. 0 \in Int /\ m \in Int
    BY <1>1
  <2> HIDE DEF T, m
  <2> QED BY <1>2, <1>3, <2>1, Induction
<1> QED BY <1>4 DEF RunAscends

(* A run's term is the sum of its coefficients: the hockey-stick identity, *)
(* from the middle.                                                        *)
LEMMA RunTermLaw ==
  ASSUME NEW u \in 0 .. CacheN, NEW p, Ascending(p, u), NEW W, Sums(p, W),
         NEW s \in 1 .. Len(p) - 1, NEW r, WholeRun(Tail(p), s, r)
  PROVE  RunTerm(p, s, r) \in Int /\ W[s + r] = W[s] + RunTerm(p, s, r)
<1> DEFINE q == Tail(p)
           l == Len(p) - 1
           a == p[s + 1]
           T == {j \in 0 .. r : W[s + j] = W[s] + BinCoef(a + j, s + j) - BinCoef(a, s)}
<1>1. /\ Len(p) \in Nat /\ u \in Nat /\ CacheN \in Nat /\ u <= CacheN
      /\ \A i \in 1 .. Len(p) : p[i] \in Nat /\ p[i] < u
      /\ \A i \in 0 .. Len(p) : W[i] \in Nat
      /\ \A i \in 1 .. Len(p) : W[i] = W[i - 1] + BinCoef(p[i], i)
  BY PositionTypes DEF Sums
<1>2. l \in Nat /\ Len(q) = l /\ \A x \in 1 .. l : q[x] = p[x + 1]
  <2>1. p # <<>>
    BY <1>1
  <2> QED BY <1>1, <2>1, Rest
<1>3. r \in Nat \ {0} /\ s + r <= l + 1 /\ s \in 1 .. l
  BY <1>2 DEF WholeRun
<1>4. \A j \in 0 .. r - 1 : p[s + j + 1] = a + j
  <2>1. \A x \in 1 .. l : x + 1 \in 1 .. Len(p)
    BY <1>1
  <2>2. \A x \in 1 .. l : q[x] \in Nat
    BY <1>1, <1>2, <2>1
  <2>3. \A j \in 0 .. r - 1 : q[s + j] = q[s] + j
    <3>1. PICK z : z = q
      OBVIOUS
    <3>2. PICK m \in Nat : m = l
      BY <1>2
    <3>3. WholeRun(z, s, r) /\ Len(z) = m /\ s \in 1 .. m
      BY <1>2, <1>3, <3>1, <3>2
    <3>4. \A x \in 1 .. m : z[x] \in Nat
      BY <2>2, <3>1, <3>2
    <3>5. RunAscends(z, s, r)
      BY <3>3, <3>4, RunConsecutive
    <3> HIDE DEF q, l
    <3> QED BY <3>1, <3>5 DEF RunAscends
  <2>4. \A j \in 0 .. r - 1 : s + j \in 1 .. l
    BY <1>3
  <2> HIDE DEF q, l
  <2> QED BY <1>2, <1>3, <2>3, <2>4
<1>5. a \in Nat /\ a + r <= CacheN
  <2>1. r - 1 \in 0 .. r - 1 /\ s + (r - 1) + 1 \in 1 .. Len(p) /\ s + 1 \in 1 .. Len(p)
    BY <1>1, <1>3
  <2>2. p[s + (r - 1) + 1] = a + (r - 1) /\ p[s + (r - 1) + 1] < u /\ a \in Nat
    BY <1>1, <1>4, <2>1
  <2> HIDE DEF a
  <2> QED BY <1>1, <1>3, <2>2
<1>6. \A j \in 0 .. r : BinCoef(a + j, s + j) \in Nat /\ BinCoef(a + j, s + j + 1) \in Nat
  <2>1. \A j \in 0 .. r : a + j \in 0 .. CacheN /\ s + j \in Nat /\ s + j + 1 \in Nat
    <3> HIDE DEF a
    <3> QED BY <1>1, <1>3, <1>5
  <2> QED BY <2>1, CoefficientTypes
<1>7. ASSUME NEW j \in 0 .. r - 1 PROVE W[s + (j + 1)] = W[s + j] + BinCoef(a + j, s + j + 1)
  <2>1. s + (j + 1) \in 1 .. Len(p) /\ (s + (j + 1)) - 1 = s + j /\ s + (j + 1) = s + j + 1
    BY <1>1, <1>3
  <2>2. p[s + j + 1] = a + j
    BY <1>4
  <2> HIDE DEF a
  <2> QED BY <1>1, <2>1, <2>2
<1>8. 0 \in T
  <2> DEFINE b == BinCoef(a, s)
             v == W[s]
  <2>1. a + 0 = a /\ s + 0 = s /\ 0 \in 0 .. r /\ s \in 0 .. Len(p)
    <3> HIDE DEF a
    <3> QED BY <1>1, <1>3, <1>5
  <2>2. b \in Nat /\ v \in Nat
    BY <1>1, <1>6, <2>1
  <2> HIDE DEF b, v
  <2>3. v = v + b - b
    BY <2>2
  <2> QED BY <2>1, <2>3 DEF b, v
<1>9. ASSUME NEW j \in 0 .. r - 1, j \in T PROVE j + 1 \in T
  <2>1. j \in 0 .. r /\ j + 1 \in 0 .. r /\ j \in Nat /\ s + j \in 0 .. Len(p) /\ 0 \in 0 .. r
    BY <1>1, <1>3
  <2> DEFINE b == BinCoef(a + j, s + j)
             c == BinCoef(a + j, s + j + 1)
             d == BinCoef(a + (j + 1), s + (j + 1))
             e == BinCoef(a, s)
             v == W[s]
  <2>2. d = b + c
    <3>1. a + (j + 1) \in 1 .. CacheN /\ s + (j + 1) \in Nat \ {0} /\ (a + (j + 1)) - 1 = a + j /\ (s + (j + 1)) - 1 = s + j
          /\ s + (j + 1) = s + j + 1
      <4> HIDE DEF a
      <4> QED BY <1>1, <1>3, <1>5
    <3>2. d = BinCoef((a + (j + 1)) - 1, (s + (j + 1)) - 1) + BinCoef((a + (j + 1)) - 1, s + (j + 1))
      BY <3>1, Pascal
    <3> QED BY <3>1, <3>2
  <2>3. b \in Nat /\ c \in Nat /\ e \in Nat /\ v \in Nat
    <3>1. a + 0 = a /\ s + 0 = s /\ s \in 0 .. Len(p)
      <4> HIDE DEF a
      <4> QED BY <1>1, <1>3, <1>5
    <3> QED BY <1>1, <1>6, <2>1, <3>1
  <2>4. W[s + j] = v + b - e
    BY <1>9
  <2>5. W[s + (j + 1)] = W[s + j] + c
    BY <1>7
  <2> HIDE DEF b, c, d, e, v
  <2>6. W[s + (j + 1)] = v + d - e
    BY <2>2, <2>3, <2>4, <2>5
  <2> QED BY <2>1, <2>6 DEF d, e, v
<1>a. r \in T
  <2>1. 0 .. r \subseteq T
    <3>1. 0 \in Int /\ r \in Int
      BY <1>3
    <3> HIDE DEF T
    <3> QED BY <1>8, <1>9, <3>1, Induction
  <2> QED BY <1>3, <2>1
<1>b. CASE r = 1
  <2>1. W[s + 1] = W[s] + BinCoef(a, s + 1)
    <3>1. 0 \in 0 .. r - 1 /\ s + (0 + 1) = s + 1 /\ s + 0 = s /\ s + 0 + 1 = s + 1 /\ a + 0 = a
      <4> HIDE DEF a
      <4> QED BY <1>3, <1>5
    <3> QED BY <1>7, <3>1
  <2>2. BinCoef(a, s + 1) \in Nat
    <3>1. 0 \in 0 .. r /\ s + 0 + 1 = s + 1 /\ a + 0 = a
      <4> HIDE DEF a
      <4> QED BY <1>3, <1>5
    <3> QED BY <1>6, <3>1
  <2> QED BY <1>b, <2>1, <2>2 DEF RunTerm
<1>c. CASE r = 2
  <2>1. 0 \in 0 .. r - 1 /\ 1 \in 0 .. r - 1 /\ 0 \in 0 .. r /\ 1 \in 0 .. r
        /\ s + (0 + 1) = s + 1 /\ s + 0 = s /\ s + 0 + 1 = s + 1 /\ a + 0 = a
        /\ s + (1 + 1) = s + 2 /\ s + 1 + 1 = s + 2 /\ s \in 0 .. Len(p)
    <3> HIDE DEF a
    <3> QED BY <1>1, <1>3, <1>5, <1>c
  <2>2. W[s + 1] = W[s] + BinCoef(a, s + 1) /\ BinCoef(a, s + 1) \in Nat
    BY <1>6, <1>7, <2>1
  <2>3. W[s + 2] = W[s + 1] + BinCoef(a + 1, s + 2) /\ BinCoef(a + 1, s + 2) \in Nat
    BY <1>6, <1>7, <2>1
  <2>4. p[s + 2] = a + 1
    BY <1>4, <2>1
  <2> DEFINE b == BinCoef(a, s + 1)
             c == BinCoef(a + 1, s + 2)
             v == W[s]
  <2>5. v \in Nat /\ b \in Nat /\ c \in Nat /\ W[s + 2] = (v + b) + c
    BY <1>1, <2>1, <2>2, <2>3
  <2>6. RunTerm(p, s, r) = b + c
    BY <1>c, <2>4 DEF RunTerm
  <2> HIDE DEF b, c
  <2>7. b + c \in Int /\ (v + b) + c = v + (b + c)
    <3> HIDE DEF v
    <3> QED BY <2>5
  <2> QED BY <1>c, <2>5, <2>6, <2>7
<1>d. CASE r # 1 /\ r # 2
  <2> DEFINE b == BinCoef(a + r, s + r)
             c == BinCoef(a, s)
             v == W[s]
  <2>1. v \in Nat /\ b \in Nat /\ c \in Nat /\ W[s + r] = v + b - c
    <3>1. 0 \in 0 .. r /\ r \in 0 .. r /\ s \in 0 .. Len(p) /\ a + 0 = a /\ s + 0 = s
      <4> HIDE DEF a
      <4> QED BY <1>1, <1>3, <1>5
    <3> QED BY <1>1, <1>6, <1>a, <3>1
  <2>2. RunTerm(p, s, r) = b - c
    BY <1>d DEF RunTerm
  <2> HIDE DEF b, c, v
  <2>3. b - c \in Int /\ v + b - c = v + (b - c)
    BY <2>1
  <2> QED BY <2>1, <2>2, <2>3 DEF v
<1> QED BY <1>b, <1>c, <1>d

(* What index i adds to the hockey-stick sum: the term of the run that     *)
(* starts there, if one does.                                              *)
TermAt(p, i) ==
  IF i \in RunStarts(Tail(p)) THEN RunTerm(p, i, ContiguityLength(Tail(p), i)) ELSE 0

(* The hockey-stick sum obeys its recursion.                               *)
LEMMA HockeySumLaw ==
  ASSUME NEW l \in Nat, NEW p, Len(p) = l + 1, p[1] \in Int,
         \A i \in 1 .. l : TermAt(p, i) \in Int
  PROVE  \A i \in 0 .. l : HockeySum(p)[i] = IF i = 0 THEN p[1] ELSE HockeySum(p)[i - 1] + TermAt(p, i)
<1> DEFINE V == [x \in 0 .. l |-> Int]
           G == [x \in 0 .. l |-> [v \in Int |-> v + TermAt(p, x)]]
           c == p[1]
<1>1. /\ \A x \in 0 .. l : V[x] = Int
      /\ \A x \in 0 .. l : \A v \in Int : G[x][v] = v + TermAt(p, x)
  OBVIOUS
<1>2. PICK g : Follows(g, 0, l, c, G) /\ \A x \in 0 .. l : g[x] \in V[x]
  <2> HIDE DEF V, G, c
  <2>1. c \in V[0] /\ 0 \in Int /\ l \in Int
    BY <1>1 DEF c
  <2>2. ASSUME NEW x \in 0 + 1 .. l, NEW v \in V[x - 1] PROVE G[x][v] \in V[x]
    <3>1. x \in 0 .. l /\ x - 1 \in 0 .. l /\ x \in 1 .. l
      OBVIOUS
    <3>2. v \in Int /\ G[x][v] = v + TermAt(p, x) /\ V[x] = Int
      BY <1>1, <3>1
    <3>3. TermAt(p, x) \in Int
      BY <3>1
    <3> QED BY <3>2, <3>3
  <2> QED BY <2>1, <2>2, Recursion
<1>3. \A x \in 0 .. l : g[x] = IF x = 0 THEN p[1] ELSE g[x - 1] + TermAt(p, x)
  <2> SUFFICES ASSUME NEW x \in 0 .. l PROVE g[x] = IF x = 0 THEN c ELSE g[x - 1] + TermAt(p, x)
    OBVIOUS
  <2> HIDE DEF V, G, c
  <2>1. g[x] = IF x = 0 THEN c ELSE G[x][g[x - 1]]
    BY <1>2 DEF Follows
  <2>2. x # 0 => x - 1 \in 0 .. l
    OBVIOUS
  <2>3. x # 0 => g[x - 1] \in Int
    BY <1>1, <1>2, <2>2
  <2> QED BY <1>1, <2>1, <2>3
<1>4. g = [i \in 0 .. Len(p) - 1 |->
             IF i = 0 THEN p[1]
             ELSE g[i - 1] + IF i \in RunStarts(Tail(p)) THEN RunTerm(p, i, ContiguityLength(Tail(p), i)) ELSE 0]
  <2>1. g = [x \in 0 .. l |-> g[x]]
    BY <1>2 DEF Follows
  <2>2. 0 .. l = 0 .. Len(p) - 1
    OBVIOUS
  <2> QED BY <1>3, <2>1, <2>2 DEF TermAt
<1>5. HockeySum(p) = [i \in 0 .. Len(p) - 1 |->
             IF i = 0 THEN p[1]
             ELSE HockeySum(p)[i - 1] + IF i \in RunStarts(Tail(p)) THEN RunTerm(p, i, ContiguityLength(Tail(p), i)) ELSE 0]
  BY <1>4 DEF HockeySum
<1> DEFINE f == HockeySum(p)
<1>6. f = [i \in 0 .. Len(p) - 1 |-> IF i = 0 THEN p[1] ELSE f[i - 1] + TermAt(p, i)]
  BY <1>5 DEF TermAt
<1>7. 0 .. l = 0 .. Len(p) - 1
  OBVIOUS
<1> HIDE DEF f
<1>8. \A i \in 0 .. l : f[i] = IF i = 0 THEN p[1] ELSE f[i - 1] + TermAt(p, i)
  BY <1>6, <1>7
<1> QED BY <1>8 DEF f

(* Up to index i the hockey-stick sum has added up a whole number of runs: *)
(* those up to index e, where the last that has started ends.              *)
WholeRuns(q, l, v, W, i) ==
  \E e \in i .. l : /\ v = W[e + 1]
                    /\ \A x \in i + 1 .. e : x \notin RunStarts(q)
                    /\ e < l => e + 1 \in RunStarts(q)

(* The hockey-stick variant computes the sum of all coefficients, too.     *)
LEMMA HockeyStickIsSum ==
  ASSUME NEW u \in 0 .. CacheN, NEW p, Ascending(p, u), NEW W, Sums(p, W)
  PROVE  RankHockeyStick(p) = W[Len(p)]
<1>1. /\ u \in Nat /\ Len(p) \in Nat
      /\ \A i \in 0 .. Len(p) : W[i] \in Nat
      /\ W[0] = 0
      /\ \A i \in 1 .. Len(p) : W[i] = W[i - 1] + BinCoef(p[i], i)
      /\ CacheN \in Nat
  <2>1. u \in Nat /\ CacheN \in Nat
    BY CacheTypes
  <2> QED BY <2>1, PositionTypes DEF Sums
<1>2. CASE p = <<>>
  BY <1>1, <1>2 DEF RankHockeyStick
<1>3. CASE p # <<>>
  <2> DEFINE q == Tail(p)
             l == Len(p) - 1
             f == HockeySum(p)
             T == {i \in 0 .. l : WholeRuns(q, l, f[i], W, i)}
  <2>1. l \in Nat /\ Len(p) = l + 1 /\ Len(q) = l
    BY <1>1, <1>3, Rest
  <2>2. p[1] \in Int /\ W[1] = p[1]
    <3>1. 1 \in 1 .. Len(p) /\ 1 - 1 = 0
      BY <2>1
    <3>2. p[1] \in Nat /\ p[1] \in 0 .. CacheN
      BY <1>1, <3>1, PositionTypes
    <3>3. BinCoef(p[1], 1) = p[1]
      BY <3>2, ClosedForms
    <3> QED BY <1>1, <3>1, <3>2, <3>3
  <2>3. ASSUME NEW i \in 1 .. l, i \in RunStarts(q)
        PROVE  \E r : /\ WholeRun(q, i, r) /\ TermAt(p, i) \in Int
                      /\ W[i + r] = W[i] + TermAt(p, i)
    <3> DEFINE r == ContiguityLength(q, i)
    <3>1. TermAt(p, i) = RunTerm(p, i, r)
      BY <2>3 DEF TermAt
    <3>2. WholeRun(q, i, r)
      <4> HIDE DEF q, l
      <4> QED BY <2>1, WholeRunLaw
    <3> HIDE DEF r
    <3>3. RunTerm(p, i, r) \in Int /\ W[i + r] = W[i] + RunTerm(p, i, r)
      BY <3>2, RunTermLaw
    <3> QED BY <3>1, <3>2, <3>3
  <2>4. \A i \in 1 .. l : TermAt(p, i) \in Int /\ (i \notin RunStarts(q) => TermAt(p, i) = 0)
    <3> SUFFICES ASSUME NEW i \in 1 .. l PROVE TermAt(p, i) \in Int /\ (i \notin RunStarts(q) => TermAt(p, i) = 0)
      OBVIOUS
    <3>1. CASE i \in RunStarts(q)
      BY <2>3, <3>1
    <3>2. CASE i \notin RunStarts(q)
      BY <3>2 DEF TermAt
    <3> QED BY <3>1, <3>2
  <2>5. \A i \in 0 .. l : f[i] = IF i = 0 THEN p[1] ELSE f[i - 1] + TermAt(p, i)
    <3>1. \A i \in 1 .. l : TermAt(p, i) \in Int
      BY <2>4
    <3> HIDE DEF l
    <3> QED BY <2>1, <2>2, <3>1, HockeySumLaw
  <2> HIDE DEF q, l, f
  <2>6. 0 \in T
    <3>1. 0 \in 0 .. l /\ f[0] = W[0 + 1]
      BY <2>1, <2>2, <2>5
    <3>2. 0 < l => 0 + 1 \in RunStarts(q)
      BY <2>1 DEF RunStarts
    <3>3. \A x \in 0 + 1 .. 0 : x \notin RunStarts(q)
      OBVIOUS
    <3> QED BY <3>1, <3>2, <3>3 DEF WholeRuns
  <2>7. ASSUME NEW i \in 0 .. l - 1, i \in T PROVE i + 1 \in T
    <3>1. PICK e \in i .. l : /\ f[i] = W[e + 1]
                              /\ \A x \in i + 1 .. e : x \notin RunStarts(q)
                              /\ e < l => e + 1 \in RunStarts(q)
      BY <2>7 DEF WholeRuns
    <3>2. i + 1 \in 0 .. l /\ i + 1 \in 1 .. l /\ i + 1 # 0 /\ (i + 1) - 1 = i /\ i \in Nat /\ e \in Nat
      BY <2>1
    <3>3. f[i + 1] = f[i] + TermAt(p, i + 1)
      BY <2>5, <3>2
    <3>4. CASE e # i
      <4>1. e \in i + 1 .. l /\ i + 1 \in i + 1 .. e
        BY <2>1, <3>2, <3>4
      <4>2. TermAt(p, i + 1) = 0
        BY <2>4, <3>1, <3>2, <4>1
      <4>3. W[e + 1] \in Nat
        <5>1. e + 1 \in 0 .. Len(p)
          BY <2>1, <4>1
        <5> QED BY <1>1, <5>1
      <4>4. f[i + 1] = W[e + 1]
        BY <3>1, <3>3, <4>2, <4>3
      <4>5. \A x \in (i + 1) + 1 .. e : x \notin RunStarts(q)
        <5>1. \A x \in (i + 1) + 1 .. e : x \in i + 1 .. e
          BY <3>2
        <5> QED BY <3>1, <5>1
      <4> QED BY <3>1, <3>2, <4>1, <4>4, <4>5 DEF WholeRuns
    <3>5. CASE e = i
      <4>1. i < l /\ i + 1 \in RunStarts(q)
        BY <2>1, <3>1, <3>5
      <4>2. PICK r : WholeRun(q, i + 1, r) /\ W[(i + 1) + r] = W[i + 1] + TermAt(p, i + 1)
        BY <2>3, <3>2, <4>1
      <4>3. /\ r \in Nat \ {0} /\ (i + 1) + r <= l + 1
            /\ \A x \in (i + 1) + 1 .. (i + 1) + r - 1 : x \notin RunStarts(q)
            /\ (i + 1) + r <= l => (i + 1) + r \in RunStarts(q)
        BY <2>1, <4>2 DEF WholeRun
      <4>4. f[i + 1] = W[(i + 1) + r]
        BY <3>1, <3>3, <3>5, <4>2
      <4>5. /\ i + r \in i + 1 .. l /\ (i + r) + 1 = (i + 1) + r /\ (i + 1) + r - 1 = i + r
            /\ (i + r < l => (i + 1) + r <= l)
        BY <2>1, <3>2, <4>3
      <4>6. /\ f[i + 1] = W[(i + r) + 1]
            /\ \A x \in (i + 1) + 1 .. i + r : x \notin RunStarts(q)
            /\ i + r < l => (i + r) + 1 \in RunStarts(q)
        BY <4>3, <4>4, <4>5
      <4> QED BY <3>2, <4>5, <4>6 DEF WholeRuns
    <3> QED BY <3>4, <3>5
  <2>8. l \in T
    <3>1. 0 .. l \subseteq T
      <4>1. 0 \in Int /\ l \in Int
        BY <2>1
      <4> HIDE DEF T
      <4> QED BY <2>6, <2>7, <4>1, Induction
    <3> QED BY <2>1, <3>1
  <2>9. f[l] = W[l + 1]
    <3>1. PICK e \in l .. l : f[l] = W[e + 1]
      BY <2>8 DEF WholeRuns
    <3> QED BY <2>1, <3>1
  <2> QED BY <1>3, <2>1, <2>9 DEF RankHockeyStick, f, l
<1> QED BY <1>2, <1>3
=============================================================================
