------------------------ MODULE CombinadicWalkProofs ------------------------
(***************************************************************************)
(* Rank and Unrank are the position in colexicographic order and its       *)
(* inverse, for every universe that the cache covers and whose cube fits   *)
(* in a machine word, 65000 positions and 64 bits among them.              *)
(***************************************************************************)
EXTENDS CombinadicWalk, CombinadicProofs

(* v is the sum of the coefficients C(p, i) of the positions p of S, each  *)
(* the i-th from below.                                                    *)
Counts(S, v) == \E W : Sums(IndexSet(S), W) /\ v = W[Cardinality(S)]

(* The inductive invariant: the steps taken are that sum. That Rank        *)
(* computes it and Unrank takes it apart follows, but neither is           *)
(* inductive: a step moves several positions at once, and it is the closed *)
(* form of a run of consecutive positions, the hockey-stick identity, that *)
(* says their sum grows by one.                                            *)
IInv == set \in SUBSET (0 .. Universe - 1) /\ Counts(set, position)

(* The universe of the walk is one the cache covers and a word holds.      *)
LEMMA UniverseTypes ==
  /\ Universe \in Nat \ {0} /\ Universe \in 0 .. CacheN /\ Universe \in 1 .. CacheN
  /\ WordHolds(Universe)
<1>1. Universe \in Nat \ {0} /\ Universe <= CacheN /\ WordHolds(Universe)
  BY WalkAssumption DEF WordHolds
<1> QED BY <1>1, CacheTypes

(* The first set of each size lists the positions 0, 1, ...: its sum is    *)
(* zero.                                                                   *)
LEMMA WalkInit == Init => IInv
<1> SUFFICES ASSUME Init PROVE IInv
  OBVIOUS
<1>1. PICK k \in 0 .. Universe : set = 0 .. k - 1
  BY DEF Init
<1>2. Universe \in Nat /\ k \in Nat /\ set \in SUBSET (0 .. Universe - 1)
  BY <1>1, UniverseTypes
<1> DEFINE p == IndexSet(set)
           m == Cardinality(set)
<1>3. /\ m \in Nat /\ Lists(p, m, set) /\ Ascending(p, Universe) /\ Len(p) = m /\ m = k
  <2>1. m \in Nat /\ Lists(p, m, set) /\ Ascending(p, Universe) /\ Len(p) = m
    BY <1>2, IndexSetLists
  <2>2. m = k
    BY <1>1, <1>2, FS_Interval
  <2> QED BY <2>1, <2>2
<1>4. PICK W : Sums(p, W)
  BY <1>3, SumsExist, UniverseTypes
<1>5. W[m] = 0
  <2> DEFINE q == [i \in 1 .. k |-> i - 1]
  <2>1. Lists(q, k, set)
    <3>1. q \in [1 .. k -> set]
      BY <1>1, <1>2
    <3>2. ASSUME NEW y \in set PROVE \E i \in 1 .. k : q[i] = y
      <4>1. y + 1 \in 1 .. k /\ (y + 1) - 1 = y
        BY <1>1, <1>2
      <4> QED BY <4>1
    <3>3. \A i, j \in 1 .. k : i < j => q[i] < q[j]
      OBVIOUS
    <3> HIDE DEF q
    <3> QED BY <3>1, <3>2, <3>3 DEF Lists
  <2>2. p = q
    <3>1. set \in SUBSET Int
      BY <1>2
    <3> HIDE DEF p, q, m
    <3> QED BY <1>2, <1>3, <2>1, <3>1, OneList
  <2> DEFINE c == 0
  <2>3. Consecutive(p, c, k)
    BY <2>2 DEF Consecutive
  <2>4. c \in Nat /\ k \in 0 .. Len(p) /\ c + k <= CacheN /\ c + k = k
    <3>1. k \in Nat /\ k <= CacheN
      BY <1>2, <1>3, UniverseTypes, CacheTypes
    <3>2. k \in 0 .. Len(p)
      BY <1>2, <1>3
    <3> QED BY <3>1, <3>2
  <2>5. HockeySums(W, c, k)
    <3> HIDE DEF p, m, c
    <3> QED BY <1>3, <1>4, <2>3, <2>4, RunSum, UniverseTypes
  <2>6. W[k] = BinCoef(c + k, k) - 1 /\ BinCoef(k, k) = 1
    <3>1. k \in 0 .. k
      BY <1>2
    <3> HIDE DEF c
    <3> QED BY <1>2, <2>5, <3>1, Edges DEF HockeySums
  <2> HIDE DEF p, m, c
  <2> QED BY <1>3, <2>4, <2>6
<1>6. position = 0
  BY DEF Init
<1> QED BY <1>2, <1>4, <1>5, <1>6 DEF IInv, Counts

-----------------------------------------------------------------------------
(* The next set, its list and its sum.                                     *)

(* What the walk does to the list p of a set S: the first element x that   *)
(* can move up does, and the b below it start over.                        *)
Moved(p, m, b, x) ==
  [i \in 1 .. m |-> IF i <= b THEN i - 1 ELSE IF i = b + 1 THEN x + 1 ELSE p[i]]

MovedSet(S, b, x) == {y \in S : y > x} \cup {x + 1} \cup 0 .. b - 1

(* x can move up and nothing below it can.                                 *)
FirstFree(S, x) == x \in S /\ x + 1 \notin S /\ \A y \in S : y < x => y + 1 \in S

(* The first b + 1 elements of p follow each other.                        *)
Run(p, b) == \A i \in 1 .. b + 1 : p[i] = (p[b + 1] - b) + i - 1

(* The elements up to the first that can move follow each other.           *)
LEMMA RunBelow ==
  ASSUME NEW u \in Nat, NEW S \in SUBSET (0 .. u - 1), NEW m \in Nat, NEW p, Lists(p, m, S),
         NEW b \in 0 .. m - 1, FirstFree(S, p[b + 1])
  PROVE  Run(p, b)
<1> DEFINE x == p[b + 1]
           T == {d \in 0 .. b : p[(b + 1) - d] = x - d}
<1>1. \A i \in 1 .. m : p[i] \in S /\ p[i] \in Nat /\ p[i] < u
  BY ListTypes
<1>2. 0 \in T
  <2>1. b + 1 \in 1 .. m /\ (b + 1) - 0 = b + 1
    OBVIOUS
  <2>2. x - 0 = x
    BY <1>1, <2>1
  <2> QED BY <2>1, <2>2
<1>3. ASSUME NEW d \in 0 .. b - 1, d \in T PROVE d + 1 \in T
  <2> DEFINE i == (b + 1) - (d + 1)
             z == p[i]
  <2>1. /\ i \in 1 .. m /\ i + 1 \in 1 .. m /\ i + 1 = (b + 1) - d /\ i < b + 1 /\ b + 1 \in 1 .. m
        /\ d + 1 \in 0 .. b /\ d \in Nat /\ i < i + 1
    OBVIOUS
  <2>2. p[i + 1] = x - d
    BY <1>3, <2>1
  <2>3. z \in S /\ z \in Nat /\ x \in Nat /\ z < x /\ z < x - d
    <3>1. p[i] < p[b + 1] /\ p[i] < p[i + 1]
      <4> HIDE DEF i
      <4> QED BY <2>1 DEF Lists
    <3> HIDE DEF i
    <3> QED BY <1>1, <2>1, <2>2, <3>1
  <2>4. z + 1 \in S
    BY <2>3 DEF FirstFree
  <2>5. PICK j \in 1 .. m : p[j] = z + 1
    BY <2>4 DEF Lists
  <2>6. j > i
    <3>1. CASE j < i
      <4>1. p[j] < p[i]
        <5> HIDE DEF i
        <5> QED BY <2>1, <3>1 DEF Lists
      <4> QED BY <2>3, <2>5, <4>1
    <3>2. CASE j = i
      BY <2>3, <2>5, <3>2
    <3> QED BY <2>1, <3>1, <3>2
  <2>7. p[i + 1] <= p[j]
    <3>1. CASE j = i + 1
      <4>1. p[i + 1] \in Nat
        BY <1>1, <2>1
      <4> QED BY <3>1, <4>1
    <3>2. CASE j > i + 1
      <4>1. p[i + 1] < p[j]
        <5> HIDE DEF i
        <5> QED BY <2>1, <3>2 DEF Lists
      <4>2. p[i + 1] \in Nat /\ p[j] \in Nat
        BY <1>1, <2>1
      <4> QED BY <4>1, <4>2
    <3> QED BY <2>1, <2>6, <3>1, <3>2
  <2>8. z = x - (d + 1)
    <3> HIDE DEF i, z, x
    <3> QED BY <2>1, <2>2, <2>3, <2>5, <2>7
  <2> QED BY <2>1, <2>8
<1>4. 0 .. b \subseteq T
  <2>1. 0 \in Int /\ b \in Int
    OBVIOUS
  <2> HIDE DEF T
  <2> QED BY <1>2, <1>3, <2>1, Induction
<1>5. ASSUME NEW i \in 1 .. b + 1 PROVE p[i] = (x - b) + i - 1
  <2>1. (b + 1) - i \in 0 .. b /\ (b + 1) - ((b + 1) - i) = i
    OBVIOUS
  <2>2. (b + 1) - i \in T
    <3> HIDE DEF T
    <3> QED BY <1>4, <2>1
  <2>3. p[i] = x - ((b + 1) - i)
    BY <2>1, <2>2
  <2>4. x \in Nat
    <3>1. b + 1 \in 1 .. m
      OBVIOUS
    <3> QED BY <1>1, <3>1
  <2> QED BY <2>3, <2>4
<1> QED BY <1>5 DEF Run

(* The list of the next set.                                               *)
LEMMA MovedLists ==
  ASSUME NEW u \in Nat, NEW S \in SUBSET (0 .. u - 1), NEW m \in Nat, NEW p, Lists(p, m, S),
         NEW b \in 0 .. m - 1, FirstFree(S, p[b + 1]), p[b + 1] + 1 < u
  PROVE  /\ MovedSet(S, b, p[b + 1]) \in SUBSET (0 .. u - 1)
         /\ Lists(Moved(p, m, b, p[b + 1]), m, MovedSet(S, b, p[b + 1]))
<1> DEFINE x == p[b + 1]
           q == Moved(p, m, b, x)
           R == MovedSet(S, b, x)
<1>1. /\ \A i \in 1 .. m : p[i] \in S /\ p[i] \in Nat /\ p[i] < u
      /\ b + 1 \in 1 .. m /\ x \in Nat /\ x \in S /\ x + 1 < u /\ b \in Nat
  <2>1. \A i \in 1 .. m : p[i] \in S /\ p[i] \in Nat /\ p[i] < u
    BY ListTypes
  <2>2. b + 1 \in 1 .. m /\ b \in Nat
    OBVIOUS
  <2> QED BY <2>1, <2>2
<1>2. x >= b
  <2>1. 1 \in 1 .. b + 1 /\ 1 \in 1 .. m
    BY <1>1
  <2>0. \A i \in 1 .. b + 1 : p[i] = (p[b + 1] - b) + i - 1
    <3>1. Run(p, b)
      BY RunBelow
    <3> QED BY <3>1 DEF Run
  <2>2. p[1] = (x - b) + 1 - 1
    BY <2>0, <2>1
  <2>3. p[1] \in Nat
    BY <1>1, <2>1
  <2> HIDE DEF x
  <2> QED BY <1>1, <2>2, <2>3
<1>3. /\ \A i \in 1 .. m : i <= b => q[i] = i - 1
      /\ q[b + 1] = x + 1
      /\ \A i \in 1 .. m : i > b + 1 => q[i] = p[i] /\ p[i] > x + 1
  <2>1. \A i \in 1 .. m : i <= b => q[i] = i - 1
    BY DEF Moved
  <2>2. q[b + 1] = x + 1
    <3> HIDE DEF x
    <3> QED BY <1>1 DEF Moved
  <2>3. ASSUME NEW i \in 1 .. m, i > b + 1 PROVE q[i] = p[i] /\ p[i] > x + 1
    <3>1. q[i] = p[i]
      <4>1. ~(i <= b) /\ i # b + 1
        BY <1>1, <2>3
      <4> QED BY <4>1 DEF Moved
    <3>2. p[b + 1] < p[i]
      BY <1>1, <2>3 DEF Lists
    <3>3. p[i] # x + 1
      BY <1>1 DEF FirstFree
    <3> QED BY <1>1, <3>1, <3>2, <3>3
  <2> QED BY <2>1, <2>2, <2>3
<1>4. R \in SUBSET (0 .. u - 1)
  <2>1. \A y \in S : y \in 0 .. u - 1
    OBVIOUS
  <2>2. x + 1 \in 0 .. u - 1
    BY <1>1
  <2>3. \A y \in 0 .. b - 1 : y \in 0 .. u - 1
    BY <1>1, <1>2
  <2> HIDE DEF x
  <2> QED BY <2>1, <2>2, <2>3 DEF MovedSet
<1>5. ASSUME NEW i \in 1 .. m PROVE q[i] \in R
  <2>1. CASE i <= b
    <3>1. i - 1 \in 0 .. b - 1
      BY <1>1, <2>1
    <3> QED BY <1>3, <2>1, <3>1 DEF MovedSet
  <2>2. CASE i = b + 1
    BY <1>3, <2>2 DEF MovedSet
  <2>3. CASE i > b + 1
    <3>1. q[i] = p[i] /\ p[i] \in S /\ p[i] > x
      BY <1>1, <1>3, <2>3
    <3> QED BY <3>1 DEF MovedSet
  <2> QED BY <1>1, <2>1, <2>2, <2>3
<1>6. ASSUME NEW y \in R PROVE \E i \in 1 .. m : q[i] = y
  <2>1. CASE y \in S /\ y > x
    <3>1. PICK i \in 1 .. m : p[i] = y
      BY <2>1 DEF Lists
    <3>2. i > b + 1
      <4>1. CASE i < b + 1
        <5>1. p[i] < p[b + 1]
          BY <1>1, <4>1 DEF Lists
        <5> QED BY <1>1, <2>1, <3>1, <5>1
      <4>2. CASE i = b + 1
        BY <1>1, <2>1, <3>1, <4>2
      <4> QED BY <1>1, <4>1, <4>2
    <3> QED BY <1>3, <3>1, <3>2
  <2>2. CASE y = x + 1
    BY <1>1, <1>3, <2>2
  <2>3. CASE y \in 0 .. b - 1
    <3>1. y + 1 \in 1 .. m /\ y + 1 <= b /\ (y + 1) - 1 = y
      BY <1>1, <2>3
    <3>2. q[y + 1] = (y + 1) - 1
      BY <1>3, <3>1
    <3> QED BY <3>1, <3>2
  <2> QED BY <2>1, <2>2, <2>3 DEF MovedSet
<1>7. ASSUME NEW i \in 1 .. m, NEW j \in 1 .. m, i < j PROVE q[i] < q[j]
  <2>1. CASE j <= b
    <3>1. i <= b
      BY <1>1, <1>7, <2>1
    <3>2. q[i] = i - 1 /\ q[j] = j - 1
      BY <1>3, <2>1, <3>1
    <3> QED BY <1>7, <3>2
  <2>2. CASE i <= b /\ j > b
    <3>1. q[i] = i - 1 /\ i - 1 < b
      BY <1>1, <1>3, <2>2
    <3>2. q[j] \in Nat /\ q[j] >= x + 1
      <4>1. CASE j = b + 1
        BY <1>1, <1>3, <4>1
      <4>2. CASE j > b + 1
        BY <1>1, <1>3, <4>2
      <4> QED BY <1>1, <2>2, <4>1, <4>2
    <3> HIDE DEF x, q
    <3> QED BY <1>1, <1>2, <3>1, <3>2
  <2>3. CASE i = b + 1
    <3>1. j > b + 1
      BY <1>7, <2>3
    <3>2. q[i] = x + 1 /\ q[j] = p[j] /\ p[j] > x + 1
      BY <1>3, <2>3, <3>1
    <3> QED BY <1>1, <3>2
  <2>4. CASE i > b + 1
    <3>1. j > b + 1
      BY <1>1, <1>7, <2>4
    <3>2. q[i] = p[i] /\ q[j] = p[j]
      BY <1>3, <2>4, <3>1
    <3>3. p[i] < p[j]
      BY <1>7 DEF Lists
    <3> QED BY <3>2, <3>3
  <2>5. j <= b \/ (i <= b /\ j > b) \/ i = b + 1 \/ i > b + 1
    BY <1>1, <1>7
  <2> QED BY <2>1, <2>2, <2>3, <2>4, <2>5
<1>8. q \in [1 .. m -> R]
  <2>1. q = [i \in 1 .. m |-> q[i]]
    BY DEF Moved
  <2> HIDE DEF q, R
  <2> QED BY <1>5, <2>1
<1> HIDE DEF q, R
<1>9. R \in SUBSET (0 .. u - 1) /\ Lists(q, m, R)
  BY <1>4, <1>6, <1>7, <1>8 DEF Lists
<1> QED BY <1>9 DEF q, R

(* V is the next total after W.                                            *)
Follow(W, V, m) == V[m] = W[m] + 1

(* The next set has the next sum.                                          *)
LEMMA MovedSum ==
  ASSUME NEW u \in 0 .. CacheN, NEW S \in SUBSET (0 .. u - 1), NEW m \in Nat, NEW p, Lists(p, m, S),
         NEW b \in 0 .. m - 1, FirstFree(S, p[b + 1]), p[b + 1] + 1 < u,
         NEW W, Sums(p, W), NEW V, Sums(Moved(p, m, b, p[b + 1]), V)
  PROVE  Follow(W, V, m)
<1> DEFINE x == p[b + 1]
           q == Moved(p, m, b, x)
           R == MovedSet(S, b, x)
<1>u. u \in Nat /\ CacheN \in Nat /\ u <= CacheN
  BY CacheTypes
<1>1. /\ b + 1 \in 1 .. m /\ b \in Nat /\ x \in Nat /\ x + 1 < u
  <2>1. b + 1 \in 1 .. m /\ b \in Nat
    OBVIOUS
  <2>2. x \in Nat
    BY <1>u, <2>1, ListTypes
  <2> QED BY <2>1, <2>2
<1>2. Ascending(p, u) /\ Len(p) = m
  BY <1>u, ListAscends
<1>3. R \in SUBSET (0 .. u - 1) /\ Lists(q, m, R)
  BY <1>u, MovedLists
<1>4. Ascending(q, u) /\ Len(q) = m
  <2> HIDE DEF q, R
  <2> QED BY <1>u, <1>3, ListAscends
<1>5. /\ \A i \in 1 .. m : W[i] = W[i - 1] + BinCoef(p[i], i)
      /\ \A i \in 1 .. m : V[i] = V[i - 1] + BinCoef(q[i], i)
      /\ \A i \in 0 .. m : W[i] \in Nat /\ V[i] \in Nat
  <2> HIDE DEF q
  <2>1. Sums(q, V)
    BY DEF q
  <2> QED BY <1>2, <1>4, <2>1 DEF Sums
<1>6. W[b + 1] = BinCoef(x + 1, b + 1) - 1
  <2>0. Run(p, b)
    BY <1>u, RunBelow
  <2>1. \A i \in 1 .. b + 1 : p[i] = (x - b) + i - 1
    BY <2>0 DEF Run
  <2> DEFINE c == x - b
             r == b + 1
  <2>2. c \in Nat
    <3>1. 1 \in 1 .. b + 1 /\ 1 \in 1 .. m
      BY <1>1
    <3>2. p[1] = (x - b) + 1 - 1 /\ p[1] \in Nat
      BY <1>u, <2>1, <3>1, ListTypes
    <3> HIDE DEF x
    <3> QED BY <1>1, <3>2
  <2>3. r \in 0 .. Len(p) /\ c + r = x + 1 /\ c + r <= CacheN /\ r \in 0 .. r
    <3> HIDE DEF x
    <3> QED BY <1>u, <1>1, <1>2, <2>2
  <2>4. Consecutive(p, c, r)
    BY <2>1 DEF Consecutive
  <2>5. HockeySums(W, c, r)
    <3> HIDE DEF c, r, x
    <3> QED BY <1>2, <2>2, <2>3, <2>4, RunSum
  <2>6. W[r] = BinCoef(c + r, r) - 1
    <3> HIDE DEF c, r, x
    <3> QED BY <2>3, <2>5 DEF HockeySums
  <2> QED BY <2>3, <2>6
<1>7. V[b] = 0
  <2> DEFINE c == 0
  <2>1. Consecutive(q, c, b)
    <3>1. \A i \in 1 .. b : i \in 1 .. m /\ i <= b
      BY <1>1
    <3>2. \A i \in 1 .. b : q[i] = c + i - 1
      BY <3>1 DEF Moved
    <3> QED BY <3>2 DEF Consecutive
  <2>2. c \in Nat /\ b \in 0 .. Len(q) /\ c + b <= CacheN
    <3>1. b <= x
      <4>1. b + 1 \in 1 .. Len(p)
        BY <1>1, <1>2
      <4>2. (b + 1) - 1 <= p[b + 1]
        BY <1>2, <4>1, PositionTypes
      <4> HIDE DEF x
      <4> QED BY <1>1, <4>2 DEF x
    <3> HIDE DEF q, x
    <3> QED BY <1>u, <1>1, <1>4, <3>1
  <2>3. HockeySums(V, c, b)
    <3>1. Sums(q, V)
      OBVIOUS
    <3> HIDE DEF q, c
    <3> QED BY <1>4, <2>1, <2>2, <3>1, RunSum
  <2>4. V[b] = BinCoef(c + b, b) - 1 /\ c + b = b
    BY <1>1, <2>3 DEF HockeySums
  <2>5. BinCoef(b, b) = 1
    BY <1>1, Edges
  <2> QED BY <2>4, <2>5
<1>8. V[b + 1] = W[b + 1] + 1
  <2>1. q[b + 1] = x + 1
    <3> HIDE DEF x
    <3> QED BY <1>1 DEF Moved
  <2>2. V[b + 1] = V[(b + 1) - 1] + BinCoef(q[b + 1], b + 1) /\ (b + 1) - 1 = b
    <3> HIDE DEF q
    <3> QED BY <1>1, <1>5
  <2>3. BinCoef(x + 1, b + 1) \in Nat
    <3>1. x + 1 \in 0 .. CacheN /\ b + 1 \in Nat
      <4> HIDE DEF x
      <4> QED BY <1>u, <1>1
    <3> QED BY <3>1, CoefficientTypes
  <2> HIDE DEF q, x
  <2> QED BY <1>6, <1>7, <2>1, <2>2, <2>3
<1> DEFINE T == {i \in b + 1 .. m : V[i] = W[i] + 1}
<1>9. ASSUME NEW i \in b + 1 .. m - 1, i \in T PROVE i + 1 \in T
  <2>1. i + 1 \in b + 1 .. m /\ i + 1 \in 1 .. m /\ (i + 1) - 1 = i /\ i + 1 > b + 1 /\ i \in 0 .. m /\ i + 1 \in 0 .. m
    BY <1>1
  <2>2. q[i + 1] = p[i + 1]
    <3>1. ~(i + 1 <= b) /\ i + 1 # b + 1
      BY <1>1, <2>1
    <3> QED BY <2>1, <3>1 DEF Moved
  <2> HIDE DEF q
  <2>3. V[i + 1] = V[i] + BinCoef(q[i + 1], i + 1) /\ W[i + 1] = W[i] + BinCoef(p[i + 1], i + 1)
    BY <1>5, <2>1
  <2>4. V[i] = W[i] + 1 /\ W[i] \in Nat
    BY <1>5, <1>9, <2>1
  <2>5. BinCoef(p[i + 1], i + 1) \in Nat
    BY <1>2, <2>1, PositionTypes
  <2> QED BY <2>1, <2>2, <2>3, <2>4, <2>5
<1>10. b + 1 .. m \subseteq T
  <2>1. b + 1 \in T /\ b + 1 \in Int /\ m \in Int
    BY <1>1, <1>8
  <2> DEFINE a == b + 1
  <2>2. a \in Int /\ m \in Int /\ (a <= m => a \in T) /\ \A i \in a .. m - 1 : i \in T => i + 1 \in T
    BY <1>9, <2>1
  <2>3. a .. m \subseteq T
    <3> HIDE DEF T, a
    <3> QED BY <2>2, Induction
  <2> QED BY <2>3
<1>11. m \in T
  <2>1. m \in b + 1 .. m
    BY <1>1
  <2> HIDE DEF T
  <2> QED BY <1>10, <2>1
<1> QED BY <1>11 DEF Follow

(* The sum of the last set.                                                *)
LEMMA LastSum ==
  ASSUME NEW u \in 0 .. CacheN, NEW m \in 0 .. u, NEW p, Lists(p, m, u - m .. u - 1), NEW W, Sums(p, W)
  PROVE  W[m] = BinCoef(u, m) - 1
<1> DEFINE S == u - m .. u - 1
           q == [i \in 1 .. m |-> (u - m) + i - 1]
<1>1. u \in Nat /\ CacheN \in Nat /\ u <= CacheN /\ m \in Nat /\ m <= u /\ u - m \in Nat
  BY CacheTypes
<1>2. S \in SUBSET (0 .. u - 1) /\ S \in SUBSET Int
  BY <1>1
<1>3. Lists(q, m, S)
  <2>1. q \in [1 .. m -> S]
    BY <1>1
  <2>2. ASSUME NEW y \in S PROVE \E i \in 1 .. m : q[i] = y
    <3>1. y - (u - m) + 1 \in 1 .. m /\ (u - m) + (y - (u - m) + 1) - 1 = y
      BY <1>1
    <3> QED BY <3>1
  <2>3. \A i, j \in 1 .. m : i < j => q[i] < q[j]
    BY <1>1
  <2> HIDE DEF q, S
  <2> QED BY <2>1, <2>2, <2>3 DEF Lists
<1>4. p = q
  <2> HIDE DEF q
  <2> QED BY <1>1, <1>2, <1>3, OneList
<1>5. Ascending(p, u) /\ Len(p) = m
  BY <1>1, <1>2, ListAscends
<1> DEFINE c == u - m
<1>6. Consecutive(p, c, m)
  BY <1>4 DEF Consecutive
<1>7. c \in Nat /\ m \in 0 .. Len(p) /\ c + m <= CacheN /\ c + m = u /\ m \in 0 .. m
  BY <1>1, <1>5
<1>8. HockeySums(W, c, m)
  <2> HIDE DEF c
  <2> QED BY <1>5, <1>6, <1>7, RunSum
<1> HIDE DEF c
<1> QED BY <1>7, <1>8 DEF HockeySums

-----------------------------------------------------------------------------
(* The walk.                                                               *)

(* The first element that can move, and how many there are below it.       *)
LEMMA WhoMoves ==
  ASSUME NEW S \in SUBSET (0 .. Universe - 1), S # Universe - Cardinality(S) .. Universe - 1,
         NEW x, x = Min({y \in S : y + 1 \notin S}), NEW b, b = Cardinality({y \in S : y < x})
  PROVE  /\ b \in 0 .. Cardinality(S) - 1 /\ x = IndexSet(S)[b + 1]
         /\ FirstFree(S, x) /\ x + 1 < Universe
<1> DEFINE m == Cardinality(S)
           p == IndexSet(S)
           F == {y \in S : y + 1 \notin S}
<1>1. /\ Universe \in Nat /\ IsFiniteSet(S) /\ m \in Nat /\ Lists(p, m, S) /\ S \in SUBSET Int
      /\ \A i \in 1 .. m : p[i] \in S /\ p[i] \in Nat /\ p[i] < Universe
  <2>1. Universe \in Nat
    BY UniverseTypes
  <2>2. IsFiniteSet(S) /\ m \in Nat /\ Lists(p, m, S)
    BY <2>1, IndexSetLists
  <2>3. \A i \in 1 .. m : p[i] \in S /\ p[i] \in Nat /\ p[i] < Universe
    BY <2>1, <2>2, ListTypes
  <2>4. S \in SUBSET Int
    OBVIOUS
  <2> QED BY <2>1, <2>2, <2>3, <2>4
<1>2. m # 0
  <2>1. CASE m = 0
    <3>1. S = {}
      BY <1>1, <2>1, FS_EmptySet
    <3>2. Universe - m .. Universe - 1 = {}
      BY <1>1, <2>1
    <3> QED BY <3>1, <3>2
  <2> QED BY <2>1
<1>3. F # {}
  <2>1. m \in 1 .. m
    BY <1>1, <1>2
  <2>2. p[m] + 1 \notin S
    <3>1. SUFFICES ASSUME p[m] + 1 \in S PROVE FALSE
      OBVIOUS
    <3>2. PICK j \in 1 .. m : p[j] = p[m] + 1
      BY <1>1, <3>1 DEF Lists
    <3>3. p[m] \in Nat /\ j # m
      BY <1>1, <2>1, <3>2
    <3>4. p[j] < p[m]
      BY <1>1, <2>1, <3>3 DEF Lists
    <3> QED BY <3>2, <3>3, <3>4
  <2> QED BY <1>1, <2>1, <2>2
<1>4. x \in F /\ \A y \in F : x <= y
  <2>1. F \in SUBSET Nat
    <3>1. \A y \in S : y \in Nat
      OBVIOUS
    <3> QED BY <3>1
  <2>2. \E z \in F : \A y \in F : z <= y
    <3> HIDE DEF F
    <3> QED BY <1>3, <2>1, LeastNumber
  <2> HIDE DEF F
  <2>3. x = CHOOSE z \in F : \A y \in F : z <= y
    BY DEF Min, F
  <2> QED BY <2>2, <2>3
<1>5. FirstFree(S, x)
  <2>1. x \in S /\ x + 1 \notin S /\ x \in Int
    BY <1>4
  <2>2. ASSUME NEW y \in S, y < x, y + 1 \notin S PROVE FALSE
    <3>1. y \in F /\ y \in Int
      BY <2>2
    <3>2. x <= y
      BY <1>4, <3>1
    <3> QED BY <2>1, <2>2, <3>1, <3>2
  <2> QED BY <2>1, <2>2 DEF FirstFree
<1>6. b \in 0 .. m - 1 /\ x = p[b + 1]
  <2>1. x \in S /\ b = Cardinality(Below(S, x))
    BY <1>4 DEF Below
  <2>2. b \in 0 .. m - 1
    BY <1>1, <2>1, BelowGrows
  <2>3. b + 1 \in 1 .. m /\ (b + 1) - 1 = b
    BY <1>1, <2>2
  <2>4. p[b + 1] \in S /\ Cardinality(Below(S, p[b + 1])) = b
    BY <1>1, <2>3, IndexSetPlace
  <2>5. ~(x < p[b + 1]) /\ ~(p[b + 1] < x)
    BY <1>1, <2>1, <2>2, <2>4, BelowGrows
  <2>6. x \in Int /\ p[b + 1] \in Int
    BY <1>1, <2>1, <2>4
  <2> QED BY <2>2, <2>5, <2>6
<1>7. x + 1 < Universe
  <2>1. SUFFICES ASSUME ~(x + 1 < Universe) PROVE FALSE
    OBVIOUS
  <2>2. b + 1 \in 1 .. m /\ x = Universe - 1
    <3>1. b + 1 \in 1 .. m
      BY <1>1, <1>6
    <3>2. x \in Nat /\ x < Universe
      BY <1>1, <1>6, <3>1
    <3> QED BY <1>1, <2>1, <3>1, <3>2
  <2>3. b + 1 = m
    <3>1. CASE b + 1 < m
      <4>1. m \in 1 .. m /\ m \in Nat
        BY <1>1, <1>2
      <4>2. p[b + 1] < p[m]
        BY <1>1, <2>2, <3>1, <4>1 DEF Lists
      <4>3. p[m] \in Nat /\ p[m] < Universe
        BY <1>1, <4>1
      <4> QED BY <1>1, <1>6, <2>2, <4>2, <4>3
    <3> QED BY <1>1, <2>2, <3>1
  <2>4. Run(p, b)
    <3> HIDE DEF p, m
    <3> QED BY <1>1, <1>5, <1>6, RunBelow
  <2>5. \A i \in 1 .. m : p[i] = (Universe - m) + i - 1
    <3>1. \A i \in 1 .. m : p[i] = (x - b) + i - 1
      BY <1>6, <2>3, <2>4 DEF Run
    <3>2. x - b = Universe - m
      BY <1>1, <1>6, <2>2, <2>3
    <3> QED BY <3>1, <3>2
  <2>6. S = Universe - m .. Universe - 1
    <3>1. ASSUME NEW y \in S PROVE y \in Universe - m .. Universe - 1
      <4>1. PICK i \in 1 .. m : p[i] = y
        BY <1>1 DEF Lists
      <4>2. y = (Universe - m) + i - 1
        BY <2>5, <4>1
      <4> QED BY <1>1, <4>2
    <3>2. ASSUME NEW y \in Universe - m .. Universe - 1 PROVE y \in S
      <4>1. y - (Universe - m) + 1 \in 1 .. m /\ (Universe - m) + (y - (Universe - m) + 1) - 1 = y
        BY <1>1
      <4>2. p[y - (Universe - m) + 1] = y
        BY <2>5, <4>1
      <4> QED BY <1>1, <4>1, <4>2
    <3> QED BY <3>1, <3>2
  <2> QED BY <2>6
<1> QED BY <1>5, <1>6, <1>7

(* The next set of the walk, its list, and its sum.                        *)
LEMMA NextSet ==
  ASSUME NEW S \in SUBSET (0 .. Universe - 1), S # Universe - Cardinality(S) .. Universe - 1,
         NEW x, x = Min({y \in S : y + 1 \notin S}), NEW b, b = Cardinality({y \in S : y < x}),
         NEW v, Counts(S, v)
  PROVE  /\ MovedSet(S, b, x) \in SUBSET (0 .. Universe - 1)
         /\ Cardinality(MovedSet(S, b, x)) = Cardinality(S)
         /\ Counts(MovedSet(S, b, x), v + 1)
<1> DEFINE p == IndexSet(S)
           m == Cardinality(S)
           q == Moved(p, m, b, x)
           R == MovedSet(S, b, x)
<1>u. Universe \in Nat /\ Universe \in 0 .. CacheN
  BY UniverseTypes
<1>1. m \in Nat /\ Lists(p, m, S) /\ Ascending(p, Universe) /\ Len(p) = m
  BY <1>u, IndexSetLists
<1>2. b \in 0 .. m - 1 /\ x = p[b + 1] /\ FirstFree(S, p[b + 1]) /\ p[b + 1] + 1 < Universe
  <2>1. b \in 0 .. m - 1 /\ x = p[b + 1] /\ FirstFree(S, x) /\ x + 1 < Universe
    BY WhoMoves
  <2> HIDE DEF p, m
  <2> QED BY <2>1
<1>3. R \in SUBSET (0 .. Universe - 1) /\ Lists(q, m, R)
  <2>1. /\ MovedSet(S, b, p[b + 1]) \in SUBSET (0 .. Universe - 1)
        /\ Lists(Moved(p, m, b, p[b + 1]), m, MovedSet(S, b, p[b + 1]))
    <3> HIDE DEF p, m
    <3> QED BY <1>u, <1>1, <1>2, MovedLists
  <2>2. x = p[b + 1]
    BY <1>2
  <2> HIDE DEF p, m
  <2> QED BY <2>1, <2>2
<1>4. IndexSet(R) = q /\ Cardinality(R) = m
  <2>1. R \in SUBSET Int
    BY <1>3
  <2> HIDE DEF p, m, q, R
  <2> QED BY <1>1, <1>3, <2>1, IndexSetIs
<1>5. Ascending(q, Universe)
  <2> HIDE DEF p, m, q, R
  <2> QED BY <1>u, <1>1, <1>3, ListAscends
<1>w. PICK W : Sums(p, W) /\ v = W[m]
  BY DEF Counts
<1>6. PICK V : Sums(q, V)
  <2> HIDE DEF q
  <2> QED BY <1>u, <1>5, SumsExist
<1>7. Sums(Moved(p, m, b, p[b + 1]), V)
  <2>1. x = p[b + 1]
    BY <1>2
  <2> HIDE DEF p, m
  <2> QED BY <1>6, <2>1
<1>8. Follow(W, V, m)
  <2>1. Sums(p, W)
    BY <1>w
  <2>2. m \in Nat /\ Lists(p, m, S)
    BY <1>1
  <2> HIDE DEF p, m, q, R
  <2>3. b \in 0 .. m - 1 /\ FirstFree(S, p[b + 1]) /\ p[b + 1] + 1 < Universe
    BY <1>2
  <2> QED BY <1>u, <1>7, <2>1, <2>2, <2>3, MovedSum
<1> HIDE DEF q, R, p
<1>9. Sums(IndexSet(R), V)
  BY <1>4, <1>6
<1>10. v + 1 = V[Cardinality(R)]
  BY <1>4, <1>8, <1>w DEF Follow
<1>11. Counts(R, v + 1)
  BY <1>9, <1>10 DEF Counts
<1> QED BY <1>3, <1>4, <1>11 DEF R

(* Each step of the walk adds one to the sum.                              *)
LEMMA WalkStep == IInv /\ [Advance]_vars => IInv'
<1> SUFFICES ASSUME IInv, [Advance]_vars PROVE IInv'
  OBVIOUS
<1>1. CASE UNCHANGED vars
  BY <1>1 DEF IInv, vars
<1>2. CASE Advance
  <2>x. PICK x : x = Min({y \in set : y + 1 \notin set})
    OBVIOUS
  <2>b. PICK b : b = Cardinality({y \in set : y < x})
    OBVIOUS
  <2> DEFINE R == MovedSet(set, b, x)
             m == Cardinality(set)
  <2>1. set' = R /\ position' = position + 1 /\ set # Universe - m .. Universe - 1
    BY <1>2, <2>x, <2>b DEF Advance, MovedSet, LastSet
  <2>2. set \in SUBSET (0 .. Universe - 1)
    BY DEF IInv
  <2>3. Counts(set, position)
    BY DEF IInv
  <2>4. R \in SUBSET (0 .. Universe - 1) /\ Counts(R, position + 1)
    BY <2>x, <2>b, <2>1, <2>2, <2>3, NextSet
  <2> HIDE DEF R, m
  <2>7. set' \in SUBSET (0 .. Universe - 1) /\ Counts(set', position')
    BY <2>1, <2>4
  <2> QED BY <2>7 DEF IInv, Counts
<1> QED BY <1>1, <1>2

(* The position in colexicographic order is the sum of the coefficients,   *)
(* in every state of the walk.                                             *)
THEOREM Invariance == Spec => []IInv
BY WalkInit, WalkStep, PTL DEF Spec

(* compressor.go: the rank of a set is its position in colexicographic     *)
(* order, for every universe whose cube a word holds, promoted accumulator *)
(* or not.                                                                 *)
THEOREM RankCorrect == Spec => []RankIsPosition
<1>1. IInv => RankIsPosition
  <2> SUFFICES ASSUME IInv PROVE Rank(IndexSet(set)) = position
    BY DEF RankIsPosition
  <2>1. PICK W : Sums(IndexSet(set), W) /\ position = W[Cardinality(set)]
    BY DEF IInv, Counts
  <2>2. set \in SUBSET (0 .. Universe - 1) /\ Universe \in Nat
    BY UniverseTypes DEF IInv
  <2>3. Ascending(IndexSet(set), Universe) /\ Len(IndexSet(set)) = Cardinality(set)
    BY <2>2, IndexSetLists
  <2>4. Rank(IndexSet(set)) = W[Len(IndexSet(set))]
    BY <2>1, <2>3, RankIsSum, UniverseTypes
  <2> QED BY <2>1, <2>3, <2>4
<1> QED BY <1>1, Invariance, PTL

(* compressor.go: the hockey-stick variant gives that position, too: taking *)
(* a run of consecutive positions as a difference of two coefficients adds *)
(* up to what its terms do.                                                *)
THEOREM HockeyStickCorrect == Spec => []HockeyStickAgrees
<1>1. IInv => HockeyStickAgrees
  <2> SUFFICES ASSUME IInv PROVE RankHockeyStick(IndexSet(set)) = position
    BY DEF HockeyStickAgrees
  <2>1. PICK W : Sums(IndexSet(set), W) /\ position = W[Cardinality(set)]
    BY DEF IInv, Counts
  <2>2. set \in SUBSET (0 .. Universe - 1) /\ Universe \in Nat /\ Universe \in 0 .. CacheN
    BY UniverseTypes DEF IInv
  <2>3. Ascending(IndexSet(set), Universe) /\ Len(IndexSet(set)) = Cardinality(set)
    BY <2>2, IndexSetLists
  <2>4. RankHockeyStick(IndexSet(set)) = W[Len(IndexSet(set))]
    BY <2>1, <2>2, <2>3, HockeyStickIsSum
  <2> QED BY <2>1, <2>3, <2>4
<1> QED BY <1>1, Invariance, PTL

(* decompressor.go: unranking a position gives the set at that position.   *)
THEOREM UnrankCorrect == Spec => []UnrankInverts
<1>1. IInv => UnrankInverts
  <2> SUFFICES ASSUME IInv PROVE Unrank(position, Cardinality(set), Universe) = set
    BY DEF UnrankInverts
  <2>1. PICK W : Sums(IndexSet(set), W) /\ position = W[Cardinality(set)]
    BY DEF IInv, Counts
  <2>2. set \in SUBSET (0 .. Universe - 1) /\ Universe \in 1 .. CacheN
    BY UniverseTypes DEF IInv
  <2>3. Unrank(W[Cardinality(set)], Cardinality(set), Universe) = set
    BY <2>1, <2>2, UnrankLaw
  <2> QED BY <2>1, <2>3
<1> QED BY <1>1, Invariance, PTL

(* The ranks of the sets of one size are 0 .. C(n, k) - 1, with the        *)
(* greatest for the last set: they fit in the bits of their coefficient.   *)
THEOREM ModulusCorrect == Spec => []RanksFillModulus
<1>1. IInv => RanksFillModulus
  <2> SUFFICES ASSUME IInv PROVE RanksFillModulus
    OBVIOUS
  <2> DEFINE m == Cardinality(set)
             modulus == BinCoef(Universe, m)
             p == IndexSet(set)
  <2>1. PICK W : Sums(p, W) /\ position = W[m]
    BY DEF IInv, Counts
  <2>2. set \in SUBSET (0 .. Universe - 1) /\ Universe \in Nat /\ Universe \in 0 .. CacheN
    BY UniverseTypes DEF IInv
  <2>3. m \in Nat /\ Lists(p, m, set)
    BY <2>2, IndexSetLists
  <2>4. position \in Nat /\ position < modulus
    <3> HIDE DEF p, m
    <3> QED BY <2>1, <2>2, <2>3, SumFits
  <2>5. modulus \in Nat
    <3> HIDE DEF m
    <3> QED BY <2>2, <2>3, CoefficientTypes
  <2>6. ASSUME set = LastSet PROVE position = modulus - 1
    <3>1. set = Universe - m .. Universe - 1
      BY <2>6 DEF LastSet
    <3>2. m \in 0 .. Universe
      <4>1. IsFiniteSet(0 .. Universe - 1) /\ Cardinality(0 .. Universe - 1) = Universe
        <5>1. 0 \in Int /\ Universe - 1 \in Int /\ ~(0 > Universe - 1) /\ (Universe - 1) - 0 + 1 = Universe
          BY UniverseTypes
        <5> QED BY <5>1, FS_Interval
      <4>2. m <= Universe
        BY <2>2, <4>1, FS_Subset
      <4> QED BY <2>2, <2>3, <4>2
    <3>3. Lists(p, m, Universe - m .. Universe - 1)
      BY <2>3, <3>1
    <3> HIDE DEF p, m
    <3> QED BY <2>1, <2>2, <3>2, <3>3, LastSum
  <2>7. ASSUME set # LastSet PROVE position # modulus - 1
    <3>x. PICK x : x = Min({y \in set : y + 1 \notin set})
      OBVIOUS
    <3>b. PICK b : b = Cardinality({y \in set : y < x})
      OBVIOUS
    <3> DEFINE R == MovedSet(set, b, x)
    <3>1. set # Universe - m .. Universe - 1
      BY <2>7 DEF LastSet
    <3>2. R \in SUBSET (0 .. Universe - 1) /\ Cardinality(R) = m /\ Counts(R, position + 1)
      <4>1. Counts(set, position)
        BY DEF IInv
      <4> QED BY <2>2, <3>x, <3>b, <3>1, <4>1, NextSet
    <3>3. PICK V : Sums(IndexSet(R), V) /\ position + 1 = V[m]
      <4> HIDE DEF R, m
      <4> QED BY <3>2 DEF Counts
    <3>4. Lists(IndexSet(R), m, R)
      <4> HIDE DEF R, m
      <4> QED BY <2>2, <3>2, IndexSetLists
    <3>5. V[m] < modulus
      <4> DEFINE q == IndexSet(R)
      <4>1. Lists(q, m, R) /\ Sums(q, V)
        BY <3>3, <3>4
      <4> HIDE DEF R, m, q
      <4> QED BY <2>2, <2>3, <3>2, <4>1, SumFits
    <3> HIDE DEF m, modulus
    <3> QED BY <2>1, <2>4, <2>5, <3>3, <3>5
  <2> QED BY <2>4, <2>6, <2>7 DEF RanksFillModulus
<1> QED BY <1>1, Invariance, PTL
=============================================================================
