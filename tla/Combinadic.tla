----------------------------- MODULE Combinadic -----------------------------
(***************************************************************************)
(* The combinatorial number system the blocks are coded in: the cache of   *)
(* binomial coefficients (util/binomial.go), the rank of a set of          *)
(* positions and its inverse (compressor.go, decompressor.go), and the     *)
(* reduction of positions to the universe left over (util/util.go).        *)
(*                                                                         *)
(* A slice of positions is a sequence here, so Go's p[i] is p[i + 1].      *)
(* Recursion is by functions, over the index of the loop it stands for.    *)
(***************************************************************************)
EXTENDS Words, Sequences, FiniteSetsExt

CONSTANT CacheN     \* argument of InitCache

MaxCacheN == 65000  \* beyond it InitCache panics

\* With a universe of less than two InitCache has no first diagonal.
ASSUME CombinadicAssumption == CacheN \in 2 .. MaxCacheN /\ AccBits \in Nat \ {0}

-----------------------------------------------------------------------------
(* util/binomial.go                                                        *)

CachedRows == 0 .. (CacheN \div 2) - 1
CachedColumns(i) == 0 .. CacheN - 2 * i - 1

\* Half-diagonals of Pascal's triangle: each starts with twice the second
\* entry of the one above and goes on with running sums of it.
NextDiagonal(above, i) ==
  LET Sum[j \in CachedColumns(i)] == IF j = 0 THEN 2 * above[1] ELSE Sum[j - 1] + above[j + 1]
  IN Sum

HalfDiagonals ==
  LET Diagonal[i \in CachedRows] ==
        IF i = 0 THEN [j \in CachedColumns(0) |-> j + 2] ELSE NextDiagonal(Diagonal[i - 1], i)
  IN Diagonal

\* bug: the column of the symmetric half is one off
CellOneOff(n, k) == IF k > n \div 2 THEN <<n - k - 1, 2 * k - n - 1>> ELSE <<k - 1, n - 2 * k>>

\* where BinCoef looks up C(n, k) for 0 < k < n
Cell(n, k) == IF k > n \div 2 THEN <<n - k - 1, 2 * k - n>> ELSE <<k - 1, n - 2 * k>>

BinCoef(n, k) ==
  CASE k > n -> 0
    [] k = 0 \/ n = k -> 1
    [] OTHER -> HalfDiagonals[Cell(n, k)[1]][Cell(n, k)[2]]

-----------------------------------------------------------------------------
(* compressor.go                                                           *)

\* bug: a sum that overflows the accumulator is not noticed
CheckTermOnly(acc, term) == BitLength(term) > AccBits

\* the term, or the sum with it, does not fit in the accumulator
Overflows(acc, term) == BitLength(term) > AccBits \/ acc + term >= Word

\* The first three terms in closed form, in the accumulator's arithmetic.
Seed2(p) == (p[1] + (((p[2] * (p[2] - 1)) % Word) \div 2)) % Word
Seed3(p) == (Seed2(p) + (((p[3] * (p[3] - 1) * (p[3] - 2)) % Word) \div 6)) % Word

\* the accumulator and one more term; big: promoted to big.Int
Added(acc, term) ==
  IF acc.big \/ Overflows(acc.val, term)
  THEN [big |-> TRUE, val |-> acc.val + term]
  ELSE [big |-> FALSE, val |-> (acc.val + term) % Word]

\* the accumulator after so many terms
Accumulated(p) ==
  LET Sum[i \in 3 .. Len(p)] ==
        IF i = 3 THEN [big |-> FALSE, val |-> Seed3(p)] ELSE Added(Sum[i - 1], BinCoef(p[i], i))
  IN Sum

\* colexicographic rank of the ascending positions p
Rank(p) ==
  CASE Len(p) = 0 -> 0
    [] Len(p) = 1 -> p[1]
    [] Len(p) = 2 -> Seed2(p)
    [] OTHER -> Accumulated(p)[Len(p)].val

\* first indices of the maximal runs of consecutive integers in p
RunStarts(p) == {i \in 1 .. Len(p) : i = 1 \/ p[i] # p[i - 1] + 1}

\* findContiguityLengths, by the index a run starts at
ContiguityLength(p, s) ==
  Min({t \in RunStarts(p) : t > s} \cup {Len(p) + 1}) - s

\* bug: the coefficient taken off is that of the run's last term
RunTermLast(p, i, length) ==
  CASE length = 1 -> BinCoef(p[i + 1], i + 1)
    [] length = 2 -> BinCoef(p[i + 1], i + 1) + BinCoef(p[i + 2], i + 2)
    [] OTHER -> BinCoef(p[i + 1] + length, i + length) - BinCoef(p[i + 1], i + 1)

\* The same rank, a run of three or more taken as a difference of two
\* coefficients.  The run that starts at index i of Go's slice.
RunTerm(p, i, length) ==
  CASE length = 1 -> BinCoef(p[i + 1], i + 1)
    [] length = 2 -> BinCoef(p[i + 1], i + 1) + BinCoef(p[i + 2], i + 2)
    [] OTHER -> BinCoef(p[i + 1] + length, i + length) - BinCoef(p[i + 1], i)

\* the first position, and the terms of the runs of the others up to index i
HockeySum(p) ==
  LET Sum[i \in 0 .. Len(p) - 1] ==
        IF i = 0 THEN p[1]
        ELSE Sum[i - 1] + IF i \in RunStarts(Tail(p)) THEN RunTerm(p, i, ContiguityLength(Tail(p), i)) ELSE 0
  IN Sum

RankHockeyStick(p) == IF p = <<>> THEN 0 ELSE HockeySum(p)[Len(p) - 1]

-----------------------------------------------------------------------------
(* decompressor.go                                                         *)

\* bug: bit lengths decide, and the values of a tie are not compared
FitsByLength(v, rest) == BitLength(v) <= BitLength(rest)

\* a coefficient does not exceed the remainder: bit lengths first, then values
Fits(v, rest) ==
  LET lv == BitLength(v)  lr == BitLength(rest) IN lv < lr \/ (lv = lr /\ v <= rest)

\* the first position, from start down, whose coefficient fits; -1 if none does
Largest(start, weight, rest) ==
  LET Scan[j \in -1 .. start] ==
        IF j = -1 \/ Fits(BinCoef(j, weight), rest) THEN j ELSE Scan[j - 1]
  IN Scan[start]

\* that position is found, and its coefficient taken off the rest
Found(s, weight) ==
  LET j == Largest(s.start, weight, s.rest) IN
  IF j = -1 THEN s
  ELSE [start |-> j - 1, rest |-> s.rest - BinCoef(j, weight), set |-> s.set \cup {j}]

\* after so many weights, from k down
FoundBy(index, k, n) ==
  LET State[i \in 0 .. k - 1] ==
        IF i = 0 THEN [start |-> n - 1, rest |-> index, set |-> {}]
        ELSE Found(State[i - 1], k + 1 - i)
  IN State

\* The k positions below n whose rank is index: the largest that fits, for
\* each weight from k down to 2, and what is left of the index at the end.
Unrank(index, k, n) ==
  IF k = 0 THEN {} ELSE LET last == FoundBy(index, k, n)[k - 1] IN last.set \cup {last.rest}

-----------------------------------------------------------------------------
(* util/util.go                                                            *)

\* positions of a set in ascending order: GetIndexSet and its variant with a buffer
IndexSet(S) ==
  [i \in 1 .. Cardinality(S) |-> CHOOSE x \in S : Cardinality({y \in S : y < x}) = i - 1]

\* bug: a segment begins with the position before, which is removed by then
SegmentStartInclusive(p, i) == IF i = 1 THEN 0 ELSE p[i - 1]

\* where the bits counted for p[i] begin
SegmentStart(p, i) == IF i = 1 THEN 0 ELSE p[i - 1] + 1

\* Each position less the number of removed ones below it, counted segment by
\* segment between one position and the next; the positions count as removed
\* themselves as soon as they are met.
ReduceIndexSet(p, removed) ==
  LET Removed(i) == removed \cup {p[h] : h \in 1 .. i}
      Below[i \in 0 .. Len(p)] ==
        IF i = 0 THEN 0
        ELSE Below[i - 1] + Cardinality({x \in Removed(i) : SegmentStart(p, i) <= x /\ x < p[i]})
  IN [i \in 1 .. Len(p) |-> p[i] - Below[i]]
=============================================================================
