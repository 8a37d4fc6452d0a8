--------------------------- MODULE CombinadicWalk ---------------------------
(***************************************************************************)
(* The definition rank and unrank are checked against.  The k-element      *)
(* subsets of 0 .. Universe - 1 are walked through in colexicographic      *)
(* order, and the rank of a set is the number of steps that lead to it.    *)
(* Universe is 256 for alphabets and at most the block size for positions. *)
(***************************************************************************)
EXTENDS Combinadic

CONSTANT Universe

\* The closed-form terms of Rank multiply three positions in a machine word.
ASSUME WalkAssumption == /\ Universe \in Nat \ {0} /\ Universe <= CacheN
                         /\ Universe * Universe * Universe <= Word

VARIABLES set,       \* where the walk is
          position   \* the steps taken since the first set

vars == <<set, position>>

Init == /\ set \in {0 .. k - 1 : k \in 0 .. Universe}
        /\ position = 0

LastSet == Universe - Cardinality(set) .. Universe - 1

\* The first position that can move up does, and those below it start over.
Advance ==
  /\ set # LastSet
  /\ LET x == Min({y \in set : y + 1 \notin set})
         below == Cardinality({y \in set : y < x})
     IN set' = {y \in set : y > x} \cup {x + 1} \cup 0 .. below - 1
  /\ position' = position + 1

Spec == Init /\ [][Advance]_vars

-----------------------------------------------------------------------------
(* The rank is the position in colexicographic order, whether or not the   *)
(* accumulator was promoted to a big integer on the way.                   *)
RankIsPosition == Rank(IndexSet(set)) = position

(* The hockey-stick variant computes the same rank.                        *)
HockeyStickAgrees == RankHockeyStick(IndexSet(set)) = position

(* Unranking gives back the set, for its own size and universe.            *)
UnrankInverts == Unrank(position, Cardinality(set), Universe) = set

(* The ranks of k positions are 0 .. C(Universe, k) - 1, all of them: they  *)
(* fit in the bits that coefficient has, and the cipher that works modulo  *)
(* the coefficient permutes them.                                          *)
RanksFillModulus ==
  LET modulus == BinCoef(Universe, Cardinality(set)) IN
  position < modulus /\ (position = modulus - 1 <=> set = LastSet)
=============================================================================
