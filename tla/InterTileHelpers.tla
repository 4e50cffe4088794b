-------------------------- MODULE InterTileHelpers --------------------------
(***************************************************************************)
(* The enumeration helpers of the inter-tile ops                           *)
(* (lib/Dialect/KTDP/KTDPInterTileHelpers.cpp).  The op verifier and the   *)
(* ktir-check-legality pass never reason about an affine set symbolically: *)
(* they ask for a constant bound of its only dimension and then test every *)
(* integer up to it.                                                       *)
(*                                                                         *)
(* An affine set over one dimension x is a set of constraints              *)
(*     d*x + c*cVal + g*gVal + k >= 0                                      *)
(* (an equality with a unit coefficient of x is two of them; `mod' and       *)
(* `floordiv' are left out).  `syms' is its number of symbols: none        *)
(* for a groups set (g), one for a tile set (i)[g], two for a dependency   *)
(* set (p)[c, g].                                                          *)
(***************************************************************************)
EXTENDS Integers, FiniteSets, FiniteSetsExt

Constraint == [d : Int, c : Int, g : Int, k : Int]
IntegerSet == {set \in [syms : Nat, cons : SUBSET Constraint] : IsFiniteSet(set.cons)}

\* The value of a constraint once its symbols are fixed, without the dimension.
Rest(con, cVal, gVal) == con.c * cVal + con.g * gVal + con.k

\* The point x is in the set for the given symbol values.
Contains(set, x, cVal, gVal) ==
  \A con \in set.cons : con.d * x + Rest(con, cVal, gVal) >= 0

\* getConstantBound64 of the only dimension: it exists exactly when some
\* constraint bounds the dimension from that side, whatever the symbols are.
HasUpperBound(set) == \E con \in set.cons : con.d < 0
HasLowerBound(set) == \E con \in set.cons : con.d > 0

\* Mutant: the bound is rounded down past the last point.
UpperBoundStrict(set, cVal, gVal) ==
  Min({(Rest(con, cVal, gVal) - 1) \div (-con.d) : con \in {r \in set.cons : r.d < 0}})

UpperBound(set, cVal, gVal) ==
  Min({Rest(con, cVal, gVal) \div (-con.d) : con \in {r \in set.cons : r.d < 0}})
LowerBound(set, cVal, gVal) ==
  Max({-(Rest(con, cVal, gVal) \div con.d) : con \in {r \in set.cons : r.d > 0}})

\* groupValues succeeds when the range of groups is bounded on both sides.
BoundedGroups(set) == HasLowerBound(set) /\ HasUpperBound(set)

\* Mutant: the enumeration starts at 0, as it does for tiles.
groupValuesFromZero(set) ==
  {g \in 0 .. UpperBound(set, 0, 0) : Contains(set, g, 0, 0)}

groupValues(set) ==
  {g \in LowerBound(set, 0, 0) .. UpperBound(set, 0, 0) : Contains(set, g, 0, 0)}

\* tilesOf and depTilesOf succeed when the set has an upper bound; both count
\* up from tile 0 and so never see a negative point of the set.
tilesOf(set, gVal) ==
  {i \in 0 .. UpperBound(set, 0, gVal) : Contains(set, i, 0, gVal)}

\* Mutant: the two symbols are eliminated in the other order.
depTilesOfSwapped(set, cVal, gVal) ==
  {p \in 0 .. UpperBound(set, gVal, cVal) : Contains(set, p, gVal, cVal)}

depTilesOf(set, cVal, gVal) ==
  {p \in 0 .. UpperBound(set, cVal, gVal) : Contains(set, p, cVal, gVal)}
=============================================================================
