--------------------------- MODULE EnumeratedTiles ---------------------------
(***************************************************************************)
(* What the verifiers and the pass take the enumeration helpers for: the   *)
(* points of the affine sets of the module at hand, observed at the tiles  *)
(* and groups of two windows.  A window is what is looked at, not a bound  *)
(* of the helpers.                                                         *)
(***************************************************************************)
EXTENDS KTIRCheckLegality

CONSTANTS Window,          \* points at which a result is compared with its set
          SymbolValues     \* consumers and groups the helpers are asked about

ASSUME WindowAssumption == Window \subseteq Int /\ SymbolValues \subseteq Int

Entered == phase = "verify" /\ cursor = 1
Produces == {i \in DOMAIN ops : ops[i].kind = "produce"}
Reduces == {i \in DOMAIN ops : ops[i].kind = "reduce"}

\* The set's points with the given symbols, by the meaning of its constraints.
Points(set, c, g) == {x \in Window : Contains(set, x, c, g)}
NonNegative(S) == {x \in S : x >= 0}

\* groupValues returns exactly the groups of a bounded set, negative ones included
\* (KTDPInterTileHelpers.cpp groupValues: constant bounds, then a test per value).
GroupValuesExact ==
  Entered => \A i \in Produces :
    BoundedGroups(ops[i].groups) =>
      groupValues(ops[i].groups) \cap Window = Points(ops[i].groups, 0, 0)

\* tilesOf returns exactly the non-negative points for the group: the rounding of
\* the upper bound loses no tile (KTDPInterTileHelpers.cpp tilesOf).
TilesOfExact ==
  Entered => \A i \in Reduces, g \in SymbolValues :
    HasUpperBound(ops[i].consumers) =>
      tilesOf(ops[i].consumers, g) \cap Window
        = NonNegative(Points(ops[i].consumers, 0, g))

\* depTilesOf substitutes the consumer first and the group second: its answer is
\* the set's points with the symbols in the declared order (c, g)
\* (KTDPInterTileHelpers.cpp depTilesOf).
DepTilesOfExact ==
  Entered => \A i \in Reduces : \A dep \in ops[i].dep, c, g \in SymbolValues :
    HasUpperBound(dep) =>
      depTilesOf(dep, c, g) \cap Window = NonNegative(Points(dep, c, g))
=============================================================================
