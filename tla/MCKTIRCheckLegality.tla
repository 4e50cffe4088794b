------------------------ MODULE MCKTIRCheckLegality ------------------------
(***************************************************************************)
(* Programs for ktir-check-legality.  The sets are the shapes the tests    *)
(* and the design document use, on blocks of two or three tiles: aligned   *)
(* blocks, overlapping ones, single tiles, shifted and strict subsets,     *)
(* sets without an upper bound, groups with negative indices.              *)
(***************************************************************************)
EXTENDS EnumeratedTiles

Ge(d, c, g, k) == [d |-> d, c |-> c, g |-> g, k |-> k]
Between(syms, c, g, lo, hi) ==
  [syms |-> syms, cons |-> {Ge(1, -c, -g, -lo), Ge(-1, c, g, hi)}]

GroupSet(lo, hi) == Between(0, 0, 0, lo, hi)
TileSet(stride, lo, hi) == Between(1, 0, stride, lo, hi)
From(syms, g) == [syms |-> syms, cons |-> {Ge(1, 0, -g, 0)}]

GroupSets == {GroupSet(0, 0), GroupSet(0, 1), GroupSet(-1, 1), From(0, 0)}
ProducerSets == {TileSet(2, 0, 1), TileSet(1, 0, 1), TileSet(3, 0, 2), From(1, 2)}
ConsumerSets == {TileSet(2, 0, 1), TileSet(1, 0, 1), TileSet(3, 0, 2), TileSet(3, 0, 1),
                 TileSet(2, 0, 0), TileSet(2, 1, 2), TileSet(2, 1, 0), From(1, 2)}
DepSets == {Between(2, 1, 0, 0, 0),     \* p = c
            Between(2, 0, 2, 0, 1),     \* the aligned pair of the group
            Between(2, 1, 0, -1, 0),    \* c - 1 <= p <= c
            Between(2, 0, 2, 0, 0),     \* the leader of the pair
            Between(2, 0, 2, 1, 0),     \* nobody
            Between(1, 1, 0, 0, 0),     \* (p)[c]: one symbol
            From(2, 2)}                 \* no upper bound

Produce(groups, producers, uses) ==
  [kind |-> "produce", dialect |-> "ktdp", groups |-> groups, producers |-> producers,
   args |-> <<"index">>, partials |-> <<"t">>, yields |-> <<"t">>, otherUses |-> uses]

Reduce(future, cons, dep) ==
  [kind |-> "reduce", dialect |-> "ktdp", future |-> future, consumers |-> cons,
   dep |-> dep, partials |-> <<"t">>, identity |-> <<"t">>, results |-> <<"t">>,
   args |-> <<"t", "t">>, yields |-> <<"t">>, pure |-> TRUE]

Other(dialect) == [kind |-> "other", dialect |-> dialect]

SomeDep == {{}} \cup {{d} : d \in DepSets}

\* One future and its delivery, in every combination of the sets.
Pairs == {<<Produce(gs, p, 0), Reduce(1, c, d)>> :
            gs \in GroupSets, p \in ProducerSets, c \in ConsumerSets, d \in SomeDep}

\* Two deliveries, legal or not, with an op in between; uses that are not one
\* delivery; a future that is a block argument.
FewProducers == {TileSet(2, 0, 1), From(1, 2)}
FewConsumers == {TileSet(2, 0, 1), TileSet(2, 1, 2), TileSet(2, 0, 0)}
FewDeps == {{}, {Between(2, 1, 0, 0, 0)}, {Between(2, 0, 2, 0, 0)}}

Doubles == {<<Produce(GroupSet(0, 1), p, u), Reduce(1, c1, d1), Other(dialect),
              Produce(GroupSet(-1, 1), TileSet(2, 0, 1), 0), Reduce(f, c2, d2)>> :
              p \in FewProducers, u \in {0, 1}, c1 \in FewConsumers,
              c2 \in {TileSet(2, 0, 1), TileSet(2, 0, 0)}, d1 \in FewDeps,
              d2 \in {{}, {Between(2, 0, 2, 0, 0)}}, dialect \in {"arith", "tosa"}, f \in {0, 1, 4}}

\* Ops the verifiers reject, one defect each.
Malformed ==
  LET p == Produce(GroupSet(0, 1), TileSet(2, 0, 1), 0)
      r == Reduce(1, TileSet(2, 0, 1), {})
      N2 == <<"t", "u">>
      p2 == [p EXCEPT !.partials = N2, !.yields = N2]
      r2 == [r EXCEPT !.partials = N2, !.identity = N2, !.results = N2,
                      !.args = N2 \o N2, !.yields = N2]
  IN  {<<p2, r2>>, <<[p EXCEPT !.args = <<>>], r>>, <<[p EXCEPT !.yields = N2], r>>,
       <<[p EXCEPT !.producers = From(0, 0)], r>>, <<[p EXCEPT !.groups = From(1, 0)], r>>,
       <<p, [r EXCEPT !.args = <<"t">>]>>, <<p, [r EXCEPT !.yields = <<>>]>>,
       <<p, [r EXCEPT !.consumers = From(2, 0)]>>, <<p2, [r2 EXCEPT !.identity = <<"t">>]>>,
       <<p2, [r2 EXCEPT !.args = <<"t", "t", "u", "u">>]>>,
       <<p, [r EXCEPT !.pure = FALSE]>>}

\* Every pair of constraints over small coefficients as groups, tiles and dependencies:
\* sets that are empty, unbounded, or bounded between two multiples.
Coefs == {-2, -1, 0, 1, 3}
Cons == [d : Coefs, c : {1}, g : {-2, 1}, k : {-3, 4}]
WithSymbols(syms, cons) ==
  [syms |-> syms, cons |-> {Ge(con.d, IF syms = 2 THEN con.c ELSE 0,
                               IF syms > 0 THEN con.g ELSE 0, con.k) : con \in cons}]
Stretched ==
  {<<Produce(WithSymbols(0, {a, b}), WithSymbols(1, {a, b}), 0), Other("arith"),
     Reduce(1, WithSymbols(1, {a, b}), {WithSymbols(2, {a, b})})>> : a, b \in Cons}

SmallPrograms == Pairs \cup Doubles \cup Malformed \cup Stretched

\* Beyond every point of the sets above, in both directions.
SixteenEachWay == -16 .. 16
TwoEachWay == -2 .. 2
=============================================================================
