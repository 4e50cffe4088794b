----------------------------- MODULE AccessTile -----------------------------
(***************************************************************************)
(* ktdp.construct_access_tile: its builder, verifier, printer and parser   *)
(* (KTDPOps.cpp).  A view stands for a memref or tensor; its type is its   *)
(* rank.  An integer set has `dims' and `syms', an order `ins' and `outs'; *)
(* in a text both are sequences of at most one element, for an attribute   *)
(* may be missing.  An attribute of another kind under their name is not   *)
(* an input here.                                                          *)
(***************************************************************************)
EXTENDS SSAText

CONSTANTS Views, RankOf         \* the views of the program and their ranks

\* What build is called with, what an operation and what a text holds.
Arguments == [base : Views, map : AffineMap, indices : Seq(Values), symbols : Seq(Values),
              set : IntegerSet, order : Order, rank : Nat]
Operation == [kind : {"access"}, base : Views, map : AffineMap, indices : Seq(Values),
              symbols : Seq(Values), set : IntegerSet, order : Order, rank : Nat]
Text == [kind : {"access"}, base : Views, terms : AffineTerms, symbols : Seq(Token),
         set : AtMostOne(IntegerSet), order : AtMostOne(Order), type : Range(RankOf),
         rank : Nat]

\* The asserts of build.
MayBuild(args) ==
  /\ args.set.dims = NumInputs(args.map)
  /\ args.set.syms = Len(args.symbols)

Built(args) ==
  [kind |-> "access", base |-> args.base, map |-> args.map, indices |-> args.indices,
   symbols |-> args.symbols, set |-> args.set, order |-> args.order, rank |-> args.rank]

Verified(op) ==
  /\ op.set.dims = Len(op.map.results)
  /\ NumInputs(op.map) = Len(op.indices)
  /\ op.set.syms = Len(op.symbols)
  /\ op.order.ins = op.order.outs
  /\ op.order.outs = op.set.dims
  /\ op.rank = op.set.dims

Printed(op) ==
  [kind |-> "access", base |-> op.base,
   terms |-> PrintedMap(op.map, [k \in DOMAIN op.indices |-> NameOf[op.indices[k]]]),
   symbols |-> [k \in DOMAIN op.symbols |-> NameOf[op.symbols[k]]],
   set |-> <<op.set>>, order |-> <<op.order>>, type |-> RankOf[op.base], rank |-> op.rank]

\* What parse has to read: a failure among these is returned at the very end only, but
\* once the map cannot be read the attributes are not read either.
Readable(text) ==
  /\ ReadableMap(text.terms)
  /\ text.type = RankOf[text.base]
  /\ \A tok \in ToSet(ReadMap(text.terms).operands) \cup ToSet(text.symbols) : Resolvable(tok)

\* Mutant: the set is compared with the inputs of the map, as build does.
SetMatchesInputs(text) == text.set[1].dims = NumInputs(ReadMap(text.terms).map)

SetMatchesMap(text) == text.set[1].dims = Len(text.terms)

Parses(text) ==
  /\ Readable(text)
  /\ Len(text.set) = 1 /\ Len(text.order) = 1
  /\ SetMatchesMap(text)
  /\ text.set[1].syms = Len(text.symbols)
  /\ text.order[1].ins = text.order[1].outs
  /\ text.order[1].outs = text.set[1].dims

Parsed(text) ==
  LET read == ReadMap(text.terms)
  IN [kind |-> "access", base |-> text.base, map |-> read.map,
      indices |-> [k \in DOMAIN read.operands |-> Resolve(read.operands[k])],
      symbols |-> [k \in DOMAIN text.symbols |-> Resolve(text.symbols[k])],
      set |-> text.set[1], order |-> text.order[1], rank |-> text.rank]

\* What the operation means, whatever the positions in its map: the values that each
\* coordinate of its base reads, in order.
Coordinates(op) ==
  [i \in DOMAIN op.map.results |->
    [k \in DOMAIN op.map.results[i] |-> op.indices[op.map.results[i][k]]]]

Meaning(op) ==
  [base |-> op.base, reads |-> Coordinates(op), symbols |-> op.symbols,
   set |-> op.set, order |-> op.order, rank |-> op.rank]
=============================================================================
