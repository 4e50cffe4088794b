------------------------- MODULE IndirectAccessTile -------------------------
(***************************************************************************)
(* ktdp.construct_indirect_access_tile: its builder, verifier, printer and *)
(* parser (KTDPOps.cpp).  Views, integer sets and orders are as in         *)
(* AccessTile.  Every dimension of the base has a subscript: a direct one, *)
(* or one through an indirect memref.  An operation keeps the subscripts   *)
(* as maps over one list of operands, the captured variables followed by   *)
(* the intermediate variables (its region's arguments); a text writes each *)
(* over the ids it uses.                                                   *)
(***************************************************************************)
EXTENDS SSAText, FiniteSets, FiniteSetsExt

CONSTANTS Views, RankOf,
          Unranked,             \* the rank of a view whose type has none
          ArgumentNames         \* what the printer calls the region's arguments

\* What build is called with, what an operation and what a text holds; the printer has a
\* name for each argument of a region.
Arguments ==
  {args \in [base : Views, kinds : Seq(BOOLEAN), maps : Seq(AffineMap), memrefs : Seq(Views),
             captured : Seq(Values), symbols : Seq(Values), set : IntegerSet, order : Order,
             rank : Nat] : args.set.dims <= Len(ArgumentNames)}
Operation ==
  {op \in [kind : {"indirect"}, args : Nat, base : Views, kinds : Seq(BOOLEAN),
           maps : Seq(AffineMap), memrefs : Seq(Views), captured : Seq(Values),
           symbols : Seq(Values), set : AtMostOne(IntegerSet), order : AtMostOne(Order),
           rank : Nat] : op.args <= Len(ArgumentNames)}
Text ==
  {text \in [kind : {"indirect"}, vars : Seq(Token), base : Views,
             subs : Seq([memref : AtMostOne(Views), terms : AffineTerms]),
             symbols : Seq(Token), set : AtMostOne(IntegerSet), order : AtMostOne(Order),
             types : Seq(Range(RankOf)), rank : Nat] : Len(text.vars) <= Len(ArgumentNames)}

\* The asserts of build, and what it makes: the region has an argument per dimension.
MayBuild(args) ==
  /\ args.set.dims = args.order.ins
  /\ args.order.ins = args.order.outs
  /\ args.set.syms = Len(args.symbols)

Built(args) ==
  [kind |-> "indirect", args |-> args.set.dims, base |-> args.base, kinds |-> args.kinds,
   maps |-> args.maps, memrefs |-> args.memrefs, captured |-> args.captured,
   symbols |-> args.symbols, set |-> <<args.set>>, order |-> <<args.order>>,
   rank |-> args.rank]

Indirects(kinds) == {i \in DOMAIN kinds : kinds[i]}
\* The indirect memref of subscript i is the one at its place among the indirect ones.
MemrefIndex(op, i) == Cardinality({j \in Indirects(op.kinds) : j <= i})
ResultRank(view) == IF RankOf[view] = Unranked THEN 0 ELSE RankOf[view]

\* Mutant: memrefs that no subscript uses are let through.
MemrefsSuffice(op) == Cardinality(Indirects(op.kinds)) <= Len(op.memrefs)

MemrefsMatch(op) == Cardinality(Indirects(op.kinds)) = Len(op.memrefs)

\* Mutant: a map may have more dimensions than there are variables.
DomainCovers(op, map) == map.dims >= Len(op.captured) + op.args

DomainUnified(op, map) == map.dims = Len(op.captured) + op.args

\* verify, after the attributes have been found present.
Verified(op) ==
  /\ Len(op.set) = 1 /\ Len(op.order) = 1
  /\ op.set[1].dims = op.order[1].ins /\ op.order[1].ins = op.order[1].outs
  /\ op.args = op.set[1].dims
  /\ op.set[1].syms = Len(op.symbols)
  /\ Len(op.kinds) = Len(op.maps)
  /\ Len(op.kinds) = RankOf[op.base]
  /\ MemrefsMatch(op)
  /\ \A i \in DOMAIN op.maps :
       /\ DomainUnified(op, op.maps[i])
       /\ op.kinds[i] => MemrefIndex(op, i) \in DOMAIN op.memrefs
       /\ Len(op.maps[i].results) =
            IF op.kinds[i] THEN ResultRank(op.memrefs[MemrefIndex(op, i)]) ELSE 1
  /\ op.rank = op.set[1].dims

AllVariables(op) ==
  [k \in DOMAIN op.captured |-> NameOf[op.captured[k]]] \o SubSeq(ArgumentNames, 1, op.args)

\* Print indexes the maps, the memrefs and the variables without a check of its own.
PrintInBounds(op) ==
  \A i \in DOMAIN op.kinds :
    /\ i \in DOMAIN op.maps
    /\ NumInputs(op.maps[i]) <= Len(AllVariables(op))
    /\ op.kinds[i] => MemrefIndex(op, i) \in DOMAIN op.memrefs

\* Mutant: symbols(...) is only printed with captured variables.
PrintedSymbolsIfCaptured(op) ==
  IF op.captured = <<>> THEN <<>> ELSE [k \in DOMAIN op.symbols |-> NameOf[op.symbols[k]]]

PrintedSymbols(op) == [k \in DOMAIN op.symbols |-> NameOf[op.symbols[k]]]

Printed(op) ==
  [kind |-> "indirect", vars |-> SubSeq(ArgumentNames, 1, op.args), base |-> op.base,
   subs |-> [i \in DOMAIN op.kinds |->
     [memref |-> IF op.kinds[i] THEN <<op.memrefs[MemrefIndex(op, i)]>> ELSE <<>>,
      terms |-> PrintedMap(op.maps[i], AllVariables(op))]],
   symbols |-> PrintedSymbols(op), set |-> op.set, order |-> op.order,
   types |-> <<RankOf[op.base]>>
     \o [m \in 1 .. Cardinality(Indirects(op.kinds)) |-> RankOf[op.memrefs[m]]],
   rank |-> op.rank]

\* The memrefs of the subscripts that have one, in order.
Memrefs(text) ==
  LET indirect == {i \in DOMAIN text.subs : text.subs[i].memref # <<>>}
  IN [n \in 1 .. Cardinality(indirect) |-> text.subs[Nth(indirect, n)].memref[1]]

ReadSubscripts(text) == [i \in DOMAIN text.subs |-> ReadMap(text.subs[i].terms)]
Ids(toks) == [k \in DOMAIN toks |-> toks[k].id]

\* The names the subscripts use and the intermediate variables do not have, in order.
collectExclusiveCapturedVariables(intermediates, ids) ==
  LET all == FlattenSeq(ids)
  IN Picked(all, {k \in FirstUses(all) : all[k] \notin ToSet(intermediates)})

\* Mutants: every use is captured; the operands are taken from the last use on.
fillRepeated(operands, names) ==
  LET all == FlattenSeq(operands)
  IN Picked(all, {k \in DOMAIN all : all[k].id \in ToSet(names)})
fillBackwards(operands, names) ==
  LET all == Reverse(FlattenSeq(operands))
  IN Picked(all, {k \in FirstUses(Ids(all)) : all[k].id \in ToSet(names)})

\* The operand that first uses each of these names.
fillCapturedVariables(operands, names) ==
  LET all == FlattenSeq(operands)
  IN Picked(all, {k \in FirstUses(Ids(all)) : all[k].id \in ToSet(names)})

\* Mutant: positions are counted from 0.
PositionFromZero(unified, id) == Max({k \in DOMAIN unified : unified[k] = id}) - 1

\* The position of a name among the unified operands: the last one of that name.
Position(unified, id) == Max({k \in DOMAIN unified : unified[k] = id})

Canonicalizable(read, unified) ==
  read.map.syms = 0 /\ ToSet(Ids(read.operands)) \subseteq ToSet(unified)

\* The map read, composed with the choice of its operands among the unified ones.
Canonical(read, unified) ==
  [dims |-> Len(unified), syms |-> 0,
   results |-> [r \in DOMAIN read.map.results |->
     [k \in DOMAIN read.map.results[r] |->
       Position(unified, read.operands[read.map.results[r][k]].id)]]]

\* The subscripts read, the names captured and the operands captured.
Operands(read) == [i \in DOMAIN read |-> read[i].operands]
CapturedNames(text, read) ==
  collectExclusiveCapturedVariables(Ids(text.vars), [i \in DOMAIN read |-> Ids(read[i].operands)])

Parses(text) ==
  LET read == ReadSubscripts(text)
      captured == CapturedNames(text, read)
  IN
  /\ \A i \in DOMAIN text.subs : ReadableMap(text.subs[i].terms)
  /\ \A i \in DOMAIN read : Canonicalizable(read[i], captured \o Ids(text.vars))
  /\ Len(text.types) = Len(Memrefs(text)) + 1
  /\ text.types = [m \in DOMAIN text.types |-> RankOf[(<<text.base>> \o Memrefs(text))[m]]]
  /\ \A tok \in ToSet(fillCapturedVariables(Operands(read), captured)) : Resolvable(tok)
  /\ \A tok \in ToSet(text.symbols) : Resolvable(tok)
  /\ \A set \in ToSet(text.set) : set.syms = Len(text.symbols)

Parsed(text) ==
  LET read == ReadSubscripts(text)
      names == CapturedNames(text, read)
      captured == fillCapturedVariables(Operands(read), names)
  IN [kind |-> "indirect", args |-> Len(text.vars), base |-> text.base,
      kinds |-> [i \in DOMAIN text.subs |-> text.subs[i].memref # <<>>],
      maps |-> [i \in DOMAIN read |-> Canonical(read[i], names \o Ids(text.vars))],
      memrefs |-> Memrefs(text),
      captured |-> [k \in DOMAIN captured |-> Resolve(captured[k])],
      symbols |-> [k \in DOMAIN text.symbols |-> Resolve(text.symbols[k])],
      set |-> text.set, order |-> text.order, rank |-> text.rank]

\* What position p of a subscript map reads: a value from outside or an argument.
Variable(op, p) ==
  IF p <= Len(op.captured) THEN <<"value", op.captured[p]>>
  ELSE <<"argument", p - Len(op.captured)>>

\* What the operation means, whatever the positions in its maps and whatever captured
\* variables nothing uses.
Meaning(op) ==
  [args |-> op.args, base |-> op.base, kinds |-> op.kinds, memrefs |-> op.memrefs,
   reads |-> [i \in DOMAIN op.maps |-> [r \in DOMAIN op.maps[i].results |->
     [k \in DOMAIN op.maps[i].results[r] |-> Variable(op, op.maps[i].results[r][k])]]],
   symbols |-> op.symbols, set |-> op.set, order |-> op.order, rank |-> op.rank]
=============================================================================
