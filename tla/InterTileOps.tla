---------------------------- MODULE InterTileOps ----------------------------
(***************************************************************************)
(* The ops of a KTIR module as far as inter-tile communication needs them, *)
(* and the op verifiers of lib/Dialect/KTDP/KTDPOps.cpp that MLIR runs on  *)
(* each of them before any pass.                                           *)
(*                                                                         *)
(* A module is a sequence of ops in walk order.  A future is an SSA value: *)
(* a reduce names the position of the produce op that defines its operand, *)
(* which comes before it, or 0 when the operand is a block argument.       *)
(* `otherUses' counts the uses of a future by ops that are not a reduce: a *)
(* return, a call, a yield.  Tensor types are the members of TensorTypes;  *)
(* `dep' holds the optional producer_dependency_per_consumer: no element   *)
(* or one.                                                                 *)
(***************************************************************************)
EXTENDS InterTileHelpers, Sequences, FiniteSets

CONSTANTS TensorTypes,   \* ranked tensor types of partials
          Dialects       \* the dialects whose ops a module may hold

ASSUME TypesAssumption == TensorTypes # {} /\ "index" \notin TensorTypes

Types == TensorTypes \cup {"index"}

ProduceOp == [kind : {"produce"}, dialect : {"ktdp"},
              groups : IntegerSet, producers : IntegerSet,
              args : Seq(Types), partials : Seq(TensorTypes),
              yields : Seq(Types), otherUses : Nat]

ReduceOp == [kind : {"reduce"}, dialect : {"ktdp"}, future : Nat,
             consumers : IntegerSet, dep : SUBSET IntegerSet,
             partials : Seq(TensorTypes), identity : Seq(TensorTypes),
             results : Seq(TensorTypes), args : Seq(Types),
             yields : Seq(Types), pure : BOOLEAN]

OtherOp == [kind : {"other"}, dialect : Dialects]

Op == ProduceOp \cup ReduceOp \cup OtherOp

\* What the IR itself guarantees: operands are defined before they are used, a
\* reduce has the partial types of the future it consumes.
WellFormed(ops) ==
  \A j \in DOMAIN ops : ops[j].kind = "reduce" =>
    /\ ops[j].future \in 0 .. j - 1
    /\ Cardinality(ops[j].dep) <= 1
    /\ ops[j].future # 0 => /\ ops[ops[j].future].kind = "produce"
                            /\ ops[j].partials = ops[ops[j].future].partials

----------------------------------------------------------------------------
\* TileFutureType::verify: a future carries a partial; groups is a set (g).
TileFutureVerified(op) == op.partials # <<>> /\ op.groups.syms = 0

\* Mutant: the pairwise loop stops one group short.
DisjointButLast(op) ==
  LET G == groupValues(op.groups)
      Last == {g \in G : \A h \in G : h <= g}
  IN  BoundedGroups(op.groups) /\ (\A g \in G : HasUpperBound(op.producers))
        => \A a, b \in G \ Last : a # b =>
             tilesOf(op.producers, a) \cap tilesOf(op.producers, b) = {}

\* The disjointness part of InterTileProduceOp::verify.  One group whose tiles
\* cannot be enumerated breaks the collecting loop and the whole check is
\* skipped, as it is when the groups themselves are unbounded.
Disjoint(op) ==
  LET G == groupValues(op.groups)
  IN  BoundedGroups(op.groups) /\ (\A g \in G : HasUpperBound(op.producers))
        => \A a, b \in G : a # b =>
             tilesOf(op.producers, a) \cap tilesOf(op.producers, b) = {}

\* InterTileProduceOp::verify and ::verifyRegions.
ProduceVerified(op) ==
  /\ TileFutureVerified(op)
  /\ op.args = <<"index">>
  /\ op.producers.syms = 1
  /\ Disjoint(op)
  /\ op.yields = op.partials

\* The type traits of inter_tile_reduce, InterTileReduceOp::verify and
\* ::verifyRegions.  Nothing looks at the purity of the combiner.
ReduceVerified(op) ==
  /\ op.results = op.partials
  /\ op.identity = op.results
  /\ op.args = op.partials \o op.partials
  /\ op.consumers.syms = 1
  /\ op.yields = op.partials

Verified(op) == CASE op.kind = "produce" -> ProduceVerified(op)
                  [] op.kind = "reduce"  -> ReduceVerified(op)
                  [] op.kind = "other"   -> TRUE

\* The number of uses of the future that op i defines.
Uses(ops, i) ==
  ops[i].otherUses
    + Cardinality({j \in DOMAIN ops : ops[j].kind = "reduce" /\ ops[j].future = i})

----------------------------------------------------------------------------
\* Accessors of reduce op j: the tile sets of a group, its dependency set, the
\* groups of the future, and whether both tile sets can be enumerated.
P(ops, j, g) == tilesOf(ops[ops[j].future].producers, g)
C(ops, j, g) == tilesOf(ops[j].consumers, g)
DepSet(ops, j) == CHOOSE s \in ops[j].dep : TRUE
Groups(ops, j) == groupValues(ops[ops[j].future].groups)
Enumerable(ops, j) ==
  HasUpperBound(ops[j].consumers) /\ HasUpperBound(ops[ops[j].future].producers)

\* Reduce op j can be compared with its producer at compile time.
Static(ops, j) ==
  /\ ops[j].kind = "reduce"
  /\ ops[j].future # 0
  /\ BoundedGroups(ops[ops[j].future].groups)

----------------------------------------------------------------------------
\* What legality means, stated without the pass's loops: the reference the pass
\* is checked against.

\* Group g is an all-reduce or a reduce-to-one among the group's producers.
ModeLegal(ops, j, g) ==
  /\ C(ops, j, g) \subseteq P(ops, j, g)
  /\ C(ops, j, g) = P(ops, j, g) \/ Cardinality(C(ops, j, g)) = 1

Deps(ops, j, c, g) ==
  IF HasUpperBound(DepSet(ops, j)) THEN depTilesOf(DepSet(ops, j), c, g) ELSE {}

\* In group g consumers depend on producers only, and every producer is somebody's.
DepsLegal(ops, j, g) ==
  UNION {Deps(ops, j, c, g) : c \in C(ops, j, g)} = P(ops, j, g)

ReduceLegal(ops, j) ==
  Static(ops, j) =>
    /\ Enumerable(ops, j) => \A g \in Groups(ops, j) : ModeLegal(ops, j, g)
    /\ ops[j].dep # {} =>
         /\ DepSet(ops, j).syms = 2
         /\ Enumerable(ops, j) => \A g \in Groups(ops, j) : DepsLegal(ops, j, g)

ProduceLegal(ops, i) == ops[i].kind = "produce" => Uses(ops, i) = 1

OpLegal(ops, i) == ProduceLegal(ops, i) /\ ReduceLegal(ops, i)
=============================================================================
