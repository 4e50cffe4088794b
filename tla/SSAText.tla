------------------------------ MODULE SSAText ------------------------------
(***************************************************************************)
(* The part of MLIR's text that the custom assembly of the tile operations *)
(* rests on: SSA ids, and affine maps printed over their operands          *)
(* (printAffineMapOfSSAIds) and read back (parseAffineMapOfSSAIds).        *)
(* A map has `dims' dimensions, `syms' symbols and a sequence of results;  *)
(* a result is the sequence of the inputs it reads, in the order it names  *)
(* them, dimensions first: what else the expression does with them is the  *)
(* same on both sides.                                                     *)
(***************************************************************************)
EXTENDS Integers, Sequences, FiniteSets, SequencesExt, Functions

CONSTANTS Values,       \* SSA values defined above the operation, all of index type
          NameOf        \* how the printer writes each: %id, or %id#num for one of several

Token == [id : STRING, num : Nat]

ASSUME NamesAssumption == NameOf \in [Values -> Token] /\ IsInjective(NameOf)

\* The n-th position of a set of them, in ascending order.
Nth(sel, n) == CHOOSE i \in sel : Cardinality({j \in sel : j <= i}) = n

\* The elements of s at these positions, in order.
Picked(s, sel) == [n \in 1 .. Cardinality(sel) |-> s[Nth(sel, n)]]

\* The positions at which a key occurs for the first time.
FirstUses(keys) == {i \in DOMAIN keys : \A j \in 1 .. i - 1 : keys[j] # keys[i]}

\* An attribute that may be missing.
AtMostOne(S) == {s \in Seq(S) : Len(s) <= 1}

NumInputs(map) == map.dims + map.syms

AffineMap ==
  {map \in [dims : Nat, syms : Nat, results : Seq(Seq(Nat))] :
     \A i \in DOMAIN map.results : \A k \in DOMAIN map.results[i] :
       map.results[i][k] \in 1 .. NumInputs(map)}

\* What a text holds of an affine map: every input of every result, as it is written.
AffineTerms == Seq(Seq([tok : Token, sym : BOOLEAN]))

\* Of an integer set and of an order the operations look at these numbers only.
IntegerSet == [dims : Nat, syms : Nat]
Order == [ins : Nat, outs : Nat]

\* printAffineMapOfSSAIds: dimension d as its operand, symbol s as symbol(operand).
PrintedMap(map, operands) ==
  [i \in DOMAIN map.results |->
    [k \in DOMAIN map.results[i] |->
      [tok |-> operands[map.results[i][k]], sym |-> map.results[i][k] > map.dims]]]

\* The printer writes a number, #0 too, with each of several results.
Numbered(tok) == tok.num > 0 \/ \E v \in Values : NameOf[v].id = tok.id /\ NameOf[v].num > 0

\* parseAffineMapOfSSAIds looks an id up by its spelling without the number, and reads a
\* number only after an id that is new to the map: elsewhere it is a syntax error.
ReadableMap(terms) ==
  LET all == FlattenSeq(terms)
      first == FirstUses([k \in DOMAIN all |-> all[k].tok.id])
  IN \A k \in DOMAIN all \ first : ~Numbered(all[k].tok)

\* The map read, and its operands: the ids in order of first use, dimensions first.
ReadMap(terms) ==
  LET all == FlattenSeq(terms)
      first == FirstUses([k \in DOMAIN all |-> all[k].tok.id])
      dims == Picked(all, {k \in first : ~all[k].sym})
      syms == Picked(all, {k \in first : all[k].sym})
      ids == [k \in 1 .. Len(dims \o syms) |-> (dims \o syms)[k].tok]
  IN [map |-> [dims |-> Len(dims), syms |-> Len(syms),
               results |-> [i \in DOMAIN terms |->
                 [k \in DOMAIN terms[i] |->
                   CHOOSE j \in DOMAIN ids : ids[j].id = terms[i][k].tok.id]]],
      operands |-> ids]

\* OpAsmParser::resolveOperand, of an id defined above the operation.
Resolvable(tok) == tok \in Range(NameOf)
Resolve(tok) == CHOOSE v \in Values : NameOf[v] = tok
=============================================================================
