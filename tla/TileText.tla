------------------------------ MODULE TileText ------------------------------
(***************************************************************************)
(* An operation that constructs an access tile on its way through the      *)
(* tools: a pass builds it or a program text holds it; MLIR's verifier     *)
(* looks at every operation built or parsed, and prints those it accepts;  *)
(* the next tool parses what was printed (the tests run ktir-opt on the    *)
(* output of ktir-opt).                                                    *)
(***************************************************************************)
EXTENDS SSAText

CONSTANTS Views, RankOf, Unranked, ArgumentNames,
          AccessArguments, IndirectArguments,   \* what passes build operations from
          Programs                              \* what users write

\* The printer keeps the region's arguments apart from every other id.
ASSUME ArgumentNamesAssumption ==
  /\ ArgumentNames \in Seq(Token) /\ IsInjective(ArgumentNames)
  /\ \A n \in Range(ArgumentNames) : n.num = 0
  /\ \A n \in Range(ArgumentNames), v \in Values : NameOf[v].id # n.id

\* What a view's type says of its rank.
ASSUME ViewsAssumption == RankOf \in [Views -> Nat \cup {Unranked}]

Access == INSTANCE AccessTile
Indirect == INSTANCE IndirectAccessTile

Operations == Access!Operation \cup Indirect!Operation
Texts == Access!Text \cup Indirect!Text

ASSUME InputsAssumption ==
  /\ AccessArguments \subseteq Access!Arguments
  /\ IndirectArguments \subseteq Indirect!Arguments
  /\ Programs \subseteq Texts

VARIABLES
  stage,        \* "start", "aborted", "built", "rejected", "verified", "crashed", "text"
                \* or "error": how far the operation is
  op,           \* the operation, once there is one
  text,         \* <<>>, or the text it was last printed as or parsed from
  printed       \* <<>>, or the operation that text was printed from

vars == <<stage, op, text, printed>>

\* From when it is built on there is an operation; what is parsed or printed is a text.
TypeOK ==
  /\ stage \in {"start", "aborted", "text", "error"}
                \cup {"built", "rejected", "verified", "crashed"}
  /\ stage \in {"built", "rejected", "verified", "crashed"} => op \in Operations
  /\ text \in AtMostOne(Texts) /\ (stage = "text" => text # <<>>)
  /\ printed \in AtMostOne(Operations)

\* Dispatch on the name of the operation.
Verified(o) == IF o.kind = "access" THEN Access!Verified(o) ELSE Indirect!Verified(o)
Printed(o) == IF o.kind = "access" THEN Access!Printed(o) ELSE Indirect!Printed(o)
PrintInBounds(o) == o.kind = "indirect" => Indirect!PrintInBounds(o)
Parses(t) == IF t.kind = "access" THEN Access!Parses(t) ELSE Indirect!Parses(t)
Parsed(t) == IF t.kind = "access" THEN Access!Parsed(t) ELSE Indirect!Parsed(t)
Meaning(o) == IF o.kind = "access" THEN Access!Meaning(o) ELSE Indirect!Meaning(o)

Init == stage = "start" /\ op = <<>> /\ text = <<>> /\ printed = <<>>

\* A failing assert aborts, unless the tool was built without asserts.
BuildAccess ==
  /\ stage = "start"
  /\ \E args \in AccessArguments :
       \/ stage' = "built" /\ op' = Access!Built(args)
       \/ ~Access!MayBuild(args) /\ stage' = "aborted" /\ UNCHANGED op
  /\ UNCHANGED <<text, printed>>

BuildIndirect ==
  /\ stage = "start"
  /\ \E args \in IndirectArguments :
       \/ stage' = "built" /\ op' = Indirect!Built(args)
       \/ ~Indirect!MayBuild(args) /\ stage' = "aborted" /\ UNCHANGED op
  /\ UNCHANGED <<text, printed>>

Write ==
  /\ stage = "start"
  /\ stage' = "text"
  /\ \E t \in Programs : text' = <<t>>
  /\ UNCHANGED <<op, printed>>

Parse ==
  /\ stage = "text"
  /\ IF Parses(text[1])
     THEN stage' = "built" /\ op' = Parsed(text[1])
     ELSE stage' = "error" /\ UNCHANGED op
  /\ UNCHANGED <<text, printed>>

Verify ==
  /\ stage = "built"
  /\ stage' = IF Verified(op) THEN "verified" ELSE "rejected"
  /\ UNCHANGED <<op, text, printed>>

PrintOut ==
  /\ stage = "verified"
  /\ IF PrintInBounds(op)
     THEN stage' = "text" /\ text' = <<Printed(op)>> /\ printed' = <<op>>
     ELSE stage' = "crashed" /\ UNCHANGED <<text, printed>>
  /\ UNCHANGED op

Next == BuildAccess \/ BuildIndirect \/ Write \/ Parse \/ Verify \/ PrintOut

Spec == Init /\ [][Next]_vars

----------------------------------------------------------------------------
(* Properties *)

\* Between a parse and the next print, the operation and the text it came from.
JustParsed == stage \in {"built", "verified", "rejected"} /\ text # <<>>
IndirectParsed == JustParsed /\ op.kind = "indirect"

\* What verify accepted and print wrote is parsed and verified again: the round trip of
\* the tests (test/Dialect/KTDP, RUN lines) cannot fail on an operation that came so far.
PrintedTextReads == printed # <<>> => stage \notin {"error", "rejected"}

\* Printing and parsing change no meaning, although unused operands go, captured
\* variables are reordered and every subscript map gets a new domain.
RoundTrip == JustParsed /\ printed # <<>> => Meaning(op) = Meaning(printed[1])

\* An operation whose subscript maps have no symbols never crashes the printer: verify
\* leaves no way for print to index past the maps, the memrefs or the variables.
PrintStaysInBounds ==
  stage = "crashed" => \E i \in DOMAIN op.maps : op.maps[i].syms > 0

\* After all the renumbering each subscript of a parsed operation reads the values and
\* the intermediate variables that its text names at that place.
SubscriptsReadWhatTheyName ==
  IndirectParsed =>
    \A i \in DOMAIN op.maps : \A r \in DOMAIN op.maps[i].results :
      \A k \in DOMAIN op.maps[i].results[r] :
        LET p == op.maps[i].results[r][k]
            tok == text[1].subs[i].terms[r][k].tok
        IN IF p <= Len(op.captured) THEN NameOf[op.captured[p]] = tok
           ELSE text[1].vars[p - Len(op.captured)].id = tok.id

\* "ordered list of unique Values that are: present in mapOperands, not present in
\* intermediateVars": the captured variables of a parsed operation are these values.
CapturesEveryValue ==
  IndirectParsed =>
    LET named == {v \in Values : \E i \in DOMAIN text[1].subs :
                    \E r \in DOMAIN text[1].subs[i].terms :
                      \E k \in DOMAIN text[1].subs[i].terms[r] :
                        text[1].subs[i].terms[r][k].tok = NameOf[v]}
        inner == {text[1].vars[j].id : j \in DOMAIN text[1].vars}
    IN /\ {op.captured[k] : k \in DOMAIN op.captured} = {v \in named : NameOf[v].id \notin inner}
       /\ \A j, k \in DOMAIN op.captured : op.captured[j] = op.captured[k] => j = k

\* The parser and the verifier agree on what the parser derives: a parsed operation is
\* rejected for what its text says of ranks, sizes and attributes only, never for its
\* operand lists, domains or kinds.
ParserBuildsWhatVerifierExpects ==
  stage = "rejected" /\ text # <<>> =>
    \/ op.kind = "access" /\ op.rank # op.set.dims
    \/ op.kind = "indirect" /\ (op.set = <<>> \/ op.order = <<>>)
    \/ op.kind = "indirect" /\ op.set # <<>> /\ op.order # <<>> /\
         \/ op.set[1].dims # op.order[1].ins \/ op.order[1].ins # op.order[1].outs
         \/ op.args # op.set[1].dims
         \/ op.rank # op.set[1].dims
         \/ Len(op.kinds) # RankOf[op.base]
         \/ \E i \in DOMAIN op.kinds : Len(op.maps[i].results) #
              IF op.kinds[i] THEN Indirect!ResultRank(text[1].subs[i].memref[1]) ELSE 1
=============================================================================
