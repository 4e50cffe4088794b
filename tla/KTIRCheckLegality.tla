------------------------- MODULE KTIRCheckLegality -------------------------
(***************************************************************************)
(* ktir-opt --ktir-check-legality on one module                            *)
(* (lib/Conversion/ConvertToKTIR/KTIRCheckLegality.cpp): the op verifiers, *)
(* then the pass, which is a dialect conversion without patterns and two   *)
(* walks.  The walk over the reduce ops has, per op, a loop over the groups*)
(* (subset check and mode gate) and a second one over the groups with a    *)
(* loop over the consumers inside it (dependency subset, coverage).  The   *)
(* first error of an op returns from that op's callback and the walk goes  *)
(* on with the next op; `failed' is signalled when the walks are over.     *)
(*                                                                         *)
(* A step is one iteration of the innermost loop.  Groups come in ascending*)
(* order (a vector); consumers come in hash order (a DenseSet), that is in *)
(* any order.                                                              *)
(***************************************************************************)
EXTENDS InterTileOps

CONSTANT Programs      \* the modules ktir-opt is run on

ASSUME ProgramsAssumption == \A ops \in Programs : ops \in Seq(Op) /\ WellFormed(ops)

\* populateKTIRLegalTarget: dialects are added as legal, nothing as illegal.
LegalDialects == {"ktdp", "arith", "func", "linalg", "math", "memref", "scf", "tensor"}
IllegalDialects == {}

VARIABLES
  ops,          \* the module
  phase,        \* where the driver is
  cursor,       \* position of the walk
  pending,      \* groups the current loop has not visited, of op `cursor'
  consumers,    \* consumer tiles the inner loop has not visited, in group First
  covered,      \* producers some visited consumer depends on
  unlegalized,  \* ops the conversion found in no legal dialect
  diags,        \* errors emitted
  failed        \* the pass's local flag

vars == <<ops, phase, cursor, pending, consumers, covered, unlegalized, diags, failed>>

Phases == {"verify", "invalid", "convert", "produces", "reduces",
           "modes", "deps", "consumers", "done"}

Errors == {"verifier", "not one use", "not subset", "reduce to subset",
           "dep symbols", "dep subset", "dep coverage"}

CurOp == ops[cursor]
\* Mutant: the groups are iterated in any order.
FirstAny(g) == g \in pending
First(g) == g \in pending /\ \A h \in pending : g <= h

TypeOK ==
  /\ ops \in Programs
  /\ phase \in Phases
  /\ cursor \in 1 .. Len(ops) + 1
  /\ pending \in SUBSET Int
  /\ consumers \in SUBSET Int
  /\ covered \in SUBSET Int
  /\ unlegalized \in SUBSET DOMAIN ops
  /\ diags \in SUBSET [op : DOMAIN ops, error : Errors, at : SUBSET Int]
  /\ failed \in BOOLEAN

Init ==
  /\ ops \in Programs
  /\ phase = "verify" /\ cursor = 1
  /\ pending = {} /\ consumers = {} /\ covered = {}
  /\ unlegalized = {} /\ diags = {} /\ failed = FALSE

\* Mutant: positions are counted from 0.
DiagnosticFromZero(error, at) == [op |-> cursor - 1, error |-> error, at |-> at]

Diagnostic(error, at) == [op |-> cursor, error |-> error, at |-> at]

----------------------------------------------------------------------------
\* The verifiers run op by op; the first that fails ends the run.
VerifyOp ==
  /\ phase = "verify" /\ cursor <= Len(ops)
  /\ \/ /\ Verified(CurOp)
        /\ cursor' = cursor + 1
        /\ UNCHANGED <<phase, diags>>
     \/ /\ ~Verified(CurOp)
        /\ phase' = "invalid"
        /\ diags' = {Diagnostic("verifier", {})}
        /\ UNCHANGED cursor
  /\ UNCHANGED <<ops, pending, consumers, covered, unlegalized, failed>>

VerifierDone ==
  /\ phase = "verify" /\ cursor > Len(ops)
  /\ phase' = "convert"
  /\ UNCHANGED <<ops, cursor, pending, consumers, covered, unlegalized, diags, failed>>

\* applyPartialConversion with no patterns: it fails on an op the target marks
\* illegal and only records, in config.unlegalizedOps, an op it knows nothing of.
Convert ==
  /\ phase = "convert"
  /\ unlegalized' = {i \in DOMAIN ops : ops[i].dialect \notin LegalDialects}
  /\ failed' = (failed \/ \E i \in DOMAIN ops : ops[i].dialect \in IllegalDialects)
  /\ phase' = "produces" /\ cursor' = 1
  /\ UNCHANGED <<ops, pending, consumers, covered, diags>>

----------------------------------------------------------------------------
\* Mutant: the error is emitted and the pass still succeeds.
CheckUseSilent ==
  /\ phase = "produces" /\ cursor <= Len(ops)
  /\ diags' = IF CurOp.kind = "produce" /\ Uses(ops, cursor) # 1
                THEN diags \cup {Diagnostic("not one use", {})} ELSE diags
  /\ cursor' = cursor + 1
  /\ UNCHANGED <<ops, phase, pending, consumers, covered, unlegalized, failed>>

\* The first walk: every future has exactly one use.
CheckUse ==
  /\ phase = "produces" /\ cursor <= Len(ops)
  /\ LET bad == CurOp.kind = "produce" /\ Uses(ops, cursor) # 1
     IN  \/ /\ bad
            /\ diags' = diags \cup {Diagnostic("not one use", {})}
            /\ failed' = TRUE
         \/ ~bad /\ UNCHANGED <<diags, failed>>
  /\ cursor' = cursor + 1
  /\ UNCHANGED <<ops, phase, pending, consumers, covered, unlegalized>>

ProducesDone ==
  /\ phase = "produces" /\ cursor > Len(ops)
  /\ phase' = "reduces" /\ cursor' = 1
  /\ UNCHANGED <<ops, pending, consumers, covered, unlegalized, diags, failed>>

----------------------------------------------------------------------------
\* Return from the callback on the current op, with or without an error.
Return ==
  /\ phase' = "reduces" /\ cursor' = cursor + 1
  /\ pending' = {} /\ consumers' = {} /\ covered' = {}
  /\ UNCHANGED <<ops, unlegalized>>

Succeed == Return /\ UNCHANGED <<diags, failed>>

Fail(error, at) ==
  /\ diags' = diags \cup {Diagnostic(error, at)}
  /\ failed' = TRUE
  /\ Return

\* The callback's early returns: another op, a dynamic future, unbounded groups.
Skip ==
  /\ phase = "reduces" /\ cursor <= Len(ops)
  /\ ~Static(ops, cursor)
  /\ Succeed

Enter ==
  /\ phase = "reduces" /\ cursor <= Len(ops)
  /\ Static(ops, cursor)
  /\ phase' = "modes"
  /\ pending' = Groups(ops, cursor)
  /\ UNCHANGED <<ops, cursor, consumers, covered, unlegalized, diags, failed>>

\* Go on to the next group of the loop.
NextGroup(g) ==
  /\ pending' = pending \ {g}
  /\ UNCHANGED <<ops, cursor, unlegalized, diags, failed>>

\* Mutant: a group whose tiles are not known is not stepped over.
CheckModeStuck(g) ==
  /\ phase = "modes" /\ First(g)
  /\ Enumerable(ops, cursor)
  /\ NextGroup(g) /\ UNCHANGED <<phase, consumers, covered>>

\* Mutant: the subset check reports and goes on to the next group.
CheckModeNoReturn(g) ==
  /\ phase = "modes" /\ First(g)
  /\ LET bad == Enumerable(ops, cursor) /\ ~(C(ops, cursor, g) \subseteq P(ops, cursor, g))
     IN  /\ diags' = diags \cup IF bad THEN {Diagnostic("not subset", {g})} ELSE {}
         /\ failed' = (failed \/ bad)
  /\ pending' = pending \ {g}
  /\ UNCHANGED <<ops, phase, cursor, consumers, covered, unlegalized>>

\* Mutant: the subset check is missing, only sizes are compared.
CheckModeBySize(g) ==
  /\ phase = "modes" /\ First(g)
  /\ LET bad == /\ Enumerable(ops, cursor)
                /\ Cardinality(C(ops, cursor, g)) \notin {1, Cardinality(P(ops, cursor, g))}
     IN  \/ bad /\ Fail("reduce to subset", {g})
         \/ ~bad /\ NextGroup(g) /\ UNCHANGED <<phase, consumers, covered>>

\* One group: the subset check, then the mode gate.
CheckMode(g) ==
  /\ phase = "modes" /\ First(g)
  /\ LET c == C(ops, cursor, g)
         p == P(ops, cursor, g)
     IN  \/ /\ ~Enumerable(ops, cursor)
            /\ NextGroup(g) /\ UNCHANGED <<phase, consumers, covered>>
         \/ /\ Enumerable(ops, cursor) /\ ~(c \subseteq p)
            /\ Fail("not subset", {g})
         \/ /\ Enumerable(ops, cursor) /\ c \subseteq p
            /\ c # p /\ Cardinality(c) # 1
            /\ Fail("reduce to subset", {g})
         \/ /\ Enumerable(ops, cursor) /\ c \subseteq p
            /\ c = p \/ Cardinality(c) = 1
            /\ NextGroup(g) /\ UNCHANGED <<phase, consumers, covered>>

\* Every group is through: go on to the dependencies when there are any.
ModesDone ==
  /\ phase = "modes" /\ pending = {}
  /\ \/ CurOp.dep = {} /\ Succeed
     \/ CurOp.dep # {} /\ DepSet(ops, cursor).syms # 2 /\ Fail("dep symbols", {})
     \/ /\ CurOp.dep # {} /\ DepSet(ops, cursor).syms = 2
        /\ phase' = "deps"
        /\ pending' = Groups(ops, cursor)
        /\ UNCHANGED <<ops, cursor, consumers, covered, unlegalized, diags, failed>>

----------------------------------------------------------------------------
\* The next group of the dependency loop, stepped over when its tiles are not known.
NextDepGroup(g) ==
  /\ phase = "deps" /\ First(g)
  /\ \/ /\ ~Enumerable(ops, cursor)
        /\ NextGroup(g) /\ UNCHANGED <<phase, consumers, covered>>
     \/ /\ Enumerable(ops, cursor)
        /\ phase' = "consumers"
        /\ consumers' = C(ops, cursor, g)
        /\ covered' = {}
        /\ UNCHANGED <<ops, cursor, pending, unlegalized, diags, failed>>

DepsDone ==
  /\ phase = "deps" /\ pending = {}
  /\ Succeed

\* One consumer of the group: all its dependencies must be producers.
CheckConsumer(g, c) ==
  /\ phase = "consumers" /\ First(g)
  /\ LET d == depTilesOf(DepSet(ops, cursor), c, g)
         Visit == /\ consumers' = consumers \ {c}
                  /\ UNCHANGED <<ops, phase, cursor, pending, unlegalized, diags, failed>>
     IN  \/ /\ ~HasUpperBound(DepSet(ops, cursor))
            /\ Visit /\ UNCHANGED covered
         \/ /\ HasUpperBound(DepSet(ops, cursor)) /\ ~(d \subseteq P(ops, cursor, g))
            /\ Fail("dep subset", {g})
         \/ /\ HasUpperBound(DepSet(ops, cursor)) /\ d \subseteq P(ops, cursor, g)
            /\ Visit /\ covered' = covered \cup d

\* Mutant: one covered producer is enough.
CheckCoverageOfOne(g) ==
  /\ phase = "consumers" /\ consumers = {} /\ First(g)
  /\ LET ok == P(ops, cursor, g) = {} \/ covered # {}
     IN  \/ ok /\ phase' = "deps" /\ covered' = {} /\ NextGroup(g) /\ UNCHANGED consumers
         \/ ~ok /\ Fail("dep coverage", {g})

\* After the consumers, every producer of the group must be covered.
CheckCoverage(g) ==
  /\ phase = "consumers" /\ consumers = {} /\ First(g)
  /\ \/ /\ P(ops, cursor, g) \subseteq covered
        /\ phase' = "deps" /\ covered' = {}
        /\ NextGroup(g) /\ UNCHANGED consumers
     \/ /\ ~(P(ops, cursor, g) \subseteq covered)
        /\ Fail("dep coverage", {g})

\* signalPassFailure when `failed'; the pass is over.
Finish ==
  /\ phase = "reduces" /\ cursor > Len(ops)
  /\ phase' = "done"
  /\ UNCHANGED <<ops, cursor, pending, consumers, covered, unlegalized, diags, failed>>

Next ==
  \/ VerifyOp \/ VerifierDone \/ Convert
  \/ CheckUse \/ ProducesDone
  \/ Skip \/ Enter \/ ModesDone \/ DepsDone
  \/ \E g \in pending : CheckMode(g) \/ NextDepGroup(g) \/ CheckCoverage(g)
  \/ \E g \in pending, c \in consumers : CheckConsumer(g, c)
  \/ Finish

Spec == Init /\ [][Next]_vars

\* The pass is a loop nobody interrupts.
FairSpec == Spec /\ WF_vars(Next)

----------------------------------------------------------------------------
\* An op is diagnosed exactly when it is illegal: no early return, deferral or
\* error on another op hides a bad op or condemns a good one (the walks of
\* KTIRCheckLegalityPass::runOnOperation).
DiagnosedExactly ==
  phase = "done" => {d.op : d \in diags} = {i \in DOMAIN ops : ~OpLegal(ops, i)}

\* The pass fails exactly when it has printed an error: it neither fails silently
\* nor succeeds after an error (`failed' and emitError in runOnOperation).
FailedIffDiagnosed ==
  phase # "invalid" => (failed <=> diags # {})

\* An op gets at most one error, whichever of its checks fail and in whatever
\* order the consumer set is iterated (the returns in the reduce callback).
OneErrorPerOp == \A d, e \in diags : d.op = e.op => d = e

\* An error about a group names the first group at fault, and a dependency error
\* is only given once every group is through the mode gate (the two group loops).
ErrorNamesFirstGroup ==
  \A d \in diags : \A g \in d.at :
    LET j == d.op
        Before == {h \in Groups(ops, j) : h < g}
        BadDeps == d.error \in {"dep subset", "dep coverage"}
    IN  /\ g \in Groups(ops, j)
        /\ ~BadDeps => /\ ~ModeLegal(ops, j, g)
                       /\ \A h \in Before : ModeLegal(ops, j, h)
        /\ BadDeps => /\ ~DepsLegal(ops, j, g)
                      /\ \A h \in Before : DepsLegal(ops, j, h)
                      /\ \A h \in Groups(ops, j) : ModeLegal(ops, j, h)

\* Verifier and pass together isolate the groups of an accepted module: a tile
\* consumes in one group only, it produces into that same group, and no consumer
\* depends on a producer of another group (InterTileProduceOp::verify, which
\* separates the groups, and the pass, which ties consumers to them).
AcceptedGroupsAreIsolated ==
  phase = "done" /\ ~failed =>
    \A j \in DOMAIN ops : Static(ops, j) /\ Enumerable(ops, j) =>
      \A g, h \in Groups(ops, j) : g # h =>
        \A t \in C(ops, j, g) :
          /\ t \notin C(ops, j, h) \cup P(ops, j, h)
          /\ ops[j].dep # {} => Deps(ops, j, t, g) \cap P(ops, j, h) = {}

\* The run ends, whatever the module holds (the loops over bounded enumerations).
Terminates == <>(phase \in {"invalid", "done"})

\* What ktir-opt reports, as one decision on an unchanging module.
Verdict ==
  CASE phase = "invalid" -> "invalid"
    [] phase = "done" /\ failed -> "fail"
    [] phase = "done" /\ ~failed -> "pass"
    [] OTHER -> "none"

Oracle == INSTANCE LegalityOracle WITH verdict <- Verdict

\* The run implements the one-step decision of LegalityOracle: the module is left
\* as it was, and the verdict is given once and is the legal one.
ImplementsOracle == Oracle!Spec

\* Passes.td promises that the pass verifies the "static op/dialect constraints
\* via ConversionTarget": a module with an op of another dialect does not pass.
UnknownDialectFails ==
  phase = "done" /\ (\E i \in DOMAIN ops : ops[i].dialect \notin LegalDialects) => failed

----------------------------------------------------------------------------
\* The inductive invariant behind the properties above, one conjunct per loop.

WalkPhases == {"reduces", "modes", "deps", "consumers", "done"}
Diagnosed == {d.op : d \in diags}

\* Nothing is known, emitted or lost before the walks.
InvBefore ==
  /\ phase = "verify" => \A i \in 1 .. cursor - 1 : Verified(ops[i])
  /\ phase = "invalid" => \E i \in DOMAIN ops : ~Verified(ops[i])
  /\ phase \notin {"verify", "invalid"} => \A i \in DOMAIN ops : Verified(ops[i])
  /\ phase \in {"verify", "convert"} => diags = {} /\ ~failed

\* The walks have diagnosed the illegal ops they have passed, and no other.
InvWalks ==
  /\ phase = "produces" =>
       Diagnosed = {i \in DOMAIN ops : i < cursor /\ ~ProduceLegal(ops, i)}
  /\ phase \in WalkPhases =>
       Diagnosed = {i \in DOMAIN ops : ~ProduceLegal(ops, i)}
                     \cup {i \in DOMAIN ops : i < cursor /\ ~ReduceLegal(ops, i)}
  /\ phase = "done" => cursor = Len(ops) + 1

\* Inside a callback the op is comparable and the groups behind are legal.
InvGroups ==
  /\ phase \in {"modes", "deps", "consumers"} =>
       /\ cursor \in DOMAIN ops
       /\ Static(ops, cursor)
       /\ pending \subseteq Groups(ops, cursor)
  /\ phase = "modes" =>
       \A g \in Groups(ops, cursor) \ pending :
         Enumerable(ops, cursor) => ModeLegal(ops, cursor, g)
  /\ phase \in {"deps", "consumers"} =>
       /\ ops[cursor].dep # {} /\ DepSet(ops, cursor).syms = 2
       /\ \A g \in Groups(ops, cursor) :
            Enumerable(ops, cursor) => ModeLegal(ops, cursor, g)
       /\ \A g \in Groups(ops, cursor) \ pending :
            Enumerable(ops, cursor) => DepsLegal(ops, cursor, g)

\* Inside the consumer loop `covered' is what the visited consumers depend on,
\* and all of it is produced.
InvConsumers ==
  phase = "consumers" =>
    /\ Enumerable(ops, cursor)
    /\ \A g \in pending : First(g) =>
         /\ consumers \subseteq C(ops, cursor, g)
         /\ covered = UNION {Deps(ops, cursor, c, g) : c \in C(ops, cursor, g) \ consumers}
         /\ covered \subseteq P(ops, cursor, g)

IInv ==
  /\ TypeOK
  /\ InvBefore /\ InvWalks /\ InvGroups /\ InvConsumers
  /\ FailedIffDiagnosed
=============================================================================
