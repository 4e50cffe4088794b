---------------------- MODULE KTIRCheckLegalityProofs ----------------------
(***************************************************************************)
(* Proofs about ktir-check-legality, for every set of modules the tool can *)
(* be run on.  About the walks the proofs use of the tile sets only that   *)
(* they are sets of integers; that the helpers enumerate them exactly is   *)
(* proved at the end, from what EnumerationLemmas says of their bounds.    *)
(***************************************************************************)
EXTENDS EnumeratedTiles, EnumerationLemmas, TLAPS

\* The enumerated sets are sets of integers (KTDPInterTileHelpers.cpp).
LEMMA TilesAreInts ==
  /\ \A s, g : tilesOf(s, g) \subseteq Int
  /\ \A s, c, g : depTilesOf(s, c, g) \subseteq Int
  /\ \A s : groupValues(s) \subseteq Int
BY DEF tilesOf, depTilesOf, groupValues

\* A position the walk stands on is the position of an op.
LEMMA Positions ==
  ASSUME TypeOK
  PROVE  /\ ops \in Seq(Op) /\ Len(ops) \in Nat /\ DOMAIN ops = 1 .. Len(ops)
         /\ cursor \in Nat /\ cursor >= 1
         /\ cursor <= Len(ops) => cursor \in DOMAIN ops
<1>1. ops \in Seq(Op)
  BY ProgramsAssumption DEF TypeOK
<1>2. Len(ops) \in Nat /\ DOMAIN ops = 1 .. Len(ops)
  BY <1>1
<1>3. QED
  BY <1>1, <1>2 DEF TypeOK

----------------------------------------------------------------------------
\* Type correctness.

\* A diagnostic about an op of the module keeps the log well typed.
LEMMA DiagnosticTyped ==
  ASSUME TypeOK, cursor \in DOMAIN ops, NEW error \in Errors, NEW at \in SUBSET Int
  PROVE  diags \cup {Diagnostic(error, at)}
           \in SUBSET [op : DOMAIN ops, error : Errors, at : SUBSET Int]
<1>1. Diagnostic(error, at) \in [op : DOMAIN ops, error : Errors, at : SUBSET Int]
  BY DEF Diagnostic
<1>2. diags \in SUBSET [op : DOMAIN ops, error : Errors, at : SUBSET Int]
  BY DEF TypeOK
<1>3. QED
  BY <1>1, <1>2

\* Returning from a callback leads to a well-typed state.
LEMMA ReturnTyped ==
  ASSUME TypeOK, cursor <= Len(ops), Return,
         diags' \in SUBSET [op : DOMAIN ops, error : Errors, at : SUBSET Int],
         failed' \in BOOLEAN
  PROVE  TypeOK'
<1>1. cursor + 1 \in 1 .. Len(ops) + 1
  BY Positions
<1>2. QED
  BY <1>1 DEF TypeOK, Return, Phases

LEMMA FailTyped ==
  ASSUME TypeOK, cursor \in DOMAIN ops, NEW error \in Errors, NEW at \in SUBSET Int,
         Fail(error, at)
  PROVE  TypeOK'
<1>1. cursor <= Len(ops)
  BY Positions
<1>2. QED
  BY <1>1, DiagnosticTyped, ReturnTyped DEF Fail

LEMMA SucceedTyped ==
  ASSUME TypeOK, cursor <= Len(ops), Succeed
  PROVE  TypeOK'
BY ReturnTyped DEF Succeed, TypeOK

\* Inside a callback the walk stands on an op.
InCallback == phase \in {"modes", "deps", "consumers"} => cursor \in DOMAIN ops

LEMMA TypeInit == Init => TypeOK /\ InCallback
<1> SUFFICES ASSUME Init PROVE TypeOK /\ InCallback
  OBVIOUS
<1>1. ops \in Seq(Op)
  BY ProgramsAssumption DEF Init
<1>2. cursor \in 1 .. Len(ops) + 1
  BY <1>1 DEF Init
<1>3. phase \in Phases /\ InCallback
  BY DEF Init, Phases, InCallback
<1>4. unlegalized \in SUBSET DOMAIN ops
  BY DEF Init
<1>5. diags \in SUBSET [op : DOMAIN ops, error : Errors, at : SUBSET Int]
  BY DEF Init
<1>6. QED
  BY <1>2, <1>3, <1>4, <1>5 DEF Init, TypeOK

LEMMA TypeStep == TypeOK /\ InCallback /\ [Next]_vars => TypeOK' /\ InCallback'
<1> SUFFICES ASSUME TypeOK, InCallback, [Next]_vars PROVE TypeOK' /\ InCallback'
  OBVIOUS
<1> USE Positions
<1>1. CASE VerifyOp
  <2>1. cursor \in DOMAIN ops
    BY <1>1 DEF VerifyOp
  <2>2. CASE Verified(CurOp) /\ cursor' = cursor + 1 /\ UNCHANGED <<phase, diags>>
    BY <1>1, <2>2 DEF VerifyOp, TypeOK, InCallback
  <2>3. CASE phase' = "invalid" /\ diags' = {Diagnostic("verifier", {})} /\ UNCHANGED cursor
    <3>1. Diagnostic("verifier", {}) \in [op : DOMAIN ops, error : Errors, at : SUBSET Int]
      BY <2>1 DEF Diagnostic, Errors
    <3>2. diags' \in SUBSET [op : DOMAIN ops, error : Errors, at : SUBSET Int]
      BY <2>3, <3>1
    <3>3. phase' \in Phases /\ InCallback'
      BY <2>3 DEF Phases, InCallback
    <3>4. QED
      BY <1>1, <2>3, <3>2, <3>3 DEF VerifyOp, TypeOK
  <2>4. QED
    BY <1>1, <2>2, <2>3 DEF VerifyOp
<1>2. CASE VerifierDone
  BY <1>2 DEF VerifierDone, TypeOK, InCallback, Phases
<1>3. CASE Convert
  BY <1>3 DEF Convert, TypeOK, InCallback, Phases
<1>4. CASE CheckUse
  <2>1. cursor \in DOMAIN ops /\ "not one use" \in Errors /\ {} \in SUBSET Int
    BY <1>4 DEF CheckUse, Errors
  <2>2. diags' \in SUBSET [op : DOMAIN ops, error : Errors, at : SUBSET Int]
    BY <1>4, <2>1, DiagnosticTyped DEF CheckUse, TypeOK
  <2>3. cursor <= Len(ops) /\ cursor' = cursor + 1
    BY <1>4 DEF CheckUse
  <2>4. cursor' \in 1 .. Len(ops) + 1
    BY <2>3
  <2>5. failed' = TRUE \/ failed' = failed
    BY <1>4 DEF CheckUse
  <2>6. phase = "produces" /\ UNCHANGED <<ops, phase, pending, consumers, covered, unlegalized>>
    BY <1>4 DEF CheckUse
  <2>7. QED
    BY <2>2, <2>4, <2>5, <2>6 DEF TypeOK, InCallback
<1>5. CASE ProducesDone
  BY <1>5 DEF ProducesDone, TypeOK, InCallback, Phases
<1>6. CASE Skip
  BY <1>6, SucceedTyped DEF Skip, Succeed, Return, InCallback
<1>7. CASE Enter
  BY <1>7, TilesAreInts DEF Enter, TypeOK, InCallback, Phases, Groups
<1>8. ASSUME NEW g \in pending, CheckMode(g) PROVE TypeOK' /\ InCallback'
  <2>1. cursor \in DOMAIN ops /\ cursor <= Len(ops) /\ {g} \in SUBSET Int
    <3>1. g \in Int
      BY DEF TypeOK
    <3>2. cursor \in DOMAIN ops
      <4>1. phase = "modes"
        BY <1>8 DEF CheckMode
      <4>2. QED
        BY <4>1 DEF InCallback
    <3>3. QED
      BY <3>1, <3>2
  <2>2. CASE \E error \in Errors : Fail(error, {g})
    BY <2>1, <2>2, FailTyped DEF Fail, Return, InCallback
  <2>3. CASE NextGroup(g) /\ UNCHANGED <<phase, consumers, covered>>
    BY <2>1, <2>3 DEF NextGroup, TypeOK, InCallback
  <2>4. QED
    BY <1>8, <2>2, <2>3 DEF CheckMode, Errors
<1>9. CASE ModesDone
  <2>1. cursor \in DOMAIN ops /\ cursor <= Len(ops) /\ {} \in SUBSET Int
    <3>1. cursor \in DOMAIN ops
      BY <1>9 DEF ModesDone, InCallback
    <3>2. QED
      BY <3>1
  <2>2. CASE Succeed
    BY <2>1, <2>2, SucceedTyped DEF Succeed, Return, InCallback
  <2>3. CASE Fail("dep symbols", {})
    BY <2>1, <2>3, FailTyped DEF Fail, Return, InCallback, Errors
  <2>4. CASE phase' = "deps" /\ pending' = Groups(ops, cursor)
               /\ UNCHANGED <<ops, cursor, consumers, covered, unlegalized, diags, failed>>
    BY <2>1, <2>4, TilesAreInts DEF TypeOK, InCallback, Phases, Groups
  <2>5. QED
    BY <1>9, <2>2, <2>3, <2>4 DEF ModesDone
<1>10. ASSUME NEW g \in pending, NextDepGroup(g) PROVE TypeOK' /\ InCallback'
  <2>1. C(ops, cursor, g) \subseteq Int
    BY TilesAreInts DEF C
  <2>2. QED
    BY <1>10, <2>1 DEF NextDepGroup, NextGroup, TypeOK, InCallback, Phases
<1>11. CASE DepsDone
  BY <1>11, SucceedTyped DEF DepsDone, Succeed, Return, InCallback
<1>12. ASSUME NEW g \in pending, NEW c \in consumers, CheckConsumer(g, c)
       PROVE  TypeOK' /\ InCallback'
  <2>1. cursor \in DOMAIN ops /\ {g} \in SUBSET Int
    BY <1>12 DEF CheckConsumer, InCallback, TypeOK
  <2>2. CASE Fail("dep subset", {g})
    BY <2>1, <2>2, FailTyped DEF Fail, Return, InCallback, Errors
  <2>3. CASE ~Fail("dep subset", {g})
    <3>1. depTilesOf(DepSet(ops, cursor), c, g) \subseteq Int
      BY TilesAreInts
    <3>2. covered' \in SUBSET Int /\ consumers' \in SUBSET Int
      BY <1>12, <2>3, <3>1 DEF CheckConsumer, TypeOK
    <3>3. QED
      BY <1>12, <2>3, <3>2 DEF CheckConsumer, TypeOK, InCallback
  <2>4. QED
    BY <2>2, <2>3
<1>13. ASSUME NEW g \in pending, CheckCoverage(g) PROVE TypeOK' /\ InCallback'
  <2>1. cursor \in DOMAIN ops /\ {g} \in SUBSET Int
    BY <1>13 DEF CheckCoverage, InCallback, TypeOK
  <2>2. CASE Fail("dep coverage", {g})
    BY <2>1, <2>2, FailTyped DEF Fail, Return, InCallback, Errors
  <2>3. CASE phase' = "deps" /\ covered' = {} /\ NextGroup(g) /\ UNCHANGED consumers
    BY <2>1, <2>3 DEF NextGroup, TypeOK, InCallback, Phases
  <2>4. QED
    BY <1>13, <2>2, <2>3 DEF CheckCoverage
<1>14. CASE Finish
  BY <1>14 DEF Finish, TypeOK, InCallback, Phases
<1>15. CASE UNCHANGED vars
  BY <1>15 DEF vars, TypeOK, InCallback
<1>16. QED
  BY <1>1, <1>2, <1>3, <1>4, <1>5, <1>6, <1>7, <1>8, <1>9, <1>10, <1>11, <1>12,
     <1>13, <1>14, <1>15 DEF Next

\* The state of a run stays well typed: the walk's position never leaves the
\* module and every diagnostic names an op (runOnOperation).
THEOREM TypeCorrect == Spec => []TypeOK
<1>1. QED
  BY TypeInit, TypeStep, PTL DEF Spec

----------------------------------------------------------------------------
\* The inductive invariant.

\* An op that fails a check of the reduce walk is illegal, one that returns from
\* it without an error is legal, and the log says so.
LEMMA FailedCallback ==
  ASSUME IInv, InCallback, phase \in {"modes", "deps", "consumers"},
         NEW error \in Errors, NEW at, Fail(error, at), ~ReduceLegal(ops, cursor),
         TypeOK'
  PROVE  IInv'
<1>1. phase' = "reduces" /\ cursor' = cursor + 1 /\ ops' = ops /\ failed' = TRUE
      /\ diags' = diags \cup {Diagnostic(error, at)}
  BY DEF Fail, Return
<1>2. cursor \in DOMAIN ops /\ cursor \in Nat /\ DOMAIN ops \subseteq Nat
  BY Positions DEF InCallback, IInv
<1>3. Diagnosed' = Diagnosed \cup {cursor}
  <2>1. Diagnostic(error, at).op = cursor
    BY DEF Diagnostic
  <2>2. ASSUME NEW D PROVE {d.op : d \in diags \cup {D}} = {d.op : d \in diags} \cup {D.op}
    OBVIOUS
  <2>3. QED
    BY <1>1, <2>1, <2>2 DEF Diagnosed
<1>4. Diagnosed = {i \in DOMAIN ops : ~ProduceLegal(ops, i)}
                    \cup {i \in DOMAIN ops : i < cursor /\ ~ReduceLegal(ops, i)}
  BY DEF IInv, InvWalks, WalkPhases
<1>5. {i \in DOMAIN ops : i < cursor + 1 /\ ~ReduceLegal(ops, i)}
        = {i \in DOMAIN ops : i < cursor /\ ~ReduceLegal(ops, i)} \cup {cursor}
  BY <1>2
<1>6. InvWalks'
  BY <1>1, <1>3, <1>4, <1>5 DEF InvWalks, WalkPhases
<1>7. \A i \in DOMAIN ops : Verified(ops[i])
  BY DEF IInv, InvBefore
<1>8. InvBefore' /\ InvGroups' /\ InvConsumers'
  BY <1>1, <1>7 DEF InvBefore, InvGroups, InvConsumers
<1>9. FailedIffDiagnosed'
  BY <1>1 DEF FailedIffDiagnosed
<1>10. QED
  BY <1>6, <1>8, <1>9 DEF IInv

LEMMA PassedCallback ==
  ASSUME IInv, phase \in WalkPhases, phase # "done", cursor <= Len(ops),
         Succeed, ReduceLegal(ops, cursor), TypeOK'
  PROVE  IInv'
<1>1. phase' = "reduces" /\ cursor' = cursor + 1 /\ UNCHANGED <<ops, diags, failed>>
  BY DEF Succeed, Return
<1>2. cursor \in DOMAIN ops /\ cursor \in Nat /\ DOMAIN ops \subseteq Nat
  BY Positions DEF IInv
<1>3. Diagnosed' = Diagnosed
  BY <1>1 DEF Diagnosed
<1>4. Diagnosed = {i \in DOMAIN ops : ~ProduceLegal(ops, i)}
                    \cup {i \in DOMAIN ops : i < cursor /\ ~ReduceLegal(ops, i)}
  BY DEF IInv, InvWalks, WalkPhases
<1>5. {i \in DOMAIN ops : i < cursor + 1 /\ ~ReduceLegal(ops, i)}
        = {i \in DOMAIN ops : i < cursor /\ ~ReduceLegal(ops, i)}
  BY <1>2
<1>6. InvWalks'
  BY <1>1, <1>3, <1>4, <1>5 DEF InvWalks, WalkPhases
<1>7. \A i \in DOMAIN ops : Verified(ops[i])
  BY DEF IInv, InvBefore, WalkPhases
<1>8. InvBefore' /\ InvGroups' /\ InvConsumers'
  BY <1>1, <1>7 DEF InvBefore, InvGroups, InvConsumers
<1>9. FailedIffDiagnosed'
  BY <1>1 DEF FailedIffDiagnosed, IInv, WalkPhases
<1>10. QED
  BY <1>6, <1>8, <1>9 DEF IInv

\* A step inside the walk that leaves the log, the position and the module alone
\* keeps everything the invariant says of the log.
LEMMA LogUntouched ==
  ASSUME IInv, phase \in WalkPhases, phase' \in WalkPhases \ {"done"},
         UNCHANGED <<ops, cursor, diags, failed>>
  PROVE  InvBefore' /\ InvWalks' /\ FailedIffDiagnosed'
<1>1. Diagnosed' = Diagnosed
  BY DEF Diagnosed
<1>2. InvWalks'
  BY <1>1 DEF IInv, InvWalks, WalkPhases
<1>3. InvBefore'
  BY DEF IInv, InvBefore, WalkPhases
<1>4. FailedIffDiagnosed'
  BY DEF IInv, FailedIffDiagnosed, WalkPhases
<1>5. QED
  BY <1>2, <1>3, <1>4

LEMMA InvInit == Init => IInv
<1> SUFFICES ASSUME Init PROVE IInv
  OBVIOUS
<1>1. TypeOK
  BY TypeInit
<1>2. \A i \in 1 .. cursor - 1 : Verified(ops[i])
  BY DEF Init
<1>3. QED
  BY <1>1, <1>2
     DEF Init, IInv, InvBefore, InvWalks, InvGroups, InvConsumers,
         FailedIffDiagnosed, WalkPhases

\* Legality of a group, unfolded for the op under the walk.
LEMMA IllegalMode ==
  ASSUME Static(ops, cursor), Enumerable(ops, cursor),
         NEW g \in Groups(ops, cursor), ~ModeLegal(ops, cursor, g)
  PROVE  ~ReduceLegal(ops, cursor)
BY DEF ReduceLegal

LEMMA IllegalDeps ==
  ASSUME Static(ops, cursor), Enumerable(ops, cursor), ops[cursor].dep # {},
         NEW g \in Groups(ops, cursor), ~DepsLegal(ops, cursor, g)
  PROVE  ~ReduceLegal(ops, cursor)
BY DEF ReduceLegal

\* Before the reduce walk.
LEMMA InvVerify ==
  ASSUME IInv, TypeOK', VerifyOp \/ VerifierDone \/ Convert
  PROVE  IInv'
<1>1. CASE VerifyOp
  <2>1. /\ phase = "verify" /\ cursor <= Len(ops) /\ UNCHANGED <<ops, failed>>
        /\ \A i \in 1 .. cursor - 1 : Verified(ops[i])
        /\ cursor \in DOMAIN ops /\ cursor \in Nat
    BY <1>1, Positions DEF VerifyOp, IInv, InvBefore
  <2>2. CASE Verified(ops[cursor]) /\ cursor' = cursor + 1 /\ UNCHANGED <<phase, diags>>
    <3>1. \A i \in 1 .. cursor' - 1 : Verified(ops'[i])
      <4> TAKE i \in 1 .. cursor' - 1
      <4>1. i = cursor \/ i \in 1 .. cursor - 1
        BY <2>1, <2>2
      <4>2. QED
        BY <2>1, <2>2, <4>1
    <3>2. QED
      BY <2>1, <2>2, <3>1 DEF IInv, InvBefore, InvWalks, InvGroups, InvConsumers,
                              FailedIffDiagnosed, WalkPhases
  <2>3. CASE ~Verified(ops[cursor]) /\ phase' = "invalid"
    <3>1. \E i \in DOMAIN ops' : ~Verified(ops'[i])
      BY <2>1, <2>3
    <3>2. InvBefore' /\ InvWalks' /\ InvGroups' /\ InvConsumers' /\ FailedIffDiagnosed'
      BY <2>3, <3>1 DEF InvBefore, InvWalks, InvGroups, InvConsumers,
                        FailedIffDiagnosed, WalkPhases
    <3>3. QED
      BY <3>2 DEF IInv
  <2>4. QED
    BY <1>1, <2>2, <2>3 DEF VerifyOp, CurOp
<1>2. CASE VerifierDone
  <2>1. /\ phase = "verify" /\ phase' = "convert" /\ UNCHANGED <<ops, diags, failed>>
        /\ \A i \in DOMAIN ops : Verified(ops[i])
    BY <1>2, Positions DEF VerifierDone, IInv, InvBefore
  <2>2. QED
    BY <2>1 DEF IInv, InvBefore, InvWalks, InvGroups, InvConsumers,
                FailedIffDiagnosed, WalkPhases
<1>3. CASE Convert
  <2>1. phase = "convert" /\ phase' = "produces" /\ cursor' = 1 /\ UNCHANGED <<ops, diags>>
    BY <1>3 DEF Convert
  <2>2. failed' <=> failed
    <3>1. ~ \E i \in DOMAIN ops : ops[i].dialect \in IllegalDialects
      BY DEF IllegalDialects
    <3>2. failed' = (failed \/ \E i \in DOMAIN ops : ops[i].dialect \in IllegalDialects)
      BY <1>3, Zenon DEF Convert
    <3>3. QED
      BY <3>1, <3>2, Zenon
  <2>3. diags = {} /\ ~failed /\ \A i \in DOMAIN ops : Verified(ops[i])
    BY <2>1 DEF IInv, InvBefore
  <2>4. Diagnosed' = {i \in DOMAIN ops' : i < cursor' /\ ~ProduceLegal(ops, i)'}
    <3>1. \A i \in DOMAIN ops : ~(i < 1)
      BY Positions DEF IInv
    <3>2. Diagnosed' = {}
      BY <2>1, <2>3 DEF Diagnosed
    <3>3. QED
      BY <2>1, <3>1, <3>2
  <2>5. QED
    BY <2>1, <2>2, <2>3, <2>4 DEF IInv, InvBefore, InvWalks, InvGroups, InvConsumers,
                                  FailedIffDiagnosed, WalkPhases
<1>4. QED
  BY <1>1, <1>2, <1>3

\* The walk over the produce ops.
LEMMA InvProduces ==
  ASSUME IInv, TypeOK', CheckUse \/ ProducesDone
  PROVE  IInv'
<1>1. /\ phase = "produces" /\ ops' = ops /\ cursor \in Nat /\ DOMAIN ops = 1 .. Len(ops)
      /\ Len(ops) \in Nat
      /\ cursor <= Len(ops) => cursor \in DOMAIN ops
  BY Positions DEF IInv, CheckUse, ProducesDone
<1>2. Diagnosed = {i \in DOMAIN ops : i < cursor /\ ~ProduceLegal(ops, i)}
  BY <1>1 DEF IInv, InvWalks
<1>3. (\A i \in DOMAIN ops : Verified(ops[i])) /\ (failed <=> diags # {})
  BY <1>1 DEF IInv, InvBefore, FailedIffDiagnosed
<1>4. CASE CheckUse
  <2>1. phase' = "produces" /\ cursor' = cursor + 1 /\ cursor \in DOMAIN ops
    BY <1>1, <1>4 DEF CheckUse
  <2>2. Diagnosed' = {i \in DOMAIN ops : i < cursor + 1 /\ ~ProduceLegal(ops, i)}
        /\ (failed' <=> diags' # {})
    <3>1. CASE CurOp.kind = "produce" /\ Uses(ops, cursor) # 1
      <4>1. diags' = diags \cup {Diagnostic("not one use", {})} /\ failed' = TRUE
        BY <1>4, <3>1, Zenon DEF CheckUse
      <4>2. Diagnostic("not one use", {}).op = cursor
        BY DEF Diagnostic
      <4>3. Diagnosed' = Diagnosed \cup {cursor}
        <5>1. ASSUME NEW D PROVE {d.op : d \in diags \cup {D}} = {d.op : d \in diags} \cup {D.op}
          OBVIOUS
        <5>2. QED
          BY <4>1, <4>2, <5>1 DEF Diagnosed
      <4>4. ~ProduceLegal(ops, cursor)
        BY <3>1 DEF ProduceLegal, CurOp
      <4>5. {i \in DOMAIN ops : i < cursor + 1 /\ ~ProduceLegal(ops, i)}
              = {i \in DOMAIN ops : i < cursor /\ ~ProduceLegal(ops, i)} \cup {cursor}
        BY <1>1, <2>1, <4>4
      <4>6. QED
        BY <1>2, <4>1, <4>3, <4>5
    <3>2. CASE ~(CurOp.kind = "produce" /\ Uses(ops, cursor) # 1)
      <4>1. diags' = diags /\ failed' = failed
        BY <1>4, <3>2, Zenon DEF CheckUse
      <4>2. ProduceLegal(ops, cursor)
        BY <3>2 DEF ProduceLegal, CurOp
      <4>3. {i \in DOMAIN ops : i < cursor + 1 /\ ~ProduceLegal(ops, i)}
              = {i \in DOMAIN ops : i < cursor /\ ~ProduceLegal(ops, i)}
        BY <1>1, <4>2
      <4>4. Diagnosed' = Diagnosed
        BY <4>1 DEF Diagnosed
      <4>5. failed' <=> diags' # {}
        BY <1>3, <4>1, Zenon
      <4>6. QED
        BY <1>2, <4>3, <4>4, <4>5
    <3>3. QED
      BY <3>1, <3>2
  <2>3. InvWalks'
    BY <1>1, <2>1, <2>2 DEF InvWalks, WalkPhases
  <2>4. InvBefore' /\ InvGroups' /\ InvConsumers'
    BY <1>1, <1>3, <2>1 DEF InvBefore, InvGroups, InvConsumers
  <2>5. FailedIffDiagnosed'
    BY <2>2 DEF FailedIffDiagnosed
  <2>6. QED
    BY <2>3, <2>4, <2>5 DEF IInv
<1>5. CASE ProducesDone
  <2>1. /\ phase' = "reduces" /\ cursor' = 1 /\ UNCHANGED <<diags, failed>>
        /\ cursor > Len(ops)
    BY <1>5 DEF ProducesDone
  <2>2. Diagnosed' = {i \in DOMAIN ops : ~ProduceLegal(ops, i)}
                       \cup {i \in DOMAIN ops : i < 1 /\ ~ReduceLegal(ops, i)}
    <3>1. Diagnosed' = Diagnosed
      BY <2>1 DEF Diagnosed
    <3>2. \A i \in DOMAIN ops : i < cursor /\ ~(i < 1)
      BY <1>1, <2>1
    <3>3. QED
      BY <1>2, <3>1, <3>2
  <2>3. InvWalks'
    BY <1>1, <2>1, <2>2 DEF InvWalks, WalkPhases
  <2>4. InvBefore' /\ InvGroups' /\ InvConsumers'
    BY <1>1, <1>3, <2>1 DEF InvBefore, InvGroups, InvConsumers
  <2>5. FailedIffDiagnosed'
    BY <1>3, <2>1 DEF FailedIffDiagnosed
  <2>6. QED
    BY <2>3, <2>4, <2>5 DEF IInv
<1>6. QED
  BY <1>4, <1>5

\* The ends of the reduce walk's callbacks.
LEMMA InvSkipEnter ==
  ASSUME IInv, TypeOK', Skip \/ Enter \/ Finish
  PROVE  IInv'
<1>1. CASE Skip
  <2>1. phase = "reduces" /\ cursor <= Len(ops) /\ Succeed /\ ReduceLegal(ops, cursor)
    BY <1>1 DEF Skip, ReduceLegal
  <2>2. QED
    BY <2>1, PassedCallback DEF WalkPhases
<1>2. CASE Enter
  <2>1. /\ phase = "reduces" /\ phase' = "modes" /\ Static(ops, cursor)
        /\ cursor \in DOMAIN ops /\ pending' = Groups(ops, cursor)
        /\ UNCHANGED <<ops, cursor, diags, failed>>
    BY <1>2, Positions DEF Enter, IInv
  <2>2. InvBefore' /\ InvWalks' /\ FailedIffDiagnosed'
    BY <2>1, LogUntouched DEF WalkPhases
  <2>3. InvGroups' /\ InvConsumers'
    BY <2>1 DEF InvGroups, InvConsumers
  <2>4. QED
    BY <2>2, <2>3 DEF IInv
<1>3. CASE Finish
  <2>1. /\ phase = "reduces" /\ phase' = "done" /\ cursor > Len(ops)
        /\ UNCHANGED <<ops, cursor, diags, failed>>
    BY <1>3 DEF Finish
  <2>2. cursor = Len(ops) + 1
    BY <2>1, Positions DEF IInv, TypeOK
  <2>3. Diagnosed' = Diagnosed
    BY <2>1 DEF Diagnosed
  <2>4. InvWalks'
    BY <2>1, <2>2, <2>3 DEF IInv, InvWalks, WalkPhases
  <2>5. InvBefore' /\ InvGroups' /\ InvConsumers' /\ FailedIffDiagnosed'
    BY <2>1 DEF IInv, InvBefore, InvGroups, InvConsumers, FailedIffDiagnosed
  <2>6. QED
    BY <2>4, <2>5 DEF IInv
<1>4. QED
  BY <1>1, <1>2, <1>3

\* The mode loop: a group passed is legal, a group refused is not.
LEMMA InvCheckMode ==
  ASSUME IInv, TypeOK', NEW g \in pending, CheckMode(g)
  PROVE  IInv'
<1>1. /\ phase = "modes" /\ cursor \in DOMAIN ops /\ Static(ops, cursor)
      /\ g \in Groups(ops, cursor) /\ pending \subseteq Groups(ops, cursor)
      /\ \A h \in Groups(ops, cursor) \ pending :
           Enumerable(ops, cursor) => ModeLegal(ops, cursor, h)
  BY DEF CheckMode, IInv, InvGroups
<1>2. CASE \E error \in Errors : Fail(error, {g}) /\ Enumerable(ops, cursor)
                                  /\ ~ModeLegal(ops, cursor, g)
  BY <1>1, <1>2, IllegalMode, FailedCallback DEF InCallback
<1>3. CASE /\ NextGroup(g) /\ UNCHANGED <<phase, consumers, covered>>
           /\ Enumerable(ops, cursor) => ModeLegal(ops, cursor, g)
  <2>1. /\ phase' = "modes" /\ pending' = pending \ {g}
        /\ UNCHANGED <<ops, cursor, diags, failed>>
    BY <1>1, <1>3 DEF NextGroup
  <2>2. InvBefore' /\ InvWalks' /\ FailedIffDiagnosed'
    BY <1>1, <2>1, LogUntouched DEF WalkPhases
  <2>3. InvGroups' /\ InvConsumers'
    BY <1>1, <1>3, <2>1 DEF InvGroups, InvConsumers
  <2>4. QED
    BY <2>2, <2>3 DEF IInv
<1>4. QED
  BY <1>2, <1>3 DEF CheckMode, ModeLegal, Errors

LEMMA InvModesDone ==
  ASSUME IInv, TypeOK', ModesDone
  PROVE  IInv'
<1>1. /\ phase = "modes" /\ cursor \in DOMAIN ops /\ Static(ops, cursor)
      /\ cursor <= Len(ops)
      /\ \A h \in Groups(ops, cursor) :
           Enumerable(ops, cursor) => ModeLegal(ops, cursor, h)
  <2>1. phase = "modes" /\ pending = {} /\ InvGroups
    BY DEF ModesDone, IInv
  <2>2. cursor \in DOMAIN ops /\ Static(ops, cursor)
    BY <2>1 DEF InvGroups
  <2>3. \A h \in Groups(ops, cursor) : Enumerable(ops, cursor) => ModeLegal(ops, cursor, h)
    BY <2>1, Zenon DEF InvGroups
  <2>4. cursor <= Len(ops)
    BY <2>2, Positions DEF IInv
  <2>5. QED
    BY <2>1, <2>2, <2>3, <2>4
<1>2. CASE ops[cursor].dep = {} /\ Succeed
  <2>1. ReduceLegal(ops, cursor)
    BY <1>1, <1>2 DEF ReduceLegal
  <2>2. QED
    BY <1>1, <1>2, <2>1, PassedCallback DEF WalkPhases
<1>3. CASE ops[cursor].dep # {} /\ DepSet(ops, cursor).syms # 2 /\ Fail("dep symbols", {})
  <2>1. ~ReduceLegal(ops, cursor)
    BY <1>1, <1>3 DEF ReduceLegal
  <2>2. QED
    BY <1>1, <1>3, <2>1, FailedCallback DEF InCallback, Errors
<1>4. CASE /\ ops[cursor].dep # {} /\ DepSet(ops, cursor).syms = 2
           /\ phase' = "deps" /\ pending' = Groups(ops, cursor)
           /\ UNCHANGED <<ops, cursor, consumers, covered, unlegalized, diags, failed>>
  <2>1. InvBefore' /\ InvWalks' /\ FailedIffDiagnosed'
    BY <1>1, <1>4, LogUntouched DEF WalkPhases
  <2>2. InvGroups' /\ InvConsumers'
    BY <1>1, <1>4 DEF InvGroups, InvConsumers
  <2>3. QED
    BY <2>1, <2>2 DEF IInv
<1>5. QED
  BY <1>2, <1>3, <1>4 DEF ModesDone, CurOp

----------------------------------------------------------------------------
\* The dependency loop.

\* The loops take the groups in ascending order, so the first one is unique.
LEMMA FirstUnique ==
  ASSUME TypeOK, NEW g, NEW h, First(g), First(h)
  PROVE  g = h
<1>1. g \in Int /\ h \in Int
  BY DEF First, TypeOK
<1>2. g <= h /\ h <= g
  BY DEF First
<1>3. QED
  BY <1>1, <1>2

\* What is known in the dependency loop.
LEMMA InDeps ==
  ASSUME IInv, phase \in {"deps", "consumers"}
  PROVE  /\ cursor \in DOMAIN ops /\ cursor <= Len(ops) /\ Static(ops, cursor)
         /\ pending \subseteq Groups(ops, cursor)
         /\ ops[cursor].dep # {} /\ DepSet(ops, cursor).syms = 2
         /\ \A h \in Groups(ops, cursor) :
              Enumerable(ops, cursor) => ModeLegal(ops, cursor, h)
         /\ \A h \in Groups(ops, cursor) \ pending :
              Enumerable(ops, cursor) => DepsLegal(ops, cursor, h)
<1>1. InvGroups
  BY DEF IInv
<1>2. cursor \in DOMAIN ops /\ Static(ops, cursor)
      /\ pending \subseteq Groups(ops, cursor)
  BY <1>1 DEF InvGroups
<1>3. cursor <= Len(ops)
  BY <1>2, Positions DEF IInv
<1>4. QED
  BY <1>1, <1>2, <1>3, Zenon DEF InvGroups

\* Going on to the next group keeps the invariant when this one is legal.
LEMMA DepGroupPassed ==
  ASSUME IInv, TypeOK', phase \in {"deps", "consumers"}, phase' = "deps",
         NEW g \in pending, NextGroup(g),
         Enumerable(ops, cursor) => DepsLegal(ops, cursor, g)
  PROVE  IInv'
<1>1. pending' = pending \ {g} /\ UNCHANGED <<ops, cursor, diags, failed>>
  BY DEF NextGroup
<1>2. InvBefore' /\ InvWalks' /\ FailedIffDiagnosed'
  BY <1>1, LogUntouched DEF WalkPhases
<1>3. \A h \in Groups(ops, cursor) \ pending' :
        Enumerable(ops, cursor) => DepsLegal(ops, cursor, h)
  <2> TAKE h \in Groups(ops, cursor) \ pending'
  <2>1. h = g \/ h \in Groups(ops, cursor) \ pending
    BY <1>1
  <2>2. QED
    BY <2>1, InDeps, Zenon
<1>4. InvGroups' /\ InvConsumers'
  <2>1. /\ cursor \in DOMAIN ops /\ Static(ops, cursor)
        /\ pending' \subseteq Groups(ops, cursor)
        /\ ops[cursor].dep # {} /\ DepSet(ops, cursor).syms = 2
    BY <1>1, InDeps
  <2>2. \A h \in Groups(ops, cursor) :
          Enumerable(ops, cursor) => ModeLegal(ops, cursor, h)
    BY InDeps, Zenon
  <2>3. QED
    BY <1>1, <1>3, <2>1, <2>2 DEF InvGroups, InvConsumers
<1>5. QED
  BY <1>2, <1>4 DEF IInv

\* A step inside the consumer loop of a group disturbs only InvConsumers.
LEMMA InnerLoop ==
  ASSUME IInv, TypeOK', phase \in {"deps", "consumers"}, phase' = "consumers",
         UNCHANGED <<ops, cursor, pending, diags, failed>>
  PROVE  InvBefore' /\ InvWalks' /\ InvGroups' /\ FailedIffDiagnosed'
<1>1. InvBefore' /\ InvWalks' /\ FailedIffDiagnosed'
  BY LogUntouched DEF WalkPhases
<1>2. InvGroups'
  <2>1. InvGroups
    BY DEF IInv
  <2>2. QED
    BY <2>1 DEF InvGroups
<1>3. QED
  BY <1>1, <1>2

LEMMA InvNextDepGroup ==
  ASSUME IInv, TypeOK', NEW g \in pending, NextDepGroup(g)
  PROVE  IInv'
<1>1. phase = "deps" /\ First(g)
  BY DEF NextDepGroup
<1>2. CASE ~Enumerable(ops, cursor) /\ NextGroup(g) /\ UNCHANGED phase
  BY <1>1, <1>2, DepGroupPassed
<1>3. CASE /\ Enumerable(ops, cursor) /\ phase' = "consumers"
           /\ consumers' = C(ops, cursor, g) /\ covered' = {}
           /\ UNCHANGED <<ops, cursor, pending, diags, failed>>
  <2>1. InvBefore' /\ InvWalks' /\ InvGroups' /\ FailedIffDiagnosed'
    BY <1>1, <1>3, InnerLoop
  <2>2. InvConsumers'
    <3>1. ASSUME NEW h \in pending', First(h)' PROVE h = g
      <4>1. First(h)
        BY <1>3, <3>1 DEF First
      <4>2. QED
        BY <1>1, <4>1, FirstUnique DEF IInv
    <3>2. UNION {Deps(ops, cursor, c, g) : c \in C(ops, cursor, g) \ consumers'} = {}
      BY <1>3
    <3>3. QED
      BY <1>3, <3>1, <3>2 DEF InvConsumers
  <2>3. QED
    BY <2>1, <2>2 DEF IInv
<1>4. QED
  BY <1>2, <1>3 DEF NextDepGroup

LEMMA InvDepsDone ==
  ASSUME IInv, TypeOK', DepsDone
  PROVE  IInv'
<1>1. phase = "deps" /\ pending = {} /\ Succeed
  BY DEF DepsDone
<1>2. ReduceLegal(ops, cursor)
  <2>1. /\ \A h \in Groups(ops, cursor) : Enumerable(ops, cursor) => ModeLegal(ops, cursor, h)
        /\ \A h \in Groups(ops, cursor) : Enumerable(ops, cursor) => DepsLegal(ops, cursor, h)
    BY <1>1, InDeps, Zenon
  <2>2. DepSet(ops, cursor).syms = 2
    BY <1>1, InDeps
  <2>3. QED
    BY <2>1, <2>2, Zenon DEF ReduceLegal
<1>3. QED
  BY <1>1, <1>2, InDeps, PassedCallback DEF WalkPhases

\* What is known in the consumer loop.
LEMMA InConsumers ==
  ASSUME IInv, phase = "consumers", NEW g \in pending, First(g)
  PROVE  /\ Enumerable(ops, cursor)
         /\ g \in Groups(ops, cursor)
         /\ consumers \subseteq C(ops, cursor, g)
         /\ covered = UNION {Deps(ops, cursor, c, g) : c \in C(ops, cursor, g) \ consumers}
         /\ covered \subseteq P(ops, cursor, g)
BY InDeps DEF IInv, InvConsumers

LEMMA InvCheckConsumer ==
  ASSUME IInv, TypeOK', NEW g \in pending, NEW c \in consumers, CheckConsumer(g, c)
  PROVE  IInv'
<1>1. phase = "consumers" /\ First(g)
  BY DEF CheckConsumer
<1>2. c \in C(ops, cursor, g)
  BY <1>1, InConsumers
<1>3. CASE HasUpperBound(DepSet(ops, cursor))
           /\ ~(depTilesOf(DepSet(ops, cursor), c, g) \subseteq P(ops, cursor, g))
           /\ Fail("dep subset", {g})
  <2>1. ~(Deps(ops, cursor, c, g) \subseteq P(ops, cursor, g))
    BY <1>3 DEF Deps
  <2>2. ~DepsLegal(ops, cursor, g)
    BY <1>2, <2>1 DEF DepsLegal
  <2>3. ~ReduceLegal(ops, cursor)
    BY <1>1, <2>2, InDeps, InConsumers, IllegalDeps
  <2>4. QED
    BY <1>1, <1>3, <2>3, InDeps, FailedCallback DEF InCallback, Errors
<1>4. CASE /\ consumers' = consumers \ {c}
           /\ UNCHANGED <<ops, phase, cursor, pending, unlegalized, diags, failed>>
           /\ covered' = covered \cup Deps(ops, cursor, c, g)
           /\ Deps(ops, cursor, c, g) \subseteq P(ops, cursor, g)
  <2>1. InvBefore' /\ InvWalks' /\ InvGroups' /\ FailedIffDiagnosed'
    BY <1>1, <1>4, InnerLoop
  <2>2. InvConsumers'
    <3>1. ASSUME NEW h \in pending', First(h)' PROVE h = g
      <4>1. First(h)
        BY <1>4, <3>1 DEF First
      <4>2. QED
        BY <1>1, <4>1, FirstUnique DEF IInv
    <3>2. C(ops, cursor, g) \ consumers' = (C(ops, cursor, g) \ consumers) \cup {c}
      BY <1>2, <1>4
    <3>3. covered' = UNION {Deps(ops, cursor, d, g) : d \in C(ops, cursor, g) \ consumers'}
      <4>1. covered = UNION {Deps(ops, cursor, d, g) : d \in C(ops, cursor, g) \ consumers}
        BY <1>1, InConsumers
      <4>2. QED
        BY <1>4, <3>2, <4>1
    <3>4. /\ Enumerable(ops, cursor)
          /\ consumers' \subseteq C(ops, cursor, g)
          /\ covered' \subseteq P(ops, cursor, g)
      BY <1>1, <1>4, InConsumers
    <3>5. QED
      BY <1>4, <3>1, <3>3, <3>4 DEF InvConsumers
  <2>3. QED
    BY <2>1, <2>2 DEF IInv
<1>5. CASE /\ consumers' = consumers \ {c} /\ ~HasUpperBound(DepSet(ops, cursor))
           /\ UNCHANGED <<ops, phase, cursor, pending, unlegalized, diags, failed, covered>>
  <2>1. Deps(ops, cursor, c, g) = {}
    BY <1>5 DEF Deps
  <2>2. QED
    BY <1>4, <1>5, <2>1
<1>6. CASE /\ HasUpperBound(DepSet(ops, cursor))
           /\ depTilesOf(DepSet(ops, cursor), c, g) \subseteq P(ops, cursor, g)
           /\ consumers' = consumers \ {c}
           /\ covered' = covered \cup depTilesOf(DepSet(ops, cursor), c, g)
           /\ UNCHANGED <<ops, phase, cursor, pending, unlegalized, diags, failed>>
  <2>1. Deps(ops, cursor, c, g) = depTilesOf(DepSet(ops, cursor), c, g)
    BY <1>6 DEF Deps
  <2>2. QED
    BY <1>4, <1>6, <2>1
<1>7. QED
  BY <1>3, <1>5, <1>6 DEF CheckConsumer

LEMMA InvCheckCoverage ==
  ASSUME IInv, TypeOK', NEW g \in pending, CheckCoverage(g)
  PROVE  IInv'
<1>1. phase = "consumers" /\ consumers = {} /\ First(g)
  BY DEF CheckCoverage
<1>2. /\ Enumerable(ops, cursor) /\ g \in Groups(ops, cursor)
      /\ covered = UNION {Deps(ops, cursor, c, g) : c \in C(ops, cursor, g)}
      /\ covered \subseteq P(ops, cursor, g)
  <2>1. C(ops, cursor, g) \ consumers = C(ops, cursor, g)
    BY <1>1
  <2>2. QED
    BY <1>1, <2>1, InConsumers
<1>3. CASE P(ops, cursor, g) \subseteq covered /\ phase' = "deps" /\ NextGroup(g)
  <2>1. DepsLegal(ops, cursor, g)
    BY <1>2, <1>3 DEF DepsLegal
  <2>2. QED
    BY <1>1, <1>3, <2>1, DepGroupPassed
<1>4. CASE ~(P(ops, cursor, g) \subseteq covered) /\ Fail("dep coverage", {g})
  <2>1. ~DepsLegal(ops, cursor, g)
    BY <1>2, <1>4 DEF DepsLegal
  <2>2. ~ReduceLegal(ops, cursor)
    BY <1>1, <1>2, <2>1, InDeps, IllegalDeps
  <2>3. QED
    BY <1>1, <1>4, <2>2, InDeps, FailedCallback DEF InCallback, Errors
<1>5. QED
  BY <1>3, <1>4 DEF CheckCoverage

----------------------------------------------------------------------------
\* Every step keeps the invariant.
LEMMA InvStep == IInv /\ [Next]_vars => IInv'
<1> SUFFICES ASSUME IInv, [Next]_vars PROVE IInv'
  OBVIOUS
<1>1. TypeOK /\ InCallback
  BY DEF IInv, InvGroups, InCallback
<1>2. TypeOK'
  BY <1>1, TypeStep
<1>3. CASE VerifyOp \/ VerifierDone \/ Convert
  BY <1>2, <1>3, InvVerify
<1>4. CASE CheckUse \/ ProducesDone
  BY <1>2, <1>4, InvProduces
<1>5. CASE Skip \/ Enter \/ Finish
  BY <1>2, <1>5, InvSkipEnter
<1>6. CASE ModesDone \/ DepsDone
  BY <1>2, <1>6, InvModesDone, InvDepsDone
<1>7. ASSUME NEW g \in pending, CheckMode(g) \/ NextDepGroup(g) \/ CheckCoverage(g)
      PROVE  IInv'
  BY <1>2, <1>7, InvCheckMode, InvNextDepGroup, InvCheckCoverage
<1>8. ASSUME NEW g \in pending, NEW c \in consumers, CheckConsumer(g, c)
      PROVE  IInv'
  BY <1>2, <1>8, InvCheckConsumer
<1>9. CASE UNCHANGED vars
  BY <1>9 DEF vars, IInv, TypeOK, InvBefore, InvWalks, InvGroups, InvConsumers,
              FailedIffDiagnosed, Diagnosed, First
<1>10. QED
  BY <1>3, <1>4, <1>5, <1>6, <1>7, <1>8, <1>9 DEF Next

\* An op is diagnosed exactly when it is illegal, for every module the tool can be
\* run on: no early return hides a bad op or condemns a good one (runOnOperation).
THEOREM DiagnosesExactly == Spec => []DiagnosedExactly
<1>1. IInv => DiagnosedExactly
  <2> SUFFICES ASSUME IInv, phase = "done"
               PROVE  {d.op : d \in diags} = {i \in DOMAIN ops : ~OpLegal(ops, i)}
    BY DEF DiagnosedExactly
  <2>1. Diagnosed = {i \in DOMAIN ops : ~ProduceLegal(ops, i)}
                      \cup {i \in DOMAIN ops : i < cursor /\ ~ReduceLegal(ops, i)}
    BY DEF IInv, InvWalks, WalkPhases
  <2>2. \A i \in DOMAIN ops : i < cursor
    BY Positions DEF IInv, InvWalks
  <2>3. QED
    BY <2>1, <2>2 DEF Diagnosed, OpLegal
<1>2. QED
  BY <1>1, InvInit, InvStep, PTL DEF Spec

\* The pass fails exactly when it has printed an error (`failed' and emitError).
THEOREM FailsIffDiagnosed == Spec => []FailedIffDiagnosed
<1>1. IInv => FailedIffDiagnosed
  BY DEF IInv
<1>2. QED
  BY <1>1, InvInit, InvStep, PTL DEF Spec

----------------------------------------------------------------------------
\* One error per op.

\* Errors lie behind the walk; ahead of the second walk only futures have one.
InvLog ==
  /\ OneErrorPerOp
  /\ phase = "produces" => \A d \in diags : d.op < cursor
  /\ phase \in WalkPhases \ {"done"} =>
       \A d \in diags : d.op < cursor \/ ops[d.op].kind = "produce"

\* A new error about an op without one keeps the log free of duplicates.
LEMMA FreshError ==
  ASSUME OneErrorPerOp, NEW error, NEW at, cursor \notin Diagnosed,
         diags' = diags \cup {Diagnostic(error, at)}
  PROVE  OneErrorPerOp'
<1>1. Diagnostic(error, at).op = cursor
  BY DEF Diagnostic
<1>2. \A d \in diags : d.op # cursor
  BY DEF Diagnosed
<1>3. QED
  BY <1>1, <1>2 DEF OneErrorPerOp

\* An error in a callback is the first about its op, which is a reduce.
LEMMA FailFresh ==
  ASSUME IInv, InvLog, phase \in {"modes", "deps", "consumers"},
         NEW error, NEW at, Fail(error, at)
  PROVE  InvLog'
<1>1. /\ diags' = diags \cup {Diagnostic(error, at)} /\ phase' = "reduces"
      /\ cursor' = cursor + 1 /\ ops' = ops
  BY DEF Fail, Return
<1>2. ops[cursor].kind = "reduce" /\ cursor \in Nat /\ DOMAIN ops \subseteq Nat
  BY Positions DEF IInv, InvGroups, Static
<1>3. \A d \in diags : d.op \in Nat /\ (d.op < cursor \/ ops[d.op].kind = "produce")
  <2>1. \A d \in diags : d.op \in DOMAIN ops
    BY DEF IInv, TypeOK
  <2>2. QED
    BY <1>2, <2>1 DEF InvLog, WalkPhases
<1>4. cursor \notin Diagnosed
  BY <1>2, <1>3 DEF Diagnosed
<1>5. OneErrorPerOp'
  BY <1>1, <1>4, FreshError DEF InvLog
<1>6. \A d \in diags' : d.op < cursor' \/ ops'[d.op].kind = "produce"
  <2>1. Diagnostic(error, at).op = cursor
    BY DEF Diagnostic
  <2>2. QED
    BY <1>1, <1>2, <1>3, <2>1
<1>7. QED
  BY <1>1, <1>5, <1>6 DEF InvLog

\* A step that leaves the log alone and does not walk backwards keeps it so.
LEMMA LogKept ==
  ASSUME IInv, InvLog, UNCHANGED <<ops, diags>>,
         \/ phase' = phase /\ cursor' \in {cursor, cursor + 1}
         \/ phase \in WalkPhases \ {"done"} /\ phase' \in WalkPhases
              /\ cursor' \in {cursor, cursor + 1}
         \/ phase = "produces" /\ phase' = "reduces" /\ \A i \in DOMAIN ops :
              ~ProduceLegal(ops, i) => ops[i].kind = "produce"
         \/ diags = {}
  PROVE  InvLog'
<1>1. OneErrorPerOp'
  BY DEF OneErrorPerOp, InvLog
<1>2. cursor \in Nat /\ \A d \in diags : d.op \in Nat
  BY Positions DEF IInv, TypeOK
<1>3. CASE diags = {}
  BY <1>1, <1>3 DEF InvLog
<1>4. CASE phase' = phase /\ cursor' \in {cursor, cursor + 1}
  BY <1>1, <1>2, <1>4 DEF InvLog
<1>5. CASE phase \in WalkPhases \ {"done"} /\ phase' \in WalkPhases
             /\ cursor' \in {cursor, cursor + 1}
  BY <1>1, <1>2, <1>5 DEF InvLog, WalkPhases
<1>6. CASE phase = "produces" /\ phase' = "reduces" /\ \A i \in DOMAIN ops :
              ~ProduceLegal(ops, i) => ops[i].kind = "produce"
  <2>1. \A d \in diags : d.op \in DOMAIN ops /\ ~ProduceLegal(ops, d.op)
    BY <1>6 DEF IInv, InvWalks, Diagnosed
  <2>2. QED
    BY <1>1, <1>6, <2>1 DEF InvLog, WalkPhases
<1>7. QED
  BY <1>3, <1>4, <1>5, <1>6

LEMMA LogStep == IInv /\ InvLog /\ [Next]_vars => InvLog'
<1> SUFFICES ASSUME IInv, InvLog, [Next]_vars PROVE InvLog'
  OBVIOUS
<1>1. CASE VerifyOp
  <2>1. CASE UNCHANGED <<ops, diags>>
    BY <1>1, <2>1, LogKept DEF VerifyOp, IInv, InvBefore
  <2>2. CASE phase' = "invalid" /\ diags' = {Diagnostic("verifier", {})}
    BY <2>2 DEF InvLog, OneErrorPerOp, WalkPhases
  <2>3. QED
    BY <1>1, <2>1, <2>2 DEF VerifyOp
<1>2. CASE VerifierDone \/ Convert
  BY <1>2, LogKept DEF VerifierDone, Convert, IInv, InvBefore
<1>3. CASE CheckUse
  <2>1. /\ phase = "produces" /\ phase' = "produces" /\ cursor' = cursor + 1
        /\ UNCHANGED ops
    BY <1>3 DEF CheckUse
  <2>2. CASE UNCHANGED diags
    BY <2>1, <2>2, LogKept
  <2>3. CASE diags' = diags \cup {Diagnostic("not one use", {})}
    <3>1. cursor \in Nat /\ \A d \in diags : d.op \in Nat /\ d.op < cursor
      BY <2>1, Positions DEF InvLog, IInv, TypeOK
    <3>2. cursor \notin Diagnosed
      BY <3>1 DEF Diagnosed
    <3>3. OneErrorPerOp'
      BY <2>3, <3>2, FreshError DEF InvLog
    <3>4. Diagnostic("not one use", {}).op = cursor
      BY DEF Diagnostic
    <3>5. \A d \in diags' : d.op < cursor'
      <4> SUFFICES ASSUME NEW d \in diags' PROVE d.op < cursor + 1
        BY <2>1
      <4>1. CASE d \in diags
        BY <3>1, <4>1
      <4>2. CASE d = Diagnostic("not one use", {})
        <5>1. d.op = cursor
          BY <3>4, <4>2, Zenon
        <5>2. QED
          BY <3>1, <5>1
      <4>3. QED
        BY <2>3, <4>1, <4>2
    <3>6. QED
      BY <2>1, <3>3, <3>5 DEF InvLog, WalkPhases
  <2>4. QED
    BY <1>3, <2>2, <2>3 DEF CheckUse
<1>4. CASE ProducesDone
  <2>1. phase = "produces" /\ phase' = "reduces" /\ UNCHANGED <<ops, diags>>
    BY <1>4 DEF ProducesDone
  <2>2. \A i \in DOMAIN ops : ~ProduceLegal(ops, i) => ops[i].kind = "produce"
    BY DEF ProduceLegal
  <2>3. QED
    BY <2>1, <2>2, LogKept
<1>5. CASE Skip \/ Enter \/ DepsDone \/ Finish
  <2>1. /\ phase \in WalkPhases \ {"done"} /\ phase' \in WalkPhases
        /\ cursor' \in {cursor, cursor + 1} /\ UNCHANGED <<ops, diags>>
    BY <1>5 DEF Skip, Enter, DepsDone, Finish, Succeed, Return, WalkPhases
  <2>2. QED
    BY <2>1, LogKept
<1>6. CASE ModesDone
  <2>1. CASE Fail("dep symbols", {})
    BY <1>6, <2>1, FailFresh DEF ModesDone
  <2>2. CASE ~Fail("dep symbols", {})
    <3>1. /\ phase \in WalkPhases \ {"done"} /\ phase' \in WalkPhases
          /\ cursor' \in {cursor, cursor + 1} /\ UNCHANGED <<ops, diags>>
      BY <1>6, <2>2 DEF ModesDone, Succeed, Return, WalkPhases
    <3>2. QED
      BY <3>1, LogKept
  <2>3. QED
    BY <2>1, <2>2
<1>7. ASSUME NEW g \in pending,
             \/ CheckMode(g) \/ NextDepGroup(g) \/ CheckCoverage(g)
             \/ \E c \in consumers : CheckConsumer(g, c)
      PROVE  InvLog'
  <2>1. phase \in {"modes", "deps", "consumers"}
    BY <1>7 DEF CheckMode, NextDepGroup, CheckCoverage, CheckConsumer
  <2>2. CASE \E error \in Errors : Fail(error, {g})
    BY <2>1, <2>2, FailFresh
  <2>3. CASE UNCHANGED <<ops, diags, cursor>> /\ phase' \in {"modes", "deps", "consumers"}
    <3>1. phase \in WalkPhases \ {"done"} /\ phase' \in WalkPhases
      BY <2>1, <2>3 DEF WalkPhases
    <3>2. QED
      BY <2>3, <3>1, LogKept
  <2>4. QED
    <3>1. CASE CheckMode(g)
      BY <2>2, <2>3, <3>1 DEF CheckMode, NextGroup, Errors
    <3>2. CASE NextDepGroup(g)
      BY <2>2, <2>3, <3>2 DEF NextDepGroup, NextGroup
    <3>3. CASE CheckCoverage(g)
      BY <2>2, <2>3, <3>3 DEF CheckCoverage, NextGroup, Errors
    <3>4. CASE \E c \in consumers : CheckConsumer(g, c)
      BY <2>2, <2>3, <3>4 DEF CheckConsumer, Errors
    <3>5. QED
      BY <1>7, <3>1, <3>2, <3>3, <3>4
<1>8. CASE UNCHANGED vars
  BY <1>8, LogKept DEF vars
<1>9. QED
  BY <1>1, <1>2, <1>3, <1>4, <1>5, <1>6, <1>7, <1>8 DEF Next

\* An op gets at most one error, in whatever order its consumers are visited (the
\* returns in the reduce callback).
THEOREM OneErrorEach == Spec => []OneErrorPerOp
<1>1. Init => InvLog
  BY DEF Init, InvLog, OneErrorPerOp
<1>2. InvLog => OneErrorPerOp
  BY DEF InvLog
<1>3. QED
  BY <1>1, <1>2, InvInit, InvStep, LogStep, PTL DEF Spec

----------------------------------------------------------------------------
\* The groups of an accepted module.

\* The operand of a static reduce is the future of a produce op of the module.
LEMMA FutureOf ==
  ASSUME TypeOK, NEW j \in DOMAIN ops, Static(ops, j)
  PROVE  ops[j].future \in DOMAIN ops /\ ops[ops[j].future].kind = "produce"
<1>1. WellFormed(ops)
  BY ProgramsAssumption DEF TypeOK
<1>2. ops[j].kind = "reduce" /\ ops[j].future # 0
  BY DEF Static
<1>3. ops[j].future \in 0 .. j - 1 /\ ops[ops[j].future].kind = "produce"
  BY <1>1, <1>2 DEF WellFormed
<1>4. QED
  BY <1>2, <1>3, Positions

\* In an accepted module no consumer of a group is a tile of another group, nor
\* depends on one (InterTileProduceOp::verify and the pass together).
THEOREM GroupsAreIsolated == Spec => []AcceptedGroupsAreIsolated
<1>1. IInv => AcceptedGroupsAreIsolated
  <2> SUFFICES ASSUME IInv, phase = "done", ~failed,
                      NEW j \in DOMAIN ops, Static(ops, j), Enumerable(ops, j),
                      NEW g \in Groups(ops, j), NEW h \in Groups(ops, j), g # h,
                      NEW t \in C(ops, j, g)
               PROVE  /\ t \notin C(ops, j, h) \cup P(ops, j, h)
                      /\ ops[j].dep # {} => Deps(ops, j, t, g) \cap P(ops, j, h) = {}
    BY DEF AcceptedGroupsAreIsolated
  <2>1. diags = {} /\ Diagnosed = {}
    BY DEF IInv, FailedIffDiagnosed, Diagnosed
  <2>2. ReduceLegal(ops, j)
    <3>1. j < cursor
      BY Positions DEF IInv, InvWalks
    <3>2. QED
      BY <2>1, <3>1 DEF IInv, InvWalks, WalkPhases
  <2>3. ModeLegal(ops, j, g) /\ ModeLegal(ops, j, h)
    BY <2>2 DEF ReduceLegal
  <2>4. P(ops, j, g) \cap P(ops, j, h) = {}
    <3>1. ops[j].future \in DOMAIN ops /\ ops[ops[j].future].kind = "produce"
      BY FutureOf DEF IInv
    <3>2. Verified(ops[ops[j].future])
      BY <3>1 DEF IInv, InvBefore
    <3>3. Disjoint(ops[ops[j].future])
      BY <3>1, <3>2 DEF Verified, ProduceVerified
    <3>4. QED
      BY <3>3 DEF Disjoint, Static, Enumerable, Groups, P
  <2>5. t \in P(ops, j, g) /\ C(ops, j, h) \subseteq P(ops, j, h)
    BY <2>3 DEF ModeLegal
  <2>6. ops[j].dep # {} => Deps(ops, j, t, g) \subseteq P(ops, j, g)
    BY <2>2 DEF ReduceLegal, DepsLegal
  <2>7. QED
    BY <2>4, <2>5, <2>6
<1>2. QED
  BY <1>1, InvInit, InvStep, PTL DEF Spec

----------------------------------------------------------------------------
\* The run implements the one decision of LegalityOracle: its steps leave the module
\* alone, and the only ones that give a verdict are a failing verifier and the end
\* of the pass (signalPassFailure).
THEOREM ImplementsTheOracle == Spec => ImplementsOracle
<1>1. Init => Oracle!Init
  BY DEF Init, Oracle!Init, Verdict
<1>2. IInv /\ IInv' /\ [Next]_vars => [Oracle!Decide]_<<ops, Verdict>>
  <2> SUFFICES ASSUME IInv, IInv', [Next]_vars PROVE [Oracle!Decide]_<<ops, Verdict>>
    OBVIOUS
  <2> DEFINE Final == {"invalid", "done"}
  <2>1. ops' = ops
    BY DEF Next, vars, VerifyOp, VerifierDone, Convert, CheckUse, ProducesDone, Skip,
           Enter, ModesDone, DepsDone, CheckMode, NextDepGroup, CheckCoverage,
           CheckConsumer, Finish, Succeed, Fail, Return, NextGroup
  <2>2. CASE phase \notin Final /\ phase' = "invalid"
    <3>1. Verdict = "none" /\ Verdict' = "invalid"
      BY <2>2 DEF Verdict
    <3>2. \E i \in DOMAIN ops : ~Verified(ops[i])
      BY <2>1, <2>2 DEF IInv, InvBefore
    <3>3. QED
      BY <2>1, <3>1, <3>2 DEF Oracle!Decide
  <2>3. CASE phase \notin Final /\ phase' = "done"
    <3>1. Verdict = "none" /\ Verdict' = IF failed' THEN "fail" ELSE "pass"
      BY <2>3 DEF Verdict
    <3>2. \A i \in DOMAIN ops : Verified(ops[i])
      BY <2>1, <2>3 DEF IInv, InvBefore
    <3>3. failed' <=> \E i \in DOMAIN ops : ~OpLegal(ops, i)
      <4>1. Diagnosed' = {i \in DOMAIN ops : ~OpLegal(ops, i)}
        <5>1. Diagnosed' = {i \in DOMAIN ops : ~ProduceLegal(ops, i)}
                        \cup {i \in DOMAIN ops : i < cursor' /\ ~ReduceLegal(ops, i)}
          BY <2>1, <2>3 DEF IInv, InvWalks, WalkPhases
        <5>2. \A i \in DOMAIN ops : i < cursor'
          BY <2>1, <2>3, Positions DEF IInv, InvWalks
        <5>3. QED
          BY <5>1, <5>2 DEF OpLegal
      <4>2. failed' <=> diags' # {}
        BY <2>3 DEF IInv, FailedIffDiagnosed
      <4>3. diags' # {} <=> Diagnosed' # {}
        BY DEF Diagnosed
      <4>4. QED
        BY <4>1, <4>2, <4>3
    <3>4. QED
      BY <2>1, <3>1, <3>2, <3>3 DEF Oracle!Decide
  <2>4. CASE phase \notin Final /\ phase' \notin Final
    <3>1. Verdict = "none" /\ Verdict' = "none"
      BY <2>4 DEF Verdict
    <3>2. QED
      BY <2>1, <3>1
  <2>5. CASE phase \in Final
    <3>1. phase' = phase /\ failed' = failed
      BY <2>5 DEF Next, vars, VerifyOp, VerifierDone, Convert, CheckUse, ProducesDone,
             Skip, Enter, ModesDone, DepsDone, CheckMode, NextDepGroup, CheckCoverage,
             CheckConsumer, Finish
    <3>2. QED
      BY <2>1, <3>1 DEF Verdict
  <2>6. QED
    BY <2>2, <2>3, <2>4, <2>5
<1>3. QED
  BY <1>1, <1>2, InvInit, InvStep, PTL DEF Spec, Oracle!Spec, ImplementsOracle


----------------------------------------------------------------------------
\* The group an error names.

\* The groups before the first pending one are behind the loop.
LEMMA BehindFirst ==
  ASSUME TypeOK, NEW g \in pending, First(g), NEW h \in Int, h < g
  PROVE  h \notin pending
<1>1. g \in Int
  BY DEF TypeOK
<1>2. QED
  BY <1>1 DEF First

\* What ErrorNamesFirstGroup says of one error.
NamesFirst(d) ==
  \A g \in d.at :
    LET j == d.op
        Before == {h \in Groups(ops, j) : h < g}
        BadDeps == d.error \in {"dep subset", "dep coverage"}
    IN  /\ g \in Groups(ops, j)
        /\ ~BadDeps => /\ ~ModeLegal(ops, j, g)
                       /\ \A h \in Before : ModeLegal(ops, j, h)
        /\ BadDeps => /\ ~DepsLegal(ops, j, g)
                      /\ \A h \in Before : DepsLegal(ops, j, h)
                      /\ \A h \in Groups(ops, j) : ModeLegal(ops, j, h)

\* One more error that names its group well keeps the property.
LEMMA NamedError ==
  ASSUME ErrorNamesFirstGroup, UNCHANGED ops, NEW d, NamesFirst(d),
         diags' \subseteq diags \cup {d}
  PROVE  ErrorNamesFirstGroup'
<1>1. \A e \in diags : NamesFirst(e)
  BY DEF ErrorNamesFirstGroup, NamesFirst
<1>2. \A e \in diags' : NamesFirst(e)
  BY <1>1
<1>3. QED
  BY <1>2 DEF ErrorNamesFirstGroup, NamesFirst

\* An error that names no group says nothing about groups.
LEMMA NamesNoGroup ==
  ASSUME ErrorNamesFirstGroup, UNCHANGED ops, NEW error,
         diags' \subseteq diags \cup {Diagnostic(error, {})}
  PROVE  ErrorNamesFirstGroup'
<1>1. NamesFirst(Diagnostic(error, {}))
  BY DEF NamesFirst, Diagnostic
<1>2. QED
  BY <1>1, NamedError

\* In the mode loop the groups before the failing one are legal.
LEMMA ModeErrorNamed ==
  ASSUME IInv, NEW g \in pending, phase = "modes", First(g), Enumerable(ops, cursor),
         ~ModeLegal(ops, cursor, g), NEW error \in {"not subset", "reduce to subset"}
  PROVE  NamesFirst(Diagnostic(error, {g}))
<1>1. /\ pending \subseteq Groups(ops, cursor)
      /\ \A h \in Groups(ops, cursor) \ pending : ModeLegal(ops, cursor, h)
  BY DEF IInv, InvGroups
<1>2. \A h \in Groups(ops, cursor) : h < g => h \notin pending
  BY BehindFirst, TilesAreInts DEF IInv, Groups
<1>3. QED
  BY <1>1, <1>2 DEF NamesFirst, Diagnostic

\* In the dependency loop they are too, and all of them are through the mode gate.
LEMMA DepErrorNamed ==
  ASSUME IInv, NEW g \in pending, phase = "consumers", First(g),
         ~DepsLegal(ops, cursor, g), NEW error \in {"dep subset", "dep coverage"}
  PROVE  NamesFirst(Diagnostic(error, {g}))
<1>1. /\ Enumerable(ops, cursor) /\ g \in Groups(ops, cursor)
  BY InConsumers
<1>2. /\ \A h \in Groups(ops, cursor) : ModeLegal(ops, cursor, h)
      /\ \A h \in Groups(ops, cursor) \ pending : DepsLegal(ops, cursor, h)
  BY <1>1, InDeps, Zenon
<1>3. \A h \in Groups(ops, cursor) : h < g => h \notin pending
  BY BehindFirst, TilesAreInts DEF IInv, Groups
<1>4. QED
  BY <1>1, <1>2, <1>3 DEF NamesFirst, Diagnostic

LEMMA NameStep ==
  IInv /\ ErrorNamesFirstGroup /\ [Next]_vars => ErrorNamesFirstGroup'
<1> SUFFICES ASSUME IInv, ErrorNamesFirstGroup, [Next]_vars PROVE ErrorNamesFirstGroup'
  OBVIOUS
<1>1. CASE UNCHANGED <<ops, diags>>
  BY <1>1, NamesNoGroup
<1>2. CASE VerifyOp
  BY <1>2, NamesNoGroup DEF VerifyOp
<1>3. CASE VerifierDone \/ Convert \/ ProducesDone \/ Skip \/ Enter \/ DepsDone \/ Finish
  BY <1>1, <1>3 DEF VerifierDone, Convert, ProducesDone, Skip, Enter, DepsDone, Finish,
                    Succeed, Return
<1>4. CASE CheckUse
  BY <1>4, NamesNoGroup DEF CheckUse
<1>5. CASE ModesDone
  <2>1. CASE Fail("dep symbols", {})
    BY <2>1, NamesNoGroup DEF Fail, Return
  <2>2. CASE ~Fail("dep symbols", {})
    BY <1>1, <1>5, <2>2 DEF ModesDone, Succeed, Return
  <2>3. QED
    BY <2>1, <2>2
<1>6. ASSUME NEW g \in pending, CheckMode(g) PROVE ErrorNamesFirstGroup'
  <2>1. phase = "modes" /\ First(g)
    BY <1>6 DEF CheckMode
  <2>2. CASE NextGroup(g)
    BY <1>1, <2>2 DEF NextGroup
  <2>3. ASSUME NEW error \in {"not subset", "reduce to subset"}, Fail(error, {g}),
               Enumerable(ops, cursor), ~ModeLegal(ops, cursor, g)
        PROVE  ErrorNamesFirstGroup'
    <3>1. NamesFirst(Diagnostic(error, {g}))
      BY <2>1, <2>3, ModeErrorNamed
    <3>2. QED
      BY <2>3, <3>1, NamedError DEF Fail, Return
  <2>4. QED
    BY <1>6, <2>2, <2>3 DEF CheckMode, ModeLegal
<1>7. ASSUME NEW g \in pending, NextDepGroup(g) PROVE ErrorNamesFirstGroup'
  BY <1>1, <1>7 DEF NextDepGroup, NextGroup
<1>8. ASSUME NEW g \in pending, phase = "consumers", First(g), ~DepsLegal(ops, cursor, g),
             NEW error \in {"dep subset", "dep coverage"}, Fail(error, {g})
      PROVE  ErrorNamesFirstGroup'
  <2>1. NamesFirst(Diagnostic(error, {g}))
    BY <1>8, DepErrorNamed
  <2>2. QED
    BY <1>8, <2>1, NamedError DEF Fail, Return
<1>9. ASSUME NEW g \in pending, CheckCoverage(g) PROVE ErrorNamesFirstGroup'
  <2>1. phase = "consumers" /\ consumers = {} /\ First(g)
    BY <1>9 DEF CheckCoverage
  <2>2. CASE NextGroup(g)
    BY <1>1, <2>2 DEF NextGroup
  <2>3. CASE ~(P(ops, cursor, g) \subseteq covered) /\ Fail("dep coverage", {g})
    <3>1. C(ops, cursor, g) \ consumers = C(ops, cursor, g)
      BY <2>1
    <3>2. covered = UNION {Deps(ops, cursor, c, g) : c \in C(ops, cursor, g)}
      BY <2>1, <3>1, InConsumers
    <3>3. ~DepsLegal(ops, cursor, g)
      BY <2>3, <3>2 DEF DepsLegal
    <3>4. QED
      BY <1>8, <2>1, <2>3, <3>3
  <2>4. QED
    BY <1>9, <2>2, <2>3 DEF CheckCoverage
<1>10. ASSUME NEW g \in pending, NEW c \in consumers, CheckConsumer(g, c)
       PROVE  ErrorNamesFirstGroup'
  <2>1. phase = "consumers" /\ First(g)
    BY <1>10 DEF CheckConsumer
  <2>2. CASE UNCHANGED <<ops, diags>>
    BY <1>1, <2>2
  <2>3. CASE HasUpperBound(DepSet(ops, cursor))
             /\ ~(depTilesOf(DepSet(ops, cursor), c, g) \subseteq P(ops, cursor, g))
             /\ Fail("dep subset", {g})
    <3>1. ~(Deps(ops, cursor, c, g) \subseteq P(ops, cursor, g))
      BY <2>3 DEF Deps
    <3>2. ~DepsLegal(ops, cursor, g)
      BY <2>1, <3>1, InConsumers DEF DepsLegal
    <3>3. QED
      BY <1>8, <2>1, <2>3, <3>2
  <2>4. QED
    BY <1>10, <2>2, <2>3 DEF CheckConsumer
<1>11. CASE UNCHANGED vars
  BY <1>1, <1>11 DEF vars
<1>12. QED
  BY <1>2, <1>3, <1>4, <1>5, <1>6, <1>7, <1>9, <1>10, <1>11 DEF Next

\* An error names the first group at fault, and a dependency error is given only when
\* every group is through the mode gate (the two loops over the groups).
THEOREM ErrorsNameFirstGroup == Spec => []ErrorNamesFirstGroup
<1>1. Init => ErrorNamesFirstGroup
  BY DEF Init, ErrorNamesFirstGroup
<1>2. QED
  BY <1>1, InvInit, InvStep, NameStep, PTL DEF Spec

----------------------------------------------------------------------------
(* The enumeration helpers are exact on every affine set. *)

\* Rounding down is exact: n * x stays below r up to the quotient and no further.
LEMMA Quotient ==
  ASSUME NEW n \in Nat \ {0}, NEW r \in Int, NEW x \in Int
  PROVE  /\ r \div n \in Int
         /\ n * x <= r <=> x <= r \div n
         /\ n * x + r >= 0 <=> x >= -(r \div n)
<1>1. r \div n \in Int /\ n * (r \div n) <= r /\ r < n * (r \div n) + n
  OBVIOUS
<1>2. PICK q \in Int : q = r \div n
  BY <1>1
<1>3. x <= q => n * x <= n * q
  OBVIOUS
<1>4. x >= q + 1 => n * x >= n * q + n
  OBVIOUS
<1>5. x >= -q => n * x >= -(n * q)
  OBVIOUS
<1>6. x <= -q - 1 => n * x <= -(n * q) - n
  OBVIOUS
<1>7. n * x \in Int /\ n * q \in Int
  OBVIOUS
<1> QED
  BY <1>1, <1>2, <1>3, <1>4, <1>5, <1>6, <1>7

\* Constraints that bound the dimension from above hold exactly up to UpperBound.
LEMMA UpperBoundExact ==
  ASSUME NEW set \in IntegerSet, HasUpperBound(set), NEW c \in Int, NEW g \in Int, NEW x \in Int
  PROVE  /\ UpperBound(set, c, g) \in Int
         /\ Contains(set, x, c, g) => x <= UpperBound(set, c, g)
<1> DEFINE S == {r \in set.cons : r.d < 0}
           f == [con \in S |-> Rest(con, c, g) \div (-con.d)]
<1>1. set.cons \subseteq Constraint /\ IsFiniteSet(set.cons)
  BY DEF IntegerSet
<1>2. IsFiniteSet(S) /\ S # {}
  BY <1>1, FS_Subset DEF HasUpperBound
<1>3. \A con \in S : -con.d \in Nat \ {0} /\ Rest(con, c, g) \in Int /\ con.d \in Int
  BY <1>1 DEF Constraint, Rest
<1>4. \A con \in S : f[con] \in Int /\ (con.d * x + Rest(con, c, g) >= 0 => x <= f[con])
  <2> TAKE con \in S
  <2> DEFINE n == -con.d
             r == Rest(con, c, g)
  <2>0. \A d \in Int : d * x = -((-d) * x) /\ (-d) * x \in Int
    OBVIOUS
  <2>1. n \in Nat \ {0} /\ r \in Int /\ con.d * x = -(n * x) /\ n * x \in Int
    BY <1>3, <2>0
  <2>2. r \div n \in Int /\ (n * x <= r <=> x <= r \div n)
    <3> HIDE DEF n, r
    <3> QED
      BY <2>1, Quotient
  <2>3. f[con] = r \div n
    OBVIOUS
  <2> HIDE DEF f, n
  <2> QED
    BY <2>1, <2>2, <2>3
<1>5. f \in [S -> Int]
  BY <1>4
<1>6. UpperBound(set, c, g) = Min({f[con] : con \in S})
  BY DEF UpperBound
<1>7. /\ Min({f[con] : con \in S}) \in {f[con] : con \in S}
      /\ \A con \in S : Min({f[con1] : con1 \in S}) <= f[con]
  <2> HIDE DEF S, f
  <2> QED
    BY <1>2, <1>5, MinOfValues
<1>8. PICK con \in S : UpperBound(set, c, g) = f[con]
  BY <1>6, <1>7
<1>9. Contains(set, x, c, g) => x <= f[con]
  BY <1>4 DEF Contains
<1> QED
  BY <1>4, <1>8, <1>9

LEMMA LowerBoundExact ==
  ASSUME NEW set \in IntegerSet, HasLowerBound(set), NEW c \in Int, NEW g \in Int, NEW x \in Int
  PROVE  /\ LowerBound(set, c, g) \in Int
         /\ Contains(set, x, c, g) => x >= LowerBound(set, c, g)
<1> DEFINE S == {r \in set.cons : r.d > 0}
           f == [con \in S |-> -(Rest(con, c, g) \div con.d)]
<1>1. set.cons \subseteq Constraint /\ IsFiniteSet(set.cons)
  BY DEF IntegerSet
<1>2. IsFiniteSet(S) /\ S # {}
  BY <1>1, FS_Subset DEF HasLowerBound
<1>3. \A con \in S : con.d \in Nat \ {0} /\ Rest(con, c, g) \in Int
  BY <1>1 DEF Constraint, Rest
<1>4. \A con \in S : f[con] \in Int /\ (con.d * x + Rest(con, c, g) >= 0 => x >= f[con])
  <2> TAKE con \in S
  <2>1. con.d \in Nat \ {0} /\ Rest(con, c, g) \in Int
    BY <1>3
  <2>2. /\ Rest(con, c, g) \div con.d \in Int
        /\ con.d * x + Rest(con, c, g) >= 0 <=> x >= -(Rest(con, c, g) \div con.d)
    BY <2>1, Quotient
  <2> QED
    BY <2>2
<1>5. f \in [S -> Int]
  BY <1>4
<1>6. LowerBound(set, c, g) = Max({f[con] : con \in S})
  BY DEF LowerBound
<1>7. Max({f[con] : con \in S}) \in {f[con] : con \in S}
  <2> HIDE DEF S, f
  <2> QED
    BY <1>2, <1>5, MaxOfValues
<1>8. PICK con \in S : LowerBound(set, c, g) = f[con]
  BY <1>6, <1>7
<1>9. Contains(set, x, c, g) => x >= f[con]
  BY <1>4 DEF Contains
<1> QED
  BY <1>4, <1>8, <1>9

\* groupValues, tilesOf and depTilesOf return the points of the set, all of them for
\* groups and the non-negative ones for tiles.
LEMMA HelpersExact ==
  ASSUME NEW set \in IntegerSet, NEW c \in Int, NEW g \in Int
  PROVE  /\ BoundedGroups(set) => groupValues(set) = {x \in Int : Contains(set, x, 0, 0)}
         /\ HasUpperBound(set) =>
              /\ tilesOf(set, g) = {x \in Nat : Contains(set, x, 0, g)}
              /\ depTilesOf(set, c, g) = {x \in Nat : Contains(set, x, c, g)}
<1>1. ASSUME BoundedGroups(set), NEW x \in Int, Contains(set, x, 0, 0)
      PROVE  x \in LowerBound(set, 0, 0) .. UpperBound(set, 0, 0)
  BY <1>1, UpperBoundExact, LowerBoundExact DEF BoundedGroups
<1>2. ASSUME HasUpperBound(set), NEW d \in Int, NEW x \in Nat, Contains(set, x, d, g)
      PROVE  x \in 0 .. UpperBound(set, d, g)
  BY <1>2, UpperBoundExact
<1>3. BoundedGroups(set) => groupValues(set) = {x \in Int : Contains(set, x, 0, 0)}
  BY <1>1 DEF groupValues
<1>4. HasUpperBound(set) => tilesOf(set, g) = {x \in Nat : Contains(set, x, 0, g)}
  BY <1>2 DEF tilesOf
<1>5. HasUpperBound(set) => depTilesOf(set, c, g) = {x \in Nat : Contains(set, x, c, g)}
  BY <1>2 DEF depTilesOf
<1> QED
  BY <1>3, <1>4, <1>5

\* The sets of the ops of a module.
LEMMA SetsOfOps ==
  ASSUME TypeOK
  PROVE  /\ \A i \in Produces : ops[i].groups \in IntegerSet
         /\ \A i \in Reduces : ops[i].consumers \in IntegerSet /\ ops[i].dep \subseteq IntegerSet
<1>1. \A i \in DOMAIN ops : ops[i] \in Op
  BY Positions
<1>2. \A i \in Produces : ops[i] \in ProduceOp
  BY <1>1 DEF Produces, Op, ReduceOp, OtherOp
<1>3. \A i \in Reduces : ops[i] \in ReduceOp
  BY <1>1 DEF Reduces, Op, ProduceOp, OtherOp
<1> QED
  BY <1>2, <1>3 DEF ProduceOp, ReduceOp

LEMMA WindowSigns == \A x \in Window : x \in Nat <=> x >= 0
<1>1. \A x \in Int : x \in Nat <=> x >= 0
  OBVIOUS
<1> QED
  BY <1>1, WindowAssumption

\* groupValues is exact on the groups of every produce op, wherever one looks.
THEOREM GroupValuesAreExact == Spec => []GroupValuesExact
<1>1. TypeOK => GroupValuesExact
  <2> SUFFICES ASSUME TypeOK, NEW i \in Produces, BoundedGroups(ops[i].groups)
               PROVE  groupValues(ops[i].groups) \cap Window = Points(ops[i].groups, 0, 0)
    BY DEF GroupValuesExact
  <2>1. groupValues(ops[i].groups) = {x \in Int : Contains(ops[i].groups, x, 0, 0)}
    BY SetsOfOps, HelpersExact
  <2> QED
    BY <2>1, WindowAssumption DEF Points
<1> QED
  BY <1>1, TypeCorrect, PTL

\* tilesOf is exact on the tiles of every reduce op, for every group.
THEOREM TilesOfIsExact == Spec => []TilesOfExact
<1>1. TypeOK => TilesOfExact
  <2> SUFFICES ASSUME TypeOK, NEW i \in Reduces, NEW g \in SymbolValues,
                      HasUpperBound(ops[i].consumers)
               PROVE  tilesOf(ops[i].consumers, g) \cap Window
                        = NonNegative(Points(ops[i].consumers, 0, g))
    BY DEF TilesOfExact
  <2>1. tilesOf(ops[i].consumers, g) = {x \in Nat : Contains(ops[i].consumers, x, 0, g)}
    BY SetsOfOps, HelpersExact, WindowAssumption
  <2>2. \A x \in Window : x \in Nat <=> x >= 0
    BY WindowSigns
  <2>3. \A x : x \in NonNegative(Points(ops[i].consumers, 0, g)) <=>
          x \in Window /\ x >= 0 /\ Contains(ops[i].consumers, x, 0, g)
    BY DEF Points, NonNegative
  <2> QED
    BY <2>1, <2>2, <2>3
<1> QED
  BY <1>1, TypeCorrect, PTL

\* depTilesOf is exact on the dependencies of every reduce op, for every consumer and group.
THEOREM DepTilesOfIsExact == Spec => []DepTilesOfExact
<1>1. TypeOK => DepTilesOfExact
  <2> SUFFICES ASSUME TypeOK, NEW i \in Reduces, NEW dep \in ops[i].dep,
                      NEW c \in SymbolValues, NEW g \in SymbolValues, HasUpperBound(dep)
               PROVE  depTilesOf(dep, c, g) \cap Window = NonNegative(Points(dep, c, g))
    BY DEF DepTilesOfExact
  <2>1. depTilesOf(dep, c, g) = {x \in Nat : Contains(dep, x, c, g)}
    BY SetsOfOps, HelpersExact, WindowAssumption
  <2>2. \A x \in Window : x \in Nat <=> x >= 0
    BY WindowSigns
  <2>3. \A x : x \in NonNegative(Points(dep, c, g)) <=>
          x \in Window /\ x >= 0 /\ Contains(dep, x, c, g)
    BY DEF Points, NonNegative
  <2> QED
    BY <2>1, <2>2, <2>3
<1> QED
  BY <1>1, TypeCorrect, PTL
=============================================================================
