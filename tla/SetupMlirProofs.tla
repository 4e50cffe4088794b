-------------------------- MODULE SetupMlirProofs --------------------------
(***************************************************************************)
(* Theorems about SetupMlir, for any number of overlapping invocations, any*)
(* archive and any set of command lines.  Every one of them follows from   *)
(* the inductive invariant IInv; each part of IInv has a lemma that says   *)
(* which steps could disturb it.                                           *)
(***************************************************************************)
EXTENDS SetupMlir, TLAPS



\* Invocations start with well-typed variables.
LEMMA TypeInit == Init => TypeOK
<1> SUFFICES ASSUME Init PROVE TypeOK
  OBVIOUS
<1>1. args \in [Procs -> CommandLine]
  BY ArgumentsAssumption DEF Init
<1>2. 0 \in 0 .. Members
  BY MembersAssumption
<1> QED
  BY <1>1, <1>2 DEF Init, TypeOK, Stages

\* An extraction may stand before the archive and at its last member.
LEMMA Bounds == 0 \in 0 .. Members /\ Members \in 0 .. Members
  BY MembersAssumption

\* The last member is a member.
LEMMA LastMember == Members \in 1 .. Members
  BY MembersAssumption

\* What follows a member that is not the last is a member.
LEMMA NextMember ==
  ASSUME NEW n \in 0 .. Members, n < Members
  PROVE  n + 1 \in 0 .. Members /\ n + 1 \in 1 .. Members
  BY MembersAssumption

\* What an extraction leaves behind is a member, or nothing before the first.
LEMMA MemberBehind ==
  ASSUME NEW n \in 0 .. Members
  PROVE  {n} \ {0} \subseteq 1 .. Members
  BY MembersAssumption

\* No step leaves the types.
LEMMA TypeStep == TypeOK /\ [Next]_vars => TypeOK'
<1> SUFFICES ASSUME TypeOK, [Next]_vars PROVE TypeOK'
  OBVIOUS
<1> USE DEF TypeOK, Stages, Goto, End, Fail, Available, cache, store, run
<1>1. CASE UNCHANGED vars
  BY <1>1 DEF vars
<1>2. CASE StoreChanges
  BY <1>2 DEF StoreChanges
<1>3. ASSUME NEW p \in Procs, Step(p) PROVE TypeOK'
  <2>1. CASE Start(p)
    <3>1. PICK a \in CommandLine : args' = [args EXCEPT ![p] = a]
      BY <2>1, ArgumentsAssumption DEF Start
    <3>2. args' \in [Procs -> CommandLine]
      BY <3>1
    <3> QED
      BY <2>1, <3>2, Bounds DEF Start
  <2>2. CASE ForcedWheel(p)
    BY <2>2 DEF ForcedWheel
  <2>3. CASE ResolveHash(p)
    BY <2>3 DEF ResolveHash
  <2>4. CASE LookupCache(p)
    BY <2>4 DEF LookupCache
  <2>5. CASE ResolveRepo(p)
    BY <2>5 DEF ResolveRepo
  <2>6. CASE CheckRelease(p)
    BY <2>6 DEF CheckRelease
  <2>7. CASE FetchRelease(p)
    <3>1. CASE Received(p, "release")
      <4>1. PICK k \in (IF Faults THEN 0 .. Members ELSE {Members}) :
               intact' = [intact EXCEPT ![p] = k]
        BY <3>1 DEF Received
      <4>2. intact' \in [Procs -> 0 .. Members]
        BY <4>1, Bounds
      <4>3. /\ pc' \in [Procs -> Stages] /\ source' \in [Procs -> {"release", "artifact"}]
            /\ at' \in [Procs -> 0 .. Members]
        BY <3>1, Bounds DEF Received
      <4> QED
        BY <2>7, <3>1, <4>2, <4>3 DEF Received, FetchRelease
    <3>2. CASE ~Received(p, "release")
      BY <2>7, <3>2 DEF FetchRelease
    <3> QED
      BY <3>1, <3>2
  <2>8. CASE CheckToken(p)
    BY <2>8 DEF CheckToken
  <2>9. CASE QueryArtifact(p)
    BY <2>9 DEF QueryArtifact
  <2>10. CASE FetchArtifact(p)
    <3>1. CASE Received(p, "artifact")
      <4>1. PICK k \in (IF Faults THEN 0 .. Members ELSE {Members}) :
               intact' = [intact EXCEPT ![p] = k]
        BY <3>1 DEF Received
      <4>2. intact' \in [Procs -> 0 .. Members]
        BY <4>1, Bounds
      <4>3. /\ pc' \in [Procs -> Stages] /\ source' \in [Procs -> {"release", "artifact"}]
            /\ at' \in [Procs -> 0 .. Members]
        BY <3>1, Bounds DEF Received
      <4> QED
        BY <2>10, <3>1, <4>2, <4>3 DEF Received, FetchArtifact
    <3>2. CASE ~Received(p, "artifact")
      BY <2>10, <3>2 DEF FetchArtifact
    <3> QED
      BY <3>1, <3>2
  <2>11. CASE WriteMember(p)
    <3>1. at[p] \in 0 .. Members /\ at[p] + 1 \in 0 .. Members
      <4>1. at[p] \in 0 .. Members
        OBVIOUS
      <4>2. at[p] < Members
        BY <2>11 DEF WriteMember
      <4> QED
        BY <4>1, <4>2, NextMember
    <3>2. at' \in [Procs -> 0 .. Members]
      BY <2>11, <3>1 DEF WriteMember
    <3>3. {at[p]} \ {0} \subseteq 1 .. Members
      BY <3>1, MemberBehind
    <3>4. whole' \in SUBSET (1 .. Members)
      BY <2>11, <3>3 DEF WriteMember
    <3>5. dir' \in BOOLEAN
      BY <2>11 DEF WriteMember
    <3> QED
      BY <2>11, <3>2, <3>4, <3>5 DEF WriteMember
  <2>12. CASE Extracted(p)
    <3>1. at[p] \in 1 .. Members
      BY <2>12, LastMember DEF Extracted
    <3>2. whole' \in SUBSET (1 .. Members)
      BY <2>12, <3>1 DEF Extracted
    <3> QED
      BY <2>12, <3>2 DEF Extracted
  <2>13. CASE ExtractFails(p)
    BY <2>13 DEF ExtractFails
  <2>14. CASE Kill(p)
    BY <2>14 DEF Kill
  <2> QED
    BY <1>3, <2>1, <2>2, <2>3, <2>4, <2>5, <2>6, <2>7, <2>8, <2>9, <2>10, <2>11, <2>12,
       <2>13, <2>14 DEF Step
<1> QED
  BY <1>1, <1>2, <1>3 DEF Next

----------------------------------------------------------------------------
(* The cache directory. *)

\* A step of p that leaves the cache alone: p is not extracting, and if it starts to, it
\* starts before the first member.
Outside(p) ==
  /\ ~Extracting(p) /\ (Extracting(p)' => at'[p] = 0)
  /\ \A q \in Procs \ {p} : pc'[q] = pc[q] /\ at'[q] = at[q]
  /\ UNCHANGED cache

\* Every step is such a step, a step of the extraction or a kill.
LEMMA StepsOutside ==
  ASSUME TypeOK, NEW p \in Procs, Step(p)
  PROVE  Outside(p) \/ WriteMember(p) \/ Extracted(p) \/ ExtractFails(p) \/ Kill(p)
<1> USE DEF TypeOK, Outside, Extracting, Goto, End, Fail, Available
<1>1. CASE Start(p)
  BY <1>1 DEF Start
<1>2. CASE ForcedWheel(p)
  BY <1>2 DEF ForcedWheel
<1>3. CASE ResolveHash(p)
  BY <1>3 DEF ResolveHash
<1>4. CASE LookupCache(p)
  BY <1>4 DEF LookupCache
<1>5. CASE ResolveRepo(p)
  BY <1>5 DEF ResolveRepo
<1>6. CASE CheckRelease(p)
  BY <1>6 DEF CheckRelease
<1>7. CASE FetchRelease(p)
  BY <1>7 DEF FetchRelease, Received
<1>8. CASE CheckToken(p)
  BY <1>8 DEF CheckToken
<1>9. CASE QueryArtifact(p)
  BY <1>9 DEF QueryArtifact
<1>10. CASE FetchArtifact(p)
  BY <1>10 DEF FetchArtifact, Received
<1> QED
  BY <1>1, <1>2, <1>3, <1>4, <1>5, <1>6, <1>7, <1>8, <1>9, <1>10 DEF Step

\* Such a step keeps what the extractions have written.
LEMMA OutsideExtraction ==
  ASSUME TypeOK, InvExtraction, NEW p \in Procs, Outside(p)
  PROVE  InvExtraction'
<1> SUFFICES ASSUME ~cutShort'
             PROVE  /\ \A r \in Procs : Extracting(r)' =>
                         \A k \in 1 .. at'[r] : Written(k)'
                    /\ (\A r \in Procs : ~Extracting(r)') => ~dir' \/ Complete'
  BY DEF InvExtraction
<1>1. ~cutShort /\ dir' = dir /\ whole' = whole
  BY DEF Outside, cache
<1>2. ASSUME NEW r \in Procs, Extracting(r)', NEW k \in 1 .. at'[r] PROVE Written(k)'
  <2>1. r # p
    BY <1>2 DEF Outside
  <2>2. Extracting(r) /\ at'[r] = at[r]
    BY <1>2, <2>1 DEF Outside, Extracting
  <2>3. Written(k)
    BY <1>1, <1>2, <2>2 DEF InvExtraction
  <2> QED
    BY <1>1, <2>3 DEF Written, Outside, Extracting
<1>3. ASSUME \A r \in Procs : ~Extracting(r)' PROVE ~dir' \/ Complete'
  <2>1. \A r \in Procs : ~Extracting(r)
    BY <1>3 DEF Outside, Extracting
  <2> QED
    BY <1>1, <2>1 DEF InvExtraction, Complete
<1> QED
  BY <1>2, <1>3

\* Opening the next member leaves every member behind it written or being rewritten.
LEMMA WriteMemberExtraction ==
  ASSUME TypeOK, InvExtraction, NEW p \in Procs, WriteMember(p)
  PROVE  InvExtraction'
<1> DEFINE shared == \E q \in Procs \ {p} : Extracting(q) /\ at[q] = at[p]
<1>1. /\ Extracting(p) /\ pc' = pc /\ cutShort' = cutShort
      /\ at' = [at EXCEPT ![p] = at[p] + 1]
  BY DEF WriteMember
<1>2. whole' = (whole \cup (IF shared THEN {} ELSE {at[p]} \ {0})) \ {at[p] + 1}
  BY DEF WriteMember
<1>3. at[p] \in Nat /\ at'[p] = at[p] + 1 /\ \A q \in Procs \ {p} : at'[q] = at[q]
  BY <1>1, MembersAssumption DEF TypeOK
<1> SUFFICES ASSUME ~cutShort', NEW r \in Procs, Extracting(r), NEW k \in 1 .. at'[r]
             PROVE  Written(k)'
  BY <1>1 DEF InvExtraction, Extracting
<1>4. Extracting(p)'
  BY <1>1 DEF Extracting
<1>5. CASE k = at[p] + 1
  BY <1>3, <1>4, <1>5 DEF Written
<1>6. CASE k = at[p]
  <2>1. CASE shared
    <3>1. PICK q \in Procs \ {p} : Extracting(q) /\ at[q] = at[p]
      BY <2>1
    <3> QED
      BY <1>1, <1>3, <1>6, <3>1 DEF Written, Extracting
  <2>2. CASE ~shared
    <3>1. k \in whole'
      <4> HIDE DEF shared
      <4> QED
        BY <1>2, <1>3, <1>6, <2>2
    <3> QED
      BY <3>1 DEF Written
  <2> QED
    BY <2>1, <2>2
<1>7. CASE k # at[p] /\ k # at[p] + 1
  <2>1. k \in 1 .. at[r]
    BY <1>3, <1>7
  <2>2. Written(k)
    BY <1>1, <2>1 DEF InvExtraction
  <2>3. CASE k \in whole
    <3>1. k \in whole'
      BY <1>2, <1>7, <2>3
    <3> QED
      BY <3>1 DEF Written
  <2>4. CASE \E q \in Procs : Extracting(q) /\ at[q] = k
    <3>1. PICK q \in Procs : Extracting(q) /\ at[q] = k
      BY <2>4
    <3> QED
      BY <1>1, <1>3, <1>7, <3>1 DEF Written, Extracting
  <2> QED
    BY <2>2, <2>3, <2>4 DEF Written
<1> QED
  BY <1>5, <1>6, <1>7

\* The last extraction that ends leaves a complete tree.
LEMMA ExtractedExtraction ==
  ASSUME TypeOK, InvExtraction, NEW p \in Procs, Extracted(p)
  PROVE  InvExtraction'
<1> DEFINE shared == \E q \in Procs \ {p} : Extracting(q) /\ at[q] = at[p]
<1>1. /\ Extracting(p) /\ at[p] = Members /\ at' = at /\ cutShort' = cutShort
      /\ pc' = [pc EXCEPT ![p] = "end"]
  BY DEF Extracted, End
<1>2. whole' = IF shared THEN whole ELSE whole \cup {at[p]}
  BY DEF Extracted
<1>3. /\ ~Extracting(p)'
      /\ \A q \in Procs \ {p} : Extracting(q)' <=> Extracting(q)
  BY <1>1 DEF TypeOK, Extracting
<1> SUFFICES ASSUME ~cutShort
             PROVE  /\ \A r \in Procs : Extracting(r)' =>
                         \A k \in 1 .. at'[r] : Written(k)'
                    /\ (\A r \in Procs : ~Extracting(r)') => Complete'
  BY <1>1 DEF InvExtraction
<1>4. ASSUME NEW k, Written(k) PROVE Written(k)'
  <2>1. CASE k \in whole
    BY <1>2, <2>1 DEF Written
  <2>2. CASE \E q \in Procs : Extracting(q) /\ at[q] = k
    <3>1. PICK q \in Procs : Extracting(q) /\ at[q] = k
      BY <2>2
    <3>2. CASE q # p
      BY <1>1, <1>3, <3>1, <3>2 DEF Written
    <3>3. CASE q = p /\ shared
      <4>1. PICK o \in Procs \ {p} : Extracting(o) /\ at[o] = at[p]
        BY <3>3
      <4> QED
        BY <1>1, <1>3, <3>1, <3>3, <4>1 DEF Written
    <3>4. CASE q = p /\ ~shared
      <4>1. k \in whole'
        <5> HIDE DEF shared
        <5> QED
          BY <1>2, <3>1, <3>4
      <4> QED
        BY <4>1 DEF Written
    <3> QED
      BY <3>2, <3>3, <3>4
  <2> QED
    BY <1>4, <2>1, <2>2 DEF Written
<1>5. ASSUME NEW r \in Procs, Extracting(r)', NEW k \in 1 .. at'[r] PROVE Written(k)'
  <2>1. Extracting(r) /\ k \in 1 .. at[r]
    BY <1>1, <1>3, <1>5
  <2>2. Written(k)
    BY <2>1 DEF InvExtraction
  <2> QED
    BY <1>4, <2>2
<1>6. ASSUME \A r \in Procs : ~Extracting(r)' PROVE Complete'
  <2>1. \A k \in 1 .. Members : Written(k)
    BY <1>1 DEF InvExtraction
  <2>2. \A k \in 1 .. Members : k \in whole'
    BY <1>4, <1>6, <2>1 DEF Written
  <2>3. whole' \subseteq 1 .. Members
    BY <1>1, <1>2, LastMember DEF TypeOK
  <2> QED
    BY <2>2, <2>3 DEF Complete
<1> QED
  BY <1>5, <1>6

\* No step breaks InvExtraction; failing and being killed set cutShort.
LEMMA ExtractionStep == IInv /\ [Next]_vars => InvExtraction'
<1> SUFFICES ASSUME TypeOK, InvExtraction, [Next]_vars PROVE InvExtraction'
  BY DEF IInv
<1>1. ASSUME UNCHANGED <<run, cache>> PROVE InvExtraction'
  BY <1>1 DEF run, cache, InvExtraction, Written, Extracting, Complete
<1>2. ASSUME NEW p \in Procs, Step(p) PROVE InvExtraction'
  <2>1. CASE ExtractFails(p)
    BY <2>1 DEF ExtractFails, InvExtraction
  <2>2. CASE Kill(p)
    <3>1. CASE Extracting(p)
      BY <2>2, <3>1 DEF Kill, InvExtraction, TypeOK
    <3>2. CASE ~Extracting(p)
      <4>1. Outside(p)
        BY <2>2, <3>2 DEF Kill, End, Outside, Extracting, cache, TypeOK
      <4> QED
        BY <4>1, OutsideExtraction
    <3> QED
      BY <3>1, <3>2
  <2> QED
    BY <1>2, <2>1, <2>2, StepsOutside, OutsideExtraction, WriteMemberExtraction,
       ExtractedExtraction
<1> QED
  BY <1>1, <1>2 DEF Next, StoreChanges, vars

----------------------------------------------------------------------------
(* Arguments and outputs. *)

\* What one invocation p shows of InvDry, PrintsIffSucceeds and WheelOnlyOnRequest.
Behaves(p) ==
  /\ args[p].dry => pc[p] \notin {"fetch release", "fetch artifact", "extract"}
  /\ pc[p] = "end" => (out[p] # "none" <=> exit[p] = "ok" /\ ~args[p].dry)
  /\ out[p] = "wheel" => args[p].wheel

\* The three invariants say that every invocation behaves.
LEMMA BehavesAll ==
  InvDry /\ PrintsIffSucceeds /\ WheelOnlyOnRequest <=> \A p \in Procs : Behaves(p)
  BY DEF InvDry, PrintsIffSucceeds, WheelOnlyOnRequest, Behaves

\* A step of p leaves p well behaved; it leaves the others alone.
LEMMA BehavesStep ==
  ASSUME TypeOK, NEW p \in Procs, Behaves(p), Step(p)
  PROVE  Behaves(p)'
<1> USE DEF TypeOK, Behaves, Goto, End, Fail, Available
<1>1. CASE Start(p)
  BY <1>1 DEF Start
<1>2. CASE ForcedWheel(p)
  BY <1>2 DEF ForcedWheel
<1>3. CASE ResolveHash(p)
  BY <1>3, ZenonT(40) DEF ResolveHash
<1>4. CASE LookupCache(p)
  BY <1>4, ZenonT(40) DEF LookupCache
<1>5. CASE ResolveRepo(p)
  BY <1>5, ZenonT(40) DEF ResolveRepo
<1>6. CASE CheckRelease(p)
  BY <1>6 DEF CheckRelease
<1>7. CASE FetchRelease(p)
  BY <1>7 DEF FetchRelease, Received
<1>8. CASE CheckToken(p)
  BY <1>8 DEF CheckToken
<1>9. CASE QueryArtifact(p)
  BY <1>9 DEF QueryArtifact
<1>10. CASE FetchArtifact(p)
  BY <1>10 DEF FetchArtifact, Received
<1>11. CASE WriteMember(p)
  BY <1>11 DEF WriteMember
<1>12. CASE Extracted(p)
  BY <1>12 DEF Extracted, Extracting
<1>13. CASE ExtractFails(p)
  BY <1>13 DEF ExtractFails
<1>14. CASE Kill(p)
  BY <1>14 DEF Kill
<1> QED
  BY <1>1, <1>2, <1>3, <1>4, <1>5, <1>6, <1>7, <1>8, <1>9, <1>10, <1>11, <1>12, <1>13,
     <1>14 DEF Step

\* A step of one invocation leaves the variables of the others alone.
LEMMA StepFrame ==
  ASSUME TypeOK, NEW p \in Procs, Step(p), NEW q \in Procs \ {p}
  PROVE  pc'[q] = pc[q] /\ args'[q] = args[q] /\ exit'[q] = exit[q] /\ out'[q] = out[q]
<1> USE DEF TypeOK, Goto, End, Fail, Available
<1>1. CASE Start(p)
  BY <1>1 DEF Start
<1>2. CASE ForcedWheel(p)
  BY <1>2 DEF ForcedWheel
<1>3. CASE ResolveHash(p)
  BY <1>3 DEF ResolveHash
<1>4. CASE LookupCache(p)
  BY <1>4 DEF LookupCache
<1>5. CASE ResolveRepo(p)
  BY <1>5 DEF ResolveRepo
<1>6. CASE CheckRelease(p)
  BY <1>6 DEF CheckRelease
<1>7. CASE FetchRelease(p)
  BY <1>7 DEF FetchRelease, Received
<1>8. CASE CheckToken(p)
  BY <1>8 DEF CheckToken
<1>9. CASE QueryArtifact(p)
  BY <1>9 DEF QueryArtifact
<1>10. CASE FetchArtifact(p)
  BY <1>10 DEF FetchArtifact, Received
<1>11. CASE WriteMember(p)
  BY <1>11 DEF WriteMember
<1>12. CASE Extracted(p)
  BY <1>12 DEF Extracted
<1>13. CASE ExtractFails(p)
  BY <1>13 DEF ExtractFails
<1>14. CASE Kill(p)
  BY <1>14 DEF Kill
<1> QED
  BY <1>1, <1>2, <1>3, <1>4, <1>5, <1>6, <1>7, <1>8, <1>9, <1>10, <1>11, <1>12, <1>13,
     <1>14 DEF Step

\* Whoever takes the next step, all invocations stay well behaved.
LEMMA BehaviourStep ==
  IInv /\ [Next]_vars => InvDry' /\ PrintsIffSucceeds' /\ WheelOnlyOnRequest'
<1> SUFFICES ASSUME TypeOK, \A q \in Procs : Behaves(q), [Next]_vars
             PROVE  \A q \in Procs : Behaves(q)'
  BY BehavesAll DEF IInv, InvDry, PrintsIffSucceeds, WheelOnlyOnRequest, Behaves
<1>1. ASSUME UNCHANGED run PROVE \A q \in Procs : Behaves(q)'
  BY <1>1 DEF run, Behaves
<1>2. ASSUME NEW p \in Procs, Step(p) PROVE \A q \in Procs : Behaves(q)'
  <2> TAKE q \in Procs
  <2>1. CASE q = p
    BY <1>2, <2>1, BehavesStep
  <2>2. CASE q # p
    <3>1. pc'[q] = pc[q] /\ args'[q] = args[q] /\ exit'[q] = exit[q] /\ out'[q] = out[q]
      BY <1>2, <2>2, StepFrame
    <3> QED
      BY <3>1 DEF Behaves
  <2> QED
    BY <2>1, <2>2
<1> QED
  BY <1>1, <1>2 DEF Next, StoreChanges, vars

----------------------------------------------------------------------------
\* The inductive invariant holds at the start,
LEMMA InitInv == Init => IInv
<1> SUFFICES ASSUME Init PROVE IInv
  OBVIOUS
<1>1. InvExtraction
  BY DEF Init, InvExtraction, Extracting
<1>2. InvDry /\ PrintsIffSucceeds /\ WheelOnlyOnRequest
  BY DEF Init, InvDry, PrintsIffSucceeds, WheelOnlyOnRequest
<1> QED
  BY <1>1, <1>2, TypeInit DEF IInv

\* is preserved by every step,
LEMMA InvStep == IInv /\ [Next]_vars => IInv'
  BY TypeStep, ExtractionStep, BehaviourStep DEF IInv

\* and so holds for ever.
THEOREM Invariant == Spec => []IInv
  BY InitInv, InvStep, PTL DEF Spec

\* The variables of every invocation and of the cache keep their types.
THEOREM TypeCorrect == Spec => []TypeOK
<1>1. IInv => TypeOK
  BY DEF IInv
<1> QED
  BY <1>1, Invariant, PTL

\* However many invocations overlap, and wherever they write their members: a tree that
\* the lookup accepts is complete or being written, unless an extraction was cut short.
THEOREM PartialTrees == Spec => []PartialOnlyIfCutShort
<1>1. IInv => PartialOnlyIfCutShort
  BY DEF IInv, InvExtraction, PartialOnlyIfCutShort
<1> QED
  BY <1>1, Invariant, PTL

\* What a caller may conclude from the exit status of main and its output.
THEOREM OutputAndStatus == Spec => []PrintsIffSucceeds
<1>1. IInv => PrintsIffSucceeds
  BY DEF IInv
<1> QED
  BY <1>1, Invariant, PTL

\* The wheel is the answer to --wheel alone.
THEOREM WheelOnRequest == Spec => []WheelOnlyOnRequest
<1>1. IInv => WheelOnlyOnRequest
  BY DEF IInv
<1> QED
  BY <1>1, Invariant, PTL

\* --dry-run writes nothing into the cache, on any path through main.
THEOREM DryRunIsReadOnly == Spec => DryRunWritesNothing
<1>1. ASSUME IInv, NEW p \in Procs, Step(p), args[p].dry PROVE UNCHANGED cache
  <2>1. ~Extracting(p)
    BY <1>1 DEF IInv, InvDry, Extracting
  <2>2. CASE Kill(p)
    BY <2>1, <2>2, <1>1 DEF Kill, cache, IInv, TypeOK
  <2>3. TypeOK
    BY <1>1 DEF IInv
  <2> QED
    BY <1>1, <2>1, <2>2, <2>3, StepsOutside
       DEF Outside, WriteMember, Extracted, ExtractFails
<1>2. IInv /\ [Next]_vars =>
        [\A p \in Procs : Step(p) /\ args[p].dry => UNCHANGED cache]_vars
  BY <1>1
<1> QED
  BY <1>2, Invariant, PTL DEF Spec, DryRunWritesNothing
=============================================================================
