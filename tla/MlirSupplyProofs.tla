-------------------------- MODULE MlirSupplyProofs --------------------------
(***************************************************************************)
(* Proofs about the workflow and the CI job together, for any number of    *)
(* overlapping runs, platforms and members of the archive.  The module     *)
(* stands on the proofs about the workflow: the variables of LlvmBuild are *)
(* its own, and the composition is an instance over them.                  *)
(***************************************************************************)
EXTENDS LlvmBuildProofs, CIJob

CONSTANT Platform

Supply == INSTANCE MlirSupply

\* The workflow inside the composition takes the steps of LlvmBuild.
LEMMA WorkflowSteps ==
  ASSUME Supply!Workflow!Next
  PROVE  Next
<1>1. ASSUME NEW r \in Runs, NEW p \in Platforms,
             Supply!Workflow!BuildStep(r, p) \/ Supply!Workflow!RefreshStep(r, p)
      PROVE  BuildStep(r, p) \/ RefreshStep(r, p)
  <2>1. CASE Supply!Workflow!BuildStep(r, p)
    BY <2>1 DEF Supply!Workflow!BuildStep, Supply!Workflow!CheckAsset,
      Supply!Workflow!CheckArtifact, Supply!Workflow!Build, Supply!Workflow!Publish,
      Supply!Workflow!Upload, Supply!Workflow!UploadArtifact, Supply!Workflow!Cancel,
      Supply!Workflow!Stopped, Supply!Workflow!Goto, Supply!Workflow!KeepRest, Supply!Workflow!store,
      Supply!Workflow!BuildEnds, BuildStep, CheckAsset, CheckArtifact, Build, Publish,
      Upload, UploadArtifact, Cancel, Stopped, Goto, KeepRest, store, BuildEnds
  <2>2. CASE Supply!Workflow!RefreshStep(r, p)
    BY <2>2 DEF Supply!Workflow!RefreshStep, Supply!Workflow!CheckRefresh,
      Supply!Workflow!DownloadOld, Supply!Workflow!Reupload, Supply!Workflow!DeleteOld,
      Supply!Workflow!RefreshTo, Supply!Workflow!store,
      RefreshStep, CheckRefresh, DownloadOld, Reupload, DeleteOld, RefreshTo, store
  <2> QED
    BY <1>1, <2>1, <2>2
<1>2. ASSUME NEW r \in Runs,
             \/ Supply!Workflow!Trigger(r) \/ Supply!Workflow!ViewRelease(r)
             \/ Supply!Workflow!CreateRelease(r) \/ Supply!Workflow!StartBuild(r)
             \/ Supply!Workflow!TriggerCI(r) \/ Supply!Workflow!CancelRun(r)
      PROVE  \/ Trigger(r) \/ ViewRelease(r) \/ CreateRelease(r) \/ StartBuild(r)
             \/ TriggerCI(r) \/ CancelRun(r)
  BY <1>2 DEF Supply!Workflow!Trigger, Supply!Workflow!ViewRelease,
    Supply!Workflow!CreateRelease, Supply!Workflow!StartBuild, Supply!Workflow!TriggerCI,
    Supply!Workflow!store, Supply!Workflow!KeepRest, Supply!Workflow!CreateEnds,
    Supply!Workflow!BuildEnds, Supply!Workflow!CancelRun, Supply!Workflow!Stopped,
    Supply!Workflow!RefreshEnds, Trigger, ViewRelease, CreateRelease, StartBuild, TriggerCI,
    CancelRun, Stopped, store, KeepRest, CreateEnds, BuildEnds, RefreshEnds
<1>3. ASSUME NEW p \in Platforms, Supply!Workflow!Expire(p) PROVE Expire(p)
  BY <1>3 DEF Supply!Workflow!Expire, Supply!Workflow!jobs, Expire, jobs
<1> QED
  BY <1>1, <1>2, <1>3 DEF Supply!Workflow!Next, Supply!Workflow!RunStep, Next, RunStep

LEMMA SupplySteps ==
  ASSUME [Supply!Next]_(Supply!vars)
  PROVE  [Next]_vars
<1>1. CASE Supply!Workflow!Next
  BY <1>1, WorkflowSteps
<1>2. CASE UNCHANGED Supply!workflow
  BY <1>2 DEF Supply!workflow, vars, store, jobs
<1> QED
  BY <1>1, <1>2 DEF Supply!Next, Supply!StartJob, Supply!ScriptStep, Supply!vars

\* Every behaviour of the composition is one of the workflow, whose invariants it inherits.
LEMMA ImplementsWorkflow == Supply!Spec => Spec
<1>1. Supply!Init => Init
  BY DEF Supply!Init, Supply!Workflow!Init, Init
<1> QED
  BY <1>1, SupplySteps, PTL DEF Supply!Spec, Spec

----------------------------------------------------------------------------
(* The CI job. *)

\* Nothing takes a build away: the run of TriggeredCIResolves.
Calm == ~Expiring /\ ~Faults /\ "schedule" \notin Events

NoSchedule == \A r \in Runs : event[r] # "schedule"

CIArgs == [wheel |-> FALSE, dry |-> FALSE, hash |-> TRUE, supported |-> TRUE,
           repo |-> TRUE, token |-> TRUE]

\* The job only runs for a run that has triggered it, and none of the script's failing
\* exits is on its way.
InvJob ==
  /\ args = [p \in {"ci"} |-> CIArgs]
  /\ pc = [p \in {"ci"} |-> pc["ci"]]
  /\ out = [p \in {"ci"} |-> out["ci"]]
  /\ exit = [p \in {"ci"} |-> exit["ci"]]
  /\ pc["ci"] # "idle" => \E r \in Runs : ci[r] = "triggered"
  /\ pc["ci"] = "end" => exit["ci"] = "ok" /\ out["ci"] = "cache"

\* As long as nothing is lost a triggered run has left an artifact.
LEMMA ArtifactThere ==
  ASSUME IInv, NoSchedule, Calm, NEW r \in Runs, ci[r] = "triggered", Platform \in Platforms
  PROVE  artifacts[Platform] # {}
<1>1. build[r][Platform] = "success"
  BY DEF IInv, TriggeredSucceeded
<1> QED
  BY <1>1 DEF IInv, SeenAreStored, NoSchedule, Calm

\* Only a trigger changes the events, and only trigger-ci and a cancelled run the state of
\* that job.
LEMMA OneStarts ==
  ASSUME [Next]_vars
  PROVE  /\ UNCHANGED event \/ \E r \in Runs : Trigger(r)
         /\ UNCHANGED ci \/ \E r \in Runs : TriggerCI(r) \/ CancelRun(r)
<1>1. ASSUME NEW r \in Runs, NEW p \in Platforms, BuildStep(r, p)
      PROVE  UNCHANGED <<event, ci>>
  BY <1>1 DEF BuildStep, CheckAsset, CheckArtifact, Build, Publish, Upload, UploadArtifact,
    Cancel, KeepRest
<1>2. ASSUME NEW r \in Runs, NEW p \in Platforms, RefreshStep(r, p)
      PROVE  UNCHANGED <<event, ci>>
  BY <1>2 DEF RefreshStep, CheckRefresh, DownloadOld, Reupload, DeleteOld, RefreshTo
<1>3. ASSUME NEW r \in Runs, ViewRelease(r) \/ CreateRelease(r) \/ StartBuild(r)
      PROVE  UNCHANGED <<event, ci>>
  BY <1>3 DEF ViewRelease, CreateRelease, StartBuild, KeepRest
<1>4. ASSUME NEW r \in Runs, Trigger(r) PROVE UNCHANGED ci
  BY <1>4 DEF Trigger
<1>5. ASSUME NEW r \in Runs, TriggerCI(r) PROVE UNCHANGED event
  BY <1>5 DEF TriggerCI
<1>6. ASSUME NEW p \in Platforms, Expire(p) PROVE UNCHANGED <<event, ci>>
  BY <1>6 DEF Expire, jobs
<1>7. ASSUME NEW r \in Runs, CancelRun(r) PROVE UNCHANGED event
  BY <1>7 DEF CancelRun
<1>8. CASE UNCHANGED vars
  BY <1>8 DEF vars, jobs
<1> QED
  BY <1>1, <1>2, <1>3, <1>4, <1>5, <1>6, <1>7, <1>8 DEF Next, RunStep

LEMMA NoScheduleStep ==
  ASSUME NoSchedule, TypeOK, Calm, [Next]_vars
  PROVE  NoSchedule'
<1>1. CASE UNCHANGED event
  BY <1>1 DEF NoSchedule
<1>2. ASSUME NEW r \in Runs, Trigger(r) PROVE NoSchedule'
  <2>1. PICK e \in Events : event' = [event EXCEPT ![r] = e]
    BY <1>2 DEF Trigger
  <2> QED
    BY <2>1 DEF NoSchedule, Calm, TypeOK
<1> QED
  BY <1>1, <1>2, OneStarts

\* A run that has triggered CI has done so for good.
LEMMA TriggeredStays ==
  ASSUME TypeOK, [Next]_vars, NEW r \in Runs, ci[r] = "triggered"
  PROVE  ci'[r] = "triggered"
<1>1. CASE UNCHANGED ci
  BY <1>1
<1>2. ASSUME NEW q \in Runs, TriggerCI(q) PROVE ci'[r] = "triggered"
  BY <1>2 DEF TriggerCI, TypeOK
<1>3. ASSUME NEW q \in Runs, CancelRun(q) PROVE ci'[r] = "triggered"
  BY <1>3 DEF CancelRun, TypeOK
<1> QED
  BY <1>1, <1>2, <1>3, OneStarts

\* A step of the script on its way to a build that is there.
LEMMA JobStep ==
  ASSUME InvJob, Calm, pc["ci"] \notin {"idle", "end"}, artifacts[Platform] # {},
         Supply!Script!Step("ci"), UNCHANGED ci
  PROVE  InvJob'
<1>1. args["ci"] = CIArgs /\ ~args["ci"].dry /\ ~Faults
  BY DEF InvJob, Calm, CIArgs
<1>2. PICK r \in Runs : ci'[r] = "triggered"
  BY DEF InvJob
<1>3. ASSUME UNCHANGED args, NEW stage, stage # "end", Supply!Script!Goto("ci", stage)
      PROVE  InvJob'
  BY <1>2, <1>3 DEF InvJob, Supply!Script!Goto
<1>4. ASSUME UNCHANGED args, Supply!Script!End("ci", "ok", "cache")
      PROVE  InvJob'
  BY <1>2, <1>4 DEF InvJob, Supply!Script!End
<1>5. CASE Supply!Script!ResolveHash("ci") \/ Supply!Script!ForcedWheel("ci")
  BY <1>1, <1>3, <1>5 DEF Supply!Script!ResolveHash, Supply!Script!ForcedWheel, CIArgs
<1>6. CASE Supply!Script!LookupCache("ci")
  BY <1>1, <1>3, <1>4, <1>6 DEF Supply!Script!LookupCache, CIArgs
<1>7. CASE Supply!Script!ResolveRepo("ci") \/ Supply!Script!CheckToken("ci")
  BY <1>1, <1>3, <1>7 DEF Supply!Script!ResolveRepo, Supply!Script!CheckToken, CIArgs
<1>8. CASE Supply!Script!CheckRelease("ci")
  <2>1. \/ Supply!Script!Goto("ci", "fetch release")
        \/ Supply!Script!Goto("ci", "token")
    BY <1>1, <1>8, Zenon DEF Supply!Script!CheckRelease
  <2>2. UNCHANGED args
    BY <1>8 DEF Supply!Script!CheckRelease
  <2> QED
    BY <1>3, <2>1, <2>2
<1>9. CASE Supply!Script!FetchRelease("ci")
  BY <1>3, <1>9 DEF Supply!Script!FetchRelease, Supply!Script!Received
<1>10. CASE Supply!Script!QueryArtifact("ci")
  <2>1. Supply!Script!Goto("ci", "fetch artifact")
    BY <1>1, <1>10, Zenon DEF Supply!Script!QueryArtifact
  <2>2. UNCHANGED args
    BY <1>10 DEF Supply!Script!QueryArtifact
  <2> QED
    BY <1>3, <2>1, <2>2
<1>11. CASE Supply!Script!FetchArtifact("ci")
  BY <1>3, <1>11 DEF Supply!Script!FetchArtifact, Supply!Script!Received, Calm
<1>12. CASE Supply!Script!WriteMember("ci")
  BY <1>2, <1>12 DEF Supply!Script!WriteMember, InvJob
<1>13. CASE Supply!Script!Extracted("ci")
  BY <1>4, <1>13 DEF Supply!Script!Extracted
<1>14. CASE Supply!Script!ExtractFails("ci") \/ Supply!Script!Kill("ci")
  BY <1>14 DEF Supply!Script!ExtractFails, Supply!Script!Kill, Calm
<1>15. CASE Supply!Script!Start("ci")
  BY <1>15 DEF Supply!Script!Start
<1> QED
  BY <1>5, <1>6, <1>7, <1>8, <1>9, <1>10, <1>11, <1>12, <1>13, <1>14, <1>15
     DEF Supply!Script!Step

LEMMA JobInvariant ==
  ASSUME InvJob, IInv, NoSchedule, Calm, Platform \in Platforms, [Supply!Next]_(Supply!vars)
  PROVE  InvJob'
<1>1. CASE UNCHANGED setup
  <2>1. UNCHANGED <<pc, args, exit, out>>
    BY <1>1 DEF setup
  <2>2. \A r \in Runs : ci[r] = "triggered" => ci'[r] = "triggered"
    BY SupplySteps, TriggeredStays DEF IInv
  <2> QED
    BY <2>1, <2>2 DEF InvJob
<1>2. CASE Supply!StartJob
  <2>1. PICK a \in CIArguments : args' = [args EXCEPT !["ci"] = a]
    BY <1>2 DEF Supply!StartJob, Supply!Script!Start, Supply!CIArguments, CIArguments
  <2>2. a = CIArgs
    BY DEF CIArguments, CIArgs
  <2>3. /\ pc' = [pc EXCEPT !["ci"] = "main"]
        /\ exit' = [exit EXCEPT !["ci"] = "none"]
        /\ out' = [out EXCEPT !["ci"] = "none"]
        /\ UNCHANGED ci /\ \E r \in Runs : ci[r] = "triggered"
    BY <1>2 DEF Supply!StartJob, Supply!Script!Start, Supply!workflow
  <2> QED
    BY <2>1, <2>2, <2>3 DEF InvJob
<1>3. CASE Supply!ScriptStep
  <2>1. UNCHANGED ci /\ pc["ci"] \notin {"idle", "end"} /\ Supply!Script!Step("ci")
    BY <1>3 DEF Supply!ScriptStep, Supply!workflow
  <2>2. artifacts[Platform] # {}
    BY <2>1, ArtifactThere DEF InvJob
  <2> QED
    BY <2>1, <2>2, JobStep
<1> QED
  BY <1>1, <1>2, <1>3 DEF Supply!Next, Supply!vars, Supply!setup, setup

\* Without failures, expiry and refreshes a CI job that the workflow triggers resolves
\* MLIR, however many runs overlap with it and whatever the script's requests see.
THEOREM TriggeredCIResolvesHolds ==
  ASSUME Calm, Platform \in Platforms
  PROVE  Supply!Spec => []TriggeredCIResolves
<1>1. Supply!Init => InvJob /\ NoSchedule
  <2> SUFFICES ASSUME Supply!Init PROVE InvJob /\ NoSchedule
    OBVIOUS
  <2>1. PICK a \in [{"ci"} -> CIArguments] : args = a
    BY DEF Supply!Init, Supply!Script!Init, Supply!CIArguments, CIArguments
  <2>2. a["ci"] = CIArgs /\ a = [p \in {"ci"} |-> a["ci"]]
    BY DEF CIArguments, CIArgs
  <2>3. InvJob
    BY <2>1, <2>2 DEF InvJob, Supply!Init, Supply!Script!Init
  <2>4. NoSchedule
    BY DEF Supply!Init, Supply!Workflow!Init, NoSchedule
  <2> QED
    BY <2>3, <2>4
<1>2. IInv /\ InvJob /\ NoSchedule /\ [Supply!Next]_(Supply!vars) => InvJob' /\ NoSchedule'
  BY JobInvariant, SupplySteps, NoScheduleStep DEF IInv
<1>3. InvJob => TriggeredCIResolves
  BY DEF InvJob, TriggeredCIResolves
<1> QED
  BY <1>1, <1>2, <1>3, ImplementsWorkflow, Inductive, PTL DEF Supply!Spec
=============================================================================
