--------------------------- MODULE LlvmBuildProofs ---------------------------
(***************************************************************************)
(* Proofs about LlvmBuild, for any number of runs and platforms.           *)
(***************************************************************************)
EXTENDS LlvmBuild, TLAPS

\* How the jobs of a run hang together: create-release is skipped on pull requests, or
\* with the whole run; build starts when it is over and does not outlive its failure;
\* refresh is for schedules.
JobsInOrder ==
  \A r \in Runs :
    /\ event[r] = "none" => create[r] = "waiting"
    /\ event[r] = "pull_request" => create[r] = "skipped"
    /\ create[r] \in {"found", "created"} => release
    /\ \A p \in Platforms :
         /\ build[r][p] # "waiting" => create[r] \in CreateEnds
         /\ create[r] = "failed" => build[r][p] \in {"waiting", "skipped"}
         /\ \/ create[r] = "cancelled"
            \/ create[r] = "skipped" /\ event[r] # "pull_request"
            => build[r][p] = "skipped"
         /\ build[r][p] = "upload" => event[r] # "pull_request"
         /\ refresh[r][p] \notin {"waiting", "skipped"} => event[r] = "schedule"
         /\ refresh[r][p] = "waiting" => event[r] = "none"

\* An asset that a run has seen or uploaded is there or being replaced.
SeenArePublished ==
  \A r \in Runs, p \in Platforms :
    \/ p \in seenAsset[r]
    \/ build[r][p] \in {"upload artifact", "success"} /\ event[r] # "pull_request"
    => p \in assets \/ Clobbered(p)

TriggeredSucceeded ==
  \A r \in Runs : ci[r] = "triggered" =>
    event[r] # "pull_request" /\ \A p \in Platforms : build[r][p] = "success"

\* An artifact that a run has seen or uploaded stays while nothing deletes artifacts.
SeenAreStored ==
  ~Expiring /\ (\A r \in Runs : event[r] # "schedule") =>
    \A r \in Runs, p \in Platforms :
      p \in seenArtifact[r] \/ build[r][p] = "success" => artifacts[p] # {}

\* An artifact that exists or that a refresh job has found is the work of a build job that
\* ended well, and what a refresh job has deleted is gone for good.
DeletedAreGone ==
  \A r \in Runs, p \in Platforms :
    /\ \A id \in artifacts[p] \cup held[r][p] : build[id][p] = "success"
    /\ refresh[r][p] \in {"waiting", "check", "skipped"} => held[r][p] = {}
    /\ refresh[r][p] = "success" => held[r][p] \cap artifacts[p] = {}

IInv ==
  /\ TypeOK /\ JobsInOrder /\ SeenArePublished /\ TriggeredSucceeded /\ SeenAreStored
  /\ DeletedAreGone

----------------------------------------------------------------------------
(* Updates *)

LEMMA Update ==
  ASSUME NEW A, NEW B, NEW f \in [A -> B], NEW a \in A, NEW b \in B
  PROVE  /\ [f EXCEPT ![a] = b] \in [A -> B]
         /\ [f EXCEPT ![a] = b][a] = b
         /\ \A c \in A : c # a => [f EXCEPT ![a] = b][c] = f[c]
OBVIOUS

LEMMA UpdateTwo ==
  ASSUME NEW A, NEW B, NEW C, NEW f \in [A -> [B -> C]], NEW a \in A, NEW b \in B, NEW c \in C
  PROVE  /\ [f EXCEPT ![a][b] = c] \in [A -> [B -> C]]
         /\ [f EXCEPT ![a][b] = c][a][b] = c
         /\ \A d \in A, e \in B : d # a \/ e # b => [f EXCEPT ![a][b] = c][d][e] = f[d][e]
OBVIOUS

\* The steps of a build job go where the workflow has them go.
LEMMA Moves ==
  ASSUME TypeOK, NEW r \in Runs, NEW p \in Platforms, NEW step \in BuildSteps, Goto(r, p, step)
  PROVE  /\ build' \in [Runs -> [Platforms -> BuildSteps]]
         /\ build'[r][p] = step
         /\ \A s \in Runs, q \in Platforms : s # r \/ q # p => build'[s][q] = build[s][q]
BY UpdateTwo DEF Goto, TypeOK

LEMMA RefreshMoves ==
  ASSUME TypeOK, NEW r \in Runs, NEW p \in Platforms, NEW step \in RefreshSteps,
         RefreshTo(r, p, step)
  PROVE  /\ refresh' \in [Runs -> [Platforms -> RefreshSteps]]
         /\ refresh'[r][p] = step
         /\ \A s \in Runs, q \in Platforms : s # r \/ q # p => refresh'[s][q] = refresh[s][q]
BY UpdateTwo DEF RefreshTo, TypeOK

\* The steps a build job may go to.
LEMMA StepNames ==
  /\ {"check artifact", "build", "publish", "upload", "upload artifact", "success", "failed",
      "torn", "cancelled"} \subseteq BuildSteps
  /\ {"download", "reupload", "delete", "success", "failed"} \subseteq RefreshSteps
BY DEF BuildSteps, BuildEnds, RefreshSteps, RefreshEnds

\* What each step of a build job does to the job and to what it knows.
LEMMA BuildMoves ==
  ASSUME TypeOK, NEW r \in Runs, NEW p \in Platforms, BuildStep(r, p)
  PROVE  \E step \in BuildSteps :
           /\ Goto(r, p, step) /\ step \notin {"waiting", "check release"}
           /\ build[r][p] \notin {"success", "torn"}
           /\ \/ build[r][p] \notin {"waiting", "skipped"}
              \/ \E q \in Platforms : build[r][q] \in {"failed", "torn"}
           /\ UNCHANGED <<release, event, create, refresh, held, ci>>
           \* the asset
           /\ \/ UNCHANGED seenAsset
              \/ \E seen \in SUBSET (assets \cap {p}) :
                   seenAsset' = [seenAsset EXCEPT ![r] = @ \cup seen]
           /\ \/ assets' = assets /\ (build[r][p] = "upload" => step = "torn")
              \/ assets' = assets \cup {p} /\ step = "upload artifact"
              \/ assets' = assets \ {p} /\ step = "upload"
           /\ step = "upload" => assets' = assets \ {p} /\ event[r] # "pull_request"
           /\ step \in {"upload artifact", "success"} /\ event[r] # "pull_request" =>
                p \in assets' \/ p \in seenAsset[r] \/ build[r][p] = "upload artifact"
           \* the artifact
           /\ \/ UNCHANGED seenArtifact
              \/ \E seen \in (IF artifacts[p] = {} THEN {{}} ELSE {{}, {p}}) :
                   seenArtifact' = [seenArtifact EXCEPT ![r] = @ \cup seen]
           /\ \/ UNCHANGED artifacts
              \/ artifacts' = [artifacts EXCEPT ![p] = @ \cup {r}] /\ step = "success"
           /\ step = "success" =>
                p \in seenArtifact[r] \/ artifacts[p] # {} \/ artifacts' = [artifacts EXCEPT ![p] = @ \cup {r}]
<1>1. CASE CheckAsset(r, p)
  BY <1>1, StepNames DEF CheckAsset, KeepRest, store, BuildEnds
<1>2. CASE CheckArtifact(r, p)
  BY <1>2, StepNames DEF CheckArtifact, KeepRest, store, BuildEnds
<1>3. CASE Build(r, p)
  BY <1>3, StepNames DEF Build, KeepRest, store, BuildEnds
<1>4. CASE Publish(r, p)
  BY <1>4, StepNames DEF Publish, KeepRest, store, BuildEnds
<1>5. CASE Upload(r, p)
  BY <1>5, StepNames DEF Upload, KeepRest, store, BuildEnds
<1>6. CASE UploadArtifact(r, p)
  BY <1>6, StepNames DEF UploadArtifact, KeepRest, store, BuildEnds
<1>7. CASE Cancel(r, p)
  BY <1>7, StepNames DEF Cancel, Stopped, KeepRest, store, BuildEnds
<1> QED
  BY <1>1, <1>2, <1>3, <1>4, <1>5, <1>6, <1>7 DEF BuildStep
LEMMA RefreshEffects ==
  ASSUME TypeOK, NEW r \in Runs, NEW p \in Platforms, RefreshStep(r, p)
  PROVE  \E step \in RefreshSteps :
           /\ RefreshTo(r, p, step) /\ refresh[r][p] \notin {"waiting", "skipped"}
           /\ step \notin {"waiting", "check", "skipped"}
           /\ UNCHANGED <<release, assets>>
           /\ \/ UNCHANGED held
              \/ \E id \in artifacts[p] : held' = [held EXCEPT ![r][p] = {id}]
           /\ \/ UNCHANGED artifacts
              \/ artifacts' = [artifacts EXCEPT ![p] = @ \ held[r][p]]
<1>1. CASE CheckRefresh(r, p)
  BY <1>1, StepNames DEF CheckRefresh, store
<1>2. CASE DownloadOld(r, p)
  BY <1>2, StepNames DEF DownloadOld, store
<1>3. CASE Reupload(r, p)
  BY <1>3, StepNames DEF Reupload, store
<1>4. CASE DeleteOld(r, p)
  BY <1>4, StepNames DEF DeleteOld
<1> QED
  BY <1>1, <1>2, <1>3, <1>4 DEF RefreshStep

\* Cancelling a run ends its jobs, and those that were over stay as they were.
LEMMA CancelEffects ==
  ASSUME TypeOK, NEW r \in Runs, CancelRun(r)
  PROVE  /\ UNCHANGED <<release, assets, artifacts, event, seenAsset, seenArtifact, held>>
         /\ event[r] # "none" /\ ci[r] # "triggered"
         /\ create' \in [Runs -> {"waiting", "view", "create"} \cup CreateEnds]
         /\ create'[r] = IF create[r] \in CreateEnds THEN create[r] ELSE "cancelled"
         /\ \A s \in Runs : s # r => create'[s] = create[s]
         /\ build' \in [Runs -> [Platforms -> BuildSteps]]
         /\ \A p \in Platforms :
              build'[r][p] = IF build[r][p] \in BuildEnds THEN build[r][p]
                             ELSE IF build[r][p] = "waiting" THEN "skipped" ELSE Stopped(build[r][p])
         /\ \A s \in Runs : s # r => build'[s] = build[s]
         /\ refresh' \in [Runs -> [Platforms -> RefreshSteps]]
         /\ \A p \in Platforms :
              refresh'[r][p] = IF refresh[r][p] \in RefreshEnds THEN refresh[r][p] ELSE "failed"
         /\ \A s \in Runs : s # r => refresh'[s] = refresh[s]
         /\ ci' \in [Runs -> {"waiting", "triggered", "skipped"}]
         /\ ci'[r] = "skipped" /\ \A s \in Runs : s # r => ci'[s] = ci[s]
<1> DEFINE Job == [p \in Platforms |-> IF build[r][p] \in BuildEnds THEN build[r][p]
                                       ELSE IF build[r][p] = "waiting" THEN "skipped" ELSE Stopped(build[r][p])]
           Fresh == [p \in Platforms |->
                       IF refresh[r][p] \in RefreshEnds THEN refresh[r][p] ELSE "failed"]
<1>1. /\ UNCHANGED <<release, assets, artifacts, event, seenAsset, seenArtifact, held>>
      /\ event[r] # "none" /\ ci[r] # "triggered"
  BY DEF CancelRun, store
<1>2. build' = [build EXCEPT ![r] = Job] /\ refresh' = [refresh EXCEPT ![r] = Fresh]
  BY DEF CancelRun
<1>3. Job \in [Platforms -> BuildSteps] /\ Fresh \in [Platforms -> RefreshSteps]
  BY DEF TypeOK, BuildSteps, BuildEnds, Stopped, RefreshSteps, RefreshEnds
<1>4. build \in [Runs -> [Platforms -> BuildSteps]] /\ refresh \in [Runs -> [Platforms -> RefreshSteps]]
  BY DEF TypeOK
<1>5. /\ build' \in [Runs -> [Platforms -> BuildSteps]] /\ build'[r] = Job
      /\ \A s \in Runs : s # r => build'[s] = build[s]
  <2> HIDE DEF Job
  <2> QED
    BY <1>2, <1>3, <1>4, Update
<1>6. /\ refresh' \in [Runs -> [Platforms -> RefreshSteps]] /\ refresh'[r] = Fresh
      /\ \A s \in Runs : s # r => refresh'[s] = refresh[s]
  <2> HIDE DEF Fresh
  <2> QED
    BY <1>2, <1>3, <1>4, Update
<1>7. /\ create' \in [Runs -> {"waiting", "view", "create"} \cup CreateEnds]
      /\ create'[r] = IF create[r] \in CreateEnds THEN create[r] ELSE "cancelled"
      /\ \A s \in Runs : s # r => create'[s] = create[s]
  BY DEF CancelRun, TypeOK, CreateEnds
<1>8. /\ ci' \in [Runs -> {"waiting", "triggered", "skipped"}]
      /\ ci'[r] = "skipped" /\ \A s \in Runs : s # r => ci'[s] = ci[s]
  BY DEF CancelRun, TypeOK
<1> QED
  BY <1>1, <1>5, <1>6, <1>7, <1>8

\* What a trigger does to the jobs of its run and to the others.
LEMMA TriggerEffects ==
  ASSUME TypeOK, NEW r \in Runs, Trigger(r)
  PROVE  \E e \in Events, resolved \in BOOLEAN :
           /\ event[r] = "none" /\ e \in AllEvents
           /\ event' = [event EXCEPT ![r] = e]
           /\ create'[r] = IF resolved /\ e # "pull_request" THEN "view" ELSE "skipped"
           /\ \A p \in Platforms :
                /\ build'[r][p] = IF resolved THEN "waiting" ELSE "skipped"
                /\ refresh'[r][p] = IF resolved /\ e = "schedule" THEN "check" ELSE "skipped"
           /\ \A s \in Runs : s # r => /\ event'[s] = event[s] /\ create'[s] = create[s]
                                       /\ build'[s] = build[s] /\ refresh'[s] = refresh[s]
           /\ UNCHANGED <<release, assets, artifacts, seenAsset, seenArtifact, held, ci>>
           /\ event' \in [Runs -> AllEvents \cup {"none"}]
           /\ create' \in [Runs -> {"waiting", "view", "create"} \cup CreateEnds]
           /\ build' \in [Runs -> [Platforms -> BuildSteps]]
           /\ refresh' \in [Runs -> [Platforms -> RefreshSteps]]
<1>1. PICK e \in Events, resolved \in BOOLEAN :
       /\ event[r] = "none"
       /\ event' = [event EXCEPT ![r] = e]
       /\ create' = [create EXCEPT ![r] =
                       IF resolved /\ e # "pull_request" THEN "view" ELSE "skipped"]
       /\ build' = [build EXCEPT ![r] =
                      [p \in Platforms |-> IF resolved THEN "waiting" ELSE "skipped"]]
       /\ refresh' = [refresh EXCEPT ![r] =
                        [p \in Platforms |->
                           IF resolved /\ e = "schedule" THEN "check" ELSE "skipped"]]
       /\ UNCHANGED <<release, assets, artifacts, seenAsset, seenArtifact, held, ci>>
  BY DEF Trigger, store
<1> DEFINE Job == [p \in Platforms |-> IF resolved THEN "waiting" ELSE "skipped"]
           Fresh == [p \in Platforms |->
                       IF resolved /\ e = "schedule" THEN "check" ELSE "skipped"]
<1>2. e \in AllEvents
  BY EventsAssumption
<1>3. Job \in [Platforms -> BuildSteps] /\ Fresh \in [Platforms -> RefreshSteps]
  BY DEF BuildSteps, BuildEnds, RefreshSteps, RefreshEnds
<1>4. build \in [Runs -> [Platforms -> BuildSteps]] /\ refresh \in [Runs -> [Platforms -> RefreshSteps]]
  BY DEF TypeOK
<1>5. build' = [build EXCEPT ![r] = Job] /\ refresh' = [refresh EXCEPT ![r] = Fresh]
  BY <1>1
<1>6. /\ build' \in [Runs -> [Platforms -> BuildSteps]] /\ build'[r] = Job
      /\ \A s \in Runs : s # r => build'[s] = build[s]
      /\ refresh' \in [Runs -> [Platforms -> RefreshSteps]] /\ refresh'[r] = Fresh
      /\ \A s \in Runs : s # r => refresh'[s] = refresh[s]
  <2> HIDE DEF Job, Fresh
  <2> QED
    BY <1>3, <1>4, <1>5, Update
<1>7. /\ event' \in [Runs -> AllEvents \cup {"none"}]
      /\ \A s \in Runs : s # r => event'[s] = event[s]
  BY <1>1, <1>2, Update DEF TypeOK
<1>8. /\ create' \in [Runs -> {"waiting", "view", "create"} \cup CreateEnds]
      /\ create'[r] = IF resolved /\ e # "pull_request" THEN "view" ELSE "skipped"
      /\ \A s \in Runs : s # r => create'[s] = create[s]
  BY <1>1 DEF TypeOK, CreateEnds
<1> QED
  BY <1>1, <1>2, <1>6, <1>7, <1>8

----------------------------------------------------------------------------
(* Types *)

LEMMA TypeInitially == Init => TypeOK
<1> SUFFICES ASSUME Init PROVE TypeOK
  OBVIOUS
<1>1. release \in BOOLEAN /\ assets \subseteq Platforms
  BY DEF Init
<1>2. artifacts \in [Platforms -> SUBSET Runs]
  BY DEF Init
<1>3. event \in [Runs -> AllEvents \cup {"none"}]
  BY DEF Init
<1>4. create \in [Runs -> {"waiting", "view", "create"} \cup CreateEnds]
  BY DEF Init
<1>5. build \in [Runs -> [Platforms -> BuildSteps]]
  BY DEF Init, BuildSteps
<1>6. seenAsset \in [Runs -> SUBSET Platforms] /\ seenArtifact \in [Runs -> SUBSET Platforms]
  BY DEF Init
<1>7. refresh \in [Runs -> [Platforms -> RefreshSteps]]
  BY DEF Init, RefreshSteps
<1>8. held \in [Runs -> [Platforms -> SUBSET Runs]]
  BY DEF Init
<1>9. ci \in [Runs -> {"waiting", "triggered", "skipped"}]
  BY DEF Init
<1> QED
  BY <1>1, <1>2, <1>3, <1>4, <1>5, <1>6, <1>7, <1>8, <1>9 DEF TypeOK

LEMMA BuildKeepsTypes ==
  ASSUME TypeOK, NEW r \in Runs, NEW p \in Platforms, BuildStep(r, p)
  PROVE  TypeOK'
<1>1. PICK step \in BuildSteps :
           /\ Goto(r, p, step)
           /\ UNCHANGED <<release, event, create, refresh, held, ci>>
           /\ \/ UNCHANGED seenAsset
              \/ \E seen \in SUBSET (assets \cap {p}) :
                   seenAsset' = [seenAsset EXCEPT ![r] = @ \cup seen]
           /\ assets' \in {assets, assets \cup {p}, assets \ {p}}
           /\ \/ UNCHANGED seenArtifact
              \/ \E seen \in (IF artifacts[p] = {} THEN {{}} ELSE {{}, {p}}) :
                   seenArtifact' = [seenArtifact EXCEPT ![r] = @ \cup seen]
           /\ \/ UNCHANGED artifacts
              \/ artifacts' = [artifacts EXCEPT ![p] = @ \cup {r}]
  BY BuildMoves
<1>2. build' \in [Runs -> [Platforms -> BuildSteps]]
  BY <1>1, Moves
<1>3. seenAsset' \in [Runs -> SUBSET Platforms]
  <2>1. ASSUME NEW seen \in SUBSET (assets \cap {p}),
               seenAsset' = [seenAsset EXCEPT ![r] = @ \cup seen]
        PROVE  seenAsset' \in [Runs -> SUBSET Platforms]
    <3>1. seenAsset \in [Runs -> SUBSET Platforms] /\ seen \subseteq Platforms
      BY DEF TypeOK
    <3>2. seenAsset[r] \cup seen \in SUBSET Platforms
      BY <3>1
    <3> QED
      BY <2>1, <3>1, <3>2, Update
  <2> QED
    BY <1>1, <2>1 DEF TypeOK
<1>4. seenArtifact' \in [Runs -> SUBSET Platforms]
  <2>1. ASSUME NEW seen \in (IF artifacts[p] = {} THEN {{}} ELSE {{}, {p}}),
               seenArtifact' = [seenArtifact EXCEPT ![r] = @ \cup seen]
        PROVE  seenArtifact' \in [Runs -> SUBSET Platforms]
    <3>1. seenArtifact \in [Runs -> SUBSET Platforms] /\ seen \subseteq Platforms
      BY DEF TypeOK
    <3>2. seenArtifact[r] \cup seen \in SUBSET Platforms
      BY <3>1
    <3> QED
      BY <2>1, <3>1, <3>2, Update
  <2> QED
    BY <1>1, <2>1 DEF TypeOK
<1>5. artifacts' \in [Platforms -> SUBSET Runs]
  BY <1>1 DEF TypeOK
<1>6. assets' \subseteq Platforms
  BY <1>1 DEF TypeOK
<1> QED
  BY <1>1, <1>2, <1>3, <1>4, <1>5, <1>6 DEF TypeOK

LEMMA RefreshKeepsTypes ==
  ASSUME TypeOK, NEW r \in Runs, NEW p \in Platforms, RefreshStep(r, p)
  PROVE  TypeOK'
<1>1. PICK step \in RefreshSteps :
           /\ RefreshTo(r, p, step)
           /\ UNCHANGED <<release, assets>>
           /\ \/ UNCHANGED held
              \/ \E id \in artifacts[p] : held' = [held EXCEPT ![r][p] = {id}]
           /\ \/ UNCHANGED artifacts
              \/ artifacts' = [artifacts EXCEPT ![p] = @ \ held[r][p]]
  BY RefreshEffects
<1>2. refresh' \in [Runs -> [Platforms -> RefreshSteps]]
  BY <1>1, RefreshMoves
<1>3. held' \in [Runs -> [Platforms -> SUBSET Runs]]
  <2>1. ASSUME NEW id \in artifacts[p], held' = [held EXCEPT ![r][p] = {id}]
        PROVE  held' \in [Runs -> [Platforms -> SUBSET Runs]]
    <3>1. {id} \in SUBSET Runs
      BY DEF TypeOK
    <3>2. held \in [Runs -> [Platforms -> SUBSET Runs]]
      BY DEF TypeOK
    <3> QED
      BY <2>1, <3>1, <3>2, UpdateTwo
  <2> QED
    BY <1>1, <2>1 DEF TypeOK
<1>4. artifacts' \in [Platforms -> SUBSET Runs]
  <2>1. artifacts \in [Platforms -> SUBSET Runs] /\ artifacts[p] \ held[r][p] \in SUBSET Runs
    BY DEF TypeOK
  <2> QED
    BY <1>1, <2>1, Update
<1>5. UNCHANGED <<event, create, build, seenAsset, seenArtifact, ci>>
  BY <1>1 DEF RefreshTo
<1> QED
  BY <1>1, <1>2, <1>3, <1>4, <1>5 DEF TypeOK

LEMMA TypeStep ==
  ASSUME TypeOK, [Next]_vars
  PROVE  TypeOK'
<1>1. ASSUME NEW r \in Runs, Trigger(r) PROVE TypeOK'
  BY <1>1, TriggerEffects DEF TypeOK
<1>2. ASSUME NEW r \in Runs, ViewRelease(r) \/ CreateRelease(r) PROVE TypeOK'
  <2>1. create' \in [Runs -> {"waiting", "view", "create"} \cup CreateEnds]
    BY <1>2 DEF TypeOK, CreateEnds, ViewRelease, CreateRelease
  <2>2. release' \in BOOLEAN
    BY <1>2 DEF TypeOK, ViewRelease, CreateRelease, store
  <2>3. UNCHANGED <<assets, artifacts, event, build, seenAsset, seenArtifact, refresh, held, ci>>
    BY <1>2 DEF ViewRelease, CreateRelease, store
  <2> QED
    BY <2>1, <2>2, <2>3 DEF TypeOK
<1>3. ASSUME NEW r \in Runs, StartBuild(r) PROVE TypeOK'
  <2>1. [p \in Platforms |-> IF create[r] = "failed" THEN "skipped" ELSE "check release"]
          \in [Platforms -> BuildSteps]
    BY DEF BuildSteps, BuildEnds
  <2>2. build' \in [Runs -> [Platforms -> BuildSteps]]
    BY <1>3, <2>1, Update DEF StartBuild, TypeOK
  <2>3. /\ UNCHANGED <<release, assets, artifacts, event, create, seenAsset, seenArtifact>>
        /\ UNCHANGED <<refresh, held, ci>>
    BY <1>3 DEF StartBuild, KeepRest, store
  <2> QED
    BY <2>2, <2>3 DEF TypeOK
<1>4. ASSUME NEW r \in Runs, TriggerCI(r) PROVE TypeOK'
  <2>1. ci' \in [Runs -> {"waiting", "triggered", "skipped"}]
    BY <1>4 DEF TriggerCI, TypeOK
  <2>2. /\ UNCHANGED <<release, assets, artifacts, event, create, build, seenAsset, seenArtifact>>
        /\ UNCHANGED <<refresh, held>>
    BY <1>4 DEF TriggerCI, store
  <2> QED
    BY <2>1, <2>2 DEF TypeOK
<1>5. ASSUME NEW r \in Runs, NEW p \in Platforms, BuildStep(r, p) PROVE TypeOK'
  BY <1>5, BuildKeepsTypes
<1>6. ASSUME NEW r \in Runs, NEW p \in Platforms, RefreshStep(r, p) PROVE TypeOK'
  BY <1>6, RefreshKeepsTypes
<1>7. ASSUME NEW p \in Platforms, Expire(p) PROVE TypeOK'
  <2>1. artifacts' \in [Platforms -> SUBSET Runs]
    BY <1>7 DEF Expire, TypeOK
  <2> QED
    BY <1>7, <2>1 DEF Expire, jobs, TypeOK
<1>8. ASSUME NEW r \in Runs, CancelRun(r) PROVE TypeOK'
  BY <1>8, CancelEffects DEF TypeOK
<1>9. CASE UNCHANGED vars
  BY <1>9 DEF vars, store, jobs, TypeOK
<1> QED
  BY <1>1, <1>2, <1>3, <1>4, <1>5, <1>6, <1>7, <1>8, <1>9 DEF Next, RunStep

----------------------------------------------------------------------------
(* The order of the jobs *)

JobOrdered(r) ==
  /\ event[r] = "none" => create[r] = "waiting"
  /\ event[r] = "pull_request" => create[r] = "skipped"
  /\ create[r] \in {"found", "created"} => release

BuildOrdered(r, p) ==
  /\ build[r][p] # "waiting" => create[r] \in CreateEnds
  /\ create[r] = "failed" => build[r][p] \in {"waiting", "skipped"}
  /\ \/ create[r] = "cancelled"
     \/ create[r] = "skipped" /\ event[r] # "pull_request"
     => build[r][p] = "skipped"
  /\ build[r][p] = "upload" => event[r] # "pull_request"

RefreshOrdered(r, p) ==
  /\ refresh[r][p] \notin {"waiting", "skipped"} => event[r] = "schedule"
  /\ refresh[r][p] = "waiting" => event[r] = "none"

LEMMA OrderPointwise ==
  JobsInOrder <=> \A r \in Runs : JobOrdered(r) /\ \A p \in Platforms :
                                    BuildOrdered(r, p) /\ RefreshOrdered(r, p)
BY DEF JobsInOrder, JobOrdered, BuildOrdered, RefreshOrdered

LEMMA OrderStep ==
  ASSUME TypeOK, JobsInOrder, [Next]_vars
  PROVE  JobsInOrder'
<1>0. \A r \in Runs : JobOrdered(r) /\ \A p \in Platforms :
                        BuildOrdered(r, p) /\ RefreshOrdered(r, p)
  BY OrderPointwise
<1>q. (\A r \in Runs : JobOrdered(r)' /\ \A p \in Platforms :
                         BuildOrdered(r, p)' /\ RefreshOrdered(r, p)') => JobsInOrder'
  BY DEF JobsInOrder, JobOrdered, BuildOrdered, RefreshOrdered
<1> SUFFICES ASSUME NEW s \in Runs
             PROVE  JobOrdered(s)' /\ \A q \in Platforms :
                      BuildOrdered(s, q)' /\ RefreshOrdered(s, q)'
  BY <1>q
<1>1. ASSUME NEW r \in Runs, Trigger(r)
      PROVE  JobOrdered(s)' /\ \A q \in Platforms : BuildOrdered(s, q)' /\ RefreshOrdered(s, q)'
  <2>1. PICK e \in Events, resolved \in BOOLEAN :
       /\ event[r] = "none" /\ e \in AllEvents /\ event' = [event EXCEPT ![r] = e]
       /\ create'[r] = IF resolved /\ e # "pull_request" THEN "view" ELSE "skipped"
       /\ \A p \in Platforms :
            /\ build'[r][p] = IF resolved THEN "waiting" ELSE "skipped"
            /\ refresh'[r][p] = IF resolved /\ e = "schedule" THEN "check" ELSE "skipped"
       /\ \A t \in Runs : t # r => /\ event'[t] = event[t] /\ create'[t] = create[t]
                                   /\ build'[t] = build[t] /\ refresh'[t] = refresh[t]
       /\ UNCHANGED release
    BY <1>1, TriggerEffects
  <2>2. CASE s # r
    BY <1>0, <2>1, <2>2 DEF JobOrdered, BuildOrdered, RefreshOrdered
  <2>3. CASE s = r
    <3>1. event'[s] = e /\ e # "none"
      BY <2>1, <2>3 DEF TypeOK, AllEvents
    <3>2. CASE resolved
      BY <2>1, <2>3, <3>1, <3>2 DEF JobOrdered, BuildOrdered, RefreshOrdered
    <3>3. CASE ~resolved
      BY <2>1, <2>3, <3>1, <3>3 DEF JobOrdered, BuildOrdered, RefreshOrdered, CreateEnds
    <3> QED
      BY <3>2, <3>3
  <2> QED
    BY <2>2, <2>3
<1>2. ASSUME NEW r \in Runs, ViewRelease(r) \/ CreateRelease(r)
      PROVE  JobOrdered(s)' /\ \A q \in Platforms : BuildOrdered(s, q)' /\ RefreshOrdered(s, q)'
  <2>1. /\ UNCHANGED <<event, build, refresh>> /\ (release => release')
        /\ create[r] \in {"view", "create"}
        /\ create'[r] \in {"found", "created", "create", "failed"}
        /\ create'[r] \in {"found", "created"} => release'
        /\ s # r => create'[s] = create[s]
    BY <1>2 DEF ViewRelease, CreateRelease, store, TypeOK
  <2>2. CASE s # r
    BY <1>0, <2>1, <2>2 DEF JobOrdered, BuildOrdered, RefreshOrdered
  <2>3. CASE s = r
    <3>1. \A q \in Platforms : build[s][q] = "waiting"
      BY <1>0, <2>1, <2>3 DEF BuildOrdered, CreateEnds
    <3> QED
      BY <1>0, <2>1, <2>3, <3>1 DEF JobOrdered, BuildOrdered, RefreshOrdered
  <2> QED
    BY <2>2, <2>3
<1>3. ASSUME NEW r \in Runs, StartBuild(r)
      PROVE  JobOrdered(s)' /\ \A q \in Platforms : BuildOrdered(s, q)' /\ RefreshOrdered(s, q)'
  <2>1. /\ UNCHANGED <<release, event, create, refresh>> /\ create[r] \in CreateEnds
        /\ \A q \in Platforms : build[r][q] = "waiting"
        /\ s # r => build'[s] = build[s]
        /\ s = r => \A q \in Platforms :
                      build'[s][q] = IF create[r] = "failed" THEN "skipped" ELSE "check release"
    BY <1>3 DEF StartBuild, KeepRest, store, TypeOK
  <2>2. JobOrdered(s)' /\ \A q \in Platforms : RefreshOrdered(s, q)'
    BY <1>0, <2>1 DEF JobOrdered, RefreshOrdered
  <2>3. ASSUME NEW q \in Platforms PROVE BuildOrdered(s, q)'
    <3>1. BuildOrdered(s, q)
      BY <1>0
    <3>2. CASE s # r
      BY <2>1, <3>1, <3>2 DEF BuildOrdered
    <3>3. CASE s = r
      <4>1. /\ create[s] # "cancelled"
            /\ create[s] = "skipped" => event[s] = "pull_request"
        BY <2>1, <3>1, <3>3 DEF BuildOrdered
      <4> QED
        BY <2>1, <3>3, <4>1 DEF BuildOrdered
    <3> QED
      BY <3>2, <3>3
  <2> QED
    BY <2>2, <2>3
<1>4. CASE UNCHANGED <<release, event, create, build, refresh>>
  BY <1>0, <1>4 DEF JobOrdered, BuildOrdered, RefreshOrdered
<1>5. ASSUME NEW r \in Runs, NEW p \in Platforms, BuildStep(r, p)
      PROVE  JobOrdered(s)' /\ \A q \in Platforms : BuildOrdered(s, q)' /\ RefreshOrdered(s, q)'
  <2>1. PICK step \in BuildSteps :
           /\ Goto(r, p, step)
           /\ \/ build[r][p] \notin {"waiting", "skipped"}
              \/ \E q \in Platforms : build[r][q] \in {"failed", "torn"}
           /\ UNCHANGED <<release, event, create, refresh>>
           /\ step = "upload" => event[r] # "pull_request"
    BY <1>5, BuildMoves
  <2>2. /\ build'[r][p] = step
        /\ \A q \in Platforms : s # r \/ q # p => build'[s][q] = build[s][q]
    BY <2>1, Moves
  <2>3. /\ create[r] \in CreateEnds /\ create[r] \notin {"failed", "cancelled"}
        /\ create[r] = "skipped" => event[r] = "pull_request"
    BY <1>0, <2>1 DEF BuildOrdered
  <2> QED
    BY <1>0, <2>1, <2>2, <2>3 DEF JobOrdered, BuildOrdered, RefreshOrdered
<1>6. ASSUME NEW r \in Runs, NEW p \in Platforms, RefreshStep(r, p)
      PROVE  JobOrdered(s)' /\ \A q \in Platforms : BuildOrdered(s, q)' /\ RefreshOrdered(s, q)'
  <2>1. PICK step \in RefreshSteps :
           /\ RefreshTo(r, p, step) /\ refresh[r][p] \notin {"waiting", "skipped"}
           /\ step # "waiting" /\ UNCHANGED release
    BY <1>6, RefreshEffects
  <2>2. /\ \A q \in Platforms : s # r \/ q # p => refresh'[s][q] = refresh[s][q]
        /\ UNCHANGED <<event, create, build>>
    BY <2>1, RefreshMoves DEF RefreshTo
  <2>3. event[r] = "schedule"
    BY <1>0, <2>1 DEF RefreshOrdered
  <2>4. JobOrdered(s)' /\ \A q \in Platforms : BuildOrdered(s, q)'
    BY <1>0, <2>1, <2>2 DEF JobOrdered, BuildOrdered
  <2>5. ASSUME NEW q \in Platforms PROVE RefreshOrdered(s, q)'
    <3>1. CASE s = r /\ q = p
      BY <2>1, <2>2, <2>3, <3>1, RefreshMoves DEF RefreshOrdered
    <3>2. CASE s # r \/ q # p
      BY <1>0, <2>2, <3>2 DEF RefreshOrdered
    <3> QED
      BY <3>1, <3>2
  <2> QED
    BY <2>4, <2>5
<1>7. ASSUME NEW r \in Runs, TriggerCI(r) PROVE UNCHANGED <<release, event, create, build, refresh>>
  BY <1>7 DEF TriggerCI, store
<1>8. ASSUME NEW p \in Platforms, Expire(p)
      PROVE  UNCHANGED <<release, event, create, build, refresh>>
  BY <1>8 DEF Expire, jobs
<1>9. ASSUME NEW r \in Runs, CancelRun(r)
      PROVE  JobOrdered(s)' /\ \A q \in Platforms : BuildOrdered(s, q)' /\ RefreshOrdered(s, q)'
  <2>1. CASE s # r
    <3>1. /\ create'[s] = create[s] /\ build'[s] = build[s] /\ refresh'[s] = refresh[s]
          /\ UNCHANGED <<release, event>>
      BY <1>9, <2>1, CancelEffects
    <3> QED
      BY <1>0, <3>1 DEF JobOrdered, BuildOrdered, RefreshOrdered
  <2>2. CASE s = r
    <3>1. /\ UNCHANGED <<release, event>> /\ event[r] # "none"
          /\ create'[r] = IF create[r] \in CreateEnds THEN create[r] ELSE "cancelled"
          /\ \A q \in Platforms :
               build'[r][q] = IF build[r][q] \in BuildEnds THEN build[r][q]
                              ELSE IF build[r][q] = "waiting" THEN "skipped" ELSE Stopped(build[r][q])
          /\ \A q \in Platforms :
               refresh'[r][q] = IF refresh[r][q] \in RefreshEnds THEN refresh[r][q] ELSE "failed"
      BY <1>9, CancelEffects
    <3>2. JobOrdered(s)'
      BY <1>0, <2>2, <3>1 DEF JobOrdered, CreateEnds
    <3>3. ASSUME NEW q \in Platforms PROVE BuildOrdered(s, q)'
      <4>1. create'[r] \in CreateEnds
        BY <3>1 DEF CreateEnds
      <4>2. build'[r][q] # "upload"
        BY <3>1 DEF BuildEnds, Stopped
      <4>3. CASE build[r][q] \in {"waiting", "skipped"}
        BY <2>2, <3>1, <4>1, <4>2, <4>3 DEF BuildOrdered, BuildEnds
      <4>4. CASE build[r][q] \notin {"waiting", "skipped"}
        <5>1. create'[r] = create[r]
          BY <1>0, <2>2, <3>1, <4>4 DEF BuildOrdered
        <5> QED
          BY <1>0, <2>2, <3>1, <4>1, <4>2, <4>4, <5>1 DEF BuildOrdered
      <4> QED
        BY <4>3, <4>4
    <3>4. ASSUME NEW q \in Platforms PROVE RefreshOrdered(s, q)'
      BY <1>0, <2>2, <3>1 DEF RefreshOrdered, RefreshEnds
    <3> QED
      BY <3>2, <3>3, <3>4
  <2> QED
    BY <2>1, <2>2
<1>10. CASE UNCHANGED vars
  BY <1>4, <1>10 DEF vars, store, jobs
<1> QED
  BY <1>1, <1>2, <1>3, <1>4, <1>5, <1>6, <1>7, <1>8, <1>9, <1>10 DEF Next, RunStep

----------------------------------------------------------------------------
(* Assets *)

\* The only step that takes an asset away is the one that starts to replace it.
LEMMA PublishedStep ==
  ASSUME TypeOK, JobsInOrder, SeenArePublished, [Next]_vars
  PROVE  SeenArePublished'
<1> DEFINE Needs(r, p) == \/ p \in seenAsset[r]
                          \/ /\ build[r][p] \in {"upload artifact", "success"}
                             /\ event[r] # "pull_request"
           Safe(p) == p \in assets \/ \E r \in Runs : build[r][p] \in {"upload", "torn"}
<1>0. \A r \in Runs, p \in Platforms : Needs(r, p) => Safe(p)
  BY DEF SeenArePublished, Clobbered
<1> SUFFICES ASSUME NEW s \in Runs, NEW q \in Platforms, Needs(s, q)'
             PROVE  Safe(q)'
  BY DEF SeenArePublished, Clobbered
<1>2. CASE UNCHANGED <<assets, build, seenAsset>> /\ event' = event
  BY <1>0, <1>2
<1>3. ASSUME NEW r \in Runs, Trigger(r) PROVE Safe(q)'
  <2> HIDE DEF Needs, Safe
  <2>1. /\ UNCHANGED <<assets, seenAsset>> /\ event[r] = "none"
        /\ \A p \in Platforms : build'[r][p] \in {"waiting", "skipped"}
        /\ \A t \in Runs : t # r => event'[t] = event[t] /\ build'[t] = build[t]
    BY <1>3, TriggerEffects
  <2> USE DEF Needs, Safe
  <2>w. \A p \in Platforms : build[r][p] = "waiting"
    BY <2>1 DEF JobsInOrder, CreateEnds
  <2>2. Needs(s, q)
    BY <2>1
  <2>3. Safe(q)
    BY <1>0, <2>2
  <2> QED
    BY <2>1, <2>w, <2>3
<1>4. ASSUME NEW r \in Runs, StartBuild(r) PROVE Safe(q)'
  <2>1. /\ UNCHANGED <<assets, seenAsset, event>>
        /\ \A t \in Runs : t # r => build'[t] = build[t]
        /\ \A p \in Platforms : /\ build[r][p] = "waiting"
                                /\ build'[r][p] \in {"skipped", "check release"}
    BY <1>4 DEF StartBuild, KeepRest, store, TypeOK
  <2>2. Needs(s, q)
    BY <2>1
  <2>3. Safe(q)
    BY <1>0, <2>2
  <2> QED
    BY <2>1, <2>3
<1>5. ASSUME NEW r \in Runs, NEW p \in Platforms, BuildStep(r, p) PROVE Safe(q)'
  <2>1. PICK step \in BuildSteps :
           /\ Goto(r, p, step) /\ build[r][p] \notin {"success", "torn"}
           /\ event' = event
           /\ \/ UNCHANGED seenAsset
              \/ \E seen \in SUBSET (assets \cap {p}) :
                   seenAsset' = [seenAsset EXCEPT ![r] = @ \cup seen]
           /\ \/ assets' = assets /\ (build[r][p] = "upload" => step = "torn")
              \/ assets' = assets \cup {p} /\ step = "upload artifact"
              \/ assets' = assets \ {p} /\ step = "upload"
           /\ step \in {"upload artifact", "success"} /\ event[r] # "pull_request" =>
                p \in assets' \/ p \in seenAsset[r] \/ build[r][p] = "upload artifact"
    BY <1>5, BuildMoves
  <2>a. Goto(r, p, step)
    BY <2>1
  <2>2. /\ build'[r][p] = step
        /\ \A t \in Runs, u \in Platforms : t # r \/ u # p => build'[t][u] = build[t][u]
    BY <2>a, Moves, ZenonT(40)
  <2>3. ASSUME Safe(q) PROVE Safe(q)'
    <3>1. CASE q # p
      BY <2>1, <2>2, <2>3, <3>1
    <3>2. CASE q = p /\ assets' = assets \ {p} /\ step = "upload"
      BY <2>2, <3>2
    <3>3. CASE q = p /\ assets' = assets \cup {p}
      BY <3>3
    <3>4. CASE q = p /\ assets' = assets /\ (build[r][p] = "upload" => step = "torn")
      <4>1. CASE q \in assets
        BY <3>4, <4>1
      <4>2. ASSUME NEW t \in Runs, build[t][q] \in {"upload", "torn"} PROVE Safe(q)'
        <5>1. CASE t = r
          BY <2>1, <2>2, <3>4, <4>2, <5>1
        <5>2. CASE t # r
          BY <2>2, <4>2, <5>2
        <5> QED
          BY <5>1, <5>2
      <4> QED
        BY <2>3, <4>1, <4>2
    <3> QED
      BY <2>1, <3>1, <3>2, <3>3, <3>4
  <2>4. q \in assets' \/ q \in assets \/ Needs(s, q)
    <3>1. seenAsset'[s] \subseteq seenAsset[s] \cup assets
      <4>1. ASSUME NEW seen \in SUBSET (assets \cap {p}),
                   seenAsset' = [seenAsset EXCEPT ![r] = @ \cup seen]
            PROVE  seenAsset'[s] \subseteq seenAsset[s] \cup assets
        BY <4>1 DEF TypeOK
      <4> QED
        BY <2>1, <4>1
    <3>2. CASE s = r /\ q = p
      BY <2>1, <2>2, <3>1, <3>2
    <3>3. CASE s # r \/ q # p
      BY <2>1, <2>2, <3>1, <3>3
    <3> QED
      BY <3>2, <3>3
  <2> QED
    BY <1>0, <2>3, <2>4
<1>6. ASSUME NEW r \in Runs, NEW p \in Platforms, RefreshStep(r, p)
      PROVE  UNCHANGED <<assets, build, seenAsset>> /\ event' = event
  BY <1>6, RefreshEffects DEF RefreshTo
<1>7. ASSUME NEW r \in Runs, ViewRelease(r) \/ CreateRelease(r) \/ TriggerCI(r)
      PROVE  UNCHANGED <<assets, build, seenAsset>> /\ event' = event
  BY <1>7 DEF ViewRelease, CreateRelease, TriggerCI, store
<1>8. ASSUME NEW p \in Platforms, Expire(p)
      PROVE  UNCHANGED <<assets, build, seenAsset>> /\ event' = event
  BY <1>8 DEF Expire, jobs
<1>9. ASSUME NEW r \in Runs, CancelRun(r) PROVE Safe(q)'
  <2>1. /\ UNCHANGED <<assets, seenAsset, event>>
        /\ \A t \in Runs : t # r => build'[t] = build[t]
        /\ \A p \in Platforms :
             build'[r][p] = IF build[r][p] \in BuildEnds THEN build[r][p]
                            ELSE IF build[r][p] = "waiting" THEN "skipped" ELSE Stopped(build[r][p])
    BY <1>9, CancelEffects
  <2>2. Needs(s, q)
    BY <2>1 DEF BuildEnds, Stopped
  <2>3. Safe(q)
    BY <1>0, <2>2
  <2> QED
    BY <2>1, <2>3 DEF BuildEnds, Stopped
<1>10. CASE UNCHANGED vars
  BY <1>2, <1>10 DEF vars, store, jobs
<1> QED
  BY <1>2, <1>3, <1>4, <1>5, <1>6, <1>7, <1>8, <1>9, <1>10 DEF Next, RunStep
----------------------------------------------------------------------------
(* CI, and the artifacts *)

LEMMA TriggeredStep ==
  ASSUME TypeOK, JobsInOrder, TriggeredSucceeded, [Next]_vars
  PROVE  TriggeredSucceeded'
<1> SUFFICES ASSUME NEW s \in Runs, ci'[s] = "triggered"
             PROVE  event'[s] # "pull_request" /\ \A q \in Platforms : build'[s][q] = "success"
  BY DEF TriggeredSucceeded
<1>0. ci[s] = "triggered" =>
        event[s] # "pull_request" /\ \A q \in Platforms : build[s][q] = "success"
  BY DEF TriggeredSucceeded
<1>1. CASE UNCHANGED <<event, build, ci>>
  BY <1>0, <1>1
<1>2. ASSUME NEW r \in Runs, Trigger(r)
      PROVE  event'[s] # "pull_request" /\ \A q \in Platforms : build'[s][q] = "success"
  <2>1. /\ UNCHANGED ci /\ event[r] = "none"
        /\ \A t \in Runs : t # r => event'[t] = event[t] /\ build'[t] = build[t]
    BY <1>2, TriggerEffects
  <2>2. \A q \in Platforms : build[r][q] = "waiting"
    BY <2>1 DEF JobsInOrder, CreateEnds
  <2>3. s # r
    BY <1>0, <2>1, <2>2, PlatformsAssumption
  <2> QED
    BY <1>0, <2>1, <2>3
<1>3. ASSUME NEW r \in Runs, StartBuild(r)
      PROVE  event'[s] # "pull_request" /\ \A q \in Platforms : build'[s][q] = "success"
  <2>1. /\ UNCHANGED <<event, ci>> /\ \A q \in Platforms : build[r][q] = "waiting"
        /\ s # r => build'[s] = build[s]
    BY <1>3 DEF StartBuild, KeepRest, TypeOK
  <2> QED
    BY <1>0, <2>1, PlatformsAssumption
<1>4. ASSUME NEW r \in Runs, TriggerCI(r)
      PROVE  event'[s] # "pull_request" /\ \A q \in Platforms : build'[s][q] = "success"
  <2>1. /\ UNCHANGED <<event, build>> /\ (s # r => ci'[s] = ci[s])
        /\ s = r => create[r] # "skipped" /\ \A p \in Platforms : build[r][p] = "success"
    BY <1>4 DEF TriggerCI, TypeOK
  <2> QED
    BY <1>0, <2>1 DEF JobsInOrder
<1>5. ASSUME NEW r \in Runs, NEW p \in Platforms, BuildStep(r, p)
      PROVE  event'[s] # "pull_request" /\ \A q \in Platforms : build'[s][q] = "success"
  <2>1. PICK step \in BuildSteps :
           Goto(r, p, step) /\ build[r][p] # "success" /\ UNCHANGED <<event, ci>>
    BY <1>5, BuildMoves
  <2>2. \A q \in Platforms : s # r => build'[s][q] = build[s][q]
    BY <2>1, Moves
  <2> QED
    BY <1>0, <2>1, <2>2
<1>6. ASSUME NEW r \in Runs, NEW p \in Platforms, RefreshStep(r, p)
      PROVE  UNCHANGED <<event, build, ci>>
  BY <1>6, RefreshEffects DEF RefreshTo
<1>7. ASSUME NEW r \in Runs, ViewRelease(r) \/ CreateRelease(r) PROVE UNCHANGED <<event, build, ci>>
  BY <1>7 DEF ViewRelease, CreateRelease
<1>8. ASSUME NEW p \in Platforms, Expire(p) PROVE UNCHANGED <<event, build, ci>>
  BY <1>8 DEF Expire, jobs
<1>9. ASSUME NEW r \in Runs, CancelRun(r)
      PROVE  event'[s] # "pull_request" /\ \A q \in Platforms : build'[s][q] = "success"
  <2>1. /\ ci'[r] = "skipped" /\ UNCHANGED event
        /\ \A t \in Runs : t # r => ci'[t] = ci[t] /\ build'[t] = build[t]
    BY <1>9, CancelEffects
  <2> QED
    BY <1>0, <2>1
<1>10. CASE UNCHANGED vars
  BY <1>1, <1>10 DEF vars, jobs
<1> QED
  BY <1>1, <1>2, <1>3, <1>4, <1>5, <1>6, <1>7, <1>8, <1>9, <1>10 DEF Next, RunStep

LEMMA StoredStep ==
  ASSUME TypeOK, JobsInOrder, SeenAreStored, [Next]_vars
  PROVE  SeenAreStored'
<1> SUFFICES ASSUME ~Expiring, \A r \in Runs : event'[r] # "schedule",
                    NEW s \in Runs, NEW q \in Platforms,
                    q \in seenArtifact'[s] \/ build'[s][q] = "success"
             PROVE  artifacts'[q] # {}
  BY DEF SeenAreStored
<1>1. \A r \in Runs : event[r] # "schedule"
  <2>1. ASSUME NEW r \in Runs, Trigger(r) PROVE \A t \in Runs : event[t] # "schedule"
    <3>1. event[r] = "none" /\ \A t \in Runs : t # r => event'[t] = event[t]
      BY <2>1 DEF Trigger, TypeOK
    <3> QED
      BY <3>1
  <2>2. ASSUME NEW r \in Runs, RunStep(r) PROVE event' = event
    <3>1. ASSUME NEW p \in Platforms, BuildStep(r, p) PROVE event' = event
      BY <3>1, BuildMoves
    <3>2. ASSUME NEW p \in Platforms, RefreshStep(r, p) PROVE event' = event
      BY <3>2, RefreshEffects DEF RefreshTo
    <3> QED
      BY <2>2, <3>1, <3>2 DEF RunStep, ViewRelease, CreateRelease, StartBuild, TriggerCI, KeepRest
  <2>3. ASSUME NEW p \in Platforms, Expire(p) PROVE event' = event
    BY <2>3 DEF Expire, jobs
  <2>4. ASSUME NEW r \in Runs, CancelRun(r) PROVE event' = event
    BY <2>4, CancelEffects
  <2>5. CASE UNCHANGED vars
    BY <2>5 DEF vars, jobs
  <2> QED
    BY <2>1, <2>2, <2>3, <2>4, <2>5 DEF Next
<1>0. \A r \in Runs, p \in Platforms :
        p \in seenArtifact[r] \/ build[r][p] = "success" => artifacts[p] # {}
  BY <1>1 DEF SeenAreStored
<1>2. CASE UNCHANGED <<artifacts, build, seenArtifact>>
  BY <1>0, <1>2
<1>3. ASSUME NEW r \in Runs, StartBuild(r) PROVE artifacts'[q] # {}
  <2>1. /\ UNCHANGED <<artifacts, seenArtifact>>
        /\ s # r => build'[s] = build[s]
        /\ s = r => build'[s][q] \in {"skipped", "check release"}
    BY <1>3 DEF StartBuild, KeepRest, store, TypeOK
  <2> QED
    BY <1>0, <2>1
<1>4. ASSUME NEW r \in Runs, NEW p \in Platforms, BuildStep(r, p) PROVE artifacts'[q] # {}
  <2>1. PICK step \in BuildSteps :
           /\ Goto(r, p, step)
           /\ \/ UNCHANGED seenArtifact
              \/ \E seen \in (IF artifacts[p] = {} THEN {{}} ELSE {{}, {p}}) :
                   seenArtifact' = [seenArtifact EXCEPT ![r] = @ \cup seen]
           /\ \/ UNCHANGED artifacts
              \/ artifacts' = [artifacts EXCEPT ![p] = @ \cup {r}]
           /\ step = "success" =>
                \/ p \in seenArtifact[r] \/ artifacts[p] # {}
                \/ artifacts' = [artifacts EXCEPT ![p] = @ \cup {r}]
    BY <1>4, BuildMoves
  <2>a. Goto(r, p, step)
    BY <2>1
  <2>2. build'[r][p] = step /\ (s # r \/ q # p => build'[s][q] = build[s][q])
    BY <2>a, Moves
  <2>b. UNCHANGED artifacts \/ artifacts' = [artifacts EXCEPT ![p] = @ \cup {r}]
    BY <2>1
  <2>3. artifacts[q] \subseteq artifacts'[q]
    BY <2>b, ZenonT(40) DEF TypeOK
  <2>4. artifacts' = [artifacts EXCEPT ![p] = @ \cup {r}] => artifacts'[p] # {}
    BY DEF TypeOK
  <2>5. q \in seenArtifact'[s] => q \in seenArtifact[s] \/ artifacts[q] # {}
    <3>1. ASSUME NEW seen \in (IF artifacts[p] = {} THEN {{}} ELSE {{}, {p}}),
                 seenArtifact' = [seenArtifact EXCEPT ![r] = @ \cup seen],
                 q \in seenArtifact'[s]
          PROVE  q \in seenArtifact[s] \/ artifacts[q] # {}
      <4>1. q \in seenArtifact[s] \/ q \in seen
        BY <3>1 DEF TypeOK
      <4>2. q \in seen => artifacts[q] # {}
        OBVIOUS
      <4> QED
        BY <4>1, <4>2
    <3> QED
      BY <2>1, <3>1
  <2>6. CASE q \in seenArtifact'[s]
    BY <1>0, <2>3, <2>5, <2>6
  <2>7. CASE build'[s][q] = "success"
    <3>1. CASE s = r /\ q = p
      BY <1>0, <2>1, <2>2, <2>3, <2>4, <2>7, <3>1
    <3>2. CASE s # r \/ q # p
      BY <1>0, <2>2, <2>3, <2>7, <3>2
    <3> QED
      BY <3>1, <3>2
  <2> QED
    BY <2>6, <2>7
<1>5. ASSUME NEW r \in Runs, NEW p \in Platforms, RefreshStep(r, p) PROVE artifacts'[q] # {}
  <2>1. refresh[r][p] \notin {"waiting", "skipped"}
    BY <1>5, RefreshEffects
  <2> QED
    BY <1>1, <2>1 DEF JobsInOrder
<1>6. ASSUME NEW r \in Runs, ViewRelease(r) \/ CreateRelease(r) \/ TriggerCI(r)
      PROVE  UNCHANGED <<artifacts, build, seenArtifact>>
  BY <1>6 DEF ViewRelease, CreateRelease, TriggerCI, store
<1>7. ASSUME NEW p \in Platforms, Expire(p) PROVE FALSE
  BY <1>7 DEF Expire
<1>8. ASSUME NEW r \in Runs, Trigger(r) \/ CancelRun(r) PROVE artifacts'[q] # {}
  <2>1. /\ UNCHANGED <<artifacts, seenArtifact>> /\ (s # r => build'[s] = build[s])
        /\ build'[r][q] = "success" => build[r][q] = "success"
    <3>1. CASE Trigger(r)
      BY <3>1, TriggerEffects
    <3>2. CASE CancelRun(r)
      BY <3>2, CancelEffects DEF Stopped
    <3> QED
      BY <1>8, <3>1, <3>2
  <2> QED
    BY <1>0, <2>1
<1>9. CASE UNCHANGED vars
  BY <1>2, <1>9 DEF vars, store, jobs
<1> QED
  BY <1>2, <1>3, <1>4, <1>5, <1>6, <1>7, <1>8, <1>9 DEF Next, RunStep

\* What a step of a refresh job does to the artifact it has found.
LEMMA RefreshOutcomes ==
  ASSUME TypeOK, NEW r \in Runs, NEW p \in Platforms, RefreshStep(r, p)
  PROVE  \E step \in RefreshSteps :
           /\ RefreshTo(r, p, step) /\ step \notin {"waiting", "check", "skipped"}
           /\ \/ /\ step # "success" /\ UNCHANGED artifacts
                 /\ \/ UNCHANGED held
                    \/ \E id \in artifacts[p] : held' = [held EXCEPT ![r][p] = {id}]
              \/ /\ step = "success" /\ refresh[r][p] = "check"
                 /\ UNCHANGED <<artifacts, held>>
              \/ /\ step = "success" /\ held[r][p] \subseteq artifacts[p]
                 /\ artifacts' = [artifacts EXCEPT ![p] = @ \ held[r][p]] /\ UNCHANGED held
<1>1. CASE CheckRefresh(r, p)
  BY <1>1, StepNames DEF CheckRefresh, store
<1>2. CASE DownloadOld(r, p)
  BY <1>2, StepNames DEF DownloadOld, store
<1>3. CASE Reupload(r, p)
  BY <1>3, StepNames DEF Reupload, store
<1>4. CASE DeleteOld(r, p)
  BY <1>4, StepNames DEF DeleteOld
<1> QED
  BY <1>1, <1>2, <1>3, <1>4 DEF RefreshStep

\* An artifact comes with the end of the build job that it is named after, so that none
\* returns once it is deleted.
LEMMA DeletedStep ==
  ASSUME TypeOK, JobsInOrder, DeletedAreGone, [Next]_vars
  PROVE  DeletedAreGone'
<1> DEFINE Made(p) == \A id \in Runs, r \in Runs :
                        id \in artifacts[p] \/ id \in held[r][p] => build[id][p] = "success"
           Gone(r, p) ==
             /\ refresh[r][p] \in {"waiting", "check", "skipped"} => held[r][p] = {}
             /\ refresh[r][p] = "success" => held[r][p] \cap artifacts[p] = {}
<1>0. \A p \in Platforms : Made(p) /\ \A r \in Runs : Gone(r, p)
  BY DEF DeletedAreGone
<1>t. \A p \in Platforms, r \in Runs : artifacts'[p] \subseteq Runs /\ held'[r][p] \subseteq Runs
  BY TypeStep DEF TypeOK
<1> SUFFICES ASSUME NEW q \in Platforms PROVE Made(q)' /\ \A s \in Runs : Gone(s, q)'
  BY <1>t DEF DeletedAreGone
<1>1. CASE UNCHANGED <<artifacts, held, refresh, build>>
  BY <1>0, <1>1
<1>2. ASSUME NEW r \in Runs, Trigger(r) PROVE Made(q)' /\ \A s \in Runs : Gone(s, q)'
  <2>1. /\ UNCHANGED <<artifacts, held>> /\ event[r] = "none"
        /\ refresh'[r][q] \in {"check", "skipped"}
        /\ \A t \in Runs : t # r => refresh'[t] = refresh[t] /\ build'[t] = build[t]
    BY <1>2, TriggerEffects
  <2>2. build[r][q] = "waiting" /\ refresh[r][q] \in {"waiting", "skipped"}
    BY <2>1 DEF JobsInOrder, CreateEnds
  <2> QED
    BY <1>0, <2>1, <2>2
<1>3. ASSUME NEW r \in Runs, StartBuild(r) PROVE Made(q)' /\ \A s \in Runs : Gone(s, q)'
  <2>1. /\ UNCHANGED <<artifacts, held, refresh>> /\ build[r][q] = "waiting"
        /\ \A t \in Runs : t # r => build'[t] = build[t]
    BY <1>3 DEF StartBuild, KeepRest, store, TypeOK
  <2> QED
    BY <1>0, <2>1
<1>4. ASSUME NEW r \in Runs, NEW p \in Platforms, BuildStep(r, p)
      PROVE  Made(q)' /\ \A s \in Runs : Gone(s, q)'
  <2>1. PICK step \in BuildSteps :
           /\ Goto(r, p, step) /\ build[r][p] # "success" /\ UNCHANGED <<refresh, held>>
           /\ \/ UNCHANGED artifacts
              \/ artifacts' = [artifacts EXCEPT ![p] = @ \cup {r}] /\ step = "success"
    BY <1>4, BuildMoves
  <2>2. /\ build'[r][p] = step
        /\ \A t \in Runs, u \in Platforms : t # r \/ u # p => build'[t][u] = build[t][u]
    BY <2>1, Moves
  <2>3. CASE UNCHANGED artifacts \/ q # p
    <3>1. artifacts'[q] = artifacts[q]
      BY <2>1, <2>3 DEF TypeOK
    <3> QED
      BY <1>0, <2>1, <2>2, <3>1
  <2>4. CASE artifacts' = [artifacts EXCEPT ![p] = @ \cup {r}] /\ step = "success" /\ q = p
    <3>1. artifacts'[q] = artifacts[q] \cup {r}
      BY <2>4 DEF TypeOK
    <3>2. \A s \in Runs : r \notin held[s][q]
      BY <1>0, <2>1, <2>4
    <3> QED
      BY <1>0, <2>1, <2>2, <2>4, <3>1, <3>2
  <2> QED
    BY <2>1, <2>3, <2>4
<1>5. ASSUME NEW r \in Runs, NEW p \in Platforms, RefreshStep(r, p)
      PROVE  Made(q)' /\ \A s \in Runs : Gone(s, q)'
  <2>1. PICK step \in RefreshSteps :
           /\ RefreshTo(r, p, step) /\ step \notin {"waiting", "check", "skipped"}
           /\ \/ /\ step # "success" /\ UNCHANGED artifacts
                 /\ \/ UNCHANGED held
                    \/ \E id \in artifacts[p] : held' = [held EXCEPT ![r][p] = {id}]
              \/ /\ step = "success" /\ refresh[r][p] = "check"
                 /\ UNCHANGED <<artifacts, held>>
              \/ /\ step = "success" /\ held[r][p] \subseteq artifacts[p]
                 /\ artifacts' = [artifacts EXCEPT ![p] = @ \ held[r][p]] /\ UNCHANGED held
    BY <1>5, RefreshOutcomes
  <2>a. RefreshTo(r, p, step)
    BY <2>1
  <2>2. /\ refresh'[r][p] = step /\ UNCHANGED build
        /\ \A t \in Runs, u \in Platforms : t # r \/ u # p => refresh'[t][u] = refresh[t][u]
    BY <2>a, RefreshMoves DEF RefreshTo
  <2>3. CASE step # "success" /\ UNCHANGED <<artifacts, held>>
    BY <1>0, <2>1, <2>2, <2>3
  <2>4. ASSUME step # "success", UNCHANGED artifacts, NEW id \in artifacts[p],
               held' = [held EXCEPT ![r][p] = {id}]
        PROVE  Made(q)' /\ \A s \in Runs : Gone(s, q)'
    <3>1. /\ held'[r][p] = {id}
          /\ \A t \in Runs, u \in Platforms : t # r \/ u # p => held'[t][u] = held[t][u]
      BY <2>4, UpdateTwo DEF TypeOK
    <3> QED
      BY <1>0, <2>1, <2>2, <2>4, <3>1
  <2>5. CASE step = "success" /\ refresh[r][p] = "check" /\ UNCHANGED <<artifacts, held>>
    BY <1>0, <2>2, <2>5
  <2>6. CASE /\ step = "success" /\ UNCHANGED held
             /\ artifacts' = [artifacts EXCEPT ![p] = @ \ held[r][p]]
    <3>1. artifacts'[q] = IF q = p THEN artifacts[q] \ held[r][p] ELSE artifacts[q]
      BY <2>6 DEF TypeOK
    <3> QED
      BY <1>0, <2>2, <2>6, <3>1
  <2> QED
    BY <2>1, <2>3, <2>4, <2>5, <2>6
<1>6. ASSUME NEW r \in Runs, CancelRun(r) PROVE Made(q)' /\ \A s \in Runs : Gone(s, q)'
  <2>1. /\ UNCHANGED <<artifacts, held, event>> /\ event[r] # "none"
        /\ build[r][q] = "success" => build'[r][q] = "success"
        /\ refresh'[r][q] = IF refresh[r][q] \in RefreshEnds THEN refresh[r][q] ELSE "failed"
        /\ \A t \in Runs : t # r => refresh'[t] = refresh[t] /\ build'[t] = build[t]
    BY <1>6, CancelEffects DEF BuildEnds
  <2> QED
    BY <1>0, <2>1 DEF RefreshEnds
<1>7. ASSUME NEW r \in Runs, ViewRelease(r) \/ CreateRelease(r) \/ TriggerCI(r)
      PROVE  UNCHANGED <<artifacts, held, refresh, build>>
  BY <1>7 DEF ViewRelease, CreateRelease, TriggerCI, store
<1>8. ASSUME NEW p \in Platforms, Expire(p) PROVE Made(q)' /\ \A s \in Runs : Gone(s, q)'
  <2>1. UNCHANGED <<held, refresh, build>> /\ artifacts'[q] \subseteq artifacts[q]
    BY <1>8 DEF Expire, jobs, TypeOK
  <2> QED
    BY <1>0, <2>1
<1>9. CASE UNCHANGED vars
  BY <1>1, <1>9 DEF vars, store, jobs
<1> QED
  BY <1>1, <1>2, <1>3, <1>4, <1>5, <1>6, <1>7, <1>8, <1>9 DEF Next, RunStep

\* A refresh job that deletes finds an artifact that no other has deleted.
LEMMA OnceStep ==
  ASSUME TypeOK, JobsInOrder, DeletedAreGone, RefreshedOnce, [Next]_vars
  PROVE  RefreshedOnce'
<1> DEFINE Once(s, t, q) ==
             /\ s # t /\ held[s][q] # {}
             /\ refresh[s][q] = "success" /\ refresh[t][q] = "success"
             => held[s][q] # held[t][q]
<1>0. \A s, t \in Runs, q \in Platforms : Once(s, t, q)
  BY DEF RefreshedOnce
<1> SUFFICES ASSUME NEW s \in Runs, NEW t \in Runs, NEW q \in Platforms PROVE Once(s, t, q)'
  BY DEF RefreshedOnce
<1>1. ASSUME UNCHANGED held,
             \A u \in Runs : refresh'[u][q] = "success" => refresh[u][q] = "success"
      PROVE  Once(s, t, q)'
  BY <1>0, <1>1
<1>2. ASSUME NEW r \in Runs, Trigger(r) \/ CancelRun(r)
      PROVE  /\ UNCHANGED held
             /\ \A u \in Runs : refresh'[u][q] = "success" => refresh[u][q] = "success"
  <2>1. CASE Trigger(r)
    BY <2>1, TriggerEffects
  <2>2. CASE CancelRun(r)
    BY <2>2, CancelEffects
  <2> QED
    BY <1>2, <2>1, <2>2
<1>3. ASSUME NEW r \in Runs, NEW p \in Platforms, RefreshStep(r, p) PROVE Once(s, t, q)'
  <2>1. PICK step \in RefreshSteps :
           /\ RefreshTo(r, p, step)
           /\ \/ /\ step # "success"
                 /\ \/ UNCHANGED held
                    \/ \E id \in artifacts[p] : held' = [held EXCEPT ![r][p] = {id}]
              \/ step = "success" /\ refresh[r][p] = "check" /\ UNCHANGED held
              \/ step = "success" /\ held[r][p] \subseteq artifacts[p] /\ UNCHANGED held
    BY <1>3, RefreshOutcomes
  <2>2. /\ refresh'[r][p] = step
        /\ \A u \in Runs, o \in Platforms : u # r \/ o # p => refresh'[u][o] = refresh[u][o]
    BY <2>1, RefreshMoves
  <2>3. CASE UNCHANGED held /\ step # "success"
    BY <1>1, <2>2, <2>3
  <2>4. ASSUME step # "success", NEW id \in artifacts[p], held' = [held EXCEPT ![r][p] = {id}]
        PROVE  Once(s, t, q)'
    <3>1. \A u \in Runs, o \in Platforms : u # r \/ o # p => held'[u][o] = held[u][o]
      BY <2>4, UpdateTwo DEF TypeOK
    <3> QED
      BY <1>0, <2>2, <2>4, <3>1
  <2>5. CASE step = "success" /\ UNCHANGED held
    <3>1. held[r][p] \subseteq artifacts[p]
      BY <2>1, <2>5 DEF DeletedAreGone
    <3>2. \A u \in Runs : refresh[u][p] = "success" => held[u][p] \cap artifacts[p] = {}
      BY DEF DeletedAreGone
    <3> QED
      BY <1>0, <2>2, <2>5, <3>1, <3>2
  <2> QED
    BY <2>1, <2>3, <2>4, <2>5
<1>4. ASSUME NEW r \in Runs, NEW p \in Platforms, BuildStep(r, p) PROVE UNCHANGED <<held, refresh>>
  BY <1>4, BuildMoves
<1>5. ASSUME NEW r \in Runs,
             ViewRelease(r) \/ CreateRelease(r) \/ StartBuild(r) \/ TriggerCI(r)
      PROVE  UNCHANGED <<held, refresh>>
  BY <1>5 DEF ViewRelease, CreateRelease, StartBuild, TriggerCI, KeepRest
<1>6. ASSUME NEW p \in Platforms, Expire(p) PROVE UNCHANGED <<held, refresh>>
  BY <1>6 DEF Expire, jobs
<1>7. CASE UNCHANGED vars
  BY <1>1, <1>7 DEF vars, jobs
<1> QED
  BY <1>1, <1>2, <1>3, <1>4, <1>5, <1>6, <1>7 DEF Next, RunStep

----------------------------------------------------------------------------
LEMMA Inductive == Spec => []IInv
<1>1. Init => IInv
  <2> SUFFICES ASSUME Init PROVE IInv
    OBVIOUS
  <2>1. TypeOK
    BY TypeInitially
  <2>2. /\ \A p \in Platforms : artifacts[p] = {} /\ \A r \in Runs : held[r][p] = {}
        /\ \A r \in Runs : event[r] = "none" /\ create[r] = "waiting" /\ ci[r] = "waiting"
        /\ \A r \in Runs : seenAsset[r] = {} /\ seenArtifact[r] = {}
        /\ \A r \in Runs, p \in Platforms : build[r][p] = "waiting" /\ refresh[r][p] = "waiting"
    BY DEF Init
  <2> QED
    BY <2>1, <2>2 DEF IInv, JobsInOrder, SeenArePublished, TriggeredSucceeded, SeenAreStored,
      DeletedAreGone
<1>2. IInv /\ [Next]_vars => IInv'
  BY TypeStep, OrderStep, PublishedStep, TriggeredStep, StoredStep, DeletedStep
     DEF IInv
<1> QED
  BY <1>1, <1>2, PTL DEF Spec

\* The states of the jobs, the release, its assets and the artifacts are what the
\* workflow names, however many runs overlap.
THEOREM TypeCorrect == Spec => []TypeOK
<1>1. IInv => TypeOK
  BY DEF IInv
<1> QED
  BY <1>1, Inductive, PTL

\* No upload is ever made into a release that does not exist.
THEOREM UploadsFindReleaseHolds == Spec => []UploadsFindRelease
<1>1. IInv => UploadsFindRelease
  <2> SUFFICES ASSUME IInv, NEW r \in Runs, NEW p \in Platforms, build[r][p] = "upload"
               PROVE  release
    BY DEF UploadsFindRelease
  <2>1. /\ create[r] \in CreateEnds /\ create[r] \notin {"failed", "cancelled"}
        /\ create[r] # "skipped"
        /\ create[r] \in {"found", "created"} => release
    BY DEF IInv, JobsInOrder
  <2> QED
    BY <2>1 DEF CreateEnds
<1> QED
  BY <1>1, Inductive, PTL

\* A successful job's asset is published, whatever the other runs did before and after,
\* unless one of them is replacing it or was interrupted in replacing it.
THEOREM SuccessMeansPublishedHolds == Spec => []SuccessMeansPublished
<1>1. IInv => SuccessMeansPublished
  BY DEF IInv, SeenArePublished, SuccessMeansPublished
<1> QED
  BY <1>1, Inductive, PTL

\* CI is triggered only for builds that are published for every platform.
THEOREM CIHasBuildsHolds == Spec => []CIHasBuilds
<1>1. IInv => CIHasBuilds
  <2> SUFFICES ASSUME IInv, NEW r \in Runs, ci[r] = "triggered", NEW p \in Platforms
               PROVE  event[r] # "pull_request" /\ (p \in assets \/ Clobbered(p))
    BY PlatformsAssumption DEF CIHasBuilds
  <2> QED
    BY DEF IInv, TriggeredSucceeded, SeenArePublished
<1> QED
  BY <1>1, Inductive, PTL

\* While nothing expires and no schedule refreshes, a platform that was built keeps a
\* source.
THEOREM AlwaysASourceHolds == Spec => []AlwaysASource
<1>1. IInv => AlwaysASource
  BY DEF IInv, SeenAreStored, AlwaysASource
<1> QED
  BY <1>1, Inductive, PTL

\* No two runs ever refresh the same artifact with success, however many runs overlap and
\* whatever is uploaded or expires meanwhile: the delete of one makes the other's fail,
\* and no upload brings the artifact back.
THEOREM RefreshedOnceHolds == Spec => []RefreshedOnce
<1>1. Init => RefreshedOnce
  BY DEF Init, RefreshedOnce
<1>2. IInv /\ RefreshedOnce /\ [Next]_vars => RefreshedOnce'
  BY OnceStep DEF IInv
<1> QED
  BY <1>1, <1>2, Inductive, PTL DEF Spec
=============================================================================
