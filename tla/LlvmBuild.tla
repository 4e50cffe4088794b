----------------------------- MODULE LlvmBuild -----------------------------
(***************************************************************************)
(* .github/workflows/llvm-build.yml: the runs of the workflow for one LLVM *)
(* commit, which publish its build for every platform as an asset of the   *)
(* release llvm-<short-hash> and as an Actions artifact.  Runs have no     *)
(* concurrency group: they overlap freely.                                 *)
(*                                                                         *)
(*   get-hash -> create-release -> build (one job per platform)            *)
(*                                         -> trigger-ci                   *)
(*   get-hash -> refresh (one job per platform, on schedule only)          *)
(*                                                                         *)
(* A step is one step of a job that reads or writes what runs share.  An   *)
(* artifact is identified by the run and the job that uploaded it.         *)
(***************************************************************************)
EXTENDS FiniteSets

CONSTANTS Runs,        \* runs of the workflow
          Platforms,   \* the build matrix
          Events,      \* what may trigger a run
          Expiring     \* the retention time of artifacts may run out

AllEvents == {"push", "dispatch", "pull_request", "schedule"}

ASSUME EventsAssumption == Events \subseteq AllEvents /\ Expiring \in BOOLEAN
ASSUME PlatformsAssumption == Platforms # {}

VARIABLES
  release,     \* the release exists
  assets,      \* platforms whose tarball is an asset of the release
  artifacts,   \* the runs whose artifact of a platform exists
  event,       \* what triggered a run, "none" before it starts
  create,      \* state of a run's create-release job
  build,       \* step of a run's build job for a platform
  seenAsset, seenArtifact,   \* the two answers the build job works with
  refresh,     \* step of a run's refresh job for a platform
  held,        \* the artifact the refresh job found: no run or one
  ci           \* state of a run's trigger-ci job

store == <<release, assets, artifacts>>
jobs == <<event, create, build, seenAsset, seenArtifact, refresh, held, ci>>
vars == <<store, jobs>>

BuildEnds == {"success", "failed", "torn", "cancelled", "skipped"}
BuildSteps == {"waiting", "check release", "check artifact", "build", "publish",
               "upload", "upload artifact"} \cup BuildEnds

RefreshEnds == {"success", "failed", "skipped"}
RefreshSteps == {"waiting", "check", "download", "reupload", "delete"} \cup RefreshEnds

CreateEnds == {"found", "created", "failed", "cancelled", "skipped"}

TypeOK ==
  /\ release \in BOOLEAN /\ assets \subseteq Platforms
  /\ artifacts \in [Platforms -> SUBSET Runs]
  /\ event \in [Runs -> AllEvents \cup {"none"}]
  /\ create \in [Runs -> {"waiting", "view", "create"} \cup CreateEnds]
  /\ build \in [Runs -> [Platforms -> BuildSteps]]
  /\ seenAsset \in [Runs -> SUBSET Platforms]
  /\ seenArtifact \in [Runs -> SUBSET Platforms]
  /\ refresh \in [Runs -> [Platforms -> RefreshSteps]]
  /\ held \in [Runs -> [Platforms -> SUBSET Runs]]
  /\ ci \in [Runs -> {"waiting", "triggered", "skipped"}]

Init ==
  /\ release = FALSE /\ assets = {}
  /\ artifacts = [p \in Platforms |-> {}]
  /\ event = [r \in Runs |-> "none"]
  /\ create = [r \in Runs |-> "waiting"]
  /\ build = [r \in Runs |-> [p \in Platforms |-> "waiting"]]
  /\ seenAsset = [r \in Runs |-> {}] /\ seenArtifact = [r \in Runs |-> {}]
  /\ refresh = [r \in Runs |-> [p \in Platforms |-> "waiting"]]
  /\ held = [r \in Runs |-> [p \in Platforms |-> {}]]
  /\ ci = [r \in Runs |-> "waiting"]

----------------------------------------------------------------------------
\* A trigger starts a run and get-hash resolves the commit.  Jobs that need nothing
\* else become ready or are skipped by their `if'.  When no hash is found get-hash
\* fails, and nothing of the run is left to do.
Trigger(r) ==
  /\ event[r] = "none"
  /\ \E e \in Events, resolved \in BOOLEAN :
       /\ event' = [event EXCEPT ![r] = e]
       /\ create' = [create EXCEPT ![r] =
                       IF resolved /\ e # "pull_request" THEN "view" ELSE "skipped"]
       /\ build' = [build EXCEPT ![r] =
                      [p \in Platforms |-> IF resolved THEN "waiting" ELSE "skipped"]]
       /\ refresh' = [refresh EXCEPT ![r] =
                        [p \in Platforms |->
                           IF resolved /\ e = "schedule" THEN "check" ELSE "skipped"]]
  /\ UNCHANGED <<store, seenAsset, seenArtifact, held, ci>>

\* gh release view; an error of the command counts as an absent release.
ViewRelease(r) ==
  /\ create[r] = "view"
  /\ \/ release /\ create' = [create EXCEPT ![r] = "found"]
     \/ create' = [create EXCEPT ![r] = "create"]
  /\ UNCHANGED <<store, event, build, seenAsset, seenArtifact, refresh, held, ci>>

\* gh release create fails when the release exists by now.
CreateRelease(r) ==
  /\ create[r] = "create"
  /\ \/ ~release /\ release' = TRUE /\ create' = [create EXCEPT ![r] = "created"]
     \/ create' = [create EXCEPT ![r] = "failed"] /\ UNCHANGED release
  /\ UNCHANGED <<assets, artifacts, event, build, seenAsset, seenArtifact,
                 refresh, held, ci>>

----------------------------------------------------------------------------
\* A build job goes on to a step.
Goto(r, p, step) == build' = [build EXCEPT ![r][p] = step]
KeepRest == UNCHANGED <<event, create, seenAsset, seenArtifact, refresh, held, ci>>

\* Mutant: nothing but !cancelled().
StartBuildAlways(r) ==
  /\ \A p \in Platforms : build[r][p] = "waiting"
  /\ create[r] \in CreateEnds
  /\ build' = [build EXCEPT ![r] = [p \in Platforms |-> "check release"]]
  /\ KeepRest /\ UNCHANGED store

\* The `if' of the build job: create-release is over and did not fail.  Trigger has
\* skipped the job when get-hash failed, CancelRun when the run was cancelled.
StartBuild(r) ==
  /\ \A p \in Platforms : build[r][p] = "waiting"
  /\ create[r] \in CreateEnds
  /\ build' = [build EXCEPT ![r] =
       [p \in Platforms |-> IF create[r] = "failed" THEN "skipped" ELSE "check release"]]
  /\ KeepRest /\ UNCHANGED store

\* The two existence checks; an error of the command counts as absent.
CheckAsset(r, p) ==
  /\ build[r][p] = "check release"
  /\ \E seen \in SUBSET (assets \cap {p}) :
       seenAsset' = [seenAsset EXCEPT ![r] = @ \cup seen]
  /\ Goto(r, p, "check artifact")
  /\ UNCHANGED <<store, event, create, seenArtifact, refresh, held, ci>>

\* Mutant: one of the two is enough.
CheckArtifactEither(r, p) ==
  /\ build[r][p] = "check artifact"
  /\ \E seen \in (IF artifacts[p] = {} THEN {{}} ELSE {{}, {p}}) :
       /\ seenArtifact' = [seenArtifact EXCEPT ![r] = @ \cup seen]
       /\ Goto(r, p, IF p \in seenAsset[r] \/ p \in seen THEN "success" ELSE "build")
  /\ UNCHANGED <<store, event, create, seenAsset, refresh, held, ci>>

\* Both there: nothing to build, and the job is over.
CheckArtifact(r, p) ==
  /\ build[r][p] = "check artifact"
  /\ \E seen \in (IF artifacts[p] = {} THEN {{}} ELSE {{}, {p}}) :
       /\ seenArtifact' = [seenArtifact EXCEPT ![r] = @ \cup seen]
       /\ Goto(r, p, IF p \in seenAsset[r] /\ p \in seen THEN "success" ELSE "build")
  /\ UNCHANGED <<store, event, create, seenAsset, refresh, held, ci>>

Build(r, p) ==
  /\ build[r][p] = "build"
  /\ Goto(r, p, "publish") \/ Goto(r, p, "failed")
  /\ KeepRest /\ UNCHANGED store

\* gh release upload --clobber first deletes an asset of that name.  Skipped on a pull
\* request, and when the asset was there.
Publish(r, p) ==
  /\ build[r][p] = "publish"
  /\ LET skip == p \in seenAsset[r] \/ event[r] = "pull_request"
     IN  \/ skip /\ Goto(r, p, "upload artifact") /\ UNCHANGED assets
         \/ ~skip /\ Goto(r, p, "upload") /\ assets' = assets \ {p}
  /\ KeepRest /\ UNCHANGED <<release, artifacts>>

Upload(r, p) ==
  /\ build[r][p] = "upload"
  /\ \/ release /\ Goto(r, p, "upload artifact") /\ assets' = assets \cup {p}
     \/ Goto(r, p, "torn") /\ UNCHANGED assets
  /\ KeepRest /\ UNCHANGED <<release, artifacts>>

\* Mutant: a failing upload of the artifact is ignored.
UploadArtifactLenient(r, p) ==
  /\ build[r][p] = "upload artifact"
  /\ \/ p \notin seenArtifact[r] /\ artifacts' = [artifacts EXCEPT ![p] = @ \cup {r}]
     \/ UNCHANGED artifacts
  /\ Goto(r, p, "success")
  /\ KeepRest /\ UNCHANGED <<release, assets>>

\* The legacy artifact, pull requests included.
UploadArtifact(r, p) ==
  /\ build[r][p] = "upload artifact"
  /\ \/ p \in seenArtifact[r] /\ Goto(r, p, "success") /\ UNCHANGED artifacts
     \/ /\ p \notin seenArtifact[r]
        /\ artifacts' = [artifacts EXCEPT ![p] = @ \cup {r}]
        /\ Goto(r, p, "success")
     \/ p \notin seenArtifact[r] /\ Goto(r, p, "failed") /\ UNCHANGED artifacts
  /\ KeepRest /\ UNCHANGED <<release, assets>>

\* A build job that is cancelled at a step.
Stopped(step) == IF step = "upload" THEN "torn" ELSE "cancelled"

\* Mutant: the other spelling.
CancelMisspelt(r, p) ==
  /\ build[r][p] \notin BuildEnds
  /\ \E q \in Platforms : build[r][q] \in {"failed", "torn"}
  /\ Goto(r, p, "canceled")
  /\ KeepRest /\ UNCHANGED store

\* fail-fast: a failure in the matrix cancels the jobs that are still running.
Cancel(r, p) ==
  /\ build[r][p] \notin BuildEnds
  /\ \E q \in Platforms : build[r][q] \in {"failed", "torn"}
  /\ Goto(r, p, Stopped(build[r][p]))
  /\ KeepRest /\ UNCHANGED store

\* A run is cancelled by hand, up to trigger-ci: the jobs under way stop where they are
\* and the others are skipped, build by its !cancelled().
CancelRun(r) ==
  /\ event[r] # "none" /\ ci[r] # "triggered"
  /\ create' = [create EXCEPT ![r] = IF @ \in CreateEnds THEN @ ELSE "cancelled"]
  /\ build' = [build EXCEPT ![r] =
       [p \in Platforms |-> IF build[r][p] \in BuildEnds THEN build[r][p]
                       ELSE IF build[r][p] = "waiting" THEN "skipped"
                       ELSE Stopped(build[r][p])]]
  /\ refresh' = [refresh EXCEPT ![r] =
       [p \in Platforms |-> IF refresh[r][p] \in RefreshEnds THEN refresh[r][p] ELSE "failed"]]
  /\ ci' = [ci EXCEPT ![r] = "skipped"]
  /\ UNCHANGED <<store, event, seenAsset, seenArtifact, held>>

\* Mutant: one successful platform is enough.
TriggerCIOnAny(r) ==
  /\ ci[r] = "waiting" /\ \A p \in Platforms : build[r][p] \in BuildEnds
  /\ ci' = [ci EXCEPT ![r] =
       IF create[r] # "skipped" /\ \E p \in Platforms : build[r][p] = "success"
         THEN "triggered" ELSE "skipped"]
  /\ UNCHANGED <<store, event, create, build, seenAsset, seenArtifact, refresh, held>>

\* trigger-ci needs a successful build; a skipped create-release skips it.
TriggerCI(r) ==
  /\ ci[r] = "waiting" /\ \A p \in Platforms : build[r][p] \in BuildEnds
  /\ ci' = [ci EXCEPT ![r] =
       IF create[r] # "skipped" /\ \A p \in Platforms : build[r][p] = "success"
         THEN "triggered" ELSE "skipped"]
  /\ UNCHANGED <<store, event, create, build, seenAsset, seenArtifact, refresh, held>>

----------------------------------------------------------------------------
\* A refresh job goes on to a step.
RefreshTo(r, p, step) ==
  /\ refresh' = [refresh EXCEPT ![r][p] = step]
  /\ UNCHANGED <<event, create, build, seenAsset, seenArtifact, ci>>

\* Without an artifact the remaining steps are skipped and the job succeeds; so they
\* are when the query fails, whose status the pipe hides.
CheckRefresh(r, p) ==
  /\ refresh[r][p] = "check"
  /\ \/ \E id \in artifacts[p] : /\ held' = [held EXCEPT ![r][p] = {id}]
                                 /\ RefreshTo(r, p, "download")
     \/ RefreshTo(r, p, "success") /\ UNCHANGED held
  /\ UNCHANGED store

DownloadOld(r, p) ==
  /\ refresh[r][p] = "download"
  /\ \/ held[r][p] \subseteq artifacts[p] /\ RefreshTo(r, p, "reupload")
     \/ RefreshTo(r, p, "failed")
  /\ UNCHANGED <<store, held>>

\* The name and the path of the re-upload come from a step `release' that this job
\* does not have: they are empty, no file matches, and the action only warns.
Reupload(r, p) ==
  /\ refresh[r][p] = "reupload"
  /\ RefreshTo(r, p, "delete") \/ RefreshTo(r, p, "failed")
  /\ UNCHANGED <<store, held>>

\* Mutant: curl without -f ends well although nothing was there to delete.
DeleteOldLenient(r, p) ==
  /\ refresh[r][p] = "delete"
  /\ artifacts' = [artifacts EXCEPT ![p] = @ \ held[r][p]]
  /\ RefreshTo(r, p, "success")
  /\ UNCHANGED <<release, assets, held>>

\* curl -f fails when the artifact is gone, deleted by another run or expired.
DeleteOld(r, p) ==
  /\ refresh[r][p] = "delete"
  /\ \/ /\ held[r][p] \subseteq artifacts[p]
        /\ artifacts' = [artifacts EXCEPT ![p] = @ \ held[r][p]]
        /\ RefreshTo(r, p, "success")
     \/ RefreshTo(r, p, "failed") /\ UNCHANGED artifacts
  /\ UNCHANGED <<release, assets, held>>

\* The retention time of an artifact is over.
Expire(p) ==
  /\ Expiring
  /\ \E id \in artifacts[p] : artifacts' = [artifacts EXCEPT ![p] = @ \ {id}]
  /\ UNCHANGED <<release, assets, jobs>>

BuildStep(r, p) ==
  \/ CheckAsset(r, p) \/ CheckArtifact(r, p) \/ Build(r, p) \/ Publish(r, p)
  \/ Upload(r, p) \/ UploadArtifact(r, p) \/ Cancel(r, p)

RefreshStep(r, p) ==
  CheckRefresh(r, p) \/ DownloadOld(r, p) \/ Reupload(r, p) \/ DeleteOld(r, p)

\* What GitHub does for a run once it was triggered.
RunStep(r) ==
  \/ ViewRelease(r) \/ CreateRelease(r) \/ StartBuild(r) \/ TriggerCI(r)
  \/ \E p \in Platforms : BuildStep(r, p) \/ RefreshStep(r, p)

Next ==
  \/ \E r \in Runs : Trigger(r) \/ CancelRun(r) \/ RunStep(r)
  \/ \E p \in Platforms : Expire(p)

Spec == Init /\ [][Next]_vars

----------------------------------------------------------------------------
\* An asset of platform p is being replaced, or its replacement was interrupted.
Clobbered(p) == \E r \in Runs : build[r][p] \in {"upload", "torn"}

\* A job that ended well leaves its platform's asset published for good, unless
\* another run, which found none when it looked, is replacing it or was stopped while
\* doing so (Publish release asset with --clobber).
SuccessMeansPublished ==
  \A r \in Runs, p \in Platforms :
    build[r][p] = "success" /\ event[r] # "pull_request" =>
      p \in assets \/ Clobbered(p)

\* Every upload finds the release: the skip of create-release on pull requests and the
\* `if' that lets build run past it never let a job publish into nothing.
UploadsFindRelease ==
  \A r \in Runs, p \in Platforms : build[r][p] = "upload" => release

\* CI is only triggered on a commit whose builds are published for all platforms, and
\* never by a pull request (trigger-ci's needs).
CIHasBuilds ==
  \A r \in Runs : ci[r] = "triggered" =>
    /\ event[r] # "pull_request"
    /\ \A p \in Platforms : p \in assets \/ Clobbered(p)

\* While the migration lasts a platform that was built once has a source at every
\* moment, an asset under replacement included, as long as nothing expires and no
\* schedule refreshes ("so there is always a working MLIR source", Upload artifact).
AlwaysASource ==
  ~Expiring /\ (\A r \in Runs : event[r] # "schedule") =>
    \A r \in Runs, p \in Platforms :
      build[r][p] = "success" => p \in assets \/ artifacts[p] # {}

\* Two runs never both report that they refreshed the same artifact, however their
\* refresh jobs, new uploads and the retention time overlap: each artifact id is deleted
\* once, and a job that comes late fails (Delete old artifact).
RefreshedOnce ==
  \A r, s \in Runs, p \in Platforms :
    /\ r # s /\ held[r][p] # {}
    /\ refresh[r][p] = "success" /\ refresh[s][p] = "success"
    => held[r][p] # held[s][p]

\* docs/ci.md: the refresh job "downloads the existing artifact zip and re-uploads it":
\* a platform whose build and refresh jobs both went well has an artifact afterwards.
RefreshKeepsArtifact ==
  \A r \in Runs, p \in Platforms :
    build[r][p] = "success" /\ refresh[r][p] = "success" /\ held[r][p] # {} =>
      artifacts[p] # {}
=============================================================================
