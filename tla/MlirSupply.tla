----------------------------- MODULE MlirSupply -----------------------------
(***************************************************************************)
(* llvm-build.yml and the CI it triggers: the workflow publishes builds of *)
(* the pinned LLVM (LlvmBuild), and on every platform the job of ci.yml    *)
(* resolves its MLIR_DIR with setup_mlir.py on a fresh runner (SetupMlir). *)
(* What the script finds at GitHub is what the runs of the workflow have   *)
(* left there, and may have changed between its request and its download.  *)
(***************************************************************************)
EXTENDS CIJob, FiniteSets

CONSTANTS Runs, Platforms, Events, Expiring,      \* of LlvmBuild
          Platform                                \* the platform of the CI job

ASSUME PlatformAssumption == Platform \in Platforms

VARIABLES release, assets, artifacts, event, create, build, seenAsset, seenArtifact,
          refresh, held, ci

workflow == <<release, assets, artifacts, event, create, build, seenAsset, seenArtifact,
              refresh, held, ci>>

Workflow == INSTANCE LlvmBuild

\* The CI job of run r for Platform; every job has a runner and a cache of its own, so
\* one job stands for all of them.
Script == INSTANCE SetupMlir
            WITH Procs <- {"ci"}, Arguments <- CIArguments,
                 asset <- Platform \in assets, artifact <- artifacts[Platform] # {}

vars == <<workflow, setup>>

Init == Workflow!Init /\ Script!Init

\* Mutant: CI is dispatched by hand, before anything is published.
StartJobEarly ==
  /\ pc["ci"] = "idle"
  /\ UNCHANGED workflow
  /\ Script!Start("ci")

\* The job starts when a run has triggered CI.
StartJob ==
  /\ pc["ci"] = "idle" /\ \E r \in Runs : ci[r] = "triggered"
  /\ UNCHANGED workflow
  /\ Script!Start("ci")

ScriptStep ==
  /\ pc["ci"] \notin {"idle", "end"}
  /\ UNCHANGED workflow
  /\ Script!Step("ci")

Next == StartJob \/ ScriptStep \/ (Workflow!Next /\ UNCHANGED setup)

Spec == Init /\ [][Next]_vars

\* The runner of the CI job starts it and goes on with its steps.
FairSpec == Spec /\ WF_vars(StartJob \/ ScriptStep)

----------------------------------------------------------------------------
\* The job that a run triggers gets its answer (trigger-ci, main).
TriggeredCIEnds ==
  (\E r \in Runs : ci[r] = "triggered") ~> pc["ci"] = "end"
=============================================================================
