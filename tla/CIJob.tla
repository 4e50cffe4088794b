-------------------------------- MODULE CIJob --------------------------------
(***************************************************************************)
(* The CI job that a run of llvm-build.yml triggers, as its step Set up    *)
(* MLIR shows it: how ci.yml calls scripts/setup_mlir.py, the state of     *)
(* that invocation and of the runner's cache, and what the job is for.     *)
(* MlirSupply says how it moves.                                           *)
(***************************************************************************)
EXTENDS Naturals

CONSTANTS Members, MlirMember, Faults             \* of SetupMlir

\* The variables of SetupMlir.
VARIABLES pc, args, source, intact, at, exit, out, dir, whole, cutShort

setup == <<pc, args, source, intact, at, exit, out, dir, whole, cutShort>>

\* The Set up MLIR step of ci.yml as trigger-ci calls it: --hash and --repo are given,
\* GITHUB_TOKEN is set, --wheel is not.
CIArguments == {[wheel |-> FALSE, dry |-> FALSE, hash |-> TRUE, supported |-> TRUE,
                 repo |-> TRUE, token |-> TRUE]}

\* Without failures of the network, expiry and refreshes, a CI job that llvm-build.yml
\* triggers resolves MLIR, even while an overlapping run replaces the asset between the
\* script's request and its download (main's fall-through to the artifact).
TriggeredCIResolves == pc["ci"] = "end" => exit["ci"] = "ok" /\ out["ci"] = "cache"
=============================================================================
