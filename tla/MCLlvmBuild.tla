---------------------------- MODULE MCLlvmBuild ----------------------------
(***************************************************************************)
(* Overlapping runs of llvm-build.yml on two platforms.                    *)
(***************************************************************************)
EXTENDS LlvmBuild, TLC

PushAndPR == {"push", "pull_request"}

Symmetry == Permutations(Platforms) \cup Permutations(Runs)
=============================================================================
