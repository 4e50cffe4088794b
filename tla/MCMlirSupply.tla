---------------------------- MODULE MCMlirSupply ----------------------------
(***************************************************************************)
(* Two overlapping runs that publish for one platform, and its CI job.     *)
(***************************************************************************)
EXTENDS MlirSupply

PushAndPR == {"push", "pull_request"}
=============================================================================
