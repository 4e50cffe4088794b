---------------------------- MODULE MCSetupMlir ----------------------------
(***************************************************************************)
(* Invocations of setup_mlir.py: the ones docs/ci.md shows, and one for    *)
(* each way to be turned away.                                             *)
(***************************************************************************)
EXTENDS SetupMlir, TLC

Plain == [wheel |-> FALSE, dry |-> FALSE, hash |-> TRUE, supported |-> TRUE,
          repo |-> TRUE, token |-> FALSE]

\* With and without a token, dry, with --wheel, without a hash, without a repo.
SomeArguments == {Plain,
                  [Plain EXCEPT !.token = TRUE],
                  [Plain EXCEPT !.token = TRUE, !.dry = TRUE],
                  [Plain EXCEPT !.wheel = TRUE],
                  [Plain EXCEPT !.hash = FALSE],
                  [Plain EXCEPT !.repo = FALSE]}

Symmetry == Permutations(Procs)
=============================================================================
