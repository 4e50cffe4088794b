--------------------------- MODULE LegalityOracle ---------------------------
(***************************************************************************)
(* What checking a module promises: one decision, by the meaning of        *)
(* legality, on a module that nothing modifies.  The module is "invalid"   *)
(* when an op verifier rejects an op, "fail" when the pass finds an        *)
(* illegal op, "pass" otherwise.                                           *)
(***************************************************************************)
CONSTANTS Programs,        \* the modules that may be checked
          Verified(_),     \* an op is accepted by its verifier
          OpLegal(_, _)    \* an op of a module is legal

VARIABLES ops, verdict

Init == ops \in Programs /\ verdict = "none"

Decide ==
  /\ verdict = "none"
  /\ verdict' = CASE \E i \in DOMAIN ops : ~Verified(ops[i]) -> "invalid"
                  [] /\ \A i \in DOMAIN ops : Verified(ops[i])
                     /\ \E i \in DOMAIN ops : ~OpLegal(ops, i) -> "fail"
                  [] OTHER -> "pass"
  /\ UNCHANGED ops

Spec == Init /\ [][Decide]_<<ops, verdict>>
=============================================================================
