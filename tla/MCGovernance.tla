---------------------------- MODULE MCGovernance ---------------------------
(* Model-checking instances of Governance; the .cfg files choose among them. *)
EXTENDS Governance

CONSTANTS r1, r2, r3
=============================================================================
