----------------------------- MODULE MCAttempts -----------------------------
(* Two repairs as in the code; calls that are quick or take more than half   *)
(* of the budget.                                                            *)
EXTENDS Attempts
=============================================================================
