---------------------- MODULE MCApprovalContinuation ----------------------
(* Small instances of ApprovalContinuation for TLC. *)
EXTENDS ApprovalContinuation, TLC

CONSTANTS c1, c2, t1, t2

TwoCalls == {c1, c2}
CallSymmetry == Permutations(TwoCalls)
=============================================================================
