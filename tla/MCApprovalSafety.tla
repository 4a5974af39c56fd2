-------------------------- MODULE MCApprovalSafety --------------------------
(* A small instance, for TLC, of what approvals may never do, and of the     *)
(* explanations that are written beside them: a behaviour is one of the      *)
(* approvals of a turn or of explanations; these share no state.             *)
EXTENDS ApprovalContinuation, ApprovalExplanations, TLC

CONSTANTS c1, c2, t1

VARIABLE concern  \* what this behaviour is about

TwoCalls == {c1, c2}
CallSymmetry == Permutations(TwoCalls)

SafetyInit == Init /\ ExplanationInit /\ concern \in {"approvals", "explanations"}

SafetyNext ==
  /\ UNCHANGED concern
  /\ \/ concern = "approvals" /\ Next /\ UNCHANGED explanationVars
     \/ concern = "explanations" /\ ExplanationNext /\ UNCHANGED vars

SafetySpec == SafetyInit /\ [][SafetyNext]_<<vars, explanationVars, concern>>
=============================================================================
