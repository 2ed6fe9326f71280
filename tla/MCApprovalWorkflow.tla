------------------------- MODULE MCApprovalWorkflow -------------------------
(* Instances of ApprovalWorkflow for TLC: the handlers are model values.     *)
EXTENDS ApprovalWorkflow

CONSTANTS h1, h2

=============================================================================
