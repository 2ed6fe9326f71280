-------------------------- MODULE MCRiskAssessment --------------------------
(* Instances of RiskAssessment for TLC. *)
EXTENDS RiskAssessment

=============================================================================
