-------------------------- MODULE MCReviewChannel --------------------------
(* Two reviewers' clicks and one or two event streams. *)
EXTENDS ReviewChannel

CONSTANTS c1, c2, s1, s2

=============================================================================
