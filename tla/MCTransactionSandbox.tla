------------------------ MODULE MCTransactionSandbox ------------------------
(* Instances of TransactionSandbox for TLC.                                  *)
EXTENDS TransactionSandbox, TLC

CONSTANTS op1, op2

Symmetry == Permutations(Sims)

=============================================================================
