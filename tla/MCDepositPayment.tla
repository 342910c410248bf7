-------------------------- MODULE MCDepositPayment --------------------------
(* Constants for TLC. *)
EXTENDS DepositPayment, TLC

MCSymmetry == Permutations(Requests) \union Permutations(Payments)
=============================================================================
