---------------------------- MODULE MCCatalogue ----------------------------
(***************************************************************************)
(* Constants for TLC: u1 has reviewed the first of two devices, which      *)
(* shows one of two images.                                                *)
(***************************************************************************)
EXTENDS Catalogue, TLC

CONSTANT u1

MCFirstRatings == [u \in Users |-> IF u = u1 THEN 1 ELSE 0]

MCSymmetry == Permutations(Requests)
=============================================================================
