------------------------------ MODULE MCAprRmm ------------------------------
(***************************************************************************)
(* The clients of AprRmm are interchangeable.                              *)
(***************************************************************************)
EXTENDS AprRmm, TLC

ClientSymmetry == Permutations(Clients)
=============================================================================
