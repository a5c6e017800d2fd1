---------------------------- MODULE MCSearchPage ----------------------------
(* SearchPage for TLC. *)
EXTENDS SearchPage, TLC

CONSTANTS s1, s2

MCSymbol == {s1, s2}

Symmetry == Permutations(MCSymbol)
=============================================================================
