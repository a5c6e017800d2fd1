--------------------------- MODULE MCMainActivity ---------------------------
(* MainActivity and its refinement for TLC. *)
EXTENDS MainActivityRefinement, TLC

CONSTANTS s1, s2

MCSymbol == {s1, s2}

(* Of two news items, the last one with a link, or only the first one. *)
MCNews == {<<TRUE, FALSE>>, <<FALSE, TRUE>>}

Symmetry == Permutations(MCSymbol)
=============================================================================
