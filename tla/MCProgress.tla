----------------------------- MODULE MCProgress -----------------------------
(* Two overlapping requests on a series whose third order is no episode. *)
EXTENDS Progress, TLC

CONSTANTS c1, c2

MCEpisodes == {1, 2, 4}
Symmetry == Permutations({c1, c2})
=============================================================================
