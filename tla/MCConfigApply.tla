--------------------------- MODULE MCConfigApply ---------------------------
(***************************************************************************)
(* A small installation: two generations of channel data, one legacy       *)
(* layout, two secrets and the blank one.                                  *)
(***************************************************************************)
EXTENDS ConfigApply, TLC

CONSTANTS d1, d2, legacy, s1, s2, blank

MCData == {d1, d2, legacy}
MCLegacy == {legacy}
DataSymmetry == Permutations({d1, d2})
MCSecrets == {blank, s1, s2}

=============================================================================
