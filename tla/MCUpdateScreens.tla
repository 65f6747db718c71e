--------------------------- MODULE MCUpdateScreens ---------------------------
(* Two releases, the newer one forced; slots are symmetric.                *)
EXTENDS UpdateScreens, TLC

CONSTANTS k1, k2, k3

MCForced  == {MaxVersion}
Symmetric == Permutations(Slots)
=============================================================================
