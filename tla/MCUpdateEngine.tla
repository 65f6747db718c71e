--------------------------- MODULE MCUpdateEngine ---------------------------
(* Two releases, the newer one forced; slots are symmetric.                *)
EXTENDS UpdateEngine, TLC

CONSTANTS k1, k2

MCForced  == {MaxVersion}
AnyCalls  == [overlaps |-> TRUE, acknowledges |-> TRUE]
Calmly    == [overlaps |-> FALSE, acknowledges |-> FALSE]
Acks      == [overlaps |-> FALSE, acknowledges |-> TRUE]
MCApps    == {AnyCalls, Calmly}
MCAcks    == {Acks}
Symmetric == Permutations(Slots)
=============================================================================
