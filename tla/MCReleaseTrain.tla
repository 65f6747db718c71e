--------------------------- MODULE MCReleaseTrain ---------------------------
(* Two releases, of which callers publish the second by either endpoint, one *)
(* channel and two concurrent handlers.                                     *)
EXTENDS ReleaseTrain, TLC

CONSTANTS r1, r2, stable, h1, h2

Symmetric == Permutations(Handlers)
=============================================================================
