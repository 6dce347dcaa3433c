------------------------- MODULE MCRenderLifecycle -------------------------
(* Instances of RenderLifecycle for TLC. *)
EXTENDS RenderLifecycle, TLC

CONSTANTS c1, c2

TwoCancellers == {c1, c2}
Symmetry == Permutations(TwoCancellers)
=============================================================================
