----------------------- MODULE MCRendererProcess ----------------------------
(* The renderer's timeout before the pipeline's, and after it (the defaults   *)
(* are equal, and the pipeline's starts first).                               *)
EXTENDS RendererProcess

InnerLimits == {1, 4}
OuterLimits == {3}
SomePercents == {20, 60}
=============================================================================
