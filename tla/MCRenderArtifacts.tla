------------------------- MODULE MCRenderArtifacts -------------------------
(* Instances of RenderArtifacts for TLC.                                   *)
EXTENDS RenderArtifacts

AllFaults == {"storage", "db", "timeout", "cancel", "die"}
=====
