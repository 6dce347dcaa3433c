------------------------- MODULE MCTemplateVersions -------------------------
(* Four requests of any kind: two updates that race, and two that follow.  *)
EXTENDS TemplateVersions, TLC

CONSTANTS r1, r2, r3, r4

FourRequests == {r1, r2, r3, r4}
Symmetry == Permutations(FourRequests)
=============================================================================
