--------------------------- MODULE MCWorkerFiles ---------------------------
(* Instances of WorkerFiles for TLC.                                       *)
EXTENDS WorkerFiles, TLC

CONSTANTS j1, j2

MCJobs   == {j1, j2}
Symmetry == Permutations(MCJobs)
=====
