-------------------------- MODULE MCQueueAdmission --------------------------
(* Three clients against a queue of depth 2: the queue overshoots by two.  *)
EXTENDS QueueAdmission, TLC

CONSTANTS c1, c2, c3

ThreeClients == {c1, c2, c3}
=============================================================================
