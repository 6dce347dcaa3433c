--------------------------- MODULE QueueAdmission ---------------------------
(***************************************************************************)
(* Admission control of POST /v1/renders in async mode.  A request reads   *)
(* the depth of the ARQ queue (LLEN), and enqueues its job several awaits  *)
(* later, after it has committed a row and published its input: a check,   *)
(* then an act, without a reservation in between.  The module is about how *)
(* far the queue can grow past max_async_queue_depth.                      *)
(*                                                                         *)
(* The queue is the Redis list whose length the code reads; a job leaves   *)
(* it when a worker takes it.  A client is one of the requests the API     *)
(* processes can serve at a time; it sends one request after the other.    *)
(***************************************************************************)
EXTENDS Integers, FiniteSets

CONSTANTS Clients,  \* the requests that may be in progress at a time
          MaxDepth  \* settings.max_async_queue_depth

ASSUME AdmissionAssumption ==
    /\ IsFiniteSet(Clients)
    /\ MaxDepth \in Nat

VARIABLES depth,  \* the number of jobs in the queue
          pc,     \* how far each request in progress has come
          reply   \* the last answer each client got

vars == <<depth, pc, reply>>

Replies == {"none", "202", "429", "500", "503"}

TypeOK ==
    /\ depth \in Nat
    /\ pc \in [Clients -> {"idle", "admitted", "persisted"}]
    /\ reply \in [Clients -> Replies]

Init ==
    /\ depth = 0
    /\ pc = [c \in Clients |-> "idle"]
    /\ reply = [c \in Clients |-> "none"]

Answer(c, code) ==
    /\ pc' = [pc EXCEPT ![c] = "idle"]
    /\ reply' = [reply EXCEPT ![c] = code]

-----------------------------------------------------------------------------
\* Mutant of Admit: a queue at its capacity takes one more.
AdmitOneMore(c) ==
    /\ pc[c] = "idle"
    /\ depth <= MaxDepth
    /\ pc' = [pc EXCEPT ![c] = "admitted"]
    /\ UNCHANGED <<depth, reply>>

\* admit_render_queue: the depth Redis reports decides at once.
Admit(c) ==
    /\ pc[c] = "idle"
    /\ depth < MaxDepth
    /\ pc' = [pc EXCEPT ![c] = "admitted"]
    /\ UNCHANGED <<depth, reply>>

Saturated(c) ==
    /\ pc[c] = "idle"
    /\ depth >= MaxDepth
    /\ Answer(c, "429")
    /\ UNCHANGED depth

\* LLEN fails or does not answer within queue_admission_timeout_seconds: the
\* request is refused, never let through.
Unavailable(c) ==
    /\ pc[c] = "idle"
    /\ Answer(c, "503")
    /\ UNCHANGED depth

-----------------------------------------------------------------------------
(* _create_render_async, seen from the queue.                              *)

\* The row is committed and the input published ...
Persist(c) ==
    /\ pc[c] = "admitted"
    /\ pc' = [pc EXCEPT ![c] = "persisted"]
    /\ UNCHANGED <<depth, reply>>

\* ... or the publication fails and the row with it.
PersistFails(c) ==
    /\ pc[c] = "admitted"
    /\ Answer(c, "500")
    /\ UNCHANGED depth

Enqueue(c) ==
    /\ pc[c] = "persisted"
    /\ depth' = depth + 1
    /\ Answer(c, "202")

\* The connection fails while the job is sent: 503, or 500 for an error that is
\* no connection error.  The job may have been stored.
EnqueueFails(c) ==
    /\ pc[c] = "persisted"
    /\ depth' \in {depth, depth + 1}
    /\ \E code \in {"503", "500"} : Answer(c, code)

\* The API process dies, or the client goes away and the handler is cancelled.
Abandon(c) ==
    /\ pc[c] # "idle"
    /\ Answer(c, "none")
    /\ UNCHANGED depth

\* An ARQ worker takes a job.
Take ==
    /\ depth > 0
    /\ depth' = depth - 1
    /\ UNCHANGED <<pc, reply>>

Next ==
    \/ \E c \in Clients : \/ Admit(c) \/ Saturated(c) \/ Unavailable(c)
                          \/ Persist(c) \/ PersistFails(c)
                          \/ Enqueue(c) \/ EnqueueFails(c) \/ Abandon(c)
    \/ Take

Spec == Init /\ [][Next]_vars

\* Workers go on taking jobs.
FairSpec == Spec /\ WF_vars(Take)

-----------------------------------------------------------------------------
(* Properties.                                                             *)

\* The requests that were admitted and have not enqueued their job yet.
Underway == {c \in Clients : pc[c] # "idle"}

\* The check is not atomic with the act, but what it lets through is bounded: the
\* jobs in the queue and those still on their way exceed the configured depth by
\* less than the number of requests served at a time.  A depth of 0 closes the API.
OvershootBounded ==
    depth + Cardinality(Underway) <=
        IF MaxDepth = 0 THEN 0 ELSE MaxDepth - 1 + Cardinality(Clients)

\* Requests let through by stale checks cannot keep the queue at its capacity: as
\* long as workers take jobs it falls below, and 429 is a temporary answer.
SaturationEnds == MaxDepth > 0 /\ depth >= MaxDepth ~> depth < MaxDepth
=============================================================================
