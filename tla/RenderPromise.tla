--------------------------- MODULE RenderPromise ---------------------------
(***************************************************************************)
(* What a client of VidAPI is promised about one render: its status moves  *)
(* only along the transition table, so it reaches at most one terminal     *)
(* status and keeps it, and the event announced for it is the one of that  *)
(* status, announced once and not before.                                  *)
(***************************************************************************)
EXTENDS RenderStatus

VARIABLES status,     \* the status a poll shows, "absent" before the POST
          announced   \* the webhook events announced

promise == <<status, announced>>

EventOf == [succeeded |-> "render.succeeded", failed |-> "render.failed",
            cancelled |-> "render.cancelled"]

Begin == status = "absent" /\ announced = {}

Accept ==
    /\ status = "absent"
    /\ status' = "queued"
    /\ UNCHANGED announced

Move ==
    /\ \E t \in Status : CanTransition(status, t) /\ status' = t
    /\ UNCHANGED announced

Announce ==
    /\ status \in Terminal
    /\ announced = {}
    /\ announced' = {EventOf[status]}
    /\ UNCHANGED status

Promised == Begin /\ [][Accept \/ Move \/ Announce]_promise
=============================================================================
