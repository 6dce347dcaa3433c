--------------------------- MODULE WebhookDelivery ---------------------------
(***************************************************************************)
(* Delivery of webhooks by the tasks of dispatch_webhook: one task for each *)
(* event of a render.  A task reads the render, then makes attempts.  Each *)
(* attempt is a row in webhook_attempts, committed before the POST and     *)
(* updated after it, in a session of its own; between two attempts the     *)
(* task sleeps.  Tasks live in the memory of the worker process: nothing   *)
(* resumes them, and every exception ends them.                            *)
(*                                                                         *)
(* The receiver is external.  It may answer 2xx or not, the answer may be  *)
(* lost, and the connection may fail before the request has arrived.       *)
(***************************************************************************)
EXTENDS Integers, Sequences

CONSTANTS Deliveries,  \* the dispatched tasks
          MaxRetries,  \* settings.webhook_max_retries
          RetryDelays, \* settings.webhook_retry_delays
          Faults       \* the faults this instance may suffer

ASSUME DeliveryAssumption ==
    /\ MaxRetries \in Nat
    /\ RetryDelays \in Seq(Nat)
    /\ Faults \subseteq {"receiver", "network", "db", "kill"}

VARIABLES
    task,     \* each task: control location, attempt number, result of the POST
    attempts, \* the rows of webhook_attempts of each delivery, oldest first
    waited,   \* the delays each task has slept
    heard     \* what the receiver got for each delivery: its answers, in order

vars == <<task, attempts, waited, heard>>

Ended   == {"skipped", "delivered", "exhausted", "error", "lost"}
TaskPC  == {"dispatched", "create", "post", "record", "sleep"} \cup Ended
Outcome == {"pending", "success", "failure"}
Answers == {"2xx", "other"}

TypeOK ==
    /\ task \in [Deliveries -> [pc : TaskPC, attempt : Nat, success : BOOLEAN]]
    /\ attempts \in [Deliveries -> Seq([number : Nat, outcome : Outcome])]
    /\ waited \in [Deliveries -> Seq(Nat)]
    /\ heard \in [Deliveries -> Seq(Answers)]

Init ==
    /\ task = [d \in Deliveries |->
                   [pc |-> "dispatched", attempt |-> 0, success |-> FALSE]]
    /\ attempts = [d \in Deliveries |-> << >>]
    /\ waited = [d \in Deliveries |-> << >>]
    /\ heard = [d \in Deliveries |-> << >>]

Goto(d, pc) == task' = [task EXCEPT ![d].pc = pc]

-----------------------------------------------------------------------------
\* The render is read and the payload built once, for all attempts.  Without a
\* callback URL there is nothing to deliver; an exception ends the task.
Dispatch(d) ==
    /\ task[d].pc = "dispatched"
    /\ \/ Goto(d, "skipped")
       \/ /\ MaxRetries = 0
          /\ Goto(d, "exhausted")
       \/ /\ MaxRetries > 0
          /\ task' = [task EXCEPT ![d].pc = "create", ![d].attempt = 1]
       \/ /\ "db" \in Faults
          /\ Goto(d, "error")
    /\ UNCHANGED <<attempts, waited, heard>>

NewRow(d) == attempts' = [attempts EXCEPT ![d] =
                 Append(@, [number |-> task[d].attempt, outcome |-> "pending"])]

CreateAttempt(d) ==
    /\ task[d].pc = "create"
    /\ NewRow(d)
    /\ Goto(d, "post")
    /\ UNCHANGED <<waited, heard>>

\* The commit raises, or only the refresh after it.
CreateAttemptFails(d) ==
    /\ "db" \in Faults
    /\ task[d].pc = "create"
    /\ NewRow(d) \/ UNCHANGED attempts
    /\ Goto(d, "error")
    /\ UNCHANGED <<waited, heard>>

\* Mutant of Post: any answer counts as a success.
PostAnyAnswer(d) ==
    /\ task[d].pc = "post"
    /\ \/ \E answer \in Answers :
             /\ answer = "other" => "receiver" \in Faults
             /\ heard' = [heard EXCEPT ![d] = Append(@, answer)]
             /\ task' = [task EXCEPT ![d].pc = "record", ![d].success = TRUE]
       \/ /\ "network" \in Faults
          /\ task' = [task EXCEPT ![d].pc = "record", ![d].success = FALSE]
          /\ \/ \E answer \in Answers : heard' = [heard EXCEPT ![d] = Append(@, answer)]
             \/ UNCHANGED heard
    /\ UNCHANGED <<attempts, waited>>

\* One POST.  A timeout or a connection error is a failed attempt, whether the
\* receiver has heard of it or not; no exception leaves the attempt.
Post(d) ==
    /\ task[d].pc = "post"
    /\ \/ \E answer \in Answers :
             /\ answer = "other" => "receiver" \in Faults
             /\ heard' = [heard EXCEPT ![d] = Append(@, answer)]
             /\ task' = [task EXCEPT ![d].pc = "record", ![d].success = answer = "2xx"]
       \/ /\ "network" \in Faults
          /\ task' = [task EXCEPT ![d].pc = "record", ![d].success = FALSE]
          /\ \/ \E answer \in Answers : heard' = [heard EXCEPT ![d] = Append(@, answer)]
             \/ UNCHANGED heard
    /\ UNCHANGED <<attempts, waited>>

\* What count_webhook_outcomes derives from the columns of the row.
Result(d) == IF task[d].success THEN "success" ELSE "failure"

\* update_attempt_result finds the row of this attempt by its id.
UpdateRow(d) ==
    attempts' = [attempts EXCEPT ![d][Len(attempts[d])].outcome = Result(d)]

\* Mutant of Record: a successful attempt does not end the delivery.
RecordGoesOn(d) ==
    /\ task[d].pc = "record"
    /\ UpdateRow(d)
    /\ Goto(d, IF task[d].attempt = MaxRetries THEN "exhausted"
               ELSE IF RetryDelays = << >>     THEN "error"
               ELSE "sleep")
    /\ UNCHANGED <<waited, heard>>

\* Mutant of Record: the task waits for its attempt to have succeeded.
RecordUntilSuccess(d) ==
    /\ task[d].pc = "record"
    /\ UpdateRow(d)
    /\ Goto(d, IF task[d].success THEN "delivered" ELSE "record")
    /\ UNCHANGED <<waited, heard>>

\* The result is recorded; then the task ends or sleeps.  With an empty list of
\* delays, retry_delays[-1] raises.
Record(d) ==
    /\ task[d].pc = "record"
    /\ UpdateRow(d)
    /\ Goto(d, IF task[d].success               THEN "delivered"
               ELSE IF task[d].attempt = MaxRetries THEN "exhausted"
               ELSE IF RetryDelays = << >>      THEN "error"
               ELSE "sleep")
    /\ UNCHANGED <<waited, heard>>

\* The update raises before or after its commit: no further attempt is made, also
\* when the receiver has not heard of this one.
RecordFails(d) ==
    /\ "db" \in Faults
    /\ task[d].pc = "record"
    /\ UpdateRow(d) \/ UNCHANGED attempts
    /\ Goto(d, "error")
    /\ UNCHANGED <<waited, heard>>

\* The delay after the n-th attempt: the last one is used for all that follow.
Delay(n) == RetryDelays[IF n <= Len(RetryDelays) THEN n ELSE Len(RetryDelays)]

Sleep(d) ==
    /\ task[d].pc = "sleep"
    /\ waited' = [waited EXCEPT ![d] = Append(@, Delay(task[d].attempt))]
    /\ task' = [task EXCEPT ![d].pc = "create", ![d].attempt = @ + 1]
    /\ UNCHANGED <<attempts, heard>>

\* The worker process dies with all its tasks, or is shut down: its shutdown hook
\* awaits none of them.  A POST may be on its way.
Die ==
    /\ "kill" \in Faults
    /\ \E d \in Deliveries : task[d].pc \notin Ended
    /\ task' = [d \in Deliveries |-> [task[d] EXCEPT !.pc =
                    IF task[d].pc \in Ended THEN task[d].pc ELSE "lost"]]
    /\ UNCHANGED <<attempts, waited, heard>>

Step(d) == \/ Dispatch(d) \/ CreateAttempt(d) \/ Post(d) \/ Record(d) \/ Sleep(d)

AllEnded == (\A d \in Deliveries : task[d].pc \in Ended) /\ UNCHANGED vars

Next ==
    \/ \E d \in Deliveries : Step(d) \/ CreateAttemptFails(d) \/ RecordFails(d)
    \/ Die
    \/ AllEnded

\* The event loop runs every task; every POST ends by its timeout.
FairSpec == Init /\ [][Next]_vars /\ \A d \in Deliveries : WF_vars(Step(d))
Spec     == Init /\ [][Next]_vars

-----------------------------------------------------------------------------
(* Properties.                                                             *)

\* The audit trail has no gap: the attempts of a delivery are numbered from one
\* upward, and only the last one may still be pending or be a success.
TrailIsComplete ==
    \A d \in Deliveries : \A i \in DOMAIN attempts[d] :
        /\ attempts[d][i].number = i
        /\ i < Len(attempts[d]) => attempts[d][i].outcome = "failure"

\* Nothing reaches the receiver that the audit trail does not show: every POST it
\* has heard has a row of its own, and a row says success only if the last thing it
\* heard was answered with 2xx.
HeardIsRecorded ==
    \A d \in Deliveries :
        /\ Len(heard[d]) <= Len(attempts[d])
        /\ \A i \in DOMAIN attempts[d] : attempts[d][i].outcome = "success" =>
               heard[d] # << >> /\ heard[d][Len(heard[d])] = "2xx"

\* A receiver that was told so with a recorded 2xx is not called again.
NoRepeatAfterSuccess ==
    [][\A d \in Deliveries :
          (\E i \in DOMAIN attempts[d] : attempts[d][i].outcome = "success") =>
              heard'[d] = heard[d]]_vars

\* Every task ends, whatever the receiver does.
EveryTaskEnds == \A d \in Deliveries : <>(task[d].pc \in Ended)

=============================================================================
