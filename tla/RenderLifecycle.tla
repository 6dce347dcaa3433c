-------------------------- MODULE RenderLifecycle --------------------------
(***************************************************************************)
(* One render, from POST /v1/renders to the end of its ARQ job.            *)
(*                                                                         *)
(* Three kinds of process share the render's row in the database:          *)
(*   - the creator, the request handler of POST /v1/renders;               *)
(*   - the cancellers, handlers of DELETE /v1/renders/{id};                *)
(*   - the worker, the coroutine run_render of the ARQ job.                *)
(* update_render_status reads the row, validates the transition against    *)
(* what it read, and writes in a later await: no lock, no version column.  *)
(* The model therefore splits every update into the read that fills a      *)
(* snapshot and the commit that uses it.  The awaits between are where the *)
(* processes interleave.                                                   *)
(*                                                                         *)
(* Abstracted away: progress, stage label, artifact paths and timestamps   *)
(* (a timestamp is TRUE once set), the workspace and the log artifact.     *)
(* The render is assumed to have a callback URL.                           *)
(***************************************************************************)
EXTENDS RenderStatus

CONSTANTS Cancellers,  \* the DELETE requests for this render
          None,        \* no request (cancel_requested_at IS NULL)
          Faults       \* the faults this instance may suffer

AllFaults == {"storage",   \* publishing the input fails (OSError, StorageError)
              "redis",     \* enqueueing raises RedisConnectionError or OSError
              "enqueue",   \* enqueueing raises any other RedisError
              "stage",     \* a pipeline stage or a preflight check fails
              "timeout",   \* asyncio.wait_for cancels the pipeline
              "db",        \* a session read or commit of the worker raises
              "api",       \* an API process dies or its session raises
              "kill",      \* the worker process dies
              "abort"}     \* ARQ cancels the job's task (job_timeout, shutdown)

ASSUME LifecycleAssumption ==
    /\ None \notin Cancellers
    /\ Faults \subseteq AllFaults

VARIABLES
    row,       \* the render's row, as committed
    creator,   \* the POST request: control location and snapshot
    canceller, \* the DELETE requests: control location and snapshot of each
    worker,    \* the job: control location and pipeline stage
    hooks,     \* the webhook task of each event
    ghost      \* what happened in which order, for the properties only

vars == <<row, creator, canceller, worker, hooks, ghost>>

Events == {"render.succeeded", "render.failed", "render.cancelled"}

\* A webhook task is absent, waiting, lost with its process, or has sent the
\* status it read from the row.
HookState == {"idle", "scheduled", "lost"} \cup Status

CreatorPC == {"idle", "committed", "created", "stored", "rejecting",
              "accepted", "rejected", "aborted"}
CancelPC  == {"idle", "cancelling", "flagging", "conflict", "already",
              "cancelled", "flagged", "aborted"}

\* The control locations of run_render inside wait_for(_inner()).
InnerPC   == {"checkpoint", "read", "commit", "work",
              "cancel_read", "cancel_commit", "cancel_fire", "cancel_log"}
MarkPC    == {"mark_read", "mark_named", "mark_refresh", "mark_commit", "mark_fire"}
StoppedPC == {"skipped", "done", "raised", "killed"}
WorkerPC  == {"absent", "queued"}
                 \cup InnerPC \cup MarkPC \cup StoppedPC

Absent == "absent"
Stages == {"queued", "fetching", "compiling", "rendering", "uploading", "succeeded"}

TypeOK ==
    /\ row \in [status : Status \cup {Absent}, flag : Cancellers \cup {None},
                started : BOOLEAN, completed : BOOLEAN, error : BOOLEAN]
    /\ creator \in [pc : CreatorPC, seen : Status \cup {Absent}]
    /\ canceller \in [Cancellers -> [pc : CancelPC, flag : Cancellers \cup {None}]]
    /\ worker \in [pc : WorkerPC, stage : Stages]
    /\ hooks \in [Events -> HookState]
    /\ ghost \in [earlyCancel : BOOLEAN, timelyFlag : BOOLEAN]

Init ==
    /\ row = [status |-> Absent, flag |-> None, started |-> FALSE,
              completed |-> FALSE, error |-> FALSE]
    /\ creator = [pc |-> "idle", seen |-> Absent]
    /\ canceller = [c \in Cancellers |-> [pc |-> "idle", flag |-> None]]
    /\ worker = [pc |-> "absent", stage |-> "queued"]
    /\ hooks = [e \in Events |-> "idle"]
    /\ ghost = [earlyCancel |-> FALSE, timelyFlag |-> FALSE]

-----------------------------------------------------------------------------
(* The commit of update_render_status: the status, and the columns that    *)
(* depend on it.  It is blind: nothing compares the row with the snapshot. *)
(* Every writer of "failed" also writes an error code.                     *)
WriteStatus(s) ==
    row' = [row EXCEPT !.status    = s,
                       !.started   = @ \/ s = "fetching",
                       !.completed = @ \/ s \in Terminal,
                       !.error     = @ \/ s = "failed"]

Fire(e) == hooks' = [hooks EXCEPT ![e] = "scheduled"]

-----------------------------------------------------------------------------
(* POST /v1/renders in async mode, after admission.                        *)

\* create_render commits a row in status queued ...
CreateRow ==
    /\ creator.pc = "idle"
    /\ row' = [row EXCEPT !.status = "queued"]
    /\ creator' = [creator EXCEPT !.pc = "committed"]
    /\ UNCHANGED <<canceller, worker, hooks, ghost>>

\* ... and refreshes the instance the session goes on holding.
RefreshRow ==
    /\ creator.pc = "committed"
    /\ creator' = [pc |-> "created", seen |-> row.status]
    /\ UNCHANGED <<row, canceller, worker, hooks, ghost>>

\* The input is published and its path committed; that commit's refresh renews
\* the snapshot.
StoreInput ==
    /\ creator.pc = "created"
    /\ creator' = [pc |-> "stored", seen |-> row.status]
    /\ UNCHANGED <<row, canceller, worker, hooks, ghost>>

StoreInputFails ==
    /\ "storage" \in Faults
    /\ creator.pc = "created"
    /\ creator' = [creator EXCEPT !.pc = "rejecting"]
    /\ UNCHANGED <<row, canceller, worker, hooks, ghost>>

Enqueue ==
    /\ creator.pc = "stored"
    /\ worker' = [worker EXCEPT !.pc = "queued"]
    /\ creator' = [creator EXCEPT !.pc = "accepted"]
    /\ UNCHANGED <<row, canceller, hooks, ghost>>

\* The connection to Redis fails.  The job may have been stored: only its reply
\* is known to be missing.  Errors outside (RedisConnectionError, OSError) leave
\* the handler without touching the row.
EnqueueFails ==
    /\ creator.pc = "stored"
    /\ \/ /\ "redis" \in Faults
          /\ creator' = [creator EXCEPT !.pc = "rejecting"]
       \/ /\ "enqueue" \in Faults
          /\ creator' = [creator EXCEPT !.pc = "aborted"]
    /\ \/ worker' = [worker EXCEPT !.pc = "queued"]
       \/ UNCHANGED worker
    /\ UNCHANGED <<row, canceller, hooks, ghost>>

\* Both error handlers fail the render, validating against the snapshot.
RejectRender ==
    /\ creator.pc = "rejecting"
    /\ \/ /\ CanTransition(creator.seen, "failed")
          /\ WriteStatus("failed")
          /\ creator' = [creator EXCEPT !.pc = "rejected"]
       \/ /\ ~CanTransition(creator.seen, "failed")
          /\ creator' = [creator EXCEPT !.pc = "aborted"]
          /\ UNCHANGED row
    /\ UNCHANGED <<canceller, worker, hooks, ghost>>

CreatorDies ==
    /\ "api" \in Faults
    /\ creator.pc \in {"committed", "created", "stored", "rejecting"}
    /\ creator' = [creator EXCEPT !.pc = "aborted"]
    /\ UNCHANGED <<row, canceller, worker, hooks, ghost>>

Creator == \/ CreateRow \/ RefreshRow \/ StoreInput \/ StoreInputFails
           \/ Enqueue \/ EnqueueFails \/ RejectRender

-----------------------------------------------------------------------------
(* DELETE /v1/renders/{id}.  The handler branches on one read of the row.  *)

CancelLookup(c) ==
    /\ canceller[c].pc = "idle"
    /\ row.status # Absent
    /\ canceller' = [canceller EXCEPT ![c] =
           [pc |-> IF row.status = "queued"         THEN "cancelling"
                   ELSE IF row.status = "cancelled" THEN "already"
                   ELSE IF row.status \in Terminal  THEN "conflict"
                   ELSE "flagging",
            flag |-> row.flag]]
    /\ UNCHANGED <<row, creator, worker, hooks, ghost>>

\* The worker has not read the row yet.
NotPickedUp == worker.pc \in {"absent", "queued"}

\* A read of queued is answered by a commit of cancelled.  The snapshot says
\* queued, so the validation cannot fail, whatever the row says by now.
CancelQueued(c) ==
    /\ canceller[c].pc = "cancelling"
    /\ WriteStatus("cancelled")
    /\ canceller' = [canceller EXCEPT ![c].pc = "cancelled"]
    /\ ghost' = [ghost EXCEPT !.earlyCancel = @ \/ NotPickedUp]
    /\ UNCHANGED <<creator, worker, hooks>>

\* The worker still has a checkpoint to pass before it may succeed.
CheckpointAhead ==
    \/ worker.pc \in {"absent", "queued", "checkpoint"}
    \/ /\ worker.pc \in {"read", "commit", "work"}
       /\ worker.stage \in {"fetching", "compiling", "rendering"}

\* set_cancel_requested keeps a timestamp it has seen; it does not look at the
\* status.
RequestCancel(c) ==
    /\ canceller[c].pc = "flagging"
    /\ row' = [row EXCEPT !.flag = IF canceller[c].flag = None THEN c ELSE @]
    /\ canceller' = [canceller EXCEPT ![c].pc = "flagged"]
    /\ ghost' = [ghost EXCEPT !.timelyFlag = @ \/ CheckpointAhead]
    /\ UNCHANGED <<creator, worker, hooks>>

CancellerDies(c) ==
    /\ "api" \in Faults
    /\ canceller[c].pc \in {"cancelling", "flagging"}
    /\ canceller' = [canceller EXCEPT ![c].pc = "aborted"]
    /\ UNCHANGED <<row, creator, worker, hooks, ghost>>

Canceller(c) == CancelQueued(c) \/ RequestCancel(c)

-----------------------------------------------------------------------------
(* run_render: the preflight session.                                      *)

Goto(pc) == worker' = [worker EXCEPT !.pc = pc]

\* Mutant of Pickup: no check that the render is not terminal already.
PickupUnguarded ==
    /\ worker.pc = "queued"
    /\ \/ worker' = [worker EXCEPT !.pc = "checkpoint", !.stage = "fetching"]
       \/ /\ "stage" \in Faults
          /\ \E pc \in {"mark_read", "mark_named"} : Goto(pc)
    /\ UNCHANGED <<row, creator, canceller, hooks, ghost>>

\* The first read of the row.  A preflight check may fail: no stored input,
\* unreadable or invalid input, or a capability or limit violation, which knows
\* the renderer's name.  The branch for a render flagged before its pickup is
\* not modelled because it cannot be taken: see FlagOnlyAfterPickup.
Pickup ==
    /\ worker.pc = "queued"
    /\ \/ /\ row.status \in Terminal
          /\ Goto("skipped")
       \/ /\ row.status \notin Terminal
          /\ worker' = [worker EXCEPT !.pc = "checkpoint", !.stage = "fetching"]
       \/ /\ row.status \notin Terminal
          /\ "stage" \in Faults
          /\ \E pc \in {"mark_read", "mark_named"} : Goto(pc)
    /\ UNCHANGED <<row, creator, canceller, hooks, ghost>>

-----------------------------------------------------------------------------
(* The pipeline, _execute_pipeline._inner: for each stage a checkpoint, the *)
(* status update (a read and a commit) and the work of the stage.           *)

\* Mutant of Checkpoint: the flag is not looked at before uploading.
CheckpointSkipsLast ==
    /\ worker.pc = "checkpoint"
    /\ Goto(IF row.flag # None /\ worker.stage # "uploading"
            THEN "cancel_read" ELSE "read")
    /\ UNCHANGED <<row, creator, canceller, hooks, ghost>>

Checkpoint ==
    /\ worker.pc = "checkpoint"
    /\ Goto(IF row.flag # None THEN "cancel_read" ELSE "read")
    /\ UNCHANGED <<row, creator, canceller, hooks, ghost>>

\* Mutant of ReadStage: an invalid transition is retried instead of raised.
ReadStageRetries ==
    /\ worker.pc = "read"
    /\ Goto(IF CanTransition(row.status, worker.stage) THEN "commit" ELSE "read")
    /\ UNCHANGED <<row, creator, canceller, hooks, ghost>>

\* transition_to raises ValueError when the row is not in the stage before.
ReadStage ==
    /\ worker.pc = "read"
    /\ Goto(IF CanTransition(row.status, worker.stage) THEN "commit" ELSE "mark_read")
    /\ UNCHANGED <<row, creator, canceller, hooks, ghost>>

CommitStage ==
    /\ worker.pc = "commit"
    /\ WriteStatus(worker.stage)
    /\ Goto("work")
    /\ UNCHANGED <<creator, canceller, hooks, ghost>>

\* The stage's work is done.  No checkpoint stands between uploading and
\* succeeded.
FinishStage ==
    /\ worker.pc = "work"
    /\ worker.stage # "succeeded"
    /\ LET next == NextStage[worker.stage]
       IN worker' = [worker EXCEPT
              !.pc    = IF next = "succeeded" THEN "read" ELSE "checkpoint",
              !.stage = next]
    /\ UNCHANGED <<row, creator, canceller, hooks, ghost>>

AnnounceSuccess ==
    /\ worker.pc = "work"
    /\ worker.stage = "succeeded"
    /\ Fire("render.succeeded")
    /\ Goto("done")
    /\ UNCHANGED <<row, creator, canceller, ghost>>

\* Expansion, asset resolution, compilation, rendering or storing raises, or the
\* workspace cannot be created before the first checkpoint.  Only compiling
\* revalidates capabilities and so fails with a renderer's name.
StageFails ==
    /\ "stage" \in Faults
    /\ \/ /\ worker.pc = "work"
          /\ worker.stage \in {"fetching", "compiling", "rendering"}
          /\ Goto("mark_read")
       \/ /\ worker.pc = "checkpoint"
          /\ worker.stage = "fetching"
          /\ Goto("mark_read")
       \/ /\ worker.pc = "work"
          /\ worker.stage = "compiling"
          /\ Goto("mark_named")
    /\ UNCHANGED <<row, creator, canceller, hooks, ghost>>

\* The renderer's cancel_check sees the flag: the subprocess is terminated and
\* a RenderError raised, which run_render handles as any other failure.
RenderInterrupted ==
    /\ worker.pc = "work"
    /\ worker.stage = "rendering"
    /\ row.flag # None
    /\ Goto("mark_read")
    /\ UNCHANGED <<row, creator, canceller, hooks, ghost>>

-----------------------------------------------------------------------------
(* _cancel_render, run by a checkpoint that found the flag.                *)

CancelRead ==
    /\ worker.pc = "cancel_read"
    /\ Goto(IF row.status \in Terminal THEN "cancel_fire" ELSE "cancel_commit")
    /\ UNCHANGED <<row, creator, canceller, hooks, ghost>>

CancelCommit ==
    /\ worker.pc = "cancel_commit"
    /\ WriteStatus("cancelled")
    /\ Goto("cancel_fire")
    /\ UNCHANGED <<creator, canceller, hooks, ghost>>

\* Mutant of CancelFire: the cancellation is not announced.
CancelFireSilent ==
    /\ worker.pc = "cancel_fire"
    /\ Goto("cancel_log")
    /\ UNCHANGED <<row, creator, canceller, hooks, ghost>>

CancelFire ==
    /\ worker.pc = "cancel_fire"
    /\ Fire("render.cancelled")
    /\ Goto("cancel_log")
    /\ UNCHANGED <<row, creator, canceller, ghost>>

\* A last await inside wait_for; then _PipelineCancelledError is suppressed.
CancelLog ==
    /\ worker.pc = "cancel_log"
    /\ Goto("done")
    /\ UNCHANGED <<row, creator, canceller, hooks, ghost>>

-----------------------------------------------------------------------------
(* _mark_failed, run by preflight failures and by the handler of every     *)
(* exception of the pipeline.  It announces render.failed in every case,   *)
(* also over a status it found terminal.                                   *)

\* Mutant of MarkRead: the failure is announced before it is committed.
MarkReadAnnounces ==
    /\ worker.pc = "mark_read"
    /\ Fire("render.failed")
    /\ Goto(IF row.status \in Terminal THEN "done" ELSE "mark_commit")
    /\ UNCHANGED <<row, creator, canceller, ghost>>

MarkRead ==
    /\ worker.pc = "mark_read"
    /\ Goto(IF row.status \in Terminal THEN "mark_fire" ELSE "mark_commit")
    /\ UNCHANGED <<row, creator, canceller, hooks, ghost>>

\* With a renderer to record, the row is written once more in between ...
MarkNamed ==
    /\ worker.pc = "mark_named"
    /\ Goto(IF row.status \in Terminal THEN "mark_fire" ELSE "mark_refresh")
    /\ UNCHANGED <<row, creator, canceller, hooks, ghost>>

\* Mutant of MarkRefresh: the renderer is recorded again after every refresh.
MarkRefreshAgain ==
    /\ worker.pc = "mark_refresh"
    /\ Goto(IF CanTransition(row.status, "failed") THEN "mark_named" ELSE "raised")
    /\ UNCHANGED <<row, creator, canceller, hooks, ghost>>

\* ... and the refresh of that commit renews the snapshot, so the validation may
\* now raise, out of the handler and of the job.
MarkRefresh ==
    /\ worker.pc = "mark_refresh"
    /\ Goto(IF CanTransition(row.status, "failed") THEN "mark_commit" ELSE "raised")
    /\ UNCHANGED <<row, creator, canceller, hooks, ghost>>

MarkCommit ==
    /\ worker.pc = "mark_commit"
    /\ WriteStatus("failed")
    /\ Goto("mark_fire")
    /\ UNCHANGED <<creator, canceller, hooks, ghost>>

MarkFire ==
    /\ worker.pc = "mark_fire"
    /\ Fire("render.failed")
    /\ Goto("done")
    /\ UNCHANGED <<row, creator, canceller, ghost>>

Worker == \/ Pickup \/ Checkpoint \/ ReadStage \/ CommitStage
          \/ FinishStage \/ AnnounceSuccess \/ StageFails \/ RenderInterrupted
          \/ CancelRead \/ CancelCommit \/ CancelFire \/ CancelLog
          \/ MarkRead \/ MarkNamed \/ MarkRefresh \/ MarkCommit \/ MarkFire

-----------------------------------------------------------------------------
(* Faults of the worker.                                                   *)

\* wait_for cancels the pipeline at any of its awaits and raises TimeoutError.
Timeout ==
    /\ "timeout" \in Faults
    /\ worker.pc \in InnerPC
    /\ Goto("mark_read")
    /\ UNCHANGED <<row, creator, canceller, hooks, ghost>>

\* A session operation raises.  Inside the pipeline this is one more failure;
\* anywhere else nothing catches it.  After a commit it is the refresh that fails.
DatabaseFails ==
    /\ "db" \in Faults
    /\ \/ /\ worker.pc \in InnerPC \ {"cancel_log"}
          /\ Goto("mark_read")
       \/ /\ worker.pc \in MarkPC \cup {"queued"}
          /\ Goto("raised")
    /\ UNCHANGED <<row, creator, canceller, hooks, ghost>>

Running == worker.pc \in InnerPC \cup MarkPC

\* The worker process dies and its webhook tasks with it.  max_tries = 1: ARQ
\* does not run the job again.
WorkerDies ==
    /\ "kill" \in Faults
    /\ Running \/ \E e \in Events : hooks[e] = "scheduled"
    /\ worker' = [worker EXCEPT !.pc = IF Running THEN "killed" ELSE @]
    /\ hooks' = [e \in Events |-> IF hooks[e] = "scheduled" THEN "lost" ELSE hooks[e]]
    /\ UNCHANGED <<row, creator, canceller, ghost>>

\* CancelledError is no Exception: run_render does not handle it.
JobAborted ==
    /\ "abort" \in Faults
    /\ Running
    /\ Goto("killed")
    /\ UNCHANGED <<row, creator, canceller, hooks, ghost>>

-----------------------------------------------------------------------------
(* dispatch_webhook, a task of its own: it reads the row when it runs.     *)

\* Mutant of Dispatch: a render that is not failed gets no failure callback.
DispatchFiltered(e) ==
    /\ hooks[e] = "scheduled"
    /\ hooks' = [hooks EXCEPT ![e] = IF e = "render.failed" /\ row.status # "failed"
                                     THEN "lost" ELSE row.status]
    /\ UNCHANGED <<row, creator, canceller, worker, ghost>>

Dispatch(e) ==
    /\ hooks[e] = "scheduled"
    /\ hooks' = [hooks EXCEPT ![e] = row.status]
    /\ UNCHANGED <<row, creator, canceller, worker, ghost>>

\* It swallows every exception.
DispatchFails(e) ==
    /\ "db" \in Faults
    /\ hooks[e] = "scheduled"
    /\ hooks' = [hooks EXCEPT ![e] = "lost"]
    /\ UNCHANGED <<row, creator, canceller, worker, ghost>>

-----------------------------------------------------------------------------
\* No process has a step left, except DELETE requests that never come.
Quiescent ==
    /\ creator.pc \in {"accepted", "rejected", "aborted"}
    /\ \A c \in Cancellers : canceller[c].pc \notin {"cancelling", "flagging"}
    /\ worker.pc \in StoppedPC \cup {"absent"}
    /\ \A e \in Events : hooks[e] # "scheduled"

\* Any other state without a successor is a deadlock.
Rest == Quiescent /\ UNCHANGED vars

Next ==
    \/ Creator
    \/ CreatorDies
    \/ \E c \in Cancellers : CancelLookup(c) \/ Canceller(c) \/ CancellerDies(c)
    \/ Worker
    \/ Timeout
    \/ DatabaseFails
    \/ WorkerDies
    \/ JobAborted
    \/ \E e \in Events : Dispatch(e) \/ DispatchFails(e)
    \/ Rest

\* An event loop runs every coroutine that can run; a stage's work is bounded by
\* the render timeout.  Requests need not arrive, and no fault need happen.
Fairness ==
    /\ WF_vars(Creator)
    /\ \A c \in Cancellers : WF_vars(Canceller(c))
    /\ WF_vars(Worker)
    /\ \A e \in Events : WF_vars(Dispatch(e))

Spec     == Init /\ [][Next]_vars
FairSpec == Spec /\ Fairness

\* The environment in which no DELETE finds the render queued: every cancel is
\* the cooperative one, by the flag.
Cooperative     == \A c \in Cancellers : canceller'[c].pc # "cancelling"
CooperativeSpec == Init /\ [][Next /\ Cooperative]_vars

-----------------------------------------------------------------------------
(* Properties.                                                             *)

\* Nobody is told of an outcome that is then taken back: once a webhook has been
\* scheduled, the row never shows an active status again, whatever stale commit
\* is still to come, and so no payload carries an active status.
NotifiedIsTerminal ==
    (\E e \in Events : hooks[e] # "idle") =>
        /\ row.status \in Terminal
        /\ \A e \in Events : hooks[e] \notin Active

\* An active status tells where the job really is: requests write only terminal
\* statuses, so a poll that shows rendering means the worker has committed
\* rendering and not uploading.
Behind == [fetching |-> "queued", compiling |-> "fetching",
           rendering |-> "compiling", uploading |-> "rendering",
           succeeded |-> "uploading"]

StatusTracksWorker ==
    row.status \in Active =>
        /\ worker.pc \in {"absent", "queued"} => row.status = "queued"
        /\ worker.pc \in {"checkpoint", "read", "commit"} =>
               row.status = Behind[worker.stage]
        /\ worker.pc = "work" => row.status = worker.stage

\* A flag recorded while a checkpoint was still ahead of the worker is honoured:
\* the render is neither finalised nor successful.
CancelHonoured == ghost.timelyFlag => row.status \notin {"uploading", "succeeded"}

\* A queued render cancelled before its job was picked up never enters the
\* pipeline, although the job stays in the queue.
CancelledNeverRuns ==
    ghost.earlyCancel => worker.pc \in {"absent", "queued", "skipped", "raised"}

\* The flag is only ever set on a render a worker has picked up: the preflight
\* branch "cancelled on pickup" of run_render is dead code.
FlagOnlyAfterPickup == NotPickedUp => row.flag = None

\* The columns that depend on the status agree with it even when commits of two
\* processes are mixed in one row.
RowConsistent ==
    /\ row.status \in Terminal => row.completed
    /\ row.status = "failed" => row.error
    /\ row.status \in (Active \ {"queued"}) \cup {"succeeded"} => row.started

\* A job that ran to its end without an exception escaping has told its client.
FinishedIsAnnounced == worker.pc = "done" => \E e \in Events : hooks[e] # "idle"

\* What clients are promised (see RenderPromise), implemented under CooperativeSpec
\* as long as no pipeline times out and neither Redis nor the database fails.
Promise == INSTANCE RenderPromise
    WITH status <- row.status, announced <- {e \in Events : hooks[e] # "idle"}

KeepsPromise == Promise!Promised

\* A render accepted with 202 reaches a terminal status and stays in one.
AcceptedSettles == creator.pc = "accepted" ~> [](row.status \in Terminal)

\* A render asked to stop does stop, with one outcome or another.
FlaggedStops == row.flag # None ~> worker.pc \in StoppedPC

\* Every webhook that was scheduled is sent, with the status of a settled render.
ScheduledIsSent == \A e \in Events : hooks[e] = "scheduled" ~> hooks[e] \in Terminal

-----------------------------------------------------------------------------
(* What the documentation says and the code does not do.                   *)

\* "Every render reaches exactly one terminal state": a terminal status is
\* never replaced.
TerminalIsFinal == [][row.status \in Terminal => row'.status = row.status]_vars

=============================================================================
