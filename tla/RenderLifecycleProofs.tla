----------------------- MODULE RenderLifecycleProofs -----------------------
(***************************************************************************)
(* The safety properties of RenderLifecycle hold for any set of DELETE     *)
(* requests and any set of faults.  One inductive invariant, IInv, carries *)
(* them all: it adds to the properties what the control locations of the   *)
(* four kinds of process say about the row.                                *)
(***************************************************************************)
EXTENDS RenderLifecycle, TLAPS

\* The row exists once the creator has begun, and the job once it has enqueued.
Creation ==
    /\ row.status = Absent <=> creator.pc = "idle"
    /\ creator.pc \in {"idle", "committed", "created", "stored"} => worker.pc = "absent"
    /\ \A c \in Cancellers : canceller[c].pc # "idle" => creator.pc # "idle"

\* Where the job can be in its list of stages.
Position ==
    /\ worker.pc \in {"checkpoint", "read", "commit", "work"} => worker.stage # "queued"
    /\ worker.pc = "checkpoint" => worker.stage # "succeeded"

\* The control locations the worker reaches only over a terminal row ...
AfterOutcome ==
    \/ worker.pc \in {"cancel_fire", "cancel_log", "mark_fire", "skipped", "done"}
    \/ worker.pc = "work" /\ worker.stage = "succeeded"

\* ... and those from which it may still write an active status.
MayWriteActive == worker.pc \in {"absent", "queued", "checkpoint", "read", "commit"}

Outcome ==
    /\ AfterOutcome => row.status \in Terminal
    /\ MayWriteActive \/ (worker.pc = "work" /\ worker.stage # "succeeded") =>
           \A e \in Events : hooks[e] = "idle"
    /\ worker.pc = "cancel_log" => \E e \in Events : hooks[e] # "idle"

\* Once the first stage is committed the render has started, for good.
Started ==
    /\ worker.pc = "work" => row.started
    /\ worker.pc \in {"checkpoint", "read", "commit"} /\ worker.stage # "fetching" =>
           row.started

\* A timely flag is seen by the next checkpoint.
PastLastCheckpoint ==
    /\ worker.pc \in {"read", "commit", "work"}
    /\ worker.stage \in {"uploading", "succeeded"}

Flagged ==
    /\ ghost.timelyFlag => row.flag # None /\ ~PastLastCheckpoint
    /\ row.status \in {"uploading", "succeeded"} => ~CheckpointAhead
    /\ \A c \in Cancellers : canceller[c].flag # None => row.flag # None
    /\ NotPickedUp => \A c \in Cancellers : canceller[c].pc # "flagging"

\* An early cancellation leaves a terminal row for the pickup to find.
Cancelled ==
    ghost.earlyCancel => /\ creator.pc # "idle"
                         /\ NotPickedUp => row.status \in Terminal

IInv ==
    /\ TypeOK
    /\ Creation
    /\ Position
    /\ Outcome
    /\ Started
    /\ Flagged
    /\ Cancelled
    /\ NotifiedIsTerminal
    /\ StatusTracksWorker
    /\ CancelHonoured
    /\ CancelledNeverRuns
    /\ FlagOnlyAfterPickup
    /\ RowConsistent
    /\ FinishedIsAnnounced

-----------------------------------------------------------------------------
\* IInv holds initially.
LEMMA InitIInv == Init => IInv
BY LifecycleAssumption
DEF Init, IInv, TypeOK, Creation, Position, Outcome, AfterOutcome, MayWriteActive,
    Started, Flagged, PastLastCheckpoint, CheckpointAhead, NotPickedUp, Cancelled,
    NotifiedIsTerminal, StatusTracksWorker, CancelHonoured, CancelledNeverRuns,
    FlagOnlyAfterPickup, RowConsistent, FinishedIsAnnounced, CreatorPC, CancelPC,
    WorkerPC, InnerPC, MarkPC, StoppedPC, Stages, Absent, HookState, Status, Active,
    Terminal

-----------------------------------------------------------------------------
\* The commit of a status changes the status and only sets the other columns.
LEMMA WriteStatusFields ==
    ASSUME TypeOK, NEW s \in Status, WriteStatus(s)
    PROVE  /\ row' \in [status : Status \cup {Absent}, flag : Cancellers \cup {None},
                        started : BOOLEAN, completed : BOOLEAN, error : BOOLEAN]
           /\ row'.status = s
           /\ row'.flag = row.flag
           /\ row.started \/ s = "fetching" => row'.started
           /\ row.completed \/ s \in Terminal => row'.completed
           /\ row.error \/ s = "failed" => row'.error
<1>1. /\ row'.status = s
      /\ row'.flag = row.flag
      /\ row'.started = (row.started \/ s = "fetching")
      /\ row'.completed = (row.completed \/ s \in Terminal)
      /\ row'.error = (row.error \/ s = "failed")
  BY DEF TypeOK, WriteStatus
<1>2. row' \in [status : Status \cup {Absent}, flag : Cancellers \cup {None},
                started : BOOLEAN, completed : BOOLEAN, error : BOOLEAN]
  BY DEF TypeOK, WriteStatus
<1>3. QED
  BY <1>1, <1>2

\* A scheduled webhook leaves the other events alone.
LEMMA FireFields ==
    ASSUME TypeOK, NEW e \in Events, Fire(e)
    PROVE  /\ hooks' \in [Events -> HookState]
           /\ hooks'[e] = "scheduled"
           /\ \A f \in Events : f # e => hooks'[f] = hooks[f]
BY DEF TypeOK, Fire, HookState

-----------------------------------------------------------------------------
\* Every step of every process preserves IInv.
LEMMA NextIInv == IInv /\ [Next]_vars => IInv'
<1> SUFFICES ASSUME IInv, [Next]_vars
             PROVE  IInv'
  OBVIOUS
<1> USE LifecycleAssumption
    DEF IInv, TypeOK, Creation, Position, Outcome, AfterOutcome, MayWriteActive,
        Started, Flagged, PastLastCheckpoint, CheckpointAhead, NotPickedUp, Cancelled,
        NotifiedIsTerminal, StatusTracksWorker, CancelHonoured, CancelledNeverRuns,
        FlagOnlyAfterPickup, RowConsistent, FinishedIsAnnounced, CreatorPC, CancelPC,
        WorkerPC, InnerPC, MarkPC, StoppedPC, Stages, Absent, HookState, Status, Active,
        Terminal, Behind, Goto
<1>1. CASE CreateRow
  BY <1>1 DEF CreateRow
<1>2. CASE RefreshRow
  BY <1>2 DEF RefreshRow
<1>3. CASE StoreInput
  BY <1>3 DEF StoreInput
<1>4. CASE StoreInputFails
  BY <1>4 DEF StoreInputFails
<1>5. CASE Enqueue
  BY <1>5 DEF Enqueue
<1>6. CASE EnqueueFails
  BY <1>6 DEF EnqueueFails
<1>7. CASE RejectRender
  BY <1>7, WriteStatusFields DEF RejectRender, CanTransition, AllowedTransitions
<1>8. CASE CreatorDies
  BY <1>8 DEF CreatorDies
<1>9. ASSUME NEW c \in Cancellers, CancelLookup(c)
      PROVE  IInv'
  BY <1>9 DEF CancelLookup
<1>10. ASSUME NEW c \in Cancellers, CancelQueued(c)
      PROVE  IInv'
  BY <1>10, WriteStatusFields DEF CancelQueued
<1>11. ASSUME NEW c \in Cancellers, RequestCancel(c)
      PROVE  IInv'
  <2> DEFINE flag == IF canceller[c].flag = None THEN c ELSE row.flag
  <2>1. flag \in Cancellers
    BY <1>11 DEF RequestCancel
  <2>2. /\ row' = [row EXCEPT !.flag = flag]
        /\ canceller' = [canceller EXCEPT ![c].pc = "flagged"]
        /\ ghost' = [ghost EXCEPT !.timelyFlag = @ \/ CheckpointAhead]
        /\ UNCHANGED <<creator, worker, hooks>>
    BY <1>11 DEF RequestCancel
  <2>3. TypeOK'
    <3>1. row' \in [status : Status \cup {Absent}, flag : Cancellers \cup {None},
                    started : BOOLEAN, completed : BOOLEAN, error : BOOLEAN]
      BY <2>1, <2>2
    <3>2. canceller' \in [Cancellers -> [pc : CancelPC, flag : Cancellers \cup {None}]]
      BY <2>2
    <3>3. ghost' \in [earlyCancel : BOOLEAN, timelyFlag : BOOLEAN]
      BY <2>2
    <3>4. QED
      BY <2>2, <3>1, <3>2, <3>3
  <2>4. /\ row'.flag # None /\ row'.status = row.status
        /\ ghost'.timelyFlag => ghost.timelyFlag \/ CheckpointAhead
        /\ ghost'.earlyCancel = ghost.earlyCancel
    BY <2>1, <2>2
  <2>5. ~NotPickedUp
    BY <1>11 DEF RequestCancel
  <2>6. Creation' /\ Position' /\ Outcome' /\ Started' /\ Flagged' /\ Cancelled'
    BY <1>11, <2>2, <2>4, <2>5 DEF RequestCancel
  <2>7. /\ NotifiedIsTerminal' /\ StatusTracksWorker' /\ CancelHonoured'
        /\ CancelledNeverRuns' /\ FlagOnlyAfterPickup' /\ RowConsistent'
        /\ FinishedIsAnnounced'
    BY <2>2, <2>4, <2>5
  <2>8. QED
    BY <2>3, <2>6, <2>7
<1>12. ASSUME NEW c \in Cancellers, CancellerDies(c)
      PROVE  IInv'
  BY <1>12 DEF CancellerDies
<1>13. CASE Pickup
  <2>1. CASE /\ row.status \in Terminal
             /\ worker' = [worker EXCEPT !.pc = "skipped"]
    BY <1>13, <2>1 DEF Pickup
  <2>2. CASE /\ row.status \notin Terminal
             /\ worker' = [worker EXCEPT !.pc = "checkpoint", !.stage = "fetching"]
    <3>1. /\ worker'.pc = "checkpoint" /\ worker'.stage = "fetching"
          /\ worker' \in [pc : WorkerPC, stage : Stages]
          /\ UNCHANGED <<row, creator, canceller, hooks, ghost>>
      BY <1>13, <2>2 DEF Pickup
    <3>2. row.status = "queued" /\ creator.pc # "idle"
      BY <1>13, <2>2 DEF Pickup
    <3>3. TypeOK' /\ Creation' /\ Position' /\ Outcome' /\ Started' /\ Flagged' /\ Cancelled'
      BY <1>13, <2>2, <3>1, <3>2 DEF Pickup
    <3>4. /\ NotifiedIsTerminal' /\ StatusTracksWorker' /\ CancelHonoured'
          /\ CancelledNeverRuns' /\ FlagOnlyAfterPickup' /\ RowConsistent'
          /\ FinishedIsAnnounced'
      BY <1>13, <2>2, <3>1, <3>2 DEF Pickup
    <3>5. QED
      BY <3>3, <3>4
  <2>3. ASSUME NEW pc \in {"mark_read", "mark_named"},
               row.status \notin Terminal, worker' = [worker EXCEPT !.pc = pc]
        PROVE  IInv'
    BY <1>13, <2>3 DEF Pickup
  <2>4. QED
    BY <1>13, <2>1, <2>2, <2>3 DEF Pickup
<1>14. CASE Checkpoint
  BY <1>14 DEF Checkpoint
<1>15. CASE ReadStage
  BY <1>15 DEF ReadStage, CanTransition, AllowedTransitions, NextStage
<1>16. CASE CommitStage
  BY <1>16, WriteStatusFields DEF CommitStage
<1>17. CASE FinishStage
  <2> DEFINE next == NextStage[worker.stage]
  <2>1. /\ worker.stage \in {"fetching", "compiling", "rendering", "uploading"}
        /\ next \in Stages
        /\ Behind[next] = worker.stage
        /\ next # "queued" /\ next # "fetching"
        /\ next = "succeeded" <=> worker.stage = "uploading"
        /\ next = "uploading" <=> worker.stage = "rendering"
    BY <1>17 DEF FinishStage, NextStage
  <2>2. /\ worker'.pc = IF next = "succeeded" THEN "read" ELSE "checkpoint"
        /\ worker'.stage = next
        /\ worker' \in [pc : WorkerPC, stage : Stages]
        /\ UNCHANGED <<row, creator, canceller, hooks, ghost>>
    BY <1>17, <2>1 DEF FinishStage
  <2>3. TypeOK'
    BY <2>2
  <2>4. Creation' /\ Position' /\ Outcome' /\ Started' /\ Flagged' /\ Cancelled'
    BY <1>17, <2>1, <2>2 DEF FinishStage
  <2>5. /\ NotifiedIsTerminal' /\ StatusTracksWorker' /\ CancelHonoured'
        /\ CancelledNeverRuns' /\ FlagOnlyAfterPickup' /\ RowConsistent'
        /\ FinishedIsAnnounced'
    BY <1>17, <2>1, <2>2 DEF FinishStage
  <2>6. QED
    BY <2>3, <2>4, <2>5
<1>18. CASE AnnounceSuccess
  BY <1>18, FireFields DEF AnnounceSuccess, Events
<1>19. CASE StageFails
  BY <1>19 DEF StageFails
<1>20. CASE RenderInterrupted
  BY <1>20 DEF RenderInterrupted
<1>21. CASE CancelRead
  BY <1>21 DEF CancelRead
<1>22. CASE CancelCommit
  BY <1>22, WriteStatusFields DEF CancelCommit
<1>23. CASE CancelFire
  BY <1>23, FireFields DEF CancelFire, Events
<1>24. CASE CancelLog
  BY <1>24 DEF CancelLog
<1>25. CASE MarkRead
  BY <1>25 DEF MarkRead
<1>26. CASE MarkNamed
  BY <1>26 DEF MarkNamed
<1>27. CASE MarkRefresh
  BY <1>27 DEF MarkRefresh, CanTransition, AllowedTransitions
<1>28. CASE MarkCommit
  BY <1>28, WriteStatusFields DEF MarkCommit
<1>29. CASE MarkFire
  BY <1>29, FireFields DEF MarkFire, Events
<1>30. CASE Timeout
  BY <1>30 DEF Timeout
<1>31. CASE DatabaseFails
  BY <1>31 DEF DatabaseFails
<1>32. CASE WorkerDies
  BY <1>32 DEF WorkerDies, Running
<1>33. CASE JobAborted
  BY <1>33 DEF JobAborted, Running
<1>34. ASSUME NEW e \in Events, Dispatch(e)
      PROVE  IInv'
  BY <1>34 DEF Dispatch
<1>35. ASSUME NEW e \in Events, DispatchFails(e)
      PROVE  IInv'
  BY <1>35 DEF DispatchFails
<1>36. CASE UNCHANGED vars
  BY <1>36 DEF vars
<1>37. QED
  BY <1>1, <1>2, <1>3, <1>4, <1>5, <1>6, <1>7, <1>8, <1>9, <1>10, <1>11, <1>12,
     <1>13, <1>14, <1>15, <1>16, <1>17, <1>18, <1>19, <1>20, <1>21, <1>22, <1>23,
     <1>24, <1>25, <1>26, <1>27, <1>28, <1>29, <1>30, <1>31, <1>32, <1>33, <1>34,
     <1>35, <1>36
  DEF Next, Creator, Canceller, Worker, Rest
-----------------------------------------------------------------------------
\* The invariant, from which every theorem below follows.
THEOREM Invariance == Spec => []IInv
<1>1. Init => IInv
  BY InitIInv
<1>2. IInv /\ [Next]_vars => IInv'
  BY NextIInv
<1>3. QED
  BY <1>1, <1>2, PTL DEF Spec

\* The row, the snapshots, the control locations and the webhook tasks keep to their
\* types: in particular no update writes a status outside RenderStatus.
THEOREM TypeCorrect == Spec => []TypeOK
BY Invariance, PTL DEF IInv

\* Once a webhook is scheduled, no stale commit of any process makes the row active
\* again, and no payload carries an active status.
THEOREM OutcomeIsNotTakenBack == Spec => []NotifiedIsTerminal
BY Invariance, PTL DEF IInv

\* An active status in the row is the stage the job is really in, or has just left.
THEOREM PollsTrackTheJob == Spec => []StatusTracksWorker
BY Invariance, PTL DEF IInv

\* A cancellation recorded before the last checkpoint never ends in uploading or
\* succeeded, whatever other requests, timeouts and errors interleave.
THEOREM TimelyCancelHonoured == Spec => []CancelHonoured
BY Invariance, PTL DEF IInv

\* A render cancelled before its job is picked up never enters the pipeline.
THEOREM EarlyCancelNeverRuns == Spec => []CancelledNeverRuns
BY Invariance, PTL DEF IInv

\* No flag is set before the job is picked up, so the branch of run_render for a
\* render flagged while queued cannot be taken.
THEOREM PreflightFlagUnreachable == Spec => []FlagOnlyAfterPickup
BY Invariance, PTL DEF IInv

\* Lost updates never leave a status without the columns that belong to it.
THEOREM MixedCommitsConsistent == Spec => []RowConsistent
BY Invariance, PTL DEF IInv

\* A job that returns normally has scheduled a webhook.
THEOREM FinishedJobsAnnounce == Spec => []FinishedIsAnnounced
BY Invariance, PTL DEF IInv

-----------------------------------------------------------------------------
(* The refinement.  As long as no DELETE finds the render queued, the      *)
(* promise can be broken only by a pipeline that is cut off after its      *)
(* outcome was committed (a timeout, a failing session), or by a job that  *)
(* runs although its enqueueing was reported as failed (Redis).  Without   *)
(* these there is one writer at a time: the creator until it has enqueued, *)
(* then the worker, and each knows what the row says.                      *)

\* The locations of the worker before it announces an outcome.
Unannounced == {"absent", "queued", "checkpoint", "read", "commit", "work",
                "cancel_read", "cancel_commit", "cancel_fire"} \cup MarkPC

OneWriter ==
    /\ \A c \in Cancellers : canceller[c].pc \notin {"cancelling", "cancelled"}
    /\ creator.pc \in {"committed", "created", "stored", "rejecting"} =>
           worker.pc = "absent" /\ row.status = "queued"
    /\ creator.pc \in {"created", "stored", "rejecting"} => creator.seen = "queued"
    /\ worker.pc = "queued" => row.status = "queued"
    /\ worker.pc \in {"checkpoint", "read", "commit"} => row.status = Behind[worker.stage]
    /\ worker.pc = "work" => row.status = worker.stage
    /\ worker.pc \in {"cancel_read", "cancel_commit", "mark_read", "mark_named",
                      "mark_refresh", "mark_commit"} => row.status \in Active
    /\ worker.pc = "cancel_fire" => row.status = "cancelled"
    /\ worker.pc = "mark_fire" => row.status = "failed"
    /\ worker.pc \in Unannounced => \A e \in Events : hooks[e] = "idle"

\* None of the faults that break the promise.
Reliable == Faults \cap {"timeout", "redis", "db"} = {}

Announced == {e \in Events : hooks[e] # "idle"}
Untold    == UNCHANGED row.status /\ UNCHANGED Announced
Kept      == Promise!Accept \/ Promise!Move \/ Promise!Announce \/ Untold

\* A step that leaves the status and the webhooks alone shows the client nothing.
LEMMA SilentKeeps ==
    ASSUME row'.status = row.status, hooks' = hooks
    PROVE  Kept
BY DEF Kept, Untold, Announced

\* The commit of a status the table allows is a move of the promise.
LEMMA CommitKeeps ==
    ASSUME TypeOK, NEW s \in Status, CanTransition(row.status, s), WriteStatus(s),
           hooks' = hooks
    PROVE  Kept
<1>1. row'.status = s
  BY WriteStatusFields
<1>2. Announced' = Announced
  BY DEF Announced
<1>3. Promise!Move
  BY <1>1, <1>2 DEF Promise!Move, Promise!Status, Promise!Active, Promise!Terminal,
     Promise!CanTransition, Promise!AllowedTransitions, Promise!NextStage,
     Status, Active, Terminal, CanTransition, AllowedTransitions, NextStage, Announced
<1>4. QED
  BY <1>3 DEF Kept

\* The first webhook to be scheduled is the announcement of the promise, if its
\* event is that of the status.
LEMMA FireKeeps ==
    ASSUME TypeOK, row.status \in Terminal, NEW e \in Events, e = Promise!EventOf[row.status],
           \A f \in Events : hooks[f] = "idle", Fire(e), row' = row
    PROVE  Kept
<1>1. Announced = {}
  BY DEF Announced
<1>2. Announced' = {e}
  BY FireFields DEF Announced
<1>3. Promise!Announce
  BY <1>1, <1>2 DEF Promise!Announce, Promise!Terminal, Terminal, Announced
<1>4. QED
  BY <1>3 DEF Kept

\* One writer at a time to begin with.
LEMMA InitOneWriter == Init => OneWriter
BY DEF Init, OneWriter, Unannounced, MarkPC, Absent, Active

\* Every step of the reliable, cooperative lifecycle keeps one writer at a time, and
\* is a step of the promise or shows the client nothing.
LEMMA NextOneWriter ==
    Reliable /\ IInv /\ OneWriter /\ [Next /\ Cooperative]_vars => OneWriter' /\ Kept
<1> SUFFICES ASSUME Reliable, IInv, OneWriter, [Next /\ Cooperative]_vars
             PROVE  OneWriter' /\ Kept
  OBVIOUS
<1>0. TypeOK /\ Creation /\ Position
  BY DEF IInv
<1> USE <1>0 DEF OneWriter, Unannounced, TypeOK, Creation, Position, MarkPC, CreatorPC,
    CancelPC, WorkerPC, InnerPC, StoppedPC, Stages, Status, Active, Terminal, Absent,
    Behind, Goto
<1>1. CASE CreateRow
  BY <1>1 DEF CreateRow, Kept, Promise!Accept, Announced
<1>2. CASE RefreshRow
  BY <1>2, SilentKeeps DEF RefreshRow
<1>3. CASE StoreInput
  BY <1>3, SilentKeeps DEF StoreInput
<1>4. CASE StoreInputFails
  BY <1>4, SilentKeeps DEF StoreInputFails
<1>5. CASE Enqueue
  BY <1>5, SilentKeeps DEF Enqueue
<1>6. CASE EnqueueFails
  BY <1>6, SilentKeeps DEF EnqueueFails, Reliable
<1>7. CASE CreatorDies
  BY <1>7, SilentKeeps DEF CreatorDies
<1>8. CASE Checkpoint
  BY <1>8, SilentKeeps DEF Checkpoint
<1>9. CASE ReadStage
  BY <1>9, SilentKeeps DEF ReadStage
<1>10. CASE FinishStage
  BY <1>10, SilentKeeps DEF FinishStage, NextStage
<1>11. CASE StageFails
  BY <1>11, SilentKeeps DEF StageFails
<1>12. CASE RenderInterrupted
  BY <1>12, SilentKeeps DEF RenderInterrupted
<1>13. CASE CancelRead
  BY <1>13, SilentKeeps DEF CancelRead
<1>14. CASE CancelLog
  BY <1>14, SilentKeeps DEF CancelLog
<1>15. CASE MarkRead
  BY <1>15, SilentKeeps DEF MarkRead
<1>16. CASE MarkNamed
  BY <1>16, SilentKeeps DEF MarkNamed
<1>17. CASE MarkRefresh
  BY <1>17, SilentKeeps DEF MarkRefresh, CanTransition, AllowedTransitions
<1>18. CASE WorkerDies
  BY <1>18 DEF WorkerDies, Running, Kept, Untold, Announced
<1>19. CASE JobAborted
  BY <1>19, SilentKeeps DEF JobAborted, Running
<1>20. CASE RejectRender
  BY <1>20, WriteStatusFields, CommitKeeps DEF RejectRender, CanTransition, AllowedTransitions
<1>21. ASSUME NEW c \in Cancellers, CancelLookup(c), Cooperative
      PROVE  OneWriter' /\ Kept
  BY <1>21, SilentKeeps DEF CancelLookup, Cooperative
<1>22. ASSUME NEW c \in Cancellers, CancelQueued(c)
      PROVE  OneWriter' /\ Kept
  BY <1>22 DEF CancelQueued
<1>23. ASSUME NEW c \in Cancellers, RequestCancel(c)
      PROVE  OneWriter' /\ Kept
  BY <1>23, SilentKeeps DEF RequestCancel
<1>24. ASSUME NEW c \in Cancellers, CancellerDies(c)
      PROVE  OneWriter' /\ Kept
  BY <1>24, SilentKeeps DEF CancellerDies
<1>25. CASE Pickup
  <2>1. row.status = "queued" /\ UNCHANGED <<row, creator, canceller, hooks>>
    BY <1>25 DEF Pickup
  <2>2. \/ worker'.pc = "checkpoint" /\ worker'.stage = "fetching"
        \/ worker'.pc \in {"mark_read", "mark_named"}
    BY <1>25, <2>1 DEF Pickup
  <2>3. worker.pc = "queued" /\ creator.pc \notin {"committed", "created", "stored", "rejecting"}
    BY <1>25 DEF Pickup
  <2>4. QED
    BY <2>1, <2>2, <2>3, SilentKeeps
<1>26. CASE CommitStage
  BY <1>26, WriteStatusFields, CommitKeeps
  DEF CommitStage, CanTransition, AllowedTransitions, NextStage
<1>27. CASE CancelCommit
  BY <1>27, WriteStatusFields, CommitKeeps DEF CancelCommit, CanTransition, AllowedTransitions
<1>28. CASE MarkCommit
  BY <1>28, WriteStatusFields, CommitKeeps DEF MarkCommit, CanTransition, AllowedTransitions
<1>29. CASE AnnounceSuccess
  BY <1>29, FireKeeps DEF AnnounceSuccess, Events, Promise!EventOf
<1>30. CASE CancelFire
  BY <1>30, FireKeeps DEF CancelFire, Events, Promise!EventOf
<1>31. CASE MarkFire
  BY <1>31, FireKeeps DEF MarkFire, Events, Promise!EventOf
<1>32. CASE Timeout \/ DatabaseFails
  BY <1>32 DEF Timeout, DatabaseFails, Reliable
<1>33. ASSUME NEW e \in Events, Dispatch(e) \/ DispatchFails(e)
      PROVE  OneWriter' /\ Kept
  BY <1>33 DEF Dispatch, DispatchFails, Kept, Untold, Announced
<1>34. CASE UNCHANGED vars
  BY <1>34, SilentKeeps DEF vars
<1>35. QED
  BY <1>1, <1>2, <1>3, <1>4, <1>5, <1>6, <1>7, <1>8, <1>9, <1>10, <1>11, <1>12,
     <1>13, <1>14, <1>15, <1>16, <1>17, <1>18, <1>19, <1>20, <1>21, <1>22, <1>23, <1>24, <1>25, <1>26,
     <1>27, <1>28, <1>29, <1>30, <1>31, <1>32, <1>33, <1>34
  DEF Next, Creator, Canceller, Worker, Rest, Cooperative

\* The lifecycle implements what clients are promised, for any DELETE requests that
\* come after the pickup and any faults but timeouts and failures of Redis and of
\* the database: no terminal status is replaced, and one event is announced, the
\* one of that status and after it.
THEOREM ImplementsPromise ==
    ASSUME Reliable
    PROVE  CooperativeSpec => KeepsPromise
<1>1. Init => IInv /\ OneWriter /\ Promise!Begin
  BY InitIInv, InitOneWriter DEF Init, Promise!Begin, Absent
<1>2. IInv /\ OneWriter /\ [Next /\ Cooperative]_vars => IInv' /\ OneWriter' /\ Kept
  BY NextIInv, NextOneWriter
<1>3. Kept => [Promise!Accept \/ Promise!Move \/ Promise!Announce]_(Promise!promise)
  BY DEF Kept, Untold, Promise!promise, Announced
<1>4. QED
  BY <1>1, <1>2, <1>3, PTL DEF CooperativeSpec, KeepsPromise, Promise!Promised

\* In particular the documentation is right about these runs: a render that is
\* terminal keeps its status.
THEOREM TerminalIsFinalWhenReliable ==
    ASSUME Reliable
    PROVE  CooperativeSpec => TerminalIsFinal
<1>1. Init => IInv /\ OneWriter
  BY InitIInv, InitOneWriter
<1>2. IInv /\ OneWriter /\ [Next /\ Cooperative]_vars => IInv' /\ OneWriter' /\ Kept
  BY NextIInv, NextOneWriter
<1>3. Kept => (row.status \in Terminal => row'.status = row.status)
  BY DEF Kept, Untold, Promise!Accept, Promise!Move, Promise!Announce,
     Promise!CanTransition, Promise!AllowedTransitions, Promise!Active, Terminal
<1>4. QED
  BY <1>1, <1>2, <1>3, PTL DEF CooperativeSpec, TerminalIsFinal

=============================================================================
