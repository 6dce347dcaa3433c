-------------------------- MODULE RendererProcess ---------------------------
(* One subprocess of a render, the coroutine that runs it, the readers of its *)
(* pipes and the progress callback they share.  Five kinds of coroutine:      *)
(*   editly, native  EditlyRenderer.render, NativeFFmpegRenderer.render: the  *)
(*                   coroutine reads stderr line by line under a wait_for     *)
(*   hyperframes     HyperFramesRenderer.render: two tasks read the pipes and *)
(*                   the coroutine polls the process                          *)
(*   tool            burn-in, post-processing and mixing: communicate() under *)
(*                   a wait_for, no callback and no cancel check              *)
(*   poster          generate_poster, and probe: a tool that keeps no log and *)
(*                   removes nothing                                          *)
(* Every coroutine runs inside the pipeline's wait_for, whose CancelledError  *)
(* none of them handles, and inside the ARQ job, whose timeout is longer.     *)
EXTENDS Integers, Sequences, FiniteSets

CONSTANTS
    Inner,          \* the renderer's own timeout, one of these
    Outer,          \* what is left of the pipeline's timeout, one of these
    JobSlack,       \* job_timeout minus render_timeout_seconds
    Grace,          \* subprocess_kill_grace_seconds
    Interval,       \* progress_update_interval_seconds
    Percents,       \* what the lines of the child say, after compute_progress_percent
    MaxLines,       \* bound: the lines a child writes
    PipeCap,        \* bound: the lines a pipe holds
    MaxFaults,      \* bound: failed database or file system calls
    MaxTime         \* bound of the clock

Tools == {"tool", "poster"}
Kinds == {"editly", "native", "hyperframes"} \cup Tools

\* Those that remove the output of a failure; editly and poster leave what is there.
Removing == {"native", "hyperframes", "tool"}

ASSUME ProcessAssumption ==
    /\ Inner \subseteq Nat /\ Outer \subseteq Nat
    /\ {JobSlack, Grace, Interval, MaxLines, PipeCap, MaxFaults} \subseteq Nat
    /\ Percents \subseteq 0..100
    /\ \A o \in Outer : o + JobSlack < MaxTime

Text == -1          \* a line without a time= marker
Long == -2          \* more bytes without a newline than the reader's limit
Lines == Percents \cup {Text, Long}

VARIABLES
    kind, limit,    \* of this run; limit is a record [inner, outer]
    child,          \* the process: pc, code, deaf (ignores SIGTERM), helper (a
                    \* descendant that holds the pipes), left (lines to write)
    output,         \* what is at output_path
    pipe,           \* stream -> lines written and not read
    reader,         \* stream -> [pc, percent] of the coroutine reading it
    main,           \* the coroutine: pc, why it stops the child, alarm, doomed
    callback,       \* state of _make_progress_callback
    row,            \* progress and cancel_requested_at (the time, or None)
    outcome,        \* how the call ended
    faults, now

vars == <<kind, limit, child, output, pipe, reader, main, callback, row,
          outcome, faults, now>>

None == -1
Streams == {"out", "err"}
Ended == {"ok", "failed", "timeout", "cancelled", "raised", "abandoned"}
\* The ways to end that the coroutine chose: it returned, or raised its own error.
Chosen == {"ok", "failed", "timeout", "cancelled"}

\* stdout is a pipe that is read for its lines only by hyperframes.
Watched == IF kind = "hyperframes" THEN Streams ELSE {"err"}
Open == child.pc = "running" \/ child.helper
Reading(s) == reader[s].pc = "reading"
Alive == outcome = "none"

Init ==
    /\ kind \in Kinds
    /\ limit \in [inner : Inner, outer : Outer]
    /\ child = [pc |-> "none", code |-> "-", deaf |-> FALSE, helper |-> FALSE,
                left |-> 0]
    /\ output = "none"
    /\ pipe = [s \in Streams |-> << >>]
    /\ reader = [s \in Streams |-> [pc |-> "off", percent |-> 0]]
    /\ main = [pc |-> "spawn", why |-> "-", alarm |-> 0, doomed |-> FALSE]
    /\ callback = [last |-> 0, at |-> -Interval]
    /\ row = [progress |-> 30, cancel |-> None]
    /\ outcome = "none"
    /\ faults = 0
    /\ now = 0

\* A call of the database or of the file system that fails.
Fault == faults < MaxFaults /\ faults' = faults + 1

-----------------------------------------------------------------------------
(* The child.  It writes what it wants when it wants, for ever silent too.    *)

ChildWrites(s, line) ==
    /\ child.pc = "running" /\ child.left > 0
    /\ s \in Watched /\ Len(pipe[s]) < PipeCap
    /\ pipe' = [pipe EXCEPT ![s] = Append(@, line)]
    /\ child' = [child EXCEPT !.left = @ - 1]
    /\ output' = IF output = "none" THEN "partial" ELSE output
    /\ UNCHANGED <<kind, limit, reader, main, callback, row, outcome, faults, now>>

\* It ends by itself, or by the SIGTERM it has been sent.  After SIGTERM the exit
\* code may still be 0 (a handler), and the file is what it was.
ChildExits(code) ==
    /\ child.pc = "running"
    /\ child' = [child EXCEPT !.pc = "dead", !.code = code]
    /\ output' \in IF main.pc # "stopping" /\ code = "zero"
                   THEN {"whole", "none"} ELSE {output}
    /\ UNCHANGED <<kind, limit, pipe, reader, main, callback, row, outcome, faults, now>>

HelperExits ==
    /\ child.pc = "dead" /\ child.helper
    /\ child' = [child EXCEPT !.helper = FALSE]
    /\ UNCHANGED <<kind, limit, output, pipe, reader, main, callback, row, outcome,
                   faults, now>>

\* DELETE flags the render, from another process.
UserCancels ==
    /\ Alive /\ kind \notin Tools /\ row.cancel = None
    /\ row' = [row EXCEPT !.cancel = now]
    /\ UNCHANGED <<kind, limit, child, output, pipe, reader, main, callback, outcome,
                   faults, now>>

-----------------------------------------------------------------------------
(* The coroutine starts the child.                                            *)

Spawn ==
    /\ main.pc = "spawn"
    /\ \E deaf, helper \in BOOLEAN :
           child' = [pc |-> "running", code |-> "-", deaf |-> deaf,
                     helper |-> helper, left |-> MaxLines]
    /\ main' = [main EXCEPT !.pc = "watching"]
    /\ reader' = [s \in Streams |-> [reader[s] EXCEPT
                     !.pc = IF s \in Watched THEN "reading" ELSE @]]
    /\ UNCHANGED <<kind, limit, output, pipe, callback, row, outcome, faults, now>>

\* FileNotFoundError: exit code 127.
BinaryMissing ==
    /\ main.pc = "spawn"
    /\ main' = [main EXCEPT !.pc = "logging", !.why = "missing"]
    /\ UNCHANGED <<kind, limit, child, output, pipe, reader, callback, row, outcome,
                   faults, now>>

-----------------------------------------------------------------------------
(* _stream_stderr, _stream_pipe and the progress callback.                    *)

\* editly and native consult cancel_check after every line.
AfterLine == IF kind \in {"editly", "native"} THEN "checking" ELSE "reading"

\* Mutant: the distance between two reports is taken in either direction.
ReportsBothWays(p) ==
    /\ kind \notin Tools /\ p >= 0
    /\ p - callback.last >= 2 \/ callback.last - p >= 2
    /\ now - callback.at >= Interval

\* _callback takes the percentage of a line: rate-limited, and only forward.
Reports(p) ==
    /\ kind \notin Tools /\ p >= 0
    /\ p - callback.last >= 2
    /\ now - callback.at >= Interval

\* readline() returns a line: the callback decides, and its database write starts.
ReadLine(s) ==
    /\ Reading(s) /\ pipe[s] # << >> /\ (Head(pipe[s]) # Long \/ kind \in Tools)
    /\ pipe' = [pipe EXCEPT ![s] = Tail(@)]
    /\ LET p == Head(pipe[s]) IN
       IF Reports(p)
       THEN /\ callback' = [last |-> p, at |-> now]
            /\ reader' = [reader EXCEPT ![s] = [pc |-> "writing", percent |-> p]]
       ELSE /\ reader' = [reader EXCEPT ![s].pc = AfterLine]
            /\ UNCHANGED callback
    /\ UNCHANGED <<kind, limit, child, output, main, row, outcome, faults, now>>

\* readline() raises ValueError: the task of a pipe dies with it and the pipe is
\* read no more; editly and native do not catch it, and leave the child.
ReadTooLong(s) ==
    /\ Reading(s) /\ pipe[s] # << >> /\ Head(pipe[s]) = Long /\ kind \notin Tools
    /\ IF kind = "hyperframes"
       THEN /\ reader' = [reader EXCEPT ![s].pc = "broken"]
            /\ UNCHANGED outcome
       ELSE /\ reader' = [reader EXCEPT ![s].pc = "off"]
            /\ outcome' = "raised"
    /\ UNCHANGED <<kind, limit, child, output, pipe, main, callback, row, faults, now>>

\* update_render_progress commits, whenever the database gets to it.
ProgressWritten(s) ==
    /\ reader[s].pc = "writing"
    /\ row' = [row EXCEPT !.progress = reader[s].percent]
    /\ reader' = [reader EXCEPT ![s].pc = AfterLine]
    /\ UNCHANGED <<kind, limit, child, output, pipe, main, callback, outcome, faults, now>>

\* The callback swallows a failing write; its state is not rolled back.
ProgressLost(s) ==
    /\ reader[s].pc = "writing" /\ Fault
    /\ reader' = [reader EXCEPT ![s].pc = AfterLine]
    /\ UNCHANGED <<kind, limit, child, output, pipe, main, callback, row, outcome, now>>

\* EOF: the child and everything that inherited the pipe are gone.
ReadEof(s) ==
    /\ Reading(s) /\ pipe[s] = << >> /\ ~Open
    /\ reader' = [reader EXCEPT ![s].pc = "eof"]
    /\ UNCHANGED <<kind, limit, child, output, pipe, main, callback, row, outcome,
                   faults, now>>

-----------------------------------------------------------------------------
(* The coroutine stops the child, or sees it end.                             *)

\* wait_for cancels the readers it runs; the tasks of hyperframes go on reading.
ReadersLeft == IF kind = "hyperframes" THEN reader
               ELSE [s \in Streams |-> [reader[s] EXCEPT !.pc = "off"]]

\* _terminate_process: SIGTERM, then at most the grace period.
Stop(why) ==
    /\ main' = [main EXCEPT !.pc = "stopping", !.why = why, !.alarm = now + Grace]
    /\ UNCHANGED <<kind, limit, child, output, pipe, callback, row, outcome, now>>

\* cancel_check after a line; an exception of it is swallowed.
Check(s) ==
    /\ reader[s].pc = "checking"
    /\ \/ /\ row.cancel # None /\ Stop("cancelled")
          /\ reader' = ReadersLeft /\ UNCHANGED faults
       \/ /\ row.cancel = None /\ UNCHANGED faults
          /\ reader' = [reader EXCEPT ![s].pc = "reading"]
          /\ UNCHANGED <<kind, limit, child, output, pipe, main, callback, row, outcome, now>>
       \/ /\ Fault
          /\ reader' = [reader EXCEPT ![s].pc = "reading"]
          /\ UNCHANGED <<kind, limit, child, output, pipe, main, callback, row, outcome, now>>

\* Mutant of InnerTimeout: the child is left to end by itself.
InnerTimeoutLeaves ==
    /\ main.pc = "watching" /\ kind # "hyperframes" /\ Alive
    /\ now >= limit.inner
    /\ main' = [main EXCEPT !.pc = "logging", !.why = "timeout"]
    /\ reader' = ReadersLeft
    /\ UNCHANGED <<kind, limit, child, output, pipe, callback, row, outcome, faults, now>>

\* The renderer's own wait_for expires.
InnerTimeout ==
    /\ main.pc = "watching" /\ kind # "hyperframes" /\ Alive
    /\ now >= limit.inner
    /\ Stop("timeout")
    /\ reader' = ReadersLeft /\ UNCHANGED faults

\* EOF was read and proc.wait() returns.
Finished ==
    /\ main.pc = "watching" /\ kind # "hyperframes" /\ Alive
    /\ reader["err"].pc = "eof" /\ child.pc = "dead"
    /\ main' = [main EXCEPT !.pc = "logging"]
    /\ UNCHANGED <<kind, limit, child, output, pipe, reader, callback, row, outcome,
                   faults, now>>

\* Mutant of Poll: no cancel check while a reader reports progress.
PollWhenIdle ==
    /\ main.pc = "watching" /\ kind = "hyperframes" /\ now >= main.alarm
    /\ UNCHANGED <<reader, faults>>
    /\ \/ /\ child.pc = "dead"
          /\ main' = [main EXCEPT !.pc = "gathering"]
          /\ UNCHANGED <<kind, limit, child, output, pipe, callback, row, outcome, now>>
       \/ child.pc # "dead" /\ now > limit.inner /\ Stop("timeout")
       \/ /\ child.pc # "dead" /\ now <= limit.inner
          /\ row.cancel # None /\ \A s \in Streams : reader[s].pc # "writing"
          /\ Stop("cancelled")
       \/ /\ child.pc # "dead" /\ now <= limit.inner
          /\ row.cancel = None \/ \E s \in Streams : reader[s].pc = "writing"
          /\ main' = [main EXCEPT !.alarm = now + 1]
          /\ UNCHANGED <<kind, limit, child, output, pipe, callback, row, outcome, now>>

\* One turn of the loop of _wait_for_process: it sleeps for a poll and looks again.
Poll ==
    /\ main.pc = "watching" /\ kind = "hyperframes" /\ now >= main.alarm
    /\ UNCHANGED reader
    /\ \/ /\ child.pc = "dead"
          /\ main' = [main EXCEPT !.pc = "gathering"]
          /\ UNCHANGED <<kind, limit, child, output, pipe, callback, row, outcome, faults, now>>
       \/ /\ child.pc # "dead" /\ now > limit.inner
          /\ Stop("timeout") /\ UNCHANGED faults
       \/ /\ child.pc # "dead" /\ now <= limit.inner /\ row.cancel # None
          /\ Stop("cancelled") /\ UNCHANGED faults
       \/ /\ child.pc # "dead" /\ now <= limit.inner
          /\ IF row.cancel = None THEN UNCHANGED faults ELSE Fault
          /\ main' = [main EXCEPT !.alarm = now + 1]
          /\ UNCHANGED <<kind, limit, child, output, pipe, callback, row, outcome, now>>

\* Only hyperframes waits for the readers of its pipes.
AfterStop == [main EXCEPT !.pc = IF kind = "hyperframes" THEN "gathering" ELSE "logging"]

\* Mutant of Kill: no SIGKILL after the grace period.
KillNotSent ==
    /\ main.pc = "stopping" /\ Alive
    /\ now >= main.alarm \/ child.pc = "dead"
    /\ main' = AfterStop
    /\ UNCHANGED <<kind, limit, child, output, pipe, reader, callback, row, outcome,
                   faults, now>>

\* The process ends in the grace period, or is killed after it; a child that obeys
\* SIGTERM is not there any more when the period is over.
Kill ==
    /\ main.pc = "stopping" /\ Alive
    /\ child.pc = "dead" \/ (now >= main.alarm /\ child.deaf)
    /\ main' = AfterStop
    /\ child' = IF child.pc = "dead" THEN child
                ELSE [child EXCEPT !.pc = "dead", !.code = "bad"]
    /\ UNCHANGED <<kind, limit, output, pipe, reader, callback, row, outcome, faults, now>>

\* gather(stdout_task, stderr_task): every task has ended, by EOF or by an error.
Gathered ==
    /\ main.pc = "gathering" /\ Alive
    /\ \A s \in Streams : reader[s].pc \in {"eof", "broken"}
    /\ IF main.doomed
       THEN outcome' = "abandoned" /\ UNCHANGED main
       ELSE main' = [main EXCEPT !.pc = "logging"] /\ UNCHANGED outcome
    /\ UNCHANGED <<kind, limit, child, output, pipe, reader, callback, row, faults, now>>

-----------------------------------------------------------------------------
(* The verdict, on the exit code and on the file.                             *)

\* Mutant: the exit code and the file alone decide.
FailedByExit == child.code # "zero" \/ output = "none"

Failed == main.why # "-" \/ child.code # "zero" \/ output = "none"

\* render.log is written, then the outcome chosen; who removes the output of a
\* failure does so before the error is raised.
Conclude ==
    /\ main.pc = "logging" /\ Alive
    /\ outcome' = IF ~Failed THEN "ok"
                  ELSE IF main.why \in {"timeout", "cancelled"} THEN main.why ELSE "failed"
    /\ output' = IF Failed /\ kind \in Removing THEN "none" ELSE output
    /\ UNCHANGED <<kind, limit, child, pipe, reader, main, callback, row, faults, now>>

\* The log cannot be written: a renderer leaves its output, a tool removes it.
LogFails ==
    /\ main.pc = "logging" /\ Alive /\ kind # "poster" /\ Fault
    /\ outcome' = "raised"
    /\ output' = IF kind = "tool" THEN "none" ELSE output
    /\ UNCHANGED <<kind, limit, child, pipe, reader, main, callback, row, now>>

-----------------------------------------------------------------------------
(* The two timeouts around the coroutine.                                     *)

\* The pipeline's wait_for cancels it.  hyperframes gathers its readers in a
\* finally clause before the CancelledError goes on; if it is gathering already,
\* the tasks are cancelled too.
PipelineTimeout ==
    /\ Alive /\ now >= limit.outer /\ ~main.doomed
    /\ main.pc \in {"watching", "stopping", "gathering"}
    /\ IF kind = "hyperframes" /\ main.pc \in {"watching", "stopping"}
       THEN main' = [main EXCEPT !.pc = "gathering", !.doomed = TRUE] /\ UNCHANGED outcome
       ELSE outcome' = "abandoned" /\ UNCHANGED main
    /\ reader' = IF kind = "hyperframes" /\ main.pc # "gathering" THEN reader
                 ELSE [s \in Streams |-> [reader[s] EXCEPT !.pc = "off"]]
    /\ UNCHANGED <<kind, limit, child, output, pipe, callback, row, faults, now>>

\* Mutant: ARQ has no timeout of its own.
JobExpiresNever == FALSE

JobExpires == Alive /\ main.doomed /\ now >= limit.outer + JobSlack

\* ARQ cancels the job.
JobTimeout ==
    /\ JobExpires
    /\ outcome' = "abandoned"
    /\ reader' = [s \in Streams |-> [reader[s] EXCEPT !.pc = "off"]]
    /\ UNCHANGED <<kind, limit, child, output, pipe, main, callback, row, faults, now>>

-----------------------------------------------------------------------------
\* What an event loop with nothing else to do runs at once.
Coroutines ==
    \/ Spawn \/ BinaryMissing
    \/ \E s \in Streams : ReadLine(s) \/ ReadTooLong(s) \/ ReadEof(s) \/ Check(s)
    \/ Finished \/ Poll \/ Kill \/ Gathered \/ Conclude \/ LogFails
    \/ InnerTimeout \/ PipelineTimeout \/ JobTimeout

\* When one of them has something to do: time does not pass it.
Runnable ==
    \/ main.pc = "spawn"
    \/ \E s \in Streams : \/ reader[s].pc = "checking"
                          \/ Reading(s) /\ (pipe[s] # << >> \/ ~Open)
    \/ main.pc = "watching" /\ kind = "hyperframes" /\ now >= main.alarm
    \/ /\ Alive /\ main.pc = "watching" /\ kind # "hyperframes"
       /\ now >= limit.inner \/ (reader["err"].pc = "eof" /\ child.pc = "dead")
    \/ /\ Alive /\ main.pc = "stopping"
       /\ child.pc = "dead" \/ (now >= main.alarm /\ child.deaf)
    \/ /\ Alive /\ main.pc = "gathering"
       /\ \A s \in Streams : reader[s].pc \in {"eof", "broken"}
    \/ Alive /\ main.pc = "logging"
    \/ /\ Alive /\ ~main.doomed /\ now >= limit.outer
       /\ main.pc \in {"watching", "stopping", "gathering"}
    \/ JobExpires

\* A child that was sent SIGTERM and does not ignore it ends within the grace period.
ObeysNow == /\ main.pc = "stopping" /\ Alive /\ now >= main.alarm
            /\ child.pc = "running" /\ ~child.deaf

Tick ==
    /\ now < MaxTime /\ Alive
    /\ ~Runnable /\ ~ObeysNow
    /\ now' = now + 1
    /\ UNCHANGED <<kind, limit, child, output, pipe, reader, main, callback, row,
                   outcome, faults>>

\* The call is over; what is left of the child goes its own way.
Rest == ~Alive /\ UNCHANGED vars

Next ==
    \/ \E s \in Streams, line \in Lines : ChildWrites(s, line)
    \/ \E code \in {"zero", "bad"} : ChildExits(code)
    \/ HelperExits \/ UserCancels
    \/ Coroutines
    \/ \E s \in Streams : ProgressWritten(s) \/ ProgressLost(s)
    \/ Tick \/ Rest

Spec == Init /\ [][Next]_vars

-----------------------------------------------------------------------------
(* Properties.                                                             *)

\* A render that returns, or raises the error the renderer chose for it, has no
\* process left: a timeout and a cancel wait until the child is gone, whether it
\* obeys SIGTERM or not.  (Not so for the CancelledError of the pipeline's timeout
\* and for an exception of the reader: nobody stops the child then.)
ChosenIsDead == outcome \in Chosen => child.pc # "running"

\* What a coroutine says of its file stays true of it.  One that returns has a file the
\* child has finished: an exit code 0 after a SIGTERM does not make it one.  Where the
\* output of a failure is removed it stays removed: no process is left that could write
\* it again.  (Editly's coroutine and generate_poster remove nothing.)
FileFitsOutcome ==
    /\ outcome = "ok" => output = "whole"
    /\ outcome \in Chosen \ {"ok"} /\ kind \in Removing => output = "none"

\* The coroutine ends in time whatever the child and its descendants do: by its own
\* timeout and the grace period or by the pipeline's; hyperframes, which waits for
\* the pipes of its child to be closed, only by the job's.
Latest == IF kind = "hyperframes" THEN limit.outer + JobSlack
          ELSE IF limit.inner + Grace < limit.outer THEN limit.inner + Grace ELSE limit.outer

EndsInTime == Alive => now <= Latest

\* hyperframes notices a cancel between two lines too: without database errors the
\* child is gone a poll and a grace period after the flag, however silent it is.
\* (The other renderers notice it only with the next line.)
CancelStopsInTime ==
    kind = "hyperframes" /\ row.cancel # None /\ faults = 0 /\ ~main.doomed
        /\ child.pc = "running" /\ outcome # "abandoned"
    => now <= row.cancel + 1 + Grace

\* Once a report of the renderer has replaced the 30 of the stage, the progress of
\* the row goes only up, although reports are dropped and lines come in any order.
\* (Not so for hyperframes: the writes of its two readers may overtake each other.)
ProgressForward ==
    [][kind # "hyperframes" /\ row.progress # 30 => row'.progress >= row.progress]_vars
=============================================================================
