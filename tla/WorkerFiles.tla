---------------------------- MODULE WorkerFiles ----------------------------
(***************************************************************************)
(* The files that render jobs of several worker processes share: one entry *)
(* of the asset cache, which every job of this model needs, and the root   *)
(* of the workspaces, which a worker sweeps when it starts.                *)
(*                                                                         *)
(* A job downloads its asset before it looks for the content in the cache, *)
(* writes the entry to a temporary path that depends on the content only,  *)
(* and renames it.  Processes that store the same content share that path: *)
(* a file is an inode here, named by the job whose open created it, and a  *)
(* path points to one, so that a rename can carry off a file somebody else *)
(* is still writing.                                                       *)
(*                                                                         *)
(* Time is a clock of the file system and the workers.  A job is stopped   *)
(* after JobTime (render_timeout_seconds); the sweep removes directories   *)
(* of inactive renders last modified Ttl or more before it began to scan.  *)
(***************************************************************************)
EXTENDS Integers, FiniteSets

CONSTANTS Jobs,    \* renders, each on a process of its own
          Ttl,     \* workspace_orphan_ttl_seconds
          JobTime, \* render_timeout_seconds
          MaxTime  \* bound of the clock, for model checking

ASSUME FilesAssumption ==
    /\ Ttl \in Nat /\ JobTime \in Nat \ {0} /\ MaxTime \in Nat
    /\ JobTime < Ttl

None == "none"
ASSUME NoneAssumption == None \notin Jobs

VARIABLES now,   \* the clock
          row,   \* each render's row: "absent", "active" or "terminal"
          job,   \* each job: control location, start, and the inode it writes or reads
          dir,   \* the modification time of each workspace, or Missing
          inode, \* each inode: "unused", "partial" or "whole", and who truncated it last
          path,  \* the inode each path of the cache points to
          sweep  \* the sweep of a starting worker

vars == <<now, row, job, dir, inode, path, sweep>>

Missing == -1
Paths   == {"url", "content", "tmp"}

\* What wait_for can stop, and what follows it.
Running  == {"checking", "downloading", "hashed", "storing", "writing", "written",
             "unlinking", "rendering"}
Epilogue == {"failing", "cleaning", "keeping"}

TypeOK ==
    /\ now \in 0 .. MaxTime
    /\ row \in [Jobs -> {"absent", "active", "terminal"}]
    /\ job \in [Jobs -> [pc : {"new", "queued", "ended", "dead"} \cup Running \cup Epilogue,
                         started : 0 .. MaxTime, file : Jobs \cup {None}]]
    /\ dir \in [Jobs -> 0 .. MaxTime \cup {Missing}]
    /\ inode \in [Jobs -> [state : {"unused", "partial", "whole"}, by : Jobs \cup {None}]]
    /\ path \in [Paths -> Jobs \cup {None}]
    /\ sweep \in [pc : {"idle", "listed", "scanning", "done"}, active : SUBSET Jobs,
                  now : 0 .. MaxTime, unseen : SUBSET Jobs, found : SUBSET Jobs,
                  due : SUBSET Jobs]

Init ==
    /\ now = 0
    /\ row = [j \in Jobs |-> "absent"]
    /\ job = [j \in Jobs |-> [pc |-> "new", started |-> 0, file |-> None]]
    /\ dir = [j \in Jobs |-> Missing]
    /\ inode = [j \in Jobs |-> [state |-> "unused", by |-> None]]
    /\ path = [p \in Paths |-> None]
    /\ sweep = [pc |-> "idle", active |-> {}, now |-> 0, unseen |-> {}, found |-> {},
                due |-> {}]

At(j, pc)   == job[j].pc = pc
Goto(j, pc) == job' = [job EXCEPT ![j].pc = pc]
Exists(d)   == dir[d] # Missing

\* Time passes, but no job runs longer than wait_for lets it.
Tick ==
    /\ now < MaxTime
    /\ \A j \in Jobs : job[j].pc \in Running => now - job[j].started < JobTime
    /\ now' = now + 1
    /\ UNCHANGED <<row, job, dir, inode, path, sweep>>

------------------------------------------------------------------------------
(* A job.                                                                  *)

Submit(j) ==
    /\ At(j, "new")
    /\ row' = [row EXCEPT ![j] = "active"]
    /\ Goto(j, "queued")
    /\ UNCHANGED <<now, dir, inode, path, sweep>>

\* WorkspaceManager.create, and the start of the pipeline's time.
Start(j) ==
    /\ At(j, "queued")
    /\ dir' = [dir EXCEPT ![j] = now]
    /\ job' = [job EXCEPT ![j].pc = "checking", ![j].started = now]
    /\ UNCHANGED <<now, row, inode, path, sweep>>

\* The row of a running job is made terminal by a stale commit of a DELETE request
\* (RenderLifecycle): the job goes on.
TurnTerminal(j) ==
    /\ job[j].pc \in {"queued"} \cup Running /\ row[j] = "active"
    /\ row' = [row EXCEPT ![j] = "terminal"]
    /\ UNCHANGED <<now, job, dir, inode, path, sweep>>

\* The entry is looked for under the hash of the URL.
LookupUrl(j) ==
    /\ At(j, "checking")
    /\ job' = [job EXCEPT ![j].pc = IF path["url"] = None THEN "downloading" ELSE "rendering",
                          ![j].file = path["url"]]
    /\ UNCHANGED <<now, row, dir, inode, path, sweep>>

Download(j) ==
    /\ At(j, "downloading")
    /\ Goto(j, "hashed")
    /\ UNCHANGED <<now, row, dir, inode, path, sweep>>

\* Then under the hash of the content.
LookupContent(j) ==
    /\ At(j, "hashed")
    /\ job' = [job EXCEPT ![j].pc = IF path["content"] = None THEN "storing" ELSE "rendering",
                          ![j].file = path["content"]]
    /\ UNCHANGED <<now, row, dir, inode, path, sweep>>

\* write_bytes opens the temporary path: it makes a new file or truncates the one
\* another process has made there.
OpenTmp(j) ==
    LET file == IF path["tmp"] = None THEN j ELSE path["tmp"]
    IN  /\ At(j, "storing")
        /\ path' = [path EXCEPT !["tmp"] = file]
        /\ inode' = [inode EXCEPT ![file] = [state |-> "partial", by |-> j]]
        /\ job' = [job EXCEPT ![j].pc = "writing", ![j].file = file]
        /\ UNCHANGED <<now, row, dir, sweep>>

\* The file is whole when the process that truncated it last has written it.
WriteTmp(j) ==
    /\ At(j, "writing")
    /\ inode' = IF inode[job[j].file].by = j
                THEN [inode EXCEPT ![job[j].file].state = "whole"] ELSE inode
    /\ Goto(j, "written")
    /\ UNCHANGED <<now, row, dir, path, sweep>>

\* Mutant of WriteFails: a write that failed is taken for one that is complete.
WriteFailsUnseen(j) ==
    /\ At(j, "writing")
    /\ Goto(j, "written")
    /\ UNCHANGED <<now, row, dir, inode, path, sweep>>

\* The disk is full: write_bytes raises, and the temporary path is removed next.
WriteFails(j) ==
    /\ At(j, "writing")
    /\ Goto(j, "unlinking")
    /\ UNCHANGED <<now, row, dir, inode, path, sweep>>

\* Mutant of Replace: the entry is linked under the hash, and the temporary path stays.
ReplaceByLink(j) ==
    /\ At(j, "written") /\ path["tmp"] # None
    /\ path' = [path EXCEPT !["content"] = path["tmp"]]
    /\ job' = [job EXCEPT ![j].pc = "rendering", ![j].file = path["tmp"]]
    /\ UNCHANGED <<now, row, dir, inode, sweep>>

\* replace renames whatever the temporary path points to.
Replace(j) ==
    /\ At(j, "written") /\ path["tmp"] # None
    /\ path' = [path EXCEPT !["content"] = path["tmp"], !["tmp"] = None]
    /\ job' = [job EXCEPT ![j].pc = "rendering", ![j].file = path["tmp"]]
    /\ UNCHANGED <<now, row, dir, inode, sweep>>

\* Another process has renamed or removed it: FileNotFoundError.
ReplaceFails(j) ==
    /\ At(j, "written") /\ path["tmp"] = None
    /\ Goto(j, "unlinking")
    /\ UNCHANGED <<now, row, dir, inode, path, sweep>>

\* The handler removes the temporary path, whoever has made it.
UnlinkTmp(j) ==
    /\ At(j, "unlinking")
    /\ path' = [path EXCEPT !["tmp"] = None]
    /\ Goto(j, "failing")
    /\ UNCHANGED <<now, row, dir, inode, sweep>>

\* The renderer reads the entry and the job succeeds; then the workspace goes.
Render(j) ==
    /\ At(j, "rendering")
    /\ row' = [row EXCEPT ![j] = "terminal"]
    /\ Goto(j, "cleaning")
    /\ UNCHANGED <<now, dir, inode, path, sweep>>

\* A download, the renderer or another stage fails, or wait_for stops the job, which
\* it can where the job awaits: looking up and storing are synchronous.
Break(j) ==
    /\ At(j, "downloading") \/ At(j, "rendering")
    /\ Goto(j, "failing")
    /\ UNCHANGED <<now, row, dir, inode, path, sweep>>

\* _mark_failed, then cleanup_failure, which changes the directory it keeps.
MarkFailed(j) ==
    /\ At(j, "failing")
    /\ row' = [row EXCEPT ![j] = "terminal"]
    /\ Goto(j, "keeping")
    /\ UNCHANGED <<now, dir, inode, path, sweep>>

CleanupFailure(j) ==
    /\ At(j, "keeping")
    /\ dir' = [dir EXCEPT ![j] = IF Exists(j) THEN now ELSE Missing]
    /\ Goto(j, "ended")
    /\ UNCHANGED <<now, row, inode, path, sweep>>

CleanupSuccess(j) ==
    /\ At(j, "cleaning")
    /\ dir' = [dir EXCEPT ![j] = Missing]
    /\ Goto(j, "ended")
    /\ UNCHANGED <<now, row, inode, path, sweep>>

\* The worker process is killed; nothing resumes the job.
Die(j) ==
    /\ job[j].pc \in Running \cup Epilogue
    /\ Goto(j, "dead")
    /\ UNCHANGED <<now, row, dir, inode, path, sweep>>

------------------------------------------------------------------------------
(* The sweep of a worker that starts.                                      *)

\* list_active_render_ids.
SweepList ==
    /\ sweep.pc = "idle"
    /\ sweep' = [sweep EXCEPT !.pc = "listed", !.active = {j \in Jobs : row[j] = "active"}]
    /\ UNCHANGED <<now, row, job, dir, inode, path>>

\* cleanup_orphans takes the time and lists the root.  due is what it should find.
SweepScan ==
    /\ sweep.pc = "listed"
    /\ sweep' = [sweep EXCEPT !.pc = "scanning", !.now = now,
           !.unseen = {j \in Jobs : Exists(j)},
           !.due = {j \in Jobs : Exists(j) /\ now - dir[j] >= Ttl /\ job[j].pc = "ended"
                                 /\ j \notin sweep.active}]
    /\ UNCHANGED <<now, row, job, dir, inode, path>>

\* Mutants of Orphan: the age is not looked at; the list of active renders is not;
\* a directory of exactly Ttl is young.
OrphanAnyAge(j) == j \notin sweep.active /\ Exists(j)

OrphanOlder(j) == j \notin sweep.active /\ Exists(j) /\ sweep.now - dir[j] > Ttl

\* An entry that has gone meanwhile cannot be stat'ed and is skipped.
Orphan(j) ==
    /\ j \notin sweep.active
    /\ Exists(j)
    /\ sweep.now - dir[j] >= Ttl

SweepEntry(j) ==
    /\ sweep.pc = "scanning" /\ j \in sweep.unseen
    /\ sweep' = [sweep EXCEPT !.unseen = @ \ {j},
                              !.found = IF Orphan(j) THEN @ \cup {j} ELSE @]
    /\ UNCHANGED <<now, row, job, dir, inode, path>>

\* The candidates are removed when all entries have been seen.
SweepRemove(j) ==
    /\ sweep.pc = "scanning" /\ sweep.unseen = {} /\ j \in sweep.found
    /\ dir' = [dir EXCEPT ![j] = Missing]
    /\ sweep' = [sweep EXCEPT !.found = @ \ {j}]
    /\ UNCHANGED <<now, row, job, inode, path>>

SweepEnd ==
    /\ sweep.pc = "scanning" /\ sweep.unseen = {} /\ sweep.found = {}
    /\ sweep' = [sweep EXCEPT !.pc = "done"]
    /\ UNCHANGED <<now, row, job, dir, inode, path>>

\* The clock has reached its bound, the sweep is over and the jobs have ended.
Rest ==
    /\ now = MaxTime /\ sweep.pc = "done"
    /\ \A j \in Jobs : job[j].pc \in {"ended", "dead"}
    /\ UNCHANGED vars

JobStep(j) ==
    \/ Submit(j) \/ Start(j) \/ LookupUrl(j) \/ Download(j) \/ LookupContent(j)
    \/ OpenTmp(j) \/ WriteTmp(j) \/ WriteFails(j) \/ Replace(j) \/ ReplaceFails(j)
    \/ UnlinkTmp(j) \/ Render(j) \/ Break(j) \/ MarkFailed(j)
    \/ CleanupFailure(j) \/ CleanupSuccess(j)

Next ==
    \/ Tick \/ SweepList \/ SweepScan \/ SweepEnd \/ Rest
    \/ \E j \in Jobs : JobStep(j) \/ TurnTerminal(j) \/ Die(j)
                         \/ SweepEntry(j) \/ SweepRemove(j)

Spec == Init /\ [][Next]_vars

------------------------------------------------------------------------------
(* Properties.                                                             *)

\* A sweep never removes the workspace of a running job, although it compares
\* with a list of renders read before the job was submitted, and although a row
\* may be terminal while its job still runs: the age alone protects the job.
RunningKeepsWorkspace == \A j \in Jobs : job[j].pc \in Running => Exists(j)

\* A sweep removes every workspace that had ended and was old enough when it
\* began to scan, whatever the jobs do meanwhile.
SweepIsThorough == sweep.pc = "done" => \A j \in sweep.due : ~Exists(j)

\* A file that a job reads is never truncated under it: opening the temporary path
\* truncates what is there, and what was renamed is no longer there, however the
\* processes that store one content interleave (asset_service.py:280-297).
ReadIsNotTruncated ==
    [][\A j \in Jobs : At(j, "rendering") /\ inode[job[j].file].state = "whole" =>
           inode'[job[j].file].state = "whole"]_vars

\* An entry that is not whole is the work of two processes at once: whoever truncated
\* it last is still writing it, failed or died there.  No process that has written its
\* own copy, and none that stores alone, leaves such an entry, also after the death or
\* the failed write of another.
TornByUnfinished ==
    \A j \in Jobs : At(j, "rendering") /\ inode[job[j].file].state = "partial" =>
        job[inode[job[j].file].by].pc \notin {"written", "rendering", "cleaning"}
=====
