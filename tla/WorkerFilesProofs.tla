------------------------- MODULE WorkerFilesProofs --------------------------
(* For any set of jobs: types; the workspace of a running job survives the    *)
(* sweep of a worker that starts meanwhile, and no other that is due does; no *)
(* file is truncated while it is read, and an entry that is not whole is the  *)
(* work of two processes.                                                     *)
EXTENDS WorkerFiles, TLAPS

JobPC == {"new", "queued", "ended", "dead"} \cup Running \cup Epilogue

\* A job has its directory from its start on, and no job runs longer than wait_for
\* lets it: a running job's directory is at most JobTime old.
Fresh ==
    \A j \in Jobs : job[j].pc \in Running =>
        dir[j] = job[j].started /\ now - job[j].started <= JobTime

\* A job that has not started has no directory.
NotYet == \A j \in Jobs : job[j].pc \in {"new", "queued"} => dir[j] = Missing

\* What the sweep is going to remove belongs to jobs that will not run again.
FoundIsOver ==
    /\ sweep.now <= now
    /\ \A j \in sweep.found : job[j].pc \in {"ended", "dead"} \cup Epilogue

IInv == TypeOK /\ Fresh /\ NotYet /\ FoundIsOver

-----------------------------------------------------------------------------

\* Initially nothing runs and the sweep has found nothing.
LEMMA InitIInv == Init => IInv
  BY FilesAssumption, NoneAssumption
  DEF Init, IInv, TypeOK, Fresh, NotYet, FoundIsOver, Running, Epilogue, Missing, Paths

JobRec   == [pc : JobPC, started : 0 .. MaxTime, file : Jobs \cup {None}]
InodeRec == [state : {"unused", "partial", "whole"}, by : Jobs \cup {None}]
SweepRec == [pc : {"idle", "listed", "scanning", "done"}, active : SUBSET Jobs,
             now : 0 .. MaxTime, unseen : SUBSET Jobs, found : SUBSET Jobs,
             due : SUBSET Jobs]

\* One entry of a function changes, to a value of its type.
LEMMA OneEntry ==
    ASSUME NEW D, NEW R, NEW f \in [D -> R], NEW d \in D, NEW r \in R
    PROVE  [f EXCEPT ![d] = r] \in [D -> R]
  OBVIOUS

\* A job goes on to another location and keeps its fields.
LEMMA GotoType ==
    ASSUME NEW j \in Jobs, job \in [Jobs -> JobRec], NEW pc \in JobPC
    PROVE  [job EXCEPT ![j].pc = pc] \in [Jobs -> JobRec]
<1>1. [job[j] EXCEPT !.pc = pc] \in JobRec
  BY DEF JobRec
<1>2. QED
  BY <1>1, OneEntry

\* Every step of a job keeps the types of what jobs write.
LEMMA JobTypeStep ==
    ASSUME TypeOK, NEW j \in Jobs, JobStep(j) \/ TurnTerminal(j) \/ Die(j)
    PROVE  /\ row' \in [Jobs -> {"absent", "active", "terminal"}]
           /\ job' \in [Jobs -> JobRec]
           /\ dir' \in [Jobs -> 0 .. MaxTime \cup {Missing}]
           /\ inode' \in [Jobs -> InodeRec]
           /\ path' \in [Paths -> Jobs \cup {None}]
           /\ UNCHANGED <<now, sweep>>
<1>0. /\ now \in 0 .. MaxTime
      /\ row \in [Jobs -> {"absent", "active", "terminal"}]
      /\ job \in [Jobs -> JobRec]
      /\ dir \in [Jobs -> 0 .. MaxTime \cup {Missing}]
      /\ inode \in [Jobs -> InodeRec]
      /\ path \in [Paths -> Jobs \cup {None}]
  BY DEF TypeOK, JobRec, JobPC, InodeRec
<1>1. path["url"] \in Jobs \cup {None} /\ path["content"] \in Jobs \cup {None}
      /\ path["tmp"] \in Jobs \cup {None}
  BY <1>0 DEF Paths
<1>2. ASSUME NEW pc \in JobPC PROVE [job EXCEPT ![j].pc = pc] \in [Jobs -> JobRec]
  BY <1>0, GotoType
<1>3. CASE Submit(j) \/ TurnTerminal(j) \/ Die(j) \/ Break(j)
  BY <1>0, <1>2, <1>3 DEF Submit, TurnTerminal, Die, Break, Goto, JobPC, Epilogue
<1>4. CASE Start(j)
  <2>1. [job[j] EXCEPT !.pc = "checking", !.started = now] \in JobRec
    <3>1. "checking" \in JobPC
      BY DEF JobPC, Running
    <3>2. QED
      BY <1>0, <3>1 DEF JobRec
  <2>2. job' = [job EXCEPT ![j] = [job[j] EXCEPT !.pc = "checking", !.started = now]]
    BY <1>4 DEF Start
  <2>3. job' \in [Jobs -> JobRec]
    BY <1>0, <2>1, <2>2, OneEntry
  <2>4. QED
    BY <1>0, <1>4, <2>3 DEF Start
<1>5. CASE Download(j)
  BY <1>0, <1>2, <1>5 DEF Download, Goto, JobPC, Running
<1>6. ASSUME NEW pc \in Running, NEW f \in Jobs \cup {None},
             job' = [job EXCEPT ![j].pc = pc, ![j].file = f]
      PROVE  job' \in [Jobs -> JobRec]
  <2>1. [job[j] EXCEPT !.pc = pc, !.file = f] \in JobRec
    <3>1. pc \in JobPC
      BY DEF JobPC
    <3>2. QED
      BY <1>0, <3>1 DEF JobRec
  <2>2. job' = [job EXCEPT ![j] = [job[j] EXCEPT !.pc = pc, !.file = f]]
    BY <1>6
  <2>3. QED
    BY <1>0, <2>1, <2>2, OneEntry
<1>7. CASE LookupUrl(j) \/ LookupContent(j)
  <2>1. job' \in [Jobs -> JobRec]
    <3>1. CASE LookupUrl(j)
      <4>1. (IF path["url"] = None THEN "downloading" ELSE "rendering") \in Running
        BY DEF Running
      <4>2. QED
        BY <1>1, <1>6, <3>1, <4>1 DEF LookupUrl
    <3>2. CASE LookupContent(j)
      <4>1. (IF path["content"] = None THEN "storing" ELSE "rendering") \in Running
        BY DEF Running
      <4>2. QED
        BY <1>1, <1>6, <3>2, <4>1 DEF LookupContent
    <3>3. QED
      BY <1>7, <3>1, <3>2
  <2>2. QED
    BY <1>0, <1>7, <2>1 DEF LookupUrl, LookupContent
<1>8. CASE OpenTmp(j)
  <2>1. PICK file \in Jobs :
          /\ path' = [path EXCEPT !["tmp"] = file]
          /\ inode' = [inode EXCEPT ![file] = [state |-> "partial", by |-> j]]
          /\ job' = [job EXCEPT ![j].pc = "writing", ![j].file = file]
    BY <1>1, <1>8 DEF OpenTmp
  <2>2. job' \in [Jobs -> JobRec]
    BY <1>6, <2>1 DEF Running
  <2>3. inode' \in [Jobs -> InodeRec]
    BY <1>0, <2>1 DEF InodeRec
  <2>4. QED
    <3>1. path' \in [Paths -> Jobs \cup {None}]
      BY <1>0, <2>1
    <3>2. UNCHANGED <<now, row, dir, sweep>>
      BY <1>8 DEF OpenTmp
    <3>3. QED
      BY <1>0, <2>2, <2>3, <3>1, <3>2
<1>9. CASE WriteTmp(j) \/ WriteFails(j)
  <2>1. inode' \in [Jobs -> InodeRec]
    BY <1>0, <1>9 DEF WriteTmp, WriteFails, InodeRec
  <2>2. QED
    BY <1>0, <1>2, <1>9, <2>1 DEF WriteTmp, WriteFails, Goto, JobPC, Running
<1>10. CASE Replace(j)
  BY <1>0, <1>1, <1>6, <1>10 DEF Replace, Running
<1>11. CASE ReplaceFails(j) \/ UnlinkTmp(j)
  BY <1>0, <1>2, <1>11 DEF ReplaceFails, UnlinkTmp, Goto, JobPC, Running, Epilogue
<1>12. CASE Render(j) \/ MarkFailed(j)
  BY <1>0, <1>2, <1>12 DEF Render, MarkFailed, Goto, JobPC, Epilogue
<1>13. CASE CleanupFailure(j) \/ CleanupSuccess(j)
  BY <1>0, <1>2, <1>13 DEF CleanupFailure, CleanupSuccess, Goto, JobPC
<1>14. QED
  BY <1>3, <1>4, <1>5, <1>7, <1>8, <1>9, <1>10, <1>11, <1>12, <1>13 DEF JobStep

\* Every step keeps the types.
LEMMA TypeStep == TypeOK /\ [Next]_vars => TypeOK'
<1> SUFFICES ASSUME TypeOK, [Next]_vars PROVE TypeOK'
  OBVIOUS
<1>1. CASE Tick
  BY <1>1, FilesAssumption DEF Tick, TypeOK
<1>2. CASE SweepList \/ SweepScan \/ SweepEnd \/ Rest
  <2>1. UNCHANGED <<row, job, dir, inode, path>> /\ now' = now
    BY <1>2 DEF SweepList, SweepScan, SweepEnd, Rest, vars
  <2>2. sweep' \in SweepRec
    <3>0. sweep \in SweepRec /\ now \in 0 .. MaxTime
      BY DEF TypeOK, SweepRec
    <3>1. CASE SweepList
      <4>1. PICK A \in SUBSET Jobs : sweep' = [sweep EXCEPT !.pc = "listed", !.active = A]
        BY <3>1 DEF SweepList
      <4>2. QED
        BY <3>0, <4>1 DEF SweepRec
    <3>2. CASE SweepScan
      <4>1. PICK U \in SUBSET Jobs, D \in SUBSET Jobs :
              sweep' = [sweep EXCEPT !.pc = "scanning", !.now = now, !.unseen = U, !.due = D]
        BY <3>2, Zenon DEF SweepScan
      <4>2. QED
        BY <3>0, <4>1 DEF SweepRec
    <3>3. CASE SweepEnd \/ Rest
      BY <3>0, <3>3 DEF SweepEnd, Rest, vars, SweepRec
    <3>4. QED
      BY <1>2, <3>1, <3>2, <3>3
  <2>3. QED
    BY <2>1, <2>2 DEF TypeOK, SweepRec
<1>3. CASE \E j \in Jobs : SweepEntry(j) \/ SweepRemove(j)
  <2>1. PICK j \in Jobs : SweepEntry(j) \/ SweepRemove(j)
    BY <1>3
  <2>2. PICK U \in SUBSET Jobs, F \in SUBSET Jobs :
          sweep' = [sweep EXCEPT !.unseen = U, !.found = F]
    <3>1. CASE SweepEntry(j)
      <4>1. sweep.unseen \ {j} \in SUBSET Jobs
            /\ (IF Orphan(j) THEN sweep.found \cup {j} ELSE sweep.found) \in SUBSET Jobs
        BY <2>1 DEF TypeOK
      <4>2. QED
        BY <3>1, <4>1, Zenon DEF SweepEntry
    <3>2. CASE SweepRemove(j)
      <4>1. sweep.unseen \in SUBSET Jobs /\ sweep.found \ {j} \in SUBSET Jobs
        BY DEF TypeOK
      <4>2. sweep' = [sweep EXCEPT !.unseen = sweep.unseen, !.found = sweep.found \ {j}]
        BY <3>2 DEF SweepRemove, TypeOK
      <4>3. QED
        BY <4>1, <4>2
    <3>3. QED
      BY <2>1, <3>1, <3>2
  <2>3. sweep' \in SweepRec
    BY <2>2 DEF TypeOK, SweepRec
  <2>4. dir' \in [Jobs -> 0 .. MaxTime \cup {Missing}] /\ UNCHANGED <<now, row, job, inode, path>>
    BY <2>1 DEF SweepEntry, SweepRemove, TypeOK
  <2>5. QED
    BY <2>3, <2>4 DEF TypeOK, SweepRec
<1>4. ASSUME NEW j \in Jobs, JobStep(j) \/ TurnTerminal(j) \/ Die(j)
      PROVE  TypeOK'
  BY <1>4, JobTypeStep DEF TypeOK, JobRec, JobPC, InodeRec
<1>5. CASE UNCHANGED vars
  BY <1>5 DEF TypeOK, vars
<1>6. QED
  BY <1>1, <1>2, <1>3, <1>4, <1>5 DEF Next

-----------------------------------------------------------------------------

Over == {"ended", "dead"} \cup Epilogue

\* What a step of a job does to its location: only Start begins to run, no step runs
\* again, and only the ends of a job and Start touch its directory.
LEMMA JobMoves ==
    ASSUME TypeOK, NEW j \in Jobs, JobStep(j) \/ TurnTerminal(j) \/ Die(j)
    PROVE  /\ \A k \in Jobs \ {j} : job'[k] = job[k] /\ dir'[k] = dir[k]
           /\ job[j].pc \in Over => job'[j].pc \in Over
           /\ \/ /\ job[j].pc = "queued" /\ job'[j].pc = "checking"
                 /\ job'[j].started = now /\ dir'[j] = now
              \/ /\ dir'[j] = dir[j] /\ job'[j].started = job[j].started
                 /\ job'[j].pc \in Running => job[j].pc \in Running
                 /\ job'[j].pc \in {"new", "queued"} => job[j].pc \in {"new", "queued"}
              \/ job'[j].pc = "ended"
<1>0. job \in [Jobs -> JobRec] /\ dir \in [Jobs -> 0 .. MaxTime \cup {Missing}]
  BY DEF TypeOK, JobRec, JobPC
<1> USE DEF Over, Running, Epilogue, JobRec, At, Goto
<1>1. CASE Start(j)
  BY <1>0, <1>1 DEF Start
<1>2. CASE CleanupFailure(j) \/ CleanupSuccess(j)
  BY <1>0, <1>2 DEF CleanupFailure, CleanupSuccess
<1>3. CASE Submit(j) \/ TurnTerminal(j) \/ Die(j)
  BY <1>0, <1>3 DEF Submit, TurnTerminal, Die
<1>4. CASE LookupUrl(j) \/ Download(j) \/ LookupContent(j)
  BY <1>0, <1>4 DEF LookupUrl, Download, LookupContent
<1>5. CASE OpenTmp(j) \/ WriteTmp(j) \/ WriteFails(j)
  BY <1>0, <1>5 DEF OpenTmp, WriteTmp, WriteFails
<1>6. CASE Replace(j) \/ ReplaceFails(j) \/ UnlinkTmp(j)
  BY <1>0, <1>6 DEF Replace, ReplaceFails, UnlinkTmp
<1>7. CASE Render(j) \/ Break(j) \/ MarkFailed(j)
  BY <1>0, <1>7 DEF Render, Break, MarkFailed
<1>8. QED
  BY <1>1, <1>2, <1>3, <1>4, <1>5, <1>6, <1>7 DEF JobStep

\* Every step keeps the invariant.
LEMMA NextIInv == IInv /\ [Next]_vars => IInv'
<1> SUFFICES ASSUME IInv, [Next]_vars PROVE IInv'
  OBVIOUS
<1>0. TypeOK /\ TypeOK'
  BY TypeStep DEF IInv
<1>1. now \in Nat /\ sweep.now \in Nat /\ sweep.found \subseteq Jobs /\ Ttl \in Nat
      /\ JobTime \in Nat /\ JobTime < Ttl
      /\ \A j \in Jobs : job[j].started \in Nat /\ dir[j] \in Nat \cup {Missing}
  BY <1>0, FilesAssumption DEF TypeOK
<1>2. ASSUME NEW j \in Jobs, JobStep(j) \/ TurnTerminal(j) \/ Die(j)
      PROVE  Fresh' /\ NotYet' /\ FoundIsOver'
  <2>1. now' = now /\ sweep' = sweep
    BY <1>0, <1>2, JobTypeStep
  <2>2. Fresh'
    <3> SUFFICES ASSUME NEW k \in Jobs, job'[k].pc \in Running
                 PROVE  dir'[k] = job'[k].started /\ now - job'[k].started <= JobTime
      BY <2>1 DEF Fresh
    <3>1. QED
      BY <1>0, <1>1, <1>2, JobMoves DEF IInv, Fresh, Running
  <2>3. NotYet'
    <3> SUFFICES ASSUME NEW k \in Jobs, job'[k].pc \in {"new", "queued"}
                 PROVE  dir'[k] = Missing
      BY DEF NotYet, Missing
    <3>1. QED
      BY <1>0, <1>2, JobMoves DEF IInv, NotYet
  <2>4. FoundIsOver'
    <3> SUFFICES ASSUME NEW k \in sweep.found PROVE job'[k].pc \in Over
      BY <2>1 DEF FoundIsOver, Over, IInv
    <3>1. k \in Jobs /\ job[k].pc \in Over
      BY <1>1 DEF IInv, FoundIsOver, Over
    <3>2. QED
      BY <1>0, <1>2, <3>1, JobMoves
  <2>5. QED
    BY <2>2, <2>3, <2>4
<1>3. CASE Tick
  <2>1. UNCHANGED <<job, dir, sweep>> /\ now' = now + 1
        /\ \A j \in Jobs : job[j].pc \in Running => now - job[j].started < JobTime
    BY <1>3 DEF Tick
  <2>2. Fresh'
    BY <1>1, <2>1 DEF IInv, Fresh
  <2>3. NotYet' /\ FoundIsOver'
    BY <1>1, <2>1 DEF IInv, NotYet, FoundIsOver
  <2>4. QED
    BY <1>0, <2>2, <2>3 DEF IInv
<1>4. CASE SweepList \/ SweepScan \/ SweepEnd \/ Rest \/ UNCHANGED vars
  <2>1. UNCHANGED <<now, job, dir>> /\ sweep'.found = sweep.found
    BY <1>0, <1>4 DEF SweepList, SweepScan, SweepEnd, Rest, vars, TypeOK
  <2>2. sweep'.now \in {now, sweep.now}
    <3>1. CASE SweepScan
      BY <1>0, <3>1 DEF SweepScan, TypeOK
    <3>2. CASE SweepList \/ SweepEnd \/ Rest \/ UNCHANGED vars
      BY <1>0, <3>2 DEF SweepList, SweepEnd, Rest, vars, TypeOK
    <3>3. QED
      BY <1>4, <3>1, <3>2
  <2>3. Fresh' /\ NotYet'
    BY <2>1 DEF IInv, Fresh, NotYet
  <2>4. FoundIsOver'
    BY <1>1, <2>1, <2>2 DEF IInv, FoundIsOver
  <2>5. QED
    BY <1>0, <2>3, <2>4 DEF IInv
<1>5. ASSUME NEW j \in Jobs, SweepEntry(j)
      PROVE  Fresh' /\ NotYet' /\ FoundIsOver'
  <2>1. UNCHANGED <<now, job, dir>> /\ sweep'.now = sweep.now
        /\ sweep'.found = IF Orphan(j) THEN sweep.found \cup {j} ELSE sweep.found
    BY <1>0, <1>5 DEF SweepEntry, TypeOK
  <2>2. ASSUME Orphan(j) PROVE job[j].pc \in Over
    <3>1. job[j].pc \in JobPC
      BY <1>0 DEF TypeOK, JobPC
    <3>2. dir[j] \in Nat /\ sweep.now - dir[j] >= Ttl /\ sweep.now <= now
      BY <1>1, <2>2 DEF Orphan, Exists, IInv, FoundIsOver
    <3>3. job[j].pc \notin Running
      BY <1>1, <3>2 DEF IInv, Fresh
    <3>4. job[j].pc \notin {"new", "queued"}
      BY <2>2 DEF IInv, NotYet, Orphan, Exists
    <3>5. QED
      BY <3>1, <3>3, <3>4 DEF JobPC, Over
  <2>3. FoundIsOver'
    BY <2>1, <2>2 DEF IInv, FoundIsOver, Over
  <2>4. QED
    BY <2>1, <2>3 DEF IInv, Fresh, NotYet
<1>6. ASSUME NEW j \in Jobs, SweepRemove(j)
      PROVE  Fresh' /\ NotYet' /\ FoundIsOver'
  <2>1. /\ UNCHANGED <<now, job>> /\ sweep'.now = sweep.now
        /\ sweep'.found = sweep.found \ {j} /\ j \in sweep.found
        /\ dir' = [dir EXCEPT ![j] = Missing]
    BY <1>0, <1>6 DEF SweepRemove, TypeOK
  <2>2. job[j].pc \notin Running
    BY <2>1 DEF IInv, FoundIsOver, Running, Epilogue
  <2>3. Fresh' /\ NotYet'
    BY <1>0, <2>1, <2>2 DEF IInv, Fresh, NotYet, TypeOK, Missing
  <2>4. QED
    BY <2>1, <2>3 DEF IInv, FoundIsOver
<1>7. QED
  BY <1>0, <1>2, <1>3, <1>4, <1>5, <1>6 DEF IInv, Next

\* The inductive invariant, for any set of jobs.
THEOREM FilesInvariance == Spec => []IInv
  BY InitIInv, NextIInv, PTL DEF Spec

\* For any set of jobs and any times, the sweep of a starting worker leaves the
\* workspace of a running job alone, although it compares with an old list of active
\* renders (workspace.py:147-187): a job is stopped before its directory is old enough.
THEOREM WorkspaceSurvives == Spec => []RunningKeepsWorkspace
<1>1. IInv => RunningKeepsWorkspace
  BY DEF IInv, TypeOK, Fresh, RunningKeepsWorkspace, Exists, Missing
<1>2. QED
  BY <1>1, FilesInvariance, PTL

-----------------------------------------------------------------------------

\* The job has not opened a file yet: nobody has seen the inode named after it.
Before == {"new", "queued", "checking", "downloading", "hashed", "storing"}

InodesAreNamed ==
    /\ \A j \in Jobs : job[j].pc \in Before => inode[j].state = "unused"
    /\ \A j \in Jobs : inode[j].state = "unused" => inode[j].by = None
    /\ \A p \in Paths : path[p] # None => inode[path[p]].state # "unused"
    /\ \A j \in Jobs : At(j, "rendering") =>
           job[j].file \in Jobs /\ inode[job[j].file].state # "unused"

\* What can be opened for writing is neither the entry nor what a job reads.
TmpIsApart ==
    path["tmp"] # None =>
        /\ path["tmp"] # path["content"] /\ path["tmp"] # path["url"]
        /\ \A j \in Jobs : At(j, "rendering") => job[j].file # path["tmp"]

\* Whoever truncated a file last has opened it; until it has written, it is writing
\* that file or has stopped.
WriterIsKnown ==
    \A f \in Jobs : inode[f].state # "unused" =>
        /\ inode[f].by \in Jobs
        /\ job[inode[f].by].pc \notin Before
        /\ At(inode[f].by, "writing") => job[inode[f].by].file = f
        /\ inode[f].state = "partial" =>
               job[inode[f].by].pc \notin {"written", "rendering", "cleaning"}

CacheInv == TypeOK /\ InodesAreNamed /\ TmpIsApart /\ WriterIsKnown

\* A step that leaves the files and the paths alone, and moves one job between
\* locations on one side of the opening, keeps the invariant.
LEMMA CacheMove ==
    ASSUME CacheInv, TypeOK', NEW j \in Jobs, UNCHANGED <<inode, path>>,
           \A k \in Jobs \ {j} : job'[k] = job[k],
           job'[j].file = job[j].file,
           job'[j].pc \in Before => job[j].pc \in Before,
           job[j].pc \in Before => job'[j].pc \in Before \cup {"failing", "dead"},
           job'[j].pc = "writing" => job[j].pc = "writing",
           job'[j].pc = "rendering" => job[j].pc = "rendering",
           job'[j].pc \in {"written", "rendering", "cleaning"} =>
               job[j].pc \in {"written", "rendering", "cleaning"}
    PROVE  InodesAreNamed' /\ TmpIsApart' /\ WriterIsKnown'
<1>0. TypeOK /\ InodesAreNamed /\ TmpIsApart /\ WriterIsKnown
  BY DEF CacheInv
<1>1. InodesAreNamed'
  BY <1>0 DEF InodesAreNamed, At
<1>2. TmpIsApart'
  BY <1>0 DEF TmpIsApart, At
<1>3. WriterIsKnown'
  BY <1>0 DEF WriterIsKnown, At, Before
<1>4. QED
  BY <1>1, <1>2, <1>3

\* A job that finds the entry reads it.
LEMMA CacheHit ==
    ASSUME CacheInv, NEW j \in Jobs, UNCHANGED <<inode, path>>,
           job[j].pc \in Before, NEW p \in {"url", "content"}, path[p] # None,
           job' = [job EXCEPT ![j].pc = "rendering", ![j].file = path[p]]
    PROVE  InodesAreNamed' /\ TmpIsApart' /\ WriterIsKnown'
<1>0. TypeOK /\ InodesAreNamed /\ TmpIsApart /\ WriterIsKnown
  BY DEF CacheInv
<1>1. /\ job \in [Jobs -> JobRec] /\ path[p] \in Jobs /\ p \in Paths
      /\ inode \in [Jobs -> InodeRec]
  BY <1>0 DEF TypeOK, JobRec, JobPC, InodeRec, Paths
<1>2. job'[j].pc = "rendering" /\ job'[j].file = path[p]
      /\ \A k \in Jobs \ {j} : job'[k] = job[k]
  BY <1>1 DEF JobRec
<1>3. InodesAreNamed'
  BY <1>0, <1>1, <1>2 DEF InodesAreNamed, At, Before
<1>4. TmpIsApart'
  BY <1>0, <1>1, <1>2 DEF TmpIsApart, At
<1>5. WriterIsKnown'
  BY <1>0, <1>1, <1>2 DEF WriterIsKnown, At, Before
<1>6. QED
  BY <1>3, <1>4, <1>5

\* A job that does not find it goes on without a file.
LEMMA CacheMiss ==
    ASSUME CacheInv, NEW j \in Jobs, UNCHANGED <<inode, path>>,
           job[j].pc \in Before, NEW pc \in {"downloading", "storing"},
           job' = [job EXCEPT ![j].pc = pc, ![j].file = None]
    PROVE  InodesAreNamed' /\ TmpIsApart' /\ WriterIsKnown'
<1>0. TypeOK /\ InodesAreNamed /\ TmpIsApart /\ WriterIsKnown
  BY DEF CacheInv
<1>1. job \in [Jobs -> JobRec]
  BY <1>0 DEF TypeOK, JobRec, JobPC
<1>2. job'[j].pc \in {"downloading", "storing"} /\ \A k \in Jobs \ {j} : job'[k] = job[k]
  BY <1>1 DEF JobRec
<1>3. InodesAreNamed'
  BY <1>0, <1>2 DEF InodesAreNamed, At, Before
<1>4. TmpIsApart'
  BY <1>0, <1>2 DEF TmpIsApart, At
<1>5. WriterIsKnown'
  <2>1. \A f \in Jobs : inode[f].state # "unused" => inode[f].by \in Jobs \ {j}
    BY <1>0 DEF WriterIsKnown
  <2>2. \A f \in Jobs : inode[f].state # "unused" => job'[inode[f].by] = job[inode[f].by]
    BY <1>2, <2>1
  <2>3. inode' = inode
    OBVIOUS
  <2>4. SUFFICES ASSUME NEW f \in Jobs, inode[f].state # "unused"
                 PROVE  /\ inode[f].by \in Jobs
                        /\ job'[inode[f].by].pc \notin Before
                        /\ job'[inode[f].by].pc = "writing" => job'[inode[f].by].file = f
                        /\ inode[f].state = "partial" =>
                             job'[inode[f].by].pc \notin {"written", "rendering", "cleaning"}
    BY <2>3 DEF WriterIsKnown, At
  <2>5. QED
    BY <1>0, <2>2, <2>4 DEF WriterIsKnown, At
<1>6. QED
  BY <1>3, <1>4, <1>5

\* Opening the temporary path: the file is new, or it is nobody's to read.
LEMMA CacheOpen ==
    ASSUME CacheInv, NEW j \in Jobs, OpenTmp(j)
    PROVE  InodesAreNamed' /\ TmpIsApart' /\ WriterIsKnown'
<1>0. TypeOK /\ InodesAreNamed /\ TmpIsApart /\ WriterIsKnown
  BY DEF CacheInv
<1>1. /\ job \in [Jobs -> JobRec] /\ path \in [Paths -> Jobs \cup {None}]
      /\ inode \in [Jobs -> InodeRec]
  BY <1>0 DEF TypeOK, JobRec, JobPC, InodeRec
<1>2. PICK f \in Jobs :
        /\ f = IF path["tmp"] = None THEN j ELSE path["tmp"]
        /\ path' = [path EXCEPT !["tmp"] = f]
        /\ inode' = [inode EXCEPT ![f] = [state |-> "partial", by |-> j]]
        /\ job' = [job EXCEPT ![j].pc = "writing", ![j].file = f]
        /\ job[j].pc = "storing"
  <2>1. (IF path["tmp"] = None THEN j ELSE path["tmp"]) \in Jobs
    BY <1>1 DEF Paths
  <2>2. QED
    BY <2>1 DEF OpenTmp, At
<1>3. /\ path'["tmp"] = f /\ path'["content"] = path["content"] /\ path'["url"] = path["url"]
      /\ inode'[f].state = "partial" /\ inode'[f].by = j
      /\ \A k \in Jobs \ {f} : inode'[k] = inode[k]
      /\ job'[j].pc = "writing" /\ job'[j].file = f
      /\ \A k \in Jobs \ {j} : job'[k] = job[k]
  BY <1>1, <1>2 DEF Paths, JobRec, InodeRec
<1>4. f # path["content"] /\ f # path["url"]
      /\ \A k \in Jobs : At(k, "rendering") => job[k].file # f
  <2>1. CASE path["tmp"] = None
    <3>1. f = j /\ inode[j].state = "unused"
      BY <1>0, <1>2, <2>1 DEF InodesAreNamed, Before
    <3>2. QED
      BY <1>0, <3>1, NoneAssumption DEF InodesAreNamed, Paths
  <2>2. CASE path["tmp"] # None
    BY <1>0, <1>2, <2>2 DEF TmpIsApart
  <2>3. QED
    BY <2>1, <2>2
<1>5. InodesAreNamed'
  <2>1. f = j \/ inode[f].state # "unused"
    BY <1>0, <1>2 DEF InodesAreNamed, Paths
  <2>2. \A k \in Jobs : job'[k].pc \in Before => inode'[k].state = "unused"
    BY <1>0, <1>3, <2>1 DEF InodesAreNamed, Before
  <2>3. \A p \in Paths : path'[p] # None => inode'[path'[p]].state # "unused"
    BY <1>0, <1>1, <1>3 DEF InodesAreNamed, Paths
  <2>4. \A k \in Jobs : job'[k].pc = "rendering" =>
            job'[k].file \in Jobs /\ inode'[job'[k].file].state # "unused"
    BY <1>0, <1>3 DEF InodesAreNamed, At
  <2>5. \A k \in Jobs : inode'[k].state = "unused" => inode'[k].by = None
    BY <1>0, <1>3 DEF InodesAreNamed
  <2>6. QED
    BY <2>2, <2>3, <2>4, <2>5 DEF InodesAreNamed, At
<1>6. TmpIsApart'
  BY <1>3, <1>4 DEF TmpIsApart, At
<1>7. WriterIsKnown'
  <2> SUFFICES ASSUME NEW g \in Jobs, inode'[g].state # "unused"
               PROVE  /\ inode'[g].by \in Jobs
                      /\ job'[inode'[g].by].pc \notin Before
                      /\ job'[inode'[g].by].pc = "writing" => job'[inode'[g].by].file = g
                      /\ inode'[g].state = "partial" =>
                           job'[inode'[g].by].pc \notin {"written", "rendering", "cleaning"}
    BY DEF WriterIsKnown, At
  <2>1. CASE g = f
    BY <1>3, <2>1 DEF Before
  <2>2. CASE g # f
    <3>1. inode'[g] = inode[g] /\ inode[g].by # j /\ inode[g].by \in Jobs
      BY <1>0, <1>2, <1>3, <2>2 DEF WriterIsKnown, Before
    <3>2. job'[inode[g].by] = job[inode[g].by]
      BY <1>3, <3>1
    <3>3. QED
      BY <1>0, <3>1, <3>2 DEF WriterIsKnown, At
  <2>3. QED
    BY <2>1, <2>2
<1>8. QED
  BY <1>5, <1>6, <1>7

\* A write that is complete makes the file whole if nobody has truncated it since.
LEMMA CacheWrite ==
    ASSUME CacheInv, NEW j \in Jobs, WriteTmp(j)
    PROVE  InodesAreNamed' /\ TmpIsApart' /\ WriterIsKnown'
<1>0. TypeOK /\ InodesAreNamed /\ TmpIsApart /\ WriterIsKnown
  BY DEF CacheInv
<1>1. /\ job \in [Jobs -> JobRec] /\ path \in [Paths -> Jobs \cup {None}]
      /\ inode \in [Jobs -> InodeRec]
  BY <1>0 DEF TypeOK, JobRec, JobPC, InodeRec
<1>2. /\ job[j].pc = "writing" /\ job'[j].pc = "written" /\ job'[j].file = job[j].file
      /\ \A k \in Jobs \ {j} : job'[k] = job[k]
      /\ path' = path
  BY <1>1 DEF WriteTmp, Goto, At, JobRec
<1>3. \A g \in Jobs :
        /\ inode'[g].by = inode[g].by
        /\ inode'[g].state = IF g = job[j].file /\ inode[g].by = j THEN "whole"
                             ELSE inode[g].state
  BY <1>1 DEF WriteTmp, InodeRec, JobRec
<1>4. InodesAreNamed'
  <2>1. \A k \in Jobs : inode[k].state # "unused" => inode'[k].state # "unused"
    BY <1>3
  <2>2. \A k \in Jobs : job'[k].pc \in Before => inode'[k].state = "unused"
    <3> SUFFICES ASSUME NEW k \in Jobs, job'[k].pc \in Before
                 PROVE  inode'[k].state = "unused"
      OBVIOUS
    <3>1. k # j /\ job[k].pc \in Before /\ inode[k].state = "unused"
      BY <1>0, <1>2 DEF InodesAreNamed, Before
    <3>2. job[j].file # k \/ inode[k].by # j
      BY <1>0, <3>1, NoneAssumption DEF InodesAreNamed
    <3>3. QED
      BY <1>3, <3>1, <3>2
  <2>3. \A k \in Jobs : inode'[k].state = "unused" => inode'[k].by = None
    BY <1>0, <1>3 DEF InodesAreNamed
  <2>4. \A p \in Paths : path'[p] # None => inode'[path'[p]].state # "unused"
    BY <1>0, <1>1, <1>2, <2>1 DEF InodesAreNamed
  <2>5. \A k \in Jobs : job'[k].pc = "rendering" =>
            job'[k].file \in Jobs /\ inode'[job'[k].file].state # "unused"
    BY <1>0, <1>2, <2>1 DEF InodesAreNamed, At
  <2>6. QED
    BY <2>2, <2>3, <2>4, <2>5 DEF InodesAreNamed, At
<1>5. TmpIsApart'
  BY <1>0, <1>2 DEF TmpIsApart, At
<1>6. WriterIsKnown'
  BY <1>0, <1>2, <1>3 DEF WriterIsKnown, At, Before
<1>7. QED
  BY <1>4, <1>5, <1>6

\* Renaming: the entry is the file that was at the temporary path.
LEMMA CacheReplace ==
    ASSUME CacheInv, NEW j \in Jobs, Replace(j)
    PROVE  InodesAreNamed' /\ TmpIsApart' /\ WriterIsKnown'
<1>0. TypeOK /\ InodesAreNamed /\ TmpIsApart /\ WriterIsKnown
  BY DEF CacheInv
<1>1. /\ job \in [Jobs -> JobRec] /\ path \in [Paths -> Jobs \cup {None}]
  BY <1>0 DEF TypeOK, JobRec, JobPC
<1>2. /\ job[j].pc = "written" /\ path["tmp"] # None /\ path["tmp"] \in Jobs
      /\ path'["tmp"] = None /\ path'["content"] = path["tmp"] /\ path'["url"] = path["url"]
      /\ job'[j].pc = "rendering" /\ job'[j].file = path["tmp"]
      /\ \A k \in Jobs \ {j} : job'[k] = job[k]
      /\ inode' = inode
  BY <1>1 DEF Replace, At, Paths, JobRec
<1>3. InodesAreNamed'
  BY <1>0, <1>2 DEF InodesAreNamed, At, Paths, Before
<1>4. TmpIsApart'
  BY <1>2 DEF TmpIsApart
<1>5. WriterIsKnown'
  BY <1>0, <1>2 DEF WriterIsKnown, At, Before
<1>6. QED
  BY <1>3, <1>4, <1>5

\* Removing the temporary path.
LEMMA CacheUnlink ==
    ASSUME CacheInv, NEW j \in Jobs, UnlinkTmp(j)
    PROVE  InodesAreNamed' /\ TmpIsApart' /\ WriterIsKnown'
<1>0. TypeOK /\ InodesAreNamed /\ TmpIsApart /\ WriterIsKnown
  BY DEF CacheInv
<1>1. /\ job \in [Jobs -> JobRec] /\ path \in [Paths -> Jobs \cup {None}]
  BY <1>0 DEF TypeOK, JobRec, JobPC
<1>2. /\ path'["tmp"] = None /\ path'["content"] = path["content"] /\ path'["url"] = path["url"]
      /\ job[j].pc = "unlinking" /\ job'[j].pc = "failing"
      /\ \A k \in Jobs \ {j} : job'[k] = job[k]
      /\ inode' = inode
  BY <1>1 DEF UnlinkTmp, Goto, At, Paths, JobRec
<1>3. InodesAreNamed'
  BY <1>0, <1>2 DEF InodesAreNamed, At, Paths, Before
<1>4. TmpIsApart'
  BY <1>2 DEF TmpIsApart
<1>5. WriterIsKnown'
  BY <1>0, <1>2 DEF WriterIsKnown, At, Before
<1>6. QED
  BY <1>3, <1>4, <1>5

\* Every step keeps it.
LEMMA CacheStep == CacheInv /\ [Next]_vars => CacheInv'
<1> SUFFICES ASSUME CacheInv, [Next]_vars PROVE CacheInv'
  OBVIOUS
<1>0. TypeOK /\ TypeOK' /\ job \in [Jobs -> JobRec] /\ path \in [Paths -> Jobs \cup {None}]
  BY TypeStep DEF CacheInv, TypeOK, JobRec, JobPC
<1>1. ASSUME NEW j \in Jobs, JobStep(j) \/ TurnTerminal(j) \/ Die(j)
      PROVE  InodesAreNamed' /\ TmpIsApart' /\ WriterIsKnown'
  <2>1. CASE LookupUrl(j)
    <3>0. job[j].pc \in Before /\ UNCHANGED <<inode, path>>
      BY <2>1 DEF LookupUrl, At, Before
    <3>1. CASE path["url"] = None
      BY <2>1, <3>0, <3>1, CacheMiss DEF LookupUrl
    <3>2. CASE path["url"] # None
      BY <2>1, <3>0, <3>2, CacheHit DEF LookupUrl
    <3>3. QED
      BY <3>1, <3>2
  <2>2. CASE LookupContent(j)
    <3>0. job[j].pc \in Before /\ UNCHANGED <<inode, path>>
      BY <2>2 DEF LookupContent, At, Before
    <3>1. CASE path["content"] = None
      BY <2>2, <3>0, <3>1, CacheMiss DEF LookupContent
    <3>2. CASE path["content"] # None
      BY <2>2, <3>0, <3>2, CacheHit DEF LookupContent
    <3>3. QED
      BY <3>1, <3>2
  <2>3. CASE OpenTmp(j) \/ WriteTmp(j) \/ Replace(j) \/ UnlinkTmp(j)
    BY <2>3, CacheOpen, CacheWrite, CacheReplace, CacheUnlink
  <2>4. CASE \/ Submit(j) \/ Start(j) \/ Download(j) \/ WriteFails(j) \/ ReplaceFails(j)
             \/ Render(j) \/ Break(j) \/ MarkFailed(j) \/ CleanupFailure(j) \/ CleanupSuccess(j)
             \/ TurnTerminal(j) \/ Die(j)
    <3>1. UNCHANGED <<inode, path>> /\ (\A k \in Jobs \ {j} : job'[k] = job[k])
          /\ job'[j].file = job[j].file
      BY <1>0, <2>4 DEF Submit, Start, Download, WriteFails, ReplaceFails, Render, Break,
         MarkFailed, CleanupFailure, CleanupSuccess, TurnTerminal, Die, Goto, JobRec
    <3>2. /\ job'[j].pc \in Before => job[j].pc \in Before
          /\ job[j].pc \in Before => job'[j].pc \in Before \cup {"failing", "dead"}
          /\ job'[j].pc = "writing" => job[j].pc = "writing"
          /\ job'[j].pc = "rendering" => job[j].pc = "rendering"
          /\ job'[j].pc \in {"written", "rendering", "cleaning"} =>
                job[j].pc \in {"written", "rendering", "cleaning"}
      BY <1>0, <2>4 DEF Submit, Start, Download, WriteFails, ReplaceFails, Render, Break,
         MarkFailed, CleanupFailure, CleanupSuccess, TurnTerminal, Die, Goto, At, JobRec, Before
    <3>3. QED
      BY <1>0, <3>1, <3>2, CacheMove
  <2>5. QED
    BY <1>1, <2>1, <2>2, <2>3, <2>4 DEF JobStep
<1>2. ASSUME UNCHANGED <<job, inode, path>> PROVE InodesAreNamed' /\ TmpIsApart' /\ WriterIsKnown'
  BY <1>2 DEF CacheInv, InodesAreNamed, TmpIsApart, WriterIsKnown, At
<1>3. CASE Tick \/ SweepList \/ SweepScan \/ SweepEnd \/ Rest \/ UNCHANGED vars
  BY <1>0, <1>2, <1>3 DEF CacheInv, Tick, SweepList, SweepScan, SweepEnd, Rest, vars
<1>4. CASE \E j \in Jobs : SweepEntry(j) \/ SweepRemove(j)
  BY <1>0, <1>2, <1>4 DEF CacheInv, SweepEntry, SweepRemove
<1>5. QED
  BY <1>0, <1>1, <1>3, <1>4 DEF CacheInv, Next

\* For any set of jobs: CacheInv.
LEMMA CacheInvariance == Spec => []CacheInv
<1>1. Init => CacheInv
  BY InitIInv, NoneAssumption
  DEF IInv, Init, CacheInv, InodesAreNamed, TmpIsApart, WriterIsKnown, At, Paths
<1>2. QED
  BY <1>1, CacheStep, PTL DEF Spec

\* For any set of jobs, an entry that is not whole is being written, or was given up,
\* by another process than any that has written its own copy (asset_service.py:280-297).
THEOREM TornNeedsTwo == Spec => []TornByUnfinished
<1>1. CacheInv => TornByUnfinished
  BY DEF CacheInv, InodesAreNamed, WriterIsKnown, TornByUnfinished
<1>2. QED
  BY <1>1, CacheInvariance, PTL

\* For any set of jobs, no file is truncated while a job reads it: the temporary path
\* never leads to what has been renamed.
THEOREM ReadersAreLeftAlone == Spec => ReadIsNotTruncated
<1> DEFINE A == \A j \in Jobs : At(j, "rendering") /\ inode[job[j].file].state = "whole" =>
                    inode'[job[j].file].state = "whole"
<1>1. CacheInv /\ [Next]_vars => [A]_vars
  <2> SUFFICES ASSUME CacheInv, Next, NEW j \in Jobs, At(j, "rendering"),
                      inode[job[j].file].state = "whole"
               PROVE  inode'[job[j].file].state = "whole"
    OBVIOUS
  <2>0. /\ job[j].file \in Jobs /\ inode \in [Jobs -> InodeRec]
        /\ job[j].file # path["tmp"] \/ path["tmp"] = None
    BY DEF CacheInv, InodesAreNamed, TmpIsApart, TypeOK, InodeRec
  <2>1. ASSUME NEW k \in Jobs, OpenTmp(k) PROVE inode'[job[j].file].state = "whole"
    <3>1. PICK f : f = (IF path["tmp"] = None THEN k ELSE path["tmp"])
                   /\ inode' = [inode EXCEPT ![f] = [state |-> "partial", by |-> k]]
                   /\ job[k].pc = "storing"
      BY <2>1 DEF OpenTmp, At
    <3>2. job[j].file # k
      BY <3>1 DEF CacheInv, InodesAreNamed, Before
    <3>3. QED
      BY <2>0, <3>1, <3>2
  <2>2. ASSUME NEW k \in Jobs, WriteTmp(k) PROVE inode'[job[j].file].state = "whole"
    BY <2>0, <2>2 DEF WriteTmp, InodeRec
  <2>3. ASSUME NEW k \in Jobs, JobStep(k) \/ TurnTerminal(k) \/ Die(k)
        PROVE  inode'[job[j].file].state = "whole"
    BY <2>1, <2>2, <2>3 DEF JobStep, Submit, Start, LookupUrl, Download, LookupContent,
       WriteFails, Replace, ReplaceFails, UnlinkTmp, Render, Break, MarkFailed,
       CleanupFailure, CleanupSuccess, TurnTerminal, Die
  <2>4. QED
    BY <2>3 DEF Next, Tick, SweepList, SweepScan, SweepEnd, Rest, SweepEntry, SweepRemove, vars
<1>2. QED
  BY <1>1, CacheInvariance, PTL DEF Spec, ReadIsNotTruncated

-----------------------------------------------------------------------------

\* A directory the sweep should remove is one it has yet to look at, with the age and
\* the inactive row it had when the scan began, or a candidate, or gone.
DueIsPending ==
    \A j \in sweep.due :
        /\ job[j].pc = "ended"
        /\ \/ dir[j] = Missing
           \/ sweep.pc = "scanning" /\ j \in sweep.found
           \/ sweep.pc = "scanning" /\ j \in sweep.unseen /\ Orphan(j)

ThoroughInv == TypeOK /\ DueIsPending

\* An ended job does nothing any more.
LEMMA EndedStays ==
    ASSUME TypeOK, NEW j \in Jobs, JobStep(j) \/ TurnTerminal(j) \/ Die(j)
    PROVE  job[j].pc # "ended"
BY DEF JobStep, TurnTerminal, Die, At, Submit, Start, LookupUrl, Download, LookupContent,
   OpenTmp, WriteTmp, WriteFails, Replace, ReplaceFails, UnlinkTmp, Render, Break,
   MarkFailed, CleanupFailure, CleanupSuccess, Running, Epilogue

\* Every step keeps it: a sweep leaves out only what was not there when it listed.
LEMMA ThoroughStep == ThoroughInv /\ [Next]_vars => ThoroughInv'
<1> SUFFICES ASSUME ThoroughInv, [Next]_vars
             PROVE  DueIsPending'
  BY TypeStep DEF ThoroughInv
<1>0. TypeOK /\ sweep \in SweepRec /\ dir \in [Jobs -> 0 .. MaxTime \cup {Missing}]
      /\ now \in 0 .. MaxTime
  BY DEF ThoroughInv, TypeOK, SweepRec
<1>1. ASSUME NEW k \in Jobs, JobStep(k) \/ TurnTerminal(k) \/ Die(k)
      PROVE  DueIsPending'
  <2>1. UNCHANGED sweep /\ \A j \in Jobs \ {k} : job'[j] = job[j] /\ dir'[j] = dir[j]
    BY <1>0, <1>1, JobTypeStep, JobMoves
  <2>2. k \notin sweep.due
    BY <1>0, <1>1, EndedStays DEF ThoroughInv, DueIsPending
  <2>3. \A j \in sweep.due : j \in Jobs \ {k}
    BY <1>0, <2>2 DEF SweepRec
  <2>4. QED
    BY <2>1, <2>3 DEF ThoroughInv, DueIsPending, Orphan, Exists
<1>2. CASE Tick \/ Rest \/ UNCHANGED vars
  <2>1. UNCHANGED <<job, dir, sweep>>
    BY <1>2 DEF Tick, Rest, vars
  <2>2. QED
    BY <2>1 DEF ThoroughInv, DueIsPending, Orphan, Exists
<1>3. CASE SweepList \/ SweepEnd
  <2>1. /\ UNCHANGED <<job, dir>> /\ sweep'.due = sweep.due
        /\ sweep.pc = "idle" \/ (sweep.pc = "scanning" /\ sweep.unseen = {} /\ sweep.found = {})
    BY <1>0, <1>3 DEF SweepList, SweepEnd, SweepRec
  <2>2. QED
    BY <2>1 DEF ThoroughInv, DueIsPending
<1>4. CASE SweepScan
  <2> DEFINE U == {j \in Jobs : Exists(j)}
             D == {j \in Jobs : Exists(j) /\ now - dir[j] >= Ttl /\ job[j].pc = "ended"
                                /\ j \notin sweep.active}
  <2>1. /\ UNCHANGED <<now, job, dir>>
        /\ sweep' = [sweep EXCEPT !.pc = "scanning", !.now = now, !.unseen = U, !.due = D]
    BY <1>4 DEF SweepScan
  <2> HIDE DEF U, D
  <2>2. /\ sweep'.pc = "scanning" /\ sweep'.now = now /\ sweep'.unseen = U /\ sweep'.due = D
        /\ sweep'.active = sweep.active
    BY <1>0, <2>1 DEF SweepRec
  <2>3. QED
    BY <2>1, <2>2 DEF DueIsPending, Orphan, Exists, U, D
<1>5. ASSUME NEW k \in Jobs, SweepEntry(k)
      PROVE  DueIsPending'
  <2>1. /\ UNCHANGED <<job, dir>> /\ sweep'.due = sweep.due /\ sweep'.pc = sweep.pc
        /\ sweep'.active = sweep.active /\ sweep'.now = sweep.now
        /\ sweep'.unseen = sweep.unseen \ {k}
        /\ sweep'.found = IF Orphan(k) THEN sweep.found \cup {k} ELSE sweep.found
    BY <1>0, <1>5 DEF SweepEntry, SweepRec
  <2>2. \A j : Orphan(j)' <=> Orphan(j)
    BY <2>1 DEF Orphan, Exists
  <2>3. QED
    BY <2>1, <2>2 DEF ThoroughInv, DueIsPending
<1>6. ASSUME NEW k \in Jobs, SweepRemove(k)
      PROVE  DueIsPending'
  <2>1. /\ UNCHANGED job /\ sweep'.due = sweep.due /\ sweep'.pc = sweep.pc
        /\ sweep'.active = sweep.active /\ sweep'.now = sweep.now
        /\ sweep'.unseen = sweep.unseen /\ sweep'.found = sweep.found \ {k}
        /\ dir' = [dir EXCEPT ![k] = Missing]
    BY <1>0, <1>6 DEF SweepRemove, SweepRec
  <2>2. dir'[k] = Missing /\ \A j \in Jobs \ {k} : dir'[j] = dir[j]
    BY <1>0, <2>1
  <2>3. \A j \in Jobs \ {k} : Orphan(j)' <=> Orphan(j)
    BY <2>1, <2>2 DEF Orphan, Exists
  <2>4. sweep.due \subseteq Jobs
    BY <1>0 DEF SweepRec
  <2>5. QED
    BY <2>1, <2>2, <2>3, <2>4 DEF ThoroughInv, DueIsPending, Missing
<1>7. QED
  BY <1>1, <1>2, <1>3, <1>4, <1>5, <1>6 DEF Next

\* For any set of jobs and any times, the sweep of a starting worker removes every
\* directory that had ended and was old enough when it began to scan
\* (workspace.py:147-187), whatever the jobs do while it scans and removes.
THEOREM SweepRemovesOrphans == Spec => []SweepIsThorough
<1>1. Init => ThoroughInv
  BY InitIInv DEF IInv, Init, ThoroughInv, DueIsPending
<1>2. ThoroughInv => SweepIsThorough
  BY DEF ThoroughInv, DueIsPending, SweepIsThorough, Exists
<1>3. QED
  BY <1>1, <1>2, ThoroughStep, PTL DEF Spec
=============================================================================
