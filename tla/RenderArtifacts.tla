-------------------------- MODULE RenderArtifacts --------------------------
(***************************************************************************)
(* What one render leaves behind: the artifacts it publishes, the columns  *)
(* that name and describe them, and the files of its workspace.            *)
(*                                                                         *)
(* Publishing an artifact and naming it in the row are separate awaits, so *)
(* a failure, a timeout or the death of the process can fall between any   *)
(* two of them.  A stage of RenderService is written as the sequence of    *)
(* its awaits.  todo holds the ones still to come, at their positions in   *)
(* that sequence: what is given up leaves a gap.  Every action takes the   *)
(* first.  An exception replaces todo by the clean-up of the handler it    *)
(* meets, and then by what the caller does with a failed render: the       *)
(* worker (run_render) and the synchronous path (execute_render) differ.   *)
(*                                                                         *)
(* Statuses change here as if nobody else wrote them; the interleaving of  *)
(* their writers is RenderLifecycle.                                       *)
(***************************************************************************)
EXTENDS Naturals, Sequences, FiniteSetsExt

CONSTANTS Paths, \* who drives the stages: "worker", "sync", "template"
          Faults \* what may go wrong beside the work itself

ASSUME ArtifactsAssumption ==
    /\ Paths \subseteq {"worker", "sync", "template"}
    /\ Faults \subseteq {"storage", "db", "timeout", "cancel", "die"}

VARIABLES options,   \* what the composition asks for, who drives it, and poster_enabled
          row,       \* status, the artifacts its path columns name, metadata
          store,     \* the artifacts that are published
          log,       \* what the published logs.txt holds
          workspace, \* the files of the workspace, or Gone
          phase,     \* "pipeline", then "epilogue"
          todo,      \* the awaits still to come, by position
          faults     \* the faults that have happened: for the properties

vars == <<options, row, store, log, workspace, phase, todo, faults>>

Artifacts == {"input", "expanded", "compiled", "replay", "output", "manifest",
              "sidecar", "poster", "log"}
Gone      == {"no workspace"}
Files     == {"input.json", "expanded.json", "spec", "logs.txt", "media"}
Preserved == {"input.json", "expanded.json", "spec", "logs.txt"}

Options ==
    [path : Paths, format : {"file", "sequence"},
     captions : {"none", "sidecar", "burn_in"},
     poster : {"default", "requested", "disabled"}, posterEnabled : BOOLEAN]

------------------------------------------------------------------------------
(* The stages, as sequences of awaits.                                     *)

\* An await, and what it is about.  A soft one is wrapped in except Exception.
Await(do, about) == [do |-> do, about |-> about, soft |-> FALSE]
Soft(do, about)  == [do |-> do, about |-> about, soft |-> TRUE]

ValidateAndExpand ==
    <<Await("write", "input.json"), Await("publish", "input"), Await("name", "input"),
      Await("work", "merge"), Await("write", "expanded.json"),
      Await("publish", "expanded"), Await("name", "expanded")>>

\* Mutant of ResolveAndCompile: the paths are recorded before the replay is published.
ResolveAndCompileEarly ==
    <<Await("work", "capabilities"), Await("renderer", "renderer"),
      Await("work", "assets"), Await("write", "media"),
      Await("work", "compile"), Await("write", "spec"),
      Await("publish", "compiled"), Await("name", "compiled"), Await("publish", "replay")>>

ResolveAndCompile ==
    <<Await("work", "capabilities"), Await("renderer", "renderer"),
      Await("work", "assets"), Await("write", "media"),
      Await("work", "compile"), Await("write", "spec"),
      Await("publish", "compiled"), Await("publish", "replay"), Await("name", "compiled")>>

Finish(o) ==
    <<Await("clear", "captions"), Await("clear", "poster"), Await("work", "render")>>
    \o (IF o.captions = "none" THEN <<>> ELSE <<Await("work", "captions")>>)
    \o <<Await("work", "postprocess")>>

PublishOutput(o) ==
    <<Await("publish", "output")>>
    \o (IF o.format = "sequence" THEN <<Await("publish", "manifest")>> ELSE <<>>)
    \o <<Await("describe", "output")>>

PublishCaptions(o) ==
    CASE o.captions = "none"    -> <<>>
      [] o.captions = "burn_in" -> <<Await("describe", "captions")>>
      [] o.captions = "sidecar" -> <<Await("publish", "sidecar"), Await("describe", "captions")>>

\* resolve_poster_plan: a service that makes no posters disables every one.
PosterMode(o) == IF o.posterEnabled THEN o.poster ELSE "disabled"

PublishPoster(o) ==
    IF PosterMode(o) = "disabled" THEN <<Await("describe", "poster")>>
    ELSE (IF PosterMode(o) = "requested" THEN <<Await("work", "poster_plan")>> ELSE <<>>)
         \o <<Await("work", "poster"), Await("publish", "poster"), Await("describe", "poster")>>

PublishLog == <<Await("write", "logs.txt"), Await("publish", "log"), Await("name", "log")>>

\* Mutant of RenderAndStore: captions are stored before the output.
RenderAndStoreCaptionsFirst(o) ==
    Finish(o) \o PublishCaptions(o) \o PublishOutput(o) \o PublishPoster(o) \o PublishLog

RenderAndStore(o) ==
    Finish(o) \o PublishOutput(o) \o PublishCaptions(o) \o PublishPoster(o) \o PublishLog

\* _inner of the worker and execute_render: only the worker has checkpoints.
Pipeline(o) ==
    LET stage(status, body) ==
            (IF o.path = "worker" THEN <<Await("check", status)>> ELSE <<>>)
            \o <<Await("status", status)>> \o body
    IN  <<Await("workspace", "workspace")>>
        \o stage("fetching", ValidateAndExpand) \o stage("compiling", ResolveAndCompile)
        \o stage("rendering", RenderAndStore(o)) \o stage("uploading", <<>>)
        \o <<Await("status", "succeeded"), Await("done", "pipeline")>>

\* render_template in synchronous mode: nothing follows the two artifacts.
TemplateSync ==
    <<Await("publish", "input"), Await("publish", "expanded"), Await("name", "source")>>

FinalLog == <<Soft("write", "logs.txt"), Soft("publish", "log"), Soft("name", "log")>>

\* run_render after _execute_pipeline returns, also after a cancellation.
SuccessPath == IF options.path = "worker" THEN FinalLog \o <<Await("cleanup", "all")>> ELSE <<>>

\* Mutant of FailurePath: a job without a workspace is not marked failed.
FailurePathWithWorkspace(about) ==
    IF workspace = Gone THEN <<>>
    ELSE FinalLog \o <<Await("status", "failed"), Await("cleanup", "temporary")>>

\* run_render's except clause; _handle_failure; render_template's.
FailurePath(about) ==
    LET first == IF options.path = "sync" THEN Await("write", "logs.txt")
                                            ELSE Soft("write", "logs.txt")
        kept  == IF workspace = Gone THEN <<>> ELSE <<first>> \o Tail(FinalLog)
    IN  CASE options.path = "worker" ->
               kept \o <<Await("status", "failed")>>
               \o (IF workspace = Gone THEN <<>> ELSE <<Await("cleanup", "temporary")>>)
          [] options.path = "sync" ->
               (IF about = "capabilities" THEN <<Await("renderer", "renderer")>> ELSE <<>>)
               \o kept \o <<Soft("status", "failed")>>
          [] options.path = "template" ->
               IF about \in Artifacts THEN <<Await("status", "failed")>> ELSE <<>>

Init ==
    /\ options \in Options
    /\ row = [status |-> "queued", named |-> {}, output |-> FALSE,
              captions |-> "none", poster |-> "none"]
    /\ store = {}
    /\ log = "none"
    /\ workspace = Gone
    /\ phase = "pipeline"
    /\ todo = IF options.path = "template" THEN TemplateSync ELSE Pipeline(options)
    /\ faults = {}

------------------------------------------------------------------------------
(* What an await does.                                                     *)

Terminal    == {"succeeded", "failed", "cancelled"}
Pending     == DOMAIN todo
First       == Min(Pending)
About       == todo[First].about
Now(do)     == Pending # {} /\ todo[First].do = do
Later       == Pending \ {First}
Advance     == todo' = [i \in Later |-> todo[i]]
Keep(about) == {i \in Later : todo[i].about # about}

\* except clauses inside the stages: what they clear before they raise.
Recovery(about) ==
    CASE about = "captions"                 -> <<Await("clear", "captions")>>
      [] about = "postprocess"              -> <<Await("clear", "output"), Await("clear", "captions"),
                                                 Await("clear", "poster")>>
      [] about \in {"poster", "poster_plan"} -> <<Await("clear", "poster")>>
      [] OTHER                              -> <<>>

\* The await at the head of todo raises: a soft one is logged, and what it was
\* about is given up; one of the pipeline goes to its handler, or straight to
\* the caller's; nothing handles one of the epilogue.
Raise(recovery) ==
    /\ todo' = IF todo[First].soft
               THEN [i \in Keep(IF About = "logs.txt" THEN "log" ELSE About) |-> todo[i]]
               ELSE IF phase = "pipeline" THEN recovery \o <<Await("fail", About)>>
               ELSE <<>>
    /\ UNCHANGED <<options, row, store, log, workspace, phase>>

Suffer(fault) == fault \in Faults /\ faults' = faults \cup {fault}

CreateWorkspace ==
    /\ Now("workspace")
    /\ workspace' = {}
    /\ Advance
    /\ UNCHANGED <<options, row, store, log, phase, faults>>

WriteFile ==
    /\ Now("write")
    /\ workspace' = workspace \cup {About}
    /\ Advance
    /\ UNCHANGED <<options, row, store, log, phase, faults>>

\* Merging, capability checks, assets, compilation, the subprocesses.
Work ==
    /\ Now("work")
    /\ workspace' = workspace \cup (IF About = "render" THEN {"media"} ELSE {})
    /\ Advance
    /\ UNCHANGED <<options, row, store, log, phase, faults>>

\* A poster is given up, after the clean-up of its handler.
GiveUpPoster ==
    /\ todo' = [i \in Keep("poster") \cup {First} |->
                    IF i = First THEN Await("clear", "poster") ELSE todo[i]]
    /\ UNCHANGED <<options, row, store, log, workspace, phase>>

\* Mutant of WorkFails: no poster is worth failing a render.
WorkFailsAnyPoster ==
    /\ Now("work")
    /\ IF About = "poster" THEN GiveUpPoster ELSE Raise(Recovery(About))
    /\ UNCHANGED faults

\* Work fails with the exception its stage expects.  A default poster that cannot
\* be made is given up; every other failure ends the pipeline.
WorkFails ==
    /\ Now("work")
    /\ IF About = "poster" /\ options.poster = "default" THEN GiveUpPoster
       ELSE Raise(Recovery(About))
    /\ UNCHANGED faults

\* Work fails with an exception the stage does not expect.
WorkCrashes ==
    /\ Now("work")
    /\ Raise(<<>>)
    /\ UNCHANGED faults

Publish ==
    /\ Now("publish")
    /\ store' = store \cup {About}
    /\ log' = IF About # "log" THEN log
              ELSE IF phase = "pipeline" THEN "stderr"
              ELSE IF options.path = "worker" THEN "collected" ELSE "error"
    /\ Advance
    /\ UNCHANGED <<options, row, workspace, phase, faults>>

\* The disk is full, the object store refuses.
StorageFails ==
    /\ Now("publish") \/ Now("write") \/ Now("workspace")
    /\ Suffer("storage")
    /\ Raise(<<>>)

SetRow(new) ==
    /\ row' = new
    /\ Advance
    /\ UNCHANGED <<options, store, log, workspace, phase, faults>>

\* Mutant of Named: the second path of one commit is forgotten.
NamedFirst(about) == IF about = "source" THEN {"input"} ELSE {about}

\* update_render_paths writes the columns it is given, in one commit.
Named(about) ==
    CASE about = "compiled" -> {"compiled", "replay"}
      [] about = "source"   -> {"input", "expanded"}
      [] OTHER              -> {about}

UpdatePaths == Now("name") /\ SetRow([row EXCEPT !.named = @ \cup Named(About)])

UpdateRenderer == Now("renderer") /\ SetRow(row)

UpdateOutput ==
    /\ Now("describe")
    /\ About = "output"
    /\ SetRow([row EXCEPT !.output = TRUE,
                          !.named = (@ \ {"manifest"}) \cup {"output"}
                                    \cup (IF options.format = "sequence" THEN {"manifest"} ELSE {})])

UpdateCaptions ==
    /\ Now("describe")
    /\ About = "captions"
    /\ SetRow([row EXCEPT !.captions = options.captions,
                          !.named = (@ \ {"sidecar"})
                                    \cup (IF options.captions = "sidecar" THEN {"sidecar"} ELSE {})])

UpdatePoster ==
    /\ Now("describe")
    /\ About = "poster"
    /\ SetRow([row EXCEPT !.poster = PosterMode(options),
                          !.named = (@ \ {"poster"})
                                    \cup (IF PosterMode(options) = "disabled"
                                          THEN {} ELSE {"poster"})])

\* clear_render_output_metadata leaves output_path alone.
ClearOutput ==
    /\ Now("clear")
    /\ About = "output"
    /\ SetRow([row EXCEPT !.output = FALSE, !.named = @ \ {"manifest"}])

ClearCaptions ==
    /\ Now("clear")
    /\ About = "captions"
    /\ SetRow([row EXCEPT !.captions = "none", !.named = @ \ {"sidecar"}])

ClearPoster ==
    /\ Now("clear")
    /\ About = "poster"
    /\ SetRow([row EXCEPT !.poster = "none", !.named = @ \ {"poster"}])

\* The writer of a failure or a cancellation looks for a terminal status first.
UpdateStatus ==
    /\ Now("status")
    /\ SetRow(IF row.status \in Terminal THEN row ELSE [row EXCEPT !.status = About])

\* A commit fails, or the session cannot be had.
DatabaseFails ==
    /\ \/ Now("name") \/ Now("renderer") \/ Now("describe")
       \/ Now("clear") \/ Now("status") \/ Now("check")
    /\ Suffer("db")
    /\ Raise(<<>>)

\* A checkpoint of the worker: no cancellation requested, or one that is made now.
Check == Now("check") /\ SetRow(row)

Cancel ==
    /\ Now("check")
    /\ Suffer("cancel")
    /\ todo' = <<Await("status", "cancelled"), Await("done", "cancelled")>>
    /\ UNCHANGED <<options, row, store, log, workspace, phase>>

\* wait_for cancels the pipeline at whichever await it has come to.
Timeout ==
    /\ Pending # {} /\ phase = "pipeline"
    /\ options.path = "worker" /\ workspace # Gone
    /\ Suffer("timeout")
    /\ todo' = <<Await("fail", "timeout")>>
    /\ UNCHANGED <<options, row, store, log, workspace, phase>>

Done ==
    /\ Now("done")
    /\ phase' = "epilogue"
    /\ todo' = SuccessPath
    /\ UNCHANGED <<options, row, store, log, workspace, faults>>

Fail ==
    /\ Now("fail")
    /\ phase' = "epilogue"
    /\ todo' = FailurePath(About)
    /\ UNCHANGED <<options, row, store, log, workspace, faults>>

\* cleanup_success, also after a cancellation; cleanup_failure keeps diagnostics.
Cleanup ==
    /\ Now("cleanup")
    /\ workspace' = IF About = "all" THEN Gone ELSE workspace \cap Preserved
    /\ Advance
    /\ UNCHANGED <<options, row, store, log, phase, faults>>

\* The process dies or ARQ cancels the job: CancelledError is no Exception.
Die ==
    /\ Pending # {}
    /\ Suffer("die")
    /\ todo' = <<>>
    /\ UNCHANGED <<options, row, store, log, workspace, phase>>

Ended == Pending = {} /\ UNCHANGED vars

Next ==
    \/ CreateWorkspace \/ WriteFile \/ Work \/ WorkFails \/ WorkCrashes
    \/ Publish \/ StorageFails
    \/ UpdatePaths \/ UpdateRenderer \/ UpdateOutput \/ UpdateCaptions \/ UpdatePoster
    \/ ClearOutput \/ ClearCaptions \/ ClearPoster \/ UpdateStatus \/ DatabaseFails
    \/ Check \/ Cancel \/ Timeout \/ Done \/ Fail \/ Cleanup \/ Die
    \/ Ended

Spec == Init /\ [][Next]_vars

------------------------------------------------------------------------------
(* Properties.                                                             *)

TypeOK ==
    /\ options \in Options
    /\ row \in [status : {"queued", "fetching", "compiling", "rendering", "uploading"}
                            \cup Terminal,
                named : SUBSET Artifacts, output : BOOLEAN,
                captions : {"none", "sidecar", "burn_in"},
                poster : {"none", "default", "requested", "disabled"}]
    /\ store \subseteq Artifacts
    /\ log \in {"none", "stderr", "collected", "error"}
    /\ workspace \in (SUBSET Files) \cup {Gone}
    /\ phase \in {"pipeline", "epilogue"}
    /\ faults \subseteq Faults

\* Whatever path column a reader finds set, the artifact is published: the
\* URLs of get_render and the downloads never lead to a missing artifact.
NamedIsPublished == row.named \subseteq store

\* The metadata of one render describes one output.  Manifest, captions and poster
\* are there only together with an output, in the form that was asked for (disabled
\* for any poster of a service with poster_enabled off), and their path columns and
\* their descriptions are set together, also after a failure between any two
\* publications.
MetadataIsWhole ==
    /\ row.output <=> "output" \in row.named
    /\ "manifest" \in row.named <=> row.output /\ options.format = "sequence"
    /\ row.captions # "none" => row.output /\ row.captions = options.captions
    /\ "sidecar" \in row.named <=> row.captions = "sidecar"
    /\ row.poster # "none" => row.output /\ row.poster = PosterMode(options)
    /\ "poster" \in row.named <=> row.poster \in {"default", "requested"}

\* A succeeded render has everything it was asked for: only a poster nobody asked
\* for may be missing, and any poster of a service with poster_enabled off, which
\* the row then describes as disabled.
SucceededIsComplete ==
    row.status = "succeeded" =>
        /\ {"input", "expanded", "compiled", "replay", "output", "log"} \subseteq row.named
        /\ row.captions = options.captions
        /\ row.poster = PosterMode(options) \/ options.poster = "default"

\* Once the subprocess may run, the render can be replayed from what is
\* published, also when it fails later (docs/CONVENTIONS.md:67).
RenderingIsReplayable ==
    row.status \in {"rendering", "uploading", "succeeded"} \/ row.output =>
        {"input", "expanded", "compiled", "replay"} \subseteq row.named

\* The job ends with a terminal status, unless the database failed it, the
\* process died, or the synchronous path could not write its error log.
EndsTerminal ==
    Pending = {} /\ options.path # "template" =>
        \/ row.status \in Terminal
        \/ faults \cap {"db", "die"} # {}
        \/ options.path = "sync" /\ "storage" \in faults
=====
