# VidAPI in TLA+

This directory is a verification project for VidAPI, a service that turns a JSON
composition into a video: a FastAPI process accepts the composition, a SQL row and a
Redis (ARQ) job carry it to a worker, the worker drives a renderer and publishes the
artifacts, and a webhook tells the client. The modules are translated from the Python
code under `src/app`; paths below are relative to it. `PROJECT.json` maps every
definition to the lines it models.

## 1. Inventory

| Component | State | Operations | Talks to |
|---|---|---|---|
| Render state machine (`models/render.py`) | none: a transition table | `can_transition_to`, `is_terminal` | every writer of `renders.status` |
| API (`api/routes_renders.py`, `routes_templates.py`, `routes_ops.py`) | none of its own | create, cancel, get, list, retry, ... | database, Redis, storage |
| Render row (`db/models.py`, `db/render_crud.py`) | one row per render: status, progress, stage, flag, error, artifact columns | create, transition, flag, progress, paths | one session per caller, no lock |
| Queue admission (`services/queue_admission.py`) | none; reads the queue's length | `admit_render_queue` | Redis |
| Worker (`workers/render_worker.py`, `arq_settings.py`) | control location of each `run_render`, set of webhook tasks | preflight, stages, checkpoints, cancel, mark failed | database, storage, renderers, workspaces |
| Workspaces (`workers/workspace.py`) | a directory per render | create, clean up, sweep orphans at start-up | file system, database |
| Webhooks (`services/webhook_service.py`, `db/webhook_crud.py`) | a task per event, a row per attempt | dispatch, attempt, record, back off | the client's receiver, database |
| Templates (`services/template_service.py`, `db/template_crud.py`, `template_engine.py`, `merge.py`) | templates with numbered versions and an active one | create, update, delete, render | database, lifecycle |
| Render service (`services/render_service.py`) | artifact columns of the row | expand, resolve, compile, render and store, synchronous execution | assets, renderers, storage |
| Assets (`services/asset_service.py`, `ssrf.py`, `ffprobe.py`) | files of a cache shared by the workers | resolve, look up, download, store | network, file system |
| Storage (`storage/`) | published artifacts | publish, read, delete, sign | file system, S3 |
| Renderers (`renderers/`) | a subprocess with its streams | capabilities, compile, run, terminate | progress and cancel callbacks of the worker |
| Renderer algorithms (`renderers/timeline.py`, `transitions.py`, ...) | none | order, duration, transition plans, poster plans | compilers, limits |
| Output and captions (`services/output_*.py`, `caption_*.py`, `audio_mixer.py`) | none | post-process, extract, burn in, mix | ffmpeg |
| Progress (`services/ffmpeg_progress.py`) | percentage and time of the last report | parse, rate-limit, write | the row |
| Limits (`services/limits.py`, `core/rate_limit.py`, `core/request_limits.py`) | tokens per client and bucket | allow, refuse | API middleware |
| Composition models (`models/composition.py`) | none | validate, derive, dump | every reader of a composition |
| Configuration, security, logging, metrics, health | settings | read only | everything |

### What is hard about it

* **Stale reads.** A writer of the render row reads it, validates the transition on what
  it read, and commits in a later `await`. There is no row lock and no version column.
  The request handlers, the job and the webhook task each use sessions of their own.
* **Cancellation** is immediate for a queued render and cooperative (a flag, looked at by
  checkpoints and by the renderer's stderr loop) for an active one; the handler decides
  which on one read.
* **Cancelled coroutines.** `asyncio.wait_for` can stop the pipeline at any `await`, also
  between the last commit and the announcement, and a renderer beside its running child.
* **Check, then act**: queue admission, version numbers of templates, the asset cache,
  and the orphan sweep.
* **Partial failure**: a reply lost after the job was stored, a commit whose refresh
  fails, an HTTP answer lost after the receiver acted, artifacts published one by one.
* **Crashes**: jobs are tried once, webhook tasks live in memory.
* **Subprocesses** that are silent, ignore SIGTERM, exit with 0 after it, or leave a
  descendant on their pipes, under three timeouts.
* **Floats**: a timeline is cut at boundaries that are equal only up to an epsilon, by
  compilers with different rules of order, and validated more than once.

### What makes each component correct

* Lifecycle: an announced outcome is not taken back; a cancellation made in time is
  honoured; every accepted render settles; a job that ends has announced its outcome.
* Admission: a stale check lets the queue grow past its limit by a bounded amount only.
* Webhooks: what the receiver heard is in the audit trail; a recorded success is not
  repeated; every task ends.
* Templates: the versions form one history that only grows, numbered in order, whose last
  version is the active one; a deletion is not undone by an update already under way; a
  render uses no version older than an update it could know of.
* Artifacts: the row never names an artifact that was not published; its metadata describes
  one output; a succeeded render is complete; a render that ran can be replayed.
* Worker files: a sweep never removes the directory of a running render, and misses none
  that is due; a file that a job renders is not changed under it, and one that is incomplete
  has another process at work on it (that every job renders a complete file, and that an
  asset in the cache is not downloaded again, is what the documents say and the code does
  not do).
* Subprocess: a renderer that has chosen an outcome leaves no process behind, and no broken
  file where it removes that of a failure; it ends in time; progress goes forward.
* Request path: rates are kept; what was accepted is read back unchanged and renders; Editly
  and the native renderer show the same video; nothing that is mixed in outlasts it.

## 2. Modules

| Module | Models |
|---|---|
| `RenderStatus` | the statuses and the transition table (constants only) |
| `RenderPromise` | the abstract specification: what a client is promised of one render |
| `RenderLifecycle` | one render from POST to the end of its job: creator, cancellers, worker, webhook tasks |
| `QueueAdmission` | the depth check and the enqueue of concurrent requests |
| `WebhookDelivery` | the attempts of webhook tasks, with their audit trail |
| `TemplateHistory` | the abstract specification: what a user is promised of one template |
| `TemplateVersions` | the two tables of one template under concurrent requests |
| `RenderArtifacts` | what a render publishes, names and keeps, with a failure at every await |
| `WorkerFiles` | the asset cache and the workspaces of several workers, and the sweep |
| `RendererProcess` | a subprocess, its coroutine, readers, callback and timeouts |
| `Compositions` | what the models read, derive and store; the renderer a composition goes to |
| `Timelines` | clips in order, transition plans, limits (extends `Compositions`) |
| `Compilers` | the three compilers (extends `Timelines`) |
| `Finishing` | captions, poster, format of the output (extends `Compilers`) |
| `RequestPath` | a request from the middlewares to the finished render (extends `Finishing`) |
| `RenderLifecycleProofs`, `QueueAdmissionProofs`, `TemplateVersionsProofs`, `WebhookDeliveryProofs`, `RenderArtifactsProofs`, `WorkerFilesProofs`, `RendererProcessProofs`, `RequestPathProofs` | theorems |
| `MC*` | instances for TLC |

How they fit: `RenderLifecycle` has the writers of one row and leaves the work of a stage
opaque; `RenderArtifacts` opens the stages, with the row to itself; `RendererProcess` opens
the one await of a stage that runs a subprocess; `RequestPath` says what the stages compute,
where nothing around them fails; `WorkerFiles` has what jobs of different renders share.

Definitions named after a definition with a suffix and commented *Mutant of* are
deliberately wrong variants. No specification uses them; they show that a property would
notice the mistake.

### RenderLifecycle

`row` is the committed row (`status`, the flag `cancel_requested_at` as the request that
set it, and whether `started_at`, `completed_at` and `error_code` are set). `creator`,
`canceller[c]` and `worker` are control locations, each with what its session read:

* the creator (`_create_render_async`): `CreateRow`, `RefreshRow`, `StoreInput` or
  `StoreInputFails`, `Enqueue` or `EnqueueFails`, and `RejectRender` for both error
  handlers, which validates against the creator's snapshot;
* a canceller (`cancel_render`): `CancelLookup` is the one read it branches on, then
  `CancelQueued` or `RequestCancel` commits;
* the worker (`run_render`): `Pickup` is the preflight; `Checkpoint`, `ReadStage`,
  `CommitStage`, `FinishStage` are one stage of the pipeline, `AnnounceSuccess` its end;
  `Cancel*` is `_cancel_render`, `Mark*` is `_mark_failed` (with one more commit and
  refresh when it also records a renderer);
* a webhook task (`dispatch_webhook`): `Dispatch` reads the row when it runs.

An update is split where the code awaits: after the read and validation, and at the
commit. `WriteStatus` writes only the columns the ORM object changed, so commits of two
processes mix. Faults are actions enabled by the constant `Faults`: the input cannot be
stored, Redis refuses or times out (with the job stored or not), a stage fails, the
pipeline times out, a session raises, an API process or the worker dies, ARQ cancels the
job. `ghost` records facts about the past that properties need and is never read by a
guard.

Left out, because other modules have them: progress (`RendererProcess`), artifact paths and
the synchronous mode (`RenderArtifacts`), workspaces (`WorkerFiles`). Stage labels and
timestamps as values decide nothing. The render has a callback URL; one without has no
webhook properties.

`RenderPromise` is implemented under the mapping `status <- row.status`,
`announced <- {e : hooks[e] # "idle"}` as long as no DELETE finds the render queued and no
pipeline times out or finds Redis or the database failing (`CooperativeSpec`, in the module;
`Lifecycle_cooperative` checks it and `ImplementsPromise` proves it).
Outside that environment it is not, which `finding_terminal` shows.

### QueueAdmission

`depth` is the length of the list the code reads, `pc[c]` how far a request has come,
`reply[c]` its answer. `Admit`, `Saturated` and `Unavailable` are `admit_render_queue`;
`Persist`, `Enqueue` and their failures are `_create_render_async` seen from the queue;
`Abandon` is the end of the handler by a crash or a lost client; `Take` is the ARQ worker
(external). Whether ARQ keeps its queue in a list under `redis_queue_name` is outside this
repository: the module takes the code's word for it.

### WebhookDelivery

`task[d]` is a task, `attempts[d]` its rows of `webhook_attempts`, `heard[d]` what reached
the receiver (external; the code never sees it, the properties compare it with the trail).
`CreateAttempt`, `Post` and `Record` are `_deliver_single_attempt`, `Record` and `Sleep` the
loop of `deliver_with_retries`. A POST may fail before or after it was heard; a session may
fail before or after its commit; `Die` ends every task of the process.

### TemplateVersions

`template` is the row (`is_deleted`, `active_version_id`), `versions` the committed rows of
`template_versions`, `renders` the renders with the version each was pinned to, `request[r]`
how far a request has come and what its session has read. A version is its id and number:
its composition never changes once inserted. `UpdateLookup`, `DeleteLookup` and
`RenderLookup` are the reads of `TemplateService`; the second read that `template_crud`
makes in the same session returns the same instance, so it is no step. `NumberVersion`
reads the largest number, `FlushVersion` inserts, `CommitVersion` publishes; `CommitTouch`
is an update without composition, `CommitDelete` the soft deletion; `LoadVersion` and
`CreateRender` are `render_from_template` and the row the handler makes of it. `Close` is
the end of a request: the refresh after the commit may fail, so that the client is told
500 although the change stands. `answered` and `arrival` record what a client could know
and are read by no guard.

Two updates can take the same number. The unique index of migration 003 makes the second
insert wait for the first one's transaction and fail if that commits: the disabled
`FlushVersion` and `FlushConflict`. Assumed are a migrated database and read committed
isolation, PostgreSQL's default. The models in `template_models.py` do not declare the
index, so tables made by `create_tables` for development lack it; without it
`NumberedInOrder` fails (mutant `FlushVersionUnindexed`). Row locks and SQLite's lock of
the whole file only remove interleavings. Left out: name, description and schema columns
(overwritten without a condition), reads for display, and creation, which is `Init`.

`TemplateHistory` is implemented under the mapping `published <-` the ids of `versions`,
with `active` and `deleted` the columns of the row. Note what it permits, and the code
does: an update that passed its check publishes a version of a template deleted meanwhile.

### RenderArtifacts

`options` is what is asked for, who drives the stages (the worker, the synchronous
`execute_render`, or `render_template` in synchronous mode, which publishes two artifacts
and stops) and whether the service makes posters at all: with `poster_enabled` off every
poster is stored as disabled, whatever the composition asks for (`PosterMode`). A stage is a sequence of awaits (`ValidateAndExpand`, `ResolveAndCompile`,
`RenderAndStore`: the order is the code's), `todo` the awaits still to come, by their
positions in it, and each action takes the one with the least position: `WriteFile`, `Work`,
`Publish`, `Update*`, `Clear*`, `UpdateStatus`. An await that raises replaces `todo` by the
except clause around it (`Recovery`), then `Fail` by what the caller does with a failed
render (`FailurePath`: `run_render`'s handler or `_handle_failure`, which differ). A soft
await is one the code wraps in its own `except Exception`; what it was about is struck from
`todo` (`Keep`), and so is a default poster that cannot be made (`GiveUpPoster`).
`row.named` are the artifacts whose path columns are set, `store` those
that are published. Faults are failures of the database and of storage at any await, the
pipeline's timeout, a cancellation at a checkpoint, and death.

### WorkerFiles

The cache is one entry that every job needs: its paths under the URL's key and the
content's, and the temporary path, which depends on the content only, so that processes
storing the same content share it. A path points to an inode, named by the job whose open
created it, because a rename can carry off a file another job is still writing. An inode is
`whole` or `partial`: what is opened is truncated, what is written through is whole.
`Start` creates the directory, `LookupUrl` to `UnlinkTmp` are `AssetService` (`Download` a
fetch, `OpenTmp`, `WriteTmp` and `Replace` the three steps of `_store_in_cache`, with
`WriteFails` and `ReplaceFails`), `SweepList`, `SweepScan` and `SweepRemove` the start-up of a
worker, which reads the active renders first and scans afterwards. The clock is the file
system's; a job is stopped after `JobTime`. Writes that refresh a directory's modification
time are left out: without them directories look older to the sweep, so the property is
checked in the harder case.

Two things the documents promise of the cache fail, that it saves downloads and that what is
in it is whole (see "What does not hold"). What holds is how far the second failure goes: `ReadIsNotTruncated` says that a complete file
stays complete while it is read, and `TornByUnfinished` that an incomplete one was truncated
by a process that is still writing it, failed or died at it, so that a job on its own, or one
that has written its copy, never leaves one.

`FilesAssumption` demands that a render is stopped before its directory is old enough to be
swept: 600 s against 86,400 s by default (`core/config.py:206`, `:249`). The bounds of the
two settings would permit others, and nothing in the code compares them.

### RendererProcess

`kind` is which coroutine runs the child: editly and native read stderr under a `wait_for`,
hyperframes has two reader tasks and a poll loop, a tool (burn-in, post-processing, mixing)
communicates without callback or cancel check, and so does a poster (`generate_poster`, and
ffprobe), which keeps no log and leaves whatever file there is. `Removing` are the kinds that
remove the output of a failure. `child` may be silent, ignore SIGTERM
(`deaf`), leave a descendant on its pipes (`helper`), and exit with any code at any time.
`main` is the coroutine: `watching`, `stopping` (`_terminate_process`, with the end of the
grace period as `alarm`), `gathering` (hyperframes waits for its readers), `logging`.
`PipelineTimeout` throws a CancelledError into it, which hyperframes meets in a `finally`
that gathers first (`doomed`); `JobTimeout` is ARQ's. `callback` is the closure of
`_make_progress_callback`; the database write it starts may be slow (`ProgressWritten`) or
fail (`ProgressLost`). The clock advances only when no coroutine can run (`Tick`), so that
what an event loop would do at once takes no time; database writes and the child may take
any time. `Runnable` says when a coroutine has something to do. `FileFitsOutcome` relates the
file to the verdict: a returned render has the file of a finished child, and the file that a
failure has removed does not come back.

### The request path

`Compositions` to `RequestPath` extend each other. Times are integers in quarters of a
microsecond, so that what the code means by EPSILON (1e-6) can be told from its rounding to
micro-, milli- and centiseconds. An optional field is a set of at most one value. The clock
of the limiter counts half seconds and starts with the first request: only differences of
times matter, and Retry-After rounds. `Posted` is the record type of everything a client may
post, before any constraint. Orders that Python's `sorted()` makes are given by places: the
place of a cue is the number of cues before it (`Place`, `CueOrder`), the clips of a track and the
segments are put into their order by `InSequence`, and the tokens that
the limiter's filter keeps are the end of the list, from the first live one (`Live`): their
times never decrease. Editly's loops over the sorted times are relations between them:
`Boundaries` are the times of which none that was kept is just before (the one set that has
this property), `Spans` the pairs of neighbours among them, `Segments` the spans in order
with the clips that are shown in them, and `Elapsed` the sums of what the segments last.
A layer's `cut` is the part of its source a video layer plays. `map_video_layer` ends it
where the clip ends, also in a segment that ends before: `ClipsPlayThrough` says just that
(see below).

`pc` follows one request: `body` and `rate` are the middlewares (`TooLarge`, `Limited`,
`Passed`), `key` the API key, `read` the models, `check` the capability table and the limits,
`stored` the worker's second validation of the input artifact (`Reload`), then the stages:
`Expand`, `Compile` or `CompileFails`, `Render` (the mix, whose plan may be refused),
`Finish`, `Poster`. `Dump` is what `model_dump_json` writes: everything a validator has
derived, which is then read again.

`RenderersAgree` compares Editly with the native renderer, on compositions without HTML:
the two that a request can choose between for one composition. HyperFrames refuses whatever
has no HTML (`renderers/hyperframes_compiler.py:241`), and the other two refuse what has.

`SameForAll` and `NeedsMore` list the gaps between what the API checks and what later stages
need: a composition with nothing to see, or hardly anything (native and HyperFrames refuse a
video that lasts EPSILON or less, Editly finds no segment in it), sources that cannot be
fetched, merge variables that are undefined, a cue given by its duration (see `finding_reparse`),
a template whose composition the capability table refuses, a poster timestamp at or behind
the end of the video, and what each renderer refuses on its own. Editly's video may be said
to be shorter than its timeline by what `Slack` adds up: the noise of its end, half a
microsecond for each segment that is rounded, and half a millisecond for the sum. `AcceptedRenders` says that the list is complete: nothing
else fails after the API has said yes.

## 3. Runs

| Run | Question | Bounds | States |
|---|---|---|---|
| `lifecycle_faults` | all safety of one render under every fault | 2 cancellers (symmetric), all faults | 25 thousand |
| `lifecycle_settles` | does it end, with fairness | 2 cancellers, the faults the code handles | 18 thousand |
| `lifecycle_cooperative` | does it implement the promise | 2 cancellers that use the flag | 5 thousand |
| `admission` | overshoot and drain of the queue | 3 clients, depth 2 | 9 thousand |
| `delivery` | the audit trail, retries and termination | 2 tasks, 4 attempts, 2 delays, all faults | 252 thousand |
| `templates` | do the tables keep one history, and what do requests see of it | 4 requests of any kind (symmetric) | 34 thousand |
| `artifacts` | what does a render leave in storage and in its row | one render of every kind, all faults | 113 thousand |
| `files` | do jobs and a sweep respect each other's files | 2 jobs (symmetric), TTL 2, job time 1, clock to 3 | 1.9 million |
| `process` | how does a renderer end, and its child | 2 lines, pipe of 1, 1 fault, timeouts 1 or 4 against 3, clock to 6 | 3.3 million |
| `request_path` | is what is accepted read back and rendered, and alike | 8,682 scripts of requests, clock to 5 half seconds | 146 thousand |
| `finding_*` | what the documents say and the code does not do | see below | small |

Why the bounds suffice. Renders share only the queue and files, so one render is the whole
interaction of its processes, and two jobs that of two renders. Two cancellers are needed
for one to hold a stale snapshot while another flags or cancels; a third adds nothing a
canceller can distinguish. Three clients against a depth of 2 overshoot the limit. Four
attempts with two delays are the smallest instance in which a delay is used, the next one is
used, and the last one is used again; two tasks share the death of the worker only. Two
updates race for one number while a third commits or a render holds an older version: four
requests give every such combination with one to spare. The clock of `files` lets a
directory grow old enough to be swept after its job has ended and while another runs; with
two jobs one can rename the file the other is writing. In `process` the renderer's timeout
falls before the pipeline's and after it (with the defaults both are 600 s and the
pipeline's has started first); two lines with a pipe of one make a child wait for its reader
and the second line smaller than the first. The theorems cover any value of all these
constants.

`request_path` does not enumerate all compositions but families (`MCRequestPath`): each
varies one part (two clips of one track or of two, three clips for three renderers, sound,
captions and posters, formats, pages and what renderers refuse) with values at the edges:
clips that touch, overlap, leave a gap or differ by less than EPSILON, cues that round to
the same instant, fades longer than what is left, and videos that last
EPSILON or a quarter of a microsecond more or less (`Hardly`). Requests without much of a body arrive up
to four in a row against rates of 1 in 1 s and 2 in 2 s.

Deadlock is checked everywhere: the states in which all work is done stutter explicitly
(`Rest`, `AllEnded`, `AllClosed`, `Ended`, `Done`), so any other state without a successor
would be reported.

### Fairness

* `WF` on the creator, on a canceller that has read the row, on the worker and on each
  webhook task: an event loop resumes every coroutine whose await has completed; a stage's
  work is bounded by the render timeout and a POST by its own.
* `WF` on `Take`: ARQ workers poll the queue.
* None on the arrival of requests, and none on faults.

`lifecycle_settles` leaves out the faults `db`, `api`, `enqueue`, `kill` and `abort`: after
them nothing in the code resumes a render (`max_tries = 1`), so it may stay active or, when
Redis answers with an error the handler does not catch, queued. It is a limit of the design.

`process` states termination as safety, with a clock (`EndsInTime`, `CancelStopsInTime`), and
needs no fairness.

### What does not hold

| Run | The code | The document |
|---|---|---|
| `finding_terminal` | a stale commit replaces a terminal status (`db/render_crud.py:100`) | "Every render reaches exactly one terminal state" (`docs/prev-specs/PRD_p00-p04.md:160`) |
| `finding_reparse` | a caption cue with a duration is accepted, dumped with its derived end, and refused when it is read again (`models/composition.py:612`) | such a cue is valid (`README.md:254`, `tests/test_composition_schema.py:382`) |

Other disagreements met while modelling. The models contain them and the properties are
stated around them; no run refutes a document for each:

* a cancel seen by the renderer ends as `failed`, not `cancelled` (`renderers/editly.py:953`);
* a queued render is cancelled without a webhook (`api/routes_renders.py:340`);
* `render.failed` can carry the status `succeeded` (`workers/render_worker.py:616`);
* Redis errors of other classes than those caught leave the row queued
  (`api/routes_renders.py:195`);
* three attempts make two retries, so the third delay is never slept
  (`services/webhook_service.py:277`);
* a template's synchronous render stays queued (`api/routes_templates.py:432`);
* the cache is looked up under the hash of the URL before a download, and nothing is stored
  under it (`services/asset_service.py:273`), so every job downloads: "Content-address cached
  downloads by SHA-256 hash to avoid redundant fetches" (`docs/CONVENTIONS.md:110`; likewise
  `docs/ARCHITECTURE.md:222`, `docs/prev-specs/PRD_p00-p04.md:165`);
* two workers that store one asset write to one temporary path, so that one may rename what
  the other has just truncated, and render it (`services/asset_service.py:282`). In
  `WorkerFiles` it takes `Download` of two jobs, `OpenTmp` and `WriteTmp` of the first,
  `OpenTmp` of the second, `Replace` of the first. The cache is called a "SHA-256
  content-addressed cache" (`services/asset_service.py:265`), and "concurrent jobs do not
  corrupt each other" (`docs/prev-specs/PRD_p00-p04.md:110`);
* a poster the composition asks for, and that cannot be made, fails a render whose output is
  published (`services/render_service.py:517`): "Missing poster should not fail a successful
  render" (`docs/ARCHITECTURE.md:274`). Only a default poster is given up with a warning;
* a poster timestamp that the API accepts may lie behind the end of the video, because its
  limit counts audio (`services/limits.py:254`), and then fails the render as above:
  `AcceptedRenders` excepts the case (`NeedsMore`) and does not catch it;
* the cut of a video layer runs to the end of its clip in each segment
  (`renderers/editly.py:272`, as `tests/test_editly_compiler.py:114` expects), so it is longer
  than every segment but the last. What Editly makes of a cut that does not fit its segment
  is outside this repository: the models say which part is asked for, not what is seen;
* `generate_poster` leaves a partial file when FFmpeg fails or is stopped
  (`renderers/poster.py:74`), unlike the other tools;
* when the pipeline times out, nobody stops the child of editly or native; a line longer
  than the reader's limit has the same effect (`renderers/editly.py:1075`).

## 4. Proofs

TLC checks small instances; the theorems hold for every value of the constants that meets
the assumptions.

`RenderLifecycleProofs` proves, for any set of cancellers and any faults, every property of
`lifecycle_faults`. They are not inductive: that an announced outcome is not taken back
depends on where the worker may still be when something is announced. `IInv` therefore adds
what each control location says:

* `Creation`: the row exists once the creator has begun, the job once it has enqueued;
* `Position`: where the worker is in its list of stages;
* `Outcome`: the locations reached only over a terminal row, and those from which an
  active status may still be written, where nothing has been announced;
* `Started`: past the first commit the render has started;
* `Flagged`: a timely flag is set, and the worker has not passed its last checkpoint;
* `Cancelled`: an early cancellation leaves a terminal row for the pickup to find.

`InitIInv` and `NextIInv` (one step per action) give `Invariance`, and each property is a
corollary. The key fact is that requests commit only terminal statuses and only the worker
commits active ones, from locations in which it has announced nothing. Also proved, and
therefore in no run: types, `StatusTracksWorker`, `FlagOnlyAfterPickup` (a branch of the
preflight is dead code) and `RowConsistent`.

`ImplementsPromise` is the refinement of `RenderPromise` by `CooperativeSpec`, for any
requests and any faults but timeouts and failures of Redis and of the database (`Reliable`).
There is one writer at a time (`OneWriter`): the creator until it has enqueued, then the
worker, whose location says what the status is, so that a snapshot is never stale. Each step
then is `Accept`, `Move` or `Announce` of the promise, or shows the client nothing (`Kept`).
`TerminalIsFinalWhenReliable` draws from it that no terminal status is replaced, which
`finding_terminal` refutes without the restriction: the finding needs a direct cancellation,
a timeout or a failing commit.

`QueueAdmissionProofs` proves for every depth and every finite set of clients that the
queue and the requests underway together exceed the depth by less than the number of
clients. The sum is the inductive quantity: an admission needs `depth < MaxDepth`, which
leaves room for all clients; an enqueue moves one from the second term to the first.

`TemplateVersionsProofs` proves every property of `templates` for any set of requests, and
that the specification implements `TemplateHistory` (`ImplementsHistory`). The point of the
argument is that a number read before other updates committed is still the next one when
its holder commits: of the updates that have numbered a version, the index lets at most one
insert it (`OneInserts`), numbers in use are never inserted, and no number is larger than
the next one (`Arrived`), so the one that inserts holds exactly the next number, and no
other can commit before it. `LastIsActive` then follows at the commit. `OwnVersion` makes
each publication a new version, `HoldsFresh` carries freshness from the lookup to the row
of the render, `Made` keeps a finished render's request from changing. Types and
`ConflictIsReal` (an update conflicts only with one that published since it arrived) are
proved and in no run.

`WebhookDeliveryProofs` proves the three safety properties of `delivery` for any deliveries,
retries, delays and faults. The invariant holds for each delivery by itself: `Numbered` (all
rows but the last are failures), `Position` (how many rows each location has seen),
`Silence` (one POST less than rows before each POST) and `Success` (a success is the last
thing heard, and ends the task). That no step repeats a success follows from `Success`: a
recorded one means that the task has ended.

`RenderArtifactsProofs` proves all five properties of `artifacts`, for every kind of render
and any set of faults. What is left to do at any moment is a suffix of the pipeline, of an
except clause or of an epilogue, with some awaits struck out: too many cases to list. The
proof says two things of all of them. `Ordered`: one order of the awaits, `Rank`, agrees
with every sequence the module builds, so the await whose turn it is has the least rank of
those that are due (`TurnIsLeast`). And everything else is said of the set `Due`, which
steps only make smaller or replace: what an await is going to name is published or due to
be published (`PublishedFirst`); captions and poster are described over an output that is
described, or due to be (`OutputFirst`); the sources of a replay are named before the
subprocess may run (`SourcesFirst`); `succeeded` comes after everything it stands for, and
nothing is withdrawn after it (`SuccessLast`, `SuccessStays`); a terminal status is there or
ahead, the exceptions apart (`EndAhead`). The sequences are composed from pieces: a lemma per
piece says which awaits it holds and between which ranks, and `Joined` puts two of them
together.

`WorkerFilesProofs` proves the four properties of `files` for any jobs and times. The sweep
spares whom it must: `Fresh` (the directory of a running job is at most `JobTime` old),
`NotYet` (a job that has not started has none) and `FoundIsOver` (what the sweep has found
belongs to jobs that run no more); the step that matters is the scan, where `JobTime < Ttl`
excludes every running job whatever the list of active renders said. It spares nobody else:
`DueIsPending` says that a directory that had to go is one the scan has yet to reach, still
as old and as inactive as it was, or one it has found, or gone. The cache: `CacheInv` says
that an inode is unused until the job it is named after opens a file, and that no path and
no reader has an unused one (`InodesAreNamed`), that the temporary path leads to none that
another path leads to or a job reads (`TmpIsApart`), and who wrote an inode last, with how
far that job has come (`WriterIsKnown`). A job truncates what the temporary path points to, so nothing
that is read (`ReadersAreLeftAlone`), unless two jobs store at once; and an inode is partial
only until its last writer has written through (`TornNeedsTwo`).

`RendererProcessProofs` proves the properties of `process` for any limits, lines and faults,
and every kind of renderer. `ReadersWatch` says who may still read (so that a cancel check
or a broken line happens only while the coroutine watches), `ChildKnown` where the child is
at each location of the coroutine (`logging` is reached only over a child that is dead or
was never started) and which output an exit code 0 stands for, and `Verdict` that an outcome
once chosen stays justified, with its file. For `ProgressForward`, `ReportAhead` adds that
the callback remembers the report under way and is ahead of the row: the callback moves
before its write starts, so a lost or late write can only leave the row behind. For
`EndsInTime` and `CancelStopsInTime`, `Time` says at each location how far the clock may be:
no alarm of the coroutine lies more than a grace period (or a poll) ahead, and the clock is
not past the earliest one. Time passes only when no coroutine is `Runnable`, which the module
states by their guards.

`RequestPathProofs` is about any scripts of requests, any rates and settings, and any
compositions, of any length.

* `RateIsKept`, `RetryAfterSuffices`: the tokens of a bucket are the end of the list of times
  at which it let a request pass, and what was dropped is older than the window (`Limiter`);
  times never decrease. A window that ends with the newest grant therefore holds what
  `Live` keeps, and the newest one (`LastWindow`), which `Full` bounds; older windows are
  what they were. A refused client waits until the oldest of at least `max` live tokens has
  expired, which leaves fewer.
* `WhatIsStoredIsReadBack`: reading is idempotent (`ReadOnce`), part by part: references
  without repetition have themselves as first ones (`RefsOnce`), cues in order are sorted
  into their own places (`CuesOnce`, by `Ranks`: in a strict order each element has a place
  of its own, and places of a list in order are its indices), placements, dimensions and rates
  that were derived are derived again. `Carried` then follows the composition from the
  models through the store and the expansion to the last stage.
* `OnlyDurationsSpoilReading`: what was read can be read again (`ReadsAgain`), unless a cue
  still has the duration it was given. So the cause that `finding_reparse` shows is the only one.
* `ClipsAreShownThrough`, `TransitionsAreWherePlanned`, `RenderersShowTheSame`: of any
  finite set of times there is one set of boundaries (`KernelExists`), which contains 0 and
  keeps every time up to EPSILON (`BoundariesKeep`). The spans between neighbours form a chain
  that begins where the timeline does and leaves no gap (`SegmentsChain`, `ChainEnds`), so
  that the segments that show a clip are an interval of them (`ShownWhere`), the first and
  the last of which end where the clip does, up to EPSILON (`ClipEnds`). What an interval of
  the chain lasts is a difference of two sums, `Telescopes`, and each rounding in it
  costs half a microsecond (`SegmentsLast`). A video (`VideoIsCut`, `VideoPlays`): where a
  segment starts it and where its cut ends, from its trim, its length and the start of the
  segment. A transition: boundaries are too far apart to be
  rounded to the same microsecond (`EndsApart`), so that at most one segment ends at the one
  that was planned (`LandsWhere`), and of the plans of an accepted composition no two claim
  one microsecond (`OneTransition`). The two orders: each is that of its own list (`Sequenced`,
  `LayersShow`, `NativeOrders`), and the middle of a segment longer than the noise lies
  in a clip exactly when the segment shows it (`MiddleCovered`). `Compiling` says that what
  was compiled is what is rendered.
* `AcceptedIsRendered`: `AcceptedRenders`, for all renderers. `Judged` says what each stage may
  rely on, and one lemma per stage that can fail (`ReloadExcused`, `ExpandExcused`,
  `CompileExcused`, `RenderExcused`, `PosterExcused`) names the gap that the failure falls
  into. For Editly it needs the segments again: there is one if the video lasts
  (`EditlyAccepts`), and together they last as long as the timeline but for `Slack`
  (`VideoLasts`), so that a poster that cannot be made was asked for at the very end.
* `WhatIsMixedFits`: a clip that is mixed starts before the video ends by more than EPSILON
  and is cut at its end, its delay is rounded by half a millisecond at most (`MilliRounds`),
  and two fades share what there is (`FadesShare`).

Some of these attempts failed first, and were right to:

* `AcceptedRenders` did not name videos of exactly EPSILON, which two compilers refuse and
  the limits let pass, nor posters that ask for the last instant of a video whose segments
  were rounded down. The gaps are stated now, and `Hardly` makes the run meet the first.
* For the second of them a millisecond was allowed. That is enough for less than a thousand
  segments only, since every segment may lose half a microsecond: `Slack` grows with them.
* `ClipsPlayThrough` bounded what the segments of a clip last together by two microseconds
  whatever their number, which is false of a clip cut by many others, for the same reason.
* `TransitionsLand` said that every planned transition is on a segment. But a boundary may be
  given up for another one just before it that rounds to another microsecond, and then
  the transition is on none (`renderers/editly.py:119` keeps the first of the two,
  `renderers/transitions.py:134` plans with the second). `Survives` names the case.
* `ClipsPlayThrough` said of the cuts of a video only where they start; it now says where they
  end, which is the end of the clip and not that of the segment.
* `RenderersAgree` is false of a segment no longer than the noise of its two ends, where one
  renderer shows a clip that another has ended. It is stated for the longer ones.
* A poster's mode typed as any string left `PosterPlan` without a value: the enumerations of
  the models are now sets, and an optional field has one value at most (`Optional`).
* `EndsInTime` needed that alarms are heard, implicit in an `ENABLED` in the guard of the clock;
  the guard is now a formula of the state.

Induction over data is out of the prover's reach as a rule of the library. Where it is
needed over a finite set or a list (a least element, a rank), the proof takes a least
counterexample instead, by the well-foundedness of strict inclusion or of the order of the
naturals (`Extremes`, `LeastOf`, `LeastNatural`, `SumsExist`).

Assumptions: `LifecycleAssumption` (the faults are known ones, no request is `None`),
`AdmissionAssumption` (finitely many clients, a natural depth), `TemplateAssumption` (the
first version is none that a request makes), `DeliveryAssumption` (a natural number of
retries, a sequence of delays), `ArtifactsAssumption` (the faults are known ones),
`FilesAssumption` (see `WorkerFiles`), `NoneAssumption` (no job is `None`),
`ProcessAssumption` (natural limits), `RateAssumption` (positive rates and windows, as
`core/config.py` demands), `ScriptsAssumption` (requests are records of their type),
`SettingsAssumption` (a natural fade) and `LimitsAssumption`. TLC evaluates all of them in
the runs.

Only model-checked: everything temporal (`AcceptedSettles`, `FlaggedStops`, `ScheduledIsSent`,
`SaturationEnds`, `EveryTaskEnds`), since liveness under fairness and `ENABLED` are out of
the prover's reach. Every other invariant and
action property of a passing run is stated by a theorem for all values of the constants.

## 5. Plan

Built: `RenderLifecycle` with `RenderPromise`, `QueueAdmission`, `TemplateVersions` with
`TemplateHistory`, `WebhookDelivery`, `RenderArtifacts`, `WorkerFiles`, `RendererProcess`, and
`RequestPath` with the modules it extends, each with proofs. Left, in this order:

1. The schema column of templates, which drifts from the active version's schema.
2. The text of HyperFrames pages, where a source that is a prefix of another is replaced
   wrongly (`renderers/hyperframes_compiler.py:762`).

Runs are limited on purpose: a component brings one run, and what a theorem shows for all
constants is checked in a run only where it says something a reader would doubt.

## 6. Not modelled

Formatting (the wording of Editly layers, filter graphs, HTML, caption text), cryptography
and URL signing, DNS and SSRF checks, S3, media probing, settings parsing, logging, metrics,
read-only endpoints, the retry endpoint, field bounds that Pydantic checks one by one, and
`position.py`: I/O, declarative, or arithmetic on one value with no state that a model
checker could explore. ARQ, Redis, the database engine, the children's behaviour and the
webhook receiver are external and appear as their interface with the code.
