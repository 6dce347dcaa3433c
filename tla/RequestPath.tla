---------------------------- MODULE RequestPath -----------------------------
(* A request from its first byte to the finished render: the middlewares, the *)
(* key, the models, the capability table and the limits of the API; what is   *)
(* stored and read back; the stages of the render service.  The algorithms    *)
(* are in the modules this one extends.  What goes wrong around them (crashes,*)
(* timeouts, storage, a subprocess that fails) is in RenderLifecycle,         *)
(* RenderArtifacts and RendererProcess: here only the request decides.        *)
EXTENDS Finishing

CONSTANTS
    Scripts,        \* sequences of requests that arrive, one after the other
    Rates,          \* bucket -> [max, window]: rate_limit_render_create, _default
    BodyLimits,     \* route -> the settings max_*_request_body_bytes
    MaxNow          \* bound of the clock, in half seconds

Buckets == {"render", "default"}

ASSUME RateAssumption ==
    \A b \in Buckets : Rates[b].max \in Nat \ {0} /\ Rates[b].window \in Nat \ {0}

Request == [route : {"renders", "template", "other"}, key : STRING, size : Nat,
            body : Posted]

ASSUME ScriptsAssumption == Scripts \subseteq Seq(Request)

VARIABLES
    mode,           \* render_mode
    todo, now,      \* the requests to come, and the clock
    tokens,         \* bucket -> the times of the tokens it holds, oldest first
    granted,        \* history: bucket -> the times at which it let a request pass
    refused,        \* history: what the clients that were refused were told
    pc, request,    \* of the request that is under way
    composition,    \* as the code at pc sees it
    stored,         \* the input artifact
    spec,           \* what the renderer's compile() returned
    finished,       \* what was made of the video
    outcome         \* of the request

vars == <<mode, todo, now, tokens, granted, refused, pc, request, composition,
          stored, spec, finished, outcome>>

None == [none |-> TRUE]

Init ==
    /\ mode \in {"async", "sync"}
    /\ todo \in Scripts
    /\ now = 0
    /\ tokens = [b \in Buckets |-> << >>]
    /\ granted = [b \in Buckets |-> << >>]
    /\ refused = {}
    /\ pc = "idle"
    /\ request = None /\ composition = None /\ stored = None /\ spec = None
    /\ finished = None
    /\ outcome = "none"

limiter == <<tokens, granted, refused>>
work == <<composition, stored, spec, finished>>

\* The request leaves the stage at `from`, for the next one or for good.
Go(from, to) ==
    /\ pc = from /\ pc' = to
    /\ outcome' = outcome
    /\ UNCHANGED <<mode, todo, now, request>>

End(from, what) ==
    /\ pc = from /\ pc' = "idle"
    /\ outcome' = what
    /\ UNCHANGED <<mode, todo, now, request>>

-----------------------------------------------------------------------------
(* The middlewares.                                                           *)

\* The clock starts with the first request; only differences of times matter.
Tick ==
    /\ pc = "idle" /\ todo # << >> /\ outcome # "none" /\ now < MaxNow
    /\ now' = now + 1
    /\ UNCHANGED <<mode, todo, limiter, pc, request, work, outcome>>

Arrive ==
    /\ pc = "idle" /\ todo # << >>
    /\ request' = Head(todo) /\ todo' = Tail(todo)
    /\ pc' = "body" /\ outcome' = "none"
    /\ UNCHANGED <<mode, now, limiter, work>>

\* RequestBodyLimitMiddleware, by the declared length or by what is received.
TooLarge ==
    /\ pc = "body"
    /\ request.size > BodyLimits[request.route]
    /\ End("body", "413")
    /\ UNCHANGED <<limiter, work>>

BodyReceived ==
    /\ pc = "body"
    /\ request.size <= BodyLimits[request.route]
    /\ Go("body", "rate")
    /\ UNCHANGED <<limiter, work>>

\* Only POST /v1/renders creates a render in the eyes of the limiter.
Bucket(r) == IF r.route = "renders" THEN "render" ELSE "default"

\* What the filter keeps of the tokens is at their end: they came in order of time.
Live(b) ==
    LET kept == {i \in DOMAIN tokens[b] : now - tokens[b][i] < 2 * Rates[b].window}
    IN IF kept = {} THEN << >> ELSE SubSeq(tokens[b], Min(kept), Len(tokens[b]))

\* Mutant: one request more than the rate passes.
FullOverByOne(b) == Len(Live(b)) > Rates[b].max

Full(b) == Len(Live(b)) >= Rates[b].max

\* Mutant: the fraction of the second is lost.
RetryRoundedDown(b) == (2 * Rates[b].window - (now - Head(Live(b)))) \div 2

\* int(window - (now - oldest)) + 1, in seconds.
RetryAfter(b) == (2 * Rates[b].window - (now - Head(Live(b)))) \div 2 + 1

\* RateLimitMiddleware, under its lock.
Limited ==
    LET b == Bucket(request)
    IN /\ pc = "rate"
       /\ Full(b)
       /\ End("rate", "429")
       /\ tokens' = [tokens EXCEPT ![b] = Live(b)]
       /\ refused' = refused \cup {[bucket |-> b, at |-> now, retry |-> RetryAfter(b),
                                    held |-> Live(b)]}
       /\ UNCHANGED <<granted, work>>

Passed ==
    LET b == Bucket(request)
    IN /\ pc = "rate"
       /\ ~Full(b)
       /\ Go("rate", "key")
       /\ tokens' = [tokens EXCEPT ![b] = Append(Live(b), now)]
       /\ granted' = [granted EXCEPT ![b] = Append(@, now)]
       /\ UNCHANGED <<refused, work>>

\* require_api_key: missing or blank, unknown, known; or not asked for.
Unauthorized ==
    /\ pc = "key"
    /\ Settings.auth /\ request.key # "known"
    /\ End("key", IF request.key = "unknown" THEN "403" ELSE "401")
    /\ UNCHANGED <<limiter, work>>

Authorized ==
    /\ pc = "key"
    /\ Settings.auth => request.key = "known"
    /\ IF request.route = "other" THEN End("key", "200") ELSE Go("key", "read")
    /\ UNCHANGED <<limiter, work>>

-----------------------------------------------------------------------------
(* The API handlers, create_render and render_template.                       *)

\* What the handler parses.  A template was parsed when it was created, and its
\* stored composition, expanded, is parsed again.
Body(r) == IF r.route = "template" THEN Dump(Read(r.body)) ELSE r.body

Unreadable ==
    /\ pc = "read"
    /\ ~Reads(request.body) \/ ~Reads(Body(request))
    /\ End("read", "422")
    /\ UNCHANGED <<limiter, work>>

Readable ==
    /\ pc = "read"
    /\ Reads(request.body) /\ Reads(Body(request))
    /\ Go("read", "check")
    /\ composition' = Read(Body(request))
    /\ UNCHANGED <<limiter, stored, spec, finished>>

\* render_template does not ask the capability table.
Acceptable(c) ==
    /\ request.route = "renders" => Capable(c)
    /\ Within(c)

Rejected ==
    /\ pc = "check" /\ ~Acceptable(composition)
    /\ End("check", "rejected")
    /\ UNCHANGED <<limiter, work>>

\* In asynchronous mode the row is queued and a worker reads the stored input; in
\* synchronous mode create_render runs the pipeline, and render_template does not.
Accepted ==
    /\ pc = "check" /\ Acceptable(composition)
    /\ IF mode = "async" THEN Go("check", "stored")
       ELSE IF request.route = "renders" THEN Go("check", "expand")
       ELSE End("check", "queued")
    /\ stored' = IF mode = "async" \/ request.route = "template"
                 THEN Dump(composition) ELSE stored
    /\ UNCHANGED <<limiter, composition, spec, finished>>

-----------------------------------------------------------------------------
(* The worker and the stages.                                                 *)

\* run_render_job: the same questions once more, of what was stored.
Reload ==
    /\ pc = "stored"
    /\ IF ~Reads(stored) THEN End("stored", "failed")
       ELSE IF Capable(Read(stored)) /\ Within(Read(stored)) THEN Go("stored", "expand")
       ELSE End("stored", "failed")
    /\ composition' = IF Reads(stored) THEN Read(stored) ELSE composition
    /\ UNCHANGED <<limiter, stored, spec, finished>>

\* stage_validate_and_expand: a substitution makes another text, which is parsed.
Expand ==
    /\ pc = "expand"
    /\ \/ /\ composition.merge \in {"none", "unused"}
          /\ Go("expand", "compile")
          /\ composition' = composition
       \/ /\ composition.merge = "used" /\ Reads(Dump(composition))
          /\ Go("expand", "compile")
          /\ composition' = Read(Dump(composition))
       \/ /\ \/ composition.merge \in {"undefined", "breaks"}
             \/ composition.merge = "used" /\ ~Reads(Dump(composition))
          /\ End("expand", "failed")
          /\ composition' = composition
    /\ UNCHANGED <<limiter, stored, spec, finished>>

\* stage_resolve_and_compile.
CompileFails ==
    /\ pc = "compile"
    /\ \/ ~Capable(composition)
       \/ ~(Sources(composition) \subseteq Fetchable)
       \/ Refuses(Selected(composition), composition, Fetchable)
    /\ End("compile", "failed")
    /\ UNCHANGED <<limiter, work>>

Compile ==
    /\ pc = "compile"
    /\ Capable(composition)
    /\ Sources(composition) \subseteq Fetchable
    /\ ~Refuses(Selected(composition), composition, Fetchable)
    /\ Go("compile", "render")
    /\ spec' = Compiled(Selected(composition), composition)
    /\ UNCHANGED <<limiter, composition, stored, finished>>

\* Editly leaves the audio to FFmpeg, when there is any left to mix.
Mixed(c) ==
    IF Selected(c) = "editly" /\ External(c) THEN AudioPlan(c) ELSE {}

Render ==
    /\ pc = "render"
    /\ IF MixRefuses(Mixed(composition)) THEN End("render", "failed")
       ELSE Go("render", "finish")
    /\ UNCHANGED <<limiter, work>>

Finish ==
    /\ Go("finish", "poster")
    /\ finished' = [video    |-> Finished(composition.output),
                    captions |-> {Captioned(captions) : captions \in composition.captions}]
    /\ UNCHANGED <<limiter, composition, stored, spec>>

\* An error of the plan ends the render, though its output is published.
Poster ==
    /\ pc = "poster"
    /\ End("poster", IF PosterPlan(composition.output.poster,
                                   VideoDuration(Selected(composition), spec)) = BadPoster
                     THEN "failed" ELSE "succeeded")
    /\ UNCHANGED <<limiter, work>>

Done == pc = "idle" /\ todo = << >> /\ UNCHANGED vars

Next ==
    \/ Tick \/ Arrive
    \/ TooLarge \/ BodyReceived \/ Limited \/ Passed \/ Unauthorized \/ Authorized
    \/ Unreadable \/ Readable \/ Rejected \/ Accepted
    \/ Reload \/ Expand \/ CompileFails \/ Compile \/ Render \/ Finish \/ Poster
    \/ Done

Spec == Init /\ [][Next]_vars

-----------------------------------------------------------------------------
(* Properties.                                                                *)

\* The rate is kept in every window, wherever it starts (_is_rate_limited drops
\* the old tokens and adds the new one in one step).
WindowKept ==
    \A b \in Buckets : \A i \in DOMAIN granted[b] :
        Cardinality({k \in 1..i : granted[b][i] - granted[b][k] < 2 * Rates[b].window})
            <= Rates[b].max

\* A client that was refused and waits for as long as Retry-After says finds a
\* token free, unless somebody else behind the same address has taken it.
RetrySuffices ==
    \A r \in refused :
        Cardinality({i \in DOMAIN r.held :
                        r.at + 2 * r.retry - r.held[i] < 2 * Rates[r.bucket].window})
            < Rates[r.bucket].max

\* What is stored and read back, by the worker and after the expansion of merge
\* variables, is what the API accepted (presets, aliases, cue order and defaults
\* resolve once).
ReadBackUnchanged ==
    pc \in {"compile", "render", "finish", "poster"} =>
        composition = Read(request.body)

\* What may still fail once the API has said yes, of a composition that nothing
\* else than itself can make fail.  Each of these is a gap between what the API
\* checks and what a later stage needs.
SameForAll(c) ==
    \/ VisualEnd(c) <= Epsilon                 \* nothing to see, or hardly anything
    \/ ~(Sources(c) \subseteq Fetchable)
    \/ c.merge \in {"undefined", "breaks"}
    \/ /\ \E captions \in c.captions : \E cue \in ToSet(captions.cues) : cue.duration # {}
       /\ mode = "async" \/ c.merge = "used"
    \/ request.route = "template" /\ ~Capable(c)

\* How much shorter than its timeline a video of Editly may be said to be: what
\* is lost to the noise of its end, to the rounding of each of its segments and to
\* that of their sum.
Slack(c) == 2 * Epsilon + 2 * Len(Segments(c)) + 2000

NeedsMore(c) ==
    CASE Selected(c) = "editly" ->
             \/ c.output.poster # {} /\ VisualEnd(c) < Slack(c)
             \/ \E poster \in c.output.poster : \E t \in poster.timestamp :
                    t > VisualEnd(c) - Slack(c)
             \/ External(c) /\ \E trim \in UNION ({s.trim : s \in c.soundtrack}
                    \cup {clip.trim : clip \in {x \in Clips(c) : x.type = "audio"}}) : trim < 0
      [] Selected(c) = "ffmpeg-native" ->
             \/ ~c.hex \/ \E s \in c.soundtrack : s.effect # "none"
             \/ \E clip \in Clips(c) : clip.transform \/ ~clip.hex \/ clip.effect # "none"
      [] Selected(c) = "hyperframes" ->
             \E clip \in Clips(c) : clip.transform \/ Undeclared(clip)
      [] OTHER -> TRUE

\* An accepted composition without one of these gaps is rendered: the stages ask
\* for nothing that the API has not asked for.
AcceptedRenders ==
    outcome = "failed" =>
        SameForAll(Read(request.body)) \/ NeedsMore(Read(request.body))

\* Editly's segments show each clip for its length, in one piece, up to the noise of
\* its two ends and the rounding of each segment.  A video starts at its trim, and
\* each segment after that starts it from where the timeline has got to in it; every
\* cut ends where the clip ends in its source, be it far behind the segment.
Shown(ref) == {i \in DOMAIN spec.clips : \E layer \in ToSet(spec.clips[i].layers) :
                                            layer.ref = ref}

CutOf(i, ref) == (CHOOSE layer \in ToSet(spec.clips[i].layers) : layer.ref = ref).cut

StartsAt(i, ref) == Given({cut.from : cut \in CutOf(i, ref)}, 0)

Near(x, y, distance) == y - distance <= x /\ x <= y + distance

EditlyDone == pc = "render" /\ Selected(composition) = "editly"

ShownFor(ref) ==
    IF Shown(ref) = {} THEN 0
    ELSE Elapsed(spec.clips)[Max(Shown(ref))] - Elapsed(spec.clips)[Min(Shown(ref)) - 1]

ClipsPlayThrough ==
    EditlyDone =>
        \A ref \in Visual(composition) :
            LET clip  == At(composition, ref)
                begin == Given(clip.trim, 0)
                noise == 2 * Epsilon + 2 * Cardinality(Shown(ref))
            IN /\ Shown(ref) = {} \/ Shown(ref) = Min(Shown(ref))..Max(Shown(ref))
               /\ Near(4 * ShownFor(ref), clip.length, noise)
               /\ clip.type = "video" => \A i \in Shown(ref) :
                      /\ i - 1 \in Shown(ref) \/ Near(4 * StartsAt(i, ref), begin, Epsilon + 2)
                      /\ i + 1 \in Shown(ref) =>
                             Near(StartsAt(i + 1, ref),
                                  StartsAt(i, ref) + spec.clips[i].duration, 2)
                      /\ \A cut \in CutOf(i, ref) : Near(4 * cut.to, begin + clip.length, 2)

\* Every transition of an accepted composition is on one segment, except a fade-in at
\* the start of the timeline and one whose boundary was given up for another one that
\* rounds differently; no segment has two.  Where the boundary was kept, it is that
\* of the clip: the segment after a fade-in, before another transition, shows it.
Survives(b) == \E k \in Boundaries(composition) : k > 0 /\ Micro(k) = Micro(b)

TransitionsLand ==
    EditlyDone =>
        /\ \A i \in DOMAIN spec.clips : Cardinality(spec.clips[i].transition) <= 1
        /\ \A ref \in Visual(composition) : \A t \in At(composition, ref).transition :
               LET on == {i \in DOMAIN spec.clips : \E p \in spec.clips[i].transition :
                                                      p.ref = ref /\ p.duration = t.duration}
                   b  == Boundary(composition, ref, t)
               IN IF Plannable(composition, ref, t) /\ Survives(b)
                  THEN \E i \in on :
                          /\ on = {i}
                          /\ (/\ b \in Boundaries(composition)
                              /\ At(composition, ref).length > Epsilon) =>
                                 (IF Placement(t.name) = "in" THEN i + 1 ELSE i) \in Shown(ref)
                  ELSE /\ on = {}
                       /\ Placement(t.name) # "in" => ~Survives(b)

\* Where the clips of every track are listed in the order of their starts, Editly
\* and the native renderer show the same clips, one over the other in the same order,
\* at the middle of every segment that is longer than the noise of its two ends.
SortedTracks(c) ==
    \A a, b \in Visual(c) :
        a[1] = b[1] /\ a[2] < b[2] => Micro(From(c, a)) <= Micro(From(c, b))

ShownAt(layers, moment) ==
    {l.ref : l \in {x \in ToSet(layers) : x.from <= moment /\ moment < x.to}}

Over(layers, above, below) ==
    \E i, j \in DOMAIN layers : i < j /\ layers[i].ref = below /\ layers[j].ref = above

RenderersAgree ==
    pc = "render" /\ ~HasHtml(composition) /\ SortedTracks(composition) =>
        \A s \in ToSet(Segments(composition)) : s.to - s.from > 2 * Epsilon =>
            LET moment == (s.from + s.to) \div 2
                editly == Layers(composition, s)
                native == NativeSpec(composition).layers
                shown  == {l.ref : l \in ToSet(editly)}
            IN /\ shown = ShownAt(native, moment)
               /\ \A a, b \in shown : Over(editly, a, b) <=> Over(native, a, b)

\* Nothing that FFmpeg mixes in is heard after the video has ended, up to the
\* rounding of its delay, and a fade-out starts when the fade-in is over.
MixFits ==
    EditlyDone =>
        \A source \in Mixed(composition) :
            /\ \A length \in source.length :
                   /\ length > 0
                   /\ source.delay * 4000 + length <= VisualEnd(composition) + 2000
            /\ LET fades == Fades(source)
               IN fades.in + fades.out <= source.total

\* Refuted: a composition that the API has accepted and stored can be read back
\* (a caption cue given by its duration is accepted, tests/test_composition_schema.py).
AcceptedIsReadable == pc = "stored" => Reads(stored)
=============================================================================
