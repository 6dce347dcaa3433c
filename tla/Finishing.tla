----------------------------- MODULE Finishing ------------------------------
(* What is made of the rendered video: its captions, its poster, its format.  *)
EXTENDS Compilers

\* What the first of Editly's segments last together.
Elapsed(clips) ==
    LET upTo[n \in 0..Len(clips)] == IF n = 0 THEN 0 ELSE upTo[n - 1] + clips[n].duration
    IN upTo

\* What the renderer says the video lasts, in milliseconds: the sum of Editly's
\* segments, the timeline's end for the others.
VideoDuration(renderer, spec) ==
    IF renderer = "editly"
    THEN Rounded(Elapsed(spec.clips)[Len(spec.clips)], 1000)
    ELSE Milli(spec.duration)

-----------------------------------------------------------------------------
(* Captions.                                                                  *)

\* plan_caption_cues: the order of playback, numbered from 1.
CuePlan(captions) ==
    LET cues == captions.cues
    IN [k \in DOMAIN cues |-> [start |-> cues[CueOrder(cues)[k]].start,
                               end   |-> CueEnd(cues[CueOrder(cues)[k]])]]

\* SRT and WebVTT count milliseconds.
SidecarCues(captions) ==
    LET plan == CuePlan(captions)
    IN [k \in DOMAIN plan |-> [start |-> Milli(plan[k].start), end |-> Milli(plan[k].end)]]

\* ASS counts centiseconds.
BurnedInCues(captions) ==
    LET plan == CuePlan(captions)
    IN [k \in DOMAIN plan |-> [start |-> Centi(plan[k].start), end |-> Centi(plan[k].end)]]

\* CaptionFinishing.finish: a sidecar is written next to the video; burning in
\* replaces the video by a captioned one and leaves no sidecar.
Captioned(captions) ==
    IF captions.mode = "sidecar"
    THEN [cues |-> SidecarCues(captions), sidecar |-> TRUE]
    ELSE [cues |-> BurnedInCues(captions), sidecar |-> FALSE]

-----------------------------------------------------------------------------
(* The poster: resolve_poster_plan, in milliseconds of the video.             *)

NoPoster    == [kind |-> "none", seek |-> 0]
BadPoster   == [kind |-> "error", seek |-> 0]
PosterAt(t) == [kind |-> "seek", seek |-> t]

PosterPlan(options, duration) ==
    LET mode == IF options = {} THEN "default" ELSE Given({p.mode : p \in options}, "default")
        time == UNION {p.timestamp : p \in options}     \* in units
        part == UNION {p.percent : p \in options}
    IN CASE ~Settings.poster \/ mode = "disabled" -> NoPoster
         [] Settings.poster /\ mode = "timestamp" ->
                IF duration = 0 \/ Given(time, 0) > duration * 4000
                THEN BadPoster ELSE PosterAt(Milli(Given(time, 0)))
         [] Settings.poster /\ mode = "percent" ->
                IF duration = 0 THEN BadPoster
                ELSE PosterAt((duration * Given(part, 0)) \div 100)
         [] Settings.poster /\ mode = "default" ->
                PosterAt(IF duration > 0 THEN (duration * Settings.posterPercent) \div 100
                         ELSE 1000)

-----------------------------------------------------------------------------
(* The format.                                                                *)

Suffix == [mp4 |-> ".mp4", webm |-> ".webm", gif |-> ".gif", png_sequence |-> ".zip"]

\* plan_output_format.
OutputPlan(output) ==
    [suffix |-> Suffix[output.format], manifest |-> output.format = "png_sequence"]

\* OutputPostprocess.finish: an MP4 is the video itself, the others are made from
\* it, at the dimensions that were asked for or at the default ones.
Finished(output) ==
    [suffix |-> OutputPlan(output).suffix,
     width  |-> Given(output.width, 1920),
     height |-> Given(output.height, 1080)]
=============================================================================
