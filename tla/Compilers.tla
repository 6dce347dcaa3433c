----------------------------- MODULE Compilers ------------------------------
(* The three renderers' compile(): what each of them refuses, and what it     *)
(* makes of a composition.                                                    *)
(*   editly         cuts the timeline into segments, each with its layers and *)
(*                  perhaps a transition into the next one                    *)
(*   ffmpeg-native  overlays the clips one after the other on a canvas        *)
(*   hyperframes    writes a page with one element for every clip             *)
EXTENDS Timelines

CONSTANTS
    Settings,       \* record: normalize, fade (audio_fade_duration_seconds), poster
    Fetchable       \* the sources that can be fetched

ASSUME SettingsAssumption == Settings.fade \in Nat

\* Every source a composition names, which the asset service fetches; text is
\* drawn, colour needs nothing.
ClipSources(clip) ==
    CASE clip.type \in {"video", "image", "audio"} -> {clip.src}
      [] clip.type = "html"                        -> ToSet(clip.refs)
      [] clip.type \in {"text", "color"}           -> {}

Sources(c) == UNION {ClipSources(clip) : clip \in Clips(c)}
              \cup {s.src : s \in c.soundtrack}

-----------------------------------------------------------------------------
(* Editly.                                                                    *)

Cuts(c) == {0, VisualEnd(c)} \cup {From(c, ref) : ref \in Visual(c)}
                             \cup {To(c, ref) : ref \in Visual(c)}

\* Of times that are equal but for noise the first one stays: in ascending order a
\* time is kept unless one that was kept is just before it.
Boundaries(c) ==
    CHOOSE kept \in SUBSET Cuts(c) :
        \A t \in Cuts(c) : t \in kept <=> ~\E k \in kept : k < t /\ t - k <= Epsilon

\* Audio clips are active too; they make no layer.
Active(c, from, to) ==
    {ref \in Refs(c) : From(c, ref) < to - Epsilon /\ To(c, ref) > from + Epsilon}

\* From each boundary to the next one.
Spans(c) ==
    LET kept == Boundaries(c)
    IN {p \in kept \X kept : /\ p[1] < p[2] /\ p[2] - p[1] >= Epsilon
                             /\ ~\E k \in kept : p[1] < k /\ k < p[2]}

Segments(c) ==
    LET spans == InSequence(Spans(c), {p \in Spans(c) \X Spans(c) : p[1][1] < p[2][1]})
    IN [i \in DOMAIN spans |-> [from   |-> spans[i][1],
                                to     |-> spans[i][2],
                                active |-> Active(c, spans[i][1], spans[i][2])]]

\* Mutant: a clip with a trim starts from it in every segment.
CutOfTrim(c, ref, from) ==
    LET clip   == At(c, ref)
        offset == from - clip.start
        start  == IF clip.trim # {} THEN Given(clip.trim, 0) ELSE offset
    IN IF clip.type = "video" /\ (clip.trim # {} \/ offset > Epsilon)
       THEN {[from |-> Micro(start), to |-> Micro(start + clip.length - offset)]}
       ELSE {}

\* Mutant: a cut is as long as the clip, wherever it starts.
CutOfWhole(c, ref, from) ==
    LET clip   == At(c, ref)
        offset == from - clip.start
        start  == Given(clip.trim, 0) + offset
    IN IF clip.type = "video" /\ (clip.trim # {} \/ offset > Epsilon)
       THEN {[from |-> Micro(start), to |-> Micro(start + clip.length)]}
       ELSE {}

\* Which part of its source a video layer plays.  Without a cut it plays from
\* the beginning.
Cut(c, ref, from) ==
    LET clip   == At(c, ref)
        offset == from - clip.start
        start  == Given(clip.trim, 0) + offset
    IN IF clip.type = "video" /\ (clip.trim # {} \/ offset > Epsilon)
       THEN {[from |-> Micro(start), to |-> Micro(start + clip.length - offset)]}
       ELSE {}

Layers(c, segment) ==
    LET order == Listed(segment.active \cap Visual(c))
    IN [i \in DOMAIN order |-> [ref |-> order[i], cut |-> Cut(c, order[i], segment.from)]]

\* Mutant: an effect does not call for FFmpeg.
ExternalForClips(c) == Audible(c) # {} \/ (c.soundtrack # {} /\ Settings.normalize)

\* Detached audio, a soundtrack with an effect and normalisation are left to
\* FFmpeg, after the video.
External(c) ==
    \/ Audible(c) # {}
    \/ \E s \in c.soundtrack : s.effect # "none" \/ Settings.normalize

\* An empty list of layers is the background.  A soundtrack that Editly plays
\* loses its trim.
EditlySpec(c) ==
    LET segments == Segments(c)
    IN [clips |-> [i \in DOMAIN segments |->
            [from       |-> segments[i].from,
             duration   |-> Micro(segments[i].to - segments[i].from),
             layers     |-> Layers(c, segments[i]),
             transition |-> {p \in Plans(c) : Micro(p.boundary) = Micro(segments[i].to)}]],
        tracks |-> IF External(c) THEN {} ELSE {s.src : s \in c.soundtrack}]

EditlyRefuses(c) ==
    \/ VisualEnd(c) < Epsilon
    \/ Segments(c) = << >>
    \/ ~TransitionsFit(c)
    \/ ~External(c) /\ \E s \in c.soundtrack : s.effect # "none"

-----------------------------------------------------------------------------
(* The audio that FFmpeg mixes into the video of Editly.                      *)

SoundtrackSource(c, s) ==
    LET fade(effects) == IF s.effect \in effects THEN {Settings.fade} ELSE {}
    IN [ref |-> <<0, 0>>, delay |-> 0, trim |-> s.trim, length |-> {},
        in  |-> fade({"in", "both"}), out |-> fade({"out", "both"}),
        total |-> VisualEnd(c)]

\* Mutant: a clip keeps its length, though the video ends before it.
ClipSourceWhole(c, ref) ==
    [ref |-> ref, delay |-> Milli(From(c, ref)), trim |-> At(c, ref).trim,
     length |-> {At(c, ref).length}, in |-> {}, out |-> {},
     total |-> At(c, ref).length]

\* A clip is cut where the video ends.
ClipSource(c, ref) ==
    LET heard == Min({At(c, ref).length, VisualEnd(c) - From(c, ref)})
    IN [ref |-> ref, delay |-> Milli(From(c, ref)), trim |-> At(c, ref).trim,
        length |-> {heard}, in |-> {}, out |-> {}, total |-> heard]

\* Left out: a clip that starts when the video has ended, or that hardly lasts.
Heard(c) == {ref \in Audible(c) : /\ VisualEnd(c) - From(c, ref) > Epsilon
                                  /\ At(c, ref).length > Epsilon}

AudioPlan(c) ==
    {SoundtrackSource(c, s) : s \in c.soundtrack} \cup {ClipSource(c, ref) : ref \in Heard(c)}

\* _fade_filters: two fades share the duration, one has it for itself.
Fades(source) ==
    LET share  == IF source.in # {} /\ source.out # {}
                  THEN source.total \div 2 ELSE source.total
        within == Min({share, Settings.fade})
    IN [in  |-> IF source.in # {} THEN within ELSE 0,
        out |-> IF source.out # {} THEN within ELSE 0]

\* _validate_source, on what the plan and the models leave possible.
MixRefuses(plan) == \E source \in plan : \E trim \in source.trim : trim < 0

-----------------------------------------------------------------------------
(* The native FFmpeg renderer.                                                *)

Unfetched(c, fetched) == ~(Sources(c) \subseteq fetched)

NativeRefuses(c, fetched) ==
    \/ ~c.hex
    \/ c.captions # {} \/ c.output.poster # {}
    \/ \E clip \in Clips(c) :
           \/ clip.type = "html"
           \/ clip.transition # {}
           \/ clip.transform
           \/ clip.type = "color" /\ ~clip.hex
           \/ clip.type = "audio" /\ clip.effect # "none"
    \/ \E s \in c.soundtrack : s.effect # "none"
    \/ Unfetched(c, fetched)
    \/ VisualEnd(c) <= Epsilon

NativeLayer(c, ref) ==
    [ref |-> ref, from |-> From(c, ref), to |-> To(c, ref),
     trim |-> IF At(c, ref).type = "video" THEN Given(At(c, ref).trim, 0) ELSE 0]

NativeSound(c, ref) ==
    [ref |-> ref, delay |-> Milli(From(c, ref)), trim |-> Given(At(c, ref).trim, 0),
     length |-> Min({At(c, ref).length, Max({VisualEnd(c) - From(c, ref), 0})})]

NativeSpec(c) ==
    LET order == InOrder(c)
    IN [layers   |-> [i \in DOMAIN order |-> NativeLayer(c, order[i])],
        sounds   |-> {NativeSound(c, ref) : ref \in Audible(c)},
        tracks   |-> c.soundtrack,
        duration |-> VisualEnd(c)]

-----------------------------------------------------------------------------
(* HyperFrames.                                                               *)

\* Remote references in the markup, style or script have to be declared.
Undeclared(clip) == clip.type = "html" /\ ~(clip.mentions \subseteq ToSet(clip.refs))

HyperframesRefuses(c, fetched) ==
    \/ c.captions # {} \/ c.output.poster # {}
    \/ \E clip \in Clips(c) :
           clip.transition # {} \/ clip.transform \/ Undeclared(clip)
    \/ Unfetched(c, fetched)
    \/ ~HasHtml(c)
    \/ VisualEnd(c) <= Epsilon

HyperframesElement(c, ref) ==
    [ref |-> ref, from |-> From(c, ref), to |-> To(c, ref), z |-> ref[1]]

\* The visual clips, then the audio clips, as they stand in the page.
HyperframesSpec(c) ==
    LET order == InOrder(c) \o Listed(Audible(c))
    IN [layers   |-> [i \in DOMAIN order |-> HyperframesElement(c, order[i])],
        tracks   |-> c.soundtrack,
        duration |-> VisualEnd(c)]

-----------------------------------------------------------------------------

Refuses(renderer, c, fetched) ==
    CASE renderer = "editly"        -> EditlyRefuses(c)
      [] renderer = "ffmpeg-native" -> NativeRefuses(c, fetched)
      [] renderer = "hyperframes"   -> HyperframesRefuses(c, fetched)

Compiled(renderer, c) ==
    CASE renderer = "editly"        -> EditlySpec(c)
      [] renderer = "ffmpeg-native" -> NativeSpec(c)
      [] renderer = "hyperframes"   -> HyperframesSpec(c)
=============================================================================
