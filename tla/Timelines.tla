----------------------------- MODULE Timelines ------------------------------
(* What the renderers and the limits share about the timeline of a            *)
(* composition: its clips in order, its duration, the transitions planned at  *)
(* its boundaries, and the limits it is held to.                              *)
EXTENDS Compositions

CONSTANTS
    Limits      \* the settings a composition is compared with, a record

ASSUME LimitsAssumption == \A field \in DOMAIN Limits : Limits[field] \in Nat

\* A clip is referred to by its track and its place in it.
Refs(c) == UNION {{<<t, k>> : k \in DOMAIN c.tracks[t]} : t \in DOMAIN c.tracks}
At(c, ref) == c.tracks[ref[1]][ref[2]]
From(c, ref) == At(c, ref).start
To(c, ref) == At(c, ref).start + At(c, ref).length

Visual(c) == {ref \in Refs(c) : At(c, ref).type # "audio"}
Audible(c) == Refs(c) \ Visual(c)

\* The elements of a finite set as a set of pairs orders them, a strict order: each
\* one has as many before it as there are.
InSequence(S, before) ==
    [k \in 1..Cardinality(S) |->
        CHOOSE x \in S : Cardinality({y \in S : <<y, x>> \in before}) + 1 = k]

\* Track by track, as the clips are listed.
ListedBefore(a, b) == a[1] < b[1] \/ (a[1] = b[1] /\ a[2] < b[2])

Listed(refs) ==
    InSequence(refs, {p \in refs \X refs : ListedBefore(p[1], p[2])})

\* compute_total_duration: audio does not count.
VisualEnd(c) == Max({0} \cup {To(c, ref) : ref \in Visual(c)})

\* Mutant: by start alone, whatever the track.
StartsBeforeOnAnyTrack(c, a, b) ==
    \/ Micro(From(c, a)) < Micro(From(c, b))
    \/ Micro(From(c, a)) = Micro(From(c, b)) /\ ListedBefore(a, b)

\* Track by track, and by start within a track.
StartsBefore(c, a, b) ==
    \/ a[1] < b[1]
    \/ /\ a[1] = b[1]
       /\ \/ Micro(From(c, a)) < Micro(From(c, b))
          \/ Micro(From(c, a)) = Micro(From(c, b)) /\ a[2] < b[2]

\* iter_visual_clip_refs.
InOrder(c) ==
    InSequence(Visual(c), {p \in Visual(c) \X Visual(c) : StartsBefore(c, p[1], p[2])})

-----------------------------------------------------------------------------
(* Transitions.                                                               *)

Siblings(c, ref) == {other \in Visual(c) : other[1] = ref[1] /\ other # ref}

Overlapping(c, ref) ==
    {other \in Siblings(c, ref) : /\ From(c, other) < To(c, ref) - Epsilon
                                  /\ To(c, other) > From(c, ref) + Epsilon}

Successors(c, ref) ==
    {other \in Siblings(c, ref) : LET gap == From(c, other) - To(c, ref)
                                  IN -Epsilon < gap /\ gap < Epsilon}

\* _append_between_plan finds nothing to object to.
BetweenFits(c, ref, transition) ==
    /\ Overlapping(c, ref) = {}
    /\ Cardinality(Successors(c, ref)) = 1
    /\ \A next \in Successors(c, ref) :
           transition.duration <= At(c, next).length + Epsilon

\* Mutant: a fade-in is planned at the end of its clip.
BoundaryAtEnd(c, ref, transition) == To(c, ref)

\* The boundary a transition belongs to: a fade-in starts its clip, the others
\* end it.
Boundary(c, ref, transition) ==
    IF Placement(transition.name) = "in" THEN From(c, ref) ELSE To(c, ref)

\* A fade-in at the very start of the timeline is dropped.
Plannable(c, ref, transition) ==
    CASE Placement(transition.name) = "in"      -> From(c, ref) > Epsilon
      [] Placement(transition.name) = "out"     -> TRUE
      [] Placement(transition.name) = "between" -> BetweenFits(c, ref, transition)

Plans(c) ==
    UNION {{[boundary |-> Boundary(c, ref, t), ref |-> ref, duration |-> t.duration] :
               t \in {u \in At(c, ref).transition : Plannable(c, ref, u)}} :
           ref \in Visual(c)}

\* validate_transition_semantics returns no issue.
TransitionsFit(c) ==
    /\ \A ref \in Audible(c) : At(c, ref).transition = {}
    /\ \A ref \in Visual(c) : \A t \in At(c, ref).transition :
           Placement(t.name) = "between" => BetweenFits(c, ref, t)
    /\ \A p, q \in Plans(c) : Micro(p.boundary) = Micro(q.boundary) => p = q

-----------------------------------------------------------------------------
(* Limits.                                                                    *)

\* summarize_composition: audio does count here, and an unknown dimension is 0.
Stats(c) ==
    [duration |-> Max({0} \cup {To(c, ref) : ref \in Refs(c)}),
     width    |-> Given(c.output.width, 0),
     height   |-> Given(c.output.height, 0),
     fps      |-> Given(c.output.fps, 30),
     tracks   |-> Len(c.tracks),
     clips    |-> Cardinality(Refs(c)),
     assets   |-> Cardinality({ref \in Refs(c) : At(c, ref).type # "color"})
                  + FoldSet(LAMBDA ref, n : n + Len(At(c, ref).refs), 0,
                            {ref \in Refs(c) : At(c, ref).type = "html"})
                  + Cardinality(c.soundtrack)]

\* math.ceil(duration * fps).
Frames(duration, fps) ==
    (duration \div Second) * fps
    + ((duration % Second) * fps + Second - 1) \div Second

FormatWithin(c) ==
    LET s == Stats(c)
    IN /\ c.output.format = "gif" =>
              /\ s.duration <= Limits.gifDuration
              /\ s.fps <= Limits.gifFps
              /\ s.width * s.height <= Limits.gifPixels
       /\ c.output.format = "png_sequence" =>
              /\ s.duration <= Limits.pngDuration
              /\ s.fps <= Limits.pngFps
              /\ Frames(s.duration, s.fps) <= Limits.pngFrames
              /\ s.width * s.height <= Limits.pngPixels

CaptionsWithin(c) ==
    \A captions \in c.captions :
        /\ Len(captions.cues) <= Limits.cues
        /\ \A cue \in ToSet(captions.cues) : CueEnd(cue) <= Stats(c).duration

PosterWithin(c) ==
    \A poster \in c.output.poster :
        poster.mode = "timestamp" =>
            \A t \in poster.timestamp : t <= Stats(c).duration

HtmlWithin(c) ==
    \A clip \in Clips(c) : clip.type = "html" => Len(clip.refs) <= Limits.mediaRefs

\* validate_composition_limits raises nothing.
Within(c) ==
    /\ \A field \in DOMAIN Stats(c) : Stats(c)[field] <= Limits[field]
    /\ FormatWithin(c)
    /\ CaptionsWithin(c)
    /\ PosterWithin(c)
    /\ HtmlWithin(c)
    /\ TransitionsFit(c)
=============================================================================
