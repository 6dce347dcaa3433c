---------------------------- MODULE Compositions ----------------------------
(* The composition a client posts, as Pydantic reads it, as it is stored and  *)
(* read back, and the renderer it is sent to.                                 *)
(*                                                                            *)
(* A composition is a record.  A field the client may leave out is a set of   *)
(* at most one value.  Times are integers, in units of a quarter of a         *)
(* microsecond, so that the float noise EPSILON is there for can be told from *)
(* the rounding to micro- and milliseconds.  An asset source is a sequence of *)
(* path parts: two sources may share a prefix.                                *)
EXTENDS Integers, Sequences, FiniteSets, SequencesExt

Second  == 4000000
Epsilon == 4            \* 1e-6 seconds

Optional(S) == {option \in SUBSET S : \A v, w \in option : v = w}
Given(option, default) == IF option = {} THEN default ELSE CHOOSE v \in option : TRUE

\* Python's round() to a multiple of unit: a half goes to the even neighbour.
Rounded(x, unit) ==
    LET q == x \div unit
        r == x % unit
    IN IF 2 * r > unit \/ (2 * r = unit /\ q % 2 = 1) THEN q + 1 ELSE q

Micro(x) == Rounded(x, 4)       \* round(x, 6)
Milli(x) == Rounded(x, 4000)    \* round(x * 1000), round(x, 3)
Centi(x) == Rounded(x, 40000)   \* round(x * 100)

-----------------------------------------------------------------------------
(* What a client may post: every field has its type, and no constraint holds. *)

Source        == Seq(STRING)
AudioEffect   == {"none", "in", "out", "both"}
CaptionMode   == {"sidecar", "burn_in"}
PosterMode    == {"default", "timestamp", "percent", "disabled"}
OutputFormat  == {"mp4", "webm", "gif", "png_sequence"}
Transition    == [name : STRING, duration : Int, placement : Optional(STRING)]
Clip          == [type : {"video", "image", "text", "audio", "color", "html"},
                  src : Source, start : Int, length : Int, trim : Optional(Int),
                  effect : AudioEffect, transition : Optional(Transition),
                  transform : BOOLEAN, hex : BOOLEAN, refs : Seq(Source),
                  mentions : SUBSET Source, content : SUBSET STRING]
AudioAsset    == [src : Source, trim : Optional(Int), effect : AudioEffect]
CaptionCue    == [start : Int, end : Optional(Int), duration : Optional(Int)]
Captions      == [mode : CaptionMode, cues : Seq(CaptionCue)]
PosterOptions == [mode : PosterMode, timestamp : Optional(Int), percent : Optional(Int)]
OutputPreset  == {"tiktok", "reels", "shorts", "youtube", "square_ad", "preview_low"}
ResolutionPreset == {"r360", "r480", "r720", "r1080", "r4k"}
AspectRatio   == {"16:9", "9:16", "1:1", "4:5"}
Output        == [format : OutputFormat, preset : Optional(OutputPreset),
                  width : Optional(Int), height : Optional(Int),
                  resolution : Optional(ResolutionPreset),
                  aspect : Optional(AspectRatio), fps : Optional(Int),
                  poster : Optional(PosterOptions)]
Posted        == [tracks : Seq(Seq(Clip)), soundtrack : Optional(AudioAsset),
                  captions : Optional(Captions), output : Output,
                  renderer : Optional(STRING), hex : BOOLEAN,
                  merge : {"none", "unused", "used", "undefined", "breaks"}]

-----------------------------------------------------------------------------
(* Clips.                                                                     *)

Placement(name) == CASE name = "fade_in"  -> "in"
                     [] name = "fade_out" -> "out"
                     [] OTHER             -> "between"

TransitionReads(t) ==
    /\ t.duration > 0
    /\ t.placement \subseteq {Placement(t.name)}

ReadTransition(t) == [t EXCEPT !.placement = {Placement(t.name)}]

\* What an HTML asset must not contain; inline style and script are welcome.
Unsafe == {"blank", "null byte", "script src", "embedded page", "javascript url",
           "css import", "remote stylesheet", "remote script", "local reference"}

HtmlReads(clip) == clip.content \cap Unsafe = {}

\* A repeated reference is dropped: what is left are the first ones, in their order.
FirstRefs(refs) == {k \in DOMAIN refs : \A j \in 1..(k - 1) : refs[j] # refs[k]}

ReadRefs(refs) ==
    LET first == FirstRefs(refs)
    IN [i \in 1..Cardinality(first) |->
           refs[CHOOSE k \in first : Cardinality({j \in first : j < k}) = i - 1]]

ClipReads(clip) ==
    /\ clip.start >= 0 /\ clip.length > 0
    /\ clip.type = "html" => HtmlReads(clip)
    /\ \A t \in clip.transition : TransitionReads(t) /\ t.duration <= clip.length

ReadClip(clip) ==
    [clip EXCEPT !.transition = {ReadTransition(t) : t \in clip.transition},
                 !.refs = ReadRefs(clip.refs)]

-----------------------------------------------------------------------------
(* Captions.  A cue has an end or a duration; the model that is kept has an   *)
(* end, and still the duration it was given.                                  *)

CueEnd(cue) == Given(cue.end, cue.start + Given(cue.duration, 0))

CueReads(cue) ==
    /\ cue.start >= 0
    /\ Cardinality(cue.end) + Cardinality(cue.duration) = 1
    /\ CueEnd(cue) > cue.start

ReadCue(cue) == [cue EXCEPT !.end = {CueEnd(cue)}]

CueBefore(a, b) ==
    \/ a.start < b.start
    \/ a.start = b.start /\ CueEnd(a) < CueEnd(b)

\* Python's sorted(): cues that compare equal keep their order.
Earlier(cues, i, j) ==
    \/ CueBefore(cues[i], cues[j])
    \/ ~CueBefore(cues[j], cues[i]) /\ i < j

Place(cues, j) == Cardinality({i \in DOMAIN cues : Earlier(cues, i, j)}) + 1

CueOrder(cues) ==
    [k \in DOMAIN cues |-> CHOOSE j \in DOMAIN cues : Place(cues, j) = k]

ReadCues(cues) == [k \in DOMAIN cues |-> ReadCue(cues[CueOrder(cues)[k]])]

CuesRead(cues) ==
    /\ cues # << >>
    /\ \A k \in DOMAIN cues : CueReads(cues[k])
    /\ LET sorted == ReadCues(cues)
       IN \A k \in 2..Len(sorted) : sorted[k].start >= CueEnd(sorted[k - 1])

-----------------------------------------------------------------------------
(* Output: dimensions and frame rate from the fields, a resolution, a preset. *)

PresetTable ==
    LET Tall == [width |-> 1080, height |-> 1920, aspect |-> "9:16", fps |-> 30]
    IN [tiktok      |-> Tall, reels |-> Tall, shorts |-> Tall,
        youtube     |-> [width |-> 1920, height |-> 1080, aspect |-> "16:9", fps |-> 30],
        square_ad   |-> [width |-> 1080, height |-> 1080, aspect |-> "1:1", fps |-> 30],
        preview_low |-> [width |-> 640, height |-> 360, aspect |-> "16:9", fps |-> 24]]

ShortSide == [r360 |-> 360, r480 |-> 480, r720 |-> 720, r1080 |-> 1080, r4k |-> 2160]
LongSide  == [r360 |-> 640, r480 |-> 854, r720 |-> 1280, r1080 |-> 1920, r4k |-> 3840]

\* RESOLUTION_TABLE.
Resolution(name, aspect) ==
    LET short == ShortSide[name]
    IN CASE aspect = "16:9" -> [width |-> LongSide[name], height |-> short]
         [] aspect = "9:16" -> [width |-> short, height |-> LongSide[name]]
         [] aspect = "1:1"  -> [width |-> short, height |-> short]
         [] aspect = "4:5"  -> [width |-> short, height |-> (short * 5) \div 4]

PosterReads(poster) ==
    /\ (poster.mode = "timestamp") <=> (poster.timestamp # {})
    /\ (poster.mode = "percent") <=> (poster.percent # {})
    /\ \A t \in poster.timestamp : t >= 0
    /\ \A p \in poster.percent : p \in 0..100

OutputReads(output) ==
    /\ \A n \in output.width \cup output.height : n > 0
    /\ \A n \in output.fps : n \in 1..60
    /\ \A poster \in output.poster : PosterReads(poster)

FullHd == [width |-> 1920, height |-> 1080]

\* Where the missing dimensions come from.  With one of them given and neither
\* a resolution nor a preset, the other one stays unknown.
Dimensions(output, aspect) ==
    CASE output.resolution # {} ->
             {Resolution(Given(output.resolution, ""), Given(aspect, "16:9"))}
      [] output.resolution = {} /\ output.preset # {} ->
             {PresetTable[Given(output.preset, "")]}
      [] output.resolution = {} /\ output.preset = {} ->
             IF output.width = {} /\ output.height = {}
             THEN {FullHd} ELSE {}

ReadOutput(output) ==
    LET aspect == IF output.aspect # {} THEN output.aspect
                  ELSE {PresetTable[p].aspect : p \in output.preset}
        dims   == Dimensions(output, aspect)
    IN [output EXCEPT
            !.aspect = aspect,
            !.fps    = IF @ # {} THEN @
                       ELSE IF output.preset # {}
                            THEN {PresetTable[p].fps : p \in output.preset} ELSE {30},
            !.width  = IF @ # {} THEN @ ELSE {d.width : d \in dims},
            !.height = IF @ # {} THEN @ ELSE {d.height : d \in dims}]

-----------------------------------------------------------------------------
(* The composition.                                                           *)

Clips(c) == UNION {ToSet(c.tracks[t]) : t \in DOMAIN c.tracks}

\* Composition.model_validate(posted) raises nothing.
Reads(posted) ==
    /\ posted.tracks # << >>
    /\ \A t \in DOMAIN posted.tracks : posted.tracks[t] # << >>
    /\ \A clip \in Clips(posted) : ClipReads(clip)
    /\ \A captions \in posted.captions : CuesRead(captions.cues)
    /\ OutputReads(posted.output)

\* What it returns.
Read(posted) ==
    [posted EXCEPT
        !.tracks   = [t \in DOMAIN @ |-> [k \in DOMAIN @[t] |-> ReadClip(@[t][k])]],
        !.captions = {[captions EXCEPT !.cues = ReadCues(@)] : captions \in @},
        !.output   = ReadOutput(@)]

\* Mutant: what equals a default is left out (exclude_defaults).
DumpWithoutDefaults(composition) == [composition EXCEPT !.output.fps = @ \ {30}]

\* model_dump_json() writes every field of the model as it is: the text that is
\* stored, and validated again by whoever reads it.
Dump(composition) == composition

-----------------------------------------------------------------------------
(* The capability table.                                                      *)

HasHtml(c) == \E clip \in Clips(c) : clip.type = "html"

Renderers == {"editly", "ffmpeg-native", "hyperframes"}

\* select_renderer: none and "auto" are the same request.
Selected(c) ==
    LET asked == Given(c.renderer, "auto")
    IN IF asked # "auto" THEN asked
       ELSE IF HasHtml(c) THEN "hyperframes" ELSE "editly"

Capability ==
    [r \in Renderers |->
        [assets      |-> {"video", "image", "text", "audio", "color"}
                         \cup (IF r = "hyperframes" THEN {"html"} ELSE {}),
         transitions |-> r = "editly",
         captions    |-> r = "editly",
         poster      |-> r = "editly"]]

\* validate_renderer_capabilities raises nothing.
Capable(c) ==
    /\ Selected(c) \in Renderers
    /\ Selected(c) = "hyperframes" => HasHtml(c)
    /\ LET can == Capability[Selected(c)]
       IN /\ c.captions # {} => can.captions
          /\ c.output.poster # {} => can.poster
          /\ \A clip \in Clips(c) :
                 /\ clip.type \in can.assets
                 /\ clip.transition # {} => can.transitions
=============================================================================
