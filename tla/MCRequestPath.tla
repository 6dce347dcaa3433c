--------------------------- MODULE MCRequestPath ----------------------------
(* Families of requests: each varies one part of the composition and keeps    *)
(* the others simple.                                                         *)
EXTENDS RequestPath

S == Second

\* Clips.  Sources are sequences of parts.
Plain ==
    [type |-> "video", src |-> <<"a">>, start |-> 0, length |-> 2 * S, trim |-> {},
     effect |-> "none", transition |-> {}, transform |-> FALSE, hex |-> TRUE,
     refs |-> << >>, mentions |-> {}, content |-> {}]

Change(name, duration) == [name |-> name, duration |-> duration, placement |-> {}]

Video(start, length, trim) ==
    [Plain EXCEPT !.start = start, !.length = length, !.trim = trim]
Colour(start, length) == [Plain EXCEPT !.type = "color", !.start = start, !.length = length]
Sound(start, length, trim) ==
    [Plain EXCEPT !.type = "audio", !.src = <<"s">>, !.start = start, !.length = length,
                  !.trim = trim]
Page(refs, mentions) ==
    [Plain EXCEPT !.type = "html", !.refs = refs, !.mentions = mentions]
With(clip, t) == [clip EXCEPT !.transition = {t}]

\* Compositions.
NoOutput == [format |-> "mp4", preset |-> {}, width |-> {}, height |-> {},
             resolution |-> {}, aspect |-> {}, fps |-> {}, poster |-> {}]

Of(tracks) ==
    [tracks |-> tracks, soundtrack |-> {}, captions |-> {}, output |-> NoOutput,
     renderer |-> {}, hex |-> TRUE, merge |-> "none"]

Simple == Of(<< <<Plain>> >>)

\* One track of two clips: gaps, overlaps, noise, either order; transitions.
Pieces == {Video(0, 2 * S, {}), Video(2 * S, 3 * S, {S}), Video(2 * S + 1, 2 * S, {}),
           Video(2 * S + 3, 2 * S, {}),
           Video(S, 3 * S, {}), Colour(2 * S, S), Sound(S, 2 * S, {})}
Changes == {Change("fade_in", S), Change("fade_out", 2 * S), Change("crossfade", S)}
Moving == Pieces \cup {With(p, t) : p \in Pieces, t \in Changes}

TwoOnOne == {Of(<< <<p, q>> >>) : p, q \in Moving}
OneOnTwo == {Of(<< <<p>>, <<q>> >>) : p, q \in Moving}
TwoAndOne == {Of(<< <<p, q>>, <<r>> >>) : p, q, r \in Pieces}

\* The three renderers on the same timeline.
ByRenderer(cs) == {[c EXCEPT !.renderer = {r}] : c \in cs,
                       r \in {"editly", "ffmpeg-native"}}

\* Audio: what is mixed, and how it fades.
Tracks == {[src |-> <<"s">>, trim |-> trim, effect |-> effect] :
              trim \in {{}, {S}, {-1}}, effect \in {"none", "in", "out", "both"}}
WithSound ==
    {[Of(<< <<Video(0, len, {})>>, <<sound>> >>) EXCEPT !.soundtrack = st] :
        len \in {S, 3 * S}, sound \in {Sound(S, 3 * S, {}), Sound(0, S, {-1}), Colour(0, S)},
        st \in {{}} \cup {{t} : t \in Tracks}}

\* Nothing to see, or hardly anything.
Hardly ==
    {[Of(<< <<clip>> >>) EXCEPT !.renderer = r] :
        clip \in {Sound(0, S, {})} \cup UNION {{Colour(0, n), [Page(<< >>, {}) EXCEPT !.length = n]} :
                                                n \in {Epsilon - 1, Epsilon, Epsilon + 1}},
        r \in {{}, {"ffmpeg-native"}}}

\* Captions, posters and formats.
Cue(start, end) == [start |-> start, end |-> {end}, duration |-> {}]
Lasting(start, duration) == [start |-> start, end |-> {}, duration |-> {duration}]
CueSets == {<<Cue(0, S)>>, <<Cue(S, 2 * S), Cue(0, S)>>, <<Lasting(0, S)>>,
            <<Cue(0, 22000), Cue(22000, 23000)>>, <<Cue(0, 2 * S), Cue(S, 2 * S)>>,
            <<Cue(0, 2001), Cue(2001, 60001), Cue(60001, S)>>, <<Cue(S, 4 * S)>>}
Still(m, t, p) == [mode |-> m, timestamp |-> t, percent |-> p]
Posters == {Still("default", {}, {}), Still("disabled", {}, {}),
            Still("timestamp", {S}, {}), Still("timestamp", {3 * S}, {}),
            Still("timestamp", {}, {50}), Still("percent", {}, {50}),
            Still("percent", {S}, {50})}
Captioning == {[mode |-> m, cues |-> cues] : m \in {"sidecar", "burn_in"}, cues \in CueSets}
Decorated ==
    {[Of(<< <<Video(0, 2 * S + 2000, {})>>, <<Sound(0, 3 * S, {})>> >>) EXCEPT
        !.captions = cs, !.output.poster = ps, !.merge = m] :
        cs \in {{}} \cup {{x} : x \in Captioning}, ps \in {{}} \cup {{x} : x \in Posters},
        m \in {"none", "used"}}
Merging == {[Simple EXCEPT !.merge = m] : m \in {"unused", "undefined", "breaks"}}
           \cup {[Simple EXCEPT !.renderer = {"ffmpeg-native"}, !.output.poster = ps,
                                !.captions = cs] :
                    ps \in {{}, {Still("disabled", {}, {})}},
                    cs \in {{}, {[mode |-> "sidecar", cues |-> <<Cue(0, S)>>]}}}

Outputs ==
    {[NoOutput EXCEPT !.format = f, !.preset = p, !.width = w, !.resolution = r,
                      !.aspect = a, !.fps = n] :
        f \in {"mp4", "webm", "gif", "png_sequence"}, p \in {{}, {"preview_low"}, {"tiktok"}},
        w \in {{}, {320}}, r \in {{}, {"r360"}}, a \in {{}, {"4:5"}}, n \in {{}, {10}, {30}}}
Shaped == {[Simple EXCEPT !.output = o] : o \in Outputs}

\* HTML pages and what the renderers refuse.
Pages == {Page(refs, mentions) :
             refs \in {<< >>, << <<"u">> >>, << <<"u">>, <<"u">> >>, << <<"gone">> >>},
             mentions \in {{}, {<<"u">>}}}
         \cup {[Page(<< >>, {}) EXCEPT !.content = {"script src"}],
               [Page(<< >>, {}) EXCEPT !.content = {"inline script"}]}
Odd == Pages \cup {[Plain EXCEPT !.transform = TRUE], [Plain EXCEPT !.src = <<"gone">>],
                   [Colour(0, S) EXCEPT !.hex = FALSE], [Plain EXCEPT !.length = 0],
                   [Sound(0, S, {}) EXCEPT !.effect = "in"], [Plain EXCEPT !.type = "image"],
                   [Plain EXCEPT !.type = "text"], With(Plain, Change("fade_out", 3 * S))}
Unusual ==
    {[Of(<< <<odd, Video(3 * S, S, {})>> >>) EXCEPT !.renderer = r, !.hex = h] :
        odd \in Odd, h \in BOOLEAN,
        r \in {{}, {"auto"}, {"editly"}, {"ffmpeg-native"}, {"hyperframes"}, {"other"}}}

Postings == TwoOnOne \cup OneOnTwo \cup ByRenderer(TwoAndOne) \cup WithSound \cup Hardly
            \cup Decorated \cup Merging \cup Shaped \cup Unusual

\* A posting comes alone; the limiter sees up to four requests of little else.
Ask(route, key, size, body) == [route |-> route, key |-> key, size |-> size, body |-> body]
Cheap == {Ask("other", "known", 1, Simple), Ask("renders", "none", 1, Simple),
          Ask("renders", "unknown", 1, Simple), Ask("renders", "known", 2, Simple),
          Ask("template", "known", 3, Simple)}

MCScripts ==
    {<<Ask("renders", "known", 1, body)>> : body \in Postings}
    \cup {<<Ask("template", "known", 1, body)>> : body \in Decorated \cup Merging \cup Unusual}
    \cup BoundedSeq(Cheap, 4)

MCRates == [render |-> [max |-> 1, window |-> 1], default |-> [max |-> 2, window |-> 2]]
MCBodyLimits == [renders |-> 1, template |-> 2, other |-> 1]
MCSettings == [auth |-> TRUE, normalize |-> FALSE, fade |-> S, poster |-> TRUE,
               posterPercent |-> 10]
MCFetchable == {<<"a">>, <<"s">>, <<"u">>}
MCLimits == [duration |-> 6 * S, width |-> 1920, height |-> 1920, fps |-> 30, tracks |-> 2,
             clips |-> 3, assets |-> 3, gifDuration |-> 4 * S, gifFps |-> 15,
             gifPixels |-> 640 * 360, pngDuration |-> 4 * S, pngFps |-> 30,
             pngFrames |-> 60, pngPixels |-> 640 * 360, cues |-> 3, mediaRefs |-> 2]
=============================================================================
