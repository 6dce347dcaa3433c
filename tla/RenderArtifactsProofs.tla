----------------------- MODULE RenderArtifactsProofs -----------------------
(***************************************************************************)
(* What RenderArtifacts says of the artifacts and columns of a render      *)
(* holds for every path, every composition and every set of faults.        *)
(*                                                                         *)
(* The sequences of awaits matter to the argument in two ways only: which  *)
(* awaits are still due, and in which order they come.  Due is the set of  *)
(* the first; the second is one order of all awaits, Rank, that every      *)
(* sequence of the module respects (Ordered).  A step takes the due await  *)
(* of least rank.  Everything else is said about Due: an artifact that an  *)
(* await is going to name is published or due to be published, and so on.  *)
(***************************************************************************)
EXTENDS RenderArtifacts, FiniteSetTheorems, TLAPS

\* One order of the awaits, respected by the pipeline, the clean-ups of its handlers
\* and both epilogues.
Rank(do, about) ==
    CASE do = "workspace" -> 1
      [] do = "check"     -> (CASE about = "fetching" -> 2   [] about = "compiling" -> 12
                                  [] about = "rendering" -> 23 [] OTHER -> 43)
      [] do = "status"    -> (CASE about = "fetching" -> 3   [] about = "compiling" -> 13
                                  [] about = "rendering" -> 24 [] about = "uploading" -> 44
                                  [] about = "succeeded" -> 45 [] about = "cancelled" -> 46
                                  [] OTHER -> 47)
      [] do = "write"     -> (CASE about = "input.json" -> 4 [] about = "expanded.json" -> 8
                                  [] about = "media" -> 17     [] about = "spec" -> 19
                                  [] OTHER -> 40)
      [] do = "publish"   -> (CASE about = "input" -> 5      [] about = "expanded" -> 9
                                  [] about = "compiled" -> 20  [] about = "replay" -> 21
                                  [] about = "output" -> 31    [] about = "manifest" -> 32
                                  [] about = "sidecar" -> 34   [] about = "poster" -> 38
                                  [] OTHER -> 41)
      [] do = "name"      -> (CASE about = "input" -> 6      [] about = "expanded" -> 10
                                  [] about = "source" -> 11    [] about = "compiled" -> 22
                                  [] OTHER -> 42)
      [] do = "work"      -> (CASE about = "merge" -> 7      [] about = "capabilities" -> 14
                                  [] about = "assets" -> 16    [] about = "compile" -> 18
                                  [] about = "render" -> 28    [] about = "captions" -> 29
                                  [] about = "postprocess" -> 30 [] about = "poster_plan" -> 36
                                  [] OTHER -> 37)
      [] do = "renderer"  -> 15
      [] do = "clear"     -> (CASE about = "output" -> 25    [] about = "captions" -> 26
                                  [] OTHER -> 27)
      [] do = "describe"  -> (CASE about = "output" -> 33    [] about = "captions" -> 35
                                  [] OTHER -> 39)
      [] do = "done"      -> 48
      [] do = "cleanup"   -> 49
      [] OTHER            -> 50

\* The awaits there are.
Statuses == {"fetching", "compiling", "rendering", "uploading"} \cup Terminal

Known(a) ==
    \/ a.do = "workspace" /\ a.about = "workspace"
    \/ a.do = "check" /\ a.about \in {"fetching", "compiling", "rendering", "uploading"}
    \/ a.do = "status" /\ a.about \in Statuses
    \/ a.do = "write" /\ a.about \in Files
    \/ a.do = "publish" /\ a.about \in Artifacts
    \/ a.do = "name" /\ a.about \in {"input", "expanded", "source", "compiled", "log"}
    \/ a.do = "work" /\ a.about \in {"merge", "capabilities", "assets", "compile", "render",
                                     "captions", "postprocess", "poster_plan", "poster"}
    \/ a.do = "renderer" /\ a.about = "renderer"
    \/ a.do \in {"clear", "describe"} /\ a.about \in {"output", "captions", "poster"}
    \/ a.do = "done" /\ a.about \in {"pipeline", "cancelled"}
    \/ a.do = "cleanup" /\ a.about \in {"all", "temporary"}
    \/ a.do = "fail"

\* Only the epilogue tolerates failures, and these are all of its awaits.
InPipeline(a) == ~a.soft /\ a.do # "cleanup" /\ ~(a.do = "status" /\ a.about = "failed")

InEpilogue(a) ==
    \/ a.do = "write" /\ a.about = "logs.txt" /\ (a.soft \/ options.path = "sync")
    \/ a.do \in {"publish", "name"} /\ a.about = "log" /\ a.soft
    \/ a.do = "status" /\ a.about = "failed"
    \/ a.do \in {"renderer", "cleanup"} /\ ~a.soft

Ordered ==
    /\ Pending \subseteq Nat
    /\ \A i, j \in Pending :
           i < j => Rank(todo[i].do, todo[i].about) < Rank(todo[j].do, todo[j].about)
    /\ \A i \in Pending :
           /\ Known(todo[i])
           /\ phase = "pipeline" => InPipeline(todo[i])
           /\ phase = "epilogue" => InEpilogue(todo[i])

Due == {<<todo[i].do, todo[i].about>> : i \in Pending}

\* The artifacts an await names when its turn comes.
Describes(about) ==
    CASE about = "output"   -> {"output"} \cup (IF options.format = "sequence"
                                               THEN {"manifest"} ELSE {})
      [] about = "captions" -> IF options.captions = "sidecar" THEN {"sidecar"} ELSE {}
      [] about = "poster"   -> IF PosterMode(options) = "disabled" THEN {} ELSE {"poster"}

Names(do, about) ==
    CASE do = "name"     -> Named(about)
      [] do = "describe" -> Describes(about)
      [] OTHER           -> {}

PublishedFirst ==
    \A k \in Due : \A x \in Names(k[1], k[2]) : x \in store \/ <<"publish", x>> \in Due

\* The output is described before captions and poster are, and its description is
\* not withdrawn.
OutputFirst ==
    /\ Due \cap {<<"clear", "output">>, <<"work", "postprocess">>} # {} => ~row.output
    /\ Due \cap {<<"describe", "captions">>, <<"describe", "poster">>} # {} =>
           row.output \/ <<"describe", "output">> \in Due

\* The sources are named before the subprocess may run.
SourcesFirst ==
    Due \cap {<<"status", "rendering">>, <<"status", "uploading">>, <<"status", "succeeded">>,
              <<"describe", "output">>} # {} =>
        /\ "input" \in row.named \/ <<"name", "input">> \in Due
        /\ "expanded" \in row.named \/ <<"name", "expanded">> \in Due
        /\ {"compiled", "replay"} \subseteq row.named \/ <<"name", "compiled">> \in Due

\* Success is what is left when everything else is done ...
SuccessLast ==
    <<"status", "succeeded">> \in Due =>
        /\ "output" \in row.named \/ <<"describe", "output">> \in Due
        /\ "log" \in row.named \/ <<"name", "log">> \in Due
        /\ \/ options.captions = "none"
           \/ <<"describe", "captions">> \in Due
           \/ row.captions = options.captions /\ <<"clear", "captions">> \notin Due
        /\ \/ options.poster = "default"
           \/ <<"describe", "poster">> \in Due
           \/ row.poster = PosterMode(options) /\ <<"clear", "poster">> \notin Due

\* ... and nothing is withdrawn after it.
SuccessStays ==
    row.status = "succeeded" => \A k \in Due : k[1] \notin {"clear", "describe", "work"}

\* Every await but the first needs the workspace, as long as there is none.
WorkspaceFirst ==
    workspace = Gone /\ (\E k \in Due : k[1] \in {"write", "work", "check", "done"}) =>
        <<"workspace", "workspace">> \in Due

\* The exceptions of EndsTerminal, and a terminal status, or an await that leads to it.
Excused ==
    \/ options.path = "template"
    \/ faults \cap {"db", "die"} # {}
    \/ options.path = "sync" /\ "storage" \in faults

EndAhead ==
    /\ \/ Excused
       \/ row.status \in Terminal
       \/ Due \cap {<<"status", "succeeded">>, <<"status", "cancelled">>,
                    <<"status", "failed">>} # {}
       \/ phase = "pipeline" /\ \E k \in Due : k[1] = "fail"
    /\ (\E k \in Due : k[1] = "fail") => \A k \in Due : k[1] \in {"clear", "fail"}

IInv ==
    /\ TypeOK
    /\ Ordered
    /\ PublishedFirst
    /\ NamedIsPublished
    /\ OutputFirst
    /\ MetadataIsWhole
    /\ SourcesFirst
    /\ RenderingIsReplayable
    /\ SuccessLast
    /\ SuccessStays
    /\ SucceededIsComplete
    /\ WorkspaceFirst
    /\ EndAhead

-----------------------------------------------------------------------------
(* The await whose turn it is.                                             *)

\* A nonempty set of naturals has a least element: the one below which the fewest
\* others lie.
LEMMA LeastNatural ==
    ASSUME NEW S \in SUBSET Nat, S # {}
    PROVE  \E i \in S : \A j \in S : i <= j
<1> PICK n \in S : TRUE
  OBVIOUS
<1> DEFINE B       == 0 .. n
           Upto(i) == {j \in S : j <= i}
           T       == {Upto(i) : i \in S \cap B}
<1>1. IsFiniteSet(B)
  BY FS_Interval
<1>0. \A i \in S \cap B : Upto(i) \in SUBSET B
  <2> SUFFICES ASSUME NEW i \in S \cap B, NEW j \in Upto(i)
               PROVE  j \in B
    OBVIOUS
  <2>1. i \in Nat /\ j \in Nat /\ j <= i /\ i <= n /\ n \in Nat
    OBVIOUS
  <2>2. QED
    BY <2>1
<1>2. T \subseteq FiniteSubsetsOf(B) /\ T # {}
  <2>1. FiniteSubsetsOf(B) = SUBSET B
    BY <1>1, FS_FiniteSubsetsOfFinite
  <2>2. n \in S \cap B
    OBVIOUS
  <2>3. \A t \in T : t \in SUBSET B
    BY <1>0
  <2>4. Upto(n) \in T
    BY <2>2
  <2> HIDE DEF T
  <2>5. QED
    BY <2>1, <2>3, <2>4
<1>3. PICK u \in T : \A v \in T : <<v, u>> \notin StrictSubsetOrdering(B)
  BY <1>2, FS_StrictSubsetOrderingWellFounded, WFMin
<1>4. PICK i \in S \cap B : u = Upto(i)
  BY <1>3
<1>5. ASSUME NEW j \in S, j < i
      PROVE  FALSE
  <2>0. j \in B
    <3>1. i \in Nat /\ j \in Nat /\ i <= n /\ n \in Nat
      BY <1>4, <1>5
    <3>2. QED
      BY <1>5, <3>1
  <2>1. Upto(j) \in T /\ Upto(j) \in SUBSET B /\ Upto(i) \in SUBSET B
    BY <1>0, <1>4, <2>0
  <2>2. Upto(j) \subseteq Upto(i) /\ Upto(j) # Upto(i)
    <3>1. i \in Upto(i) /\ i \notin Upto(j)
      BY <1>4, <1>5
    <3>2. \A k \in Upto(j) : k \in Nat /\ k <= j /\ i \in Nat /\ j \in Nat
      BY <1>4
    <3>3. \A k \in Upto(j) : k \in Upto(i)
      BY <1>5, <3>2
    <3>4. QED
      BY <3>1, <3>3
  <2>3. QED
    BY <1>3, <1>4, <2>1, <2>2 DEF StrictSubsetOrdering
<1>6. QED
  BY <1>4, <1>5

\* So Min picks the first of the positions.
LEMMA FirstIsLeast ==
    ASSUME Pending \subseteq Nat, Pending # {}
    PROVE  First \in Pending /\ \A i \in Pending : First <= i
BY LeastNatural DEF First, Min

\* The await whose turn it is, as a pair.
Turn == <<todo[First].do, About>>

\* Ranks are compared as naturals.
LEMMA RankIsNat ==
    ASSUME NEW do, NEW about
    PROVE  Rank(do, about) \in Nat
BY DEF Rank

\* The await whose turn it is has the least rank of those due.
LEMMA TurnIsLeast ==
    ASSUME Ordered, Pending # {}
    PROVE  /\ First \in Pending /\ Turn \in Due
           /\ \A i \in Later : Rank(todo[First].do, About) < Rank(todo[i].do, todo[i].about)
           /\ \A k \in Due : k = Turn \/ Rank(Turn[1], Turn[2]) < Rank(k[1], k[2])
<1>1. First \in Pending /\ \A i \in Pending : First <= i
  BY FirstIsLeast DEF Ordered
<1>2. Turn \in Due
  BY <1>1 DEF Turn, About, Due
<1>3. \A i \in Later : First < i
  BY <1>1 DEF Later, Ordered
<1>4. \A i \in Later : Rank(todo[First].do, About) < Rank(todo[i].do, todo[i].about)
  BY <1>1, <1>3 DEF Ordered, Later, About
<1>5. ASSUME NEW k \in Due
      PROVE  k = Turn \/ Rank(Turn[1], Turn[2]) < Rank(k[1], k[2])
  <2>1. PICK i \in Pending : k = <<todo[i].do, todo[i].about>>
    BY DEF Due
  <2>2. CASE i = First
    BY <2>1, <2>2 DEF Turn, About
  <2>3. CASE i \in Later
    BY <2>1, <2>3, <1>4 DEF Turn
  <2>4. QED
    BY <2>2, <2>3 DEF Later
<1>6. QED
  BY <1>1, <1>2, <1>4, <1>5

\* Dropping awaits keeps the order of the others.
LEMMA Dropping ==
    ASSUME Ordered, NEW S \in SUBSET Pending, todo' = [i \in S |-> todo[i]],
           UNCHANGED <<options, phase>>
    PROVE  Ordered' /\ Due' = {<<todo[i].do, todo[i].about>> : i \in S}
<1>1. Pending' = S /\ \A i \in S : todo'[i] = todo[i]
  BY DEF Pending
<1>2. Ordered'
  BY <1>1 DEF Ordered, InPipeline, InEpilogue
<1>3. QED
  BY <1>1, <1>2 DEF Due

\* The await whose turn it was is not due any more; the others are.
LEMMA AdvanceDue ==
    ASSUME Ordered, Pending # {}, Advance, UNCHANGED <<options, phase>>
    PROVE  Ordered' /\ Due' = Due \ {Turn}
<1>1. Ordered' /\ Due' = {<<todo[i].do, todo[i].about>> : i \in Later}
  BY Dropping DEF Advance, Later
<1>2. \A i \in Later : <<todo[i].do, todo[i].about>> # Turn
  BY TurnIsLeast, RankIsNat DEF Turn, About
<1>3. QED
  BY <1>1, <1>2, TurnIsLeast DEF Due, Later, Turn, About

\* Giving up what an await was about drops every await about it.
LEMMA KeepDue ==
    ASSUME Ordered, Pending # {}, NEW a, todo' = [i \in Keep(a) |-> todo[i]],
           UNCHANGED <<options, phase>>
    PROVE  Ordered' /\ Due' = {k \in Due : k # Turn /\ k[2] # a}
<1>1. Ordered' /\ Due' = {<<todo[i].do, todo[i].about>> : i \in Keep(a)}
  BY Dropping DEF Keep, Later
<1>2. \A i \in Later : <<todo[i].do, todo[i].about>> # Turn
  BY TurnIsLeast, RankIsNat DEF Turn, About
<1>3. ASSUME NEW k \in Due, k # Turn, k[2] # a
      PROVE  k \in Due'
  <2>1. PICK i \in Pending : k = <<todo[i].do, todo[i].about>>
    BY DEF Due
  <2>2. i \in Keep(a)
    BY <1>3, <2>1 DEF Keep, Later, Turn, About
  <2>3. QED
    BY <1>1, <2>1, <2>2
<1>4. ASSUME NEW k \in Due'
      PROVE  k \in Due /\ k # Turn /\ k[2] # a
  <2>1. PICK i \in Keep(a) : k = <<todo[i].do, todo[i].about>>
    BY <1>1
  <2>2. i \in Later /\ todo[i].about # a
    BY DEF Keep
  <2>3. QED
    BY <1>2, <2>1, <2>2 DEF Due, Later
<1>5. QED
  BY <1>1, <1>3, <1>4

\* Giving up the poster leaves the clean-up in its place.
LEMMA GiveUpPosterDue ==
    ASSUME Ordered, Pending # {}, phase = "pipeline", Turn = <<"work", "poster">>,
           GiveUpPoster
    PROVE  /\ Ordered'
           /\ Due' = {k \in Due : k # Turn /\ k[2] # "poster"} \cup {<<"clear", "poster">>}
<1> DEFINE K == Keep("poster")
<1>1. First \in Pending /\ First \notin K /\ K \subseteq Later /\ K \subseteq Pending
  BY TurnIsLeast DEF Keep, Later
<1>2. /\ Pending' = K \cup {First}
      /\ todo'[First] = Await("clear", "poster")
      /\ \A i \in K : todo'[i] = todo[i]
      /\ UNCHANGED <<options, phase>>
  BY <1>1 DEF GiveUpPoster, Pending
<1>3. \A i \in K : Rank("clear", "poster") < Rank(todo[i].do, todo[i].about)
  <2>1. Rank("clear", "poster") < Rank("work", "poster")
    BY DEF Rank
  <2>2. \A i \in K : Rank("work", "poster") < Rank(todo[i].do, todo[i].about)
    BY <1>1, TurnIsLeast DEF Turn
  <2>3. QED
    BY <2>1, <2>2, RankIsNat
<1>4. \A i \in K : First < i
  <2>1. Pending \subseteq Nat /\ \A i \in Pending : First <= i
    BY FirstIsLeast DEF Ordered
  <2>2. \A i \in K : i \in Pending /\ i # First
    BY <1>1 DEF Later
  <2> HIDE DEF K
  <2>3. \A i \in K : i \in Nat /\ First \in Nat /\ First <= i /\ i # First
    BY <1>1, <2>1, <2>2
  <2>4. QED
    BY <2>3
<1>5. Ordered'
  <2>1. Pending' \subseteq Nat
    BY <1>1, <1>2 DEF Ordered
  <2>2. \A i, j \in Pending' :
           i < j => Rank(todo'[i].do, todo'[i].about) < Rank(todo'[j].do, todo'[j].about)
    <3> SUFFICES ASSUME NEW i \in Pending', NEW j \in Pending', i < j
                 PROVE  Rank(todo'[i].do, todo'[i].about) < Rank(todo'[j].do, todo'[j].about)
      OBVIOUS
    <3>1. j # First /\ j \in K
      <4>1. i \in Nat /\ j \in Nat /\ First \in Nat
        BY <2>1, <1>2
      <4>2. j # First
        BY <1>2, <1>4, <4>1
      <4>3. QED
        BY <1>2, <4>2
    <3>2. CASE i = First
      BY <1>2, <1>3, <3>1, <3>2 DEF Await
    <3>3. CASE i \in K
      BY <1>1, <1>2, <3>1, <3>3 DEF Ordered
    <3>4. QED
      BY <1>2, <3>2, <3>3
  <2>3. \A i \in Pending' : Known(todo'[i]) /\ InPipeline(todo'[i])
    <3>1. Known(Await("clear", "poster")) /\ InPipeline(Await("clear", "poster"))
      BY DEF Await, Known, InPipeline
    <3>2. \A i \in K : Known(todo[i]) /\ InPipeline(todo[i])
      BY <1>1 DEF Ordered
    <3>3. QED
      BY <1>2, <3>1, <3>2 DEF Known, InPipeline
  <2>4. QED
    BY <1>2, <2>1, <2>2, <2>3 DEF Ordered, InPipeline, Known
<1>6. Due' = {<<todo[i].do, todo[i].about>> : i \in K} \cup {<<"clear", "poster">>}
  BY <1>1, <1>2 DEF Due, Await
<1>7. {<<todo[i].do, todo[i].about>> : i \in K} = {k \in Due : k # Turn /\ k[2] # "poster"}
  <2>1. \A i \in K : todo[i].about # "poster" /\ <<todo[i].do, todo[i].about>> \in Due
    BY <1>1 DEF Keep, Due
  <2>2. ASSUME NEW k \in Due, k[2] # "poster"
        PROVE  \E i \in K : k = <<todo[i].do, todo[i].about>>
    <3>1. PICK i \in Pending : k = <<todo[i].do, todo[i].about>>
      BY DEF Due
    <3>2. i \in K
      BY <2>2, <3>1 DEF Keep, Later, Turn, About
    <3>3. QED
      BY <3>1, <3>2
  <2>3. Turn[2] = "poster"
    OBVIOUS
  <2>4. QED
    BY <2>1, <2>2, <2>3
<1>8. QED
  BY <1>5, <1>6, <1>7

-----------------------------------------------------------------------------
(* The sequences of awaits.                                                *)

AwaitRec ==
    [do : {"workspace", "check", "status", "write", "publish", "name", "work", "renderer",
           "clear", "describe", "done", "cleanup", "fail"},
     about : Artifacts \cup Files \cup Statuses
                 \cup {"workspace", "merge", "capabilities", "assets", "compile", "render",
                       "captions", "postprocess", "poster_plan", "renderer", "source",
                       "pipeline", "all", "temporary", "timeout"},
     soft : BOOLEAN]

PipelineAwaits == {a \in AwaitRec : Known(a) /\ InPipeline(a)}
EpilogueAwaits == {a \in AwaitRec : Known(a) /\ InEpilogue(a)}

Keys(s) == {<<s[i].do, s[i].about>> : i \in 1 .. Len(s)}

\* A piece of the pipeline or of an epilogue, with ranks from lo to below hi in
\* ascending order.
Piece(G, s, lo, hi) ==
    /\ s \in Seq(G)
    /\ \A i \in 1 .. Len(s) :
           lo <= Rank(s[i].do, s[i].about) /\ Rank(s[i].do, s[i].about) < hi
    /\ \A i, j \in 1 .. Len(s) :
           i < j => Rank(s[i].do, s[i].about) < Rank(s[j].do, s[j].about)

\* The awaits of two sequences in a row.
LEMMA JoinedKeys ==
    ASSUME NEW G, NEW s \in Seq(G), NEW t \in Seq(G)
    PROVE  Keys(s \o t) = Keys(s) \cup Keys(t)
<1> DEFINE u == s \o t
<1>1. Len(s) \in Nat /\ Len(t) \in Nat /\ Len(u) = Len(s) + Len(t)
  OBVIOUS
<1>2. /\ \A i \in 1 .. Len(s) : i \in 1 .. Len(u) /\ u[i] = s[i]
      /\ \A i \in 1 .. Len(t) : i + Len(s) \in 1 .. Len(u) /\ u[i + Len(s)] = t[i]
      /\ \A i \in 1 .. Len(u) : i \in 1 .. Len(s)
                                  \/ (i - Len(s) \in 1 .. Len(t) /\ u[i] = t[i - Len(s)])
  BY <1>1
<1> HIDE DEF u
<1>3. Keys(s) \subseteq Keys(u) /\ Keys(t) \subseteq Keys(u)
  <2>1. ASSUME NEW k \in Keys(s) PROVE k \in Keys(u)
    <3>1. PICK i \in 1 .. Len(s) : k = <<s[i].do, s[i].about>>
      BY DEF Keys
    <3>2. i \in 1 .. Len(u) /\ u[i] = s[i]
      BY <1>2
    <3>3. QED
      BY <3>1, <3>2 DEF Keys
  <2>2. ASSUME NEW k \in Keys(t) PROVE k \in Keys(u)
    <3>1. PICK i \in 1 .. Len(t) : k = <<t[i].do, t[i].about>>
      BY DEF Keys
    <3>2. i + Len(s) \in 1 .. Len(u) /\ u[i + Len(s)] = t[i]
      BY <1>2
    <3>3. QED
      BY <3>1, <3>2 DEF Keys
  <2>3. QED
    BY <2>1, <2>2
<1>4. Keys(u) \subseteq Keys(s) \cup Keys(t)
  <2>1. ASSUME NEW k \in Keys(u) PROVE k \in Keys(s) \cup Keys(t)
    <3>1. PICK i \in 1 .. Len(u) : k = <<u[i].do, u[i].about>>
      BY DEF Keys
    <3>2. CASE i \in 1 .. Len(s)
      <4>1. u[i] = s[i]
        BY <1>2, <3>2
      <4>2. QED
        BY <3>1, <3>2, <4>1 DEF Keys
    <3>3. CASE i - Len(s) \in 1 .. Len(t) /\ u[i] = t[i - Len(s)]
      BY <3>1, <3>3 DEF Keys
    <3>4. QED
      BY <1>2, <3>2, <3>3
  <2>2. QED
    BY <2>1
<1>5. QED
  BY <1>3, <1>4 DEF u

\* Pieces with ranks one after the other make a piece.
LEMMA JoinedIn ==
    ASSUME NEW G, NEW s, NEW t, NEW lo \in Nat, NEW mid \in Nat, NEW hi \in Nat,
           lo <= mid, mid <= hi, Piece(G, s, lo, mid), Piece(G, t, mid, hi)
    PROVE  Piece(G, s \o t, lo, hi)
<1> DEFINE u == s \o t
<1>1. /\ s \in Seq(G) /\ t \in Seq(G) /\ u \in Seq(G)
      /\ Len(s) \in Nat /\ Len(t) \in Nat /\ Len(u) = Len(s) + Len(t)
  BY DEF Piece
<1>2. /\ \A i \in 1 .. Len(s) : u[i] = s[i]
      /\ \A i \in 1 .. Len(t) : u[i + Len(s)] = t[i]
      /\ \A i \in 1 .. Len(u) : i \in 1 .. Len(s)
                                  \/ (i - Len(s) \in 1 .. Len(t) /\ u[i] = t[i - Len(s)])
  BY <1>1
<1> HIDE DEF u
<1> DEFINE R(x) == Rank(x.do, x.about)
<1>0. \A x : R(x) \in Nat
  BY RankIsNat
<1>a. /\ \A i \in 1 .. Len(s) : lo <= R(s[i]) /\ R(s[i]) < mid
      /\ \A i, j \in 1 .. Len(s) : i < j => R(s[i]) < R(s[j])
  BY DEF Piece
<1>b. /\ \A i \in 1 .. Len(t) : mid <= R(t[i]) /\ R(t[i]) < hi
      /\ \A i, j \in 1 .. Len(t) : i < j => R(t[i]) < R(t[j])
  BY DEF Piece
<1> HIDE DEF R
<1>3. ASSUME NEW i \in 1 .. Len(u)
      PROVE  lo <= R(u[i]) /\ R(u[i]) < hi
  <2>1. CASE i \in 1 .. Len(s)
    <3>1. u[i] = s[i] /\ R(s[i]) \in Nat
      BY <1>0, <1>2, <2>1
    <3>2. lo <= R(s[i]) /\ R(s[i]) < mid
      BY <1>a, <2>1
    <3>3. QED
      BY <1>a, <2>1, <3>1, <3>2
  <2>2. CASE i - Len(s) \in 1 .. Len(t) /\ u[i] = t[i - Len(s)]
    <3> DEFINE k == i - Len(s)
    <3>1. k \in 1 .. Len(t) /\ u[i] = t[k] /\ R(t[k]) \in Nat
      BY <1>0, <2>2
    <3> HIDE DEF k
    <3>2. mid <= R(t[k]) /\ R(t[k]) < hi
      BY <1>b, <3>1
    <3>3. QED
      BY <1>b, <3>1, <3>2
  <2>3. QED
    BY <1>2, <2>1, <2>2
<1>4. ASSUME NEW i \in 1 .. Len(u), NEW j \in 1 .. Len(u), i < j
      PROVE  R(u[i]) < R(u[j])
  <2>0. i \in Nat /\ j \in Nat /\ R(u[i]) \in Nat /\ R(u[j]) \in Nat
    BY <1>0, <1>1
  <2>1. CASE j \in 1 .. Len(s)
    <3>1. i \in 1 .. Len(s)
      BY <1>1, <1>4, <2>0, <2>1
    <3>2. QED
      BY <1>2, <1>4, <1>a, <2>1, <3>1
  <2>2. CASE i \in 1 .. Len(s) /\ j \notin 1 .. Len(s)
    <3>1. u[i] = s[i] /\ R(s[i]) < mid
      BY <1>2, <1>a, <2>2
    <3> DEFINE k == j - Len(s)
    <3>2. k \in 1 .. Len(t) /\ u[j] = t[k]
      BY <1>2, <2>2
    <3> HIDE DEF k
    <3>3. mid <= R(t[k])
      BY <1>b, <3>2
    <3>4. QED
      BY <2>0, <3>1, <3>2, <3>3
  <2>3. CASE i \notin 1 .. Len(s) /\ j \notin 1 .. Len(s)
    <3> DEFINE k == i - Len(s)
               m == j - Len(s)
    <3>1. k \in 1 .. Len(t) /\ u[i] = t[k] /\ m \in 1 .. Len(t) /\ u[j] = t[m]
      BY <1>2, <2>3
    <3>2. k < m
      BY <1>1, <1>4, <2>0
    <3> HIDE DEF k, m
    <3>3. QED
      BY <1>b, <3>1, <3>2
  <2>4. QED
    BY <1>1, <1>4, <2>0, <2>1, <2>2, <2>3
<1>5. Piece(G, u, lo, hi)
  BY <1>1, <1>3, <1>4 DEF Piece, R
<1>6. QED
  BY <1>5 DEF u

\* Two pieces in a row are a piece, if the ranks of the second follow.
LEMMA Joined ==
    ASSUME NEW s, NEW t, NEW lo \in Nat, NEW mid \in Nat, NEW hi \in Nat,
           lo <= mid, mid <= hi,
           Piece(PipelineAwaits, s, lo, mid), Piece(PipelineAwaits, t, mid, hi)
    PROVE  Piece(PipelineAwaits, s \o t, lo, hi) /\ Keys(s \o t) = Keys(s) \cup Keys(t)
<1>1. Piece(PipelineAwaits, s \o t, lo, hi)
  BY JoinedIn
<1>2. Keys(s \o t) = Keys(s) \cup Keys(t)
  BY JoinedKeys DEF Piece
<1>3. QED
  BY <1>1, <1>2

\* The same for the pieces of an epilogue.
LEMMA JoinedEnd ==
    ASSUME NEW s, NEW t, NEW lo \in Nat, NEW mid \in Nat, NEW hi \in Nat,
           lo <= mid, mid <= hi,
           Piece(EpilogueAwaits, s, lo, mid), Piece(EpilogueAwaits, t, mid, hi)
    PROVE  Piece(EpilogueAwaits, s \o t, lo, hi) /\ Keys(s \o t) = Keys(s) \cup Keys(t)
<1>1. Piece(EpilogueAwaits, s \o t, lo, hi)
  BY JoinedIn
<1>2. Keys(s \o t) = Keys(s) \cup Keys(t)
  BY JoinedKeys DEF Piece
<1>3. QED
  BY <1>1, <1>2

\* The first stage: its ranks, and the awaits it has.
LEMMA ValidateAndExpandPiece ==
    /\ Piece(PipelineAwaits, ValidateAndExpand, 4, 12)
    /\ Keys(ValidateAndExpand) =
           {<<"write", "input.json">>, <<"publish", "input">>, <<"name", "input">>,
            <<"work", "merge">>, <<"write", "expanded.json">>, <<"publish", "expanded">>,
            <<"name", "expanded">>}
<1> DEFINE s == ValidateAndExpand
<1>1. s \in Seq(PipelineAwaits) /\ Len(s) = 7
  BY DEF ValidateAndExpand, Await, AwaitRec, Artifacts, Files, Statuses, Terminal,
     PipelineAwaits, Known, InPipeline
<1>2. /\ s[1] = Await("write", "input.json") /\ s[2] = Await("publish", "input")
      /\ s[3] = Await("name", "input") /\ s[4] = Await("work", "merge")
      /\ s[5] = Await("write", "expanded.json") /\ s[6] = Await("publish", "expanded")
      /\ s[7] = Await("name", "expanded")
  BY DEF ValidateAndExpand
<1> HIDE DEF s
<1>3. 1 .. 7 = {1, 2, 3, 4, 5, 6, 7}
  OBVIOUS
<1>4. \A i \in 1 .. 7 : Rank(s[i].do, s[i].about) = 3 + i
  BY <1>2, <1>3 DEF Await, Rank
<1>5. Piece(PipelineAwaits, s, 4, 12)
  BY <1>1, <1>4 DEF Piece
<1>6. QED
  BY <1>1, <1>2, <1>3, <1>5 DEF Keys, Await, s

\* The second stage.
LEMMA ResolveAndCompilePiece ==
    /\ Piece(PipelineAwaits, ResolveAndCompile, 14, 23)
    /\ Keys(ResolveAndCompile) =
           {<<"work", "capabilities">>,
            <<"renderer", "renderer">>,
            <<"work", "assets">>,
            <<"write", "media">>,
            <<"work", "compile">>,
            <<"write", "spec">>,
            <<"publish", "compiled">>,
            <<"publish", "replay">>,
            <<"name", "compiled">>}
<1> DEFINE s == ResolveAndCompile
<1>1. s \in Seq(PipelineAwaits) /\ Len(s) = 9
  BY DEF ResolveAndCompile, Await, AwaitRec, Artifacts, Files, Statuses, Terminal,
     PipelineAwaits, Known, InPipeline
<1>2. /\ s[1] = Await("work", "capabilities")
      /\ s[2] = Await("renderer", "renderer")
      /\ s[3] = Await("work", "assets")
      /\ s[4] = Await("write", "media")
      /\ s[5] = Await("work", "compile")
      /\ s[6] = Await("write", "spec")
      /\ s[7] = Await("publish", "compiled")
      /\ s[8] = Await("publish", "replay")
      /\ s[9] = Await("name", "compiled")
  BY DEF ResolveAndCompile
<1> HIDE DEF s
<1>3. 1 .. 9 = {1, 2, 3, 4, 5, 6, 7, 8, 9}
  OBVIOUS
<1>4. \A i \in 1 .. 9 : Rank(s[i].do, s[i].about) = 13 + i
  BY <1>2, <1>3 DEF Await, Rank
<1>5. Piece(PipelineAwaits, s, 14, 23)
  BY <1>1, <1>4 DEF Piece
<1>6. QED
  BY <1>1, <1>2, <1>3, <1>5 DEF Keys, Await, s

\* The end of the third stage.
LEMMA PublishLogPiece ==
    /\ Piece(PipelineAwaits, PublishLog, 40, 43)
    /\ Keys(PublishLog) =
           {<<"write", "logs.txt">>,
            <<"publish", "log">>,
            <<"name", "log">>}
<1> DEFINE s == PublishLog
<1>1. s \in Seq(PipelineAwaits) /\ Len(s) = 3
  BY DEF PublishLog, Await, AwaitRec, Artifacts, Files, Statuses, Terminal,
     PipelineAwaits, Known, InPipeline
<1>2. /\ s[1] = Await("write", "logs.txt")
      /\ s[2] = Await("publish", "log")
      /\ s[3] = Await("name", "log")
  BY DEF PublishLog
<1> HIDE DEF s
<1>3. 1 .. 3 = {1, 2, 3}
  OBVIOUS
<1>4. \A i \in 1 .. 3 : Rank(s[i].do, s[i].about) = 39 + i
  BY <1>2, <1>3 DEF Await, Rank
<1>5. Piece(PipelineAwaits, s, 40, 43)
  BY <1>1, <1>4 DEF Piece
<1>6. QED
  BY <1>1, <1>2, <1>3, <1>5 DEF Keys, Await, s

\* The smallest pieces.
LEMMA EmptyPiece ==
    ASSUME NEW lo \in Nat, NEW hi \in Nat
    PROVE  /\ Piece(PipelineAwaits, <<>>, lo, hi) /\ Piece(EpilogueAwaits, <<>>, lo, hi)
           /\ Keys(<<>>) = {}
BY DEF Piece, Keys

\* One await is a piece.
LEMMA SinglePiece ==
    ASSUME NEW G, NEW a \in G, NEW lo \in Nat, NEW hi \in Nat,
           lo <= Rank(a.do, a.about), Rank(a.do, a.about) < hi
    PROVE  Piece(G, <<a>>, lo, hi) /\ Keys(<<a>>) = {<<a.do, a.about>>}
<1> DEFINE s == <<a>>
<1>1. s \in Seq(G) /\ Len(s) = 1 /\ s[1] = a
  OBVIOUS
<1> HIDE DEF s
<1>2. 1 .. 1 = {1}
  OBVIOUS
<1>3. Piece(G, s, lo, hi)
  BY <1>1, <1>2 DEF Piece
<1>4. Keys(s) = {<<a.do, a.about>>}
  BY <1>1, <1>2 DEF Keys
<1>5. QED
  BY <1>3, <1>4 DEF s

\* An await of the pipeline as a piece of its own.
LEMMA OnePiece ==
    ASSUME NEW do, NEW about, NEW lo \in Nat, NEW hi \in Nat,
           Await(do, about) \in PipelineAwaits, lo <= Rank(do, about), Rank(do, about) < hi
    PROVE  /\ Piece(PipelineAwaits, <<Await(do, about)>>, lo, hi)
           /\ Keys(<<Await(do, about)>>) = {<<do, about>>}
<1>1. Await(do, about).do = do /\ Await(do, about).about = about
  BY DEF Await
<1>2. QED
  BY <1>1, SinglePiece

\* The pieces of the stage that renders, for every kind of composition.
LEMMA FinishHead ==
    /\ Piece(PipelineAwaits,
             <<Await("clear", "captions"), Await("clear", "poster"), Await("work", "render")>>, 26, 29)
    /\ Keys(<<Await("clear", "captions"), Await("clear", "poster"), Await("work", "render")>>) =
           {<<"clear", "captions">>,
            <<"clear", "poster">>,
            <<"work", "render">>}
<1> DEFINE s == <<Await("clear", "captions"), Await("clear", "poster"), Await("work", "render")>>
<1>1. s \in Seq(PipelineAwaits) /\ Len(s) = 3
  BY DEF Await, AwaitRec, Artifacts, Files, Statuses, Terminal,
     PipelineAwaits, Known, InPipeline
<1>2. /\ s[1] = Await("clear", "captions")
      /\ s[2] = Await("clear", "poster")
      /\ s[3] = Await("work", "render")
  OBVIOUS
<1> HIDE DEF s
<1>3. 1 .. 3 = {1, 2, 3}
  OBVIOUS
<1>4. \A i \in 1 .. 3 : Rank(s[i].do, s[i].about) = 25 + i
  BY <1>2, <1>3 DEF Await, Rank
<1>5. Piece(PipelineAwaits, s, 26, 29)
  BY <1>1, <1>4 DEF Piece
<1>6. QED
  BY <1>1, <1>2, <1>3, <1>5 DEF Keys, Await, s

\* A caption sidecar is published before it is described.
LEMMA SidecarPiece ==
    /\ Piece(PipelineAwaits, <<Await("publish", "sidecar"), Await("describe", "captions")>>, 34, 36)
    /\ Keys(<<Await("publish", "sidecar"), Await("describe", "captions")>>) =
           {<<"publish", "sidecar">>,
            <<"describe", "captions">>}
<1> DEFINE s == <<Await("publish", "sidecar"), Await("describe", "captions")>>
<1>1. s \in Seq(PipelineAwaits) /\ Len(s) = 2
  BY DEF Await, AwaitRec, Artifacts, Files, Statuses, Terminal,
     PipelineAwaits, Known, InPipeline
<1>2. /\ s[1] = Await("publish", "sidecar")
      /\ s[2] = Await("describe", "captions")
  OBVIOUS
<1> HIDE DEF s
<1>3. 1 .. 2 = {1, 2}
  OBVIOUS
<1>4. \A i \in 1 .. 2 : Rank(s[i].do, s[i].about) = 33 + i
  BY <1>2, <1>3 DEF Await, Rank
<1>5. Piece(PipelineAwaits, s, 34, 36)
  BY <1>1, <1>4 DEF Piece
<1>6. QED
  BY <1>1, <1>2, <1>3, <1>5 DEF Keys, Await, s

\* A poster is made, published and described.
LEMMA PosterPiece ==
    /\ Piece(PipelineAwaits,
             <<Await("work", "poster"), Await("publish", "poster"), Await("describe", "poster")>>, 37, 40)
    /\ Keys(<<Await("work", "poster"), Await("publish", "poster"), Await("describe", "poster")>>) =
           {<<"work", "poster">>,
            <<"publish", "poster">>,
            <<"describe", "poster">>}
<1> DEFINE s == <<Await("work", "poster"), Await("publish", "poster"), Await("describe", "poster")>>
<1>1. s \in Seq(PipelineAwaits) /\ Len(s) = 3
  BY DEF Await, AwaitRec, Artifacts, Files, Statuses, Terminal,
     PipelineAwaits, Known, InPipeline
<1>2. /\ s[1] = Await("work", "poster")
      /\ s[2] = Await("publish", "poster")
      /\ s[3] = Await("describe", "poster")
  OBVIOUS
<1> HIDE DEF s
<1>3. 1 .. 3 = {1, 2, 3}
  OBVIOUS
<1>4. \A i \in 1 .. 3 : Rank(s[i].do, s[i].about) = 36 + i
  BY <1>2, <1>3 DEF Await, Rank
<1>5. Piece(PipelineAwaits, s, 37, 40)
  BY <1>1, <1>4 DEF Piece
<1>6. QED
  BY <1>1, <1>2, <1>3, <1>5 DEF Keys, Await, s

\* The subprocess, with captions or without.
LEMMA FinishPiece ==
    ASSUME NEW o
    PROVE  /\ Piece(PipelineAwaits, Finish(o), 26, 31)
           /\ Keys(Finish(o)) =
                  {<<"clear", "captions">>, <<"clear", "poster">>, <<"work", "render">>,
                   <<"work", "postprocess">>}
                  \cup (IF o.captions = "none" THEN {} ELSE {<<"work", "captions">>})
<1> DEFINE head == <<Await("clear", "captions"), Await("clear", "poster"), Await("work", "render")>>
           captions == IF o.captions = "none" THEN <<>> ELSE <<Await("work", "captions")>>
           last == <<Await("work", "postprocess")>>
<1>1. /\ Piece(PipelineAwaits, head, 26, 29)
      /\ Keys(head) = {<<"clear", "captions">>, <<"clear", "poster">>, <<"work", "render">>}
  BY FinishHead
<1>2. /\ Piece(PipelineAwaits, <<Await("work", "captions")>>, 29, 30)
      /\ Keys(<<Await("work", "captions")>>) = {<<"work", "captions">>}
  BY OnePiece DEF Await, PipelineAwaits, AwaitRec, Known, InPipeline, Rank, Files, Artifacts,
     Statuses, Terminal
<1>3. /\ Piece(PipelineAwaits, <<Await("work", "postprocess")>>, 30, 31)
      /\ Keys(<<Await("work", "postprocess")>>) = {<<"work", "postprocess">>}
  BY OnePiece DEF Await, PipelineAwaits, AwaitRec, Known, InPipeline, Rank, Files, Artifacts,
     Statuses, Terminal
<1>4. /\ Piece(PipelineAwaits, captions, 29, 30)
      /\ Keys(captions) = IF o.captions = "none" THEN {} ELSE {<<"work", "captions">>}
  BY <1>2, EmptyPiece
<1>5. Finish(o) = (head \o captions) \o last
  BY DEF Finish
<1> HIDE DEF head, captions, last
<1>6. /\ Piece(PipelineAwaits, head \o captions, 26, 30)
      /\ Keys(head \o captions) = Keys(head) \cup Keys(captions)
  BY <1>1, <1>4, Joined
<1>7. /\ Piece(PipelineAwaits, (head \o captions) \o last, 26, 31)
      /\ Keys((head \o captions) \o last) = Keys(head \o captions) \cup Keys(last)
  BY <1>3, <1>6, Joined DEF last
<1>8. QED
  BY <1>1, <1>3, <1>4, <1>5, <1>6, <1>7 DEF last

\* The output, one file or a sequence with its manifest.
LEMMA PublishOutputPiece ==
    ASSUME NEW o
    PROVE  /\ Piece(PipelineAwaits, PublishOutput(o), 31, 34)
           /\ Keys(PublishOutput(o)) =
                  {<<"publish", "output">>, <<"describe", "output">>}
                  \cup (IF o.format = "sequence" THEN {<<"publish", "manifest">>} ELSE {})
<1> DEFINE output == <<Await("publish", "output")>>
           manifest == IF o.format = "sequence" THEN <<Await("publish", "manifest")>> ELSE <<>>
           last == <<Await("describe", "output")>>
<1>1. /\ Piece(PipelineAwaits, <<Await("publish", "output")>>, 31, 32)
      /\ Keys(<<Await("publish", "output")>>) = {<<"publish", "output">>}
  <2>1. Await("publish", "output") \in PipelineAwaits /\ Rank("publish", "output") = 31
    BY DEF Await, PipelineAwaits, AwaitRec, Known, InPipeline, Rank, Artifacts
  <2>2. QED
    BY <2>1, OnePiece
<1>2. /\ Piece(PipelineAwaits, <<Await("publish", "manifest")>>, 32, 33)
      /\ Keys(<<Await("publish", "manifest")>>) = {<<"publish", "manifest">>}
  <2>1. Await("publish", "manifest") \in PipelineAwaits /\ Rank("publish", "manifest") = 32
    BY DEF Await, PipelineAwaits, AwaitRec, Known, InPipeline, Rank, Artifacts
  <2>2. QED
    BY <2>1, OnePiece
<1>3. /\ Piece(PipelineAwaits, <<Await("describe", "output")>>, 33, 34)
      /\ Keys(<<Await("describe", "output")>>) = {<<"describe", "output">>}
  <2>1. Await("describe", "output") \in PipelineAwaits
    BY DEF Await, PipelineAwaits, AwaitRec, Known, InPipeline, Artifacts
  <2>2. Rank("describe", "output") = 33
    BY DEF Rank
  <2>3. QED
    BY <2>1, <2>2, OnePiece
<1>4. /\ Piece(PipelineAwaits, manifest, 32, 33)
      /\ Keys(manifest) = IF o.format = "sequence" THEN {<<"publish", "manifest">>} ELSE {}
  BY <1>2, EmptyPiece
<1>5. PublishOutput(o) = (output \o manifest) \o last
  BY DEF PublishOutput
<1> HIDE DEF manifest
<1>6. /\ Piece(PipelineAwaits, output \o manifest, 31, 33)
      /\ Keys(output \o manifest) = Keys(output) \cup Keys(manifest)
  BY <1>1, <1>4, Joined
<1>7. /\ Piece(PipelineAwaits, (output \o manifest) \o last, 31, 34)
      /\ Keys((output \o manifest) \o last) = Keys(output \o manifest) \cup Keys(last)
  BY <1>3, <1>6, Joined
<1>8. QED
  BY <1>1, <1>3, <1>4, <1>5, <1>6, <1>7

\* Captions: none, burnt in or beside the output.
LEMMA PublishCaptionsPiece ==
    ASSUME NEW o \in Options
    PROVE  /\ Piece(PipelineAwaits, PublishCaptions(o), 34, 36)
           /\ Keys(PublishCaptions(o)) =
                  (IF o.captions = "none" THEN {} ELSE {<<"describe", "captions">>})
                  \cup (IF o.captions = "sidecar" THEN {<<"publish", "sidecar">>} ELSE {})
<1>1. /\ Piece(PipelineAwaits, <<Await("describe", "captions")>>, 34, 36)
      /\ Keys(<<Await("describe", "captions")>>) = {<<"describe", "captions">>}
  BY OnePiece DEF Await, PipelineAwaits, AwaitRec, Known, InPipeline, Rank, Files, Artifacts,
     Statuses, Terminal
<1>2. o.captions \in {"none", "sidecar", "burn_in"}
  BY DEF Options
<1>3. CASE o.captions = "none"
  BY <1>3, EmptyPiece DEF PublishCaptions
<1>4. CASE o.captions = "burn_in"
  BY <1>1, <1>4 DEF PublishCaptions
<1>5. CASE o.captions = "sidecar"
  BY <1>5, SidecarPiece DEF PublishCaptions
<1>6. QED
  BY <1>2, <1>3, <1>4, <1>5

\* A poster: disabled, by default or requested.
LEMMA PublishPosterPiece ==
    ASSUME NEW o
    PROVE  /\ Piece(PipelineAwaits, PublishPoster(o), 36, 40)
           /\ Keys(PublishPoster(o)) =
                  {<<"describe", "poster">>}
                  \cup (IF PosterMode(o) = "disabled" THEN {}
                        ELSE {<<"work", "poster">>, <<"publish", "poster">>})
                  \cup (IF PosterMode(o) = "requested" THEN {<<"work", "poster_plan">>} ELSE {})
<1> DEFINE plan == IF PosterMode(o) = "requested" THEN <<Await("work", "poster_plan")>> ELSE <<>>
           rest == <<Await("work", "poster"), Await("publish", "poster"),
                     Await("describe", "poster")>>
<1>1. /\ Piece(PipelineAwaits, <<Await("describe", "poster")>>, 36, 40)
      /\ Keys(<<Await("describe", "poster")>>) = {<<"describe", "poster">>}
  BY OnePiece DEF Await, PipelineAwaits, AwaitRec, Known, InPipeline, Rank, Files, Artifacts,
     Statuses, Terminal
<1>2. /\ Piece(PipelineAwaits, <<Await("work", "poster_plan")>>, 36, 37)
      /\ Keys(<<Await("work", "poster_plan")>>) = {<<"work", "poster_plan">>}
  BY OnePiece DEF Await, PipelineAwaits, AwaitRec, Known, InPipeline, Rank, Files, Artifacts,
     Statuses, Terminal
<1>3. /\ Piece(PipelineAwaits, plan, 36, 37)
      /\ Keys(plan) = IF PosterMode(o) = "requested" THEN {<<"work", "poster_plan">>} ELSE {}
  BY <1>2, EmptyPiece
<1>4. /\ Piece(PipelineAwaits, rest, 37, 40)
      /\ Keys(rest) = {<<"work", "poster">>, <<"publish", "poster">>, <<"describe", "poster">>}
  BY PosterPiece
<1>5. CASE PosterMode(o) = "disabled"
  BY <1>1, <1>5 DEF PublishPoster
<1>6. CASE PosterMode(o) # "disabled"
  <2>1. PublishPoster(o) = plan \o rest
    BY <1>6 DEF PublishPoster
  <2> HIDE DEF plan, rest
  <2>2. /\ Piece(PipelineAwaits, plan \o rest, 36, 40)
        /\ Keys(plan \o rest) = Keys(plan) \cup Keys(rest)
    BY <1>3, <1>4, Joined
  <2>3. QED
    BY <1>3, <1>4, <1>6, <2>1, <2>2
<1>7. QED
  BY <1>5, <1>6

\* The third stage as a whole.
LEMMA RenderAndStorePiece ==
    ASSUME NEW o \in Options
    PROVE  /\ Piece(PipelineAwaits, RenderAndStore(o), 26, 43)
           /\ Keys(RenderAndStore(o)) =
                  Keys(Finish(o)) \cup Keys(PublishOutput(o)) \cup Keys(PublishCaptions(o))
                  \cup Keys(PublishPoster(o)) \cup Keys(PublishLog)
<1> DEFINE s1 == Finish(o) \o PublishOutput(o)
           s2 == s1 \o PublishCaptions(o)
           s3 == s2 \o PublishPoster(o)
<1>1. Piece(PipelineAwaits, s1, 26, 34) /\ Keys(s1) = Keys(Finish(o)) \cup Keys(PublishOutput(o))
  BY FinishPiece, PublishOutputPiece, Joined
<1>2. RenderAndStore(o) = s3 \o PublishLog
  BY DEF RenderAndStore
<1> HIDE DEF s1
<1>3. Piece(PipelineAwaits, s2, 26, 36) /\ Keys(s2) = Keys(s1) \cup Keys(PublishCaptions(o))
  BY <1>1, PublishCaptionsPiece, Joined
<1> HIDE DEF s2
<1>4. Piece(PipelineAwaits, s3, 26, 40) /\ Keys(s3) = Keys(s2) \cup Keys(PublishPoster(o))
  BY <1>3, PublishPosterPiece, Joined
<1> HIDE DEF s3
<1>5. /\ Piece(PipelineAwaits, s3 \o PublishLog, 26, 43)
      /\ Keys(s3 \o PublishLog) = Keys(s3) \cup Keys(PublishLog)
  BY <1>4, PublishLogPiece, Joined
<1>6. QED
  BY <1>1, <1>2, <1>3, <1>4, <1>5

\* A stage with its checkpoint and its status.
Stage(o, status, body) ==
    (IF o.path = "worker" THEN <<Await("check", status)>> ELSE <<>>)
    \o <<Await("status", status)>> \o body

StageKeys(o, status) ==
    {<<"status", status>>} \cup (IF o.path = "worker" THEN {<<"check", status>>} ELSE {})

\* The ranks lo to hi have room for a stage whose body has the ranks from mid on.
StageFits(status, lo, mid, hi) ==
    /\ status \in {"fetching", "compiling", "rendering", "uploading"}
    /\ lo \in Nat /\ mid \in Nat /\ hi \in Nat
    /\ lo = Rank("check", status) /\ Rank("status", status) = lo + 1
    /\ lo + 1 < mid /\ mid <= hi

\* A stage with its checkpoint, for the worker, and its status.
LEMMA StagePiece ==
    ASSUME NEW o, NEW body, NEW lo, NEW mid, NEW hi, NEW status,
           StageFits(status, lo, mid, hi), Piece(PipelineAwaits, body, mid, hi)
    PROVE  /\ Piece(PipelineAwaits, Stage(o, status, body), lo, hi)
           /\ Keys(Stage(o, status, body)) = StageKeys(o, status) \cup Keys(body)
<1> DEFINE check == IF o.path = "worker" THEN <<Await("check", status)>> ELSE <<>>
           entry == <<Await("status", status)>>
<1> USE DEF StageFits
<1>1. Await("check", status) \in PipelineAwaits /\ Await("status", status) \in PipelineAwaits
  BY DEF Await, PipelineAwaits, AwaitRec, Known, InPipeline, Statuses
<1>2. /\ Piece(PipelineAwaits, check, lo, lo + 1)
      /\ Keys(check) = IF o.path = "worker" THEN {<<"check", status>>} ELSE {}
  <2>1. lo \in Nat /\ lo + 1 \in Nat /\ lo <= lo /\ lo < lo + 1
    OBVIOUS
  <2>2. /\ Piece(PipelineAwaits, <<Await("check", status)>>, lo, lo + 1)
        /\ Keys(<<Await("check", status)>>) = {<<"check", status>>}
    BY <1>1, <2>1, OnePiece
  <2>3. Piece(PipelineAwaits, <<>>, lo, lo + 1) /\ Keys(<<>>) = {}
    BY <2>1, EmptyPiece
  <2>4. QED
    BY <2>2, <2>3
<1>3. Piece(PipelineAwaits, entry, lo + 1, mid) /\ Keys(entry) = {<<"status", status>>}
  BY <1>1, OnePiece
<1>4. Stage(o, status, body) = (check \o entry) \o body
  BY DEF Stage
<1> HIDE DEF check, entry
<1>5. /\ Piece(PipelineAwaits, check \o entry, lo, mid)
      /\ Keys(check \o entry) = Keys(check) \cup Keys(entry)
  <2>1. lo + 1 \in Nat /\ lo <= lo + 1 /\ lo + 1 <= mid
    OBVIOUS
  <2>2. QED
    BY <1>2, <1>3, <2>1, Joined
<1>6. /\ Piece(PipelineAwaits, (check \o entry) \o body, lo, hi)
      /\ Keys((check \o entry) \o body) = Keys(check \o entry) \cup Keys(body)
  <2>1. lo <= mid
    OBVIOUS
  <2>2. QED
    BY <1>5, <2>1, Joined
<1>7. QED
  BY <1>2, <1>3, <1>4, <1>5, <1>6 DEF StageKeys

\* The end of the pipeline: success.
LEMMA PipelineEnd ==
    /\ Piece(PipelineAwaits, <<Await("status", "succeeded"), Await("done", "pipeline")>>, 45, 49)
    /\ Keys(<<Await("status", "succeeded"), Await("done", "pipeline")>>) =
           {<<"status", "succeeded">>,
            <<"done", "pipeline">>}
<1> DEFINE s == <<Await("status", "succeeded"), Await("done", "pipeline")>>
<1>1. s \in Seq(PipelineAwaits) /\ Len(s) = 2
  BY DEF Await, AwaitRec, Artifacts, Files, Statuses, Terminal,
     PipelineAwaits, Known, InPipeline
<1>2. /\ s[1] = Await("status", "succeeded")
      /\ s[2] = Await("done", "pipeline")
  OBVIOUS
<1> HIDE DEF s
<1>3. 1 .. 2 = {1, 2}
  OBVIOUS
<1>4. \A i \in 1 .. 2 : Rank(s[i].do, s[i].about) = 42 + 3 * i
  BY <1>2, <1>3 DEF Await, Rank
<1>5. Piece(PipelineAwaits, s, 45, 49)
  BY <1>1, <1>4 DEF Piece
<1>6. QED
  BY <1>1, <1>2, <1>3, <1>5 DEF Keys, Await, s

\* The whole pipeline is a piece, and these are its awaits.
LEMMA PipelinePiece ==
    ASSUME NEW o \in Options
    PROVE  /\ Piece(PipelineAwaits, Pipeline(o), 1, 49)
           /\ Keys(Pipeline(o)) =
                  {<<"workspace", "workspace">>, <<"status", "succeeded">>, <<"done", "pipeline">>}
                  \cup StageKeys(o, "fetching") \cup Keys(ValidateAndExpand)
                  \cup StageKeys(o, "compiling") \cup Keys(ResolveAndCompile)
                  \cup StageKeys(o, "rendering") \cup Keys(RenderAndStore(o))
                  \cup StageKeys(o, "uploading")
<1> DEFINE first == <<Await("workspace", "workspace")>>
           s1 == Stage(o, "fetching", ValidateAndExpand)
           s2 == Stage(o, "compiling", ResolveAndCompile)
           s3 == Stage(o, "rendering", RenderAndStore(o))
           s4 == Stage(o, "uploading", <<>>)
           last == <<Await("status", "succeeded"), Await("done", "pipeline")>>
           p1 == first \o s1
           p2 == p1 \o s2
           p3 == p2 \o s3
           p4 == p3 \o s4
<1>1. /\ Piece(PipelineAwaits, <<Await("workspace", "workspace")>>, 1, 2)
      /\ Keys(<<Await("workspace", "workspace")>>) = {<<"workspace", "workspace">>}
  BY OnePiece DEF Await, PipelineAwaits, AwaitRec, Known, InPipeline, Rank, Files, Artifacts,
     Statuses, Terminal
<1>2. /\ Piece(PipelineAwaits, s1, 2, 12)
      /\ Keys(s1) = StageKeys(o, "fetching") \cup Keys(ValidateAndExpand)
  <2>1. 2 = Rank("check", "fetching") /\ 3 = Rank("status", "fetching")
    BY DEF Rank
  <2>2. Piece(PipelineAwaits, ValidateAndExpand, 4, 12)
    BY ValidateAndExpandPiece
  <2>3. StageFits("fetching", 2, 4, 12)
    BY <2>1 DEF StageFits
  <2>4. QED
    BY <2>1, <2>2, <2>3, StagePiece
<1>3. /\ Piece(PipelineAwaits, s2, 12, 23)
      /\ Keys(s2) = StageKeys(o, "compiling") \cup Keys(ResolveAndCompile)
  <2>1. 12 = Rank("check", "compiling") /\ 13 = Rank("status", "compiling")
    BY DEF Rank
  <2>2. Piece(PipelineAwaits, ResolveAndCompile, 14, 23)
    BY ResolveAndCompilePiece
  <2>3. StageFits("compiling", 12, 14, 23)
    BY <2>1 DEF StageFits
  <2>4. QED
    BY <2>1, <2>2, <2>3, StagePiece
<1>4. /\ Piece(PipelineAwaits, s3, 23, 43)
      /\ Keys(s3) = StageKeys(o, "rendering") \cup Keys(RenderAndStore(o))
  <2>1. 23 = Rank("check", "rendering") /\ 24 = Rank("status", "rendering")
    BY DEF Rank
  <2>2. Piece(PipelineAwaits, RenderAndStore(o), 26, 43)
    BY RenderAndStorePiece
  <2>3. StageFits("rendering", 23, 26, 43)
    BY <2>1 DEF StageFits
  <2>4. QED
    BY <2>1, <2>2, <2>3, StagePiece
<1>5. Piece(PipelineAwaits, s4, 43, 45) /\ Keys(s4) = StageKeys(o, "uploading")
  <2>1. 43 = Rank("check", "uploading") /\ 44 = Rank("status", "uploading")
    BY DEF Rank
  <2>2. Piece(PipelineAwaits, <<>>, 45, 45) /\ Keys(<<>>) = {}
    BY EmptyPiece
  <2>3. StageFits("uploading", 43, 45, 45)
    BY <2>1 DEF StageFits
  <2>4. Piece(PipelineAwaits, s4, 43, 45) /\ Keys(s4) = StageKeys(o, "uploading") \cup Keys(<<>>)
    BY <2>1, <2>2, <2>3, StagePiece
  <2>5. QED
    BY <2>2, <2>4
<1>6. Pipeline(o) = p4 \o last
  BY DEF Pipeline, Stage
<1>7. /\ Piece(PipelineAwaits, last, 45, 49)
      /\ Keys(last) = {<<"status", "succeeded">>, <<"done", "pipeline">>}
  BY PipelineEnd
<1> HIDE DEF first, s1, s2, s3, s4, last
<1>8. Piece(PipelineAwaits, p1, 1, 12) /\ Keys(p1) = Keys(first) \cup Keys(s1)
  BY <1>1, <1>2, Joined DEF first
<1> HIDE DEF p1
<1>9. Piece(PipelineAwaits, p2, 1, 23) /\ Keys(p2) = Keys(p1) \cup Keys(s2)
  BY <1>8, <1>3, Joined
<1> HIDE DEF p2
<1>10. Piece(PipelineAwaits, p3, 1, 43) /\ Keys(p3) = Keys(p2) \cup Keys(s3)
  BY <1>9, <1>4, Joined
<1> HIDE DEF p3
<1>11. Piece(PipelineAwaits, p4, 1, 45) /\ Keys(p4) = Keys(p3) \cup Keys(s4)
  BY <1>10, <1>5, Joined
<1> HIDE DEF p4
<1>12. Piece(PipelineAwaits, p4 \o last, 1, 49) /\ Keys(p4 \o last) = Keys(p4) \cup Keys(last)
  BY <1>11, <1>7, Joined
<1>13. Keys(first) = {<<"workspace", "workspace">>}
  BY <1>1 DEF first
<1>14. QED
  BY <1>2, <1>3, <1>4, <1>5, <1>6, <1>7, <1>8, <1>9, <1>10, <1>11, <1>12, <1>13

\* The two artifacts of a template's synchronous render, and a cancellation.
LEMMA TemplateSyncPiece ==
    /\ Piece(PipelineAwaits, TemplateSync, 1, 51)
    /\ Keys(TemplateSync) =
           {<<"publish", "input">>, <<"publish", "expanded">>, <<"name", "source">>}
<1> DEFINE s == TemplateSync
<1>1. s \in Seq(PipelineAwaits) /\ Len(s) = 3
  BY DEF TemplateSync, Await, AwaitRec, Artifacts, Files, Statuses, Terminal,
     PipelineAwaits, Known, InPipeline
<1>2. /\ s[1] = Await("publish", "input")
      /\ s[2] = Await("publish", "expanded")
      /\ s[3] = Await("name", "source")
  BY DEF TemplateSync
<1> HIDE DEF s
<1>3. 1 .. 3 = {1, 2, 3}
  OBVIOUS
<1>4. /\ Rank(s[1].do, s[1].about) = 5
      /\ Rank(s[2].do, s[2].about) = 9
      /\ Rank(s[3].do, s[3].about) = 11
  BY <1>2 DEF Await, Rank
<1>5. Piece(PipelineAwaits, s, 1, 51)
  BY <1>1, <1>3, <1>4 DEF Piece
<1>6. QED
  BY <1>1, <1>2, <1>3, <1>5 DEF Keys, Await, s

\* What a cancelled render still does.
LEMMA CancelledPiece ==
    /\ Piece(PipelineAwaits, <<Await("status", "cancelled"), Await("done", "cancelled")>>, 1, 51)
    /\ Keys(<<Await("status", "cancelled"), Await("done", "cancelled")>>) =
           {<<"status", "cancelled">>, <<"done", "cancelled">>}
<1> DEFINE s == <<Await("status", "cancelled"), Await("done", "cancelled")>>
<1>1. s \in Seq(PipelineAwaits) /\ Len(s) = 2
  BY DEF Await, AwaitRec, Artifacts, Files, Statuses, Terminal,
     PipelineAwaits, Known, InPipeline
<1>2. /\ s[1] = Await("status", "cancelled")
      /\ s[2] = Await("done", "cancelled")
  OBVIOUS
<1> HIDE DEF s
<1>3. 1 .. 2 = {1, 2}
  OBVIOUS
<1>4. /\ Rank(s[1].do, s[1].about) = 46
      /\ Rank(s[2].do, s[2].about) = 48
  BY <1>2 DEF Await, Rank
<1>5. Piece(PipelineAwaits, s, 1, 51)
  BY <1>1, <1>3, <1>4 DEF Piece
<1>6. QED
  BY <1>1, <1>2, <1>3, <1>5 DEF Keys, Await, s

\* A piece that becomes todo is in order, and its awaits are the due ones.
LEMMA InitPiece ==
    ASSUME NEW s, NEW lo, NEW hi, Piece(PipelineAwaits, s, lo, hi), todo = s, phase = "pipeline"
    PROVE  Ordered /\ Due = Keys(s)
<1>1. Pending = 1 .. Len(s) /\ Len(s) \in Nat
  BY DEF Piece, Pending
<1>2. \A i \in 1 .. Len(s) : s[i] \in PipelineAwaits
  BY DEF Piece
<1>3. QED
  BY <1>1, <1>2 DEF Piece, Ordered, Due, Keys, PipelineAwaits

\* A piece that becomes todo is what is due next.
LEMMA NextPiece ==
    ASSUME NEW s, NEW lo, NEW hi, Piece(PipelineAwaits, s, lo, hi), todo' = s, phase' = "pipeline"
    PROVE  Ordered' /\ Due' = Keys(s)
<1>1. Pending' = 1 .. Len(s) /\ Len(s) \in Nat
  BY DEF Piece, Pending
<1>2. \A i \in 1 .. Len(s) : s[i] \in PipelineAwaits
  BY DEF Piece
<1>3. \A i \in 1 .. Len(s) : Known(s[i]) /\ InPipeline(s[i])
  BY <1>2 DEF PipelineAwaits
<1>4. Ordered'
  BY <1>1, <1>3 DEF Piece, Ordered, Known, InPipeline
<1>5. Due' = Keys(s)
  BY <1>1 DEF Due, Keys
<1>6. QED
  BY <1>4, <1>5

\* The same for an epilogue.
LEMMA NextEpilogue ==
    ASSUME NEW s, NEW lo, NEW hi, Piece(EpilogueAwaits, s, lo, hi), todo' = s,
           phase' = "epilogue", options' = options
    PROVE  Ordered' /\ Due' = Keys(s)
<1>1. Pending' = 1 .. Len(s) /\ Len(s) \in Nat
  BY DEF Piece, Pending
<1>2. \A i \in 1 .. Len(s) : s[i] \in EpilogueAwaits
  BY DEF Piece
<1>3. \A i \in 1 .. Len(s) : Known(s[i]) /\ InEpilogue(s[i])
  BY <1>2 DEF EpilogueAwaits
<1>4. Ordered'
  BY <1>1, <1>3 DEF Piece, Ordered, Known, InEpilogue
<1>5. Due' = Keys(s)
  BY <1>1 DEF Due, Keys
<1>6. QED
  BY <1>4, <1>5

\* What an exception leaves to do: the clean-up of a handler, then the failure.
LEMMA ClearAllPiece ==
    /\ Piece(PipelineAwaits,
             <<Await("clear", "output"), Await("clear", "captions"),
               Await("clear", "poster")>>, 1, 50)
    /\ Keys(<<Await("clear", "output"), Await("clear", "captions"), Await("clear", "poster")>>) =
           {<<"clear", "output">>, <<"clear", "captions">>, <<"clear", "poster">>}
<1> DEFINE s == <<Await("clear", "output"), Await("clear", "captions"), Await("clear", "poster")>>
<1>1. s \in Seq(PipelineAwaits) /\ Len(s) = 3
  BY DEF Await, AwaitRec, Artifacts, Files, Statuses, Terminal,
     PipelineAwaits, Known, InPipeline
<1>2. /\ s[1] = Await("clear", "output")
      /\ s[2] = Await("clear", "captions")
      /\ s[3] = Await("clear", "poster")
  OBVIOUS
<1> HIDE DEF s
<1>3. 1 .. 3 = {1, 2, 3}
  OBVIOUS
<1>4. /\ Rank(s[1].do, s[1].about) = 25
      /\ Rank(s[2].do, s[2].about) = 26
      /\ Rank(s[3].do, s[3].about) = 27
  BY <1>2 DEF Await, Rank
<1>5. Piece(PipelineAwaits, s, 1, 50)
  BY <1>1, <1>3, <1>4 DEF Piece
<1>6. QED
  BY <1>1, <1>2, <1>3, <1>5 DEF Keys, Await, s

\* The clean-ups of the handlers only clear metadata.
LEMMA RecoveryPiece ==
    ASSUME NEW about
    PROVE  /\ Piece(PipelineAwaits, Recovery(about), 1, 50)
           /\ Keys(Recovery(about)) \subseteq
                  {<<"clear", "output">>, <<"clear", "captions">>, <<"clear", "poster">>}
           /\ <<"clear", "output">> \in Keys(Recovery(about)) => about = "postprocess"
<1>1. /\ Piece(PipelineAwaits, <<Await("clear", "captions")>>, 1, 50)
      /\ Keys(<<Await("clear", "captions")>>) = {<<"clear", "captions">>}
  BY OnePiece DEF Await, PipelineAwaits, AwaitRec, Known, InPipeline, Rank
<1>2. /\ Piece(PipelineAwaits, <<Await("clear", "poster")>>, 1, 50)
      /\ Keys(<<Await("clear", "poster")>>) = {<<"clear", "poster">>}
  BY OnePiece DEF Await, PipelineAwaits, AwaitRec, Known, InPipeline, Rank, Files, Artifacts,
     Statuses, Terminal
<1>3. Piece(PipelineAwaits, <<>>, 1, 50) /\ Keys(<<>>) = {}
  BY EmptyPiece
<1>4. QED
  BY <1>1, <1>2, <1>3, ClearAllPiece DEF Recovery

\* After an exception of the pipeline: the clean-up, and the failure.
LEMMA RaiseDue ==
    ASSUME NEW recovery, Piece(PipelineAwaits, recovery, 1, 50), Ordered, Pending # {},
           phase = "pipeline", todo[First].do # "fail", Raise(recovery)
    PROVE  Ordered' /\ Due' = Keys(recovery) \cup {<<"fail", About>>}
<1> DEFINE fail == <<Await("fail", About)>>
<1>1. Known(todo[First]) /\ InPipeline(todo[First])
  BY TurnIsLeast DEF Ordered
<1>2. Await("fail", About) \in PipelineAwaits
  <2>1. About \in Artifacts \cup Files \cup Statuses
                      \cup {"workspace", "merge", "capabilities", "assets", "compile", "render",
                            "captions", "postprocess", "poster_plan", "renderer", "source",
                            "pipeline", "all", "temporary", "timeout"}
    BY <1>1 DEF Known, About, Artifacts, Statuses, Terminal
  <2>2. QED
    BY <2>1 DEF Await, PipelineAwaits, AwaitRec, Known, InPipeline
<1>3. Rank("fail", About) = 50
  BY DEF Rank
<1>4. Piece(PipelineAwaits, fail, 50, 51) /\ Keys(fail) = {<<"fail", About>>}
  BY <1>2, <1>3, OnePiece
<1>5. todo' = recovery \o fail /\ phase' = "pipeline"
  BY <1>1 DEF Raise, InPipeline
<1> HIDE DEF fail
<1>6. /\ Piece(PipelineAwaits, recovery \o fail, 1, 51)
      /\ Keys(recovery \o fail) = Keys(recovery) \cup Keys(fail)
  BY <1>4, Joined
<1>7. QED
  BY <1>4, <1>5, <1>6, NextPiece

\* What follows the pipeline.
LEMMA FinalLogPiece ==
    /\ Piece(EpilogueAwaits, FinalLog, 40, 43)
    /\ Keys(FinalLog) = {<<"write", "logs.txt">>, <<"publish", "log">>, <<"name", "log">>}
<1> DEFINE s == FinalLog
<1>1. s \in Seq(EpilogueAwaits) /\ Len(s) = 3
  BY DEF FinalLog, Soft, AwaitRec, Artifacts, Files, Statuses, Terminal,
     EpilogueAwaits, Known, InEpilogue
<1>2. /\ s[1] = Soft("write", "logs.txt")
      /\ s[2] = Soft("publish", "log")
      /\ s[3] = Soft("name", "log")
  BY DEF FinalLog
<1> HIDE DEF s
<1>3. 1 .. 3 = {1, 2, 3}
  OBVIOUS
<1>4. /\ Rank(s[1].do, s[1].about) = 40
      /\ Rank(s[2].do, s[2].about) = 41
      /\ Rank(s[3].do, s[3].about) = 42
  BY <1>2 DEF Soft, Rank
<1>5. Piece(EpilogueAwaits, s, 40, 43)
  BY <1>1, <1>3, <1>4 DEF Piece
<1>6. QED
  BY <1>1, <1>2, <1>3, <1>5 DEF Keys, Soft, s

\* The final log without the write of its file.
LEMMA PublishedLogPiece ==
    /\ Piece(EpilogueAwaits, Tail(FinalLog), 41, 43)
    /\ Keys(Tail(FinalLog)) = {<<"publish", "log">>, <<"name", "log">>}
<1> DEFINE s == Tail(FinalLog)
<1>1. s \in Seq(EpilogueAwaits) /\ Len(s) = 2
  BY DEF FinalLog, Soft, AwaitRec, Artifacts, Files, Statuses, Terminal,
     EpilogueAwaits, Known, InEpilogue
<1>2. /\ s[1] = Soft("publish", "log")
      /\ s[2] = Soft("name", "log")
  BY DEF FinalLog
<1> HIDE DEF s
<1>3. 1 .. 2 = {1, 2}
  OBVIOUS
<1>4. /\ Rank(s[1].do, s[1].about) = 41
      /\ Rank(s[2].do, s[2].about) = 42
  BY <1>2 DEF Soft, Rank
<1>5. Piece(EpilogueAwaits, s, 41, 43)
  BY <1>1, <1>3, <1>4 DEF Piece
<1>6. Keys(s) = {<<"publish", "log">>, <<"name", "log">>}
  BY <1>1, <1>2, <1>3 DEF Keys, Soft
<1>7. QED
  BY <1>5, <1>6 DEF s

\* An await of an epilogue as a piece of its own.
LEMMA OneEnd ==
    ASSUME NEW a \in EpilogueAwaits, NEW lo \in Nat, NEW hi \in Nat,
           lo <= Rank(a.do, a.about), Rank(a.do, a.about) < hi
    PROVE  Piece(EpilogueAwaits, <<a>>, lo, hi) /\ Keys(<<a>>) = {<<a.do, a.about>>}
BY SinglePiece

\* After the pipeline: the log and the cleanup, for the worker.
LEMMA SuccessPathPiece ==
    /\ Piece(EpilogueAwaits, SuccessPath, 40, 51)
    /\ Keys(SuccessPath) =
           IF options.path = "worker"
           THEN {<<"write", "logs.txt">>, <<"publish", "log">>, <<"name", "log">>,
                 <<"cleanup", "all">>}
           ELSE {}
<1> DEFINE last == Await("cleanup", "all")
<1>1. last \in EpilogueAwaits /\ last.do = "cleanup" /\ last.about = "all"
  BY DEF Await, EpilogueAwaits, AwaitRec, Known, InEpilogue
<1>2. 43 <= Rank(last.do, last.about) /\ Rank(last.do, last.about) < 51
  BY <1>1 DEF Rank
<1> HIDE DEF last
<1>3. Piece(EpilogueAwaits, <<last>>, 43, 51) /\ Keys(<<last>>) = {<<"cleanup", "all">>}
  BY <1>1, <1>2, OneEnd
<1>4. /\ Piece(EpilogueAwaits, FinalLog \o <<last>>, 40, 51)
      /\ Keys(FinalLog \o <<last>>) = Keys(FinalLog) \cup Keys(<<last>>)
  BY <1>3, FinalLogPiece, JoinedEnd
<1>5. Piece(EpilogueAwaits, <<>>, 40, 51) /\ Keys(<<>>) = {}
  BY EmptyPiece
<1>6. QED
  BY <1>3, <1>4, <1>5, FinalLogPiece DEF SuccessPath, last

\* A piece may begin later than it is allowed to.
LEMMA Wider ==
    ASSUME NEW s, NEW hi, Piece(EpilogueAwaits, s, 16, hi)
    PROVE  Piece(EpilogueAwaits, s, 15, hi)
<1>1. \A i \in 1 .. Len(s) : 15 <= Rank(s[i].do, s[i].about)
  <2> SUFFICES ASSUME NEW i \in 1 .. Len(s)
               PROVE  15 <= Rank(s[i].do, s[i].about)
    OBVIOUS
  <2>1. 16 <= Rank(s[i].do, s[i].about) /\ Rank(s[i].do, s[i].about) \in Nat
    BY RankIsNat DEF Piece
  <2>2. QED
    BY <2>1
<1>2. QED
  BY <1>1 DEF Piece

\* The end of a failed render: its log if there is a workspace, and its status.
LEMMA FailurePathPiece ==
    ASSUME NEW about, options \in Options, ArtifactsAssumption
    PROVE  /\ Piece(EpilogueAwaits, FailurePath(about), 15, 51)
           /\ Keys(FailurePath(about)) \subseteq
                  {<<"renderer", "renderer">>, <<"write", "logs.txt">>, <<"publish", "log">>,
                   <<"name", "log">>, <<"status", "failed">>, <<"cleanup", "temporary">>}
           /\ options.path # "template" => <<"status", "failed">> \in Keys(FailurePath(about))
           /\ <<"name", "log">> \in Keys(FailurePath(about)) =>
                  <<"publish", "log">> \in Keys(FailurePath(about))
           /\ <<"write", "logs.txt">> \in Keys(FailurePath(about)) => workspace # Gone
<1> DEFINE first    == IF options.path = "sync" THEN Await("write", "logs.txt")
                                                ELSE Soft("write", "logs.txt")
           kept     == IF workspace = Gone THEN <<>> ELSE <<first>> \o Tail(FinalLog)
           hard     == Await("status", "failed")
           tolerant == Soft("status", "failed")
           cleanup  == IF workspace = Gone THEN <<>> ELSE <<Await("cleanup", "temporary")>>
           renderer == IF about = "capabilities" THEN <<Await("renderer", "renderer")>> ELSE <<>>
<1>1. Piece(EpilogueAwaits, <<first>>, 16, 41) /\ Keys(<<first>>) = {<<"write", "logs.txt">>}
  <2>1. /\ first \in EpilogueAwaits /\ first.do = "write" /\ first.about = "logs.txt"
    BY DEF Await, Soft, EpilogueAwaits, AwaitRec, Known, InEpilogue, Files
  <2>2. Rank(first.do, first.about) = 40
    BY <2>1 DEF Rank
  <2> HIDE DEF first
  <2>3. QED
    BY <2>1, <2>2, OneEnd
<1>2. /\ Piece(EpilogueAwaits, kept, 16, 43)
      /\ Keys(kept) = IF workspace = Gone THEN {}
                      ELSE {<<"write", "logs.txt">>, <<"publish", "log">>, <<"name", "log">>}
  <2> HIDE DEF first
  <2>1. /\ Piece(EpilogueAwaits, <<first>> \o Tail(FinalLog), 16, 43)
        /\ Keys(<<first>> \o Tail(FinalLog)) = Keys(<<first>>) \cup Keys(Tail(FinalLog))
    BY <1>1, PublishedLogPiece, JoinedEnd
  <2>2. Piece(EpilogueAwaits, <<>>, 16, 43) /\ Keys(<<>>) = {}
    BY EmptyPiece
  <2>3. QED
    BY <1>1, <2>1, <2>2, PublishedLogPiece
<1>3. /\ Piece(EpilogueAwaits, <<hard>>, 43, 48) /\ Keys(<<hard>>) = {<<"status", "failed">>}
      /\ Piece(EpilogueAwaits, <<tolerant>>, 43, 51)
      /\ Keys(<<tolerant>>) = {<<"status", "failed">>}
  <2>1. /\ hard \in EpilogueAwaits /\ hard.do = "status" /\ hard.about = "failed"
        /\ tolerant \in EpilogueAwaits /\ tolerant.do = "status" /\ tolerant.about = "failed"
    BY DEF Await, Soft, EpilogueAwaits, AwaitRec, Known, InEpilogue, Statuses, Terminal
  <2>2. 43 <= Rank("status", "failed") /\ Rank("status", "failed") < 48
    BY DEF Rank
  <2>3. Rank("status", "failed") < 51
    BY DEF Rank
  <2> HIDE DEF hard, tolerant
  <2>4. QED
    BY <2>1, <2>2, <2>3, OneEnd
<1>4. /\ Piece(EpilogueAwaits, cleanup, 48, 51)
      /\ Keys(cleanup) \subseteq {<<"cleanup", "temporary">>}
  <2> DEFINE a == Await("cleanup", "temporary")
  <2>1. a \in EpilogueAwaits /\ a.do = "cleanup" /\ a.about = "temporary"
    BY DEF Await, EpilogueAwaits, AwaitRec, Known, InEpilogue
  <2>2. 48 <= Rank(a.do, a.about) /\ Rank(a.do, a.about) < 51
    BY <2>1 DEF Rank
  <2> HIDE DEF a
  <2>3. Piece(EpilogueAwaits, <<a>>, 48, 51) /\ Keys(<<a>>) = {<<"cleanup", "temporary">>}
    BY <2>1, <2>2, OneEnd
  <2>4. QED
    BY <2>3, EmptyPiece DEF a
<1>5. /\ Piece(EpilogueAwaits, renderer, 15, 16)
      /\ Keys(renderer) \subseteq {<<"renderer", "renderer">>}
  <2> DEFINE a == Await("renderer", "renderer")
  <2>1. a \in EpilogueAwaits /\ a.do = "renderer" /\ a.about = "renderer"
    BY DEF Await, EpilogueAwaits, AwaitRec, Known, InEpilogue
  <2>2. 15 <= Rank(a.do, a.about) /\ Rank(a.do, a.about) < 16
    BY <2>1 DEF Rank
  <2> HIDE DEF a
  <2>3. Piece(EpilogueAwaits, <<a>>, 15, 16) /\ Keys(<<a>>) = {<<"renderer", "renderer">>}
    BY <2>1, <2>2, OneEnd
  <2>4. QED
    BY <2>3, EmptyPiece DEF a
<1>6. CASE options.path = "worker"
  <2>1. FailurePath(about) = (kept \o <<hard>>) \o cleanup
    BY <1>6 DEF FailurePath
  <2> HIDE DEF kept, hard, cleanup
  <2>2. /\ Piece(EpilogueAwaits, kept \o <<hard>>, 16, 48)
        /\ Keys(kept \o <<hard>>) = Keys(kept) \cup Keys(<<hard>>)
    BY <1>2, <1>3, JoinedEnd
  <2>3. /\ Piece(EpilogueAwaits, (kept \o <<hard>>) \o cleanup, 16, 51)
        /\ Keys((kept \o <<hard>>) \o cleanup) = Keys(kept \o <<hard>>) \cup Keys(cleanup)
    BY <1>4, <2>2, JoinedEnd
  <2>4. Keys(FailurePath(about)) = Keys(kept) \cup Keys(<<hard>>) \cup Keys(cleanup)
    BY <2>1, <2>2, <2>3
  <2>5. Piece(EpilogueAwaits, FailurePath(about), 15, 51)
    BY <2>1, <2>3, Wider
  <2>6. QED
    BY <1>2, <1>3, <1>4, <2>4, <2>5
<1>7. CASE options.path = "sync"
  <2>1. FailurePath(about) = (renderer \o kept) \o <<tolerant>>
    BY <1>7 DEF FailurePath
  <2> HIDE DEF kept, renderer, tolerant
  <2>2. /\ Piece(EpilogueAwaits, renderer \o kept, 15, 43)
        /\ Keys(renderer \o kept) = Keys(renderer) \cup Keys(kept)
    BY <1>2, <1>5, JoinedEnd
  <2>3. /\ Piece(EpilogueAwaits, (renderer \o kept) \o <<tolerant>>, 15, 51)
        /\ Keys((renderer \o kept) \o <<tolerant>>) = Keys(renderer \o kept) \cup Keys(<<tolerant>>)
    BY <1>3, <2>2, JoinedEnd
  <2>4. Keys(FailurePath(about)) = Keys(renderer) \cup Keys(kept) \cup Keys(<<tolerant>>)
    BY <2>1, <2>2, <2>3
  <2>5. QED
    BY <1>2, <1>3, <1>5, <2>1, <2>3, <2>4
<1>8. CASE options.path = "template"
  <2>1. FailurePath(about) = IF about \in Artifacts THEN <<hard>> ELSE <<>>
    BY <1>8 DEF FailurePath
  <2>2. Piece(EpilogueAwaits, <<>>, 15, 51) /\ Keys(<<>>) = {}
    BY EmptyPiece
  <2> HIDE DEF hard
  <2>3. QED
    BY <1>3, <1>8, <2>1, <2>2, RankIsNat DEF Piece
<1>9. QED
  BY <1>6, <1>7, <1>8 DEF Options, ArtifactsAssumption

-----------------------------------------------------------------------------
(* The invariant holds initially.                                          *)

\* The awaits of the pipeline, by stage.
LEMMA InitDue ==
    ASSUME Init, options.path # "template"
    PROVE  /\ Ordered
           /\ Due =
                 {<<"workspace", "workspace">>, <<"status", "succeeded">>, <<"done", "pipeline">>}
                    \cup StageKeys(options, "fetching") \cup Keys(ValidateAndExpand)
                    \cup StageKeys(options, "compiling") \cup Keys(ResolveAndCompile)
                    \cup StageKeys(options, "rendering")
                    \cup Keys(Finish(options)) \cup Keys(PublishOutput(options))
                    \cup Keys(PublishCaptions(options)) \cup Keys(PublishPoster(options))
                    \cup Keys(PublishLog)
                    \cup StageKeys(options, "uploading")
<1>1. options \in Options /\ todo = Pipeline(options) /\ phase = "pipeline"
  BY DEF Init
<1>2. Ordered /\ Due = Keys(Pipeline(options))
  BY <1>1, PipelinePiece, InitPiece
<1>3. QED
  BY <1>1, <1>2, PipelinePiece, RenderAndStorePiece

\* The awaits of a synchronous template render.
LEMMA InitTemplateDue ==
    ASSUME Init, options.path = "template"
    PROVE  Ordered /\ Due =
           {<<"publish", "input">>, <<"publish", "expanded">>, <<"name", "source">>}
BY TemplateSyncPiece, InitPiece DEF Init

\* The pipeline publishes, names and describes in the order the invariant asks for.
LEMMA InitIInv == Init => IInv
<1> SUFFICES ASSUME Init
             PROVE  IInv
  OBVIOUS
<1>1. /\ options \in Options
      /\ row = [status |-> "queued", named |-> {}, output |-> FALSE,
                captions |-> "none", poster |-> "none"]
      /\ store = {} /\ log = "none" /\ workspace = Gone /\ phase = "pipeline" /\ faults = {}
  BY DEF Init
<1>2. TypeOK
  BY <1>1 DEF TypeOK, Terminal
<1>3. /\ NamedIsPublished /\ MetadataIsWhole /\ RenderingIsReplayable /\ SucceededIsComplete
      /\ SuccessStays
  BY <1>1 DEF NamedIsPublished, MetadataIsWhole, RenderingIsReplayable, SucceededIsComplete,
     SuccessStays
<1>4. CASE options.path = "template"
  <2>1. Ordered /\ Due = {<<"publish", "input">>, <<"publish", "expanded">>, <<"name", "source">>}
    BY <1>4, InitTemplateDue
  <2>2. PublishedFirst
    BY <2>1 DEF PublishedFirst, Names, Named
  <2>3. OutputFirst /\ SourcesFirst /\ SuccessLast /\ WorkspaceFirst
    BY <2>1 DEF OutputFirst, SourcesFirst, SuccessLast, WorkspaceFirst
  <2>4. EndAhead
    BY <1>4, <2>1 DEF EndAhead, Excused
  <2>5. QED
    BY <1>2, <1>3, <2>1, <2>2, <2>3, <2>4 DEF IInv
<1>5. CASE options.path # "template"
  <2>1. /\ Ordered
        /\ Due = {<<"workspace", "workspace">>, <<"status", "succeeded">>, <<"done", "pipeline">>}
                 \cup StageKeys(options, "fetching") \cup Keys(ValidateAndExpand)
                 \cup StageKeys(options, "compiling") \cup Keys(ResolveAndCompile)
                 \cup StageKeys(options, "rendering")
                 \cup Keys(Finish(options)) \cup Keys(PublishOutput(options))
                 \cup Keys(PublishCaptions(options)) \cup Keys(PublishPoster(options))
                 \cup Keys(PublishLog)
                 \cup StageKeys(options, "uploading")
    BY <1>5, InitDue
  <2>2. /\ {<<"workspace", "workspace">>, <<"status", "succeeded">>, <<"name", "input">>,
            <<"name", "expanded">>, <<"name", "compiled">>, <<"describe", "output">>,
            <<"name", "log">>, <<"describe", "poster">>} \subseteq Due
        /\ {<<"publish", "input">>, <<"publish", "expanded">>, <<"publish", "compiled">>,
            <<"publish", "replay">>, <<"publish", "output">>, <<"publish", "log">>} \subseteq Due
        /\ options.format = "sequence" => <<"publish", "manifest">> \in Due
        /\ options.captions = "sidecar" => <<"publish", "sidecar">> \in Due
        /\ options.captions # "none" => <<"describe", "captions">> \in Due
        /\ PosterMode(options) # "disabled" => <<"publish", "poster">> \in Due
    BY <1>1, <2>1, ValidateAndExpandPiece, ResolveAndCompilePiece, FinishPiece,
       PublishOutputPiece, PublishCaptionsPiece, PublishPosterPiece, PublishLogPiece
  <2>3. \A k \in Due :
           /\ k[1] = "name" => k[2] \in {"input", "expanded", "compiled", "log"}
           /\ k[1] = "describe" => k[2] \in {"output", "captions", "poster"}
           /\ k[1] # "fail"
    BY <1>1, <2>1, ValidateAndExpandPiece, ResolveAndCompilePiece, FinishPiece,
       PublishOutputPiece, PublishCaptionsPiece, PublishPosterPiece, PublishLogPiece
    DEF StageKeys
  <2>4. PublishedFirst
    BY <2>2, <2>3 DEF PublishedFirst, Names, Named, Describes
  <2>5. OutputFirst /\ SourcesFirst /\ SuccessLast /\ WorkspaceFirst
    BY <1>1, <2>2 DEF OutputFirst, SourcesFirst, SuccessLast, WorkspaceFirst, Options
  <2>6. EndAhead
    BY <2>2, <2>3 DEF EndAhead
  <2>7. QED
    BY <1>2, <1>3, <2>1, <2>4, <2>5, <2>6 DEF IInv
<1>6. QED
  BY <1>4, <1>5

-----------------------------------------------------------------------------
(* What a step leaves of the invariant.                                    *)

\* A due await is one of those there are.
LEMMA DueIsKnown ==
    ASSUME Ordered, NEW k \in Due
    PROVE  /\ k = <<k[1], k[2]>>
           /\ k[1] = "name" => k[2] \in {"input", "expanded", "source", "compiled", "log"}
           /\ k[1] = "describe" => k[2] \in {"output", "captions", "poster"}
           /\ k[1] = "publish" => k[2] \in Artifacts
           /\ k[1] = "write" => k[2] \in Files
           /\ k[1] = "status" => k[2] \in Statuses
           /\ k[1] = "workspace" => k[2] = "workspace"
           /\ phase = "pipeline" => k[1] # "cleanup" /\ k # <<"status", "failed">>
           /\ phase = "epilogue" =>
                  \/ k \in {<<"write", "logs.txt">>, <<"publish", "log">>, <<"name", "log">>,
                            <<"status", "failed">>}
                  \/ k[1] \in {"renderer", "cleanup"}
<1>1. PICK i \in Pending : k = <<todo[i].do, todo[i].about>>
  BY DEF Due
<1>2. Known(todo[i]) /\ k[1] = todo[i].do /\ k[2] = todo[i].about
  BY <1>1 DEF Ordered
<1>3. /\ phase = "pipeline" => InPipeline(todo[i])
      /\ phase = "epilogue" => InEpilogue(todo[i])
  BY DEF Ordered
<1>4. /\ k[1] = "name" => k[2] \in {"input", "expanded", "source", "compiled", "log"}
      /\ k[1] = "describe" => k[2] \in {"output", "captions", "poster"}
      /\ k[1] = "publish" => k[2] \in Artifacts
      /\ k[1] = "write" => k[2] \in Files
      /\ k[1] = "status" => k[2] \in Statuses
      /\ k[1] = "workspace" => k[2] = "workspace"
  BY <1>2 DEF Known
<1>5. phase = "pipeline" => k[1] # "cleanup" /\ k # <<"status", "failed">>
  BY <1>2, <1>3 DEF InPipeline
<1>6. phase = "epilogue" =>
          \/ k \in {<<"write", "logs.txt">>, <<"publish", "log">>, <<"name", "log">>,
                    <<"status", "failed">>}
          \/ k[1] \in {"renderer", "cleanup"}
  BY <1>1, <1>2, <1>3 DEF InEpilogue
<1>7. QED
  BY <1>1, <1>2, <1>4, <1>5, <1>6

\* An await that has come before the one whose turn it is, is not due any more.
LEMMA BeforeTurn ==
    ASSUME Ordered, Pending # {}, NEW do, NEW about, Rank(do, about) < Rank(Turn[1], Turn[2])
    PROVE  <<do, about>> \notin Due
BY TurnIsLeast, RankIsNat DEF Turn

\* What an await names is published before its turn.
LEMMA NamesArePublished ==
    ASSUME Ordered, PublishedFirst, Pending # {}
    PROVE  Names(Turn[1], Turn[2]) \subseteq store
<1> SUFFICES ASSUME NEW x \in Names(Turn[1], Turn[2])
             PROVE  x \in store
  OBVIOUS
<1>1. Turn \in Due
  BY TurnIsLeast
<1>2. x \in store \/ <<"publish", x>> \in Due
  BY <1>1 DEF PublishedFirst
<1>3. Turn[1] \in {"name", "describe"}
  BY DEF Names
<1>4. /\ Turn[1] = "name" => Turn[2] \in {"input", "expanded", "source", "compiled", "log"}
      /\ Turn[1] = "describe" => Turn[2] \in {"output", "captions", "poster"}
  BY <1>1, DueIsKnown
<1>5. Rank("publish", x) < Rank(Turn[1], Turn[2])
  BY <1>3, <1>4 DEF Names, Named, Describes, Rank
<1>6. QED
  BY <1>2, <1>5, BeforeTurn

\* What is taken from the awaits still due, the workspace being the same.
LEMMA WorkspaceKept ==
    ASSUME WorkspaceFirst, Due' \subseteq Due, workspace' = workspace,
           <<"workspace", "workspace">> \in Due => <<"workspace", "workspace">> \in Due'
    PROVE  WorkspaceFirst'
BY DEF WorkspaceFirst

\* A terminal status stays ahead as long as no status is taken.
LEMMA EndKept ==
    ASSUME EndAhead, Due' = Due \ {Turn}, Turn[1] \notin {"status", "fail"},
           UNCHANGED <<options, phase, faults>>, row'.status = row.status
    PROVE  EndAhead'
<1>1. Excused' = Excused
  BY DEF Excused
<1>2. \A k \in Due : k[1] \in {"status", "fail"} => k \in Due'
  OBVIOUS
<1>3. Due' \subseteq Due
  OBVIOUS
<1>4. Due \cap {<<"status", "succeeded">>, <<"status", "cancelled">>, <<"status", "failed">>} # {}
      => Due' \cap {<<"status", "succeeded">>, <<"status", "cancelled">>,
                    <<"status", "failed">>} # {}
  BY <1>2
<1>5. QED
  BY <1>1, <1>2, <1>3, <1>4 DEF EndAhead

\* What is true of row and published artifacts stays true when neither changes.
LEMMA RowKept ==
    ASSUME IInv, UNCHANGED <<options, row>>, store \subseteq store'
    PROVE  /\ NamedIsPublished' /\ MetadataIsWhole' /\ RenderingIsReplayable'
           /\ SucceededIsComplete'
BY DEF IInv, NamedIsPublished, MetadataIsWhole, RenderingIsReplayable, SucceededIsComplete

\* A step that takes an await which neither publishes nor writes to the row.
LEMMA Taken ==
    ASSUME IInv, Pending # {}, Advance, UNCHANGED <<options, row, store, phase, faults>>,
           Turn[1] \in {"workspace", "write", "work", "renderer", "check", "cleanup"},
           TypeOK', WorkspaceFirst'
    PROVE  IInv'
<1>1. Ordered' /\ Due' = Due \ {Turn}
  BY AdvanceDue DEF IInv
<1>2. Due' \subseteq Due
  BY <1>1
<1>3. \A k \in Due : k[1] \in {"publish", "name", "describe"} => k \in Due'
  BY <1>1
<1>4. PublishedFirst'
  <2>1. \A k : Names(k[1], k[2])' = Names(k[1], k[2])
    BY DEF Names, Describes
  <2>2. QED
    BY <1>2, <1>3, <2>1 DEF IInv, PublishedFirst
<1>5. OutputFirst'
  BY <1>2, <1>3 DEF IInv, OutputFirst
<1>6. SourcesFirst'
  BY <1>2, <1>3 DEF IInv, SourcesFirst
<1>7. SuccessLast'
  BY <1>2, <1>3 DEF IInv, SuccessLast
<1>8. SuccessStays'
  BY <1>2 DEF IInv, SuccessStays
<1>9. EndAhead'
  BY <1>1, EndKept DEF IInv
<1>10. QED
  BY <1>1, <1>4, <1>5, <1>6, <1>7, <1>8, <1>9, RowKept DEF IInv

\* Whatever is due when the pipeline has been left, or is about to be: only the log is
\* still published and named, and nothing leads to success any more.
Closing ==
    {<<"status", "failed">>, <<"status", "cancelled">>, <<"done", "cancelled">>,
     <<"write", "logs.txt">>, <<"publish", "log">>, <<"name", "log">>}

\* Whatever leaves row and artifacts alone and only closing awaits due keeps it.
LEMMA Aftermath ==
    ASSUME IInv, UNCHANGED <<options, row, store>>, TypeOK', Ordered', EndAhead',
           \A k \in Due' : k[1] \in {"clear", "fail", "cleanup", "renderer"} \/ k \in Closing,
           <<"name", "log">> \in Due' => <<"publish", "log">> \in Due',
           <<"clear", "output">> \in Due' => ~row.output,
           (\E k \in Due' : k[1] = "clear") => row.status # "succeeded",
           workspace' = Gone => \A k \in Due' : k[1] \notin {"write", "done"}
    PROVE  IInv'
<1>1. PublishedFirst'
  <2> SUFFICES ASSUME NEW k \in Due', NEW x \in Names(k[1], k[2])'
               PROVE  x \in store' \/ <<"publish", x>> \in Due'
    BY DEF PublishedFirst
  <2>1. k[1] \in {"name", "describe"}
    BY DEF Names
  <2>2. k = <<"name", "log">>
    BY <2>1 DEF Closing
  <2>3. x = "log"
    BY <2>2 DEF Names, Named
  <2>4. QED
    BY <2>2, <2>3
<1>2. Due' \cap {<<"describe", "captions">>, <<"describe", "poster">>, <<"describe", "output">>,
                 <<"work", "postprocess">>, <<"status", "rendering">>, <<"status", "uploading">>,
                 <<"status", "succeeded">>} = {}
  BY DEF Closing
<1>3. OutputFirst' /\ SourcesFirst' /\ SuccessLast'
  BY <1>2 DEF OutputFirst, SourcesFirst, SuccessLast
<1>4. SuccessStays'
  BY DEF SuccessStays, Closing
<1>5. WorkspaceFirst'
  BY DEF WorkspaceFirst, Closing
<1>6. QED
  BY <1>1, <1>3, <1>4, <1>5, RowKept DEF IInv

-----------------------------------------------------------------------------
(* Every step keeps the invariant.                                         *)

\* The guard of an action says whose turn it is.
LEMMA NowTurn ==
    ASSUME Ordered, NEW do, Now(do)
    PROVE  Pending # {} /\ Turn \in Due /\ Turn = <<do, About>> /\ todo[First].do = do
BY TurnIsLeast DEF Now, Turn

\* Awaits that touch the workspace only, or nothing at all.
LEMMA CreateWorkspaceIInv == IInv /\ CreateWorkspace => IInv'
<1> SUFFICES ASSUME IInv, CreateWorkspace
             PROVE  IInv'
  OBVIOUS
<1>1. Pending # {} /\ Turn = <<"workspace", About>>
  BY NowTurn DEF IInv, CreateWorkspace
<1>2. workspace' = {} /\ Advance /\ UNCHANGED <<options, row, store, log, phase, faults>>
  BY DEF CreateWorkspace
<1>3. TypeOK'
  BY <1>2 DEF IInv, TypeOK
<1>4. WorkspaceFirst'
  BY <1>2 DEF WorkspaceFirst, Gone
<1>5. QED
  BY <1>1, <1>2, <1>3, <1>4, Taken

\* A file is written into a workspace that is there.
LEMMA WriteFileIInv == IInv /\ WriteFile => IInv'
<1> SUFFICES ASSUME IInv, WriteFile
             PROVE  IInv'
  OBVIOUS
<1>1. Pending # {} /\ Turn = <<"write", About>> /\ Turn \in Due
  BY NowTurn DEF IInv, WriteFile
<1>2. /\ workspace' = workspace \cup {About} /\ Advance
      /\ UNCHANGED <<options, row, store, log, phase, faults>>
  BY DEF WriteFile
<1>3. About \in Files
  BY <1>1, DueIsKnown DEF IInv
<1>4. workspace # Gone
  <2>1. Rank("workspace", "workspace") < Rank("write", About)
    BY <1>3 DEF Rank
  <2>2. <<"workspace", "workspace">> \notin Due
    BY <1>1, <2>1, BeforeTurn DEF IInv
  <2>3. QED
    BY <1>1, <2>2 DEF IInv, WorkspaceFirst
<1>5. workspace' \in SUBSET Files
  BY <1>2, <1>3, <1>4 DEF IInv, TypeOK
<1>6. TypeOK'
  BY <1>2, <1>5 DEF IInv, TypeOK
<1>7. WorkspaceFirst'
  BY <1>5 DEF WorkspaceFirst, Gone, Files
<1>8. QED
  BY <1>1, <1>2, <1>6, <1>7, Taken

\* So is the output of the subprocess.
LEMMA WorkIInv == IInv /\ Work => IInv'
<1> SUFFICES ASSUME IInv, Work
             PROVE  IInv'
  OBVIOUS
<1>1. Pending # {} /\ Turn = <<"work", About>> /\ Turn \in Due
  BY NowTurn DEF IInv, Work
<1>2. /\ workspace' = workspace \cup (IF About = "render" THEN {"media"} ELSE {})
      /\ Advance /\ UNCHANGED <<options, row, store, log, phase, faults>>
  BY DEF Work
<1>3. workspace # Gone
  <2>1. Rank("workspace", "workspace") < Rank("work", About)
    BY DEF Rank
  <2>2. <<"workspace", "workspace">> \notin Due
    BY <1>1, <2>1, BeforeTurn DEF IInv
  <2>3. QED
    BY <1>1, <2>2 DEF IInv, WorkspaceFirst
<1>4. workspace' \in SUBSET Files
  BY <1>2, <1>3 DEF IInv, TypeOK, Files
<1>5. TypeOK'
  BY <1>2, <1>4 DEF IInv, TypeOK
<1>6. WorkspaceFirst'
  BY <1>4 DEF WorkspaceFirst, Gone, Files
<1>7. QED
  BY <1>1, <1>2, <1>5, <1>6, Taken

\* The renderer's column and the checkpoints concern none of the properties.
LEMMA UnchangedIInv ==
    ASSUME IInv, NEW do \in {"renderer", "check"}, Now(do), SetRow(row)
    PROVE  IInv'
<1>1. Pending # {} /\ Turn = <<do, About>>
  BY NowTurn DEF IInv
<1>2. Advance /\ UNCHANGED <<options, row, store, log, workspace, phase, faults>>
  BY DEF SetRow
<1>3. TypeOK'
  BY <1>2 DEF IInv, TypeOK
<1>4. WorkspaceFirst'
  <2>1. Due' = Due \ {Turn}
    BY <1>1, <1>2, AdvanceDue DEF IInv
  <2>2. QED
    BY <1>1, <1>2, <2>1, WorkspaceKept DEF IInv
<1>5. QED
  BY <1>1, <1>2, <1>3, <1>4, Taken

\* What the cleanup removes nobody needs: it is the last await there is.
LEMMA CleanupIInv == IInv /\ Cleanup => IInv'
<1> SUFFICES ASSUME IInv, Cleanup
             PROVE  IInv'
  OBVIOUS
<1>1. Pending # {} /\ Turn = <<"cleanup", About>>
  BY NowTurn DEF IInv, Cleanup
<1>2. /\ workspace' = (IF About = "all" THEN Gone ELSE workspace \cap Preserved) /\ Advance
      /\ UNCHANGED <<options, row, store, log, phase, faults>>
  BY DEF Cleanup
<1>3. workspace' \in (SUBSET Files) \cup {Gone}
  BY <1>2 DEF IInv, TypeOK, Files, Preserved
<1>4. TypeOK'
  BY <1>2, <1>3 DEF IInv, TypeOK
<1>5. Due' = Due \ {Turn}
  BY <1>1, <1>2, AdvanceDue DEF IInv
<1>6. ASSUME NEW k \in Due', k[1] \in {"write", "work", "check", "done"}
      PROVE  FALSE
  <2>1. k \in Due /\ k # Turn
    BY <1>5
  <2>2. Rank("cleanup", About) < Rank(k[1], k[2])
    BY <1>1, <2>1, TurnIsLeast DEF IInv
  <2>3. QED
    BY <1>6, <2>2 DEF Rank
<1>7. WorkspaceFirst'
  BY <1>6 DEF WorkspaceFirst
<1>8. QED
  BY <1>1, <1>2, <1>4, <1>7, Taken

\* Publishing takes one await and adds the artifact it was about.
LEMMA PublishIInv == IInv /\ Publish => IInv'
<1> SUFFICES ASSUME IInv, Publish
             PROVE  IInv'
  OBVIOUS
<1>1. Pending # {} /\ Turn = <<"publish", About>> /\ Turn \in Due
  BY NowTurn DEF IInv, Publish
<1>2. /\ store' = store \cup {About} /\ log' \in {log, "stderr", "collected", "error"}
      /\ Advance /\ UNCHANGED <<options, row, workspace, phase, faults>>
  BY DEF Publish
<1>3. TypeOK'
  <2>1. About \in Artifacts
    BY <1>1, DueIsKnown DEF IInv
  <2>2. QED
    BY <1>2, <2>1 DEF IInv, TypeOK
<1>4. Ordered' /\ Due' = Due \ {Turn}
  BY <1>1, <1>2, AdvanceDue DEF IInv
<1>5. Due' \subseteq Due
  BY <1>4
<1>6. \A k \in Due : k[1] # "publish" => k \in Due'
  BY <1>1, <1>4
<1>7. PublishedFirst'
  <2> SUFFICES ASSUME NEW k \in Due', NEW x \in Names(k[1], k[2])'
               PROVE  x \in store' \/ <<"publish", x>> \in Due'
    BY DEF PublishedFirst
  <2>1. k \in Due /\ x \in Names(k[1], k[2])
    BY <1>2, <1>5 DEF Names, Describes
  <2>2. x \in store \/ <<"publish", x>> \in Due
    BY <2>1 DEF IInv, PublishedFirst
  <2>3. CASE <<"publish", x>> = Turn
    BY <1>1, <1>2, <2>3
  <2>4. CASE <<"publish", x>> # Turn
    BY <1>2, <1>4, <2>2, <2>4
  <2>5. QED
    BY <2>3, <2>4
<1>8. OutputFirst'
  BY <1>2, <1>5, <1>6 DEF IInv, OutputFirst
<1>9. SourcesFirst'
  BY <1>2, <1>5, <1>6 DEF IInv, SourcesFirst
<1>10. SuccessLast'
  BY <1>2, <1>5, <1>6 DEF IInv, SuccessLast
<1>11. SuccessStays'
  BY <1>2, <1>5 DEF IInv, SuccessStays
<1>12. WorkspaceFirst'
  BY <1>1, <1>2, <1>5, <1>6, WorkspaceKept DEF IInv
<1>13. EndAhead'
  BY <1>1, <1>2, <1>4, EndKept DEF IInv
<1>14. QED
  BY <1>2, <1>3, <1>4, <1>7, <1>8, <1>9, <1>10, <1>11, <1>12, <1>13, RowKept DEF IInv

\* What every commit to the row leaves as it was.
LEMMA RowWritten ==
    ASSUME IInv, NEW do \in {"name", "describe", "clear", "status"}, Now(do), NEW new, SetRow(new)
    PROVE  /\ Pending # {} /\ Turn = <<do, About>> /\ Turn \in Due
           /\ row' = new /\ UNCHANGED <<options, store, log, workspace, phase, faults>>
           /\ Ordered' /\ Due' = Due \ {Turn} /\ Due' \subseteq Due
           /\ WorkspaceFirst' /\ PublishedFirst'
<1>1. Pending # {} /\ Turn = <<do, About>> /\ Turn \in Due
  BY NowTurn DEF IInv
<1>2. row' = new /\ Advance /\ UNCHANGED <<options, store, log, workspace, phase, faults>>
  BY DEF SetRow
<1>3. Ordered' /\ Due' = Due \ {Turn} /\ Due' \subseteq Due
  BY <1>1, <1>2, AdvanceDue DEF IInv
<1>4. WorkspaceFirst'
  BY <1>1, <1>2, <1>3, WorkspaceKept DEF IInv
<1>5. PublishedFirst'
  <2> SUFFICES ASSUME NEW k \in Due', NEW x \in Names(k[1], k[2])'
               PROVE  x \in store' \/ <<"publish", x>> \in Due'
    BY DEF PublishedFirst
  <2>1. k \in Due /\ x \in Names(k[1], k[2])
    BY <1>2, <1>3 DEF Names, Describes
  <2>2. x \in store \/ <<"publish", x>> \in Due
    BY <2>1 DEF IInv, PublishedFirst
  <2>3. QED
    BY <1>1, <1>2, <1>3, <2>2
<1>6. QED
  BY <1>1, <1>2, <1>3, <1>4, <1>5

\* What is named has been published, and is named in one commit.
LEMMA UpdatePathsIInv == IInv /\ UpdatePaths => IInv'
<1> SUFFICES ASSUME IInv, UpdatePaths
             PROVE  IInv'
  OBVIOUS
<1> DEFINE new == [row EXCEPT !.named = @ \cup Named(About)]
<1>1. Now("name") /\ SetRow(new)
  BY DEF UpdatePaths
<1> HIDE DEF new
<1>2. /\ Pending # {} /\ Turn = <<"name", About>> /\ Turn \in Due
      /\ row' = new /\ UNCHANGED <<options, store, log, workspace, phase, faults>>
      /\ Ordered' /\ Due' = Due \ {Turn} /\ Due' \subseteq Due
      /\ WorkspaceFirst' /\ PublishedFirst'
  BY <1>1, RowWritten
<1>3. /\ row'.named = row.named \cup Named(About)
      /\ row'.status = row.status /\ row'.output = row.output
      /\ row'.captions = row.captions /\ row'.poster = row.poster
  BY <1>2 DEF new, IInv, TypeOK
<1>4. About \in {"input", "expanded", "source", "compiled", "log"}
  BY <1>2, DueIsKnown DEF IInv
<1>5. /\ Named(About) \subseteq {"input", "expanded", "compiled", "replay", "log"}
      /\ About \in {"input", "expanded", "log"} => About \in Named(About)
      /\ About = "compiled" => Named(About) = {"compiled", "replay"}
  BY <1>4 DEF Named
<1>6. TypeOK'
  <2>1. row.named \subseteq Artifacts /\ Named(About) \subseteq Artifacts
    BY <1>5 DEF IInv, TypeOK, Artifacts
  <2>2. QED
    BY <1>2, <2>1 DEF new, IInv, TypeOK
<1>7. NamedIsPublished'
  <2>1. Named(About) \subseteq store
    BY <1>2, NamesArePublished DEF IInv, Names
  <2>2. QED
    BY <1>2, <1>3, <2>1 DEF IInv, NamedIsPublished
<1>8. OutputFirst'
  BY <1>2, <1>3 DEF IInv, OutputFirst
<1>9. MetadataIsWhole'
  BY <1>2, <1>3, <1>5 DEF IInv, MetadataIsWhole
<1>10. SourcesFirst'
  BY <1>2, <1>3, <1>5 DEF IInv, SourcesFirst
<1>11. RenderingIsReplayable'
  BY <1>3 DEF IInv, RenderingIsReplayable
<1>12. SuccessLast'
  BY <1>2, <1>3, <1>5 DEF IInv, SuccessLast
<1>13. SuccessStays'
  BY <1>2, <1>3 DEF IInv, SuccessStays
<1>14. SucceededIsComplete'
  BY <1>2, <1>3 DEF IInv, SucceededIsComplete
<1>15. EndAhead'
  BY <1>2, <1>3, EndKept DEF IInv
<1>16. QED
  BY <1>2, <1>6, <1>7, <1>8, <1>9, <1>10, <1>11, <1>12, <1>13, <1>14, <1>15 DEF IInv

\* The output is described when the sources are named.
LEMMA UpdateOutputIInv == IInv /\ UpdateOutput => IInv'
<1> SUFFICES ASSUME IInv, UpdateOutput
             PROVE  IInv'
  OBVIOUS
<1> DEFINE new == [row EXCEPT !.output = TRUE,
                              !.named = (@ \ {"manifest"}) \cup {"output"}
                                        \cup (IF options.format = "sequence"
                                              THEN {"manifest"} ELSE {})]
<1>1. Now("describe") /\ About = "output" /\ SetRow(new)
  BY DEF UpdateOutput
<1> HIDE DEF new
<1>2. /\ Pending # {} /\ Turn = <<"describe", "output">> /\ Turn \in Due
      /\ row' = new /\ UNCHANGED <<options, store, log, workspace, phase, faults>>
      /\ Ordered' /\ Due' = Due \ {Turn} /\ Due' \subseteq Due
      /\ WorkspaceFirst' /\ PublishedFirst'
  BY <1>1, RowWritten
<1>3. /\ row'.named = (row.named \ {"manifest"}) \cup {"output"}
                      \cup (IF options.format = "sequence" THEN {"manifest"} ELSE {})
      /\ row'.output = TRUE /\ row'.status = row.status
      /\ row'.captions = row.captions /\ row'.poster = row.poster
  BY <1>2 DEF new, IInv, TypeOK
<1>4. TypeOK'
  <2>1. row.named \subseteq Artifacts /\ {"output", "manifest"} \subseteq Artifacts
    BY DEF IInv, TypeOK, Artifacts
  <2>2. QED
    BY <1>2, <2>1 DEF new, IInv, TypeOK
<1>5. NamedIsPublished'
  <2>1. Describes("output") \subseteq store
    BY <1>2, NamesArePublished DEF IInv, Names
  <2>2. QED
    BY <1>2, <1>3, <2>1 DEF IInv, NamedIsPublished, Describes
<1>6. <<"clear", "output">> \notin Due /\ <<"work", "postprocess">> \notin Due
  <2>1. /\ Rank("clear", "output") < Rank("describe", "output")
        /\ Rank("work", "postprocess") < Rank("describe", "output")
    BY DEF Rank
  <2>2. QED
    BY <1>2, <2>1, BeforeTurn DEF IInv
<1>7. OutputFirst'
  BY <1>2, <1>3, <1>6 DEF IInv, OutputFirst
<1>8. MetadataIsWhole'
  BY <1>2, <1>3 DEF IInv, MetadataIsWhole
<1>9. {"input", "expanded", "compiled", "replay"} \subseteq row.named
  <2>1. /\ Rank("name", "input") < Rank("describe", "output")
        /\ Rank("name", "expanded") < Rank("describe", "output")
        /\ Rank("name", "compiled") < Rank("describe", "output")
    BY DEF Rank
  <2>2. /\ <<"name", "input">> \notin Due /\ <<"name", "expanded">> \notin Due
        /\ <<"name", "compiled">> \notin Due
    BY <1>2, <2>1, BeforeTurn DEF IInv
  <2>3. QED
    BY <1>2, <2>2 DEF IInv, SourcesFirst
<1>10. {"input", "expanded", "compiled", "replay"} \subseteq row'.named
  BY <1>3, <1>9
<1>11. SourcesFirst' /\ RenderingIsReplayable'
  BY <1>10 DEF SourcesFirst, RenderingIsReplayable
<1>12. SuccessLast'
  BY <1>2, <1>3 DEF IInv, SuccessLast
<1>13. row.status # "succeeded"
  BY <1>2 DEF IInv, SuccessStays
<1>14. SuccessStays' /\ SucceededIsComplete'
  BY <1>3, <1>13 DEF SuccessStays, SucceededIsComplete
<1>15. EndAhead'
  BY <1>2, <1>3, EndKept DEF IInv
<1>16. QED
  BY <1>2, <1>4, <1>5, <1>7, <1>8, <1>11, <1>12, <1>14, <1>15 DEF IInv

\* Captions are described when the output is.
LEMMA UpdateCaptionsIInv == IInv /\ UpdateCaptions => IInv'
<1> SUFFICES ASSUME IInv, UpdateCaptions
             PROVE  IInv'
  OBVIOUS
<1> DEFINE new == [row EXCEPT !.captions = options.captions,
                              !.named = (@ \ {"sidecar"})
                                        \cup (IF options.captions = "sidecar"
                                              THEN {"sidecar"} ELSE {})]
<1>1. Now("describe") /\ About = "captions" /\ SetRow(new)
  BY DEF UpdateCaptions
<1> HIDE DEF new
<1>2. /\ Pending # {} /\ Turn = <<"describe", "captions">> /\ Turn \in Due
      /\ row' = new /\ UNCHANGED <<options, store, log, workspace, phase, faults>>
      /\ Ordered' /\ Due' = Due \ {Turn} /\ Due' \subseteq Due
      /\ WorkspaceFirst' /\ PublishedFirst'
  BY <1>1, RowWritten
<1>3. /\ row'.named = (row.named \ {"sidecar"})
                      \cup (IF options.captions = "sidecar" THEN {"sidecar"} ELSE {})
      /\ row'.output = row.output /\ row'.status = row.status
      /\ row'.captions = options.captions /\ row'.poster = row.poster
  BY <1>2 DEF new, IInv, TypeOK
<1>4. TypeOK'
  <2>1. row.named \subseteq Artifacts /\ "sidecar" \in Artifacts
    BY DEF IInv, TypeOK, Artifacts
  <2>2. QED
    BY <1>2, <2>1 DEF new, IInv, TypeOK, Options
<1>5. NamedIsPublished'
  <2>1. Describes("captions") \subseteq store
    BY <1>2, NamesArePublished DEF IInv, Names
  <2>2. QED
    BY <1>2, <1>3, <2>1 DEF IInv, NamedIsPublished, Describes
<1>6. <<"clear", "captions">> \notin Due /\ <<"describe", "output">> \notin Due
  <2>1. /\ Rank("clear", "captions") < Rank("describe", "captions")
        /\ Rank("describe", "output") < Rank("describe", "captions")
    BY DEF Rank
  <2>2. QED
    BY <1>2, <2>1, BeforeTurn DEF IInv
<1>7. row.output
  BY <1>2, <1>6 DEF IInv, OutputFirst
<1>8. OutputFirst'
  BY <1>2, <1>3, <1>7 DEF IInv, OutputFirst
<1>9. MetadataIsWhole'
  BY <1>2, <1>3, <1>7 DEF IInv, MetadataIsWhole
<1>10. SourcesFirst'
  BY <1>2, <1>3 DEF IInv, SourcesFirst
<1>11. RenderingIsReplayable'
  BY <1>3 DEF IInv, RenderingIsReplayable
<1>12. SuccessLast'
  BY <1>2, <1>3, <1>6 DEF IInv, SuccessLast
<1>13. row.status # "succeeded"
  BY <1>2 DEF IInv, SuccessStays
<1>14. SuccessStays' /\ SucceededIsComplete'
  BY <1>3, <1>13 DEF SuccessStays, SucceededIsComplete
<1>15. EndAhead'
  BY <1>2, <1>3, EndKept DEF IInv
<1>16. QED
  BY <1>2, <1>4, <1>5, <1>8, <1>9, <1>10, <1>11, <1>12, <1>14, <1>15 DEF IInv

\* The poster is described when the output is.
LEMMA UpdatePosterIInv == IInv /\ UpdatePoster => IInv'
<1> SUFFICES ASSUME IInv, UpdatePoster
             PROVE  IInv'
  OBVIOUS
<1> DEFINE new == [row EXCEPT !.poster = PosterMode(options),
                              !.named = (@ \ {"poster"})
                                        \cup (IF PosterMode(options) = "disabled"
                                              THEN {} ELSE {"poster"})]
<1>1. Now("describe") /\ About = "poster" /\ SetRow(new)
  BY DEF UpdatePoster
<1> HIDE DEF new
<1>2. /\ Pending # {} /\ Turn = <<"describe", "poster">> /\ Turn \in Due
      /\ row' = new /\ UNCHANGED <<options, store, log, workspace, phase, faults>>
      /\ Ordered' /\ Due' = Due \ {Turn} /\ Due' \subseteq Due
      /\ WorkspaceFirst' /\ PublishedFirst'
  BY <1>1, RowWritten
<1>3. /\ row'.named = (row.named \ {"poster"})
                      \cup (IF PosterMode(options) = "disabled" THEN {} ELSE {"poster"})
      /\ row'.output = row.output /\ row'.status = row.status
      /\ row'.captions = row.captions /\ row'.poster = PosterMode(options)
      /\ PosterMode(options) \in {"default", "requested", "disabled"}
  BY <1>2 DEF new, IInv, TypeOK, Options, PosterMode
<1>4. TypeOK'
  <2>1. row.named \subseteq Artifacts /\ "poster" \in Artifacts
    BY DEF IInv, TypeOK, Artifacts
  <2>2. QED
    BY <1>2, <1>3, <2>1 DEF new, IInv, TypeOK
<1>5. NamedIsPublished'
  <2>1. Describes("poster") \subseteq store
    BY <1>2, NamesArePublished DEF IInv, Names
  <2>2. QED
    BY <1>2, <1>3, <2>1 DEF IInv, NamedIsPublished, Describes
<1>6. <<"clear", "poster">> \notin Due /\ <<"describe", "output">> \notin Due
  <2>1. /\ Rank("clear", "poster") < Rank("describe", "poster")
        /\ Rank("describe", "output") < Rank("describe", "poster")
    BY DEF Rank
  <2>2. QED
    BY <1>2, <2>1, BeforeTurn DEF IInv
<1>7. row.output
  BY <1>2, <1>6 DEF IInv, OutputFirst
<1>8. OutputFirst'
  BY <1>2, <1>3, <1>7 DEF IInv, OutputFirst
<1>9. MetadataIsWhole'
  BY <1>2, <1>3, <1>7 DEF IInv, MetadataIsWhole
<1>10. SourcesFirst'
  BY <1>2, <1>3 DEF IInv, SourcesFirst
<1>11. RenderingIsReplayable'
  BY <1>3 DEF IInv, RenderingIsReplayable
<1>12. SuccessLast'
  BY <1>2, <1>3, <1>6 DEF IInv, SuccessLast
<1>13. row.status # "succeeded"
  BY <1>2 DEF IInv, SuccessStays
<1>14. SuccessStays' /\ SucceededIsComplete'
  BY <1>3, <1>13 DEF SuccessStays, SucceededIsComplete
<1>15. EndAhead'
  BY <1>2, <1>3, EndKept DEF IInv
<1>16. QED
  BY <1>2, <1>4, <1>5, <1>8, <1>9, <1>10, <1>11, <1>12, <1>14, <1>15 DEF IInv

\* The clean-up of a failed postprocessing finds no output to withdraw.
LEMMA ClearOutputIInv == IInv /\ ClearOutput => IInv'
<1> SUFFICES ASSUME IInv, ClearOutput
             PROVE  IInv'
  OBVIOUS
<1> DEFINE new == [row EXCEPT !.output = FALSE, !.named = @ \ {"manifest"}]
<1>1. Now("clear") /\ About = "output" /\ SetRow(new)
  BY DEF ClearOutput
<1> HIDE DEF new
<1>2. /\ Pending # {} /\ Turn = <<"clear", "output">> /\ Turn \in Due
      /\ row' = new /\ UNCHANGED <<options, store, log, workspace, phase, faults>>
      /\ Ordered' /\ Due' = Due \ {Turn} /\ Due' \subseteq Due
      /\ WorkspaceFirst' /\ PublishedFirst'
  BY <1>1, RowWritten
<1>3. ~row.output /\ "manifest" \notin row.named
  BY <1>2 DEF IInv, OutputFirst, MetadataIsWhole
<1>4. new = row
  <2>1. row.output = FALSE
    BY <1>3 DEF IInv, TypeOK
  <2>2. row.named \ {"manifest"} = row.named
    BY <1>3
  <2>3. QED
    BY <2>1, <2>2 DEF new, IInv, TypeOK
<1>5. row' = row
  BY <1>2, <1>4
<1>6. TypeOK'
  BY <1>2, <1>5 DEF IInv, TypeOK
<1>7. OutputFirst' /\ SourcesFirst' /\ SuccessStays'
  BY <1>2, <1>5 DEF IInv, OutputFirst, SourcesFirst, SuccessStays
<1>8. SuccessLast'
  BY <1>2, <1>5 DEF IInv, SuccessLast
<1>9. EndAhead'
  BY <1>2, <1>5, EndKept DEF IInv
<1>10. QED
  BY <1>2, <1>5, <1>6, <1>7, <1>8, <1>9, RowKept DEF IInv

\* Withdrawn captions take their description with them.
LEMMA ClearCaptionsIInv == IInv /\ ClearCaptions => IInv'
<1> SUFFICES ASSUME IInv, ClearCaptions
             PROVE  IInv'
  OBVIOUS
<1> DEFINE new == [row EXCEPT !.captions = "none", !.named = @ \ {"sidecar"}]
<1>1. Now("clear") /\ About = "captions" /\ SetRow(new)
  BY DEF ClearCaptions
<1> HIDE DEF new
<1>2. /\ Pending # {} /\ Turn = <<"clear", "captions">> /\ Turn \in Due
      /\ row' = new /\ UNCHANGED <<options, store, log, workspace, phase, faults>>
      /\ Ordered' /\ Due' = Due \ {Turn} /\ Due' \subseteq Due
      /\ WorkspaceFirst' /\ PublishedFirst'
  BY <1>1, RowWritten
<1>3. /\ row'.named = row.named \ {"sidecar"}
      /\ row'.output = row.output /\ row'.status = row.status
      /\ row'.captions = "none" /\ row'.poster = row.poster
  BY <1>2 DEF new, IInv, TypeOK
<1>4. TypeOK'
  BY <1>2, <1>3 DEF new, IInv, TypeOK
<1>5. NamedIsPublished'
  BY <1>2, <1>3 DEF IInv, NamedIsPublished
<1>6. OutputFirst'
  BY <1>2, <1>3 DEF IInv, OutputFirst
<1>7. MetadataIsWhole'
  BY <1>2, <1>3 DEF IInv, MetadataIsWhole
<1>8. SourcesFirst' /\ RenderingIsReplayable'
  BY <1>2, <1>3 DEF IInv, SourcesFirst, RenderingIsReplayable
<1>9. SuccessLast'
  BY <1>2, <1>3 DEF IInv, SuccessLast
<1>10. row.status # "succeeded"
  BY <1>2 DEF IInv, SuccessStays
<1>11. SuccessStays' /\ SucceededIsComplete'
  BY <1>3, <1>10 DEF SuccessStays, SucceededIsComplete
<1>12. EndAhead'
  BY <1>2, <1>3, EndKept DEF IInv
<1>13. QED
  BY <1>2, <1>4, <1>5, <1>6, <1>7, <1>8, <1>9, <1>11, <1>12 DEF IInv

\* So does a withdrawn poster.
LEMMA ClearPosterIInv == IInv /\ ClearPoster => IInv'
<1> SUFFICES ASSUME IInv, ClearPoster
             PROVE  IInv'
  OBVIOUS
<1> DEFINE new == [row EXCEPT !.poster = "none", !.named = @ \ {"poster"}]
<1>1. Now("clear") /\ About = "poster" /\ SetRow(new)
  BY DEF ClearPoster
<1> HIDE DEF new
<1>2. /\ Pending # {} /\ Turn = <<"clear", "poster">> /\ Turn \in Due
      /\ row' = new /\ UNCHANGED <<options, store, log, workspace, phase, faults>>
      /\ Ordered' /\ Due' = Due \ {Turn} /\ Due' \subseteq Due
      /\ WorkspaceFirst' /\ PublishedFirst'
  BY <1>1, RowWritten
<1>3. /\ row'.named = row.named \ {"poster"}
      /\ row'.output = row.output /\ row'.status = row.status
      /\ row'.captions = row.captions /\ row'.poster = "none"
  BY <1>2 DEF new, IInv, TypeOK
<1>4. TypeOK'
  BY <1>2, <1>3 DEF new, IInv, TypeOK
<1>5. NamedIsPublished'
  BY <1>2, <1>3 DEF IInv, NamedIsPublished
<1>6. OutputFirst'
  BY <1>2, <1>3 DEF IInv, OutputFirst
<1>7. MetadataIsWhole'
  BY <1>2, <1>3 DEF IInv, MetadataIsWhole
<1>8. SourcesFirst' /\ RenderingIsReplayable'
  BY <1>2, <1>3 DEF IInv, SourcesFirst, RenderingIsReplayable
<1>9. SuccessLast'
  BY <1>2, <1>3 DEF IInv, SuccessLast
<1>10. row.status # "succeeded"
  BY <1>2 DEF IInv, SuccessStays
<1>11. SuccessStays' /\ SucceededIsComplete'
  BY <1>3, <1>10 DEF SuccessStays, SucceededIsComplete
<1>12. EndAhead'
  BY <1>2, <1>3, EndKept DEF IInv
<1>13. QED
  BY <1>2, <1>4, <1>5, <1>6, <1>7, <1>8, <1>9, <1>11, <1>12 DEF IInv

\* What must come before success has come, and nothing comes after it that withdraws it.
LEMMA SuccessIsEarned ==
    ASSUME IInv, Pending # {}, Turn = <<"status", "succeeded">>
    PROVE  /\ {"input", "expanded", "compiled", "replay", "output", "log"} \subseteq row.named
           /\ row.captions = options.captions
           /\ row.poster = PosterMode(options) \/ options.poster = "default"
           /\ \A k \in Due : k[1] \notin {"clear", "describe", "work"}
<1>1. Turn \in Due
  BY TurnIsLeast DEF IInv
<1>2. \A k \in Due : k[1] \notin {"clear", "describe", "work", "name"}
  <2> SUFFICES ASSUME NEW k \in Due, k[1] \in {"clear", "describe", "work", "name"}
               PROVE  FALSE
    OBVIOUS
  <2>1. Rank("status", "succeeded") < Rank(k[1], k[2])
    BY TurnIsLeast DEF IInv
  <2>2. QED
    BY <2>1 DEF Rank
<1>3. {"input", "expanded", "compiled", "replay"} \subseteq row.named
  BY <1>1, <1>2 DEF IInv, SourcesFirst
<1>4. {"output", "log"} \subseteq row.named
  BY <1>1, <1>2 DEF IInv, SuccessLast
<1>5. row.captions = options.captions
  <2>1. options.captions = "none" \/ row.captions = options.captions
    BY <1>1, <1>2 DEF IInv, SuccessLast
  <2>2. options.captions = "none" => row.captions = "none"
    BY DEF IInv, MetadataIsWhole
  <2>3. QED
    BY <2>1, <2>2
<1>6. row.poster = PosterMode(options) \/ options.poster = "default"
  BY <1>1, <1>2 DEF IInv, SuccessLast
<1>7. QED
  BY <1>2, <1>3, <1>4, <1>5, <1>6

\* Every status is written when what it promises is there.
LEMMA UpdateStatusIInv == IInv /\ UpdateStatus => IInv'
<1> SUFFICES ASSUME IInv, UpdateStatus
             PROVE  IInv'
  OBVIOUS
<1> DEFINE new == IF row.status \in Terminal THEN row ELSE [row EXCEPT !.status = About]
<1>1. Now("status") /\ SetRow(new)
  BY DEF UpdateStatus
<1> HIDE DEF new
<1>2. /\ Pending # {} /\ Turn = <<"status", About>> /\ Turn \in Due
      /\ row' = new /\ UNCHANGED <<options, store, log, workspace, phase, faults>>
      /\ Ordered' /\ Due' = Due \ {Turn} /\ Due' \subseteq Due
      /\ WorkspaceFirst' /\ PublishedFirst'
  BY <1>1, RowWritten
<1>3. /\ row'.named = row.named /\ row'.output = row.output
      /\ row'.captions = row.captions /\ row'.poster = row.poster
      /\ row'.status = IF row.status \in Terminal THEN row.status ELSE About
      /\ About \in Statuses
  <2>1. About \in Statuses
    BY <1>2, DueIsKnown DEF IInv
  <2>2. QED
    BY <1>2, <2>1 DEF new, IInv, TypeOK
<1>4. TypeOK'
  BY <1>2, <1>3 DEF new, IInv, TypeOK, Statuses
<1>5. NamedIsPublished' /\ MetadataIsWhole'
  BY <1>2, <1>3 DEF IInv, NamedIsPublished, MetadataIsWhole
<1>6. OutputFirst'
  BY <1>2, <1>3 DEF IInv, OutputFirst
<1>7. SourcesFirst'
  BY <1>2, <1>3 DEF IInv, SourcesFirst
<1>8. RenderingIsReplayable'
  <2>1. CASE row'.status = row.status
    BY <1>3, <2>1 DEF IInv, RenderingIsReplayable
  <2>2. CASE row'.status = About /\ About \in {"rendering", "uploading", "succeeded"}
    <3>1. /\ Rank("name", "input") < Rank("status", About)
          /\ Rank("name", "expanded") < Rank("status", About)
          /\ Rank("name", "compiled") < Rank("status", About)
      BY <2>2 DEF Rank
    <3>2. /\ <<"name", "input">> \notin Due /\ <<"name", "expanded">> \notin Due
          /\ <<"name", "compiled">> \notin Due
      BY <1>2, <3>1, BeforeTurn DEF IInv
    <3>3. {"input", "expanded", "compiled", "replay"} \subseteq row.named
      BY <1>2, <2>2, <3>2 DEF IInv, SourcesFirst
    <3>4. QED
      BY <1>3, <3>3 DEF RenderingIsReplayable
  <2>3. CASE row'.status = About /\ About \notin {"rendering", "uploading", "succeeded"}
    BY <1>3, <2>3 DEF IInv, RenderingIsReplayable
  <2>4. QED
    BY <1>3, <2>1, <2>2, <2>3
<1>9. SuccessLast'
  BY <1>2, <1>3 DEF IInv, SuccessLast
<1>10. SuccessStays' /\ SucceededIsComplete'
  <2>1. CASE row'.status = row.status
    <3>1. SuccessStays'
      BY <1>2, <2>1 DEF IInv, SuccessStays
    <3>2. SucceededIsComplete'
      BY <1>2, <1>3, <2>1 DEF IInv, SucceededIsComplete
    <3>3. QED
      BY <3>1, <3>2
  <2>2. CASE row'.status = About /\ About = "succeeded"
    <3>1. Turn = <<"status", "succeeded">>
      BY <1>2, <2>2
    <3>2. /\ {"input", "expanded", "compiled", "replay", "output", "log"} \subseteq row.named
          /\ row.captions = options.captions
          /\ row.poster = PosterMode(options) \/ options.poster = "default"
          /\ \A k \in Due : k[1] \notin {"clear", "describe", "work"}
      BY <1>2, <3>1, SuccessIsEarned
    <3>3. QED
      BY <1>2, <1>3, <3>2 DEF SuccessStays, SucceededIsComplete
  <2>3. CASE row'.status # "succeeded"
    BY <2>3 DEF SuccessStays, SucceededIsComplete
  <2>4. QED
    BY <1>3, <2>1, <2>2, <2>3
<1>11. EndAhead'
  <2>1. Excused' = Excused
    BY <1>2 DEF Excused
  <2>2. \A k \in Due : k # Turn => k \in Due'
    BY <1>2
  <2>3. row.status \in Terminal => row'.status \in Terminal
    BY <1>3
  <2>4. About \in Terminal => row'.status \in Terminal
    BY <1>3
  <2>5. \A x \in Terminal : <<"status", x>> \in Due =>
            <<"status", x>> \in Due' \/ row'.status \in Terminal
    BY <1>2, <2>2, <2>4
  <2>6. CASE Due \cap {<<"status", "succeeded">>, <<"status", "cancelled">>,
                       <<"status", "failed">>} # {}
    BY <1>2, <2>5, <2>6 DEF IInv, EndAhead, Terminal
  <2>7. CASE Due \cap {<<"status", "succeeded">>, <<"status", "cancelled">>,
                       <<"status", "failed">>} = {}
    BY <1>2, <2>1, <2>2, <2>3, <2>7 DEF IInv, EndAhead
  <2>8. QED
    BY <2>6, <2>7
<1>12. QED
  BY <1>2, <1>4, <1>5, <1>6, <1>7, <1>8, <1>9, <1>10, <1>11 DEF IInv

\* In an epilogue nothing is due that needs what a failure left undone.
LEMMA EpilogueDue ==
    ASSUME IInv, phase = "epilogue"
    PROVE  /\ \A k \in Due : k[1] \in {"renderer", "cleanup"} \/ k \in Closing
           /\ workspace = Gone => \A k \in Due : k[1] \notin {"write", "done"}
           /\ \A k \in Due : k[1] \notin {"clear", "fail"}
           /\ \A x : <<"status", x>> \in Due => x = "failed"
<1>1. \A k \in Due :
          \/ k \in {<<"write", "logs.txt">>, <<"publish", "log">>, <<"name", "log">>,
                    <<"status", "failed">>}
          \/ k[1] \in {"renderer", "cleanup"}
  BY DueIsKnown DEF IInv
<1>2. \A k \in Due : k[1] \in {"renderer", "cleanup"} \/ k \in Closing
  BY <1>1 DEF Closing
<1>3. workspace = Gone => \A k \in Due : k[1] \notin {"write", "done"}
  <2>1. <<"workspace", "workspace">> \notin Due
    BY <1>1
  <2>2. QED
    BY <1>1, <2>1 DEF IInv, WorkspaceFirst
<1>4. \A k \in Due : k[1] \notin {"clear", "fail"}
  BY <1>1
<1>5. \A x : <<"status", x>> \in Due => x = "failed"
  <2> SUFFICES ASSUME NEW x, <<"status", x>> \in Due
               PROVE  x = "failed"
    OBVIOUS
  <2> DEFINE k == <<"status", x>>
  <2>1. k \in Due /\ k[1] = "status" /\ k[2] = x
    OBVIOUS
  <2> HIDE DEF k
  <2>2. QED
    BY <1>1, <2>1
<1>6. QED
  BY <1>2, <1>3, <1>4, <1>5

\* A tolerated failure of an epilogue gives up the log, if it is about the log.
LEMMA Tolerated ==
    ASSUME IInv, Pending # {}, todo[First].soft, Raise(<<>>), TypeOK', faults \subseteq faults',
           Excused' \/ Turn[1] # "status"
    PROVE  IInv'
<1> DEFINE a == IF About = "logs.txt" THEN "log" ELSE About
<1>1. First \in Pending /\ Turn \in Due
  BY TurnIsLeast DEF IInv
<1>2. phase = "epilogue"
  BY <1>1 DEF IInv, TypeOK, Ordered, InPipeline
<1>3. About \in {"logs.txt", "log"} \/ (About = "failed" /\ Turn = <<"status", "failed">>)
  <2>1. InEpilogue(todo[First]) /\ todo[First].about = About
    BY <1>1, <1>2 DEF IInv, Ordered, About
  <2>2. QED
    BY <2>1 DEF InEpilogue, Turn
<1>4. Turn[2] = About /\ (a = "log" \/ (a = "failed" /\ Turn = <<"status", "failed">>))
  BY <1>3 DEF Turn
<1>5. /\ todo' = [i \in Keep(a) |-> todo[i]]
      /\ UNCHANGED <<options, row, store, log, workspace, phase>>
  BY DEF Raise
<1> HIDE DEF a
<1>6. Ordered' /\ Due' = {k \in Due : k # Turn /\ k[2] # a}
  BY <1>5, KeepDue DEF IInv
<1>7. Due' \subseteq Due
  BY <1>6
<1>8. <<"name", "log">> \notin Due'
  <2>1. CASE a = "log"
    BY <1>6, <2>1
  <2>2. CASE Turn = <<"status", "failed">>
    <3>1. Rank("name", "log") < Rank("status", "failed")
      BY DEF Rank
    <3>2. <<"name", "log">> \notin Due
      BY <2>2, <3>1, BeforeTurn DEF IInv
    <3>3. QED
      BY <1>7, <3>2
  <2>3. QED
    BY <1>4, <2>1, <2>2
<1>9. EndAhead'
  <2>1. CASE Excused'
    BY <1>2, <1>7, <2>1, EpilogueDue DEF EndAhead
  <2>2. CASE Turn[1] # "status"
    <3>1. Excused => Excused'
      BY <1>5 DEF Excused
    <3>2. <<"status", "failed">> \in Due => <<"status", "failed">> \in Due'
      BY <1>4, <1>6, <2>2
    <3>3. QED
      BY <1>2, <1>5, <1>7, <3>1, <3>2, EpilogueDue DEF IInv, EndAhead
  <2>3. QED
    BY <2>1, <2>2
<1>10. QED
  BY <1>2, <1>5, <1>6, <1>7, <1>8, <1>9, EpilogueDue, Aftermath

\* Nothing is due after a failure nobody handles, or the death of the process.
LEMMA GivenUp ==
    ASSUME IInv, todo' = <<>>, UNCHANGED <<options, row, store, phase>>, TypeOK', Excused'
    PROVE  IInv'
<1>1. Pending' = {}
  BY DEF Pending
<1>2. Ordered' /\ Due' = {}
  BY <1>1 DEF Ordered, Due
<1>3. EndAhead'
  BY <1>2 DEF EndAhead
<1>4. QED
  BY <1>2, <1>3, Aftermath

\* A failure of the pipeline leaves the clean-up of its handler and the caller's.
LEMMA Handled ==
    ASSUME IInv, NEW recovery, Piece(PipelineAwaits, recovery, 1, 50), Pending # {},
           phase = "pipeline", todo[First].do # "fail", Raise(recovery), TypeOK',
           Keys(recovery) \subseteq
               {<<"clear", "output">>, <<"clear", "captions">>, <<"clear", "poster">>},
           Keys(recovery) # {} => Turn[1] = "work",
           <<"clear", "output">> \in Keys(recovery) => Turn = <<"work", "postprocess">>
    PROVE  IInv'
<1>1. Turn \in Due
  BY TurnIsLeast DEF IInv
<1>2. Ordered' /\ Due' = Keys(recovery) \cup {<<"fail", About>>}
  BY RaiseDue DEF IInv
<1>3. UNCHANGED <<options, row, store, log, workspace, phase>>
  BY DEF Raise
<1>4. \A k \in Due' : k[1] \in {"clear", "fail"}
  BY <1>2
<1>5. <<"clear", "output">> \in Due' => ~row.output
  BY <1>1, <1>2 DEF IInv, OutputFirst
<1>6. (\E k \in Due' : k[1] = "clear") => row.status # "succeeded"
  BY <1>1, <1>2 DEF IInv, SuccessStays
<1>7. EndAhead'
  <2>1. <<"fail", About>> \in Due' /\ phase' = "pipeline"
    BY <1>2, <1>3
  <2>2. \E k \in Due' : k[1] = "fail"
    BY <2>1
  <2>3. QED
    BY <1>4, <2>1, <2>2 DEF EndAhead
<1>8. QED
  BY <1>2, <1>3, <1>4, <1>5, <1>6, <1>7, Aftermath

\* No clean-up is a clean-up too.
LEMMA NothingKept == Piece(PipelineAwaits, <<>>, 1, 50) /\ Keys(<<>>) = {}
BY EmptyPiece

\* An exception that no stage handles: of the pipeline, tolerated, or the job's end.
LEMMA RaiseIInv ==
    ASSUME IInv, Pending # {}, todo[First].do # "fail", Raise(<<>>), TypeOK',
           faults \subseteq faults',
           \/ phase = "pipeline"
           \/ Excused'
           \/ todo[First].soft /\ Turn[1] # "status"
    PROVE  IInv'
<1>1. CASE todo[First].soft
  <2>1. Excused' \/ Turn[1] # "status"
    <3>1. phase = "pipeline" => Turn[1] # "status"
      <4>1. First \in Pending
        BY TurnIsLeast DEF IInv
      <4>2. QED
        BY <1>1, <4>1 DEF IInv, Ordered, InPipeline
    <3>2. QED
      BY <3>1
  <2>2. QED
    BY <1>1, <2>1, Tolerated
<1>2. CASE ~todo[First].soft /\ phase = "pipeline"
  BY <1>2, NothingKept, Handled
<1>3. CASE ~todo[First].soft /\ phase # "pipeline"
  <2>1. todo' = <<>> /\ UNCHANGED <<options, row, store, phase>> /\ Excused'
    BY <1>3 DEF Raise
  <2>2. QED
    BY <2>1, GivenUp
<1>4. QED
  BY <1>1, <1>2, <1>3

\* A fault is one of those there may be.
LEMMA SufferTypeOK ==
    ASSUME IInv, NEW fault, Suffer(fault),
           UNCHANGED <<options, row, store, log, workspace, phase>>
    PROVE  TypeOK' /\ fault \in faults' /\ faults \subseteq faults'
BY DEF IInv, TypeOK, Suffer

\* Giving up the poster: what is still due describes everything else.
LEMMA GiveUpPosterIInv ==
    ASSUME IInv, Now("work"), About = "poster", options.poster = "default", GiveUpPoster,
           UNCHANGED faults
    PROVE  IInv'
<1>1. Pending # {} /\ Turn = <<"work", "poster">> /\ Turn \in Due
  BY NowTurn DEF IInv
<1>2. phase = "pipeline"
  BY <1>1, EpilogueDue DEF IInv, TypeOK, Closing
<1>3. UNCHANGED <<options, row, store, log, workspace, phase, faults>>
  BY DEF GiveUpPoster
<1>4. /\ Ordered'
      /\ Due' = {k \in Due : k # Turn /\ k[2] # "poster"} \cup {<<"clear", "poster">>}
  BY <1>1, <1>2, GiveUpPosterDue DEF IInv
<1>5. /\ \A k \in Due : k # Turn /\ k[2] # "poster" => k \in Due'
      /\ \A k \in Due' : k # <<"clear", "poster">> => k \in Due /\ k[2] # "poster"
  BY <1>4
<1>6. TypeOK'
  BY <1>3 DEF IInv, TypeOK
<1>7. PublishedFirst'
  <2> SUFFICES ASSUME NEW k \in Due', NEW x \in Names(k[1], k[2])'
               PROVE  x \in store' \/ <<"publish", x>> \in Due'
    BY DEF PublishedFirst
  <2>1. k[1] \in {"name", "describe"} /\ x \in Names(k[1], k[2])
    BY <1>3 DEF Names, Describes
  <2>2. k \in Due /\ k[2] # "poster"
    BY <1>5, <2>1
  <2>3. x \in store \/ <<"publish", x>> \in Due
    BY <2>1, <2>2 DEF IInv, PublishedFirst
  <2>4. /\ k[1] = "name" => k[2] \in {"input", "expanded", "source", "compiled", "log"}
        /\ k[1] = "describe" => k[2] \in {"output", "captions", "poster"}
    BY <2>2, DueIsKnown DEF IInv
  <2>5. x # "poster"
    BY <2>1, <2>2, <2>4 DEF Names, Named, Describes
  <2>6. QED
    BY <1>1, <1>3, <1>5, <2>3, <2>5
<1>8. OutputFirst'
  BY <1>1, <1>3, <1>5 DEF IInv, OutputFirst
<1>9. SourcesFirst'
  BY <1>1, <1>3, <1>5 DEF IInv, SourcesFirst
<1>10. SuccessLast'
  BY <1>1, <1>3, <1>5 DEF IInv, SuccessLast
<1>11. SuccessStays'
  BY <1>1, <1>3 DEF IInv, SuccessStays
<1>12. WorkspaceFirst'
  BY <1>1, <1>3, <1>5 DEF IInv, WorkspaceFirst
<1>13. EndAhead'
  <2>1. Excused' = Excused
    BY <1>3 DEF Excused
  <2>2. \A k \in Due : k[1] # "fail"
    BY <1>1 DEF IInv, EndAhead
  <2>3. \A k \in Due' : k[1] # "fail"
    BY <1>5, <2>2
  <2>4. QED
    BY <1>1, <1>3, <1>5, <2>1, <2>2, <2>3 DEF IInv, EndAhead
<1>14. QED
  BY <1>3, <1>4, <1>6, <1>7, <1>8, <1>9, <1>10, <1>11, <1>12, <1>13, RowKept DEF IInv

\* The failures a stage expects.
LEMMA WorkFailsIInv == IInv /\ WorkFails => IInv'
<1> SUFFICES ASSUME IInv, WorkFails
             PROVE  IInv'
  OBVIOUS
<1>1. Now("work") /\ Pending # {} /\ Turn = <<"work", About>> /\ Turn \in Due /\ UNCHANGED faults
  BY NowTurn DEF IInv, WorkFails
<1>2. phase = "pipeline"
  BY <1>1, EpilogueDue DEF IInv, TypeOK, Closing
<1>3. CASE About = "poster" /\ options.poster = "default"
  BY <1>1, <1>3, GiveUpPosterIInv DEF WorkFails
<1>4. CASE ~(About = "poster" /\ options.poster = "default")
  <2>1. Raise(Recovery(About)) /\ UNCHANGED <<options, row, store, log, workspace, phase>>
    BY <1>4 DEF WorkFails, Raise
  <2>2. TypeOK'
    BY <1>1, <2>1 DEF IInv, TypeOK
  <2>3. todo[First].do # "fail"
    BY <1>1 DEF Now
  <2>4. /\ Piece(PipelineAwaits, Recovery(About), 1, 50)
        /\ Keys(Recovery(About)) \subseteq
               {<<"clear", "output">>, <<"clear", "captions">>, <<"clear", "poster">>}
        /\ <<"clear", "output">> \in Keys(Recovery(About)) => About = "postprocess"
    BY RecoveryPiece
  <2>5. QED
    BY <1>1, <1>2, <2>1, <2>2, <2>3, <2>4, Handled
<1>5. QED
  BY <1>3, <1>4

\* The failures it does not expect: nothing is cleared.
LEMMA WorkCrashesIInv == IInv /\ WorkCrashes => IInv'
<1> SUFFICES ASSUME IInv, WorkCrashes
             PROVE  IInv'
  OBVIOUS
<1>1. Now("work") /\ Pending # {} /\ Turn = <<"work", About>> /\ Turn \in Due
  BY NowTurn DEF IInv, WorkCrashes
<1>2. phase = "pipeline"
  BY <1>1, EpilogueDue DEF IInv, TypeOK, Closing
<1>3. Raise(<<>>) /\ UNCHANGED <<options, row, store, log, workspace, phase, faults>>
  BY DEF WorkCrashes, Raise
<1>4. TypeOK'
  BY <1>3 DEF IInv, TypeOK
<1>5. todo[First].do # "fail"
  BY <1>1 DEF Now
<1>6. QED
  BY <1>1, <1>2, <1>3, <1>4, <1>5, RaiseIInv

\* The log's publication is tolerated to fail, also the synchronous path's; only there
\* its write is not.
LEMMA StorageFailsIInv == IInv /\ StorageFails => IInv'
<1> SUFFICES ASSUME IInv, StorageFails
             PROVE  IInv'
  OBVIOUS
<1>1. PICK do \in {"publish", "write", "workspace"} : Now(do)
  BY DEF StorageFails
<1>2. Pending # {} /\ Turn = <<do, About>> /\ todo[First].do = do /\ First \in Pending
  BY <1>1, NowTurn, TurnIsLeast DEF IInv
<1>3. /\ Raise(<<>>) /\ Suffer("storage")
      /\ UNCHANGED <<options, row, store, log, workspace, phase>>
  BY DEF StorageFails, Raise
<1>4. TypeOK' /\ "storage" \in faults' /\ faults \subseteq faults'
  BY <1>3, SufferTypeOK
<1>5. phase = "pipeline" \/ Excused' \/ todo[First].soft
  <2>1. CASE phase = "epilogue"
    <3>1. InEpilogue(todo[First])
      BY <1>2, <2>1 DEF IInv, Ordered
    <3>2. todo[First].soft \/ options.path = "sync"
      BY <1>1, <1>2, <3>1 DEF InEpilogue
    <3>3. QED
      BY <1>3, <1>4, <3>2 DEF Excused
  <2>2. QED
    BY <2>1 DEF IInv, TypeOK
<1>6. QED
  BY <1>1, <1>2, <1>3, <1>4, <1>5, RaiseIInv

\* A commit that fails excuses the missing status.
LEMMA DatabaseFailsIInv == IInv /\ DatabaseFails => IInv'
<1> SUFFICES ASSUME IInv, DatabaseFails
             PROVE  IInv'
  OBVIOUS
<1>1. PICK do \in {"name", "renderer", "describe", "clear", "status", "check"} : Now(do)
  BY DEF DatabaseFails
<1>2. Pending # {} /\ todo[First].do # "fail"
  BY <1>1, NowTurn DEF IInv
<1>3. /\ Raise(<<>>) /\ Suffer("db")
      /\ UNCHANGED <<options, row, store, log, workspace, phase>>
  BY DEF DatabaseFails, Raise
<1>4. TypeOK' /\ "db" \in faults' /\ faults \subseteq faults'
  BY <1>3, SufferTypeOK
<1>5. Excused'
  BY <1>4 DEF Excused
<1>6. QED
  BY <1>2, <1>3, <1>4, <1>5, RaiseIInv

\* So does the death of the process.
LEMMA DieIInv == IInv /\ Die => IInv'
<1> SUFFICES ASSUME IInv, Die
             PROVE  IInv'
  OBVIOUS
<1>1. /\ Suffer("die") /\ todo' = <<>>
      /\ UNCHANGED <<options, row, store, log, workspace, phase>>
  BY DEF Die
<1>2. TypeOK' /\ "die" \in faults'
  BY <1>1, SufferTypeOK
<1>3. Excused'
  BY <1>2 DEF Excused
<1>4. QED
  BY <1>1, <1>2, <1>3, GivenUp

\* The timeout leaves nothing of the pipeline but its failure.
LEMMA TimeoutIInv == IInv /\ Timeout => IInv'
<1> SUFFICES ASSUME IInv, Timeout
             PROVE  IInv'
  OBVIOUS
<1> DEFINE fail == <<Await("fail", "timeout")>>
<1>1. /\ phase = "pipeline" /\ Suffer("timeout") /\ todo' = fail
      /\ UNCHANGED <<options, row, store, log, workspace, phase>>
  BY DEF Timeout
<1>2. TypeOK'
  BY <1>1, SufferTypeOK
<1>3. Await("fail", "timeout") \in PipelineAwaits
  BY DEF Await, PipelineAwaits, AwaitRec, Known, InPipeline
<1>4. Rank("fail", "timeout") = 50
  BY DEF Rank
<1>5. Piece(PipelineAwaits, fail, 50, 51) /\ Keys(fail) = {<<"fail", "timeout">>}
  BY <1>3, <1>4, OnePiece
<1> HIDE DEF fail
<1>6. Ordered' /\ Due' = {<<"fail", "timeout">>}
  BY <1>1, <1>5, NextPiece
<1>7. EndAhead'
  <2>1. <<"fail", "timeout">> \in Due' /\ phase' = "pipeline"
    BY <1>1, <1>6
  <2>2. (\E k \in Due' : k[1] = "fail") /\ \A k \in Due' : k[1] = "fail"
    BY <1>6
  <2>3. QED
    BY <2>1, <2>2 DEF EndAhead
<1>8. QED
  BY <1>1, <1>2, <1>6, <1>7, Aftermath

\* What is due besides the workspace finds one.
LEMMA WorkspaceThere ==
    ASSUME IInv, Pending # {}, Turn[1] \in {"check", "done"}
    PROVE  workspace # Gone
<1>1. Turn \in Due
  BY TurnIsLeast DEF IInv
<1>2. Rank("workspace", "workspace") < Rank(Turn[1], Turn[2])
  BY DEF Rank
<1>3. <<"workspace", "workspace">> \notin Due
  BY <1>2, BeforeTurn DEF IInv
<1>4. QED
  BY <1>1, <1>3 DEF IInv, WorkspaceFirst

\* A cancellation is followed by its status.
LEMMA CancelIInv == IInv /\ Cancel => IInv'
<1> SUFFICES ASSUME IInv, Cancel
             PROVE  IInv'
  OBVIOUS
<1> DEFINE s == <<Await("status", "cancelled"), Await("done", "cancelled")>>
<1>1. Pending # {} /\ Turn = <<"check", About>> /\ Turn \in Due
  BY NowTurn DEF IInv, Cancel
<1>2. /\ Suffer("cancel") /\ todo' = s
      /\ UNCHANGED <<options, row, store, log, workspace, phase>>
  BY DEF Cancel
<1>3. phase = "pipeline"
  BY <1>1, EpilogueDue DEF IInv, TypeOK, Closing
<1>4. TypeOK'
  BY <1>2, SufferTypeOK
<1>5. /\ Piece(PipelineAwaits, s, 1, 51)
      /\ Keys(s) = {<<"status", "cancelled">>, <<"done", "cancelled">>}
  BY CancelledPiece
<1> HIDE DEF s
<1>6. Ordered' /\ Due' = {<<"status", "cancelled">>, <<"done", "cancelled">>}
  BY <1>2, <1>3, <1>5, NextPiece
<1>7. EndAhead'
  BY <1>6 DEF EndAhead
<1>8. workspace' # Gone
  BY <1>1, <1>2, WorkspaceThere
<1>9. \A k \in Due' : k \in Closing
  BY <1>6 DEF Closing
<1>10. QED
  BY <1>2, <1>4, <1>6, <1>7, <1>8, <1>9, Aftermath

\* The pipeline is left with a terminal status.
LEMMA DoneIInv == IInv /\ Done => IInv'
<1> SUFFICES ASSUME IInv, Done
             PROVE  IInv'
  OBVIOUS
<1>1. Pending # {} /\ Turn = <<"done", About>> /\ Turn \in Due
  BY NowTurn DEF IInv, Done
<1>2. /\ phase' = "epilogue" /\ todo' = SuccessPath
      /\ UNCHANGED <<options, row, store, log, workspace, faults>>
  BY DEF Done
<1>3. TypeOK'
  BY <1>2 DEF IInv, TypeOK
<1>4. Ordered' /\ Due' = Keys(SuccessPath)
  BY <1>2, SuccessPathPiece, NextEpilogue
<1>5. /\ \A k \in Due' : k[1] = "cleanup" \/ k \in {<<"write", "logs.txt">>, <<"publish", "log">>,
                                                    <<"name", "log">>}
      /\ <<"name", "log">> \in Due' => <<"publish", "log">> \in Due'
  BY <1>4, SuccessPathPiece
<1>6. \A k \in Due' : k[1] \notin {"clear", "fail"} /\ (k[1] = "cleanup" \/ k \in Closing)
  BY <1>5 DEF Closing
<1>7. EndAhead'
  <2>1. Excused' = Excused
    BY <1>2 DEF Excused
  <2>2. \A k \in Due : k[1] # "fail"
    BY <1>1 DEF IInv, EndAhead
  <2>3. /\ <<"status", "succeeded">> \notin Due
        /\ <<"status", "cancelled">> \notin Due
        /\ <<"status", "failed">> \notin Due
    <3>1. \A x : Rank("status", x) < Rank("done", About)
      BY DEF Rank
    <3>2. QED
      BY <1>1, <3>1, BeforeTurn DEF IInv
  <2>4. Excused \/ row.status \in Terminal
    BY <2>2, <2>3 DEF IInv, EndAhead
  <2>5. QED
    BY <1>2, <1>6, <2>1, <2>4 DEF EndAhead
<1>8. workspace' # Gone
  BY <1>1, <1>2, WorkspaceThere
<1>9. QED
  BY <1>2, <1>3, <1>4, <1>5, <1>6, <1>7, <1>8, Aftermath

\* A failed pipeline is left with that status ahead.
LEMMA FailIInv == ArtifactsAssumption /\ IInv /\ Fail => IInv'
<1> SUFFICES ASSUME ArtifactsAssumption, IInv, Fail
             PROVE  IInv'
  OBVIOUS
<1> DEFINE s == FailurePath(About)
<1>1. /\ phase' = "epilogue" /\ todo' = s
      /\ UNCHANGED <<options, row, store, log, workspace, faults>>
  BY DEF Fail
<1>2. TypeOK'
  BY <1>1 DEF IInv, TypeOK
<1>3. /\ Piece(EpilogueAwaits, s, 15, 51)
      /\ Keys(s) \subseteq
             {<<"renderer", "renderer">>, <<"write", "logs.txt">>, <<"publish", "log">>,
              <<"name", "log">>, <<"status", "failed">>, <<"cleanup", "temporary">>}
      /\ options.path # "template" => <<"status", "failed">> \in Keys(s)
      /\ <<"name", "log">> \in Keys(s) => <<"publish", "log">> \in Keys(s)
      /\ <<"write", "logs.txt">> \in Keys(s) => workspace # Gone
  BY FailurePathPiece DEF IInv, TypeOK
<1> HIDE DEF s
<1>4. Ordered' /\ Due' = Keys(s)
  BY <1>1, <1>3, NextEpilogue
<1>5. \A k \in Due' : k[1] \in {"renderer", "cleanup"} \/ k \in Closing
  BY <1>3, <1>4 DEF Closing
<1>6. \A k \in Due' : k[1] \notin {"clear", "fail", "done"}
  BY <1>3, <1>4
<1>7. workspace' = Gone => \A k \in Due' : k[1] \notin {"write", "done"}
  BY <1>1, <1>3, <1>4
<1>8. EndAhead'
  BY <1>1, <1>3, <1>4, <1>6 DEF EndAhead, Excused
<1>9. QED
  BY <1>1, <1>2, <1>3, <1>4, <1>5, <1>6, <1>7, <1>8, Aftermath

\* Nothing changes while nothing happens.
LEMMA StutterIInv == IInv /\ UNCHANGED vars => IInv'
<1> SUFFICES ASSUME IInv, UNCHANGED vars
             PROVE  IInv'
  OBVIOUS
<1>1. UNCHANGED <<options, row, store, log, workspace, phase, todo, faults>>
  BY DEF vars
<1>2. Pending' = Pending /\ Due' = Due /\ Excused' = Excused
  BY <1>1 DEF Pending, Due, Excused
<1>3. Ordered'
  BY <1>1, <1>2 DEF IInv, Ordered, InPipeline, InEpilogue
<1>4. TypeOK'
  BY <1>1 DEF IInv, TypeOK
<1>5. PublishedFirst'
  BY <1>1, <1>2 DEF IInv, PublishedFirst, Names, Describes
<1>6. OutputFirst' /\ SourcesFirst'
  BY <1>1, <1>2 DEF IInv, OutputFirst, SourcesFirst
<1>7. SuccessLast' /\ SuccessStays' /\ WorkspaceFirst'
  BY <1>1, <1>2 DEF IInv, SuccessLast, SuccessStays, WorkspaceFirst
<1>8. EndAhead'
  BY <1>1, <1>2 DEF IInv, EndAhead
<1>9. QED
  BY <1>1, <1>3, <1>4, <1>5, <1>6, <1>7, <1>8, RowKept DEF IInv

\* So every step keeps the invariant.
LEMMA NextIInv ==
    ASSUME ArtifactsAssumption, IInv, [Next]_vars
    PROVE  IInv'
<1>1. CASE CreateWorkspace \/ WriteFile \/ Work \/ Cleanup \/ Publish
  BY <1>1, CreateWorkspaceIInv, WriteFileIInv, WorkIInv, CleanupIInv, PublishIInv
<1>2. CASE UpdateRenderer
  BY <1>2, UnchangedIInv DEF UpdateRenderer
<1>3. CASE Check
  BY <1>3, UnchangedIInv DEF Check
<1>4. CASE UpdatePaths \/ UpdateOutput \/ UpdateCaptions \/ UpdatePoster \/ UpdateStatus
  BY <1>4, UpdatePathsIInv, UpdateOutputIInv, UpdateCaptionsIInv, UpdatePosterIInv,
     UpdateStatusIInv
<1>5. CASE ClearOutput \/ ClearCaptions \/ ClearPoster
  BY <1>5, ClearOutputIInv, ClearCaptionsIInv, ClearPosterIInv
<1>6. CASE WorkFails \/ WorkCrashes \/ StorageFails \/ DatabaseFails
  BY <1>6, WorkFailsIInv, WorkCrashesIInv, StorageFailsIInv, DatabaseFailsIInv
<1>7. CASE Cancel \/ Timeout \/ Done \/ Fail \/ Die
  BY <1>7, CancelIInv, TimeoutIInv, DoneIInv, FailIInv, DieIInv
<1>8. CASE Ended \/ UNCHANGED vars
  BY <1>8, StutterIInv DEF Ended
<1>9. QED
  BY <1>1, <1>2, <1>3, <1>4, <1>5, <1>6, <1>7, <1>8 DEF Next

-----------------------------------------------------------------------------
(* The theorems: for every path, composition and set of faults.            *)

\* The invariant: the awaits still due agree with what is published and named so far.
THEOREM Invariance == Spec => []IInv
<1>1. ASSUME IInv, [Next]_vars
      PROVE  IInv'
  BY <1>1, NextIInv, ArtifactsAssumption
<1>2. QED
  BY <1>1, InitIInv, PTL DEF Spec

\* Every variable stays within the values the code gives it: among others a status
\* is one of the enumeration, and a path column names one of the artifacts.
THEOREM TypeCorrect == Spec => []TypeOK
<1>1. IInv => TypeOK
  BY DEF IInv
<1>2. QED
  BY <1>1, Invariance, PTL

\* Every artifact a path column of the row names has been published before, wherever
\* a failure, a timeout, a cancellation or the death of the process cuts the stages.
THEOREM NoDanglingPath == Spec => []NamedIsPublished
<1>1. IInv => NamedIsPublished
  BY DEF IInv
<1>2. QED
  BY <1>1, Invariance, PTL

\* Output, manifest, captions and poster of a row describe one output together, also
\* after a clean-up that began between any two of their commits.
THEOREM MetadataStaysWhole == Spec => []MetadataIsWhole
<1>1. IInv => MetadataIsWhole
  BY DEF IInv
<1>2. QED
  BY <1>1, Invariance, PTL

\* A render is marked succeeded only when everything that was asked for is published
\* and named, and what happens afterwards does not take it back.
THEOREM SuccessIsComplete == Spec => []SucceededIsComplete
<1>1. IInv => SucceededIsComplete
  BY DEF IInv
<1>2. QED
  BY <1>1, Invariance, PTL

\* A render that has come to the subprocess, or has an output, can be replayed from
\* what it has published, however it ends.
THEOREM ReplayIsThere == Spec => []RenderingIsReplayable
<1>1. IInv => RenderingIsReplayable
  BY DEF IInv
<1>2. QED
  BY <1>1, Invariance, PTL

\* A job that has nothing left to do has given its render a terminal status, with the
\* exceptions EndsTerminal names.
THEOREM JobEndsTerminal == Spec => []EndsTerminal
<1>1. IInv => EndsTerminal
  <2> SUFFICES ASSUME IInv, Pending = {}, options.path # "template"
               PROVE  \/ row.status \in Terminal
                      \/ faults \cap {"db", "die"} # {}
                      \/ options.path = "sync" /\ "storage" \in faults
    BY DEF EndsTerminal
  <2>1. Due = {}
    BY DEF Due
  <2>2. QED
    BY <2>1 DEF IInv, EndAhead, Excused
<1>2. QED
  BY <1>1, Invariance, PTL

=============================================================================
