------------------------- MODULE RequestPathProofs --------------------------
(* For any requests, rates and settings: the rate is kept in every window and *)
(* Retry-After is long enough; what is stored and read back is what was       *)
(* accepted; what FFmpeg mixes into a video fits it; Editly's segments show   *)
(* each clip through, with the transitions where they were planned; the three *)
(* renderers show the same; and what was accepted is rendered.                *)
EXTENDS RequestPath, FiniteSetTheorems, SequenceTheorems, TLAPS

-----------------------------------------------------------------------------
(* Sets of numbers.                                                           *)

\* A finite set of numbers has a least and a greatest element: a smallest subset
\* without them would have them once an element is taken out.
LEMMA Extremes ==
    ASSUME NEW S \in SUBSET Int, IsFiniteSet(S), S # {}
    PROVE  /\ \E m \in S : \A x \in S : m <= x
           /\ \E m \in S : \A x \in S : x <= m
<1> DEFINE Good(T) == /\ \E m \in T : \A x \in T : m <= x
                      /\ \E m \in T : \A x \in T : x <= m
           Bad == {T \in SUBSET S : T # {} /\ ~Good(T)}
<1>1. SUFFICES ASSUME Bad # {} PROVE FALSE
  <2>1. S \in SUBSET S
    OBVIOUS
  <2>2. Bad = {} => Good(S)
    BY <2>1
  <2>3. QED
    BY <1>1, <2>2
<1>2. FiniteSubsetsOf(S) = SUBSET S
  BY FS_FiniteSubsetsOfFinite
<1>3. IsWellFoundedOn(StrictSubsetOrdering(S), SUBSET S)
  BY <1>2, FS_StrictSubsetOrderingWellFounded
<1>4. PICK T \in Bad : \A U \in Bad : ~(<<U, T>> \in StrictSubsetOrdering(S))
  <2>1. Bad \subseteq SUBSET S
    OBVIOUS
  <2> HIDE DEF Bad
  <2>2. QED
    BY <1>1, <1>3, <2>1, WFMin
<1>5. PICK x \in T : TRUE
  OBVIOUS
<1> DEFINE U == T \ {x}
<1>6. CASE U = {}
  <2>1. T = {x} /\ x \in Int
    BY <1>5, <1>6
  <2>2. Good(T)
    BY <2>1
  <2>3. QED
    BY <2>2
<1>7. CASE U # {}
  <2>1. U \in SUBSET S /\ <<U, T>> \in StrictSubsetOrdering(S)
    BY <1>5 DEF StrictSubsetOrdering
  <2>2. Good(U)
    BY <1>4, <1>7, <2>1
  <2>3. PICK m \in U, M \in U : \A y \in U : m <= y /\ y <= M
    BY <2>2
  <2>4. \A y \in T : y \in Int /\ (y = x \/ y \in U)
    OBVIOUS
  <2>5. m \in T /\ M \in T /\ m \in Int /\ M \in Int /\ x \in Int
    BY <1>5
  <2>6. \E k \in T : \A y \in T : k <= y
    <3>1. CASE m <= x
      BY <2>3, <2>4, <2>5, <3>1
    <3>2. CASE x < m
      <4>1. \A y \in T : x <= y
        BY <2>3, <2>4, <2>5, <3>2
      <4>2. QED
        BY <1>5, <4>1
    <3>3. QED
      BY <2>5, <3>1, <3>2
  <2>7. \E k \in T : \A y \in T : y <= k
    <3>1. CASE x <= M
      BY <2>3, <2>4, <2>5, <3>1
    <3>2. CASE M < x
      <4>1. \A y \in T : y <= x
        BY <2>3, <2>4, <2>5, <3>2
      <4>2. QED
        BY <1>5, <4>1
    <3>3. QED
      BY <2>5, <3>1, <3>2
  <2>8. QED
    BY <2>6, <2>7
<1>8. QED
  BY <1>6, <1>7

\* What Min and Max return.
LEMMA MinOf ==
    ASSUME NEW S \in SUBSET Int, IsFiniteSet(S), S # {}
    PROVE  Min(S) \in S /\ \A x \in S : Min(S) <= x
  BY Extremes DEF Min

\* The other end of a finite set of numbers.
LEMMA MaxOf ==
    ASSUME NEW S \in SUBSET Int, IsFiniteSet(S), S # {}
    PROVE  Max(S) \in S /\ \A x \in S : x <= Max(S)
<1>1. PICK m \in S : \A x \in S : x <= m
  BY Extremes
<1>2. \A x \in S : m >= x
  BY <1>1
<1>3. Max(S) \in S /\ \A x \in S : Max(S) >= x
  BY <1>2 DEF Max
<1>4. QED
  BY <1>3

-----------------------------------------------------------------------------
(* The limiter.                                                               *)

Ordered(s) == \A i, j \in DOMAIN s : i <= j => s[i] <= s[j]

\* What lies outside of a window, and inside of it.
Dropped(s, d, time, span) == \A i \in 1..d : time - s[i] >= span
Splits(s, d, time, span)  == \A i \in DOMAIN s : time - s[i] < span <=> i > d

\* The filter of the code: of tokens in order of time, a suffix keeps those, and only
\* those, that are in the window.
LEMMA SuffixFilters ==
    ASSUME NEW s \in Seq(Nat), Ordered(s), NEW time \in Int, NEW span \in Int,
           NEW kept, kept = {i \in DOMAIN s : time - s[i] < span},
           NEW live, live = IF kept = {} THEN << >> ELSE SubSeq(s, Min(kept), Len(s))
    PROVE  \E d \in 0..Len(s) : live = SubSeq(s, d + 1, Len(s)) /\ Splits(s, d, time, span)
<1> DEFINE n == Len(s)
<1>1. n \in Nat /\ DOMAIN s = 1..n /\ \A i \in 1..n : s[i] \in Nat
  OBVIOUS
<1>2. kept \in SUBSET Int /\ IsFiniteSet(kept)
  <2>1. kept \in SUBSET (1..n) /\ IsFiniteSet(1..n)
    BY <1>1, FS_Interval
  <2>2. QED
    BY <2>1, FS_Subset
<1>3. CASE kept = {}
  <2>1. live = << >> /\ SubSeq(s, n + 1, n) = << >>
    BY <1>1, <1>3
  <2>2. \A i \in DOMAIN s : ~(time - s[i] < span) /\ ~(i > n)
    BY <1>1, <1>3
  <2>3. n \in 0..n
    BY <1>1
  <2>4. QED
    BY <2>1, <2>2, <2>3 DEF Splits
<1>4. CASE kept # {}
  <2>1. PICK m : m = Min(kept)
    OBVIOUS
  <2>2. m \in kept /\ \A i \in kept : m <= i
    BY <1>2, <1>4, <2>1, MinOf
  <2>3. m \in 1..n /\ m - 1 \in 0..n /\ m - 1 + 1 = m /\ time - s[m] < span
    <3>1. m \in 1..n /\ time - s[m] < span
      BY <1>1, <2>2
    <3>2. QED
      BY <1>1, <3>1
  <2>4. live = SubSeq(s, m - 1 + 1, n)
    BY <1>4, <2>1, <2>3
  <2>5. ASSUME NEW i \in DOMAIN s PROVE time - s[i] < span <=> i > m - 1
    <3>1. CASE i < m
      <4>1. i \notin kept
        BY <1>1, <2>2, <3>1
      <4>2. ~(i > m - 1)
        BY <1>1, <2>3, <3>1
      <4>3. QED
        BY <4>1, <4>2
    <3>2. CASE i >= m
      <4>1. s[m] <= s[i] /\ s[m] \in Nat /\ s[i] \in Nat
        BY <1>1, <2>3, <3>2 DEF Ordered
      <4>2. i > m - 1
        BY <1>1, <2>3, <3>2
      <4>3. time - s[m] < span
        BY <2>3
      <4>4. time - s[i] < span
        BY <4>1, <4>3
      <4>5. QED
        BY <4>2, <4>4
    <3>3. QED
      BY <1>1, <2>3, <3>1, <3>2
  <2>6. QED
    BY <2>3, <2>4, <2>5 DEF Splits
<1>5. QED
  BY <1>3, <1>4

\* One sequence is the end of another one, without its first d elements.
EndOf(s, g, d) ==
    /\ s \in Seq(Nat) /\ d \in 0..Len(g) /\ Len(s) = Len(g) - d
    /\ \A i \in 1..Len(s) : s[i] = g[d + i]

\* What a slice up to the end keeps is the end.
LEMMA SuffixEnds ==
    ASSUME NEW g \in Seq(Nat), NEW d \in 0..Len(g)
    PROVE  EndOf(SubSeq(g, d + 1, Len(g)), g, d)
<1>1. /\ d \in Int /\ Len(g) \in Int /\ Len(g) \in Nat /\ d + 1 \in Int
      /\ 0 <= d /\ d <= Len(g)
  OBVIOUS
<1>2. \A i \in (d + 1)..Len(g) : g[i] \in Nat
  BY <1>1
<1> DEFINE s == SubSeq(g, d + 1, Len(g))
<1>3. /\ s \in Seq(Nat)
      /\ Len(s) = IF d + 1 <= Len(g) THEN Len(g) - (d + 1) + 1 ELSE 0
      /\ \A i \in 1..(Len(g) - (d + 1) + 1) : s[i] = g[d + 1 + i - 1]
  BY <1>1, <1>2, SubSeqProperties
<1> HIDE DEF s
<1>4. Len(s) = Len(g) - d
  BY <1>1, <1>3
<1>5. \A i \in 1..Len(s) : i \in Int /\ d + 1 + i - 1 = d + i
                           /\ i \in 1..(Len(g) - (d + 1) + 1)
  BY <1>1, <1>4
<1>6. \A i \in 1..Len(s) : s[i] = g[d + i]
  BY <1>3, <1>5
<1>7. EndOf(s, g, d)
  BY <1>3, <1>4, <1>6 DEF EndOf
<1>8. QED
  BY <1>7 DEF s

\* The end of times in order is in order.
LEMMA EndOrdered ==
    ASSUME NEW g \in Seq(Nat), Ordered(g), NEW d, NEW s, EndOf(s, g, d)
    PROVE  Ordered(s)
<1>1. /\ s \in Seq(Nat) /\ Len(s) = Len(g) - d /\ Len(g) \in Nat /\ d \in Nat
      /\ DOMAIN s = 1..Len(s) /\ DOMAIN g = 1..Len(g)
      /\ \A i \in 1..Len(s) : s[i] = g[d + i]
  BY DEF EndOf
<1>2. ASSUME NEW i \in 1..Len(s), NEW j \in 1..Len(s), i <= j
      PROVE  s[i] <= s[j]
  <2>1. d + i \in 1..Len(g) /\ d + j \in 1..Len(g) /\ d + i <= d + j
    BY <1>1, <1>2
  <2>2. g[d + i] <= g[d + j]
    BY <1>1, <2>1 DEF Ordered
  <2>3. QED
    BY <1>1, <2>2
<1>3. QED
  BY <1>1, <1>2 DEF Ordered

\* Of the end of times that were dropped, the end that a filter keeps.
LEMMA DropsMore ==
    ASSUME NEW g \in Seq(Nat), NEW d, NEW s, EndOf(s, g, d),
           NEW e, NEW t, EndOf(t, s, e),
           NEW time \in Int, NEW span \in Int,
           Dropped(g, d, time, span), Splits(s, e, time, span)
    PROVE  /\ EndOf(t, g, d + e)
           /\ Len(t) <= Len(s)
           /\ Dropped(g, d + e, time, span)
<1>1. /\ s \in Seq(Nat) /\ Len(s) = Len(g) - d /\ Len(g) \in Nat /\ d \in Nat
      /\ Len(s) \in Nat /\ DOMAIN s = 1..Len(s)
      /\ \A i \in 1..Len(s) : s[i] = g[d + i]
  BY DEF EndOf
<1>2. /\ t \in Seq(Nat) /\ Len(t) = Len(s) - e /\ e \in Nat /\ e <= Len(s)
      /\ \A i \in 1..Len(t) : t[i] = s[e + i]
  BY <1>1 DEF EndOf
<1>3. d + e \in 0..Len(g) /\ Len(t) = Len(g) - (d + e) /\ Len(t) <= Len(s)
  BY <1>1, <1>2
<1>4. ASSUME NEW i \in 1..Len(t) PROVE t[i] = g[d + e + i]
  <2>1. e + i \in 1..Len(s) /\ d + (e + i) = d + e + i
    BY <1>1, <1>2
  <2>2. QED
    BY <1>1, <1>2, <2>1
<1>5. ASSUME NEW i \in 1..(d + e) PROVE time - g[i] >= span
  <2>1. CASE i <= d
    <3>1. i \in 1..d
      BY <1>1, <2>1
    <3>2. QED
      BY <3>1 DEF Dropped
  <2>2. CASE i > d
    <3>1. PICK k \in Int : k = i - d
      BY <1>1, <1>2
    <3>2. k \in 1..Len(s) /\ d + k = i /\ ~(k > e)
      BY <1>1, <1>2, <2>2, <3>1
    <3>3. s[k] = g[i] /\ s[k] \in Nat
      <4>1. k \in 1..Len(s)
        BY <3>2
      <4>2. s[k] = g[d + k]
        BY <1>1, <4>1
      <4>3. s[k] \in Nat
        <5>1. s \in Seq(Nat) /\ k \in DOMAIN s
          BY <1>1, <4>1
        <5>2. QED
          BY <5>1
      <4>4. QED
        BY <3>2, <4>2, <4>3
    <3>4. ~(time - s[k] < span)
      BY <1>1, <3>2 DEF Splits
    <3>5. QED
      BY <3>3, <3>4
  <2>3. QED
    BY <1>1, <2>1, <2>2
<1>6. EndOf(t, g, d + e)
  BY <1>2, <1>3, <1>4 DEF EndOf
<1>7. Dropped(g, d + e, time, span)
  BY <1>5 DEF Dropped
<1>8. QED
  BY <1>3, <1>6, <1>7

\* The window of a bucket, in half seconds.
Span(b) == 2 * Rates[b].window

\* Rates are given in whole seconds.
LEMMA SpanType ==
    ASSUME NEW b \in Buckets
    PROVE  Span(b) \in Nat /\ Span(b) >= 2 /\ Span(b) % 2 = 0
           /\ Rates[b].max \in Nat /\ Rates[b].max >= 1
<1>1. PICK w \in Nat \ {0} : w = Rates[b].window
  BY RateAssumption
<1>2. 2 * w \in Nat /\ 2 * w >= 2 /\ (2 * w) % 2 = 0
  OBVIOUS
<1>3. QED
  BY <1>1, <1>2, RateAssumption DEF Span

\* The tokens of a bucket are the last of the times at which it let a request pass;
\* what it has dropped since is out of the window.
Bucketful(b) ==
    /\ granted[b] \in Seq(Nat) /\ Ordered(granted[b])
    /\ \A i \in DOMAIN granted[b] : granted[b][i] <= now
    /\ \E d \in 0..Len(granted[b]) : /\ EndOf(tokens[b], granted[b], d)
                                     /\ Dropped(granted[b], d, now, Span(b))
    /\ Len(tokens[b]) <= Rates[b].max

\* What a refused client was told, and of which tokens.
Refusal(r) ==
    /\ r.bucket \in Buckets /\ r.at \in Nat
    /\ r.held \in Seq(Nat) /\ r.held # << >> /\ Len(r.held) <= Rates[r.bucket].max
    /\ r.retry = (Span(r.bucket) - (r.at - r.held[1])) \div 2 + 1

Limiter ==
    /\ now \in Nat
    /\ tokens \in [Buckets -> Seq(Nat)] /\ granted \in [Buckets -> Seq(Nat)]
    /\ \A b \in Buckets : Bucketful(b)
    /\ \A r \in refused : Refusal(r)

\* In terms of what the bucket has granted: Live is what it granted in the window.
LEMMA LiveGranted ==
    ASSUME NEW b \in Buckets, Limiter
    PROVE  /\ Live(b) \in Seq(Nat) /\ Len(Live(b)) <= Rates[b].max
           /\ \E d \in 0..Len(granted[b]) : /\ EndOf(Live(b), granted[b], d)
                                            /\ Dropped(granted[b], d, now, Span(b))
<1>1. /\ tokens[b] \in Seq(Nat) /\ granted[b] \in Seq(Nat) /\ now \in Int
      /\ Ordered(granted[b]) /\ Len(tokens[b]) <= Rates[b].max
      /\ Rates[b].max \in Nat /\ Span(b) \in Int
  BY SpanType DEF Limiter, Bucketful
<1>2. PICK d \in 0..Len(granted[b]) : /\ EndOf(tokens[b], granted[b], d)
                                      /\ Dropped(granted[b], d, now, Span(b))
  BY DEF Limiter, Bucketful
<1>3. Ordered(tokens[b])
  BY <1>1, <1>2, EndOrdered
<1>4. PICK e \in 0..Len(tokens[b]) :
          /\ Live(b) = SubSeq(tokens[b], e + 1, Len(tokens[b]))
          /\ Splits(tokens[b], e, now, Span(b))
  BY <1>1, <1>3, SuffixFilters DEF Live, Span
<1>5. EndOf(Live(b), tokens[b], e)
  BY <1>1, <1>4, SuffixEnds
<1>6. /\ EndOf(Live(b), granted[b], d + e)
      /\ Len(Live(b)) <= Len(tokens[b])
      /\ Dropped(granted[b], d + e, now, Span(b))
  BY <1>1, <1>2, <1>4, <1>5, DropsMore
<1>7. d + e \in 0..Len(granted[b]) /\ Live(b) \in Seq(Nat)
  BY <1>6 DEF EndOf
<1>8. Len(Live(b)) <= Rates[b].max
  <2>1. Len(Live(b)) \in Nat /\ Len(tokens[b]) \in Nat
    BY <1>1, <1>7
  <2>2. QED
    BY <1>1, <1>6, <2>1
<1>9. QED
  BY <1>6, <1>7, <1>8

\* A full bucket holds a token, and what it tells a client is of that one.
LEMMA RefusalHolds ==
    ASSUME NEW b \in Buckets, Limiter, Full(b)
    PROVE  Refusal([bucket |-> b, at |-> now, retry |-> RetryAfter(b), held |-> Live(b)])
<1>1. Live(b) \in Seq(Nat) /\ Len(Live(b)) <= Rates[b].max
  BY LiveGranted
<1>2. Rates[b].max \in Nat /\ Rates[b].max >= 1
  BY SpanType
<1>3. Live(b) # << >> /\ Head(Live(b)) = Live(b)[1]
  <2>1. Len(Live(b)) >= 1
    BY <1>1, <1>2 DEF Full
  <2>2. QED
    BY <1>1, <2>1
<1>4. RetryAfter(b) = (Span(b) - (now - Live(b)[1])) \div 2 + 1
  BY <1>3 DEF RetryAfter, Span
<1>5. now \in Nat
  BY DEF Limiter
<1>6. QED
  BY <1>1, <1>3, <1>4, <1>5 DEF Refusal

\* A bucket that lets one more request pass.
LEMMA OneMore ==
    ASSUME NEW b \in Buckets, Limiter, ~Full(b),
           NEW t, t = Append(Live(b), now), NEW g, g = Append(granted[b], now)
    PROVE  /\ t \in Seq(Nat) /\ Len(t) <= Rates[b].max
           /\ g \in Seq(Nat) /\ Ordered(g) /\ \A i \in DOMAIN g : g[i] <= now
           /\ \E d \in 0..Len(g) : EndOf(t, g, d) /\ Dropped(g, d, now, Span(b))
<1>1. /\ Live(b) \in Seq(Nat) /\ granted[b] \in Seq(Nat) /\ now \in Nat
      /\ Ordered(granted[b]) /\ \A i \in DOMAIN granted[b] : granted[b][i] <= now
      /\ Rates[b].max \in Nat
  BY LiveGranted, SpanType DEF Limiter, Bucketful
<1>2. PICK n \in Nat, m \in Nat : n = Len(granted[b]) /\ m = Len(Live(b))
  BY <1>1
<1>3. PICK d \in 0..n : /\ EndOf(Live(b), granted[b], d)
                        /\ Dropped(granted[b], d, now, Span(b))
  BY <1>2, LiveGranted
<1>4. /\ t \in Seq(Nat) /\ Len(t) = m + 1 /\ t[m + 1] = now
      /\ \A i \in 1..m : t[i] = Live(b)[i]
  BY <1>1, <1>2, AppendProperties
<1>5. /\ g \in Seq(Nat) /\ Len(g) = n + 1 /\ g[n + 1] = now /\ DOMAIN g = 1..(n + 1)
      /\ \A i \in 1..n : g[i] = granted[b][i] /\ granted[b][i] \in Nat
  <2>1. /\ g \in Seq(Nat) /\ Len(g) = n + 1 /\ g[n + 1] = now
        /\ \A i \in 1..n : g[i] = granted[b][i]
    BY <1>1, <1>2, AppendProperties
  <2>2. \A i \in 1..n : granted[b][i] \in Nat
    BY <1>1, <1>2, ElementOfSeq
  <2>3. QED
    BY <2>1, <2>2
<1>6. m < Rates[b].max
  BY <1>1, <1>2 DEF Full
<1>7. m = n - d /\ \A i \in 1..m : Live(b)[i] = granted[b][d + i]
  BY <1>2, <1>3 DEF EndOf
<1>8. \A i \in 1..n : granted[b][i] <= now
  BY <1>1, <1>2
<1>9. Ordered(g)
  <2>1. ASSUME NEW i \in 1..(n + 1), NEW j \in 1..(n + 1), i <= j
        PROVE  g[i] <= g[j]
    <3>1. CASE j \in 1..n
      <4>1. i \in 1..n
        BY <1>2, <2>1, <3>1
      <4>2. granted[b][i] <= granted[b][j]
        <5>1. DOMAIN granted[b] = 1..n
          BY <1>1, <1>2
        <5>2. Ordered(granted[b]) /\ i <= j
          BY <1>1, <2>1
        <5>3. QED
          BY <3>1, <4>1, <5>1, <5>2 DEF Ordered
      <4>3. QED
        BY <1>5, <3>1, <4>1, <4>2
    <3>2. CASE j = n + 1
      <4>1. CASE i \in 1..n
        BY <1>5, <1>8, <3>2, <4>1
      <4>2. CASE i = n + 1
        BY <1>1, <1>5, <3>2, <4>2
      <4>3. i \in 1..n \/ i = n + 1
        BY <1>2, <2>1
      <4>4. QED
        BY <4>1, <4>2, <4>3
    <3>3. j \in 1..n \/ j = n + 1
      BY <1>2
    <3>4. QED
      BY <3>1, <3>2, <3>3
  <2>2. QED
    BY <1>5, <2>1 DEF Ordered
<1>10. \A i \in DOMAIN g : g[i] <= now
  <2>1. ASSUME NEW i \in 1..(n + 1) PROVE g[i] <= now
    <3>1. i \in 1..n \/ i = n + 1
      BY <1>2
    <3>2. QED
      BY <1>1, <1>5, <1>8, <3>1
  <2>2. QED
    BY <1>5, <2>1
<1>11. EndOf(t, g, d)
  <2>1. d \in 0..Len(g) /\ Len(t) = Len(g) - d
    BY <1>2, <1>3, <1>4, <1>5, <1>7
  <2>2. ASSUME NEW i \in 1..(m + 1) PROVE t[i] = g[d + i]
    <3>1. CASE i \in 1..m
      <4>1. d + i \in 1..n
        BY <1>2, <1>3, <1>7, <3>1
      <4>2. t[i] = granted[b][d + i] /\ g[d + i] = granted[b][d + i]
        BY <1>4, <1>5, <1>7, <3>1, <4>1
      <4>3. QED
        BY <4>2
    <3>2. CASE i = m + 1
      <4>1. d + i = n + 1
        BY <1>2, <1>3, <1>7, <3>2
      <4>2. QED
        BY <1>4, <1>5, <3>2, <4>1
    <3>3. i \in 1..m \/ i = m + 1
      BY <1>2
    <3>4. QED
      BY <3>1, <3>2, <3>3
  <2>3. QED
    BY <1>4, <2>1, <2>2 DEF EndOf
<1>12. Dropped(g, d, now, Span(b))
  <2>1. ASSUME NEW i \in 1..d PROVE now - g[i] >= Span(b)
    <3>1. i \in 1..n
      BY <1>2, <1>3
    <3>2. now - granted[b][i] >= Span(b)
      BY <1>3 DEF Dropped
    <3>3. QED
      BY <1>5, <3>1, <3>2
  <2>2. QED
    BY <2>1 DEF Dropped
<1>13. Len(t) <= Rates[b].max /\ d \in 0..Len(g)
  BY <1>1, <1>2, <1>3, <1>4, <1>5, <1>6
<1>14. QED
  BY <1>4, <1>5, <1>9, <1>10, <1>11, <1>12, <1>13

\* The last window of that bucket starts after what it has dropped, and the windows
\* that ended before are as they were.
LEMMA LastWindow ==
    ASSUME NEW g \in Seq(Nat), NEW n \in Nat, Len(g) = n + 1, NEW d \in 0..n,
           NEW span \in Nat, Dropped(g, d, g[n + 1], span)
    PROVE  Cardinality({k \in 1..(n + 1) : g[n + 1] - g[k] < span}) <= n + 1 - d
<1> DEFINE W == {k \in 1..(n + 1) : g[n + 1] - g[k] < span}
<1>1. d \in Int /\ 0 <= d /\ d <= n
  OBVIOUS
<1>2. \A k \in 1..(n + 1) : g[k] \in Nat
  BY ElementOfSeq
<1>3. ASSUME NEW k \in W PROVE k \in (d + 1)..(n + 1)
  <2>1. CASE k <= d
    <3>1. k \in 1..d
      BY <1>1, <2>1
    <3>2. g[n + 1] - g[k] >= span /\ g[n + 1] \in Nat /\ g[k] \in Nat
      BY <1>2, <3>1 DEF Dropped
    <3>3. QED
      BY <3>2
  <2>2. CASE k > d
    BY <1>1, <2>2
  <2>3. QED
    BY <1>1, <2>1, <2>2
<1>4. d + 1 \in Int /\ n + 1 \in Int /\ ~(d + 1 > n + 1) /\ n + 1 - (d + 1) + 1 = n + 1 - d
  BY <1>1
<1>5. IsFiniteSet((d + 1)..(n + 1)) /\ Cardinality((d + 1)..(n + 1)) = n + 1 - d
  BY <1>4, FS_Interval
<1>6. W \in SUBSET ((d + 1)..(n + 1))
  BY <1>3
<1> HIDE DEF W
<1>7. Cardinality(W) <= n + 1 - d
  <2>1. Cardinality(W) <= Cardinality((d + 1)..(n + 1))
    BY <1>5, <1>6, FS_Subset
  <2>2. QED
    BY <1>5, <2>1
<1>8. QED
  BY <1>7 DEF W

\* What WindowKept says of one bucket.
Kept(g, b) ==
    \A i \in DOMAIN g : Cardinality({k \in 1..i : g[i] - g[k] < Span(b)}) <= Rates[b].max

\* A request that finds room leaves the rate kept at its own time as well.
LEMMA OneMoreKept ==
    ASSUME NEW b \in Buckets, Limiter, ~Full(b), Kept(granted[b], b)
    PROVE  Kept(Append(granted[b], now), b)
<1> DEFINE g == Append(granted[b], now)
           t == Append(Live(b), now)
<1>1. granted[b] \in Seq(Nat) /\ now \in Nat
  BY DEF Limiter
<1>2. PICK n \in Nat : n = Len(granted[b])
  BY <1>1
<1>3. /\ g \in Seq(Nat) /\ Len(g) = n + 1 /\ g[n + 1] = now
      /\ \A i \in 1..n : g[i] = granted[b][i]
  BY <1>1, <1>2, AppendProperties
<1>4. /\ Len(t) <= Rates[b].max
      /\ \E d \in 0..Len(g) : EndOf(t, g, d) /\ Dropped(g, d, now, Span(b))
  BY OneMore
<1>5. Len(t) = Len(Live(b)) + 1 /\ Len(Live(b)) \in Nat
  BY <1>1, LiveGranted, AppendProperties
<1> HIDE DEF g, t
<1>6. PICK d \in 0..(n + 1) : EndOf(t, g, d) /\ Dropped(g, d, now, Span(b))
  BY <1>3, <1>4
<1>7. Len(t) = n + 1 - d /\ d \in 0..n
  <2>1. Len(t) = n + 1 - d
    BY <1>3, <1>6 DEF EndOf
  <2>2. PICK m \in Nat : m = Len(Live(b))
    BY <1>5
  <2>3. d \in 0..n
    BY <1>2, <1>5, <1>6, <2>1, <2>2
  <2>4. QED
    BY <2>1, <2>3
<1>8. Span(b) \in Nat /\ Rates[b].max \in Nat
  BY SpanType
<1>9. Cardinality({k \in 1..(n + 1) : g[n + 1] - g[k] < Span(b)}) <= n + 1 - d
  BY <1>2, <1>3, <1>6, <1>7, <1>8, LastWindow
<1>10. IsFiniteSet({k \in 1..(n + 1) : g[n + 1] - g[k] < Span(b)})
  <2>1. /\ IsFiniteSet(1..(n + 1))
        /\ {k \in 1..(n + 1) : g[n + 1] - g[k] < Span(b)} \in SUBSET (1..(n + 1))
    <3>1. 1 \in Int /\ n + 1 \in Int
      BY <1>2
    <3>2. QED
      BY <3>1, FS_Interval
  <2>2. QED
    BY <2>1, FS_Subset
<1>11. Cardinality({k \in 1..(n + 1) : g[n + 1] - g[k] < Span(b)}) <= Rates[b].max
  <2>1. Cardinality({k \in 1..(n + 1) : g[n + 1] - g[k] < Span(b)}) \in Nat
    BY <1>10, FS_CardinalityType
  <2>2. n + 1 - d <= Rates[b].max /\ n + 1 - d \in Int
    BY <1>2, <1>4, <1>7
  <2>3. QED
    BY <1>8, <1>9, <2>1, <2>2
<1>12. ASSUME NEW i \in 1..n
       PROVE  Cardinality({k \in 1..i : g[i] - g[k] < Span(b)}) <= Rates[b].max
  <2>1. \A k \in 1..i : g[k] = granted[b][k]
    BY <1>2, <1>3
  <2>2. g[i] = granted[b][i] /\ i \in DOMAIN granted[b]
    BY <1>1, <1>2, <1>3
  <2>3. {k \in 1..i : g[i] - g[k] < Span(b)}
            = {k \in 1..i : granted[b][i] - granted[b][k] < Span(b)}
    BY <2>1, <2>2
  <2>4. QED
    BY <2>2, <2>3 DEF Kept
<1>13. \A i \in DOMAIN g : i = n + 1 \/ i \in 1..n
  <2>1. DOMAIN g = 1..(n + 1)
    BY <1>3
  <2>2. \A i \in 1..(n + 1) : i = n + 1 \/ i \in 1..n
    BY <1>2
  <2>3. QED
    BY <2>1, <2>2
<1>14. Kept(g, b)
  BY <1>11, <1>12, <1>13 DEF Kept
<1>15. QED
  BY <1>14 DEF g

Window == \A b \in Buckets : Kept(granted[b], b)

\* The limiter is left alone, or the clock ticks, or a request asks it.
LEMMA LimiterSteps ==
    ASSUME [Next]_vars
    PROVE  UNCHANGED <<now, limiter>> \/ Tick \/ Limited \/ Passed
<1>1. UNCHANGED vars => UNCHANGED <<now, limiter>>
  BY DEF vars, limiter
<1>2. Arrive => UNCHANGED <<now, limiter>>
  BY DEF Arrive
<1>3. TooLarge \/ BodyReceived \/ Unauthorized \/ Authorized => UNCHANGED <<now, limiter>>
  BY DEF TooLarge, BodyReceived, Unauthorized, Authorized, Go, End
<1>4. Unreadable \/ Readable \/ Rejected \/ Accepted => UNCHANGED <<now, limiter>>
  BY DEF Unreadable, Readable, Rejected, Accepted, Go, End
<1>5. Reload \/ CompileFails \/ Compile \/ Render \/ Finish \/ Poster
          => UNCHANGED <<now, limiter>>
  BY DEF Reload, CompileFails, Compile, Render, Finish, Poster, Go, End
<1>6. Expand => UNCHANGED <<now, limiter>>
  BY DEF Expand, Go, End
<1>7. QED
  BY <1>1, <1>2, <1>3, <1>4, <1>5, <1>6 DEF Next, Done

\* The tokens and the clock, and what the clients were told.
LEMMA LimiterInit ==
    ASSUME Init
    PROVE  Limiter /\ Window
<1>1. /\ now = 0 /\ refused = {}
      /\ \A b \in Buckets : tokens[b] = << >> /\ granted[b] = << >>
      /\ tokens \in [Buckets -> Seq(Nat)] /\ granted \in [Buckets -> Seq(Nat)]
  BY DEF Init
<1>2. << >> \in Seq(Nat) /\ Len(<< >>) = 0 /\ DOMAIN << >> = {}
  OBVIOUS
<1>3. EndOf(<< >>, << >>, 0)
  BY <1>2 DEF EndOf
<1>4. ASSUME NEW b \in Buckets PROVE Bucketful(b)
  <2>1. Ordered(<< >>) /\ Dropped(<< >>, 0, now, Span(b))
    BY <1>2 DEF Ordered, Dropped
  <2>2. Len(<< >>) <= Rates[b].max
    BY <1>2, SpanType
  <2>3. 0 \in 0..Len(<< >>)
    BY <1>2
  <2>4. QED
    BY <1>1, <1>2, <1>3, <2>1, <2>2, <2>3 DEF Bucketful
<1>5. \A b \in Buckets : Kept(<< >>, b)
  BY <1>2 DEF Kept
<1>6. QED
  BY <1>1, <1>4, <1>5 DEF Limiter, Window

\* What time and the requests do to the limiter.
LEMMA LimiterStep ==
    ASSUME Limiter, Window, [Next]_vars
    PROVE  (Limiter /\ Window)'
<1>1. /\ now \in Nat
      /\ tokens \in [Buckets -> Seq(Nat)] /\ granted \in [Buckets -> Seq(Nat)]
      /\ \A b \in Buckets : Bucketful(b)
      /\ \A r \in refused : Refusal(r)
      /\ \A b \in Buckets : Kept(granted[b], b)
  BY DEF Limiter, Window
<1>2. CASE UNCHANGED <<now, limiter>>
  <2>1. /\ now' = now /\ tokens' = tokens /\ granted' = granted /\ refused' = refused
    BY <1>2 DEF limiter
  <2>2. \A b \in Buckets : Bucketful(b)'
    BY <1>1, <2>1 DEF Bucketful
  <2>3. \A r \in refused' : Refusal(r)'
    BY <1>1, <2>1 DEF Refusal
  <2>4. \A b \in Buckets : Kept(granted[b], b)'
    BY <1>1, <2>1 DEF Kept
  <2>5. QED
    BY <1>1, <2>1, <2>2, <2>3, <2>4 DEF Limiter, Window
<1>3. CASE Tick
  <2>1. /\ now' = now + 1 /\ tokens' = tokens /\ granted' = granted /\ refused' = refused
    BY <1>3 DEF Tick, limiter
  <2>2. ASSUME NEW b \in Buckets PROVE Bucketful(b)'
    <3>1. Bucketful(b) /\ granted[b] \in Seq(Nat) /\ Span(b) \in Nat
      BY <1>1, SpanType
    <3>2. \A i \in DOMAIN granted[b] : granted[b][i] \in Nat
      BY <3>1
    <3>3. PICK d \in 0..Len(granted[b]) : /\ EndOf(tokens[b], granted[b], d)
                                          /\ Dropped(granted[b], d, now, Span(b))
      BY <3>1 DEF Bucketful
    <3>4. Dropped(granted[b], d, now + 1, Span(b))
      <4>1. ASSUME NEW i \in 1..d PROVE (now + 1) - granted[b][i] >= Span(b)
        <5>1. now - granted[b][i] >= Span(b)
          BY <3>3 DEF Dropped
        <5>2. granted[b][i] \in Nat
          BY <3>1, <3>2, <3>3
        <5>3. QED
          BY <1>1, <3>1, <5>1, <5>2
      <4>2. QED
        BY <4>1 DEF Dropped
    <3>5. \A i \in DOMAIN granted[b] : granted[b][i] <= now + 1
      BY <1>1, <3>1, <3>2 DEF Bucketful
    <3>6. QED
      BY <2>1, <3>1, <3>3, <3>4, <3>5 DEF Bucketful
  <2>3. \A r \in refused' : Refusal(r)'
    BY <1>1, <2>1 DEF Refusal
  <2>4. \A b \in Buckets : Kept(granted[b], b)'
    BY <1>1, <2>1 DEF Kept
  <2>5. now' \in Nat
    BY <1>1, <2>1
  <2>6. QED
    BY <1>1, <2>1, <2>2, <2>3, <2>4, <2>5 DEF Limiter, Window
<1>4. CASE Limited
  <2>1. PICK b \in Buckets : b = Bucket(request)
    BY DEF Bucket, Buckets
  <2>2. /\ now' = now /\ granted' = granted
        /\ tokens' = [tokens EXCEPT ![b] = Live(b)]
        /\ refused' = refused \cup {[bucket |-> b, at |-> now, retry |-> RetryAfter(b),
                                     held |-> Live(b)]}
        /\ Full(b)
    BY <1>4, <2>1 DEF Limited, End
  <2>3. Live(b) \in Seq(Nat) /\ Len(Live(b)) <= Rates[b].max
    BY LiveGranted
  <2>4. PICK d \in 0..Len(granted[b]) : /\ EndOf(Live(b), granted[b], d)
                                        /\ Dropped(granted[b], d, now, Span(b))
    BY LiveGranted
  <2>5. \A c \in Buckets : tokens'[c] = IF c = b THEN Live(b) ELSE tokens[c]
    BY <1>1, <2>2
  <2>6. ASSUME NEW c \in Buckets PROVE Bucketful(c)'
    <3>1. Bucketful(c)
      BY <1>1
    <3>2. CASE c = b
      BY <2>2, <2>3, <2>4, <2>5, <3>1, <3>2 DEF Bucketful
    <3>3. CASE c # b
      BY <2>2, <2>5, <3>1, <3>3 DEF Bucketful
    <3>4. QED
      BY <3>2, <3>3
  <2>7. \A r \in refused' : Refusal(r)
    BY <1>1, <2>2, RefusalHolds
  <2>8. \A r \in refused' : Refusal(r)'
    BY <2>7 DEF Refusal
  <2>9. \A c \in Buckets : Kept(granted[c], c)'
    BY <1>1, <2>2 DEF Kept
  <2>10. tokens' \in [Buckets -> Seq(Nat)]
    BY <1>1, <2>2, <2>3
  <2>11. QED
    BY <1>1, <2>2, <2>6, <2>8, <2>9, <2>10 DEF Limiter, Window
<1>5. CASE Passed
  <2>1. PICK b \in Buckets : b = Bucket(request)
    BY DEF Bucket, Buckets
  <2>2. PICK t, g : t = Append(Live(b), now) /\ g = Append(granted[b], now)
    OBVIOUS
  <2>3. /\ now' = now /\ refused' = refused /\ ~Full(b)
        /\ tokens' = [tokens EXCEPT ![b] = t]
        /\ granted' = [granted EXCEPT ![b] = g]
    BY <1>1, <1>5, <2>1, <2>2 DEF Passed, Go
  <2>4. /\ t \in Seq(Nat) /\ Len(t) <= Rates[b].max
        /\ g \in Seq(Nat) /\ Ordered(g) /\ \A i \in DOMAIN g : g[i] <= now
        /\ \E d \in 0..Len(g) : EndOf(t, g, d) /\ Dropped(g, d, now, Span(b))
    BY <2>2, <2>3, OneMore
  <2>5. Kept(g, b)
    BY <1>1, <2>2, <2>3, OneMoreKept
  <2>6. \A c \in Buckets : /\ tokens'[c] = IF c = b THEN t ELSE tokens[c]
                           /\ granted'[c] = IF c = b THEN g ELSE granted[c]
    BY <1>1, <2>3
  <2>7. ASSUME NEW c \in Buckets PROVE Bucketful(c)'
    <3>1. Bucketful(c)
      BY <1>1
    <3>2. CASE c = b
      BY <2>3, <2>4, <2>6, <3>2 DEF Bucketful
    <3>3. CASE c # b
      BY <2>3, <2>6, <3>1, <3>3 DEF Bucketful
    <3>4. QED
      BY <3>2, <3>3
  <2>8. \A r \in refused' : Refusal(r)'
    BY <1>1, <2>3 DEF Refusal
  <2>9. ASSUME NEW c \in Buckets PROVE Kept(granted[c], c)'
    <3>1. Kept(granted'[c], c)
      BY <1>1, <2>5, <2>6
    <3>2. QED
      BY <3>1 DEF Kept
  <2>10. tokens' \in [Buckets -> Seq(Nat)] /\ granted' \in [Buckets -> Seq(Nat)]
    BY <1>1, <2>3, <2>4
  <2>11. QED
    BY <1>1, <2>3, <2>7, <2>8, <2>9, <2>10 DEF Limiter, Window
<1>6. QED
  BY <1>2, <1>3, <1>4, <1>5, LimiterSteps

\* Tokens, grants and refusals belong together in every state that is reached.
LEMMA LimiterInvariant == Spec => [](Limiter /\ Window)
<1>1. Init => Limiter /\ Window
  BY LimiterInit
<1>2. Limiter /\ Window /\ [Next]_vars => (Limiter /\ Window)'
  BY LimiterStep
<1>3. QED
  BY <1>1, <1>2, PTL DEF Spec

\* In every window of its length, wherever it starts, a bucket lets no more requests
\* pass than its rate allows (RateLimitMiddleware._is_rate_limited).
THEOREM RateIsKept == Spec => []WindowKept
<1>1. Limiter /\ Window => WindowKept
  BY DEF Window, Kept, WindowKept, Span, Limiter
<1>2. QED
  BY <1>1, LimiterInvariant, PTL

\* A client that waits for as long as Retry-After says finds a token free.
THEOREM RetryAfterSuffices == Spec => []RetrySuffices
<1>1. ASSUME Limiter PROVE RetrySuffices
  <2> SUFFICES ASSUME NEW r \in refused
               PROVE  Cardinality({i \in DOMAIN r.held :
                          r.at + 2 * r.retry - r.held[i] < 2 * Rates[r.bucket].window})
                        < Rates[r.bucket].max
    BY DEF RetrySuffices
  <2> DEFINE W == {i \in DOMAIN r.held : r.at + 2 * r.retry - r.held[i] < Span(r.bucket)}
  <2>1. Refusal(r)
    BY <1>1 DEF Limiter
  <2>2. PICK n \in Nat, m \in Nat, span \in Nat, at \in Nat, first \in Nat :
            /\ n = Len(r.held) /\ n >= 1 /\ n <= m /\ m = Rates[r.bucket].max
            /\ span = Span(r.bucket) /\ at = r.at /\ first = r.held[1]
    <3>1. Len(r.held) \in Nat /\ Len(r.held) >= 1 /\ r.held[1] \in Nat
      BY <2>1 DEF Refusal
    <3>2. QED
      BY <2>1, <3>1, SpanType DEF Refusal
  <2>3. r.retry = (span - (at - first)) \div 2 + 1
    BY <2>1, <2>2 DEF Refusal
  <2>4. PICK q \in Int : q = (span - (at - first)) \div 2 /\ 2 * q + 1 >= span - (at - first)
    <3>1. PICK y \in Int : y = span - (at - first)
      BY <2>2
    <3>2. y \div 2 \in Int /\ 2 * (y \div 2) + 1 >= y
      BY <3>1
    <3>3. QED
      BY <3>1, <3>2
  <2>5. at + 2 * (q + 1) - first >= span
    <3>1. q \in Int /\ 2 * q + 1 >= span - (at - first)
      BY <2>4
    <3>2. span \in Int /\ at \in Int /\ first \in Int
      BY <2>2
    <3>3. QED
      BY <3>1, <3>2
  <2>6. 1 \notin W
    <3>1. r.at + 2 * r.retry - r.held[1] = at + 2 * (q + 1) - first
      <4>1. r.retry = q + 1 /\ r.at = at /\ r.held[1] = first
        BY <2>2, <2>3, <2>4
      <4>2. QED
        BY <4>1
    <3>2. at + 2 * (q + 1) - first \in Int /\ span \in Int /\ Span(r.bucket) = span
      <4>1. q \in Int /\ at \in Int /\ first \in Int /\ span \in Int
        BY <2>2, <2>4
      <4>2. at + 2 * (q + 1) - first \in Int
        BY <4>1
      <4>3. Span(r.bucket) = span
        BY <2>2
      <4>4. QED
        BY <4>1, <4>2, <4>3
    <3>3. ~(r.at + 2 * r.retry - r.held[1] < Span(r.bucket))
      BY <2>5, <3>1, <3>2
    <3>4. QED
      BY <3>3
  <2>7. W \in SUBSET (2..n)
    <3>1. DOMAIN r.held = 1..n
      BY <2>1, <2>2 DEF Refusal
    <3>2. \A i \in W : i \in 1..n /\ i # 1
      BY <2>6, <3>1
    <3>3. \A i \in 1..n : i # 1 => i \in 2..n
      BY <2>2
    <3>4. QED
      BY <3>2, <3>3
  <2>8. IsFiniteSet(2..n) /\ Cardinality(2..n) = IF 2 > n THEN 0 ELSE n - 2 + 1
    <3>1. n \in Int /\ 2 \in Int
      BY <2>2
    <3>2. QED
      BY <3>1, FS_Interval
  <2>9. Cardinality(2..n) = n - 1
    BY <2>2, <2>8
  <2> HIDE DEF W
  <2>10. IsFiniteSet(W) /\ Cardinality(W) <= Cardinality(2..n)
    BY <2>7, <2>8, FS_Subset
  <2>11. Cardinality(W) \in Nat
    BY <2>10, FS_CardinalityType
  <2>12. Cardinality(W) < m
    BY <2>2, <2>9, <2>10, <2>11
  <2>13. QED
    BY <2>2, <2>12 DEF W, Span
<1>2. QED
  BY <1>1, LimiterInvariant, PTL

-----------------------------------------------------------------------------
(* Ranks: how many elements of a finite set come before one of them.          *)

StrictOrder(S, R) ==
    /\ \A a \in S : <<a, a>> \notin R
    /\ \A a, b \in S : a # b => <<a, b>> \in R \/ <<b, a>> \in R
    /\ \A a, b, c \in S : <<a, b>> \in R /\ <<b, c>> \in R => <<a, c>> \in R

Below(S, R, b) == {a \in S : <<a, b>> \in R}
RankOf(S, R, b) == Cardinality(Below(S, R, b)) + 1

\* What is injective into the numbers up to the size of its domain takes them all.
LEMMA TakesAll ==
    ASSUME NEW S, IsFiniteSet(S), NEW n \in Nat, n = Cardinality(S),
           NEW f \in [S -> 1..n], \A a, b \in S : f[a] = f[b] => a = b
    PROVE  \A k \in 1..n : \E a \in S : f[a] = k
<1>1. f \in Injection(S, 1..n)
  BY DEF Injection, IsInjective
<1>2. IsFiniteSet(1..n) /\ Cardinality(1..n) = n
  <2>1. n \in Int /\ 1 \in Int
    OBVIOUS
  <2>2. IsFiniteSet(1..n) /\ Cardinality(1..n) = IF 1 > n THEN 0 ELSE n - 1 + 1
    BY <2>1, FS_Interval
  <2>3. QED
    BY <2>2
<1>3. f \in Surjection(S, 1..n)
  BY <1>1, <1>2, FS_Injection
<1>4. QED
  BY <1>3 DEF Surjection

\* The ranks of a strict order are the numbers from 1, each one once.
LEMMA Ranks ==
    ASSUME NEW S, IsFiniteSet(S), NEW R, StrictOrder(S, R)
    PROVE  /\ \A a, b \in S : <<a, b>> \in R <=> RankOf(S, R, a) < RankOf(S, R, b)
           /\ \A a, b \in S : RankOf(S, R, a) = RankOf(S, R, b) => a = b
           /\ \A a \in S : RankOf(S, R, a) \in 1..Cardinality(S)
           /\ \A k \in 1..Cardinality(S) : \E a \in S : RankOf(S, R, a) = k
<1> DEFINE n == Cardinality(S)
<1>1. n \in Nat
  BY FS_CardinalityType
<1>2. ASSUME NEW a \in S
      PROVE  /\ IsFiniteSet(Below(S, R, a)) /\ Cardinality(Below(S, R, a)) \in Nat
             /\ RankOf(S, R, a) \in 1..n
  <2>1. Below(S, R, a) \in SUBSET S
    BY DEF Below
  <2>2. IsFiniteSet(Below(S, R, a))
    BY <2>1, FS_Subset
  <2>3. Cardinality(Below(S, R, a)) \in Nat
    BY <2>2, FS_CardinalityType
  <2>4. IsFiniteSet(S \ {a}) /\ Cardinality(S \ {a}) = n - 1
    BY FS_RemoveElement
  <2>5. Below(S, R, a) \in SUBSET (S \ {a})
    BY DEF Below, StrictOrder
  <2>6. Cardinality(Below(S, R, a)) <= n - 1
    BY <2>4, <2>5, FS_Subset
  <2>7. QED
    BY <1>1, <2>2, <2>3, <2>6 DEF RankOf
<1>3. ASSUME NEW a \in S, NEW b \in S, <<a, b>> \in R
      PROVE  RankOf(S, R, a) < RankOf(S, R, b)
  <2>1. a \notin Below(S, R, a)
    BY DEF Below, StrictOrder
  <2>2. Below(S, R, a) \cup {a} \in SUBSET Below(S, R, b)
    BY <1>3 DEF Below, StrictOrder
  <2>3. Cardinality(Below(S, R, a) \cup {a}) = Cardinality(Below(S, R, a)) + 1
    BY <1>2, <2>1, FS_AddElement
  <2>4. Cardinality(Below(S, R, a) \cup {a}) <= Cardinality(Below(S, R, b))
    BY <1>2, <2>2, FS_Subset
  <2>5. QED
    BY <1>2, <2>3, <2>4 DEF RankOf
<1>4. ASSUME NEW a \in S, NEW b \in S, RankOf(S, R, a) = RankOf(S, R, b)
      PROVE  a = b
  <2>1. SUFFICES ASSUME a # b PROVE FALSE
    OBVIOUS
  <2>2. <<a, b>> \in R \/ <<b, a>> \in R
    BY <2>1 DEF StrictOrder
  <2>3. RankOf(S, R, a) < RankOf(S, R, b) \/ RankOf(S, R, b) < RankOf(S, R, a)
    BY <1>3, <2>2
  <2>4. QED
    BY <1>2, <1>4, <2>3
<1>5. ASSUME NEW a \in S, NEW b \in S, RankOf(S, R, a) < RankOf(S, R, b)
      PROVE  <<a, b>> \in R
  <2>1. RankOf(S, R, a) \in Int /\ RankOf(S, R, b) \in Int
    BY <1>2
  <2>2. a # b /\ ~(<<b, a>> \in R)
    BY <1>3, <1>5, <2>1
  <2>3. QED
    BY <2>2 DEF StrictOrder
<1>6. \A k \in 1..n : \E a \in S : RankOf(S, R, a) = k
  <2> DEFINE f == [a \in S |-> RankOf(S, R, a)]
  <2>1. f \in [S -> 1..n] /\ \A a, b \in S : f[a] = f[b] => a = b
    BY <1>2, <1>4
  <2>2. \A a \in S : f[a] = RankOf(S, R, a)
    OBVIOUS
  <2> HIDE DEF f, n
  <2>3. \A k \in 1..n : \E a \in S : f[a] = k
    BY <1>1, <2>1, TakesAll DEF n
  <2>4. QED
    BY <2>2, <2>3
<1>7. QED
  BY <1>2, <1>3, <1>4, <1>5, <1>6

\* How many numbers from 1 are less than a number.
LEMMA CountBelow ==
    ASSUME NEW n \in Nat, NEW k \in 1..n
    PROVE  Cardinality({j \in 1..n : j < k}) = k - 1
<1>1. k \in Int /\ 1 <= k /\ k <= n /\ k - 1 \in Int
  OBVIOUS
<1>2. {j \in 1..n : j < k} = 1..(k - 1)
  BY <1>1
<1>3. Cardinality(1..(k - 1)) = IF 1 > k - 1 THEN 0 ELSE (k - 1) - 1 + 1
  <2>1. 1 \in Int /\ k - 1 \in Int
    BY <1>1
  <2>2. QED
    BY <2>1, FS_Interval
<1>4. Cardinality(1..(k - 1)) = k - 1
  BY <1>1, <1>3
<1>5. QED
  BY <1>2, <1>4

-----------------------------------------------------------------------------
(* What is read is read back: the parts of a composition.                     *)

\* A list of references without repetitions is kept as it is.
LEMMA RefsOnce ==
    ASSUME NEW refs \in Seq(Source)
    PROVE  ReadRefs(ReadRefs(refs)) = ReadRefs(refs)
<1> DEFINE F == FirstRefs(refs)
           R == {pair \in Int \X Int : pair[1] < pair[2]}
           n == Cardinality(F)
           r == ReadRefs(refs)
<1>1. F \in SUBSET (1..Len(refs)) /\ Len(refs) \in Int
  BY DEF FirstRefs
<1>2. IsFiniteSet(F)
  <2>1. IsFiniteSet(1..Len(refs))
    BY <1>1, FS_Interval
  <2>2. QED
    BY <1>1, <2>1, FS_Subset
<1>3. \A a \in F : a \in Int
  BY <1>1
<1>4. n \in Nat
  BY <1>2, FS_CardinalityType
<1>5. \A a, b \in F : <<a, b>> \in R <=> a < b
  BY <1>3
<1>6. StrictOrder(F, R)
  <2> HIDE DEF F, R
  <2>1. \A a \in F : <<a, a>> \notin R
    BY <1>3, <1>5
  <2>2. \A a, b \in F : a # b => <<a, b>> \in R \/ <<b, a>> \in R
    BY <1>3, <1>5
  <2>3. \A a, b, c \in F : <<a, b>> \in R /\ <<b, c>> \in R => <<a, c>> \in R
    BY <1>3, <1>5
  <2>4. QED
    BY <2>1, <2>2, <2>3 DEF StrictOrder
<1>7. \A k \in F : RankOf(F, R, k) = Cardinality({j \in F : j < k}) + 1
  <2>1. ASSUME NEW k \in F PROVE RankOf(F, R, k) = Cardinality({j \in F : j < k}) + 1
    <3>1. Below(F, R, k) = {j \in F : j < k}
      BY <1>5 DEF Below
    <3>2. QED
      BY <3>1 DEF RankOf
  <2>2. QED
    BY <2>1
<1> HIDE DEF F, R, n
<1>8. ASSUME NEW i \in 1..n
      PROVE  \E k \in F : Cardinality({j \in F : j < k}) = i - 1
  <2>1. PICK k \in F : RankOf(F, R, k) = i
    BY <1>2, <1>6, Ranks DEF n
  <2>2. IsFiniteSet({j \in F : j < k})
    <3>1. {j \in F : j < k} \in SUBSET F
      OBVIOUS
    <3>2. QED
      BY <1>2, <3>1, FS_Subset
  <2>3. Cardinality({j \in F : j < k}) \in Nat
    BY <2>2, FS_CardinalityType
  <2>4. Cardinality({j \in F : j < k}) + 1 = i
    BY <1>7, <2>1
  <2>5. \A c \in Nat : c + 1 = i => c = i - 1
    BY <1>4
  <2>6. QED
    BY <2>3, <2>4, <2>5
<1> DEFINE at(i) == CHOOSE k \in F : Cardinality({j \in F : j < k}) = i - 1
<1>9. ASSUME NEW i \in 1..n
      PROVE  at(i) \in F /\ Cardinality({j \in F : j < at(i)}) = i - 1
  BY <1>8
<1>10. r = [i \in 1..n |-> refs[at(i)]]
  BY DEF ReadRefs, F, n
<1> HIDE DEF at, r
<1>11. ASSUME NEW i \in 1..n, NEW j \in 1..n, i # j PROVE r[i] # r[j]
  <2>1. at(i) # at(j)
    <3>1. i - 1 # j - 1
      BY <1>4, <1>11
    <3>2. QED
      BY <1>9, <3>1
  <2>2. at(i) \in F /\ at(j) \in F /\ at(i) \in Int /\ at(j) \in Int
    BY <1>3, <1>9
  <2>3. at(i) < at(j) \/ at(j) < at(i)
    BY <2>1, <2>2
  <2>4. at(i) \in 1..Len(refs) /\ at(j) \in 1..Len(refs)
    BY <1>1, <2>2
  <2>5. refs[at(i)] # refs[at(j)]
    <3>1. CASE at(i) < at(j)
      <4>1. at(i) \in 1..(at(j) - 1)
        BY <1>1, <2>4, <3>1
      <4>2. QED
        BY <2>2, <4>1 DEF FirstRefs, F
    <3>2. CASE at(j) < at(i)
      <4>1. at(j) \in 1..(at(i) - 1)
        BY <1>1, <2>4, <3>2
      <4>2. QED
        BY <2>2, <4>1 DEF FirstRefs, F
    <3>3. QED
      BY <2>3, <3>1, <3>2
  <2>6. QED
    BY <1>10, <2>5
<1>12. DOMAIN r = 1..n
  BY <1>10
<1>13. FirstRefs(r) = 1..n
  <2>1. ASSUME NEW k \in 1..n, NEW j \in 1..(k - 1) PROVE r[j] # r[k]
    <3>1. j \in 1..n /\ j # k
      BY <1>4
    <3>2. QED
      BY <1>11, <3>1
  <2>2. QED
    BY <1>12, <2>1 DEF FirstRefs
<1>14. Cardinality(1..n) = n
  <2>1. n \in Int /\ 1 \in Int
    BY <1>4
  <2>2. Cardinality(1..n) = IF 1 > n THEN 0 ELSE n - 1 + 1
    BY <2>1, FS_Interval
  <2>3. QED
    BY <1>4, <2>2
<1>15. ReadRefs(r) = [i \in 1..n |-> r[CHOOSE k \in 1..n : Cardinality({j \in 1..n : j < k}) = i - 1]]
  BY <1>13, <1>14 DEF ReadRefs
<1>16. ASSUME NEW i \in 1..n
       PROVE  (CHOOSE k \in 1..n : Cardinality({j \in 1..n : j < k}) = i - 1) = i
  <2>1. \A k \in 1..n : Cardinality({j \in 1..n : j < k}) = k - 1
    BY <1>4, CountBelow
  <2>2. \A k \in 1..n : k - 1 = i - 1 => k = i
    BY <1>4
  <2>3. \A k \in 1..n : Cardinality({j \in 1..n : j < k}) = i - 1 <=> k = i
    BY <2>1, <2>2
  <2>4. QED
    BY <2>3
<1>17. ReadRefs(r) = [i \in 1..n |-> r[i]]
  BY <1>15, <1>16
<1>18. r = [i \in 1..n |-> r[i]]
  BY <1>10
<1>19. QED
  BY <1>17, <1>18 DEF r

\* The end of a cue is a time, whether it is given or follows from a duration.
LEMMA CueEndType ==
    ASSUME NEW cue \in CaptionCue
    PROVE  CueEnd(cue) \in Int /\ cue.start \in Int
<1>1. cue.start \in Int /\ cue.end \subseteq Int /\ cue.duration \subseteq Int
  BY DEF Optional, CaptionCue
<1>2. Given(cue.duration, 0) \in Int
  BY <1>1 DEF Given
<1>3. cue.start + Given(cue.duration, 0) \in Int
  BY <1>1, <1>2
<1>4. QED
  BY <1>1, <1>3 DEF CueEnd, Given

\* Cues are sorted by their times, and by their place where these are the same.
LEMMA EarlierOrders ==
    ASSUME NEW cues \in Seq(CaptionCue),
           NEW R, R = {pair \in (1..Len(cues)) \X (1..Len(cues)) : Earlier(cues, pair[1], pair[2])}
    PROVE  /\ StrictOrder(1..Len(cues), R)
           /\ \A i, j \in 1..Len(cues) : <<i, j>> \in R <=> Earlier(cues, i, j)
<1> DEFINE D == 1..Len(cues)
           from(i) == cues[i].start
           to(i) == CueEnd(cues[i])
<1>1. \A i \in D : i \in Int /\ from(i) \in Int /\ to(i) \in Int
  BY CueEndType, ElementOfSeq
<1>2. \A i, j \in D : <<i, j>> \in R <=> Earlier(cues, i, j)
  OBVIOUS
<1>3. \A i, j \in D :
          Earlier(cues, i, j) <=>
              \/ from(i) < from(j) \/ (from(i) = from(j) /\ to(i) < to(j))
              \/ /\ ~(from(j) < from(i) \/ (from(j) = from(i) /\ to(j) < to(i)))
                 /\ i < j
  BY DEF Earlier, CueBefore
<1> HIDE DEF from, to, D
<1>4. ASSUME NEW i \in D PROVE ~Earlier(cues, i, i)
  BY <1>1, <1>3
<1>5. ASSUME NEW i \in D, NEW j \in D, i # j
      PROVE  Earlier(cues, i, j) \/ Earlier(cues, j, i)
  BY <1>1, <1>3, <1>5
<1>6. ASSUME NEW i \in D, NEW j \in D, NEW k \in D, Earlier(cues, i, j), Earlier(cues, j, k)
      PROVE  Earlier(cues, i, k)
  BY <1>1, <1>3, <1>6
<1>7. StrictOrder(D, R)
  BY <1>2, <1>4, <1>5, <1>6 DEF StrictOrder
<1>8. QED
  BY <1>2, <1>7 DEF D

\* Cues that are sorted stay where they are, and have the ends they were given.
LEMMA CuesOnce ==
    ASSUME NEW cues \in Seq(CaptionCue)
    PROVE  ReadCues(ReadCues(cues)) = ReadCues(cues)
<1> DEFINE n == Len(cues)
           D == 1..n
           R == {pair \in D \X D : Earlier(cues, pair[1], pair[2])}
           r == ReadCues(cues)
           at(k) == CHOOSE j \in D : Place(cues, j) = k
<1>1. n \in Nat /\ DOMAIN cues = D /\ IsFiniteSet(D) /\ Cardinality(D) = n
  <2>1. n \in Int /\ 1 \in Int /\ n \in Nat /\ DOMAIN cues = D
    OBVIOUS
  <2>2. IsFiniteSet(D) /\ Cardinality(D) = IF 1 > n THEN 0 ELSE n - 1 + 1
    BY <2>1, FS_Interval
  <2>3. QED
    BY <2>1, <2>2
<1>2. StrictOrder(D, R) /\ \A i, j \in D : <<i, j>> \in R <=> Earlier(cues, i, j)
  BY EarlierOrders
<1>3. r = [k \in D |-> ReadCue(cues[at(k)])]
  <2>1. CueOrder(cues) = [k \in D |-> at(k)]
    BY <1>1 DEF CueOrder
  <2>2. QED
    BY <1>1, <2>1 DEF ReadCues
<1> HIDE DEF D, R, at, r
<1>4. ASSUME NEW j \in D PROVE Place(cues, j) = RankOf(D, R, j)
  <2>1. Below(D, R, j) = {i \in D : Earlier(cues, i, j)}
    BY <1>2, <1>4 DEF Below
  <2>2. QED
    BY <1>1, <2>1 DEF Place, RankOf
<1>5. /\ \A a, b \in D : <<a, b>> \in R <=> RankOf(D, R, a) < RankOf(D, R, b)
      /\ \A k \in 1..n : \E a \in D : RankOf(D, R, a) = k
  <2>1. /\ \A a, b \in D : <<a, b>> \in R <=> RankOf(D, R, a) < RankOf(D, R, b)
        /\ \A k \in 1..Cardinality(D) : \E a \in D : RankOf(D, R, a) = k
    <3>1. IsFiniteSet(D) /\ StrictOrder(D, R)
      BY <1>1, <1>2
    <3>2. QED
      BY <3>1, Ranks
  <2>2. QED
    BY <1>1, <2>1
<1>6. ASSUME NEW k \in D PROVE at(k) \in D /\ Place(cues, at(k)) = k
  <2>1. \E j \in D : Place(cues, j) = k
    BY <1>4, <1>5 DEF D
  <2>2. QED
    BY <2>1 DEF at
<1>7. ASSUME NEW i \in D, NEW j \in D
      PROVE  Earlier(cues, at(i), at(j)) <=> i < j
  <2>1. /\ at(i) \in D /\ at(j) \in D
        /\ RankOf(D, R, at(i)) = i /\ RankOf(D, R, at(j)) = j
    BY <1>4, <1>6
  <2>2. <<at(i), at(j)>> \in R <=> i < j
    BY <1>5, <2>1
  <2>3. QED
    BY <1>2, <2>1, <2>2
<1>8. ASSUME NEW k \in D
      PROVE  /\ r[k] = [cues[at(k)] EXCEPT !.end = {CueEnd(cues[at(k)])}]
             /\ CueEnd(r[k]) = CueEnd(cues[at(k)]) /\ r[k].start = cues[at(k)].start
             /\ ReadCue(r[k]) = r[k]
  <2>1. PICK cue \in CaptionCue : cue = cues[at(k)]
    BY <1>6, ElementOfSeq DEF D
  <2>2. PICK end : end = CueEnd(cue)
    OBVIOUS
  <2>3. r[k] = [cue EXCEPT !.end = {end}]
    BY <1>3, <2>1, <2>2 DEF ReadCue
  <2>4. r[k].end = {end} /\ r[k].start = cue.start
    BY <2>1, <2>3 DEF CaptionCue
  <2>5. CueEnd(r[k]) = end
    BY <2>4 DEF CueEnd, Given
  <2>6. [[cue EXCEPT !.end = {end}] EXCEPT !.end = {end}] = [cue EXCEPT !.end = {end}]
    BY <2>1 DEF CaptionCue
  <2>7. ReadCue(r[k]) = r[k]
    BY <2>3, <2>5, <2>6 DEF ReadCue
  <2>8. QED
    BY <2>1, <2>2, <2>3, <2>4, <2>5, <2>7
<1>9. ASSUME NEW i \in D, NEW j \in D
      PROVE  CueBefore(r[i], r[j]) <=> CueBefore(cues[at(i)], cues[at(j)])
  BY <1>8 DEF CueBefore
<1>10. ASSUME NEW i \in D, NEW j \in D
       PROVE  Earlier(r, i, j) <=> i < j
  <2>1. /\ i \in Int /\ j \in Int /\ at(i) \in D /\ at(j) \in D
    BY <1>1, <1>6 DEF D
  <2>2. CASE i < j
    <3>1. Earlier(cues, at(i), at(j)) /\ ~Earlier(cues, at(j), at(i))
      BY <1>7, <2>1, <2>2
    <3>2. ~CueBefore(cues[at(j)], cues[at(i)])
      BY <3>1 DEF Earlier
    <3>3. QED
      BY <1>9, <2>2, <3>2 DEF Earlier
  <2>3. CASE ~(i < j)
    <3>1. ~Earlier(cues, at(i), at(j))
      BY <1>7, <2>3
    <3>2. ~CueBefore(cues[at(i)], cues[at(j)])
      BY <3>1 DEF Earlier
    <3>3. QED
      BY <1>9, <2>3, <3>2 DEF Earlier
  <2>4. QED
    BY <2>2, <2>3
<1>11. DOMAIN r = D
  BY <1>3
<1>12. ASSUME NEW j \in D PROVE Place(r, j) = j
  <2>1. {i \in DOMAIN r : Earlier(r, i, j)} = {i \in 1..n : i < j}
    BY <1>10, <1>11 DEF D
  <2>2. Cardinality({i \in 1..n : i < j}) = j - 1
    BY <1>1, CountBelow DEF D
  <2>3. j \in Int /\ j - 1 + 1 = j
    BY <1>1 DEF D
  <2>4. Place(r, j) = Cardinality({i \in 1..n : i < j}) + 1
    BY <2>1 DEF Place
  <2>5. QED
    BY <2>2, <2>3, <2>4
<1>13. ASSUME NEW k \in D PROVE (CHOOSE j \in D : Place(r, j) = k) = k
  BY <1>12
<1>14. CueOrder(r) = [k \in D |-> k]
  <2>1. CueOrder(r) = [k \in D |-> CHOOSE j \in D : Place(r, j) = k]
    BY <1>11 DEF CueOrder
  <2>2. QED
    BY <1>13, <2>1
<1>15. ReadCues(r) = [k \in D |-> ReadCue(r[k])]
  BY <1>11, <1>14 DEF ReadCues
<1>16. ReadCues(r) = [k \in D |-> r[k]]
  BY <1>8, <1>15
<1>17. r = [k \in D |-> r[k]]
  BY <1>3
<1>18. QED
  BY <1>16, <1>17 DEF r

\* A transition has the one placement that its name stands for.
LEMMA TransitionOnce ==
    ASSUME NEW t \in Transition
    PROVE  ReadTransition(ReadTransition(t)) = ReadTransition(t)
<1>1. ReadTransition(t).name = t.name
  BY DEF ReadTransition, Transition
<1>2. ReadTransition(ReadTransition(t)) = [ReadTransition(t) EXCEPT !.placement = {Placement(t.name)}]
  BY <1>1 DEF ReadTransition
<1>3. [[t EXCEPT !.placement = {Placement(t.name)}] EXCEPT !.placement = {Placement(t.name)}]
          = [t EXCEPT !.placement = {Placement(t.name)}]
  BY DEF Transition
<1>4. QED
  BY <1>2, <1>3 DEF ReadTransition

\* A clip reads as itself once it has been read: transitions placed, references unique.
LEMMA ClipOnce ==
    ASSUME NEW clip \in Clip
    PROVE  ReadClip(ReadClip(clip)) = ReadClip(clip)
<1> DEFINE T == {ReadTransition(t) : t \in clip.transition}
           refs == ReadRefs(clip.refs)
           r == [clip EXCEPT !.transition = T, !.refs = refs]
<1>1. clip.transition \subseteq Transition /\ clip.refs \in Seq(Source)
  BY DEF Optional, Clip
<1>2. {ReadTransition(t) : t \in T} = T
  BY <1>1, TransitionOnce
<1>3. ReadRefs(refs) = refs
  BY <1>1, RefsOnce
<1>4. ReadClip(clip) = r
  BY DEF ReadClip
<1> HIDE DEF T, refs
<1>5. r.transition = T /\ r.refs = refs
  BY DEF Clip
<1>6. ReadClip(r) = [r EXCEPT !.transition = T, !.refs = refs]
  BY <1>2, <1>3, <1>5 DEF ReadClip
<1>7. [r EXCEPT !.transition = T, !.refs = refs] = r
  BY DEF Clip
<1> HIDE DEF r
<1>8. QED
  BY <1>4, <1>6, <1>7

\* An output that has been resolved resolves to itself: what it has it keeps, and
\* where nothing said what a dimension is, nothing says it the second time.
LEMMA OutputOnce ==
    ASSUME NEW output \in Output
    PROVE  ReadOutput(ReadOutput(output)) = ReadOutput(output)
<1> DEFINE of(name) == PresetTable[name]
           aspect == IF output.aspect # {} THEN output.aspect
                     ELSE {of(p).aspect : p \in output.preset}
           fps == IF output.fps # {} THEN output.fps
                  ELSE IF output.preset # {}
                       THEN {of(p).fps : p \in output.preset} ELSE {30}
           dims == Dimensions(output, aspect)
           width == IF output.width # {} THEN output.width ELSE {d.width : d \in dims}
           height == IF output.height # {} THEN output.height ELSE {d.height : d \in dims}
           r == [output EXCEPT !.aspect = aspect, !.fps = fps,
                               !.width = width, !.height = height]
<1>1. ReadOutput(output) = r
  BY DEF ReadOutput
<1>2. (IF aspect # {} THEN aspect ELSE {of(p).aspect : p \in output.preset}) = aspect
  OBVIOUS
<1>3. (IF fps # {} THEN fps ELSE IF output.preset # {}
          THEN {of(p).fps : p \in output.preset} ELSE {30}) = fps
  OBVIOUS
<1> HIDE DEF of, aspect, fps
<1>4. /\ output.resolution # {} =>
             dims = {Resolution(Given(output.resolution, ""), Given(aspect, "16:9"))}
      /\ output.resolution = {} /\ output.preset # {} => dims = {of(Given(output.preset, ""))}
      /\ output.resolution = {} /\ output.preset = {} =>
             dims = IF output.width = {} /\ output.height = {}
                    THEN {FullHd} ELSE {}
  BY DEF Dimensions, of
<1> HIDE DEF dims
<1>5. /\ dims # {} => width # {} /\ height # {}
      /\ dims = {} => /\ output.resolution = {} /\ output.preset = {}
                      /\ width = output.width /\ height = output.height
                      /\ output.width # {} \/ output.height # {}
  <2>1. dims # {} => {d.width : d \in dims} # {} /\ {d.height : d \in dims} # {}
    OBVIOUS
  <2>2. dims # {} => width # {} /\ height # {}
    BY <2>1
  <2>3. dims = {} => width = output.width /\ height = output.height
    OBVIOUS
  <2>4. ASSUME dims = {}
        PROVE  /\ output.resolution = {} /\ output.preset = {}
               /\ output.width # {} \/ output.height # {}
    <3>1. output.resolution = {}
      BY <1>4, <2>4
    <3>2. output.preset = {}
      BY <1>4, <2>4, <3>1
    <3>3. output.width # {} \/ output.height # {}
      BY <1>4, <2>4, <3>1, <3>2
    <3>4. QED
      BY <3>1, <3>2, <3>3
  <2> HIDE DEF width, height
  <2>5. QED
    BY <2>2, <2>3, <2>4
<1> HIDE DEF width, height
<1>6. /\ r.aspect = aspect /\ r.fps = fps /\ r.width = width /\ r.height = height
      /\ r.preset = output.preset /\ r.resolution = output.resolution
  BY DEF Output
<1> HIDE DEF r
<1> DEFINE dims2 == Dimensions(r, aspect)
<1>7. dims = {} => dims2 = {}
  <2>1. ASSUME dims = {}
        PROVE  /\ r.resolution = {} /\ r.preset = {}
               /\ ~(r.width = {} /\ r.height = {})
    BY <1>5, <1>6, <2>1
  <2>2. ASSUME r.resolution = {}, r.preset = {}, ~(r.width = {} /\ r.height = {})
        PROVE  Dimensions(r, aspect) = {}
    BY <2>2 DEF Dimensions
  <2>3. QED
    BY <2>1, <2>2
<1> HIDE DEF dims2
<1>8. (IF width # {} THEN width ELSE {d.width : d \in dims2}) = width
  BY <1>5, <1>7
<1>9. (IF height # {} THEN height ELSE {d.height : d \in dims2}) = height
  BY <1>5, <1>7
<1>10. ReadOutput(r) = [r EXCEPT !.aspect = aspect, !.fps = fps,
                                 !.width = width, !.height = height]
  BY <1>2, <1>3, <1>6, <1>8, <1>9 DEF ReadOutput, dims2, of
<1>11. [r EXCEPT !.aspect = aspect, !.fps = fps, !.width = width, !.height = height] = r
  BY DEF r, Output
<1>12. QED
  BY <1>1, <1>10, <1>11

\* So do captions: their cues are in order and have their ends.
LEMMA CaptionsOnce ==
    ASSUME NEW captions \in Captions
    PROVE  [[captions EXCEPT !.cues = ReadCues(captions.cues)]
               EXCEPT !.cues = ReadCues([captions EXCEPT !.cues = ReadCues(captions.cues)].cues)]
           = [captions EXCEPT !.cues = ReadCues(captions.cues)]
<1>1. captions.cues \in Seq(CaptionCue)
  BY DEF Captions
<1>2. PICK cues : cues = ReadCues(captions.cues) /\ ReadCues(cues) = cues
  BY <1>1, CuesOnce
<1>3. [captions EXCEPT !.cues = cues].cues = cues
  BY DEF Captions
<1>4. [[captions EXCEPT !.cues = cues] EXCEPT !.cues = cues] = [captions EXCEPT !.cues = cues]
  BY DEF Captions
<1>5. QED
  BY <1>2, <1>3, <1>4

\* What has been read reads as itself.
LEMMA ReadOnce ==
    ASSUME NEW posted \in Posted
    PROVE  Read(Read(posted)) = Read(posted)
<1> DEFINE lists == [t \in DOMAIN posted.tracks |->
                        [k \in DOMAIN posted.tracks[t] |-> ReadClip(posted.tracks[t][k])]]
           cues(captions) == [captions EXCEPT !.cues = ReadCues(captions.cues)]
           captioned == {cues(captions) : captions \in posted.captions}
           output == ReadOutput(posted.output)
           r == [posted EXCEPT !.tracks = lists, !.captions = captioned, !.output = output]
<1>1. /\ posted.tracks \in Seq(Seq(Clip)) /\ posted.captions \subseteq Captions
      /\ posted.output \in Output
  BY DEF Optional, Posted
<1>2. Read(posted) = r
  BY DEF Read
<1>3. \A captions \in captioned : cues(captions) = captions
  BY <1>1, CaptionsOnce
<1>4. ReadOutput(output) = output
  BY <1>1, OutputOnce
<1>5. [t \in DOMAIN lists |-> [k \in DOMAIN lists[t] |-> ReadClip(lists[t][k])]] = lists
  <2>1. ASSUME NEW t \in DOMAIN posted.tracks
        PROVE  [k \in DOMAIN lists[t] |-> ReadClip(lists[t][k])] = lists[t]
    <3>1. posted.tracks[t] \in Seq(Clip)
      BY <1>1, <2>1
    <3>2. ASSUME NEW k \in DOMAIN posted.tracks[t]
          PROVE  ReadClip(ReadClip(posted.tracks[t][k])) = ReadClip(posted.tracks[t][k])
      <4>1. posted.tracks[t][k] \in Clip
        BY <3>1, <3>2
      <4>2. QED
        BY <4>1, ClipOnce
    <3>3. lists[t] = [k \in DOMAIN posted.tracks[t] |-> ReadClip(posted.tracks[t][k])]
      BY <2>1
    <3>4. QED
      BY <3>2, <3>3
  <2>2. DOMAIN lists = DOMAIN posted.tracks
    OBVIOUS
  <2> HIDE DEF lists
  <2>3. [t \in DOMAIN lists |-> [k \in DOMAIN lists[t] |-> ReadClip(lists[t][k])]]
            = [t \in DOMAIN lists |-> lists[t]]
    BY <2>1, <2>2
  <2>4. lists = [t \in DOMAIN lists |-> lists[t]]
    BY DEF lists
  <2>5. QED
    BY <2>3, <2>4
<1>6. {cues(captions) : captions \in captioned} = captioned
  BY <1>3
<1> HIDE DEF lists, captioned, output
<1>7. r.tracks = lists /\ r.captions = captioned /\ r.output = output
  BY DEF Posted
<1>8. Read(r) = [r EXCEPT !.tracks = lists, !.captions = captioned, !.output = output]
  <2>1. Read(r) = [r EXCEPT
            !.tracks = [t \in DOMAIN r.tracks |-> [k \in DOMAIN r.tracks[t] |->
                                                       ReadClip(r.tracks[t][k])]],
            !.captions = {cues(captions) : captions \in r.captions},
            !.output = ReadOutput(r.output)]
    BY DEF Read
  <2>2. /\ [t \in DOMAIN r.tracks |-> [k \in DOMAIN r.tracks[t] |-> ReadClip(r.tracks[t][k])]]
               = lists
        /\ ReadOutput(r.output) = output
    BY <1>4, <1>5, <1>7
  <2>3. {cues(captions) : captions \in r.captions} = captioned
    BY <1>6, <1>7
  <2> HIDE DEF cues, r
  <2>4. QED
    BY <2>1, <2>2, <2>3
<1>9. [r EXCEPT !.tracks = lists, !.captions = captioned, !.output = output] = r
  BY DEF Posted
<1> HIDE DEF r
<1>10. QED
  BY <1>2, <1>8, <1>9

-----------------------------------------------------------------------------
(* The request that is under way, and what becomes of its composition.        *)

\* From the moment it was read on, the composition is what the request's body reads as.
WasRead == {"check", "stored", "expand", "compile", "render", "finish", "poster"}

Carried ==
    /\ todo \in Seq(Request)
    /\ pc # "idle" => request \in Request
    /\ pc \in WasRead => composition = Read(request.body) /\ Reads(request.body)
    /\ pc = "stored" => stored = composition

\* Every step keeps it: each way that hands the composition on reads what was read.
LEMMA CarriedStep ==
    ASSUME Carried, [Next]_vars
    PROVE  Carried'
<1>1. /\ todo \in Seq(Request)
      /\ pc # "idle" => request \in Request
      /\ pc \in WasRead => composition = Read(request.body) /\ Reads(request.body)
      /\ pc = "stored" => stored = composition
  BY DEF Carried
<1>2. \A r \in Request : r.body \in Posted /\ Read(Dump(Read(r.body))) = Read(r.body)
  BY ReadOnce DEF Request, Dump
<1>3. CASE UNCHANGED vars
  BY <1>1, <1>3 DEF Carried, vars
<1>4. CASE Tick
  BY <1>1, <1>4 DEF Carried, Tick, work
<1>5. CASE Arrive
  <2>1. /\ todo # << >> /\ request' = Head(todo) /\ todo' = Tail(todo) /\ pc' = "body"
    BY <1>5 DEF Arrive
  <2>2. request' \in Request /\ todo' \in Seq(Request)
    BY <1>1, <2>1, HeadTailProperties
  <2>3. QED
    BY <2>1, <2>2 DEF Carried, WasRead
<1>6. CASE TooLarge \/ BodyReceived \/ Unauthorized
  <2>1. /\ pc # "idle" /\ request' = request /\ todo' = todo
        /\ pc' \in {"idle", "rate"}
    BY <1>6 DEF TooLarge, BodyReceived, Unauthorized, Go, End
  <2>2. QED
    BY <1>1, <2>1 DEF Carried, WasRead
<1>7. CASE Limited \/ Passed
  <2>1. /\ pc # "idle" /\ request' = request /\ todo' = todo
        /\ pc' \in {"idle", "key"}
    BY <1>7 DEF Limited, Passed, Go, End
  <2>2. QED
    BY <1>1, <2>1 DEF Carried, WasRead
<1>8. CASE Authorized \/ Unreadable \/ Rejected
  <2>1. /\ pc # "idle" /\ request' = request /\ todo' = todo
        /\ pc' \in {"idle", "read"}
    BY <1>8 DEF Authorized, Unreadable, Rejected, Go, End
  <2>2. QED
    BY <1>1, <2>1 DEF Carried, WasRead
<1>9. CASE Readable
  <2>1. /\ pc = "read" /\ pc' = "check" /\ request' = request /\ todo' = todo
        /\ composition' = Read(Body(request)) /\ Reads(request.body)
    BY <1>9 DEF Readable, Go
  <2>2. request \in Request
    BY <1>1, <2>1
  <2>3. Read(Body(request)) = Read(request.body)
    BY <1>2, <2>2 DEF Body
  <2>4. QED
    BY <1>1, <2>1, <2>2, <2>3 DEF Carried
<1>10. CASE Accepted
  <2>1. /\ pc = "check" /\ request' = request /\ todo' = todo
        /\ composition' = composition
        /\ pc' \in {"idle", "expand", "stored"}
    BY <1>10 DEF Accepted, Go, End
  <2>2. pc' = "stored" => stored' = Dump(composition)
    BY <1>10 DEF Accepted, Go, End
  <2>3. /\ composition = Read(request.body) /\ Reads(request.body)
        /\ request \in Request
    BY <1>1, <2>1 DEF WasRead
  <2>4. QED
    BY <1>1, <2>1, <2>2, <2>3 DEF Carried, Dump
<1>11. CASE Reload
  <2>1. /\ pc = "stored" /\ request' = request /\ todo' = todo
        /\ pc' \in {"idle", "expand"}
        /\ composition' = IF Reads(stored) THEN Read(stored) ELSE composition
    BY <1>11 DEF Reload, Go, End
  <2>2. /\ request \in Request /\ composition = Read(request.body)
        /\ Reads(request.body) /\ stored = Dump(Read(request.body))
    BY <1>1, <2>1 DEF WasRead, Dump
  <2>3. composition' = Read(request.body)
    BY <1>2, <2>1, <2>2
  <2>4. QED
    BY <1>1, <2>1, <2>2, <2>3 DEF Carried
<1>12. CASE Expand
  <2>1. /\ pc = "expand" /\ request' = request /\ todo' = todo
        /\ pc' \in {"idle", "compile"}
        /\ composition' \in {composition, Read(Dump(composition))}
    BY <1>12 DEF Expand, Go, End
  <2>2. /\ request \in Request /\ composition = Read(request.body)
        /\ Reads(request.body)
    BY <1>1, <2>1 DEF WasRead
  <2>3. composition' = Read(request.body)
    BY <1>2, <2>1, <2>2
  <2>4. QED
    BY <1>1, <2>1, <2>2, <2>3 DEF Carried
<1>13. CASE CompileFails \/ Poster
  <2>1. /\ pc # "idle" /\ request' = request /\ todo' = todo /\ pc' = "idle"
    BY <1>13 DEF CompileFails, Poster, End
  <2>2. QED
    BY <1>1, <2>1 DEF Carried, WasRead
<1>14. CASE Compile \/ Render \/ Finish
  <2>1. /\ pc \in {"compile", "render", "finish"}
        /\ pc' \in {"idle", "render", "finish", "poster"}
        /\ request' = request /\ todo' = todo /\ composition' = composition
    BY <1>14 DEF Compile, Render, Finish, Go, End, work
  <2>2. /\ request \in Request /\ composition = Read(request.body)
        /\ Reads(request.body)
    BY <1>1, <2>1 DEF WasRead
  <2>3. QED
    BY <1>1, <2>1, <2>2 DEF Carried
<1>15. QED
  BY <1>3, <1>4, <1>5, <1>6, <1>7, <1>8, <1>9, <1>10, <1>11, <1>12, <1>13, <1>14
     DEF Next, Done

\* Hence it holds in every state that is reached.
LEMMA CarriedInvariant == Spec => []Carried
<1>1. Init => Carried
  BY ScriptsAssumption DEF Init, Carried, WasRead
<1>2. Carried /\ [Next]_vars => Carried'
  BY CarriedStep
<1>3. QED
  BY <1>1, <1>2, PTL DEF Spec

\* Whatever is posted, the stages work with what the API has accepted: writing the
\* models and reading them again resolves nothing a second time, on any of the ways
\* that a composition takes through the store and the expansion of merge variables.
THEOREM WhatIsStoredIsReadBack == Spec => []ReadBackUnchanged
<1>1. Carried => ReadBackUnchanged
  BY DEF Carried, ReadBackUnchanged, WasRead
<1>2. QED
  BY <1>1, CarriedInvariant, PTL

-----------------------------------------------------------------------------
(* What FFmpeg mixes into the video.                                          *)

\* What a function takes its elements to.
LEMMA ImageFinite ==
    ASSUME NEW S, IsFiniteSet(S), NEW f, DOMAIN f = S, f = [x \in S |-> f[x]],
           NEW T, T = {f[x] : x \in S}
    PROVE  IsFiniteSet(T)
<1>1. f \in [S -> T] /\ \A t \in T : \E x \in S : f[x] = t
  OBVIOUS
<1>2. f \in Surjection(S, T)
  BY <1>1 DEF Surjection
<1>3. QED
  BY <1>2, FS_Surjection

\* A composition that was read: its clips have places in finitely many lists, and
\* the times that their models ask for.
LEMMA RefsFinite ==
    ASSUME NEW c, c.tracks \in Seq(Seq(Clip))
    PROVE  IsFiniteSet(Refs(c))
<1> DEFINE row(t) == {<<t, k>> : k \in DOMAIN c.tracks[t]}
           rows == {row(t) : t \in DOMAIN c.tracks}
<1>1. ASSUME NEW s, NEW S, s \in Seq(S) PROVE IsFiniteSet(DOMAIN s)
  <2>1. DOMAIN s = 1..Len(s) /\ Len(s) \in Int /\ 1 \in Int
    BY <1>1
  <2>2. QED
    BY <2>1, FS_Interval
<1>2. ASSUME NEW t \in DOMAIN c.tracks PROVE IsFiniteSet(row(t))
  <2>1. c.tracks[t] \in Seq(Clip)
    BY <1>2
  <2>2. IsFiniteSet(DOMAIN c.tracks[t]) /\ IsFiniteSet({t})
    BY <1>1, <2>1, FS_Singleton
  <2>3. IsFiniteSet({t} \X DOMAIN c.tracks[t])
    BY <2>2, FS_Product
  <2>4. row(t) \in SUBSET ({t} \X DOMAIN c.tracks[t])
    OBVIOUS
  <2>5. QED
    BY <2>3, <2>4, FS_Subset
<1>3. IsFiniteSet(rows)
  <2> DEFINE f == [t \in DOMAIN c.tracks |-> row(t)]
  <2>1. IsFiniteSet(DOMAIN c.tracks)
    BY <1>1
  <2>2. /\ DOMAIN f = DOMAIN c.tracks /\ f = [t \in DOMAIN c.tracks |-> f[t]]
        /\ rows = {f[t] : t \in DOMAIN c.tracks}
    OBVIOUS
  <2> HIDE DEF f, rows, row
  <2>3. QED
    BY <2>1, <2>2, ImageFinite
<1>4. \A T \in rows : IsFiniteSet(T)
  BY <1>2
<1>5. Refs(c) = UNION rows
  BY DEF Refs
<1> HIDE DEF rows, row
<1>6. QED
  BY <1>3, <1>4, <1>5, FS_UNION

\* A composition that was read has finitely many clips, with starts and lengths.
LEMMA ReadTimes ==
    ASSUME NEW posted \in Posted, Reads(posted), NEW c, c = Read(posted)
    PROVE  /\ IsFiniteSet(Refs(c))
           /\ \A ref \in Refs(c) : /\ At(c, ref).start \in Nat
                                   /\ At(c, ref).length \in Nat
                                   /\ At(c, ref).length > 0
<1>1. posted.tracks \in Seq(Seq(Clip))
  BY DEF Posted
<1>2. c.tracks = [t \in DOMAIN posted.tracks |->
                     [k \in DOMAIN posted.tracks[t] |-> ReadClip(posted.tracks[t][k])]]
  BY DEF Read, Posted
<1>3. Refs(c) = Refs(posted)
  BY <1>2 DEF Refs
<1>4. IsFiniteSet(Refs(posted))
  BY <1>1, RefsFinite
<1>5. ASSUME NEW ref \in Refs(posted)
      PROVE  /\ At(c, ref).start \in Nat
             /\ At(c, ref).length \in Nat
             /\ At(c, ref).length > 0
  <2>1. PICK t \in DOMAIN posted.tracks :
            \E k \in DOMAIN posted.tracks[t] : ref = <<t, k>>
    BY DEF Refs
  <2>2. PICK k \in DOMAIN posted.tracks[t] : ref = <<t, k>>
    BY <2>1
  <2>3. posted.tracks[t] \in Seq(Clip)
    BY <1>1, <2>1
  <2>4. PICK clip \in Clip : clip = posted.tracks[t][k]
    BY <2>2, <2>3
  <2>5. clip \in Clips(posted)
    BY <2>1, <2>2, <2>4 DEF Clips, ToSet
  <2>6. clip.start >= 0 /\ clip.length > 0
    BY <2>5 DEF Reads, ClipReads
  <2>7. clip.start \in Nat /\ clip.length \in Nat
    BY <2>4, <2>6 DEF Clip
  <2>8. At(c, ref) = ReadClip(clip)
    BY <1>2, <2>1, <2>2, <2>4 DEF At
  <2>9. At(c, ref).start = clip.start /\ At(c, ref).length = clip.length
    BY <2>4, <2>8 DEF ReadClip, Clip
  <2>10. QED
    BY <2>6, <2>7, <2>9
<1>6. QED
  BY <1>3, <1>4, <1>5

\* The video ends when the last of its visual clips does.
LEMMA VideoEnds ==
    ASSUME NEW c, IsFiniteSet(Refs(c)),
           \A ref \in Refs(c) : At(c, ref).start \in Nat /\ At(c, ref).length \in Nat
    PROVE  VisualEnd(c) \in Nat
<1> DEFINE V == Visual(c)
           f == [ref \in V |-> To(c, ref)]
           ends == {f[ref] : ref \in V}
<1>1. V \in SUBSET Refs(c)
  BY DEF Visual
<1>2. IsFiniteSet(V)
  BY <1>1, FS_Subset
<1>3. \A ref \in V : To(c, ref) \in Nat
  BY <1>1 DEF To
<1>4. DOMAIN f = V /\ f = [ref \in V |-> f[ref]] /\ ends = {To(c, ref) : ref \in V}
  OBVIOUS
<1> HIDE DEF V, f
<1>5. IsFiniteSet(ends)
  BY <1>2, <1>4, ImageFinite
<1>6. ends \subseteq Nat
  BY <1>3, <1>4
<1> HIDE DEF ends
<1>7. IsFiniteSet({0} \cup ends)
  <2>1. {0} \cup ends = ends \cup {0}
    OBVIOUS
  <2>2. QED
    BY <1>5, <2>1, FS_AddElement
<1>8. {0} \cup ends \in SUBSET Int /\ {0} \cup ends # {}
  BY <1>6
<1>9. Max({0} \cup ends) \in {0} \cup ends
  BY <1>7, <1>8, MaxOf
<1>10. VisualEnd(c) = Max({0} \cup ends)
  BY <1>4 DEF VisualEnd, V
<1>11. \A x \in {0} \cup ends : x \in Nat
  BY <1>6
<1>12. QED
  BY <1>9, <1>10, <1>11

\* Rounding to milliseconds moves a time by no more than half of one.
LEMMA MilliRounds ==
    ASSUME NEW x \in Nat
    PROVE  Milli(x) \in Int /\ Milli(x) * 4000 <= x + 2000
<1> DEFINE q == x \div 4000
           r == x % 4000
<1>1. q \in Int /\ r \in Int /\ 0 <= r /\ r < 4000 /\ x = 4000 * q + r
  OBVIOUS
<1>2. Milli(x) = IF 2 * r > 4000 \/ (2 * r = 4000 /\ q % 2 = 1) THEN q + 1 ELSE q
  BY DEF Milli, Rounded
<1> HIDE DEF q, r
<1>3. Milli(x) = q \/ (Milli(x) = q + 1 /\ r >= 2000)
  BY <1>1, <1>2
<1>4. QED
  BY <1>1, <1>3

\* The lesser of two numbers.
LEMMA MinOfTwo ==
    ASSUME NEW a \in Int, NEW b \in Int
    PROVE  /\ Min({a, b}) \in {a, b}
           /\ Min({a, b}) <= a /\ Min({a, b}) <= b
<1>1. IsFiniteSet({a, b})
  <2>1. IsFiniteSet({a}) /\ {a, b} = {a} \cup {b}
    BY FS_Singleton
  <2>2. QED
    BY <2>1, FS_AddElement
<1>2. {a, b} \in SUBSET Int /\ {a, b} # {}
  OBVIOUS
<1>3. Min({a, b}) \in {a, b} /\ \A x \in {a, b} : Min({a, b}) <= x
  BY <1>1, <1>2, MinOf
<1>4. QED
  BY <1>3

\* Fades share what they fade.
LEMMA FadesShare ==
    ASSUME NEW source, source.total \in Nat
    PROVE  Fades(source).in + Fades(source).out <= source.total
<1> DEFINE share == IF source.in # {} /\ source.out # {}
                    THEN source.total \div 2 ELSE source.total
           within == Min({share, Settings.fade})
<1>1. share \in Nat /\ (source.in # {} /\ source.out # {} => 2 * share <= source.total)
      /\ share <= source.total
  <2>1. PICK total \in Nat : total = source.total
    OBVIOUS
  <2>2. total \div 2 \in Nat /\ 2 * (total \div 2) <= total /\ total \div 2 <= total
    BY <2>1
  <2>3. QED
    BY <2>1, <2>2
<1>2. within \in Nat /\ within <= share
  <2>1. share \in Int /\ Settings.fade \in Int
    BY <1>1, SettingsAssumption
  <2> HIDE DEF share
  <2>2. within \in {share, Settings.fade} /\ within <= share
    BY <2>1, MinOfTwo
  <2>3. QED
    BY <1>1, <2>2, SettingsAssumption
<1>3. Fades(source).in = (IF source.in # {} THEN within ELSE 0)
      /\ Fades(source).out = (IF source.out # {} THEN within ELSE 0)
  BY DEF Fades
<1> HIDE DEF share, within
<1>4. PICK i, o : i = Fades(source).in /\ o = Fades(source).out
  OBVIOUS
<1>5. CASE source.in # {} /\ source.out # {}
  BY <1>1, <1>2, <1>3, <1>5
<1>6. CASE source.in # {} /\ source.out = {}
  BY <1>1, <1>2, <1>3, <1>6
<1>7. CASE source.in = {} /\ source.out # {}
  BY <1>1, <1>2, <1>3, <1>7
<1>8. CASE source.in = {} /\ source.out = {}
  BY <1>3, <1>8
<1>9. QED
  BY <1>5, <1>6, <1>7, <1>8

\* What is heard of a source, and when.
Fits(source, end) ==
    /\ source.total \in Nat
    /\ \A length \in source.length :
          length > 0 /\ source.delay * 4000 + length <= end + 2000

\* Every source of the plan is heard while the video lasts.
LEMMA SourcesFit ==
    ASSUME NEW c, VisualEnd(c) \in Nat,
           \A ref \in Refs(c) : /\ At(c, ref).start \in Nat
                                /\ At(c, ref).length \in Nat
                                /\ At(c, ref).length > 0,
           NEW source \in AudioPlan(c)
    PROVE  Fits(source, VisualEnd(c))
<1>1. CASE \E s \in c.soundtrack : source = SoundtrackSource(c, s)
  <2>1. PICK s \in c.soundtrack : source = SoundtrackSource(c, s)
    BY <1>1
  <2>2. source.length = {} /\ source.total = VisualEnd(c)
    BY <2>1 DEF SoundtrackSource
  <2>3. QED
    BY <2>2 DEF Fits
<1>2. CASE \E ref \in Heard(c) : source = ClipSource(c, ref)
  <2>1. PICK ref \in Audible(c) : /\ VisualEnd(c) - From(c, ref) > Epsilon
                                  /\ source = ClipSource(c, ref)
    BY <1>2 DEF Heard
  <2>2. PICK start \in Nat, length \in Nat, end \in Nat :
            /\ start = From(c, ref) /\ length = At(c, ref).length /\ length > 0
            /\ end = VisualEnd(c)
    BY DEF Audible, From
  <2>3. PICK left \in Int : left = end - start /\ left > 0
    BY <2>1, <2>2 DEF Epsilon
  <2>4. PICK heard : heard = Min({length, left})
    OBVIOUS
  <2>5. heard \in {length, left} /\ heard <= left
    <3>1. length \in Int /\ left \in Int
      BY <2>2, <2>3
    <3>2. Min({length, left}) \in {length, left} /\ Min({length, left}) <= left
      BY <3>1, MinOfTwo
    <3>3. QED
      BY <2>4, <3>2
  <2>6. heard \in Nat /\ heard > 0
    BY <2>2, <2>3, <2>5
  <2>7. source.delay = Milli(start) /\ source.length = {heard} /\ source.total = heard
    BY <2>1, <2>2, <2>3, <2>4 DEF ClipSource
  <2>8. Milli(start) \in Int /\ Milli(start) * 4000 <= start + 2000
    BY <2>2, MilliRounds
  <2>9. Milli(start) * 4000 + heard <= end + 2000
    BY <2>2, <2>3, <2>5, <2>6, <2>8
  <2>10. QED
    BY <2>2, <2>6, <2>7, <2>9 DEF Fits
<1>3. QED
  BY <1>1, <1>2 DEF AudioPlan

\* For any composition that was accepted: what is mixed into Editly's video is heard
\* while it lasts, and its fades do not overlap (build_audio_mix_plan, _fade_filters).
THEOREM WhatIsMixedFits == Spec => []MixFits
<1>1. ASSUME Carried PROVE MixFits
  <2>1. SUFFICES ASSUME EditlyDone, NEW source \in Mixed(composition)
                 PROVE  /\ Fits(source, VisualEnd(composition))
                        /\ Fades(source).in + Fades(source).out <= source.total
    BY DEF MixFits, Fits
  <2>2. /\ request.body \in Posted /\ Reads(request.body)
        /\ composition = Read(request.body)
    BY <1>1, <2>1 DEF Carried, EditlyDone, WasRead, Request
  <2>3. /\ IsFiniteSet(Refs(composition))
        /\ \A ref \in Refs(composition) : /\ At(composition, ref).start \in Nat
                                          /\ At(composition, ref).length \in Nat
                                          /\ At(composition, ref).length > 0
    BY <2>2, ReadTimes
  <2>4. VisualEnd(composition) \in Nat
    BY <2>3, VideoEnds
  <2>5. source \in AudioPlan(composition)
    BY <2>1 DEF Mixed
  <2>6. Fits(source, VisualEnd(composition))
    BY <2>3, <2>4, <2>5, SourcesFit
  <2>7. QED
    BY <2>6, FadesShare DEF Fits
<1>2. QED
  BY <1>1, CarriedInvariant, PTL

-----------------------------------------------------------------------------
(* What the API has accepted can be read again.                               *)

\* A cue that was given by its duration.
Timed(c) == \E captions \in c.captions : \E cue \in ToSet(captions.cues) : cue.duration # {}

\* Every cue that is read is one of those that were posted.
LEMMA CuesFrom ==
    ASSUME NEW cues \in Seq(CaptionCue)
    PROVE  /\ DOMAIN ReadCues(cues) = DOMAIN cues
           /\ \A k \in DOMAIN cues : \E j \in DOMAIN cues : ReadCues(cues)[k] = ReadCue(cues[j])
<1> DEFINE D == 1..Len(cues)
           R == {pair \in D \X D : Earlier(cues, pair[1], pair[2])}
<1>1. /\ DOMAIN cues = D /\ IsFiniteSet(D) /\ Cardinality(D) = Len(cues)
  <2>1. Len(cues) \in Nat /\ Len(cues) \in Int /\ 1 \in Int /\ DOMAIN cues = D
    OBVIOUS
  <2>2. IsFiniteSet(D) /\ Cardinality(D) = IF 1 > Len(cues) THEN 0 ELSE Len(cues) - 1 + 1
    BY <2>1, FS_Interval
  <2>3. QED
    BY <2>1, <2>2
<1>2. StrictOrder(D, R) /\ \A i, j \in D : <<i, j>> \in R <=> Earlier(cues, i, j)
  BY EarlierOrders
<1> HIDE DEF D, R
<1>3. \A k \in 1..Cardinality(D) : \E a \in D : RankOf(D, R, a) = k
  <2>1. IsFiniteSet(D) /\ StrictOrder(D, R)
    BY <1>1, <1>2
  <2>2. QED
    BY <2>1, Ranks
<1>4. ASSUME NEW j \in D PROVE Place(cues, j) = RankOf(D, R, j)
  <2>1. Below(D, R, j) = {i \in D : Earlier(cues, i, j)}
    BY <1>2, <1>4 DEF Below
  <2>2. QED
    BY <1>1, <2>1 DEF Place, RankOf
<1>5. ASSUME NEW k \in D PROVE CueOrder(cues)[k] \in D
  <2>1. \E j \in D : Place(cues, j) = k
    BY <1>1, <1>3, <1>4, <1>5 DEF D
  <2>2. CueOrder(cues)[k] = CHOOSE j \in D : Place(cues, j) = k
    BY <1>1 DEF CueOrder
  <2>3. QED
    BY <2>1, <2>2
<1>6. /\ DOMAIN ReadCues(cues) = D
      /\ \A k \in D : ReadCues(cues)[k] = ReadCue(cues[CueOrder(cues)[k]])
  BY <1>1 DEF ReadCues
<1>7. QED
  BY <1>1, <1>5, <1>6

\* A cue that had an end has it still.
LEMMA CueAgain ==
    ASSUME NEW cue \in CaptionCue, CueReads(cue), ReadCue(cue).duration = {}
    PROVE  CueReads(ReadCue(cue))
<1>1. PICK end \in Int : end = CueEnd(cue)
  BY CueEndType
<1>2. ReadCue(cue) = [cue EXCEPT !.end = {end}]
  BY <1>1 DEF ReadCue
<1>3. /\ ReadCue(cue).start = cue.start /\ ReadCue(cue).end = {end}
      /\ ReadCue(cue).duration = cue.duration
  BY <1>2 DEF CaptionCue
<1>4. CueEnd(ReadCue(cue)) = end
  BY <1>3 DEF CueEnd, Given
<1>5. Cardinality({end}) = 1 /\ Cardinality({}) = 0
  BY FS_Singleton, FS_EmptySet
<1>6. cue.start >= 0 /\ end > cue.start
  BY <1>1 DEF CueReads
<1>7. Cardinality(ReadCue(cue).end) + Cardinality(ReadCue(cue).duration) = 1
  BY <1>3, <1>5
<1>8. QED
  BY <1>3, <1>4, <1>6, <1>7 DEF CueReads

\* Cues with an end of their own can be read again, in the order they then have.
LEMMA CuesAgain ==
    ASSUME NEW cues \in Seq(CaptionCue), CuesRead(cues),
           \A cue \in ToSet(ReadCues(cues)) : cue.duration = {}
    PROVE  CuesRead(ReadCues(cues))
<1> DEFINE r == ReadCues(cues)
<1>1. /\ DOMAIN r = DOMAIN cues
      /\ \A k \in DOMAIN cues : \E j \in DOMAIN cues : r[k] = ReadCue(cues[j])
  BY CuesFrom
<1>2. ReadCues(r) = r
  BY CuesOnce
<1>3. \A k \in DOMAIN r : r[k].duration = {}
  BY DEF ToSet
<1> HIDE DEF r
<1>4. ASSUME NEW k \in DOMAIN r PROVE CueReads(r[k])
  <2>1. PICK j \in DOMAIN cues : r[k] = ReadCue(cues[j])
    BY <1>1
  <2>2. cues[j] \in CaptionCue /\ CueReads(cues[j])
    BY <2>1 DEF CuesRead
  <2>3. QED
    BY <1>3, <2>1, <2>2, CueAgain
<1>5. r # << >>
  BY <1>1 DEF CuesRead
<1>6. \A k \in 2..Len(r) : r[k].start >= CueEnd(r[k - 1])
  BY DEF CuesRead, r
<1>7. CuesRead(r)
  BY <1>2, <1>4, <1>5, <1>6 DEF CuesRead
<1>8. QED
  BY <1>7 DEF r

\* So can a clip,
LEMMA ClipAgain ==
    ASSUME NEW clip \in Clip, ClipReads(clip)
    PROVE  ClipReads(ReadClip(clip))
<1> DEFINE r == ReadClip(clip)
<1>1. /\ r.start = clip.start /\ r.length = clip.length /\ r.type = clip.type
      /\ r.content = clip.content
      /\ r.transition = {ReadTransition(t) : t \in clip.transition}
  BY DEF ReadClip, Clip
<1>2. ASSUME NEW t \in clip.transition
      PROVE  TransitionReads(ReadTransition(t)) /\ ReadTransition(t).duration <= clip.length
  <2>1. t \in Transition /\ TransitionReads(t) /\ t.duration <= clip.length
    BY DEF Optional, Clip, ClipReads
  <2>2. /\ ReadTransition(t).duration = t.duration /\ ReadTransition(t).name = t.name
        /\ ReadTransition(t).placement = {Placement(t.name)}
    BY <2>1 DEF ReadTransition, Transition
  <2>3. QED
    BY <2>1, <2>2 DEF TransitionReads
<1>3. clip.start >= 0 /\ clip.length > 0 /\ (clip.type = "html" => HtmlReads(clip))
  BY DEF ClipReads
<1> HIDE DEF r
<1>4. r.type = "html" => HtmlReads(r)
  BY <1>1, <1>3 DEF HtmlReads
<1>5. \A t \in r.transition : TransitionReads(t) /\ t.duration <= r.length
  BY <1>1, <1>2
<1>6. ClipReads(r)
  BY <1>1, <1>3, <1>4, <1>5 DEF ClipReads
<1>7. QED
  BY <1>6 DEF r

\* Every preset and every resolution gives dimensions that are positive.
LEMMA DimensionsPositive ==
    ASSUME NEW output \in Output, NEW aspect \in SUBSET AspectRatio
    PROVE  \A d \in Dimensions(output, aspect) : d.width > 0 /\ d.height > 0
<1>1. CASE output.resolution # {}
  <2>1. PICK name \in ResolutionPreset : name = Given(output.resolution, "")
    BY <1>1 DEF Optional, Given, Output
  <2>2. PICK ratio \in AspectRatio : ratio = Given(aspect, "16:9")
    BY DEF Given, AspectRatio
  <2>3. PICK short \in Nat : short = ShortSide[name] /\ short >= 360
    BY DEF ShortSide, ResolutionPreset
  <2>4. PICK long \in Nat : long = LongSide[name] /\ long >= 640
    BY DEF LongSide, ResolutionPreset
  <2>5. PICK d : d = Resolution(name, ratio)
    OBVIOUS
  <2>6. (short * 5) \div 4 > 0
    BY <2>3
  <2>7. d.width > 0 /\ d.height > 0
    <3>1. CASE ratio = "16:9"
      BY <2>3, <2>4, <2>5, <3>1 DEF Resolution
    <3>2. CASE ratio = "9:16"
      BY <2>3, <2>4, <2>5, <3>2 DEF Resolution
    <3>3. CASE ratio = "1:1"
      BY <2>3, <2>4, <2>5, <3>3 DEF Resolution
    <3>4. CASE ratio = "4:5"
      BY <2>3, <2>4, <2>5, <2>6, <3>4 DEF Resolution
    <3>5. QED
      BY <2>2, <3>1, <3>2, <3>3, <3>4 DEF AspectRatio
  <2>8. Dimensions(output, aspect) = {d}
    BY <1>1, <2>1, <2>2, <2>5 DEF Dimensions
  <2>9. QED
    BY <2>7, <2>8
<1>2. CASE output.resolution = {} /\ output.preset # {}
  <2>1. PICK name \in OutputPreset : name = Given(output.preset, "")
    BY <1>2 DEF Optional, Given, Output
  <2>2. PresetTable[name].width > 0 /\ PresetTable[name].height > 0
    BY DEF PresetTable, OutputPreset
  <2>3. Dimensions(output, aspect) = {PresetTable[name]}
    BY <1>2, <2>1 DEF Dimensions
  <2>4. QED
    BY <2>2, <2>3
<1>3. CASE output.resolution = {} /\ output.preset = {}
  <2>1. Dimensions(output, aspect) \subseteq {FullHd}
    BY <1>3 DEF Dimensions
  <2>2. FullHd.width > 0 /\ FullHd.height > 0
    BY DEF FullHd
  <2>3. QED
    BY <2>1, <2>2
<1>4. QED
  BY <1>1, <1>2, <1>3

\* and the output, whose dimensions and rate were resolved.
LEMMA OutputAgain ==
    ASSUME NEW output \in Output, OutputReads(output)
    PROVE  OutputReads(ReadOutput(output))
<1> DEFINE aspect == IF output.aspect # {} THEN output.aspect
                     ELSE {PresetTable[p].aspect : p \in output.preset}
           dims == Dimensions(output, aspect)
           r == ReadOutput(output)
<1>1. \A p \in OutputPreset : PresetTable[p].aspect \in AspectRatio /\ PresetTable[p].fps \in 1..60
  BY DEF PresetTable, OutputPreset, AspectRatio
<1>2. output.aspect \subseteq AspectRatio /\ output.preset \subseteq OutputPreset
  BY DEF Optional, Output
<1>3. aspect \in SUBSET AspectRatio
  BY <1>1, <1>2
<1>4. \A d \in dims : d.width > 0 /\ d.height > 0
  BY <1>3, DimensionsPositive
<1>5. r = [output EXCEPT
              !.aspect = aspect,
              !.fps    = IF output.fps # {} THEN output.fps
                         ELSE IF output.preset # {}
                              THEN {PresetTable[p].fps : p \in output.preset} ELSE {30},
              !.width  = IF output.width # {} THEN output.width ELSE {d.width : d \in dims},
              !.height = IF output.height # {} THEN output.height ELSE {d.height : d \in dims}]
  BY DEF ReadOutput
<1> HIDE DEF r, dims, aspect
<1>6. /\ r.width = (IF output.width # {} THEN output.width ELSE {d.width : d \in dims})
      /\ r.height = (IF output.height # {} THEN output.height ELSE {d.height : d \in dims})
      /\ r.fps = (IF output.fps # {} THEN output.fps
                  ELSE IF output.preset # {}
                       THEN {PresetTable[p].fps : p \in output.preset} ELSE {30})
      /\ r.poster = output.poster
  BY <1>5 DEF Output
<1>7. /\ \A n \in output.width : n > 0
      /\ \A n \in output.height : n > 0
      /\ \A n \in output.fps : n \in 1..60
      /\ \A poster \in output.poster : PosterReads(poster)
  BY DEF OutputReads
<1>8. \A n \in r.width : n > 0
  BY <1>4, <1>6, <1>7
<1>9. \A n \in r.height : n > 0
  BY <1>4, <1>6, <1>7
<1>10. \A n \in r.fps : n \in 1..60
  BY <1>1, <1>2, <1>6, <1>7
<1>11. OutputReads(r)
  BY <1>6, <1>7, <1>8, <1>9, <1>10 DEF OutputReads
<1>12. QED
  BY <1>11 DEF r

\* Only a cue that was given by its duration keeps a composition from being read again.
LEMMA ReadsAgain ==
    ASSUME NEW posted \in Posted, Reads(posted), ~Timed(Read(posted))
    PROVE  Reads(Read(posted))
<1> DEFINE c == Read(posted)
<1>1. /\ posted.tracks \in Seq(Seq(Clip)) /\ posted.captions \subseteq Captions
      /\ posted.output \in Output
  BY DEF Optional, Posted
<1>2. /\ c.tracks = [t \in DOMAIN posted.tracks |->
                        [k \in DOMAIN posted.tracks[t] |-> ReadClip(posted.tracks[t][k])]]
      /\ c.captions = {[captions EXCEPT !.cues = ReadCues(captions.cues)] :
                          captions \in posted.captions}
      /\ c.output = ReadOutput(posted.output)
  BY DEF Read, Posted
<1> HIDE DEF c
<1>3. /\ posted.tracks # << >>
      /\ \A t \in DOMAIN posted.tracks : posted.tracks[t] # << >>
      /\ \A clip \in Clips(posted) : ClipReads(clip)
      /\ \A captions \in posted.captions : CuesRead(captions.cues)
      /\ OutputReads(posted.output)
  BY DEF Reads
<1>4. c.tracks # << >> /\ \A t \in DOMAIN c.tracks : c.tracks[t] # << >>
  <2>1. DOMAIN c.tracks = DOMAIN posted.tracks /\ DOMAIN posted.tracks # {}
    BY <1>1, <1>2, <1>3
  <2>2. ASSUME NEW t \in DOMAIN posted.tracks PROVE c.tracks[t] # << >>
    <3>1. posted.tracks[t] \in Seq(Clip) /\ posted.tracks[t] # << >>
      BY <1>1, <1>3, <2>2
    <3>2. DOMAIN c.tracks[t] = DOMAIN posted.tracks[t] /\ DOMAIN posted.tracks[t] # {}
      BY <1>2, <2>2, <3>1
    <3>3. QED
      BY <3>2
  <2>3. QED
    BY <2>1, <2>2
<1>5. ASSUME NEW clip \in Clips(c) PROVE ClipReads(clip)
  <2>1. PICK t \in DOMAIN c.tracks : clip \in ToSet(c.tracks[t])
    BY DEF Clips
  <2>2. PICK k \in DOMAIN c.tracks[t] : clip = c.tracks[t][k]
    BY <2>1 DEF ToSet
  <2>3. /\ t \in DOMAIN posted.tracks /\ k \in DOMAIN posted.tracks[t]
        /\ clip = ReadClip(posted.tracks[t][k])
    BY <1>2, <2>1, <2>2
  <2>4. posted.tracks[t][k] \in Clip
    <3>1. posted.tracks[t] \in Seq(Clip)
      BY <1>1, <2>3
    <3>2. QED
      BY <2>3, <3>1
  <2>5. posted.tracks[t][k] \in Clips(posted)
    BY <2>3 DEF Clips, ToSet
  <2>6. QED
    BY <1>3, <2>3, <2>4, <2>5, ClipAgain
<1>6. ASSUME NEW captions \in c.captions PROVE CuesRead(captions.cues)
  <2>1. PICK old \in posted.captions : captions = [old EXCEPT !.cues = ReadCues(old.cues)]
    BY <1>2
  <2>2. old \in Captions /\ old.cues \in Seq(CaptionCue) /\ CuesRead(old.cues)
    BY <1>1, <1>3, <2>1 DEF Captions
  <2>3. captions.cues = ReadCues(old.cues)
    BY <2>1, <2>2 DEF Captions
  <2>4. \A cue \in ToSet(captions.cues) : cue.duration = {}
    BY DEF Timed, c
  <2>5. QED
    BY <2>2, <2>3, <2>4, CuesAgain
<1>7. OutputReads(c.output)
  BY <1>1, <1>2, <1>3, OutputAgain
<1>8. Reads(c)
  BY <1>4, <1>5, <1>6, <1>7 DEF Reads
<1>9. QED
  BY <1>8 DEF c

\* What the worker finds in the store can be read, unless a cue was given by its
\* duration: the one cause of what the finding on AcceptedIsReadable shows.
THEOREM OnlyDurationsSpoilReading ==
    Spec => [](pc = "stored" /\ ~Timed(composition) => Reads(stored))
<1>1. ASSUME Carried, pc = "stored", ~Timed(composition)
      PROVE  Reads(stored)
  <2>1. /\ request.body \in Posted /\ Reads(request.body)
        /\ composition = Read(request.body) /\ stored = composition
    BY <1>1 DEF Carried, WasRead, Request
  <2>2. QED
    BY <1>1, <2>1, ReadsAgain
<1>2. Carried => (pc = "stored" /\ ~Timed(composition) => Reads(stored))
  BY <1>1
<1>3. QED
  BY <1>2, CarriedInvariant, PTL

-----------------------------------------------------------------------------
(* Sequences of what a strict order orders.                                   *)

\* The order that a sequence is made of, as a set of pairs.
LEMMA Sequenced ==
    ASSUME NEW S, IsFiniteSet(S), NEW R, StrictOrder(S, R), NEW s, s = InSequence(S, R)
    PROVE  /\ DOMAIN s = 1..Len(s) /\ Len(s) \in Nat
           /\ \A k \in DOMAIN s : s[k] \in S
           /\ \A x \in S : \E k \in DOMAIN s : s[k] = x
           /\ \A i, j \in DOMAIN s : i < j <=> <<s[i], s[j]>> \in R
<1> DEFINE n == Cardinality(S)
           F == [k \in 1..n |-> CHOOSE x \in S : RankOf(S, R, x) = k]
<1>1. n \in Nat
  BY FS_CardinalityType
<1>2. s = F
  BY DEF InSequence, RankOf, Below
<1>3. /\ \A a, b \in S : <<a, b>> \in R <=> RankOf(S, R, a) < RankOf(S, R, b)
      /\ \A a, b \in S : RankOf(S, R, a) = RankOf(S, R, b) => a = b
      /\ \A a \in S : RankOf(S, R, a) \in 1..n
      /\ \A k \in 1..n : \E a \in S : RankOf(S, R, a) = k
  BY Ranks
<1> HIDE DEF n
<1>4. DOMAIN s = 1..n
  BY <1>2
<1>5. \A k \in 1..n : s[k] \in S /\ RankOf(S, R, s[k]) = k
  <2>1. TAKE k \in 1..n
  <2>2. s[k] = CHOOSE x \in S : RankOf(S, R, x) = k
    BY <1>2
  <2>3. \E x \in S : RankOf(S, R, x) = k
    BY <1>3
  <2>4. QED
    BY <2>2, <2>3
<1>6. s \in Seq(S) /\ Len(s) = n
  <2>1. s = [k \in 1..n |-> s[k]]
    BY <1>2, <1>4
  <2>2. s \in [1..n -> S]
    BY <1>5, <2>1
  <2>3. QED
    BY <1>1, <1>4, <2>2, LenProperties
<1>7. \A x \in S : s[RankOf(S, R, x)] = x
  BY <1>3, <1>5
<1>8. \A i, j \in 1..n : i < j <=> <<s[i], s[j]>> \in R
  BY <1>3, <1>5
<1>9. QED
  BY <1>1, <1>3, <1>4, <1>5, <1>6, <1>7, <1>8

\* Places are pairs of numbers, which are listed one after the other.
LEMMA ListedOrder ==
    ASSUME NEW S \in SUBSET (Nat \X Nat)
    PROVE  StrictOrder(S, {p \in S \X S : ListedBefore(p[1], p[2])})
<1> DEFINE R == {p \in S \X S : ListedBefore(p[1], p[2])}
<1>1. \A a, b \in S : <<a, b>> \in R <=> ListedBefore(a, b)
  OBVIOUS
<1>2. \A a, b \in S : a[1] \in Nat /\ a[2] \in Nat /\ (a[1] = b[1] /\ a[2] = b[2] => a = b)
  OBVIOUS
<1> HIDE DEF R
<1>3. \A a \in S : <<a, a>> \notin R
  BY <1>1, <1>2 DEF ListedBefore
<1>4. \A a, b \in S : a # b => <<a, b>> \in R \/ <<b, a>> \in R
  BY <1>1, <1>2 DEF ListedBefore
<1>5. \A a, b, d \in S : <<a, b>> \in R /\ <<b, d>> \in R => <<a, d>> \in R
  <2>1. TAKE a, b, d \in S
  <2>2. ListedBefore(a, b) /\ ListedBefore(b, d) => ListedBefore(a, d)
    BY <1>2 DEF ListedBefore
  <2>3. QED
    BY <1>1, <2>2
<1>6. QED
  BY <1>3, <1>4, <1>5 DEF StrictOrder, R

\* So they are where the starts of their clips, as they are rounded, come first.
LEMMA StartOrder ==
    ASSUME NEW c, NEW S \in SUBSET (Nat \X Nat), \A a \in S : Micro(From(c, a)) \in Int
    PROVE  StrictOrder(S, {p \in S \X S : StartsBefore(c, p[1], p[2])})
<1> DEFINE R == {p \in S \X S : StartsBefore(c, p[1], p[2])}
           at(a) == Micro(From(c, a))
<1>1. \A a, b \in S : <<a, b>> \in R <=>
          \/ a[1] < b[1]
          \/ a[1] = b[1] /\ (at(a) < at(b) \/ (at(a) = at(b) /\ a[2] < b[2]))
  BY DEF StartsBefore
<1>2. \A a, b \in S : /\ a[1] \in Nat /\ a[2] \in Nat /\ at(a) \in Int
                      /\ a[1] = b[1] /\ a[2] = b[2] => a = b
  OBVIOUS
<1> HIDE DEF R, at
<1>3. \A a \in S : <<a, a>> \notin R
  BY <1>1, <1>2
<1>4. \A a, b \in S : a # b => <<a, b>> \in R \/ <<b, a>> \in R
  BY <1>1, <1>2
<1>5. \A a, b, d \in S : <<a, b>> \in R /\ <<b, d>> \in R => <<a, d>> \in R
  BY <1>1, <1>2
<1>6. QED
  BY <1>3, <1>4, <1>5 DEF StrictOrder, R

-----------------------------------------------------------------------------
(* Times that are equal but for noise.                                        *)

\* What is kept of a set of times.
Kernel(T, kept) ==
    /\ kept \in SUBSET T
    /\ \A t \in T : t \in kept <=> ~\E k \in kept : k < t /\ t - k <= Epsilon

\* Every finite set of times has one: a smallest subset without it would have one
\* after all, that of the others with its greatest time or without.
LEMMA KernelExists ==
    ASSUME NEW T \in SUBSET Int, IsFiniteSet(T)
    PROVE  \E kept : Kernel(T, kept)
<1> DEFINE Bad == {U \in SUBSET T : ~\E kept : Kernel(U, kept)}
<1>1. SUFFICES ASSUME Bad # {} PROVE FALSE
  <2>1. T \in SUBSET T
    OBVIOUS
  <2>2. QED
    BY <1>1, <2>1
<1>2. IsWellFoundedOn(StrictSubsetOrdering(T), SUBSET T)
  BY FS_FiniteSubsetsOfFinite, FS_StrictSubsetOrderingWellFounded
<1>3. PICK U \in Bad : \A W \in Bad : ~(<<W, U>> \in StrictSubsetOrdering(T))
  <2>1. Bad \subseteq SUBSET T
    OBVIOUS
  <2> HIDE DEF Bad
  <2>2. QED
    BY <1>1, <1>2, <2>1, WFMin
<1>4. U \in SUBSET Int /\ IsFiniteSet(U) /\ U \in SUBSET T
  BY FS_Subset
<1>5. U # {}
  <2>1. Kernel({}, {})
    BY DEF Kernel
  <2>2. QED
    BY <2>1
<1>6. PICK m \in U : \A x \in U : x <= m
  BY <1>4, <1>5, Extremes
<1>7. PICK K : Kernel(U \ {m}, K)
  <2>1. U \ {m} \in SUBSET T /\ U \ {m} \subseteq U /\ U # U \ {m}
    BY <1>4, <1>6
  <2>2. <<U \ {m}, U>> \in StrictSubsetOrdering(T)
    BY <1>4, <2>1 DEF StrictSubsetOrdering
  <2>3. QED
    BY <1>3, <2>1, <2>2
<1>8. K \in SUBSET U /\ m \notin K /\ \A k \in K : k < m
  BY <1>4, <1>6, <1>7 DEF Kernel
<1>9. CASE \E k \in K : m - k <= Epsilon
  <2>1. Kernel(U, K)
    BY <1>4, <1>6, <1>7, <1>8, <1>9 DEF Kernel
  <2>2. QED
    BY <2>1
<1>10. CASE ~\E k \in K : m - k <= Epsilon
  <2> DEFINE L == K \cup {m}
  <2>1. L \in SUBSET U
    BY <1>6, <1>8
  <2>2. ASSUME NEW t \in U PROVE t \in L <=> ~\E k \in L : k < t /\ t - k <= Epsilon
    <3>1. t <= m /\ t \in Int /\ m \in Int
      BY <1>4, <1>6
    <3>2. (\E k \in L : k < t /\ t - k <= Epsilon)
              <=> (\E k \in K : k < t /\ t - k <= Epsilon)
      BY <3>1
    <3>3. CASE t = m
      BY <1>8, <1>10, <3>2, <3>3
    <3>4. CASE t # m
      BY <1>7, <3>2, <3>4 DEF Kernel
    <3>5. QED
      BY <3>3, <3>4
  <2>3. Kernel(U, L)
    BY <2>1, <2>2 DEF Kernel
  <2>4. QED
    BY <2>3
<1>11. QED
  BY <1>9, <1>10

-----------------------------------------------------------------------------
(* Editly's segments.                                                         *)

\* A composition whose clips have their places and times.
WellTimed(c) ==
    /\ IsFiniteSet(Refs(c)) /\ Refs(c) \in SUBSET (Nat \X Nat)
    /\ \A ref \in Refs(c) : /\ At(c, ref).start \in Nat
                            /\ At(c, ref).length \in Nat
                            /\ At(c, ref).length > 0

\* So is every composition that was read.
LEMMA ReadIsWellTimed ==
    ASSUME NEW posted \in Posted, Reads(posted), NEW c, c = Read(posted)
    PROVE  WellTimed(c)
<1>1. c.tracks = [t \in DOMAIN posted.tracks |->
                     [k \in DOMAIN posted.tracks[t] |-> ReadClip(posted.tracks[t][k])]]
  BY DEF Read, Posted
<1>2. Refs(c) = Refs(posted)
  BY <1>1 DEF Refs
<1>3. posted.tracks \in Seq(Seq(Clip))
  BY DEF Posted
<1>4. ASSUME NEW ref \in Refs(posted) PROVE ref \in Nat \X Nat
  <2>1. PICK t \in DOMAIN posted.tracks :
            \E k \in DOMAIN posted.tracks[t] : ref = <<t, k>>
    BY DEF Refs
  <2>2. PICK k \in DOMAIN posted.tracks[t] : ref = <<t, k>>
    BY <2>1
  <2>3. posted.tracks[t] \in Seq(Clip) /\ t \in Nat
    BY <1>3, <2>1
  <2>4. k \in Nat
    BY <2>2, <2>3
  <2>5. QED
    BY <2>2, <2>3, <2>4
<1>5. Refs(c) \in SUBSET (Nat \X Nat)
  BY <1>2, <1>4
<1>6. QED
  BY <1>5, ReadTimes DEF WellTimed

\* The clips that are seen start and end at times.
LEMMA VisualTimes ==
    ASSUME NEW c, WellTimed(c)
    PROVE  /\ IsFiniteSet(Visual(c)) /\ Visual(c) \in SUBSET Refs(c)
           /\ Visual(c) \in SUBSET (Nat \X Nat)
           /\ VisualEnd(c) \in Nat
           /\ \A ref \in Refs(c) : /\ From(c, ref) \in Nat /\ To(c, ref) \in Nat
                                   /\ At(c, ref).length \in Nat
                                   /\ To(c, ref) = From(c, ref) + At(c, ref).length
                                   /\ From(c, ref) < To(c, ref)
<1>1. Visual(c) \in SUBSET Refs(c)
  BY DEF Visual
<1>2. IsFiniteSet(Visual(c))
  BY <1>1, FS_Subset DEF WellTimed
<1>3. VisualEnd(c) \in Nat
  BY VideoEnds DEF WellTimed
<1>4. \A ref \in Refs(c) : /\ From(c, ref) \in Nat /\ To(c, ref) \in Nat
                           /\ At(c, ref).length \in Nat
                           /\ To(c, ref) = From(c, ref) + At(c, ref).length
                           /\ From(c, ref) < To(c, ref)
  <2>1. TAKE ref \in Refs(c)
  <2>2. PICK s, l \in Nat : s = At(c, ref).start /\ l = At(c, ref).length /\ l > 0
    BY DEF WellTimed
  <2>3. From(c, ref) = s /\ To(c, ref) = s + l
    BY <2>2 DEF From, To
  <2>4. QED
    BY <2>2, <2>3
<1>5. QED
  BY <1>1, <1>2, <1>3, <1>4 DEF WellTimed

\* The times of the cuts are finitely many, and the first of them is the start.
LEMMA CutTimes ==
    ASSUME NEW c, WellTimed(c)
    PROVE  Cuts(c) \in SUBSET Nat /\ IsFiniteSet(Cuts(c)) /\ 0 \in Cuts(c)
<1> DEFINE V == Visual(c)
           f == [ref \in V |-> From(c, ref)]
           t == [ref \in V |-> To(c, ref)]
           starts == {f[ref] : ref \in V}
           ends == {t[ref] : ref \in V}
<1>1. /\ IsFiniteSet(V) /\ VisualEnd(c) \in Nat
      /\ \A ref \in V : From(c, ref) \in Nat /\ To(c, ref) \in Nat
  BY VisualTimes
<1>2. /\ DOMAIN f = V /\ f = [ref \in V |-> f[ref]]
      /\ DOMAIN t = V /\ t = [ref \in V |-> t[ref]]
      /\ starts = {From(c, ref) : ref \in V}
      /\ ends = {To(c, ref) : ref \in V}
  OBVIOUS
<1>3. Cuts(c) = {0, VisualEnd(c)} \cup starts \cup ends
  BY <1>2 DEF Cuts
<1>4. starts \in SUBSET Nat /\ ends \in SUBSET Nat
  BY <1>1, <1>2
<1> HIDE DEF V, f, t
<1>5. IsFiniteSet(starts) /\ IsFiniteSet(ends)
  BY <1>1, <1>2, ImageFinite
<1> HIDE DEF starts, ends
<1>6. IsFiniteSet({0, VisualEnd(c)})
  <2>1. {0, VisualEnd(c)} = {0} \cup {VisualEnd(c)}
    OBVIOUS
  <2>2. IsFiniteSet({0})
    BY FS_Singleton
  <2>3. IsFiniteSet({0} \cup {VisualEnd(c)})
    BY <2>2, FS_AddElement
  <2>4. QED
    BY <2>1, <2>3
<1>7. IsFiniteSet(Cuts(c))
  BY <1>3, <1>5, <1>6, FS_Union
<1>8. Cuts(c) \in SUBSET Nat /\ 0 \in Cuts(c)
  <2>1. {0, VisualEnd(c)} \subseteq Nat
    BY <1>1
  <2>2. starts \subseteq Nat /\ ends \subseteq Nat
    BY <1>4
  <2>3. QED
    BY <1>3, <2>1, <2>2, Zenon
<1>9. QED
  BY <1>7, <1>8

\* What is kept of them: the start, times that are apart, and for every cut one that
\* is before it by no more than the noise.
Keeps(c, kept) ==
    /\ kept \in SUBSET Nat /\ IsFiniteSet(kept) /\ 0 \in kept
    /\ \A k, l \in kept : k < l => k + Epsilon < l
    /\ \A t \in Cuts(c) : \E k \in kept : k <= t /\ t <= k + Epsilon

LEMMA BoundariesKeep ==
    ASSUME NEW c, WellTimed(c)
    PROVE  Keeps(c, Boundaries(c))
<1> DEFINE T == Cuts(c)
           K == Boundaries(c)
<1>1. T \in SUBSET Nat /\ T \in SUBSET Int /\ IsFiniteSet(T) /\ 0 \in T
  BY CutTimes
<1>2. \E kept \in SUBSET T : Kernel(T, kept)
  BY <1>1, KernelExists DEF Kernel
<1>3. Kernel(T, K)
  <2>1. K = CHOOSE kept \in SUBSET T :
                \A t \in T : t \in kept <=> ~\E k \in kept : k < t /\ t - k <= Epsilon
    BY DEF Boundaries
  <2>2. \E kept \in SUBSET T :
            \A t \in T : t \in kept <=> ~\E k \in kept : k < t /\ t - k <= Epsilon
    BY <1>2 DEF Kernel
  <2>3. K \in SUBSET T
        /\ \A t \in T : t \in K <=> ~\E k \in K : k < t /\ t - k <= Epsilon
    BY <2>1, <2>2, Zenon
  <2>4. QED
    BY <2>3 DEF Kernel
<1> HIDE DEF T, K
<1>4. K \in SUBSET Nat /\ IsFiniteSet(K)
  BY <1>1, <1>3, FS_Subset DEF Kernel
<1>5. 0 \in K
  BY <1>1, <1>3, <1>4 DEF Kernel
<1>6. \A k, l \in K : k < l => k + Epsilon < l
  BY <1>1, <1>3, <1>4 DEF Kernel, Epsilon
<1>7. \A t \in T : \E k \in K : k <= t /\ t <= k + Epsilon
  <2>1. TAKE t \in T
  <2>2. CASE t \in K
    BY <1>4, <2>2 DEF Epsilon
  <2>3. CASE t \notin K
    <3>1. PICK k \in K : k < t /\ t - k <= Epsilon
      BY <1>3, <2>3 DEF Kernel
    <3>2. QED
      BY <1>1, <1>4, <3>1 DEF Epsilon
  <2>4. QED
    BY <2>2, <2>3
<1>8. QED
  BY <1>4, <1>5, <1>6, <1>7 DEF Keeps, T, K

\* The next one and the one before.
LEMMA Neighbours ==
    ASSUME NEW K \in SUBSET Nat, IsFiniteSet(K), NEW k \in K
    PROVE  /\ (\E l \in K : k < l) =>
                  \E n \in K : k < n /\ ~\E l \in K : k < l /\ l < n
           /\ (\E l \in K : l < k) =>
                  \E n \in K : n < k /\ ~\E l \in K : n < l /\ l < k
<1> DEFINE A == {l \in K : k < l}
           B == {l \in K : l < k}
<1>1. A \in SUBSET Int /\ B \in SUBSET Int
  <2>1. K \subseteq Int
    OBVIOUS
  <2>2. QED
    BY <2>1, Zenon
<1>2. IsFiniteSet(A) /\ IsFiniteSet(B)
  <2>1. A \in SUBSET K /\ B \in SUBSET K
    OBVIOUS
  <2> HIDE DEF A, B
  <2>2. QED
    BY <2>1, FS_Subset
<1>3. ASSUME \E l \in K : k < l
      PROVE  \E n \in K : k < n /\ ~\E l \in K : k < l /\ l < n
  <2>1. A # {}
    BY <1>3
  <2> HIDE DEF A
  <2>2. PICK n \in A : \A x \in A : n <= x
    BY <1>1, <1>2, <2>1, Extremes
  <2>3. QED
    BY <1>1, <2>2 DEF A
<1>4. ASSUME \E l \in K : l < k
      PROVE  \E n \in K : n < k /\ ~\E l \in K : n < l /\ l < k
  <2>1. B # {}
    BY <1>4
  <2> HIDE DEF B
  <2>2. PICK n \in B : \A x \in B : x <= n
    BY <1>1, <1>2, <2>1, Extremes
  <2>3. QED
    BY <1>1, <2>2 DEF B
<1>5. QED
  BY <1>3, <1>4

\* The segments of a timeline: each goes from one boundary to the next one, and
\* takes up where the segment before it ends.
Chained(c, s) ==
    /\ DOMAIN s = 1..Len(s) /\ Len(s) \in Nat
    /\ \A i \in DOMAIN s :
          /\ s[i].from \in Boundaries(c) /\ s[i].to \in Boundaries(c)
          /\ s[i].from + Epsilon < s[i].to
          /\ ~\E k \in Boundaries(c) : s[i].from < k /\ k < s[i].to
          /\ s[i].active = Active(c, s[i].from, s[i].to)
    /\ \A i, j \in DOMAIN s : i < j <=> s[i].from < s[j].from
    /\ \A i, j \in DOMAIN s : j = i + 1 => s[j].from = s[i].to
    /\ \A k \in Boundaries(c) :
          /\ (\E l \in Boundaries(c) : k < l) => \E i \in DOMAIN s : s[i].from = k
          /\ (\E l \in Boundaries(c) : l < k) => \E i \in DOMAIN s : s[i].to = k

LEMMA SegmentsChain ==
    ASSUME NEW c, WellTimed(c)
    PROVE  Chained(c, Segments(c))
<1> DEFINE K == Boundaries(c)
           P == Spans(c)
           R == {p \in P \X P : p[1][1] < p[2][1]}
           order == InSequence(P, R)
           s == Segments(c)
<1>1. /\ K \in SUBSET Nat /\ IsFiniteSet(K) /\ 0 \in K
      /\ \A k, l \in K : k < l => k + Epsilon < l
  BY BoundariesKeep DEF Keeps
<1>2. P = {p \in K \X K : /\ p[1] < p[2] /\ p[2] - p[1] >= Epsilon
                          /\ ~\E k \in K : p[1] < k /\ k < p[2]}
  BY DEF Spans
<1> HIDE DEF K
<1>3. \A p \in P : /\ p[1] \in K /\ p[2] \in K /\ p = <<p[1], p[2]>>
                   /\ p[1] < p[2]
                   /\ ~\E k \in K : p[1] < k /\ k < p[2]
  BY <1>2
<1>4. \A k, l \in K : k < l /\ (~\E m \in K : k < m /\ m < l) => <<k, l>> \in P
  BY <1>1, <1>2 DEF Epsilon
<1>5. IsFiniteSet(P)
  <2>1. IsFiniteSet(K \X K)
    BY <1>1, FS_Product
  <2>2. P \in SUBSET (K \X K)
    BY <1>2
  <2> HIDE DEF P
  <2>3. QED
    BY <2>1, <2>2, FS_Subset
<1> HIDE DEF P
<1>6. \A p, q \in P : <<p, q>> \in R <=> p[1] < q[1]
  OBVIOUS
<1>7. StrictOrder(P, R)
  <2>1. \A p \in P : <<p, p>> \notin R
    BY <1>1, <1>3, <1>6
  <2>2. \A p, q \in P : p # q => <<p, q>> \in R \/ <<q, p>> \in R
    <3>1. TAKE p, q \in P
    <3>2. p[1] = q[1] => p[2] = q[2]
      BY <1>1, <1>3
    <3>3. p[1] \in Nat /\ q[1] \in Nat
      BY <1>1, <1>3
    <3>4. QED
      BY <1>3, <1>6, <3>2, <3>3
  <2>3. \A p, q, r \in P : <<p, q>> \in R /\ <<q, r>> \in R => <<p, r>> \in R
    BY <1>1, <1>3, <1>6
  <2>4. QED
    BY <2>1, <2>2, <2>3 DEF StrictOrder
<1> HIDE DEF R
<1>8. /\ DOMAIN order = 1..Len(order) /\ Len(order) \in Nat
      /\ \A k \in DOMAIN order : order[k] \in P
      /\ \A x \in P : \E k \in DOMAIN order : order[k] = x
      /\ \A i, j \in DOMAIN order : i < j <=> <<order[i], order[j]>> \in R
  BY <1>5, <1>7, Sequenced
<1>9. s = [i \in DOMAIN order |-> [from   |-> order[i][1], to |-> order[i][2],
                                   active |-> Active(c, order[i][1], order[i][2])]]
  BY DEF Segments, P, R
<1> HIDE DEF order, s
<1>10. DOMAIN s = 1..Len(order) /\ DOMAIN s = DOMAIN order
  BY <1>8, <1>9
<1>11. Len(s) = Len(order)
  BY <1>8, <1>9, <1>10, LenProperties
<1>12. ASSUME NEW i \in DOMAIN s
       PROVE  /\ s[i].from = order[i][1] /\ s[i].to = order[i][2]
              /\ s[i].active = Active(c, s[i].from, s[i].to)
              /\ order[i] \in P
  BY <1>8, <1>9, <1>10
<1>13. ASSUME NEW i \in DOMAIN s
       PROVE  /\ s[i].from \in K /\ s[i].to \in K
              /\ s[i].from < s[i].to /\ s[i].from + Epsilon < s[i].to
              /\ ~\E k \in K : s[i].from < k /\ k < s[i].to
  BY <1>1, <1>3, <1>12
<1>14. ASSUME NEW i \in DOMAIN s, NEW j \in DOMAIN s
       PROVE  i < j <=> s[i].from < s[j].from
  <2>1. i < j <=> <<order[i], order[j]>> \in R
    BY <1>8, <1>10
  <2>2. <<order[i], order[j]>> \in R <=> order[i][1] < order[j][1]
    BY <1>6, <1>12
  <2>3. QED
    BY <1>12, <2>1, <2>2
<1>15. ASSUME NEW k \in K
       PROVE  /\ (\E l \in K : k < l) => \E i \in DOMAIN s : s[i].from = k
              /\ (\E l \in K : l < k) => \E i \in DOMAIN s : s[i].to = k
  <2>1. ASSUME NEW l \in K, <<k, l>> \in P
        PROVE  \E i \in DOMAIN s : s[i].from = k /\ s[i].to = l
    <3>1. PICK i \in DOMAIN s : order[i] = <<k, l>>
      BY <1>8, <1>10, <2>1
    <3>2. QED
      BY <1>12, <3>1
  <2>2. ASSUME NEW l \in K, <<l, k>> \in P
        PROVE  \E i \in DOMAIN s : s[i].to = k
    <3>1. PICK i \in DOMAIN s : order[i] = <<l, k>>
      BY <1>8, <1>10, <2>2
    <3>2. QED
      BY <1>12, <3>1
  <2>3. ASSUME \E l \in K : k < l PROVE \E i \in DOMAIN s : s[i].from = k
    <3>1. PICK n \in K : k < n /\ ~\E l \in K : k < l /\ l < n
      BY <1>1, <2>3, Neighbours
    <3>2. QED
      BY <1>4, <2>1, <3>1
  <2>4. ASSUME \E l \in K : l < k PROVE \E i \in DOMAIN s : s[i].to = k
    <3>1. PICK n \in K : n < k /\ ~\E l \in K : n < l /\ l < k
      BY <1>1, <2>4, Neighbours
    <3>2. QED
      BY <1>4, <2>2, <3>1
  <2>5. QED
    BY <2>3, <2>4
<1>16. ASSUME NEW i \in DOMAIN s, NEW j \in DOMAIN s, j = i + 1
       PROVE  s[j].from = s[i].to
  <2>1. i \in Nat /\ j \in Nat
    BY <1>8, <1>10
  <2>2. s[i].from < s[j].from
    BY <1>14, <1>16, <2>1
  <2>3. s[i].to <= s[j].from /\ s[i].to \in Nat /\ s[j].from \in Nat
    <3>1. s[i].to \in K /\ s[j].from \in K /\ ~(s[j].from < s[i].to)
      BY <1>13, <2>2
    <3>2. s[i].to \in Nat /\ s[j].from \in Nat
      BY <1>1, <3>1
    <3>3. QED
      BY <3>1, <3>2
  <2>4. SUFFICES ASSUME s[i].to < s[j].from PROVE FALSE
    BY <2>3
  <2>5. PICK m \in DOMAIN s : s[m].from = s[i].to
    BY <1>13, <1>15, <2>4
  <2>6. i < m /\ m < j
    BY <1>13, <1>14, <2>4, <2>5
  <2>7. QED
    BY <1>8, <1>10, <1>16, <2>1, <2>6
<1>17. DOMAIN s = 1..Len(s) /\ Len(s) \in Nat
  BY <1>8, <1>10, <1>11
<1> HIDE DEF s
<1>18. Chained(c, s)
  BY <1>12, <1>13, <1>14, <1>15, <1>16, <1>17 DEF Chained, K
<1>19. QED
  BY <1>18 DEF s

-----------------------------------------------------------------------------
(* Sums of durations, and what rounding makes of them.                        *)

\* Rounding to a multiple of a unit, of four parts for the microsecond.
LEMMA MicroRounds ==
    ASSUME NEW x \in Int
    PROVE  Micro(x) \in Int /\ x - 2 <= 4 * Micro(x) /\ 4 * Micro(x) <= x + 2
<1> DEFINE q == x \div 4
           r == x % 4
<1>1. q \in Int /\ r \in Int /\ 0 <= r /\ r < 4 /\ x = 4 * q + r
  OBVIOUS
<1>2. Micro(x) = IF 2 * r > 4 \/ (2 * r = 4 /\ q % 2 = 1) THEN q + 1 ELSE q
  BY DEF Micro, Rounded
<1> HIDE DEF q, r
<1>3. (Micro(x) = q /\ r <= 2) \/ (Micro(x) = q + 1 /\ r >= 2)
  BY <1>1, <1>2
<1>4. QED
  BY <1>1, <1>3

\* The least number with a property that some number has.
LEMMA LeastOf ==
    ASSUME NEW n \in Nat, NEW S \in SUBSET (0..n), S # {}
    PROVE  \E m \in S : \A x \in S : m <= x
<1>1. IsFiniteSet(0..n)
  <2>1. 0 \in Int /\ n \in Int
    OBVIOUS
  <2>2. QED
    BY <2>1, FS_Interval
<1>2. IsFiniteSet(S)
  BY <1>1, FS_Subset
<1>3. S \in SUBSET Int
  <2>1. 0..n \subseteq Int
    OBVIOUS
  <2>2. QED
    BY <2>1, Zenon
<1>4. QED
  BY <1>2, <1>3, Extremes

\* What the first of some clips last: nothing at first, and each one its duration more.
Sums(e, clips, m) ==
    e = [n \in 0..m |-> IF n = 0 THEN 0 ELSE e[n - 1] + clips[n].duration]

LEMMA SumsExist ==
    ASSUME NEW clips, NEW N \in Nat
    PROVE  \E e : Sums(e, clips, N)
<1> DEFINE Bad == {m \in 0..N : ~\E e : Sums(e, clips, m)}
<1>1. SUFFICES ASSUME Bad # {} PROVE FALSE
  BY <1>1
<1>2. Bad \in SUBSET (0..N)
  OBVIOUS
<1>3. PICK m \in Bad : \A x \in Bad : m <= x
  <2> HIDE DEF Bad
  <2>1. QED
    BY <1>1, <1>2, LeastOf
<1>4. m \in Nat /\ m <= N
  BY <1>2
<1>5. CASE m = 0
  <2> DEFINE e == [n \in 0..0 |-> 0]
  <2>1. e = [n \in 0..0 |-> IF n = 0 THEN 0 ELSE e[n - 1] + clips[n].duration]
    OBVIOUS
  <2>2. Sums(e, clips, m)
    BY <1>5, <2>1 DEF Sums
  <2>3. QED
    BY <1>3, <2>2
<1>6. CASE m # 0
  <2>1. m - 1 \in 0..N /\ m - 1 \notin Bad
    BY <1>3, <1>4, <1>6
  <2>2. PICK f : Sums(f, clips, m - 1)
    BY <2>1
  <2>3. f = [n \in 0..(m - 1) |-> IF n = 0 THEN 0 ELSE f[n - 1] + clips[n].duration]
    BY <2>2 DEF Sums
  <2> DEFINE e == [n \in 0..m |-> IF n = m THEN f[m - 1] + clips[m].duration ELSE f[n]]
  <2>4. DOMAIN e = 0..m /\ \A n \in 0..(m - 1) : e[n] = f[n]
    BY <1>4, <1>6
  <2>5. ASSUME NEW n \in 0..m
        PROVE  e[n] = IF n = 0 THEN 0 ELSE e[n - 1] + clips[n].duration
    <3>1. CASE n = m
      <4>1. e[n] = f[m - 1] + clips[m].duration /\ n # 0
        BY <1>6, <3>1
      <4>2. m - 1 \in 0..(m - 1)
        BY <1>4, <1>6
      <4>3. e[m - 1] = f[m - 1]
        BY <2>4, <4>2
      <4> HIDE DEF e
      <4>4. QED
        BY <3>1, <4>1, <4>3
    <3>2. CASE n = 0
      <4>1. n \in 0..(m - 1)
        BY <1>4, <1>6, <3>2
      <4>2. e[n] = f[n] /\ f[n] = 0
        BY <2>3, <2>4, <3>2, <4>1
      <4> HIDE DEF e
      <4>3. QED
        BY <3>2, <4>2
    <3>3. CASE n # m /\ n # 0
      <4>1. n \in 0..(m - 1) /\ n - 1 \in 0..(m - 1)
        BY <1>4, <3>3
      <4>2. e[n] = f[n] /\ e[n - 1] = f[n - 1]
        BY <2>4, <4>1
      <4>3. f[n] = f[n - 1] + clips[n].duration
        BY <2>3, <3>3, <4>1
      <4> HIDE DEF e
      <4>4. QED
        BY <3>3, <4>2, <4>3
    <3>4. QED
      BY <3>1, <3>2, <3>3
  <2>6. e = [n \in 0..m |-> e[n]]
    OBVIOUS
  <2> HIDE DEF e
  <2>7. Sums(e, clips, m)
    BY <2>5, <2>6 DEF Sums
  <2>8. QED
    BY <1>3, <2>7
<1>7. QED
  BY <1>5, <1>6

LEMMA ElapsedSums ==
    ASSUME NEW clips, Len(clips) \in Nat, \A i \in 1..Len(clips) : clips[i].duration \in Int
    PROVE  /\ Elapsed(clips)[0] = 0
           /\ \A i \in 1..Len(clips) :
                  Elapsed(clips)[i] = Elapsed(clips)[i - 1] + clips[i].duration
           /\ \A i \in 0..Len(clips) : Elapsed(clips)[i] \in Int
<1> DEFINE N == Len(clips)
           e == Elapsed(clips)
           Bad == {n \in 0..N : e[n] \notin Int}
<1>1. \E f : f = [n \in 0..N |-> IF n = 0 THEN 0 ELSE f[n - 1] + clips[n].duration]
  BY SumsExist DEF Sums
<1>2. e = CHOOSE f : f = [n \in 0..N |-> IF n = 0 THEN 0 ELSE f[n - 1] + clips[n].duration]
  BY Zenon DEF Elapsed
<1>3. e = [n \in 0..N |-> IF n = 0 THEN 0 ELSE e[n - 1] + clips[n].duration]
  BY <1>1, <1>2, Zenon
<1> HIDE DEF e
<1>4. e[0] = 0
  BY <1>3
<1>5. \A i \in 1..N : e[i] = e[i - 1] + clips[i].duration
  <2>1. TAKE i \in 1..N
  <2>2. i \in 0..N /\ i # 0
    OBVIOUS
  <2>3. QED
    BY <1>3, <2>2
<1>6. Bad = {}
  <2>1. SUFFICES ASSUME Bad # {} PROVE FALSE
    OBVIOUS
  <2>2. Bad \in SUBSET (0..N)
    OBVIOUS
  <2>3. PICK m \in Bad : \A x \in Bad : m <= x
    <3> HIDE DEF Bad
    <3>1. QED
      BY <2>1, <2>2, LeastOf
  <2>4. m # 0 /\ m \in 0..N
    BY <1>4
  <2>5. m - 1 \in 0..N /\ m - 1 \notin Bad /\ m \in 1..N
    BY <2>3, <2>4
  <2>6. e[m - 1] \in Int /\ clips[m].duration \in Int
    BY <2>5
  <2>7. e[m] \in Int
    BY <1>5, <2>5, <2>6
  <2>8. QED
    BY <2>7
<1>7. \A i \in 0..N : e[i] \in Int
  BY <1>6
<1>8. QED
  BY <1>4, <1>5, <1>7 DEF e

\* Some segments that follow one another last as long as from the start of the first
\* to the end of the last, up to the rounding of each of them.
LastTogether(n, a, b, e) ==
    /\ \A i \in 0..n : e[i] \in Int
    /\ \A i \in 1..n : a[i] \in Int /\ b[i] \in Int
    /\ \A i \in 1..n : i + 1 \in 1..n => a[i + 1] = b[i]
    /\ \A i \in 1..n : e[i] = e[i - 1] + Micro(b[i] - a[i])

LEMMA Telescopes ==
    ASSUME NEW n \in Nat, NEW a, NEW b, NEW e, LastTogether(n, a, b, e),
           NEW i \in 1..n, NEW j \in i..n
    PROVE  /\ b[j] - a[i] - 2 * (j - i + 1) <= 4 * (e[j] - e[i - 1])
           /\ 4 * (e[j] - e[i - 1]) <= b[j] - a[i] + 2 * (j - i + 1)
<1> DEFINE Good(k) == /\ b[k] - a[i] - 2 * (k - i + 1) <= 4 * (e[k] - e[i - 1])
                      /\ 4 * (e[k] - e[i - 1]) <= b[k] - a[i] + 2 * (k - i + 1)
           Bad == {k \in i..n : ~Good(k)}
<1>1. SUFFICES ASSUME Bad # {} PROVE FALSE
  BY <1>1
<1>2. Bad \in SUBSET (0..n)
  OBVIOUS
<1>3. PICK m \in Bad : \A x \in Bad : m <= x
  <2> HIDE DEF Bad
  <2>1. QED
    BY <1>1, <1>2, LeastOf
<1>11. \A k \in i..n : k \in Bad <=> ~Good(k)
  OBVIOUS
<1>12. m \in i..n /\ m \in Bad
  BY <1>3
<1> HIDE DEF Good, Bad
<1>4. m \in 1..n /\ m \in Int /\ i \in Int /\ i <= m /\ m - 1 \in 0..n /\ i - 1 \in 0..n
  BY <1>12
<1>5. PICK am, bm, em, el, ei, ai \in Int :
          /\ am = a[m] /\ bm = b[m] /\ em = e[m] /\ el = e[m - 1] /\ ei = e[i - 1]
          /\ ai = a[i]
  <2>1. a[m] \in Int /\ b[m] \in Int /\ a[i] \in Int
    BY <1>4 DEF LastTogether
  <2>2. e[m] \in Int /\ e[m - 1] \in Int /\ e[i - 1] \in Int
    BY <1>4 DEF LastTogether
  <2>3. QED
    BY <2>1, <2>2
<1>6. PICK d \in Int : em = el + d /\ (bm - am) - 2 <= 4 * d /\ 4 * d <= (bm - am) + 2
  <2>1. bm - am \in Int
    BY <1>5
  <2>2. em = el + Micro(bm - am)
    BY <1>4, <1>5 DEF LastTogether
  <2>3. QED
    BY <2>1, <2>2, MicroRounds
<1>7. CASE m = i
  <2>1. el = ei /\ am = ai
    BY <1>5, <1>7
  <2>2. /\ bm - ai - 2 * (m - i + 1) <= 4 * (em - ei)
        /\ 4 * (em - ei) <= bm - ai + 2 * (m - i + 1)
    <3>1. m - i + 1 = 1
      BY <1>4, <1>7
    <3>2. QED
      <4>1. 4 * (em - ei) = 4 * d
        <5>1. em = ei + d
          BY <1>6, <2>1
        <5>2. em - ei = d
          BY <5>1
        <5>3. QED
          BY <5>2
      <4>2. (bm - ai) - 2 <= 4 * d /\ 4 * d <= (bm - ai) + 2
        BY <1>6, <2>1
      <4>3. (bm - ai) - 2 * (m - i + 1) = (bm - ai) - 2
            /\ (bm - ai) + 2 * (m - i + 1) = (bm - ai) + 2
        BY <1>4, <1>5, <3>1
      <4>4. QED
        BY <4>1, <4>2, <4>3
  <2>3. Good(m)
    BY <1>5, <2>2 DEF Good
  <2>4. QED
    BY <1>11, <1>12, <2>3
<1>8. CASE m # i
  <2>1. m - 1 \in i..n /\ m - 1 \notin Bad
    BY <1>3, <1>4, <1>8
  <2>2. Good(m - 1)
    BY <1>11, <2>1
  <2>3. m - 1 \in 1..n /\ (m - 1) + 1 = m
    BY <1>4, <2>1
  <2>4. am = b[m - 1] /\ am \in Int
    BY <1>4, <1>5, <2>3 DEF LastTogether
  <2>5. /\ am - ai - 2 * (m - 1 - i + 1) <= 4 * (el - ei)
        /\ 4 * (el - ei) <= am - ai + 2 * (m - 1 - i + 1)
    BY <1>5, <2>2, <2>4 DEF Good
  <2>6. /\ bm - ai - 2 * (m - i + 1) <= 4 * (em - ei)
        /\ 4 * (em - ei) <= bm - ai + 2 * (m - i + 1)
    <3>1. PICK q \in Int : q = m - i + 1 /\ m - 1 - i + 1 = q - 1
      BY <1>4
    <3>2. /\ (am - ai) - 2 * (q - 1) <= 4 * (el - ei)
          /\ 4 * (el - ei) <= (am - ai) + 2 * (q - 1)
      BY <2>5, <3>1
    <3>3. /\ (bm - ai) - 2 * q <= 4 * (em - ei)
          /\ 4 * (em - ei) <= (bm - ai) + 2 * q
      <4>1. 4 * (em - ei) = 4 * (el - ei) + 4 * d
        BY <1>5, <1>6
      <4>2. 2 * (q - 1) = 2 * q - 2
        BY <3>1
      <4>3. PICK x, y \in Int : x = 4 * (el - ei) /\ y = 2 * q
        BY <1>5, <3>1
      <4>4. (am - ai) - (y - 2) <= x /\ x <= (am - ai) + (y - 2)
        BY <3>2, <4>2, <4>3
      <4>5. (bm - ai) - y <= x + 4 * d /\ x + 4 * d <= (bm - ai) + y
        BY <1>5, <1>6, <4>4
      <4>6. QED
        BY <4>1, <4>3, <4>5
    <3>4. QED
      BY <3>1, <3>3
  <2>7. Good(m)
    BY <1>5, <2>6 DEF Good
  <2>8. QED
    BY <1>11, <1>12, <2>7
<1>9. QED
  BY <1>7, <1>8

-----------------------------------------------------------------------------
(* What Editly's segments show of a clip.                                     *)

\* The chain starts at the start, and ends where no boundary comes after.
LEMMA ChainEnds ==
    ASSUME NEW c, WellTimed(c), NEW s, Chained(c, s)
    PROVE  /\ 1 \in DOMAIN s => s[1].from = 0
           /\ \A i \in DOMAIN s : i + 1 \notin DOMAIN s =>
                  \A k \in Boundaries(c) : k <= s[i].to
<1> DEFINE K == Boundaries(c)
<1>1. K \in SUBSET Nat /\ 0 \in K
  BY BoundariesKeep DEF Keeps
<1>2. /\ DOMAIN s = 1..Len(s) /\ Len(s) \in Nat
      /\ \A i \in DOMAIN s : s[i].from \in K /\ s[i].to \in K /\ s[i].from + Epsilon < s[i].to
      /\ \A i, j \in DOMAIN s : i < j <=> s[i].from < s[j].from
      /\ \A k \in K : (\E l \in K : k < l) => \E i \in DOMAIN s : s[i].from = k
  BY DEF Chained
<1> HIDE DEF K
<1>3. ASSUME 1 \in DOMAIN s PROVE s[1].from = 0
  <2>1. SUFFICES ASSUME s[1].from # 0 PROVE FALSE
    OBVIOUS
  <2>2. s[1].from \in K /\ s[1].from \in Nat /\ 0 < s[1].from
    <3>1. s[1].from \in K
      BY <1>2, <1>3
    <3>2. s[1].from \in Nat
      BY <1>1, <3>1
    <3>3. QED
      BY <2>1, <3>1, <3>2
  <2>3. PICK i \in DOMAIN s : s[i].from = 0
    BY <1>1, <1>2, <2>2
  <2>4. i < 1
    BY <1>2, <1>3, <2>2, <2>3
  <2>5. QED
    BY <1>2, <2>4
<1>4. ASSUME NEW i \in DOMAIN s, i + 1 \notin DOMAIN s, NEW k \in K
      PROVE  k <= s[i].to
  <2>1. s[i].to \in K /\ s[i].to \in Nat /\ k \in Nat /\ s[i].from \in Nat
        /\ s[i].from + Epsilon < s[i].to
    BY <1>1, <1>2
  <2>2. SUFFICES ASSUME s[i].to < k PROVE FALSE
    BY <2>1
  <2>3. PICK j \in DOMAIN s : s[j].from = s[i].to
    BY <1>2, <2>1, <2>2
  <2>4. s[i].from < s[j].from
    BY <2>1, <2>3 DEF Epsilon
  <2>5. i < j
    BY <1>2, <2>4
  <2>6. QED
    BY <1>2, <1>4, <2>5
<1>5. QED
  BY <1>3, <1>4 DEF K

\* A segment that shows a clip starts when it does or later, and ends when it does
\* or earlier, up to noise; the first and the last that do are near its ends; and a
\* clip that is longer than the noise is shown.
Covers(s, i, f, t) == f < s[i].to - Epsilon /\ t > s[i].from + Epsilon

LEMMA ClipEnds ==
    ASSUME NEW c, WellTimed(c), NEW s, Chained(c, s), NEW ref \in Visual(c),
           NEW f, f = From(c, ref), NEW t, t = To(c, ref)
    PROVE  /\ \A i \in DOMAIN s :
                  /\ f < s[i].to - Epsilon => f <= s[i].from + Epsilon
                  /\ t > s[i].from + Epsilon => s[i].to <= t
                  /\ ~(i + 1 \in DOMAIN s /\ Covers(s, i + 1, f, t)) /\ Covers(s, i, f, t) =>
                         t <= s[i].to + Epsilon
                  /\ ~(i - 1 \in DOMAIN s /\ Covers(s, i - 1, f, t)) /\ Covers(s, i, f, t) =>
                         s[i].from <= f + Epsilon
           /\ t - f > 2 * Epsilon => \E i \in DOMAIN s : Covers(s, i, f, t)
<1> DEFINE K == Boundaries(c)
<1>1. /\ K \in SUBSET Nat /\ 0 \in K
      /\ \A x \in Cuts(c) : \E k \in K : k <= x /\ x <= k + Epsilon
  BY BoundariesKeep DEF Keeps
<1>2. f \in Nat /\ t \in Nat /\ f \in Cuts(c) /\ t \in Cuts(c)
  BY VisualTimes DEF Cuts
<1>3. PICK kf \in K : kf <= f /\ f <= kf + Epsilon
  BY <1>1, <1>2
<1>4. PICK kt \in K : kt <= t /\ t <= kt + Epsilon
  BY <1>1, <1>2
<1>5. /\ DOMAIN s = 1..Len(s) /\ Len(s) \in Nat
      /\ \A i \in DOMAIN s : s[i].from \in K /\ s[i].to \in K /\ s[i].from + Epsilon < s[i].to
      /\ \A i \in DOMAIN s : ~\E k \in K : s[i].from < k /\ k < s[i].to
      /\ \A i, j \in DOMAIN s : i < j <=> s[i].from < s[j].from
      /\ \A i, j \in DOMAIN s : j = i + 1 => s[j].from = s[i].to
      /\ \A k \in K : (\E l \in K : l < k) => \E i \in DOMAIN s : s[i].to = k
  BY DEF Chained
<1>6. /\ 1 \in DOMAIN s => s[1].from = 0
      /\ \A i \in DOMAIN s : i + 1 \notin DOMAIN s => \A k \in K : k <= s[i].to
  BY ChainEnds
<1> HIDE DEF K
<1>7. kf \in Nat /\ kt \in Nat
  BY <1>1
<1>8. ASSUME NEW i \in DOMAIN s
      PROVE  /\ i \in Nat /\ i >= 1 /\ s[i].from \in Nat /\ s[i].to \in Nat
             /\ s[i].from + Epsilon < s[i].to
             /\ ~(s[i].from < kf /\ kf < s[i].to)
             /\ ~(s[i].from < kt /\ kt < s[i].to)
  <2>1. /\ s[i].from \in K /\ s[i].to \in K /\ s[i].from + Epsilon < s[i].to
        /\ ~\E k \in K : s[i].from < k /\ k < s[i].to
    BY <1>5
  <2>2. s[i].from \in Nat /\ s[i].to \in Nat
    BY <1>1, <2>1
  <2>3. i \in Nat /\ i >= 1
    BY <1>5
  <2>4. QED
    BY <2>1, <2>2, <2>3
<1>9. ASSUME NEW i \in DOMAIN s, f < s[i].to - Epsilon
      PROVE  f <= s[i].from + Epsilon
  BY <1>2, <1>3, <1>7, <1>8, <1>9 DEF Epsilon
<1>10. ASSUME NEW i \in DOMAIN s, t > s[i].from + Epsilon
       PROVE  s[i].to <= t
  BY <1>2, <1>4, <1>7, <1>8, <1>10 DEF Epsilon
<1>11. ASSUME NEW i \in DOMAIN s, Covers(s, i, f, t),
              ~(i + 1 \in DOMAIN s /\ Covers(s, i + 1, f, t))
       PROVE  t <= s[i].to + Epsilon
  <2>1. CASE i + 1 \in DOMAIN s
    <3>1. s[i + 1].from = s[i].to /\ s[i].to \in Nat /\ s[i + 1].to \in Nat
          /\ s[i + 1].from + Epsilon < s[i + 1].to
      BY <1>5, <1>8, <2>1
    <3>2. f < s[i].to - Epsilon /\ ~Covers(s, i + 1, f, t)
      BY <1>11, <2>1 DEF Covers
    <3>3. f < s[i + 1].to - Epsilon
      BY <1>2, <3>1, <3>2 DEF Epsilon
    <3>4. ~(t > s[i + 1].from + Epsilon)
      BY <3>2, <3>3 DEF Covers
    <3>5. QED
      BY <1>2, <3>1, <3>4 DEF Epsilon
  <2>2. CASE i + 1 \notin DOMAIN s
    <3>1. kt <= s[i].to
      BY <1>6, <2>2
    <3>2. QED
      BY <1>2, <1>4, <1>7, <1>8, <3>1 DEF Epsilon
  <2>3. QED
    BY <2>1, <2>2
<1>12. ASSUME NEW i \in DOMAIN s, Covers(s, i, f, t),
              ~(i - 1 \in DOMAIN s /\ Covers(s, i - 1, f, t))
       PROVE  s[i].from <= f + Epsilon
  <2>1. CASE i - 1 \in DOMAIN s
    <3>1. (i - 1) + 1 = i
      BY <1>8
    <3>2. s[i].from = s[i - 1].to /\ s[i - 1].to \in Nat /\ s[i - 1].from \in Nat
          /\ s[i - 1].from + Epsilon < s[i - 1].to
      BY <1>5, <1>8, <2>1, <3>1
    <3>3. t > s[i].from + Epsilon /\ ~Covers(s, i - 1, f, t)
      BY <1>12, <2>1 DEF Covers
    <3>4. t > s[i - 1].from + Epsilon
      BY <1>2, <3>2, <3>3 DEF Epsilon
    <3>5. ~(f < s[i - 1].to - Epsilon)
      BY <3>3, <3>4 DEF Covers
    <3>6. QED
      BY <1>2, <3>2, <3>5 DEF Epsilon
  <2>2. CASE i - 1 \notin DOMAIN s
    <3>1. i = 1
      BY <1>5, <2>2
    <3>2. QED
      BY <1>2, <1>6, <3>1 DEF Epsilon
  <2>3. QED
    BY <2>1, <2>2
<1>13. ASSUME t - f > 2 * Epsilon PROVE \E i \in DOMAIN s : Covers(s, i, f, t)
  <2>1. 0 < kt
    BY <1>2, <1>4, <1>7, <1>13 DEF Epsilon
  <2>2. PICK i \in DOMAIN s : s[i].to = kt
    BY <1>1, <1>5, <2>1
  <2>3. f < s[i].to - Epsilon
    BY <1>2, <1>4, <1>7, <1>13, <2>2 DEF Epsilon
  <2>4. t > s[i].from + Epsilon
    BY <1>2, <1>4, <1>7, <1>8, <2>2 DEF Epsilon
  <2>5. QED
    BY <2>3, <2>4 DEF Covers
<1>14. QED
  BY <1>9, <1>10, <1>11, <1>12, <1>13

\* The layers of a segment are the clips that are seen in it, as they are listed.
LEMMA LayersShow ==
    ASSUME NEW c, WellTimed(c), NEW g, g.active \in SUBSET Refs(c),
           NEW layers, layers = Layers(c, g)
    PROVE  /\ \A layer \in ToSet(layers) : /\ layer.ref \in g.active \cap Visual(c)
                                           /\ layer.cut = Cut(c, layer.ref, g.from)
           /\ \A ref \in g.active \cap Visual(c) : \E layer \in ToSet(layers) : layer.ref = ref
           /\ \A a, b \in g.active \cap Visual(c) :
                  Over(layers, a, b) <=> ListedBefore(b, a)
<1> DEFINE S == g.active \cap Visual(c)
           R == {p \in S \X S : ListedBefore(p[1], p[2])}
           order == InSequence(S, R)
<1>1. IsFiniteSet(S) /\ S \in SUBSET (Nat \X Nat)
  <2>1. IsFiniteSet(Visual(c)) /\ Visual(c) \in SUBSET (Nat \X Nat)
    BY VisualTimes
  <2>2. S \in SUBSET Visual(c)
    OBVIOUS
  <2> HIDE DEF S
  <2>3. QED
    BY <2>1, <2>2, FS_Subset
<1> HIDE DEF S
<1>2. StrictOrder(S, R)
  BY <1>1, ListedOrder
<1>3. \A a, b \in S : <<a, b>> \in R <=> ListedBefore(a, b)
  OBVIOUS
<1> HIDE DEF R
<1>4. /\ DOMAIN order = 1..Len(order) /\ Len(order) \in Nat
      /\ \A k \in DOMAIN order : order[k] \in S
      /\ \A x \in S : \E k \in DOMAIN order : order[k] = x
      /\ \A i, j \in DOMAIN order : i < j <=> <<order[i], order[j]>> \in R
  BY <1>1, <1>2, Sequenced
<1>5. layers = [i \in DOMAIN order |-> [ref |-> order[i], cut |-> Cut(c, order[i], g.from)]]
  BY DEF Layers, Listed, S, R
<1> HIDE DEF order
<1>6. /\ DOMAIN layers = DOMAIN order
      /\ \A i \in DOMAIN order : layers[i].ref = order[i] /\ layers[i].cut = Cut(c, order[i], g.from)
  BY <1>5
<1>7. ASSUME NEW layer \in ToSet(layers)
      PROVE  layer.ref \in S /\ layer.cut = Cut(c, layer.ref, g.from)
  <2>1. PICK i \in DOMAIN order : layer = layers[i]
    BY <1>6 DEF ToSet
  <2>2. QED
    BY <1>4, <1>6, <2>1
<1>8. ASSUME NEW ref \in S PROVE \E layer \in ToSet(layers) : layer.ref = ref
  <2>1. PICK k \in DOMAIN order : order[k] = ref
    BY <1>4
  <2>2. QED
    BY <1>6, <2>1 DEF ToSet
<1>9. ASSUME NEW a \in S, NEW b \in S PROVE Over(layers, a, b) <=> ListedBefore(b, a)
  <2>1. ASSUME Over(layers, a, b) PROVE ListedBefore(b, a)
    <3>1. PICK i, j \in DOMAIN order : i < j /\ order[i] = b /\ order[j] = a
      BY <1>6, <2>1 DEF Over
    <3>2. QED
      BY <1>3, <1>4, <3>1
  <2>2. ASSUME ListedBefore(b, a) PROVE Over(layers, a, b)
    <3>1. PICK i, j \in DOMAIN order : order[i] = b /\ order[j] = a
      BY <1>4
    <3>2. i < j
      BY <1>3, <1>4, <2>2, <3>1
    <3>3. QED
      BY <1>6, <3>1, <3>2 DEF Over
  <2>3. QED
    BY <2>1, <2>2
<1>10. QED
  BY <1>7, <1>8, <1>9 DEF S

\* What the compiler makes of the segments, clip by clip.
LEMMA EditlyClips ==
    ASSUME NEW c, WellTimed(c), NEW v, v = EditlySpec(c), NEW s, s = Segments(c)
    PROVE  /\ DOMAIN v.clips = DOMAIN s /\ Len(v.clips) = Len(s)
           /\ \A i \in DOMAIN s :
                  /\ v.clips[i].from = s[i].from
                  /\ v.clips[i].duration = Micro(s[i].to - s[i].from)
                  /\ v.clips[i].layers = Layers(c, s[i])
                  /\ v.clips[i].transition =
                         {p \in Plans(c) : Micro(p.boundary) = Micro(s[i].to)}
<1>1. DOMAIN s = 1..Len(s) /\ Len(s) \in Nat
  BY SegmentsChain DEF Chained
<1>2. v.clips = [i \in DOMAIN s |->
            [from       |-> s[i].from,
             duration   |-> Micro(s[i].to - s[i].from),
             layers     |-> Layers(c, s[i]),
             transition |-> {p \in Plans(c) : Micro(p.boundary) = Micro(s[i].to)}]]
  BY DEF EditlySpec
<1>3. DOMAIN v.clips = DOMAIN s
  BY <1>2
<1>4. Len(v.clips) = Len(s)
  BY <1>1, <1>2, <1>3, LenProperties
<1>5. QED
  BY <1>2, <1>3, <1>4

\* A clip is shown by the segments that are within it.
LEMMA ShownWhere ==
    ASSUME NEW c, WellTimed(c), spec = EditlySpec(c), NEW s, s = Segments(c),
           NEW ref \in Visual(c), NEW f, f = From(c, ref), NEW t, t = To(c, ref)
    PROVE  /\ Shown(ref) = {i \in DOMAIN s : Covers(s, i, f, t)}
           /\ \A i \in Shown(ref) : CutOf(i, ref) = Cut(c, ref, s[i].from)
<1>1. /\ DOMAIN spec.clips = DOMAIN s
      /\ \A i \in DOMAIN s : spec.clips[i].layers = Layers(c, s[i])
  BY EditlyClips
<1>2. \A i \in DOMAIN s : s[i].active = Active(c, s[i].from, s[i].to)
  BY SegmentsChain DEF Chained
<1>3. ref \in Refs(c)
  BY DEF Visual
<1>4. ASSUME NEW i \in DOMAIN s
      PROVE  /\ (\E layer \in ToSet(spec.clips[i].layers) : layer.ref = ref)
                    <=> Covers(s, i, f, t)
             /\ \A layer \in ToSet(spec.clips[i].layers) :
                    layer.ref = ref => layer.cut = Cut(c, ref, s[i].from)
  <2>1. s[i].active \in SUBSET Refs(c)
    BY <1>2 DEF Active
  <2>2. /\ \A layer \in ToSet(Layers(c, s[i])) :
               /\ layer.ref \in s[i].active \cap Visual(c)
               /\ layer.cut = Cut(c, layer.ref, s[i].from)
        /\ \A r \in s[i].active \cap Visual(c) :
               \E layer \in ToSet(Layers(c, s[i])) : layer.ref = r
    BY <2>1, LayersShow
  <2>3. ref \in s[i].active <=> Covers(s, i, f, t)
    BY <1>2, <1>3 DEF Active, Covers
  <2>4. (\E layer \in ToSet(Layers(c, s[i])) : layer.ref = ref) <=> ref \in s[i].active
    BY <2>2
  <2>5. QED
    BY <1>1, <2>2, <2>3, <2>4
<1>5. Shown(ref) = {i \in DOMAIN s : Covers(s, i, f, t)}
  BY <1>1, <1>4 DEF Shown
<1>6. ASSUME NEW i \in Shown(ref)
      PROVE  CutOf(i, ref) = Cut(c, ref, s[i].from)
  <2> DEFINE layer == CHOOSE l \in ToSet(spec.clips[i].layers) : l.ref = ref
  <2>1. i \in DOMAIN s /\ \E l \in ToSet(spec.clips[i].layers) : l.ref = ref
    BY <1>1 DEF Shown
  <2>2. layer \in ToSet(spec.clips[i].layers) /\ layer.ref = ref
    BY <2>1, Zenon
  <2>3. layer.cut = Cut(c, ref, s[i].from)
    BY <1>4, <2>1, <2>2
  <2>4. QED
    BY <2>3 DEF CutOf
<1>7. QED
  BY <1>5, <1>6

\* The segments last, each of them and together, as long as they go, up to rounding.
LEMMA SegmentsLast ==
    ASSUME NEW c, WellTimed(c), NEW v, v = EditlySpec(c), NEW s, s = Segments(c),
           NEW i \in DOMAIN s, NEW j \in DOMAIN s, i <= j
    PROVE  /\ Elapsed(v.clips)[j] \in Int /\ Elapsed(v.clips)[i - 1] \in Int
           /\ s[i].from \in Nat /\ s[j].to \in Nat /\ i \in Nat /\ j \in Nat
           /\ (s[j].to - s[i].from) - 2 * (j - i + 1)
                  <= 4 * (Elapsed(v.clips)[j] - Elapsed(v.clips)[i - 1])
           /\ 4 * (Elapsed(v.clips)[j] - Elapsed(v.clips)[i - 1])
                  <= (s[j].to - s[i].from) + 2 * (j - i + 1)
<1> DEFINE n == Len(s)
           e == Elapsed(v.clips)
           a == [k \in DOMAIN s |-> s[k].from]
           b == [k \in DOMAIN s |-> s[k].to]
<1>1. /\ Chained(c, s) /\ Boundaries(c) \in SUBSET Nat
  BY SegmentsChain, BoundariesKeep DEF Keeps
<1>2. /\ DOMAIN s = 1..n /\ n \in Nat
      /\ \A k \in DOMAIN s : s[k].from \in Nat /\ s[k].to \in Nat
      /\ \A k, l \in DOMAIN s : l = k + 1 => s[l].from = s[k].to
  BY <1>1 DEF Chained
<1>3. /\ DOMAIN v.clips = DOMAIN s /\ Len(v.clips) = n
      /\ \A k \in DOMAIN s : v.clips[k].duration = Micro(s[k].to - s[k].from)
  BY EditlyClips
<1> HIDE DEF n
<1>4. \A k \in 1..n : v.clips[k].duration \in Int
  <2>1. TAKE k \in 1..n
  <2>2. s[k].to - s[k].from \in Int
    BY <1>2
  <2>3. QED
    BY <1>2, <1>3, <2>2, MicroRounds
<1>5. /\ \A k \in 1..n : e[k] = e[k - 1] + v.clips[k].duration
      /\ \A k \in 0..n : e[k] \in Int
  BY <1>2, <1>3, <1>4, ElapsedSums
<1> HIDE DEF e
<1>6. \A k \in 1..n : a[k] = s[k].from /\ b[k] = s[k].to
  BY <1>2
<1> HIDE DEF a, b
<1>7. LastTogether(n, a, b, e)
  <2>1. \A k \in 1..n : a[k] \in Int /\ b[k] \in Int
    BY <1>2, <1>6
  <2>2. \A k \in 1..n : k + 1 \in 1..n => a[k + 1] = b[k]
    <3>1. TAKE k \in 1..n
    <3>2. HAVE k + 1 \in 1..n
    <3>3. s[k + 1].from = s[k].to
      BY <1>2, <3>2
    <3>4. a[k + 1] = s[k + 1].from /\ b[k] = s[k].to
      BY <1>6, <3>2
    <3>5. QED
      BY <3>3, <3>4
  <2>3. \A k \in 1..n : e[k] = e[k - 1] + Micro(b[k] - a[k])
    <3>1. TAKE k \in 1..n
    <3>2. v.clips[k].duration = Micro(s[k].to - s[k].from)
      BY <1>2, <1>3
    <3>3. QED
      BY <1>5, <1>6, <3>2
  <2>4. QED
    BY <1>5, <2>1, <2>2, <2>3 DEF LastTogether
<1>8. i \in 1..n /\ j \in i..n /\ i - 1 \in 0..n /\ j \in 0..n /\ j \in 1..n
  BY <1>2
<1>9. /\ b[j] - a[i] - 2 * (j - i + 1) <= 4 * (e[j] - e[i - 1])
      /\ 4 * (e[j] - e[i - 1]) <= b[j] - a[i] + 2 * (j - i + 1)
  BY <1>2, <1>7, <1>8, Telescopes
<1>10. /\ e[j] \in Int /\ e[i - 1] \in Int /\ s[i].from \in Nat /\ s[j].to \in Nat
       /\ i \in Nat /\ j \in Nat /\ b[j] = s[j].to /\ a[i] = s[i].from
  BY <1>2, <1>5, <1>6, <1>8
<1>11. QED
  BY <1>9, <1>10 DEF e

\* A clip is shown in one piece and for its length.
LEMMA ShownThrough ==
    ASSUME NEW c, WellTimed(c), spec = EditlySpec(c), NEW ref \in Visual(c)
    PROVE  /\ Shown(ref) = {} \/ Shown(ref) = Min(Shown(ref))..Max(Shown(ref))
           /\ Near(4 * ShownFor(ref), At(c, ref).length,
                   2 * Epsilon + 2 * Cardinality(Shown(ref)))
<1> DEFINE s == Segments(c)
           f == From(c, ref)
           t == To(c, ref)
           I == Shown(ref)
           len == At(c, ref).length
<1>1. f \in Nat /\ t \in Nat /\ len \in Nat /\ t = f + len
  BY VisualTimes DEF Visual
<1>2. I = {i \in DOMAIN s : Covers(s, i, f, t)}
  BY ShownWhere
<1>3. /\ \A i \in DOMAIN s :
             /\ f < s[i].to - Epsilon => f <= s[i].from + Epsilon
             /\ t > s[i].from + Epsilon => s[i].to <= t
             /\ ~(i + 1 \in DOMAIN s /\ Covers(s, i + 1, f, t)) /\ Covers(s, i, f, t) =>
                    t <= s[i].to + Epsilon
             /\ ~(i - 1 \in DOMAIN s /\ Covers(s, i - 1, f, t)) /\ Covers(s, i, f, t) =>
                    s[i].from <= f + Epsilon
      /\ t - f > 2 * Epsilon => \E i \in DOMAIN s : Covers(s, i, f, t)
  BY SegmentsChain, ClipEnds
<1>4. /\ Chained(c, s) /\ Boundaries(c) \in SUBSET Nat
  BY SegmentsChain, BoundariesKeep DEF Keeps
<1>5. /\ DOMAIN s = 1..Len(s) /\ Len(s) \in Nat
      /\ \A i \in DOMAIN s : s[i].from \in Nat /\ s[i].to \in Nat
      /\ \A i, j \in DOMAIN s : i < j <=> s[i].from < s[j].from
      /\ \A i, j \in DOMAIN s : i < j => s[i].to <= s[j].from
  <2>1. DOMAIN s = 1..Len(s) /\ Len(s) \in Nat
    BY <1>4 DEF Chained
  <2>2. \A i \in DOMAIN s : s[i].from \in Nat /\ s[i].to \in Nat
    BY <1>4 DEF Chained
  <2>3. \A i, j \in DOMAIN s : i < j <=> s[i].from < s[j].from
    BY <1>4 DEF Chained
  <2>4. ASSUME NEW i \in DOMAIN s, NEW j \in DOMAIN s, i < j PROVE s[i].to <= s[j].from
    <3>1. s[i].from < s[j].from /\ s[j].from \in Boundaries(c)
      BY <1>4, <2>3, <2>4 DEF Chained
    <3>2. ~(s[i].from < s[j].from /\ s[j].from < s[i].to)
      BY <1>4, <3>1 DEF Chained
    <3>3. QED
      BY <2>2, <3>1, <3>2
  <2>5. QED
    BY <2>1, <2>2, <2>3, <2>4
<1> HIDE DEF s, f, t, I, len
<1>6. CASE I = {}
  <2>1. ~(t - f > 2 * Epsilon)
    BY <1>2, <1>3, <1>6
  <2>2. ShownFor(ref) = 0 /\ Cardinality(I) = 0
    BY <1>6, FS_EmptySet DEF ShownFor, I
  <2>3. Near(4 * 0, len, 2 * Epsilon + 2 * 0)
    BY <1>1, <2>1 DEF Near, Epsilon
  <2>4. QED
    BY <1>6, <2>2, <2>3 DEF I, len
<1>7. CASE I # {}
  <2> DEFINE lo == Min(I)
             hi == Max(I)
  <2>1. I \in SUBSET Int /\ IsFiniteSet(I)
    <3>1. IsFiniteSet(1..Len(s))
      <4>1. 1 \in Int /\ Len(s) \in Int
        BY <1>5
      <4>2. QED
        BY <4>1, FS_Interval
    <3>2. I \in SUBSET (1..Len(s))
      BY <1>2, <1>5
    <3>3. 1..Len(s) \subseteq Int
      BY <1>5
    <3>4. QED
      BY <3>1, <3>2, <3>3, FS_Subset
  <2>2. lo \in I /\ (\A x \in I : lo <= x) /\ hi \in I /\ \A x \in I : x <= hi
    BY <1>7, <2>1, MinOf, MaxOf
  <2> HIDE DEF lo, hi
  <2>3. /\ lo \in DOMAIN s /\ hi \in DOMAIN s /\ lo <= hi /\ lo \in Int /\ hi \in Int
        /\ Covers(s, lo, f, t) /\ Covers(s, hi, f, t)
    BY <1>2, <2>1, <2>2
  <2>4. I = lo..hi
    <3>1. I \subseteq lo..hi
      BY <2>1, <2>2, <2>3
    <3>2. ASSUME NEW m \in lo..hi PROVE m \in I
      <4>1. m \in DOMAIN s /\ lo <= m /\ m <= hi /\ m \in Int
        BY <1>5, <2>3
      <4>2. s[lo].to <= s[m].to
        <5>1. CASE lo = m
          BY <1>5, <4>1, <5>1
        <5>2. CASE lo < m
          <6>1. s[lo].to <= s[m].from /\ s[m].from < s[m].to
            BY <1>4, <1>5, <2>3, <4>1, <5>2 DEF Chained, Epsilon
          <6>2. s[lo].to \in Nat /\ s[m].from \in Nat /\ s[m].to \in Nat
            BY <1>5, <2>3, <4>1
          <6>3. QED
            BY <6>1, <6>2
        <5>3. QED
          BY <2>3, <4>1, <5>1, <5>2
      <4>3. s[m].from <= s[hi].from
        <5>1. ~(hi < m)
          BY <2>3, <4>1
        <5>2. ~(s[hi].from < s[m].from)
          BY <1>5, <2>3, <4>1, <5>1
        <5>3. s[hi].from \in Nat /\ s[m].from \in Nat
          BY <1>5, <2>3, <4>1
        <5>4. QED
          BY <5>2, <5>3
      <4>4. /\ s[lo].to \in Nat /\ s[m].to \in Nat /\ s[m].from \in Nat /\ s[hi].from \in Nat
        BY <1>5, <2>3, <4>1
      <4>5. Covers(s, m, f, t)
        BY <1>1, <2>3, <4>2, <4>3, <4>4 DEF Covers, Epsilon
      <4>6. QED
        BY <1>2, <4>1, <4>5
    <3>3. QED
      BY <3>1, <3>2
  <2>5. Cardinality(I) = hi - lo + 1
    <3>1. Cardinality(lo..hi) = IF lo > hi THEN 0 ELSE hi - lo + 1
      BY <2>3, FS_Interval
    <3>2. QED
      BY <2>3, <2>4, <3>1
  <2>6. /\ f <= s[lo].from + Epsilon /\ s[lo].from <= f + Epsilon
        /\ s[hi].to <= t /\ t <= s[hi].to + Epsilon
    <3>1. lo - 1 \notin I /\ hi + 1 \notin I
      BY <2>2, <2>3
    <3>2. ~(hi + 1 \in DOMAIN s /\ Covers(s, hi + 1, f, t))
      BY <1>2, <3>1
    <3>3. ~(lo - 1 \in DOMAIN s /\ Covers(s, lo - 1, f, t))
      BY <1>2, <3>1
    <3>4. f < s[lo].to - Epsilon /\ t > s[hi].from + Epsilon
      BY <2>3 DEF Covers
    <3>5. QED
      BY <1>3, <2>3, <3>2, <3>3, <3>4
  <2>7. PICK a, b, d, e \in Int :
            /\ a = s[lo].from /\ b = s[hi].to
            /\ d = hi - lo + 1
            /\ e = ShownFor(ref)
            /\ (b - a) - 2 * d <= 4 * e /\ 4 * e <= (b - a) + 2 * d
    <3>1. ShownFor(ref) = Elapsed(spec.clips)[hi] - Elapsed(spec.clips)[lo - 1]
      BY <1>7 DEF ShownFor, I, lo, hi
    <3>2. /\ Elapsed(spec.clips)[hi] \in Int /\ Elapsed(spec.clips)[lo - 1] \in Int
          /\ s[lo].from \in Nat /\ s[hi].to \in Nat /\ lo \in Nat /\ hi \in Nat
          /\ (s[hi].to - s[lo].from) - 2 * (hi - lo + 1)
                 <= 4 * (Elapsed(spec.clips)[hi] - Elapsed(spec.clips)[lo - 1])
          /\ 4 * (Elapsed(spec.clips)[hi] - Elapsed(spec.clips)[lo - 1])
                 <= (s[hi].to - s[lo].from) + 2 * (hi - lo + 1)
      BY <2>3, SegmentsLast DEF s
    <3>3. PICK d \in Int : d = hi - lo + 1
      BY <2>3
    <3>4. ShownFor(ref) \in Int
      BY <3>1, <3>2
    <3>5. QED
      BY <3>1, <3>2, <3>3, <3>4
  <2>8. /\ f <= a + Epsilon /\ a <= f + Epsilon /\ b <= t /\ t <= b + Epsilon
    BY <2>6, <2>7
  <2>9. -(2 * Epsilon + 2 * d) <= 4 * e - len /\ 4 * e - len <= 2 * Epsilon + 2 * d
    <3>1. b - a <= len + 4 /\ len - 8 <= b - a
      BY <1>1, <2>7, <2>8 DEF Epsilon
    <3>2. PICK y, z \in Int : y = 2 * d /\ z = 4 * e
      BY <2>7
    <3>3. (b - a) - y <= z /\ z <= (b - a) + y
      BY <2>7, <3>2
    <3>4. -(8 + y) <= z - len /\ z - len <= 8 + y
      BY <1>1, <2>7, <3>1, <3>3
    <3>5. QED
      BY <3>2, <3>4 DEF Epsilon
  <2>10. QED
    <3>1. 4 * e - len <= 2 * Epsilon + 2 * d /\ -(2 * Epsilon + 2 * d) <= 4 * e - len
      BY <2>9
    <3>2. Near(4 * e, len, 2 * Epsilon + 2 * d)
      BY <1>1, <2>7, <3>1 DEF Near, Epsilon
    <3>3. QED
      BY <2>4, <2>5, <2>7, <3>2 DEF I, len, lo, hi
<1>8. QED
  BY <1>6, <1>7

\* A value that may be left out, when it is there.
LEMMA GivenOne ==
    ASSUME NEW x, NEW default
    PROVE  Given({x}, default) = x
  BY DEF Given

\* What was read of the clips: their places in their sources, and their transitions.
LEMMA ReadClipFields ==
    ASSUME NEW posted \in Posted, Reads(posted), NEW c, c = Read(posted), NEW ref \in Refs(c)
    PROVE  /\ Given(At(c, ref).trim, 0) \in Int
           /\ \A t, u \in At(c, ref).transition : t = u
           /\ At(c, ref) \in Clips(c)
<1>1. c.tracks = [t \in DOMAIN posted.tracks |->
                     [k \in DOMAIN posted.tracks[t] |-> ReadClip(posted.tracks[t][k])]]
  BY DEF Read, Posted
<1>2. PICK t \in DOMAIN c.tracks : \E k \in DOMAIN c.tracks[t] : ref = <<t, k>>
  BY DEF Refs
<1>3. PICK k \in DOMAIN c.tracks[t] : ref = <<t, k>>
  BY <1>2
<1>4. t \in DOMAIN posted.tracks /\ k \in DOMAIN posted.tracks[t]
  BY <1>1, <1>2, <1>3
<1>5. PICK clip \in Clip : clip = posted.tracks[t][k]
  <2>1. posted.tracks \in Seq(Seq(Clip))
    BY DEF Posted
  <2>2. posted.tracks[t] \in Seq(Clip)
    BY <1>4, <2>1
  <2>3. QED
    BY <1>4, <2>2
<1>6. At(c, ref) = c.tracks[t][k]
  BY <1>3 DEF At
<1>7. At(c, ref) = ReadClip(clip)
  BY <1>1, <1>4, <1>5, <1>6
<1>8. /\ clip.trim \in SUBSET Int /\ \A v, w \in clip.trim : v = w
      /\ \A v, w \in clip.transition : v = w
  BY <1>5 DEF Clip, Optional
<1>9. /\ ReadClip(clip).trim = clip.trim
      /\ ReadClip(clip).transition = {ReadTransition(u) : u \in clip.transition}
  BY <1>5 DEF ReadClip, Clip
<1>10. Given(clip.trim, 0) \in Int
  <2>1. CASE clip.trim = {}
    BY <2>1 DEF Given
  <2>2. CASE clip.trim # {}
    <3>1. PICK v \in Int : clip.trim = {v}
      BY <1>8, <2>2
    <3>2. QED
      BY <3>1, GivenOne
  <2>3. QED
    BY <2>1, <2>2
<1>11. At(c, ref) \in Clips(c)
  BY <1>2, <1>3, <1>6 DEF Clips, ToSet
<1>12. QED
  BY <1>7, <1>8, <1>9, <1>10, <1>11

\* What a segment plays of a video, in quarters of a microsecond: from its trim on,
\* as far as the timeline has got in it, up to the clip's end.
LEMMA VideoIsCut ==
    ASSUME NEW c, WellTimed(c), spec = EditlySpec(c), NEW ref \in Visual(c),
           At(c, ref).type = "video", NEW trim \in Int, trim = Given(At(c, ref).trim, 0),
           NEW i \in Shown(ref),
           NEW o, o = Segments(c)[i].from - From(c, ref)
    PROVE  /\ o \in Int /\ -Epsilon <= o
           /\ i - 1 \notin Shown(ref) => o <= Epsilon
           /\ \/ StartsAt(i, ref) = Micro(trim + o)
              \/ StartsAt(i, ref) = 0 /\ trim = 0 /\ o <= Epsilon
           /\ \A cut \in CutOf(i, ref) : cut.to = Micro(trim + At(c, ref).length)
<1> DEFINE s == Segments(c)
           f == From(c, ref)
           t == To(c, ref)
           length == At(c, ref).length
           cut == [from |-> Micro(trim + o), to |-> Micro(trim + o + length - o)]
<1>1. f \in Nat /\ t \in Nat /\ length \in Nat /\ f = At(c, ref).start
  BY VisualTimes DEF Visual, From
<1>2. /\ Shown(ref) = {k \in DOMAIN s : Covers(s, k, f, t)}
      /\ CutOf(i, ref) = Cut(c, ref, s[i].from)
  BY ShownWhere
<1>3. i \in DOMAIN s /\ Covers(s, i, f, t)
  BY <1>2
<1>4. s[i].from \in Nat
  BY <1>3, SegmentsChain, BoundariesKeep DEF Chained, Keeps
<1>5. /\ f <= s[i].from + Epsilon
      /\ i - 1 \notin Shown(ref) => s[i].from <= f + Epsilon
  BY <1>2, <1>3, SegmentsChain, ClipEnds DEF Covers
<1>6. o = s[i].from - f
  OBVIOUS
<1>7. At(c, ref).trim = {} => trim = 0
  BY DEF Given
<1> HIDE DEF s, f, t
<1>8. o \in Int /\ -Epsilon <= o /\ (i - 1 \notin Shown(ref) => o <= Epsilon)
  BY <1>1, <1>4, <1>5, <1>6 DEF Epsilon
<1>9. CASE At(c, ref).trim # {} \/ o > Epsilon
  <2>1. CutOf(i, ref) = {cut}
    BY <1>1, <1>2, <1>6, <1>9 DEF Cut
  <2>2. {x.from : x \in {cut}} = {Micro(trim + o)}
    OBVIOUS
  <2>3. StartsAt(i, ref) = Micro(trim + o)
    BY <2>1, <2>2, GivenOne DEF StartsAt
  <2>4. trim + o + length - o = trim + length
    BY <1>1, <1>8
  <2>5. \A x \in CutOf(i, ref) : x.to = Micro(trim + length)
    BY <2>1, <2>4
  <2>6. QED
    BY <1>8, <2>3, <2>5
<1>10. CASE ~(At(c, ref).trim # {} \/ o > Epsilon)
  <2>1. CutOf(i, ref) = {}
    BY <1>1, <1>2, <1>6, <1>10 DEF Cut
  <2>2. StartsAt(i, ref) = 0
    BY <2>1 DEF StartsAt, Given
  <2>3. o <= Epsilon
    BY <1>8, <1>10 DEF Epsilon
  <2>4. QED
    BY <1>7, <1>8, <1>10, <2>1, <2>2, <2>3
<1>11. QED
  BY <1>9, <1>10

\* A video starts at its trim, goes on as far as the timeline does, and is cut at its
\* end.
LEMMA VideoPlays ==
    ASSUME NEW c, WellTimed(c), spec = EditlySpec(c), NEW ref \in Visual(c),
           At(c, ref).type = "video", NEW begin \in Int, begin = Given(At(c, ref).trim, 0),
           NEW i \in Shown(ref)
    PROVE  /\ i - 1 \in Shown(ref) \/ Near(4 * StartsAt(i, ref), begin, Epsilon + 2)
           /\ i + 1 \in Shown(ref) =>
                  Near(StartsAt(i + 1, ref), StartsAt(i, ref) + spec.clips[i].duration, 2)
           /\ \A cut \in CutOf(i, ref) : Near(4 * cut.to, begin + At(c, ref).length, 2)
<1> DEFINE s == Segments(c)
           f == From(c, ref)
           t == To(c, ref)
           j == i + 1
<1>1. f \in Nat /\ At(c, ref).length \in Nat
  BY VisualTimes DEF Visual
<1>2. Shown(ref) = {k \in DOMAIN s : Covers(s, k, f, t)}
  BY ShownWhere
<1>3. PICK o : o = s[i].from - f
  OBVIOUS
<1>4. /\ o \in Int /\ -Epsilon <= o
      /\ i - 1 \notin Shown(ref) => o <= Epsilon
      /\ \/ StartsAt(i, ref) = Micro(begin + o)
         \/ StartsAt(i, ref) = 0 /\ begin = 0 /\ o <= Epsilon
      /\ \A cut \in CutOf(i, ref) : cut.to = Micro(begin + At(c, ref).length)
  BY <1>3, VideoIsCut
<1>5. PICK mo \in Int :
          mo = Micro(begin + o) /\ (begin + o) - 2 <= 4 * mo /\ 4 * mo <= (begin + o) + 2
  <2>1. begin + o \in Int
    BY <1>4
  <2>2. QED
    BY <2>1, MicroRounds
<1>6. PICK at \in Int : /\ at = StartsAt(i, ref)
                        /\ at = mo \/ (at = 0 /\ begin = 0 /\ o <= Epsilon)
  BY <1>4, <1>5
<1>7. i - 1 \in Shown(ref) \/ Near(4 * StartsAt(i, ref), begin, Epsilon + 2)
  BY <1>4, <1>5, <1>6 DEF Near, Epsilon
<1>8. ASSUME NEW cut \in CutOf(i, ref) PROVE Near(4 * cut.to, begin + At(c, ref).length, 2)
  <2>1. PICK end \in Int : end = begin + At(c, ref).length
    BY <1>1
  <2>2. Micro(end) \in Int /\ end - 2 <= 4 * Micro(end) /\ 4 * Micro(end) <= end + 2
    BY <2>1, MicroRounds
  <2>3. cut.to = Micro(end)
    BY <1>4, <2>1
  <2>4. QED
    BY <2>1, <2>2, <2>3 DEF Near
<1>9. ASSUME j \in Shown(ref)
      PROVE  Near(StartsAt(j, ref), StartsAt(i, ref) + spec.clips[i].duration, 2)
  <2>1. /\ i \in DOMAIN s /\ j \in DOMAIN s /\ Covers(s, i, f, t)
    BY <1>2, <1>9
  <2>2. /\ s[i].from \in Nat /\ s[i].to \in Nat /\ s[j].from = s[i].to
    BY <2>1, SegmentsChain, BoundariesKeep DEF Chained, Keeps
  <2>3. spec.clips[i].duration = Micro(s[i].to - s[i].from)
    BY <2>1, EditlyClips
  <2>4. f < s[i].to - Epsilon
    BY <2>1 DEF Covers
  <2>5. PICK p : p = s[j].from - f
    OBVIOUS
  <2>6. \/ StartsAt(j, ref) = Micro(begin + p)
        \/ StartsAt(j, ref) = 0 /\ begin = 0 /\ p <= Epsilon
    BY <1>9, <2>5, VideoIsCut
  <2>7. PICK d \in Int : d = s[i].to - s[i].from
    BY <2>2
  <2> HIDE DEF s, f, t, j
  <2>8. p \in Int /\ p > Epsilon /\ d = p - o
    BY <1>1, <1>3, <2>2, <2>4, <2>5, <2>7 DEF Epsilon
  <2>9. PICK mp, md \in Int :
            /\ mp = Micro(begin + p) /\ (begin + p) - 2 <= 4 * mp /\ 4 * mp <= (begin + p) + 2
            /\ md = Micro(d) /\ d - 2 <= 4 * md /\ 4 * md <= d + 2
    <3>1. begin + p \in Int
      BY <2>8
    <3>2. QED
      BY <2>7, <3>1, MicroRounds
  <2>10. StartsAt(j, ref) = mp /\ spec.clips[i].duration = md
    BY <2>3, <2>6, <2>7, <2>8, <2>9 DEF Epsilon
  <2>11. mp - at - md <= 2 /\ -2 <= mp - at - md
    BY <1>4, <1>5, <1>6, <2>8, <2>9 DEF Epsilon
  <2>12. QED
    BY <1>6, <2>9, <2>10, <2>11 DEF Near
<1>10. QED
  BY <1>7, <1>8, <1>9 DEF j

\* Each segment has one transition at most.
LEMMA OneTransition ==
    ASSUME NEW c, WellTimed(c), TransitionsFit(c), NEW v, v = EditlySpec(c),
           NEW i \in DOMAIN v.clips
    PROVE  Cardinality(v.clips[i].transition) <= 1
<1>1. v.clips[i].transition
          = {p \in Plans(c) : Micro(p.boundary) = Micro(Segments(c)[i].to)}
  BY EditlyClips
<1>2. \A p, q \in v.clips[i].transition : p = q
  BY <1>1 DEF TransitionsFit
<1>3. CASE v.clips[i].transition = {}
  BY <1>3, FS_EmptySet
<1>4. CASE v.clips[i].transition # {}
  <2>1. PICK p : v.clips[i].transition = {p}
    BY <1>2, <1>4
  <2>2. QED
    BY <2>1, FS_Singleton
<1>5. QED
  BY <1>3, <1>4

-----------------------------------------------------------------------------
(* Where the transitions of Editly are.                                       *)

\* Times that are apart by more than the noise are not rounded to the same one.
LEMMA MicroApart ==
    ASSUME NEW x \in Nat, NEW y \in Nat, x + Epsilon < y
    PROVE  Micro(x) # Micro(y)
<1>1. /\ Micro(x) \in Int /\ 4 * Micro(x) <= x + 2
      /\ Micro(y) \in Int /\ y - 2 <= 4 * Micro(y)
  BY MicroRounds
<1>2. QED
  BY <1>1 DEF Epsilon

\* Two segments do not end at times that are rounded to the same one.
LEMMA EndsApart ==
    ASSUME NEW c, WellTimed(c), NEW k \in Boundaries(c), NEW l \in Boundaries(c),
           Micro(k) = Micro(l)
    PROVE  k = l
<1>1. /\ Boundaries(c) \in SUBSET Nat
      /\ \A a, b \in Boundaries(c) : a < b => a + Epsilon < b
  BY BoundariesKeep DEF Keeps
<1>2. k \in Nat /\ l \in Nat
  BY <1>1
<1>3. ~(k < l) /\ ~(l < k)
  BY <1>1, <1>2, MicroApart
<1>4. QED
  BY <1>2, <1>3

\* A transition is planned for one boundary, and is on the segment that ends there.
OnSegments(v, ref, t) ==
    {i \in DOMAIN v.clips : \E p \in v.clips[i].transition :
                               p.ref = ref /\ p.duration = t.duration}

PlanOf(c, ref, t) ==
    [boundary |-> Boundary(c, ref, t), ref |-> ref, duration |-> t.duration]

LEMMA PlannedOnce ==
    ASSUME NEW c, NEW ref \in Visual(c), NEW t \in At(c, ref).transition,
           \A u, w \in At(c, ref).transition : u = w
    PROVE  \A p : p \in Plans(c) /\ p.ref = ref <=>
                      p = PlanOf(c, ref, t) /\ Plannable(c, ref, t)
<1>1. ASSUME NEW p \in Plans(c), p.ref = ref
      PROVE  p = PlanOf(c, ref, t) /\ Plannable(c, ref, t)
  <2>1. PICK r \in Visual(c) :
            p \in {PlanOf(c, r, u) : u \in {w \in At(c, r).transition : Plannable(c, r, w)}}
    BY <1>1 DEF Plans, PlanOf
  <2>2. PICK u \in At(c, r).transition : Plannable(c, r, u) /\ p = PlanOf(c, r, u)
    BY <2>1
  <2>3. r = ref
    BY <1>1, <2>2 DEF PlanOf
  <2>4. QED
    BY <2>2, <2>3
<1>2. ASSUME Plannable(c, ref, t)
      PROVE  PlanOf(c, ref, t) \in Plans(c) /\ PlanOf(c, ref, t).ref = ref
  BY <1>2 DEF Plans, PlanOf
<1>3. QED
  BY <1>1, <1>2

LEMMA LandsWhere ==
    ASSUME NEW c, WellTimed(c), NEW v, v = EditlySpec(c), NEW s, s = Segments(c),
           NEW ref \in Visual(c), NEW t \in At(c, ref).transition,
           \A u, w \in At(c, ref).transition : u = w
    PROVE  OnSegments(v, ref, t)
               = {i \in DOMAIN s : /\ Plannable(c, ref, t)
                                   /\ Micro(s[i].to) = Micro(Boundary(c, ref, t))}
<1>1. /\ DOMAIN v.clips = DOMAIN s
      /\ \A i \in DOMAIN s : v.clips[i].transition =
             {p \in Plans(c) : Micro(p.boundary) = Micro(s[i].to)}
  BY EditlyClips
<1>2. \A p : p \in Plans(c) /\ p.ref = ref <=>
                 p = PlanOf(c, ref, t) /\ Plannable(c, ref, t)
  BY PlannedOnce
<1>3. PlanOf(c, ref, t).duration = t.duration /\ PlanOf(c, ref, t).ref = ref
      /\ PlanOf(c, ref, t).boundary = Boundary(c, ref, t)
  BY DEF PlanOf
<1>4. ASSUME NEW i \in DOMAIN s
      PROVE  (\E p \in v.clips[i].transition : p.ref = ref /\ p.duration = t.duration)
                 <=> Plannable(c, ref, t) /\ Micro(s[i].to) = Micro(Boundary(c, ref, t))
  <2>1. ASSUME NEW p \in v.clips[i].transition, p.ref = ref
        PROVE  Plannable(c, ref, t) /\ Micro(s[i].to) = Micro(Boundary(c, ref, t))
    <3>1. p \in Plans(c) /\ Micro(p.boundary) = Micro(s[i].to)
      BY <1>1, <2>1
    <3>2. p = PlanOf(c, ref, t) /\ Plannable(c, ref, t)
      BY <1>2, <2>1, <3>1
    <3>3. QED
      BY <1>3, <3>1, <3>2
  <2>2. ASSUME Plannable(c, ref, t), Micro(s[i].to) = Micro(Boundary(c, ref, t))
        PROVE  PlanOf(c, ref, t) \in v.clips[i].transition
    BY <1>1, <1>2, <1>3, <2>2
  <2>3. QED
    BY <1>3, <2>1, <2>2
<1>5. QED
  BY <1>1, <1>4 DEF OnSegments

\* A transition whose boundary survives is on the one segment that ends there; where
\* it is the boundary of a clip that is longer than the noise, the clip is shown.
LEMMA TransitionLands ==
    ASSUME NEW c, WellTimed(c), spec = EditlySpec(c), NEW s, s = Segments(c),
           NEW ref \in Visual(c), NEW t \in At(c, ref).transition,
           \A u, w \in At(c, ref).transition : u = w,
           Plannable(c, ref, t), NEW b, b = Boundary(c, ref, t),
           NEW k \in Boundaries(c), k > 0, Micro(k) = Micro(b)
    PROVE  \E i \in DOMAIN s :
               /\ OnSegments(spec, ref, t) = {i}
               /\ (b \in Boundaries(c) /\ At(c, ref).length > Epsilon) =>
                      (IF Placement(t.name) = "in" THEN i + 1 ELSE i) \in Shown(ref)
<1> DEFINE K == Boundaries(c)
           f == From(c, ref)
           e == To(c, ref)
<1>1. /\ K \in SUBSET Nat /\ 0 \in K
      /\ \A x \in Cuts(c) : \E l \in K : l <= x /\ x <= l + Epsilon
  BY BoundariesKeep DEF Keeps
<1>2. Chained(c, s)
  BY SegmentsChain
<1>3. /\ DOMAIN s = 1..Len(s) /\ Len(s) \in Nat
      /\ \A i \in DOMAIN s : s[i].from \in K /\ s[i].to \in K /\ s[i].from + Epsilon < s[i].to
      /\ \A i, j \in DOMAIN s : i < j <=> s[i].from < s[j].from
      /\ \A i, j \in DOMAIN s : j = i + 1 => s[j].from = s[i].to
      /\ \A x \in K : (\E l \in K : x < l) => \E i \in DOMAIN s : s[i].from = x
      /\ \A x \in K : (\E l \in K : l < x) => \E i \in DOMAIN s : s[i].to = x
  BY <1>2 DEF Chained
<1>4. PICK i \in DOMAIN s : s[i].to = k
  BY <1>1, <1>3
<1>5. \A j \in DOMAIN s : Micro(s[j].to) = Micro(b) => j = i
  <2>1. TAKE j \in DOMAIN s
  <2>2. HAVE Micro(s[j].to) = Micro(b)
  <2>3. s[j].to = k
    BY <1>3, <2>2, EndsApart
  <2>4. SUFFICES ASSUME j # i PROVE FALSE
    OBVIOUS
  <2>5. /\ s[i].from \in Nat /\ s[j].from \in Nat /\ k \in Nat
        /\ s[i].from < k /\ s[j].from < k
        /\ ~(s[i].from < s[j].from /\ s[j].from < k)
        /\ ~(s[j].from < s[i].from /\ s[i].from < k)
    <3>1. /\ s[i].from \in K /\ s[j].from \in K
          /\ s[i].from + Epsilon < k /\ s[j].from + Epsilon < k
      BY <1>3, <1>4, <2>3
    <3>2. s[i].from \in Nat /\ s[j].from \in Nat /\ k \in Nat
      BY <1>1, <3>1
    <3>3. /\ ~\E l \in K : s[i].from < l /\ l < s[i].to
          /\ ~\E l \in K : s[j].from < l /\ l < s[j].to
      BY <1>2 DEF Chained
    <3>4. QED
      BY <1>4, <2>3, <3>1, <3>2, <3>3 DEF Epsilon
  <2>6. ~(i < j) /\ ~(j < i)
    BY <1>3, <2>5
  <2>7. QED
    BY <1>3, <2>4, <2>6
<1>6. OnSegments(spec, ref, t) = {i}
  <2>1. OnSegments(spec, ref, t)
            = {j \in DOMAIN s : Plannable(c, ref, t) /\ Micro(s[j].to) = Micro(b)}
    BY LandsWhere
  <2>2. QED
    BY <1>4, <1>5, <2>1
<1>7. /\ f \in Nat /\ e \in Nat /\ At(c, ref).length \in Nat
      /\ e = f + At(c, ref).length
      /\ Shown(ref) = {j \in DOMAIN s : Covers(s, j, f, e)}
  <2>1. ref \in Refs(c)
    BY DEF Visual
  <2>2. QED
    BY <2>1, VisualTimes, ShownWhere
<1>8. b = IF Placement(t.name) = "in" THEN f ELSE e
  BY DEF Boundary
<1>9. e \in Cuts(c)
  BY DEF Cuts
<1> HIDE DEF K, f, e
<1>10. ASSUME b \in K, At(c, ref).length > Epsilon
       PROVE  (IF Placement(t.name) = "in" THEN i + 1 ELSE i) \in Shown(ref)
  <2>1. b = k
    BY <1>10, EndsApart DEF K
  <2>2. s[i].to = b /\ s[i].from \in Nat /\ s[i].from + Epsilon < s[i].to
    BY <1>1, <1>3, <1>4, <2>1
  <2>3. CASE Placement(t.name) = "in"
    <3>1. b = f
      BY <1>8, <2>3
    <3>2. PICK l \in K : l <= e /\ e <= l + Epsilon
      BY <1>1, <1>9
    <3>3. b < l
      BY <1>1, <1>7, <1>10, <3>1, <3>2 DEF Epsilon
    <3>4. PICK j \in DOMAIN s : s[j].from = b
      BY <1>3, <1>10, <3>3
    <3>5. i < j
      BY <1>3, <1>7, <2>2, <3>1, <3>4 DEF Epsilon
    <3>6. i + 1 \in DOMAIN s
      BY <1>3, <3>5
    <3>7. s[i + 1].from = f
      BY <1>3, <2>2, <3>1, <3>6
    <3>8. s[i + 1].from + Epsilon < s[i + 1].to /\ s[i + 1].to \in Nat
      BY <1>1, <1>3, <3>6
    <3>9. Covers(s, i + 1, f, e)
      BY <1>7, <1>10, <3>7, <3>8 DEF Covers, Epsilon
    <3>10. QED
      BY <1>7, <2>3, <3>6, <3>9
  <2>4. CASE Placement(t.name) # "in"
    <3>1. b = e
      BY <1>8, <2>4
    <3>2. Covers(s, i, f, e)
      BY <1>7, <1>10, <2>2, <3>1 DEF Covers, Epsilon
    <3>3. QED
      BY <1>7, <2>4, <3>2
  <2>5. QED
    BY <2>3, <2>4
<1>11. QED
  BY <1>6, <1>10 DEF K

\* The only transitions that are not planned are fade-ins at the start.
LEMMA OthersPlannable ==
    ASSUME NEW c, TransitionsFit(c), NEW ref \in Visual(c),
           NEW t \in At(c, ref).transition, Placement(t.name) # "in"
    PROVE  Plannable(c, ref, t)
<1>1. Placement(t.name) \in {"in", "out", "between"}
  BY DEF Placement
<1>2. Placement(t.name) = "between" => BetweenFits(c, ref, t)
  BY DEF TransitionsFit
<1>3. CASE Placement(t.name) = "out"
  BY <1>3 DEF Plannable
<1>4. CASE Placement(t.name) = "between"
  BY <1>2, <1>4 DEF Plannable
<1>5. QED
  BY <1>1, <1>3, <1>4

-----------------------------------------------------------------------------
(* What was compiled is what is rendered.                                     *)

Compiling ==
    pc \in {"render", "finish", "poster"} =>
        /\ ~Refuses(Selected(composition), composition, Fetchable)
        /\ spec = Compiled(Selected(composition), composition)

\* From the compilation to the poster nothing changes the composition or what was
\* made of it.
LEMMA CompilingInvariant == Spec => []Compiling
<1>1. Init => Compiling
  BY DEF Init, Compiling
<1>2. Compiling /\ [Next]_vars => Compiling'
  <2>1. SUFFICES ASSUME Compiling, [Next]_vars PROVE Compiling'
    OBVIOUS
  <2>2. CASE UNCHANGED vars
    BY <2>1, <2>2 DEF Compiling, vars
  <2>3. CASE \/ Tick \/ Arrive \/ TooLarge \/ BodyReceived \/ Limited \/ Passed
             \/ Unauthorized \/ Authorized \/ Unreadable \/ Readable \/ Rejected \/ Accepted
             \/ Reload \/ Expand \/ CompileFails \/ Poster
    <3>1. pc' \in {"idle", "body", "rate", "key", "read", "check", "stored", "expand", "compile"}
      BY <2>3 DEF Tick, Arrive, TooLarge, BodyReceived, Limited, Passed, Unauthorized,
                  Authorized, Unreadable, Readable, Rejected, Accepted, Reload, Expand,
                  CompileFails, Poster, Go, End
    <3>2. QED
      BY <3>1 DEF Compiling
  <2>4. CASE Compile
    <3>1. /\ composition' = composition
          /\ ~Refuses(Selected(composition), composition, Fetchable)
          /\ spec' = Compiled(Selected(composition), composition)
      BY <2>4 DEF Compile
    <3>2. QED
      BY <3>1 DEF Compiling
  <2>5. CASE Render \/ Finish
    <3>1. /\ pc \in {"render", "finish"}
          /\ composition' = composition /\ spec' = spec
      BY <2>5 DEF Render, Finish, Go, End, work
    <3>2. QED
      BY <2>1, <3>1 DEF Compiling
  <2>6. QED
    BY <2>1, <2>2, <2>3, <2>4, <2>5 DEF Next, Done
<1>3. QED
  BY <1>1, <1>2, PTL DEF Spec

\* What is known of the composition that Editly renders.
LEMMA RenderedByEditly ==
    ASSUME Carried, Compiling, EditlyDone
    PROVE  /\ WellTimed(composition) /\ TransitionsFit(composition)
           /\ spec = EditlySpec(composition)
           /\ \A ref \in Refs(composition) :
                  /\ Given(At(composition, ref).trim, 0) \in Int
                  /\ \A t, u \in At(composition, ref).transition : t = u
<1>1. /\ request.body \in Posted /\ Reads(request.body)
      /\ composition = Read(request.body)
  BY DEF Carried, EditlyDone, WasRead, Request
<1>2. ~EditlyRefuses(composition) /\ spec = EditlySpec(composition)
  BY DEF Compiling, EditlyDone, Refuses, Compiled
<1>3. QED
  BY <1>1, <1>2, ReadIsWellTimed, ReadClipFields DEF EditlyRefuses

\* For any composition: Editly's segments show each of its clips in one piece and for
\* its length, and start and end its videos where the timeline has got to in them and
\* where the clip ends (compile_editly_spec, map_video_layer).
THEOREM ClipsAreShownThrough == Spec => []ClipsPlayThrough
<1>1. ASSUME Carried, Compiling PROVE ClipsPlayThrough
  <2>1. SUFFICES ASSUME EditlyDone, NEW ref \in Visual(composition),
                        NEW clip, clip = At(composition, ref),
                        NEW begin, begin = Given(clip.trim, 0)
                 PROVE  /\ Shown(ref) = {} \/ Shown(ref) = Min(Shown(ref))..Max(Shown(ref))
                        /\ Near(4 * ShownFor(ref), clip.length,
                                2 * Epsilon + 2 * Cardinality(Shown(ref)))
                        /\ clip.type = "video" => \A i \in Shown(ref) :
                               /\ \/ i - 1 \in Shown(ref)
                                  \/ Near(4 * StartsAt(i, ref), begin, Epsilon + 2)
                               /\ i + 1 \in Shown(ref) =>
                                      Near(StartsAt(i + 1, ref),
                                           StartsAt(i, ref) + spec.clips[i].duration, 2)
                               /\ \A cut \in CutOf(i, ref) :
                                      Near(4 * cut.to, begin + clip.length, 2)
    BY DEF ClipsPlayThrough
  <2>2. WellTimed(composition) /\ spec = EditlySpec(composition) /\ begin \in Int
    BY <1>1, <2>1, RenderedByEditly DEF Visual
  <2>3. /\ Shown(ref) = {} \/ Shown(ref) = Min(Shown(ref))..Max(Shown(ref))
        /\ Near(4 * ShownFor(ref), clip.length, 2 * Epsilon + 2 * Cardinality(Shown(ref)))
    BY <2>1, <2>2, ShownThrough
  <2>4. ASSUME clip.type = "video", NEW i \in Shown(ref)
        PROVE  /\ i - 1 \in Shown(ref) \/ Near(4 * StartsAt(i, ref), begin, Epsilon + 2)
               /\ i + 1 \in Shown(ref) =>
                      Near(StartsAt(i + 1, ref),
                           StartsAt(i, ref) + spec.clips[i].duration, 2)
               /\ \A cut \in CutOf(i, ref) : Near(4 * cut.to, begin + clip.length, 2)
    BY <2>1, <2>2, <2>4, VideoPlays
  <2>5. QED
    BY <2>3, <2>4
<1>2. QED
  BY <1>1, CarriedInvariant, CompilingInvariant, PTL

\* For any composition: each of its transitions is on the segment that ends at its
\* boundary and on no other one, no segment has two, and the clip is shown on its side
\* of the boundary (plan_transitions, transitions_by_boundary).
THEOREM TransitionsAreWherePlanned == Spec => []TransitionsLand
<1>1. ASSUME Carried, Compiling, EditlyDone PROVE TransitionsLand
  <2> DEFINE c == composition
             s == Segments(c)
  <2>1. /\ WellTimed(c) /\ TransitionsFit(c) /\ spec = EditlySpec(c)
        /\ \A ref \in Refs(c) : \A t, u \in At(c, ref).transition : t = u
    BY <1>1, RenderedByEditly
  <2>2. \A i \in DOMAIN spec.clips : Cardinality(spec.clips[i].transition) <= 1
    BY <2>1, OneTransition
  <2>3. ASSUME NEW ref \in Visual(c), NEW t \in At(c, ref).transition
        PROVE  LET on == OnSegments(spec, ref, t)
                   b  == Boundary(c, ref, t)
               IN IF Plannable(c, ref, t) /\ Survives(b)
                  THEN \E i \in on :
                          /\ on = {i}
                          /\ (/\ b \in Boundaries(c)
                              /\ At(c, ref).length > Epsilon) =>
                                 (IF Placement(t.name) = "in" THEN i + 1 ELSE i) \in Shown(ref)
                  ELSE /\ on = {}
                       /\ Placement(t.name) # "in" => ~Survives(b)
    <3> DEFINE on == OnSegments(spec, ref, t)
               b  == Boundary(c, ref, t)
    <3>1. \A u, w \in At(c, ref).transition : u = w
      BY <2>1 DEF Visual
    <3>2. CASE Plannable(c, ref, t) /\ Survives(b)
      <4>1. PICK k \in Boundaries(c) : k > 0 /\ Micro(k) = Micro(b)
        BY <3>2 DEF Survives
      <4>2. PICK i \in DOMAIN s :
                /\ on = {i}
                /\ (b \in Boundaries(c) /\ At(c, ref).length > Epsilon) =>
                       (IF Placement(t.name) = "in" THEN i + 1 ELSE i) \in Shown(ref)
        BY <2>1, <3>1, <3>2, <4>1, TransitionLands
      <4> HIDE DEF on, b, s, c
      <4>3. i \in on
        BY <4>2
      <4>4. QED
        BY <3>2, <4>2, <4>3 DEF on, b
    <3>3. CASE ~(Plannable(c, ref, t) /\ Survives(b))
      <4>1. on = {i \in DOMAIN s : Plannable(c, ref, t) /\ Micro(s[i].to) = Micro(b)}
        BY <2>1, <3>1, LandsWhere
      <4>2. \A i \in DOMAIN s : s[i].to \in Boundaries(c) /\ s[i].to > 0
        <5>1. TAKE i \in DOMAIN s
        <5>2. Chained(c, s) /\ Boundaries(c) \in SUBSET Nat
          BY <2>1, SegmentsChain, BoundariesKeep DEF Keeps
        <5>3. /\ s[i].to \in Boundaries(c) /\ s[i].from \in Boundaries(c)
              /\ s[i].from + Epsilon < s[i].to
          BY <5>2 DEF Chained
        <5>4. s[i].to \in Nat /\ s[i].from \in Nat
          BY <5>2, <5>3
        <5>5. QED
          BY <5>3, <5>4 DEF Epsilon
      <4>3. on = {}
        BY <3>3, <4>1, <4>2 DEF Survives
      <4>4. Placement(t.name) # "in" => ~Survives(b)
        BY <2>1, <3>3, OthersPlannable
      <4> HIDE DEF on, b, s, c
      <4>5. QED
        BY <3>3, <4>3, <4>4 DEF on, b
    <3>4. QED
      BY <3>2, <3>3
  <2>4. QED
    BY <2>2, <2>3 DEF TransitionsLand, OnSegments
<1>2. ASSUME ~EditlyDone PROVE TransitionsLand
  BY <1>2 DEF TransitionsLand
<1>3. Carried /\ Compiling => TransitionsLand
  BY <1>1, <1>2
<1>4. QED
  BY <1>3, CarriedInvariant, CompilingInvariant, PTL

-----------------------------------------------------------------------------
(* Editly and the native renderer on the same timeline.                       *)

\* The visual clips in the order of their starts, and those listed before others.
LEMMA InOrderOrders ==
    ASSUME NEW c, WellTimed(c), NEW order, order = InOrder(c)
    PROVE  /\ DOMAIN order = 1..Len(order) /\ Len(order) \in Nat
           /\ \A k \in DOMAIN order : order[k] \in Visual(c)
           /\ \A x \in Visual(c) : \E k \in DOMAIN order : order[k] = x
           /\ \A i, j \in DOMAIN order : i < j <=> StartsBefore(c, order[i], order[j])
<1> DEFINE V == Visual(c)
           R == {p \in V \X V : StartsBefore(c, p[1], p[2])}
<1>1. IsFiniteSet(V) /\ V \in SUBSET (Nat \X Nat)
  BY VisualTimes
<1>2. \A a \in V : Micro(From(c, a)) \in Int
  <2>1. TAKE a \in V
  <2>2. a \in Refs(c)
    BY DEF Visual
  <2>3. From(c, a) \in Int
    BY <2>2, VisualTimes
  <2>4. QED
    BY <2>3, MicroRounds
<1>3. order = InSequence(V, R)
  BY DEF InOrder
<1>4. \A a, b \in V : <<a, b>> \in R <=> StartsBefore(c, a, b)
  OBVIOUS
<1>5. StrictOrder(V, R)
  BY <1>1, <1>2, StartOrder
<1> HIDE DEF V, R
<1>6. /\ DOMAIN order = 1..Len(order) /\ Len(order) \in Nat
      /\ \A k \in DOMAIN order : order[k] \in V
      /\ \A x \in V : \E k \in DOMAIN order : order[k] = x
      /\ \A i, j \in DOMAIN order : i < j <=> <<order[i], order[j]>> \in R
  BY <1>1, <1>3, <1>5, Sequenced
<1>7. \A i, j \in DOMAIN order : i < j <=> StartsBefore(c, order[i], order[j])
  BY <1>4, <1>6
<1>8. QED
  BY <1>6, <1>7 DEF V

\* The layers of the native renderer: the visual clips are there for as long as they
\* last, in the order of their starts, and nothing else.
LayersInOrder(c, layers) ==
    /\ \A l \in ToSet(layers) :
           l.ref \in Visual(c) /\ l.from = From(c, l.ref) /\ l.to = To(c, l.ref)
    /\ \A ref \in Visual(c) : \E l \in ToSet(layers) : l.ref = ref
    /\ \A a, b \in Visual(c) : Over(layers, a, b) <=> StartsBefore(c, b, a)

LEMMA NativeOrders ==
    ASSUME NEW c, WellTimed(c)
    PROVE  LayersInOrder(c, NativeSpec(c).layers)
<1> DEFINE order == InOrder(c)
           layers == NativeSpec(c).layers
<1>1. /\ DOMAIN order = 1..Len(order) /\ Len(order) \in Nat
      /\ \A k \in DOMAIN order : order[k] \in Visual(c)
      /\ \A x \in Visual(c) : \E k \in DOMAIN order : order[k] = x
      /\ \A i, j \in DOMAIN order : i < j <=> StartsBefore(c, order[i], order[j])
  BY InOrderOrders
<1>2. layers = [i \in DOMAIN order |-> NativeLayer(c, order[i])]
  BY DEF NativeSpec
<1> HIDE DEF order, layers
<1>3. /\ DOMAIN layers = DOMAIN order
      /\ \A i \in DOMAIN order : /\ layers[i].ref = order[i]
                                 /\ layers[i].from = From(c, order[i])
                                 /\ layers[i].to = To(c, order[i])
  BY <1>2 DEF NativeLayer
<1>4. \A l \in ToSet(layers) :
          l.ref \in Visual(c) /\ l.from = From(c, l.ref) /\ l.to = To(c, l.ref)
  BY <1>1, <1>3 DEF ToSet
<1>5. \A ref \in Visual(c) : \E l \in ToSet(layers) : l.ref = ref
  BY <1>1, <1>3 DEF ToSet
<1>6. ASSUME NEW a \in Visual(c), NEW b \in Visual(c)
      PROVE  Over(layers, a, b) <=> StartsBefore(c, b, a)
  <2>1. ASSUME Over(layers, a, b) PROVE StartsBefore(c, b, a)
    <3>1. PICK i, j \in DOMAIN order : i < j /\ order[i] = b /\ order[j] = a
      BY <1>3, <2>1 DEF Over
    <3>2. QED
      BY <1>1, <3>1
  <2>2. ASSUME StartsBefore(c, b, a) PROVE Over(layers, a, b)
    <3>1. PICK i, j \in DOMAIN order : order[i] = b /\ order[j] = a
      BY <1>1
    <3>2. i < j
      BY <1>1, <2>2, <3>1
    <3>3. QED
      BY <1>3, <3>1, <3>2 DEF Over
  <2>3. QED
    BY <2>1, <2>2
<1>7. QED
  BY <1>4, <1>5, <1>6 DEF LayersInOrder, layers

\* At the middle of a segment that is longer than the noise, a clip is there when the
\* segment has it as a layer.
LEMMA MiddleCovered ==
    ASSUME NEW c, WellTimed(c), NEW s, s = Segments(c), NEW i \in DOMAIN s,
           s[i].to - s[i].from > 2 * Epsilon, NEW ref \in Visual(c),
           NEW moment, moment = (s[i].from + s[i].to) \div 2
    PROVE  Covers(s, i, From(c, ref), To(c, ref))
               <=> From(c, ref) <= moment /\ moment < To(c, ref)
<1>1. PICK f, t, a, b \in Nat : /\ f = From(c, ref) /\ t = To(c, ref)
                                /\ a = s[i].from /\ b = s[i].to
  <2>1. From(c, ref) \in Nat /\ To(c, ref) \in Nat
    BY VisualTimes DEF Visual
  <2>2. s[i].from \in Nat /\ s[i].to \in Nat
    BY SegmentsChain, BoundariesKeep DEF Chained, Keeps
  <2>3. QED
    BY <2>1, <2>2
<1>2. /\ f < b - Epsilon => f <= a + Epsilon
      /\ t > a + Epsilon => b <= t
  BY <1>1, SegmentsChain, ClipEnds
<1>3. moment \in Int /\ a + Epsilon <= moment /\ moment < b - Epsilon
  <2>1. b - a > 8
    BY <1>1 DEF Epsilon
  <2>2. moment = (a + b) \div 2
    BY <1>1
  <2>3. moment \in Int /\ 2 * moment <= a + b /\ a + b <= 2 * moment + 1
    BY <1>1, <2>2
  <2>4. QED
    BY <1>1, <2>1, <2>3 DEF Epsilon
<1>4. (f < b - Epsilon /\ t > a + Epsilon) <=> (f <= moment /\ moment < t)
  BY <1>1, <1>2, <1>3 DEF Epsilon
<1>5. QED
  BY <1>1, <1>4 DEF Covers

\* On a sorted track, listed first is started first.
LEMMA SortedOrders ==
    ASSUME NEW c, WellTimed(c), SortedTracks(c), NEW a \in Visual(c), NEW b \in Visual(c)
    PROVE  ListedBefore(a, b) <=> StartsBefore(c, a, b)
<1>1. a[1] \in Nat /\ a[2] \in Nat /\ b[1] \in Nat /\ b[2] \in Nat
  BY VisualTimes
<1>2. PICK x, y \in Int : x = Micro(From(c, a)) /\ y = Micro(From(c, b))
  <2>1. From(c, a) \in Int /\ From(c, b) \in Int
    <3>1. a \in Refs(c) /\ b \in Refs(c)
      BY DEF Visual
    <3>2. From(c, a) \in Nat /\ From(c, b) \in Nat
      BY <3>1, VisualTimes
    <3>3. QED
      BY <3>2
  <2>2. QED
    BY <2>1, MicroRounds
<1>3. /\ a[1] = b[1] /\ a[2] < b[2] => x <= y
      /\ a[1] = b[1] /\ b[2] < a[2] => y <= x
  BY <1>2 DEF SortedTracks
<1>4. a[1] = b[1] /\ a[2] = b[2] => x = y
  <2>1. a = <<a[1], a[2]>> /\ b = <<b[1], b[2]>>
    BY VisualTimes
  <2>2. QED
    BY <1>2, <2>1
<1>5. QED
  BY <1>1, <1>2, <1>3, <1>4 DEF ListedBefore, StartsBefore

\* For any composition without HTML whose tracks list their clips in the order of
\* their starts: in every segment that is longer than the noise Editly and the native
\* renderer show the same clips, one over the other in the same order (editly's layers,
\* iter_visual_clip_refs and the overlays of ffmpeg-native).
THEOREM RenderersShowTheSame == Spec => []RenderersAgree
<1>1. ASSUME Carried, pc = "render", SortedTracks(composition),
             NEW g \in ToSet(Segments(composition)), g.to - g.from > 2 * Epsilon,
             NEW layers, layers = NativeSpec(composition).layers
      PROVE  LET moment == (g.from + g.to) \div 2
                 editly == Layers(composition, g)
                 shown  == {l.ref : l \in ToSet(editly)}
             IN /\ shown = ShownAt(layers, moment)
                /\ \A a, b \in shown : Over(editly, a, b) <=> Over(layers, a, b)
  <2> DEFINE c == composition
             s == Segments(c)
             moment == (g.from + g.to) \div 2
             editly == Layers(c, g)
             shown  == {l.ref : l \in ToSet(editly)}
  <2>1. WellTimed(c)
    <3>1. /\ request.body \in Posted /\ Reads(request.body) /\ c = Read(request.body)
      BY <1>1 DEF Carried, WasRead, Request
    <3>2. QED
      BY <3>1, ReadIsWellTimed
  <2>2. PICK i \in DOMAIN s : g = s[i]
    BY <1>1 DEF ToSet
  <2>3. g.active = Active(c, g.from, g.to) /\ g.active \in SUBSET Refs(c)
    <3>1. g.active = Active(c, g.from, g.to)
      BY <2>1, <2>2, SegmentsChain DEF Chained
    <3>2. QED
      BY <3>1 DEF Active
  <2>4. /\ \A layer \in ToSet(editly) : layer.ref \in g.active \cap Visual(c)
        /\ \A ref \in g.active \cap Visual(c) : \E layer \in ToSet(editly) : layer.ref = ref
        /\ \A a, b \in g.active \cap Visual(c) : Over(editly, a, b) <=> ListedBefore(b, a)
    BY <2>1, <2>3, LayersShow
  <2>5. LayersInOrder(c, layers)
    BY <1>1, <2>1, NativeOrders
  <2>6. shown = g.active \cap Visual(c)
    BY <2>4
  <2>7. \A ref \in Visual(c) : ref \in g.active <=> From(c, ref) <= moment /\ moment < To(c, ref)
    <3>1. TAKE ref \in Visual(c)
    <3>2. ref \in Refs(c)
      BY DEF Visual
    <3>3. ref \in g.active <=> Covers(s, i, From(c, ref), To(c, ref))
      BY <2>2, <2>3, <3>2 DEF Active, Covers
    <3>4. s[i].to - s[i].from > 2 * Epsilon
      BY <1>1, <2>2
    <3>5. QED
      BY <2>1, <2>2, <3>3, <3>4, MiddleCovered
  <2> HIDE DEF editly, moment, shown, s
  <2>8. shown = ShownAt(layers, moment)
    <3>1. ASSUME NEW ref \in Visual(c)
          PROVE  ref \in ShownAt(layers, moment) <=> From(c, ref) <= moment /\ moment < To(c, ref)
      BY <2>5 DEF LayersInOrder, ShownAt
    <3>2. ShownAt(layers, moment) \in SUBSET Visual(c)
      BY <2>5 DEF LayersInOrder, ShownAt
    <3>3. QED
      BY <2>6, <2>7, <3>1, <3>2
  <2>9. \A a, b \in shown : Over(editly, a, b) <=> Over(layers, a, b)
    BY <1>1, <2>1, <2>4, <2>5, <2>6, SortedOrders DEF LayersInOrder
  <2>10. QED
    BY <2>8, <2>9 DEF editly, moment, shown
<1>2. Carried => RenderersAgree
  BY <1>1 DEF RenderersAgree
<1>3. QED
  BY <1>2, CarriedInvariant, PTL

-----------------------------------------------------------------------------
(* What the stages ask for, of a composition that was accepted.               *)

\* Editly refuses nothing of what the limits let pass, but what hardly lasts.
LEMMA EditlyAccepts ==
    ASSUME NEW c, WellTimed(c), TransitionsFit(c), VisualEnd(c) > Epsilon
    PROVE  ~EditlyRefuses(c)
<1> DEFINE K == Boundaries(c)
<1>1. /\ K \in SUBSET Nat /\ 0 \in K
      /\ \A t \in Cuts(c) : \E k \in K : k <= t /\ t <= k + Epsilon
  BY BoundariesKeep DEF Keeps
<1>2. VisualEnd(c) \in Nat /\ VisualEnd(c) \in Cuts(c)
  BY VisualTimes DEF Cuts
<1>3. PICK k \in K : VisualEnd(c) <= k + Epsilon
  BY <1>1, <1>2
<1>4. k \in Nat /\ 0 < k
  BY <1>1, <1>2, <1>3 DEF Epsilon
<1>5. \E i \in DOMAIN Segments(c) : Segments(c)[i].to = k
  BY <1>1, <1>4, SegmentsChain DEF Chained
<1>6. Segments(c) # << >>
  BY <1>5
<1>7. ~(VisualEnd(c) < Epsilon)
  BY <1>2 DEF Epsilon
<1>8. ~External(c) => ~\E s \in c.soundtrack : s.effect # "none"
  BY DEF External
<1>9. QED
  BY <1>6, <1>7, <1>8 DEF EditlyRefuses

\* A rounding to the thousandth loses half of it at most.
LEMMA RoundedLoses ==
    ASSUME NEW x \in Int
    PROVE  Rounded(x, 1000) \in Int /\ x - 500 <= 1000 * Rounded(x, 1000)
<1> DEFINE q == x \div 1000
           r == x % 1000
           D == Rounded(x, 1000)
<1>1. q \in Int /\ r \in Int /\ 0 <= r /\ r < 1000 /\ x = 1000 * q + r
  OBVIOUS
<1>2. D = IF 2 * r > 1000 \/ (2 * r = 1000 /\ q % 2 = 1) THEN q + 1 ELSE q
  BY DEF Rounded
<1> HIDE DEF q, r, D
<1>3. (D = q /\ r <= 500) \/ D = q + 1
  BY <1>1, <1>2
<1>4. D \in Int /\ x - 500 <= 1000 * D
  BY <1>1, <1>3
<1>5. QED
  BY <1>4 DEF D

\* The video of Editly is said to last as long as its timeline, but for the slack.
LEMMA VideoLasts ==
    ASSUME NEW c, WellTimed(c), Segments(c) # << >>, NEW v, v = EditlySpec(c)
    PROVE  /\ VideoDuration("editly", v) \in Int
           /\ VisualEnd(c) - Slack(c) < VideoDuration("editly", v) * 4000
           /\ VisualEnd(c) \in Nat /\ Slack(c) \in Int
<1> DEFINE s == Segments(c)
           n == Len(s)
           K == Boundaries(c)
           e == Elapsed(v.clips)
           D == VideoDuration("editly", v)
<1>1. /\ K \in SUBSET Nat
      /\ \A t \in Cuts(c) : \E k \in K : k <= t /\ t <= k + Epsilon
  BY BoundariesKeep DEF Keeps
<1>2. VisualEnd(c) \in Nat /\ VisualEnd(c) \in Cuts(c)
  BY VisualTimes DEF Cuts
<1>3. PICK k \in K : VisualEnd(c) <= k + Epsilon
  BY <1>1, <1>2
<1>4. Chained(c, s)
  BY SegmentsChain
<1>5. DOMAIN s = 1..n /\ n \in Nat
  BY <1>4 DEF Chained
<1>6. n # 0
  <2>1. n = 0 => s = << >>
    <3>1. s = [i \in DOMAIN s |-> s[i]]
      BY DEF Segments
    <3>2. HAVE n = 0
    <3>3. DOMAIN s = {}
      BY <1>5, <3>2
    <3> HIDE DEF s
    <3>4. QED
      BY <3>1, <3>3
  <2>2. QED
    BY <2>1
<1> HIDE DEF s, n
<1>7. 1 \in DOMAIN s /\ n \in DOMAIN s /\ n + 1 \notin DOMAIN s /\ 1 <= n
  BY <1>5, <1>6
<1>8. s[1].from = 0 /\ k <= s[n].to
  BY <1>4, <1>7, ChainEnds
<1>9. /\ Len(v.clips) = n
      /\ \A i \in DOMAIN s : v.clips[i].duration = Micro(s[i].to - s[i].from)
  BY EditlyClips DEF s, n
<1>10. e[0] = 0
  <2>1. \A i \in 1..n : s[i].from \in Int /\ s[i].to \in Int
    BY <1>1, <1>4, <1>5 DEF Chained
  <2>2. \A i \in 1..n : v.clips[i].duration \in Int
    <3>1. TAKE i \in 1..n
    <3>2. s[i].to - s[i].from \in Int
      BY <2>1
    <3>3. QED
      BY <1>5, <1>9, <3>2, MicroRounds
  <2>3. QED
    BY <1>5, <1>9, <2>2, ElapsedSums
<1>11. /\ e[n] \in Int /\ s[n].to \in Nat
       /\ (s[n].to - s[1].from) - 2 * (n - 1 + 1) <= 4 * (e[n] - e[1 - 1])
  BY <1>7, SegmentsLast DEF s
<1>12. PICK x, b \in Int : x = e[n] /\ b = s[n].to /\ k <= b /\ b - 2 * n <= 4 * x
  BY <1>5, <1>8, <1>10, <1>11
<1>13. D = Rounded(x, 1000)
  BY <1>9, <1>12 DEF VideoDuration
<1>14. D \in Int /\ x - 500 <= 1000 * D
  <2>1. x \in Int
    BY <1>12
  <2>2. Rounded(x, 1000) \in Int /\ x - 500 <= 1000 * Rounded(x, 1000)
    BY <2>1, RoundedLoses
  <2> HIDE DEF D
  <2>3. QED
    BY <1>13, <2>2
<1>15. Slack(c) = 8 + 2 * n + 2000
  BY DEF Slack, Epsilon, s, n
<1> HIDE DEF D, e
<1>16. k \in Nat
  BY <1>1
<1>17. VisualEnd(c) - Slack(c) < D * 4000
  <2>1. VisualEnd(c) - 4 <= b
    BY <1>2, <1>3, <1>12, <1>16 DEF Epsilon
  <2>2. 4 * x - 2000 <= D * 4000
    BY <1>12, <1>14
  <2>3. PICK y, w, z, end \in Int : /\ y = 2 * n /\ w = 4 * x /\ z = D * 4000
                                    /\ end = VisualEnd(c)
    BY <1>2, <1>5, <1>12, <1>14
  <2>4. end - 4 <= b /\ b - y <= w /\ w - 2000 <= z
    <3>1. end - 4 <= b
      BY <2>1, <2>3
    <3>2. b - 2 * n <= 4 * x
      BY <1>12
    <3>3. w - 2000 <= z
      BY <2>2, <2>3
    <3>4. b - y <= w
      BY <2>3, <3>2
    <3>5. QED
      BY <3>1, <3>3, <3>4
  <2>5. end - (8 + y + 2000) < z
    <3> HIDE DEF s, n, K
    <3>1. b \in Int /\ y \in Int /\ w \in Int /\ z \in Int /\ end \in Int
      BY <1>12, <2>3
    <3>2. b <= w + y /\ w <= z + 2000 /\ end <= b + 4
      BY <3>1, <2>4
    <3>3. end <= z + 2000 + y + 4
      BY <3>1, <3>2
    <3>4. QED
      BY <3>1, <3>3
  <2>6. QED
    BY <1>15, <2>3, <2>5
<1>18. QED
  BY <1>2, <1>5, <1>14, <1>15, <1>17 DEF D

\* A poster that nobody asked for can always be made.
LEMMA PosterAlone ==
    ASSUME NEW duration
    PROVE  PosterPlan({}, duration) # BadPoster
<1>1. \A x : PosterAt(x) # BadPoster
  BY DEF PosterAt, BadPoster
<1>2. NoPoster # BadPoster
  BY DEF NoPoster, BadPoster
<1>3. Given({q.mode : q \in {}}, "default") = "default"
  <2>1. {q.mode : q \in {}} = {}
    OBVIOUS
  <2>2. QED
    BY <2>1 DEF Given
<1>4. QED
  BY <1>1, <1>2, <1>3 DEF PosterPlan

\* A poster of a video that lasts cannot be made only at a time that is after its end.
LEMMA BadPosterAsks ==
    ASSUME NEW p \in PosterOptions, PosterReads(p), NEW duration \in Int, duration # 0,
           PosterPlan({p}, duration) = BadPoster
    PROVE  \E t \in p.timestamp : t \in Int /\ t > duration * 4000
<1> DEFINE part == UNION {q.percent : q \in {p}}
           after == Given(p.timestamp, 0) > duration * 4000
<1>1. /\ UNION {q.timestamp : q \in {p}} = p.timestamp
      /\ Given({q.mode : q \in {p}}, "default") = p.mode
  <2>1. {q.mode : q \in {p}} = {p.mode} /\ {q.timestamp : q \in {p}} = {p.timestamp}
    OBVIOUS
  <2>2. UNION {p.timestamp} = p.timestamp
    OBVIOUS
  <2>3. Given({p.mode}, "default") = p.mode
    BY GivenOne, Zenon
  <2>4. QED
    BY <2>1, <2>2, <2>3, Zenon
<1>2. p.mode = "timestamp" /\ (duration = 0 \/ after)
  <2> DEFINE t == Given(p.timestamp, 0)
  <2>1. SUFFICES ASSUME ~(p.mode = "timestamp" /\ (duration = 0 \/ after)) PROVE FALSE
    OBVIOUS
  <2>2. p.mode \in {"default", "timestamp", "percent", "disabled"}
    BY DEF PosterOptions, PosterMode
  <2>3. \A x : PosterAt(x) # BadPoster
    BY DEF PosterAt, BadPoster
  <2>4. NoPoster # BadPoster
    BY DEF NoPoster, BadPoster
  <2> HIDE DEF part, after
  <2>5. CASE ~Settings.poster \/ p.mode = "disabled"
    BY <1>1, <2>4, <2>5 DEF PosterPlan
  <2>6. CASE Settings.poster /\ p.mode = "timestamp"
    <3>1. ~(duration = 0 \/ t > duration * 4000)
      BY <2>1, <2>6 DEF after
    <3>2. UNION {q.timestamp : q \in {p}} = p.timestamp
      BY <1>1
    <3>3. Given(UNION {q.timestamp : q \in {p}}, 0) = t
      BY <3>2
    <3>4. PosterPlan({p}, duration) = PosterAt(Milli(t))
      BY <1>1, <2>6, <3>1, <3>3 DEF PosterPlan
    <3>5. QED
      BY <2>3, <3>4
  <2>7. CASE Settings.poster /\ p.mode = "percent"
    BY <1>1, <2>3, <2>7 DEF PosterPlan
  <2>8. CASE Settings.poster /\ p.mode = "default"
    BY <1>1, <2>3, <2>8 DEF PosterPlan
  <2>9. QED
    BY <2>2, <2>5, <2>6, <2>7, <2>8
<1>3. \A x : PosterAt(x) # BadPoster /\ NoPoster # BadPoster
  BY DEF PosterAt, BadPoster, NoPoster
<1>4. /\ p.mode \in {"default", "timestamp", "percent", "disabled"}
      /\ p.timestamp \in SUBSET Int /\ \A v, w \in p.timestamp : v = w
  BY DEF PosterOptions, PosterMode, Optional
<1> HIDE DEF part, after
<1>5. p.mode = "timestamp" /\ after
  BY <1>2
<1>6. p.timestamp # {}
  BY <1>5 DEF PosterReads
<1>7. PICK t \in Int : p.timestamp = {t}
  BY <1>4, <1>6
<1>8. Given(p.timestamp, 0) = t
  BY <1>7, GivenOne, Zenon
<1>9. QED
  BY <1>5, <1>7, <1>8 DEF after

\* A poster that cannot be made was asked for at a time that the slack may hide, or of
\* a video that the slack may hide.
LEMMA PosterNeedsMore ==
    ASSUME NEW posted \in Posted, Reads(posted), NEW c, c = Read(posted),
           Selected(c) = "editly", NEW duration \in Int,
           VisualEnd(c) \in Nat, Slack(c) \in Int,
           VisualEnd(c) - Slack(c) < duration * 4000,
           PosterPlan(c.output.poster, duration) = BadPoster
    PROVE  NeedsMore(c)
<1>1. /\ c.output.poster \in SUBSET PosterOptions
      /\ \A p, q \in c.output.poster : p = q
      /\ \A p \in c.output.poster : PosterReads(p)
  <2>1. posted.output \in Output
    BY DEF Posted
  <2>2. c.output = ReadOutput(posted.output)
    BY DEF Read, Posted
  <2>3. c.output.poster = posted.output.poster
    BY <2>1, <2>2 DEF ReadOutput, Output
  <2>4. posted.output.poster \in Optional(PosterOptions)
    BY <2>1 DEF Output
  <2>5. QED
    BY <2>3, <2>4 DEF Optional, Reads, OutputReads
<1>2. c.output.poster # {}
  <2>1. SUFFICES ASSUME c.output.poster = {} PROVE FALSE
    OBVIOUS
  <2>2. PosterPlan({}, duration) = BadPoster
    BY <2>1
  <2>3. QED
    BY <2>2, PosterAlone
<1>3. PICK p \in PosterOptions : c.output.poster = {p} /\ PosterReads(p)
  BY <1>1, <1>2
<1>4. CASE duration = 0
  <2>1. VisualEnd(c) < Slack(c)
    BY <1>4
  <2>2. QED
    BY <1>2, <2>1 DEF NeedsMore
<1>5. CASE duration # 0
  <2>1. PosterPlan({p}, duration) = BadPoster
    BY <1>3
  <2>2. PICK t \in p.timestamp : t \in Int /\ t > duration * 4000
    BY <1>3, <1>5, <2>1, BadPosterAsks
  <2>3. t > VisualEnd(c) - Slack(c)
    BY <2>2
  <2>4. QED
    BY <1>3, <2>2, <2>3 DEF NeedsMore
<1>6. QED
  BY <1>4, <1>5

\* What is left to mix is refused for a trim that the request gave.
LEMMA MixNeedsMore ==
    ASSUME NEW c, Selected(c) = "editly", MixRefuses(Mixed(c)),
           \A ref \in Refs(c) : At(c, ref) \in Clips(c)
    PROVE  NeedsMore(c)
<1>1. External(c) /\ MixRefuses(AudioPlan(c))
  BY DEF Mixed, MixRefuses
<1>2. PICK source \in AudioPlan(c) : \E trim \in source.trim : trim < 0
  BY <1>1 DEF MixRefuses
<1>3. PICK trim \in source.trim : trim < 0
  BY <1>2
<1> DEFINE trims == UNION ({s.trim : s \in c.soundtrack}
                    \cup {clip.trim : clip \in {x \in Clips(c) : x.type = "audio"}})
<1>4. CASE \E s \in c.soundtrack : source = SoundtrackSource(c, s)
  <2>1. PICK s \in c.soundtrack : source = SoundtrackSource(c, s)
    BY <1>4
  <2>2. source.trim = s.trim
    BY <2>1 DEF SoundtrackSource
  <2>3. trim \in trims
    BY <1>3, <2>2
  <2>4. QED
    BY <1>1, <1>3, <2>3 DEF NeedsMore
<1>5. CASE \E ref \in Audible(c) : source = ClipSource(c, ref)
  <2>1. PICK ref \in Audible(c) : source = ClipSource(c, ref)
    BY <1>5
  <2>2. source.trim = At(c, ref).trim
    BY <2>1 DEF ClipSource
  <2>3. At(c, ref) \in Clips(c) /\ At(c, ref).type = "audio"
    BY DEF Audible, Visual
  <2>4. trim \in trims
    BY <1>3, <2>2, <2>3
  <2>5. QED
    BY <1>1, <1>3, <2>4 DEF NeedsMore
<1>6. QED
  BY <1>2, <1>4, <1>5 DEF AudioPlan, Heard

-----------------------------------------------------------------------------
(* What the API has accepted is rendered.                                     *)

Asked == Read(request.body)

\* One of the gaps between what the API checks and what a stage needs.
Excused == SameForAll(Asked) \/ NeedsMore(Asked)

\* What the request has been through, at every stage: the composition was accepted
\* on a route that renders, and had the capabilities once it was compiled.
Judged ==
    /\ pc # "idle" => outcome = "none"
    /\ pc \in {"read"} \cup WasRead => request.route \in {"renders", "template"}
    /\ pc \in WasRead \ {"check"} => Acceptable(Asked)
    /\ pc = "stored" => mode = "async"
    /\ pc \in {"render", "finish", "poster"} => Capable(Asked)
    /\ outcome = "failed" => Excused

\* The capabilities and the limits that were asked for once are there when they are
\* asked for again, except those of a template, which nobody has asked for.
LEMMA AskedOnce ==
    ASSUME Acceptable(Asked), request.route \in {"renders", "template"}
    PROVE  Within(Asked) /\ (Capable(Asked) \/ SameForAll(Asked))
  BY DEF Acceptable, SameForAll

\* The worker refuses what it reads only where a cue has its duration.
LEMMA ReloadExcused ==
    ASSUME Carried, Judged, Reload, outcome' = "failed"
    PROVE  Excused
<1>1. /\ pc = "stored" /\ stored = Asked /\ mode = "async"
      /\ request.body \in Posted /\ Reads(request.body)
      /\ Acceptable(Asked) /\ request.route \in {"renders", "template"}
      /\ outcome = "none"
  BY DEF Carried, Judged, Reload, WasRead, Request, Asked
<1>2. CASE Timed(Asked)
  BY <1>1, <1>2 DEF Timed, SameForAll, Excused
<1>3. CASE ~Timed(Asked)
  <2>1. Reads(stored) /\ Read(stored) = Asked
    BY <1>1, <1>3, ReadsAgain, ReadOnce DEF Asked
  <2>2. ~(Capable(Asked) /\ Within(Asked))
    BY <1>1, <2>1 DEF Reload, Go
  <2>3. QED
    BY <1>1, <2>2, AskedOnce DEF Excused
<1>4. QED
  BY <1>2, <1>3

\* The expansion fails for its variables, or where a cue has its duration.
LEMMA ExpandExcused ==
    ASSUME Carried, Judged, Expand, outcome' = "failed"
    PROVE  Excused
<1>1. /\ pc = "expand" /\ composition = Asked
      /\ request.body \in Posted /\ Reads(request.body) /\ outcome = "none"
  BY DEF Carried, Judged, Expand, WasRead, Request, Asked
<1>2. \/ Asked.merge \in {"undefined", "breaks"}
      \/ Asked.merge = "used" /\ ~Reads(Asked)
  BY <1>1 DEF Expand, Go, Dump
<1>3. CASE Asked.merge \in {"undefined", "breaks"}
  BY <1>3 DEF SameForAll, Excused
<1>4. CASE Asked.merge = "used" /\ ~Reads(Asked)
  <2>1. Timed(Asked)
    BY <1>1, <1>4, ReadsAgain DEF Asked
  <2>2. QED
    BY <1>4, <2>1 DEF Timed, SameForAll, Excused
<1>5. QED
  BY <1>2, <1>3, <1>4

\* The compilers refuse nothing but the gaps.
LEMMA CompileExcused ==
    ASSUME Carried, Judged, CompileFails
    PROVE  Excused
<1> DEFINE c == Asked
<1>1. /\ composition = c /\ Acceptable(c) /\ request.route \in {"renders", "template"}
      /\ request.body \in Posted /\ Reads(request.body)
  BY DEF Carried, Judged, CompileFails, WasRead, Request, Asked
<1>2. CASE ~Capable(c)
  BY <1>1, <1>2, AskedOnce DEF Excused
<1>3. CASE ~(Sources(c) \subseteq Fetchable)
  BY <1>3 DEF SameForAll, Excused
<1>4. CASE /\ Capable(c) /\ Sources(c) \subseteq Fetchable
           /\ Refuses(Selected(c), c, Fetchable)
  <2> HIDE DEF c
  <2>1. Selected(c) \in {"editly", "ffmpeg-native", "hyperframes"}
    BY <1>4 DEF Capable, Renderers
  <2>2. VisualEnd(c) <= Epsilon => SameForAll(c)
    BY DEF SameForAll
  <2>3. ~Unfetched(c, Fetchable)
    BY <1>4 DEF Unfetched
  <2>4. ASSUME Selected(c) = "ffmpeg-native" PROVE SameForAll(c) \/ NeedsMore(c)
    <3>1. NativeRefuses(c, Fetchable)
      BY <1>4, <2>4 DEF Refuses
    <3>2. /\ c.captions = {} /\ c.output.poster = {}
          /\ \A clip \in Clips(c) : clip.type # "html" /\ clip.transition = {}
      BY <1>4, <2>4 DEF Capable, Capability, Renderers
    <3>3. \/ ~c.hex \/ \E s \in c.soundtrack : s.effect # "none"
          \/ \E clip \in Clips(c) : clip.transform \/ ~clip.hex \/ clip.effect # "none"
          \/ VisualEnd(c) <= Epsilon
      BY <2>3, <3>1, <3>2 DEF NativeRefuses
    <3>4. QED
      BY <2>2, <2>4, <3>3 DEF NeedsMore
  <2>5. ASSUME Selected(c) = "hyperframes" PROVE SameForAll(c) \/ NeedsMore(c)
    <3>1. HyperframesRefuses(c, Fetchable)
      BY <1>4, <2>5 DEF Refuses
    <3>2. /\ c.captions = {} /\ c.output.poster = {} /\ HasHtml(c)
          /\ \A clip \in Clips(c) : clip.transition = {}
      BY <1>4, <2>5 DEF Capable, Capability, Renderers
    <3>3. \/ \E clip \in Clips(c) : clip.transform \/ Undeclared(clip)
          \/ VisualEnd(c) <= Epsilon
      BY <2>3, <3>1, <3>2 DEF HyperframesRefuses
    <3>4. QED
      BY <2>2, <2>5, <3>3 DEF NeedsMore
  <2>6. ASSUME Selected(c) = "editly" PROVE SameForAll(c)
    <3>1. EditlyRefuses(c)
      BY <1>4, <2>6 DEF Refuses
    <3>2. TransitionsFit(c)
      BY <1>1, AskedOnce DEF c, Within
    <3>3. WellTimed(c)
      BY <1>1, ReadIsWellTimed DEF Asked, c
    <3>4. VisualEnd(c) \in Nat
      BY <3>3, VisualTimes
    <3>5. ~(VisualEnd(c) > Epsilon)
      BY <3>1, <3>2, <3>3, EditlyAccepts
    <3>6. QED
      BY <2>2, <3>4, <3>5 DEF Epsilon
  <2>7. QED
    BY <2>1, <2>4, <2>5, <2>6 DEF Excused, c
<1>5. QED
  BY <1>1, <1>2, <1>3, <1>4 DEF CompileFails

\* Only Editly has audio to mix: what cannot be mixed was asked for so.
LEMMA RenderExcused ==
    ASSUME Carried, Judged, Render, outcome' = "failed"
    PROVE  Excused
<1>1. /\ composition = Asked /\ outcome = "none"
      /\ request.body \in Posted /\ Reads(request.body)
  BY DEF Carried, Judged, Render, WasRead, Request, Asked
<1>2. MixRefuses(Mixed(Asked))
  BY <1>1 DEF Render, Go
<1>3. Selected(Asked) = "editly"
  <2>1. Mixed(Asked) # {}
    BY <1>2 DEF MixRefuses
  <2>2. QED
    BY <2>1 DEF Mixed
<1>4. \A ref \in Refs(Asked) : At(Asked, ref) \in Clips(Asked)
  BY <1>1, ReadClipFields DEF Asked
<1>5. NeedsMore(Asked)
  BY <1>2, <1>3, <1>4, MixNeedsMore
<1>6. QED
  BY <1>5 DEF Excused

\* Only Editly has a poster that was asked for: one that cannot be made was asked for
\* at the end of the video.
LEMMA PosterExcused ==
    ASSUME Carried, Judged, Compiling, Poster, outcome' = "failed"
    PROVE  Excused
<1>1. /\ composition = Asked /\ Capable(Asked) /\ outcome = "none"
      /\ request.body \in Posted /\ Reads(request.body)
      /\ spec = Compiled(Selected(Asked), Asked)
      /\ ~Refuses(Selected(Asked), Asked, Fetchable)
  BY DEF Carried, Judged, Compiling, Poster, WasRead, Request, Asked
<1> DEFINE duration == VideoDuration(Selected(Asked), spec)
<1>2. PosterPlan(Asked.output.poster, duration) = BadPoster
  BY <1>1 DEF Poster, End
<1>3. Selected(Asked) = "editly"
  <2>1. SUFFICES ASSUME Selected(Asked) # "editly" PROVE FALSE
    OBVIOUS
  <2>2. Asked.output.poster = {}
    BY <1>1, <2>1 DEF Capable, Capability, Renderers
  <2> HIDE DEF duration
  <2>3. PosterPlan({}, duration) = BadPoster
    BY <1>2, <2>2
  <2>4. QED
    BY <2>3, PosterAlone
<1>4. spec = EditlySpec(Asked) /\ Segments(Asked) # << >>
  BY <1>1, <1>3 DEF Compiled, Refuses, EditlyRefuses
<1>5. WellTimed(Asked)
  BY <1>1, ReadIsWellTimed DEF Asked
<1>6. /\ duration \in Int
      /\ VisualEnd(Asked) - Slack(Asked) < duration * 4000
      /\ VisualEnd(Asked) \in Nat /\ Slack(Asked) \in Int
  BY <1>3, <1>4, <1>5, VideoLasts
<1> HIDE DEF duration
<1>7. NeedsMore(Asked)
  BY <1>1, <1>2, <1>3, <1>6, PosterNeedsMore DEF Asked
<1>8. QED
  BY <1>7 DEF Excused

\* Every step keeps it.
LEMMA JudgedStep ==
    ASSUME Carried, Judged, Compiling, [Next]_vars
    PROVE  Judged'
<1>1. CASE UNCHANGED vars
  BY <1>1 DEF Judged, vars, Excused, Asked, Acceptable, SameForAll
<1>2. CASE Tick
  BY <1>2 DEF Judged, Tick, WasRead, Excused, Asked, SameForAll, work
<1>3. CASE Arrive
  BY <1>3 DEF Judged, Arrive, WasRead
<1>4. CASE TooLarge \/ BodyReceived \/ Limited \/ Passed \/ Unauthorized
  <2>1. /\ pc \in {"body", "rate", "key"} /\ pc' \in {"idle", "rate", "key"}
        /\ outcome' \in {"413", "429", "401", "403", outcome}
        /\ pc' # "idle" => outcome' = outcome
    BY <1>4 DEF TooLarge, BodyReceived, Limited, Passed, Unauthorized, Go, End
  <2>2. outcome = "none"
    BY <2>1 DEF Judged
  <2>3. QED
    BY <2>1, <2>2 DEF Judged, WasRead
<1>5. CASE Authorized
  <2>1. /\ Carried /\ pc = "key" /\ request \in Request /\ request' = request
        /\ outcome = "none"
    BY <1>5 DEF Authorized, Go, End, Carried, Judged
  <2>2. \/ pc' = "idle" /\ outcome' = "200"
        \/ pc' = "read" /\ outcome' = outcome /\ request.route # "other"
    BY <1>5 DEF Authorized, Go, End
  <2>3. request.route \in {"renders", "template", "other"}
    BY <2>1 DEF Request
  <2>4. QED
    BY <2>1, <2>2, <2>3 DEF Judged, WasRead
<1>6. CASE Unreadable \/ Readable
  BY <1>6 DEF Unreadable, Readable, Go, End, Judged, WasRead
<1>7. CASE Rejected
  BY <1>7 DEF Rejected, End, Judged, WasRead
<1>8. CASE Accepted
  <2>1. /\ pc = "check" /\ composition = Asked /\ Acceptable(Asked)
        /\ outcome = "none" /\ request.route \in {"renders", "template"}
    BY <1>8 DEF Accepted, Carried, Judged, WasRead, Asked
  <2>2. /\ request' = request /\ mode' = mode
        /\ \/ pc' = "stored" /\ outcome' = outcome /\ mode = "async"
           \/ pc' = "expand" /\ outcome' = outcome
           \/ pc' = "idle" /\ outcome' = "queued"
    BY <1>8 DEF Accepted, Go, End
  <2>3. QED
    BY <2>1, <2>2 DEF Judged, WasRead, Asked, Acceptable
<1>9. ASSUME Reload \/ Expand \/ CompileFails \/ Compile \/ Render \/ Finish \/ Poster
      PROVE  Judged'
  <2>1. /\ request' = request /\ mode' = mode
        /\ pc \in WasRead \ {"check"} /\ outcome = "none"
        /\ \/ pc' = "idle"
           \/ pc' \in WasRead \ {"check", "stored"} /\ outcome' = outcome
        /\ outcome' \in {outcome, "failed", "succeeded"}
    BY <1>9 DEF Reload, Expand, CompileFails, Compile, Render, Finish, Poster, Go, End,
                WasRead, Judged
  <2>2. Acceptable(Asked) /\ request.route \in {"renders", "template"}
    BY <2>1 DEF Judged
  <2>3. pc' \in {"render", "finish", "poster"} => Capable(Asked)
    <3>1. CASE Compile
      BY <3>1 DEF Carried, Compile, WasRead, Asked
    <3>2. CASE Render \/ Finish
      BY <3>2 DEF Judged, Render, Finish, Go
    <3>3. CASE Reload \/ Expand \/ CompileFails \/ Poster
      BY <3>3 DEF Reload, Expand, CompileFails, Poster, Go, End
    <3>4. QED
      BY <1>9, <3>1, <3>2, <3>3
  <2>4. outcome' = "failed" => Excused
    <3>1. CASE Compile \/ Finish
      BY <2>1, <3>1 DEF Compile, Finish, Go
    <3>2. QED
      BY <1>9, <3>1, ReloadExcused, ExpandExcused, CompileExcused, RenderExcused,
         PosterExcused
  <2>5. Asked' = Asked /\ (Acceptable(Asked))' /\ (Excused <=> Excused')
    BY <2>1, <2>2 DEF Asked, Acceptable, Excused, SameForAll
  <2>6. QED
    BY <2>1, <2>2, <2>3, <2>4, <2>5 DEF Judged, WasRead
<1>10. QED
  BY <1>1, <1>2, <1>3, <1>4, <1>5, <1>6, <1>7, <1>8, <1>9 DEF Next, Done

\* For any composition: what the API has accepted is rendered, but for the gaps that
\* SameForAll and NeedsMore name (Capable and the limits against load_stored_input,
\* stage_validate_and_expand, compile(), the mix of the audio and the plan of the poster).
THEOREM AcceptedIsRendered == Spec => []AcceptedRenders
<1>1. Init => Judged
  BY DEF Init, Judged, WasRead
<1>2. Carried /\ Compiling /\ Judged /\ [Next]_vars => Judged'
  BY JudgedStep
<1>3. Judged => AcceptedRenders
  BY DEF Judged, AcceptedRenders, Excused, Asked
<1>4. QED
  BY <1>1, <1>2, <1>3, CarriedInvariant, CompilingInvariant, PTL DEF Spec
=============================================================================
