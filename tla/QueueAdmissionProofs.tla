------------------------ MODULE QueueAdmissionProofs ------------------------
(***************************************************************************)
(* The overshoot of the queue is bounded for every configured depth and    *)
(* every number of requests served at a time.  The bound is inductive: an  *)
(* admission spends a free place of the queue, or one of the requests, and *)
(* an enqueued job moves from the second term of the sum to the first.     *)
(***************************************************************************)
EXTENDS QueueAdmission, FiniteSetTheorems, TLAPS

Bound == IF MaxDepth = 0 THEN 0 ELSE MaxDepth - 1 + Cardinality(Clients)

\* There are at most as many requests underway as requests.
LEMMA UnderwayFinite ==
    /\ IsFiniteSet(Underway)
    /\ Cardinality(Underway) \in Nat
    /\ Cardinality(Clients) \in Nat
    /\ Cardinality(Underway) <= Cardinality(Clients)
<1>1. Underway \subseteq Clients
  BY DEF Underway
<1>2. IsFiniteSet(Clients)
  BY AdmissionAssumption
<1>3. QED
  BY <1>1, <1>2, FS_Subset, FS_CardinalityType

\* A request that ends leaves the others underway.
LEMMA AnswerEndsOne ==
    ASSUME TypeOK, NEW c \in Clients, NEW code \in Replies,
           pc[c] # "idle", Answer(c, code)
    PROVE  /\ TypeOK' <=> depth' \in Nat
           /\ Cardinality(Underway') = Cardinality(Underway) - 1
<1>1. Underway' = Underway \ {c} /\ c \in Underway
  BY DEF TypeOK, Underway, Answer
<1>2. Cardinality(Underway') = Cardinality(Underway) - 1
  BY <1>1, UnderwayFinite, FS_RemoveElement
<1>3. QED
  BY <1>2 DEF TypeOK, Answer

-----------------------------------------------------------------------------
\* Every step of a request or of a worker keeps the types and the bound.
LEMMA NextBounded == TypeOK /\ OvershootBounded /\ [Next]_vars => (TypeOK /\ OvershootBounded)'
<1> SUFFICES ASSUME TypeOK, OvershootBounded, [Next]_vars
             PROVE  (TypeOK /\ OvershootBounded)'
  OBVIOUS
<1> DEFINE n == Cardinality(Underway)
<1>a. depth \in Nat /\ n \in Nat /\ Bound \in Nat /\ depth + n <= Bound
  BY UnderwayFinite, AdmissionAssumption DEF TypeOK, OvershootBounded, Bound
<1>b. SUFFICES TypeOK' /\ depth' + n' <= Bound
  BY DEF OvershootBounded, Bound
<1>1. ASSUME NEW c \in Clients, Admit(c)
      PROVE  TypeOK' /\ depth' + n' <= Bound
  <2>1. TypeOK' /\ depth' = depth /\ depth <= MaxDepth - 1 /\ MaxDepth # 0
    BY <1>1, AdmissionAssumption DEF Admit, TypeOK
  <2>2. n' \in Nat /\ n' <= Cardinality(Clients)
    <3>1. Underway' \subseteq Clients
      BY DEF Underway
    <3>2. QED
      BY <3>1, AdmissionAssumption, FS_Subset, FS_CardinalityType
  <2>3. QED
    BY <1>a, <2>1, <2>2, UnderwayFinite, AdmissionAssumption DEF Bound
<1>2. ASSUME NEW c \in Clients, Saturated(c) \/ Unavailable(c)
      PROVE  TypeOK' /\ depth' + n' <= Bound
  <2>1. depth' = depth /\ pc' = pc /\ TypeOK'
    BY <1>2 DEF Saturated, Unavailable, Answer, TypeOK, Replies
  <2>2. QED
    BY <1>a, <2>1 DEF Underway
<1>3. ASSUME NEW c \in Clients, Persist(c)
      PROVE  TypeOK' /\ depth' + n' <= Bound
  <2>1. depth' = depth /\ TypeOK' /\ Underway' = Underway
    BY <1>3 DEF Persist, TypeOK, Underway
  <2>2. QED
    BY <1>a, <2>1
<1>4. ASSUME NEW c \in Clients,
             PersistFails(c) \/ Enqueue(c) \/ EnqueueFails(c) \/ Abandon(c)
      PROVE  TypeOK' /\ depth' + n' <= Bound
  <2>1. PICK code \in Replies : pc[c] # "idle" /\ Answer(c, code)
    BY <1>4 DEF PersistFails, Enqueue, EnqueueFails, Abandon, Replies
  <2>2. n' = n - 1 /\ (TypeOK' <=> depth' \in Nat)
    BY <2>1, AnswerEndsOne
  <2>3. depth' \in {depth, depth + 1}
    BY <1>4 DEF PersistFails, Enqueue, EnqueueFails, Abandon
  <2>4. QED
    BY <1>a, <2>2, <2>3
<1>5. CASE Take
  <2>1. depth' = depth - 1 /\ depth' \in Nat /\ Underway' = Underway /\ TypeOK'
    BY <1>5, <1>a DEF Take, TypeOK, Underway
  <2>2. QED
    BY <1>a, <2>1
<1>6. CASE UNCHANGED vars
  <2>1. depth' = depth /\ Underway' = Underway /\ TypeOK'
    BY <1>6 DEF vars, TypeOK, Underway
  <2>2. QED
    BY <1>a, <2>1
<1>7. QED
  BY <1>1, <1>2, <1>3, <1>4, <1>5, <1>6 DEF Next

\* The queue exceeds max_async_queue_depth by less than the number of requests in
\* progress, for every value of both.
THEOREM OvershootIsBounded == Spec => [](TypeOK /\ OvershootBounded)
<1>1. Init => TypeOK /\ OvershootBounded
  <2> SUFFICES ASSUME Init PROVE TypeOK /\ OvershootBounded
    OBVIOUS
  <2>1. TypeOK
    BY DEF Init, TypeOK, Replies
  <2>2. Underway = {} /\ depth = 0
    BY DEF Init, Underway
  <2>3. OvershootBounded
    BY <2>2, UnderwayFinite, AdmissionAssumption, FS_EmptySet DEF OvershootBounded
  <2>4. QED
    BY <2>1, <2>3
<1>2. TypeOK /\ OvershootBounded /\ [Next]_vars => (TypeOK /\ OvershootBounded)'
  BY NextBounded
<1>3. QED
  BY <1>1, <1>2, PTL DEF Spec
=============================================================================
