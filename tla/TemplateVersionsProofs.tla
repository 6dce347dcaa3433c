----------------------- MODULE TemplateVersionsProofs -----------------------
(***************************************************************************)
(* The properties of TemplateVersions hold for any set of requests, and    *)
(* the two tables implement TemplateHistory.  The argument: of the updates *)
(* that have numbered their version, the index lets one insert the next    *)
(* number, and it is that one that commits next; so the number read before *)
(* is still right, and the last version is the active one.                 *)
(***************************************************************************)
EXTENDS TemplateVersions, SequenceTheorems, TLAPS

\* The last version is the active one.
LastIsActive == versions # << >> /\ template.active = versions[Len(versions)].id

\* At most one update has inserted a version, and it has the next number.
OneInserts ==
    \A r \in Requests : request[r].pc = "flushed" =>
        /\ request[r].number = Len(versions) + 1
        /\ \A q \in Requests : request[q].pc = "flushed" => q = r

\* Only an update that has committed has a version of its own.
OwnVersion ==
    \A r \in Requests : request[r].pc \notin {"done", "failed"} =>
        \A i \in DOMAIN versions : versions[i].id # r

\* What requests have read and seen, against what is committed by now.
Arrived ==
    /\ answered.number <= Len(versions)
    /\ answered.deleted => template.deleted
    /\ \A r \in Requests :
           /\ arrival[r].length <= Len(versions)
           /\ request[r].pc = "numbered" => /\ request[r].number > arrival[r].length
                                           /\ request[r].number <= Len(versions) + 1

\* A render under way holds a version that is fresh enough.
HoldsFresh ==
    \A r \in Requests : request[r].pc \in {"loading", "creating"} =>
        \E i \in DOMAIN versions : /\ versions[i].id = request[r].active
                                   /\ versions[i].number >= arrival[r].number

\* A render was made by a request that has committed.
Made == \A x \in renders : request[x.by].pc \in {"done", "failed"}

IInv ==
    /\ TypeOK
    /\ Made
    /\ NumberedInOrder
    /\ LastIsActive
    /\ OneInserts
    /\ OwnVersion
    /\ Arrived
    /\ HoldsFresh
    /\ DeletedForLater
    /\ RendersAreFresh
    /\ ConflictIsReal

-----------------------------------------------------------------------------
\* IInv holds initially.
LEMMA InitIInv == Init => IInv
<1> SUFFICES ASSUME Init
             PROVE  IInv
  OBVIOUS
<1>1. TypeOK
  BY DEF Init, TypeOK, Ids, Open, Closed
<1>2. NumberedInOrder /\ LastIsActive
  BY DEF Init, NumberedInOrder, LastIsActive
<1>3. /\ Made /\ OneInserts /\ Arrived /\ HoldsFresh
      /\ DeletedForLater /\ RendersAreFresh /\ ConflictIsReal
  BY DEF Init, Made, OneInserts, Arrived, HoldsFresh, DeletedForLater, RendersAreFresh,
         ConflictIsReal
<1>4. OwnVersion
  BY TemplateAssumption DEF Init, OwnVersion
<1>5. QED
  BY <1>1, <1>2, <1>3, <1>4 DEF IInv

-----------------------------------------------------------------------------
\* The largest number is the number of versions.
LEMMA MaxIsLength ==
    ASSUME TypeOK, NumberedInOrder, versions # << >>
    PROVE  MaxNumber = Len(versions)
<1> DEFINE numbers == {versions[i].number : i \in DOMAIN versions}
<1>1. numbers = 1..Len(versions)
  <2>1. DOMAIN versions = 1..Len(versions)
    BY DEF TypeOK
  <2>2. \A i \in DOMAIN versions : versions[i].number = i
    BY DEF NumberedInOrder
  <2>3. QED
    BY <2>1, <2>2
<1>2. Len(versions) \in Nat /\ Len(versions) >= 1
  BY DEF TypeOK
<1>3. Len(versions) \in numbers /\ \A m \in numbers : Len(versions) >= m
  BY <1>1, <1>2
<1>4. MaxNumber = CHOOSE n \in numbers : \A m \in numbers : n >= m
  BY DEF MaxNumber
<1> HIDE DEF numbers
<1>5. \A n \in numbers : (\A m \in numbers : n >= m) => n = Len(versions)
  BY <1>1, <1>2, <1>3
<1>6. QED
  BY <1>3, <1>4, <1>5

\* A step that leaves both tables and the ghosts alone, and moves one request,
\* keeps the parts of IInv that are about them.
LEMMA GotoKeeps ==
    ASSUME IInv, NEW r \in Requests, NEW pc \in Closed \cup Open, Goto(r, pc),
           UNCHANGED <<template, versions, renders, arrival>>,
           answered' = answered,
           request[r].pc \in Open,
           pc = "flushed" => /\ request[r].number = Len(versions) + 1
                             /\ \A q \in Requests : request[q].pc # "flushed",
           pc = "creating" => request[r].pc = "loading",
           pc = "conflict" => Len(versions) > arrival[r].length,
           pc \notin {"numbered", "loading"}
    PROVE  IInv'
<1>1. /\ request'[r].pc = pc
      /\ request'[r].number = request[r].number
      /\ request'[r].active = request[r].active
      /\ \A q \in Requests : q # r => request'[q] = request[q]
  BY DEF IInv, TypeOK, Goto
<1>2. TypeOK'
  <2>1. request' \in [Requests -> [pc : {"idle"} \cup Open \cup Closed,
                                  deleted : BOOLEAN, active : Ids, number : Nat]]
    <3>1. /\ request \in [Requests -> [pc : {"idle"} \cup Open \cup Closed,
                                      deleted : BOOLEAN, active : Ids, number : Nat]]
          /\ pc \in {"idle"} \cup Open \cup Closed
      BY DEF IInv, TypeOK
    <3>2. QED
      BY <3>1 DEF Goto
  <2>2. QED
    BY <2>1 DEF IInv, TypeOK
<1>3. (NumberedInOrder /\ LastIsActive)'
  BY DEF IInv, NumberedInOrder, LastIsActive
<1>4. OneInserts'
  BY <1>1 DEF IInv, OneInserts
<1>5. OwnVersion'
  BY <1>1 DEF IInv, OwnVersion, Open
<1>6. Arrived'
  BY <1>1 DEF IInv, Arrived
<1>7. HoldsFresh'
  BY <1>1 DEF IInv, HoldsFresh
<1>8. DeletedForLater'
  BY <1>1 DEF IInv, DeletedForLater, Open
<1>9. (RendersAreFresh /\ ConflictIsReal)'
  BY <1>1 DEF IInv, RendersAreFresh, ConflictIsReal
<1>10. Made'
  <2>1. \A x \in renders : x.by \in Requests /\ x.by # r
    BY DEF IInv, TypeOK, Made, Open
  <2>2. QED
    BY <1>1, <2>1 DEF IInv, Made
<1>11. QED
  BY <1>2, <1>3, <1>4, <1>5, <1>6, <1>7, <1>8, <1>9, <1>10 DEF IInv

\* The answer of a request whose transaction has committed: the tables may have
\* changed, the other requests have not.
LEMMA CloseFields ==
    ASSUME TypeOK, NEW r \in Requests, NEW known, Close(r, known)
    PROVE  /\ request' \in [Requests -> [pc : {"idle"} \cup Open \cup Closed,
                                         deleted : BOOLEAN, active : Ids, number : Nat]]
           /\ request'[r].pc \in {"done", "failed"}
           /\ request'[r].number = request[r].number
           /\ \A q \in Requests : q # r => request'[q] = request[q]
           /\ answered' = known \/ answered' = answered
<1>1. PICK pc \in {"done", "failed"} : Goto(r, pc) /\ answered' \in {known, answered}
  BY DEF Close
<1>2. request' = [request EXCEPT ![r] = [@ EXCEPT !.pc = pc]]
  BY <1>1 DEF Goto
<1>3. pc \in Closed
  BY DEF Closed
<1>4. QED
  BY <1>1, <1>2, <1>3 DEF TypeOK

-----------------------------------------------------------------------------
\* The lookup of every handler.
LEMMA LookupKeeps ==
    ASSUME IInv, NEW r \in Requests, NEW next \in {"numbering", "touching", "deleting", "loading"},
           Lookup(r, next)
    PROVE  IInv'
<1> DEFINE k == Len(versions)
<1>0. PICK pc \in {"refused", next} :
          /\ template.deleted => pc = "refused"
          /\ request' = [request EXCEPT ![r].pc = pc, ![r].deleted = template.deleted,
                                       ![r].active = template.active]
  BY DEF Lookup
<1>1. /\ request'[r].pc \in {"refused", next}
      /\ template.deleted => request'[r].pc = "refused"
      /\ request'[r].active = template.active
      /\ \A q \in Requests : q # r => request'[q] = request[q]
  BY <1>0 DEF IInv, TypeOK
<1>2. /\ arrival'[r].deleted = answered.deleted
      /\ arrival'[r].number = answered.number
      /\ arrival'[r].length = k
      /\ \A q \in Requests : q # r => arrival'[q] = arrival[q]
  BY DEF IInv, TypeOK, Lookup
<1>3. UNCHANGED <<template, versions, renders, answered>>
  BY DEF Lookup
<1>4. TypeOK'
  <2>1. request' \in [Requests -> [pc : {"idle"} \cup Open \cup Closed,
                                  deleted : BOOLEAN, active : Ids, number : Nat]]
    <3>1. /\ pc \in {"idle"} \cup Open \cup Closed
          /\ template.deleted \in BOOLEAN
          /\ template.active \in Ids
      BY DEF IInv, TypeOK, Open, Closed
    <3>2. request[r] \in [pc : {"idle"} \cup Open \cup Closed,
                         deleted : BOOLEAN, active : Ids, number : Nat]
      BY DEF IInv, TypeOK
    <3>3. [request[r] EXCEPT !.pc = pc, !.deleted = template.deleted,
                             !.active = template.active]
              \in [pc : {"idle"} \cup Open \cup Closed,
                  deleted : BOOLEAN, active : Ids, number : Nat]
      BY <3>1, <3>2
    <3>4. QED
      BY <1>0, <3>3 DEF IInv, TypeOK
  <2>2. arrival' \in [Requests -> [deleted : BOOLEAN, number : Nat, length : Nat]]
    BY DEF IInv, TypeOK, Lookup
  <2>3. QED
    BY <1>3, <2>1, <2>2 DEF IInv, TypeOK
<1>5. (NumberedInOrder /\ LastIsActive)'
  BY <1>3 DEF IInv, NumberedInOrder, LastIsActive
<1>6. OneInserts'
  BY <1>1, <1>3 DEF IInv, OneInserts
<1>7. OwnVersion'
  BY <1>1, <1>3 DEF IInv, OwnVersion, Lookup
<1>8. Arrived'
  <2>1. k \in Nat
    BY DEF IInv, TypeOK
  <2>2. QED
    BY <1>1, <1>2, <1>3, <2>1 DEF IInv, Arrived
<1>9. HoldsFresh'
  <2>1. /\ k \in DOMAIN versions /\ versions[k].id = template.active
        /\ versions[k].number = k /\ k >= answered.number
    BY DEF IInv, TypeOK, LastIsActive, NumberedInOrder, Arrived
  <2>2. QED
    BY <1>1, <1>2, <1>3, <2>1 DEF IInv, HoldsFresh
<1>10. DeletedForLater'
  BY <1>1, <1>2 DEF IInv, DeletedForLater, Arrived
<1>11. (RendersAreFresh /\ Made)'
  <2>1. \A x \in renders : x.by \in Requests /\ x.by # r
    BY DEF IInv, TypeOK, Made, Lookup
  <2>2. QED
    BY <1>1, <1>2, <1>3, <2>1 DEF IInv, RendersAreFresh, Made
<1>12. ConflictIsReal'
  BY <1>1, <1>2, <1>3 DEF IInv, ConflictIsReal
<1>13. QED
  BY <1>4, <1>5, <1>6, <1>7, <1>8, <1>9, <1>10, <1>11, <1>12 DEF IInv

-----------------------------------------------------------------------------
\* The update that has read the largest number.
LEMMA NumberKeeps ==
    ASSUME IInv, NEW r \in Requests, NumberVersion(r)
    PROVE  IInv'
<1> DEFINE k == Len(versions)
<1>1. k \in Nat /\ MaxNumber = k
  BY MaxIsLength DEF IInv, TypeOK, LastIsActive
<1>2. /\ request'[r].pc = "numbered"
      /\ request'[r].number = k + 1
      /\ request'[r].active = request[r].active
      /\ \A q \in Requests : q # r => request'[q] = request[q]
      /\ UNCHANGED <<template, versions, renders, answered, arrival>>
  BY <1>1 DEF IInv, TypeOK, NumberVersion
<1>3. TypeOK'
  <2>1. request' = [request EXCEPT ![r].pc = "numbered", ![r].number = k + 1]
    BY <1>1 DEF NumberVersion
  <2>2. request' \in [Requests -> [pc : {"idle"} \cup Open \cup Closed,
                                  deleted : BOOLEAN, active : Ids, number : Nat]]
    <3>1. "numbered" \in {"idle"} \cup Open \cup Closed /\ k + 1 \in Nat
      BY <1>1 DEF Open
    <3>2. [request[r] EXCEPT !.pc = "numbered", !.number = k + 1]
              \in [pc : {"idle"} \cup Open \cup Closed,
                  deleted : BOOLEAN, active : Ids, number : Nat]
      BY <3>1 DEF IInv, TypeOK
    <3>3. QED
      BY <2>1, <3>2 DEF IInv, TypeOK
  <2>3. QED
    BY <1>2, <2>2 DEF IInv, TypeOK
<1>4. (NumberedInOrder /\ LastIsActive)'
  BY <1>2 DEF IInv, NumberedInOrder, LastIsActive
<1>5. (OneInserts /\ OwnVersion /\ HoldsFresh /\ ConflictIsReal)'
  <2>1. OneInserts'
    BY <1>2 DEF IInv, OneInserts
  <2>2. OwnVersion'
    BY <1>2 DEF IInv, OwnVersion, NumberVersion
  <2>3. HoldsFresh'
    BY <1>2 DEF IInv, HoldsFresh
  <2>4. ConflictIsReal'
    BY <1>2 DEF IInv, ConflictIsReal
  <2>5. QED
    BY <2>1, <2>2, <2>3, <2>4
<1>6. Arrived'
  <2>1. arrival[r].length \in Nat /\ arrival[r].length <= k
    BY DEF IInv, TypeOK, Arrived
  <2>2. QED
    BY <1>1, <1>2, <2>1 DEF IInv, Arrived
<1>7. DeletedForLater'
  BY <1>2 DEF IInv, DeletedForLater, NumberVersion
<1>8. (RendersAreFresh /\ Made)'
  <2>1. \A x \in renders : x.by \in Requests /\ x.by # r
    BY DEF IInv, TypeOK, Made, NumberVersion
  <2>2. QED
    BY <1>2, <2>1 DEF IInv, RendersAreFresh, Made
<1>9. QED
  BY <1>3, <1>4, <1>5, <1>6, <1>7, <1>8 DEF IInv

\* The commit of a version: it gets the number after the last one, for the update
\* that inserted it is the only one that has.
LEMMA CommitKeeps ==
    ASSUME IInv, NEW r \in Requests, CommitVersion(r)
    PROVE  IInv'
<1> DEFINE k == Len(versions)
           v == [id |-> r, number |-> k + 1]
<1>1. /\ request[r].pc = "flushed" /\ request[r].number = k + 1
      /\ \A q \in Requests : request[q].pc = "flushed" => q = r
      /\ k \in Nat /\ k >= 1
  BY DEF IInv, TypeOK, OneInserts, LastIsActive, CommitVersion
<1>2. versions' = Append(versions, v) /\ v \in [id : Ids, number : Nat]
  BY <1>1 DEF CommitVersion, AddVersion, Ids
<1>3. /\ Len(versions') = k + 1
      /\ DOMAIN versions' = 1..(k + 1)
      /\ DOMAIN versions = 1..k
      /\ versions'[k + 1] = v
      /\ \A i \in DOMAIN versions : i \in DOMAIN versions' /\ versions'[i] = versions[i]
      /\ versions' \in Seq([id : Ids, number : Nat])
  BY <1>1, <1>2 DEF IInv, TypeOK
<1>4. /\ template'.active = r
      /\ template'.deleted = template.deleted
      /\ template' \in [deleted : BOOLEAN, active : Ids]
      /\ UNCHANGED <<renders, arrival>>
  BY DEF IInv, TypeOK, CommitVersion, Ids
<1>5. Close(r, Known(k + 1))
  BY <1>1 DEF CommitVersion
<1>6. /\ request' \in [Requests -> [pc : {"idle"} \cup Open \cup Closed,
                                   deleted : BOOLEAN, active : Ids, number : Nat]]
      /\ request'[r].pc \in {"done", "failed"}
      /\ \A q \in Requests : q # r => request'[q] = request[q]
      /\ answered' = Known(k + 1) \/ answered' = answered
  BY <1>5, CloseFields DEF IInv
<1>7. /\ answered' \in [deleted : BOOLEAN, number : Nat]
      /\ answered'.number <= k + 1
      /\ answered'.deleted = answered.deleted
  <2>1. /\ answered \in [deleted : BOOLEAN, number : Nat] /\ answered.number <= k
        /\ k + 1 \in Nat
    BY <1>1 DEF IInv, TypeOK, Arrived
  <2>2. Known(k + 1) = [answered EXCEPT !.number = k + 1]
    BY <2>1, <1>1 DEF Known
  <2>3. QED
    BY <1>1, <1>6, <2>1, <2>2
<1>8. TypeOK'
  BY <1>3, <1>4, <1>6, <1>7 DEF IInv, TypeOK
<1>9. (NumberedInOrder /\ LastIsActive)'
  BY <1>1, <1>3, <1>4 DEF IInv, NumberedInOrder, LastIsActive
<1>10. OneInserts'
  BY <1>1, <1>6 DEF OneInserts
<1>11. OwnVersion'
  <2> SUFFICES ASSUME NEW q \in Requests, request'[q].pc \notin {"done", "failed"},
                      NEW i \in DOMAIN versions'
               PROVE  versions'[i].id # q
    BY DEF OwnVersion
  <2>1. q # r /\ request[q].pc \notin {"done", "failed"}
    BY <1>6
  <2>2. CASE i = k + 1
    BY <1>1, <1>3, <2>1, <2>2
  <2>3. CASE i \in DOMAIN versions
    BY <1>3, <2>1, <2>3 DEF IInv, OwnVersion
  <2>4. QED
    BY <1>1, <1>3, <2>2, <2>3
<1>12. Arrived'
  <2>1. \A q \in Requests : arrival[q].length \in Nat /\ arrival[q].length <= k
    BY DEF IInv, TypeOK, Arrived
  <2>2. answered'.number <= Len(versions') /\ (answered'.deleted => template'.deleted)
    BY <1>3, <1>4, <1>7 DEF IInv, Arrived
  <2>3. \A q \in Requests : arrival'[q].length <= Len(versions')
    BY <1>1, <1>3, <1>4, <2>1
  <2>4. \A q \in Requests : request'[q].pc = "numbered" =>
            /\ request'[q].number > arrival'[q].length
            /\ request'[q].number <= Len(versions') + 1
    <3>1. TAKE q \in Requests
    <3>2. HAVE request'[q].pc = "numbered"
    <3>3. request'[q] = request[q] /\ request[q].number \in Nat
      BY <1>6, <3>2 DEF IInv, TypeOK
    <3>4. request[q].number > arrival[q].length /\ request[q].number <= k + 1
      BY <3>2, <3>3 DEF IInv, Arrived
    <3>5. QED
      BY <1>1, <1>3, <1>4, <3>3, <3>4
  <2>5. QED
    BY <2>2, <2>3, <2>4 DEF Arrived
<1>13. HoldsFresh'
  BY <1>3, <1>4, <1>6 DEF IInv, HoldsFresh
<1>14. DeletedForLater'
  BY <1>1, <1>4, <1>6 DEF IInv, DeletedForLater
<1>15. (RendersAreFresh /\ Made)'
  <2>1. \A x \in renders : x.by \in Requests /\ x.by # r
    BY <1>1 DEF IInv, TypeOK, Made
  <2>2. QED
    BY <1>3, <1>4, <1>6, <2>1 DEF IInv, RendersAreFresh, Made
<1>16. ConflictIsReal'
  <2>1. \A q \in Requests : arrival[q].length \in Nat /\ arrival[q].length <= k
    BY DEF IInv, TypeOK, Arrived
  <2>2. QED
    BY <1>1, <1>3, <1>4, <1>6, <2>1 DEF IInv, ConflictIsReal
<1>17. QED
  BY <1>8, <1>9, <1>10, <1>11, <1>12, <1>13, <1>14, <1>15, <1>16 DEF IInv

-----------------------------------------------------------------------------
\* A commit that adds no version: of a touch, of a deletion, of a render.
LEMMA CloseKeeps ==
    ASSUME IInv, NEW r \in Requests, NEW known \in [deleted : BOOLEAN, number : Nat],
           request[r].pc \in {"touching", "deleting", "creating"}, Close(r, known),
           UNCHANGED <<versions, arrival>>,
           known.number = answered.number,
           template' \in [deleted : BOOLEAN, active : Ids],
           template'.active = template.active,
           answered.deleted \/ known.deleted => template'.deleted,
           \A x \in renders' : \/ x \in renders
                               \/ /\ request[r].pc = "creating"
                                  /\ x = [by |-> r, version |-> request[r].active]
    PROVE  IInv'
<1>1. /\ request' \in [Requests -> [pc : {"idle"} \cup Open \cup Closed,
                                   deleted : BOOLEAN, active : Ids, number : Nat]]
      /\ request'[r].pc \in {"done", "failed"}
      /\ request'[r].number = request[r].number
      /\ \A q \in Requests : q # r => request'[q] = request[q]
      /\ answered' = known \/ answered' = answered
  BY CloseFields DEF IInv
<1>2. \A x \in renders' : x \in [by : Requests, version : Ids]
  BY DEF IInv, TypeOK
<1>3. TypeOK'
  BY <1>1, <1>2 DEF IInv, TypeOK
<1>4. (NumberedInOrder /\ LastIsActive)'
  BY DEF IInv, NumberedInOrder, LastIsActive
<1>5. OneInserts'
  BY <1>1 DEF IInv, OneInserts
<1>6. (OwnVersion /\ HoldsFresh)'
  BY <1>1 DEF IInv, OwnVersion, HoldsFresh
<1>7. Arrived'
  BY <1>1 DEF IInv, Arrived
<1>8. (DeletedForLater /\ ConflictIsReal)'
  BY <1>1 DEF IInv, DeletedForLater, ConflictIsReal
<1>9. Made'
  <2>1. \A x \in renders : x.by \in Requests
    BY DEF IInv, TypeOK
  <2>2. QED
    BY <1>1, <2>1 DEF IInv, Made
<1>10. RendersAreFresh'
  BY DEF IInv, RendersAreFresh, HoldsFresh
<1>11. QED
  BY <1>3, <1>4, <1>5, <1>6, <1>7, <1>8, <1>9, <1>10 DEF IInv

-----------------------------------------------------------------------------
\* Every step of every request preserves IInv.
LEMMA NextIInv == IInv /\ [Next]_vars => IInv'
<1> SUFFICES ASSUME IInv, [Next]_vars
             PROVE  IInv'
  OBVIOUS
<1>1. ASSUME NEW r \in Requests, UpdateLookup(r) \/ DeleteLookup(r) \/ RenderLookup(r)
      PROVE  IInv'
  BY <1>1, LookupKeeps DEF UpdateLookup, DeleteLookup, RenderLookup
<1>2. ASSUME NEW r \in Requests, NumberVersion(r)
      PROVE  IInv'
  BY <1>2, NumberKeeps
<1>3. ASSUME NEW r \in Requests, FlushVersion(r)
      PROVE  IInv'
  <2>1. request[r].number \notin DOMAIN versions
    BY <1>3 DEF IInv, NumberedInOrder, FlushVersion, Taken
  <2>2. /\ Len(versions) \in Nat /\ DOMAIN versions = 1..Len(versions)
        /\ request[r].number \in Nat /\ arrival[r].length \in Nat
        /\ request[r].pc = "numbered"
    BY <1>3 DEF IInv, TypeOK, FlushVersion
  <2>3. request[r].number > arrival[r].length /\ request[r].number <= Len(versions) + 1
    BY <2>2 DEF IInv, Arrived
  <2>4. request[r].number = Len(versions) + 1
    BY <2>1, <2>2, <2>3
  <2>5. \A q \in Requests : request[q].pc # "flushed"
    BY <1>3, <2>4 DEF IInv, OneInserts, FlushVersion
  <2>6. QED
    BY <1>3, <2>2, <2>4, <2>5, GotoKeeps DEF FlushVersion, Open
<1>4. ASSUME NEW r \in Requests, FlushConflict(r)
      PROVE  IInv'
  <2>1. request[r].number \in DOMAIN versions /\ request[r].pc = "numbered"
    BY <1>4 DEF IInv, NumberedInOrder, FlushConflict, Taken
  <2>2. /\ Len(versions) \in Nat /\ DOMAIN versions = 1..Len(versions)
        /\ arrival[r].length \in Nat
    BY DEF IInv, TypeOK
  <2>3. request[r].number > arrival[r].length
    BY <2>1 DEF IInv, Arrived
  <2>4. Len(versions) > arrival[r].length
    BY <2>1, <2>2, <2>3
  <2>5. QED
    BY <1>4, <2>1, <2>4, GotoKeeps DEF FlushConflict, Open, Closed
<1>5. ASSUME NEW r \in Requests, CommitVersion(r)
      PROVE  IInv'
  BY <1>5, CommitKeeps
<1>6. ASSUME NEW r \in Requests, CommitTouch(r)
      PROVE  IInv'
  BY <1>6, CloseKeeps DEF CommitTouch, IInv, TypeOK, Arrived
<1>7. ASSUME NEW r \in Requests, CommitDelete(r)
      PROVE  IInv'
  <2>1. /\ template' \in [deleted : BOOLEAN, active : Ids]
        /\ template'.active = template.active
        /\ template'.deleted
    BY <1>7 DEF CommitDelete, IInv, TypeOK
  <2>2. /\ [answered EXCEPT !.deleted = TRUE] \in [deleted : BOOLEAN, number : Nat]
        /\ [answered EXCEPT !.deleted = TRUE].number = answered.number
    BY DEF IInv, TypeOK
  <2>3. QED
    BY <1>7, <2>1, <2>2, CloseKeeps DEF CommitDelete
<1>8. ASSUME NEW r \in Requests, LoadVersion(r)
      PROVE  IInv'
  BY <1>8, GotoKeeps DEF LoadVersion, Open, Closed
<1>9. ASSUME NEW r \in Requests, CreateRender(r)
      PROVE  IInv'
  <2>1. \A x \in renders' : x \in renders \/ x = [by |-> r, version |-> request[r].active]
    BY <1>9 DEF CreateRender
  <2>2. /\ answered \in [deleted : BOOLEAN, number : Nat]
        /\ template \in [deleted : BOOLEAN, active : Ids]
        /\ answered.deleted => template.deleted
    BY DEF IInv, TypeOK, Arrived
  <2>3. /\ Close(r, answered) /\ request[r].pc = "creating"
        /\ UNCHANGED <<versions, arrival, template>>
    BY <1>9 DEF CreateRender
  <2>4. QED
    BY <2>1, <2>2, <2>3, CloseKeeps
<1>10. ASSUME NEW r \in Requests, Fail(r)
      PROVE  IInv'
  BY <1>10, GotoKeeps DEF Fail, Closed
<1>11. CASE UNCHANGED vars
  BY <1>11 DEF vars, IInv, TypeOK, Made, NumberedInOrder, LastIsActive, OneInserts,
      OwnVersion, Arrived, HoldsFresh, DeletedForLater, RendersAreFresh, ConflictIsReal
<1>12. QED
  BY <1>1, <1>2, <1>3, <1>4, <1>5, <1>6, <1>7, <1>8, <1>9, <1>10, <1>11
  DEF Next, Step, AllClosed

-----------------------------------------------------------------------------
\* The inductive invariant.
THEOREM Invariance == Spec => []IInv
<1>1. Init => IInv
  BY InitIInv
<1>2. IInv /\ [Next]_vars => IInv'
  BY NextIInv
<1>3. QED
  BY <1>1, <1>2, PTL DEF Spec

\* Rows, requests and ghosts keep to their types.
THEOREM TypeCorrect == Spec => []TypeOK
BY Invariance, PTL DEF IInv

\* Versions are numbered 1, 2, 3, ... in the order of their commits, however many
\* updates read the largest number at the same time.
THEOREM NumbersFollowCommits == Spec => []NumberedInOrder
BY Invariance, PTL DEF IInv

\* No update or render that arrives after an answered DELETE succeeds.
THEOREM DeletionIsFinal == Spec => []DeletedForLater
BY Invariance, PTL DEF IInv

\* A render never uses a version older than the last one its client could know of.
THEOREM RendersSeeAnsweredUpdates == Spec => []RendersAreFresh
BY Invariance, PTL DEF IInv

\* An update loses against the index only to an update that published meanwhile.
THEOREM ConflictsAreReal == Spec => []ConflictIsReal
BY Invariance, PTL DEF IInv
-----------------------------------------------------------------------------
(* The implementation of TemplateHistory.                                  *)

\* The versions' ids, as TemplateHistory sees them.
Published == [i \in DOMAIN versions |-> versions[i].id]

\* The created template is the history's beginning.
LEMMA InitCreated == Init => History!Created
BY DEF Init, History!Created

\* Every step publishes one new version, deletes, or leaves the history alone.
LEMMA NextKept ==
    IInv /\ [Next]_vars => [History!Evolve]_(History!history)
<1> SUFFICES ASSUME IInv, [Next]_vars
             PROVE  [History!Evolve]_(History!history)
  OBVIOUS
<1>1. ASSUME NEW r \in Requests, CommitVersion(r)
      PROVE  History!Publish(r)
  <2> DEFINE v == [id |-> r, number |-> request[r].number]
  <2>1. /\ versions' = Append(versions, v)
        /\ request[r].pc = "flushed"
        /\ template'.active = r /\ template'.deleted = template.deleted
    BY <1>1 DEF CommitVersion, AddVersion, IInv, TypeOK
  <2>2. versions \in Seq([id : Ids, number : Nat]) /\ v \in [id : Ids, number : Nat]
    BY DEF IInv, TypeOK, Ids
  <2>3. /\ DOMAIN versions' = 1..(Len(versions) + 1) /\ Len(versions) \in Nat
        /\ DOMAIN versions = 1..Len(versions)
        /\ \A i \in 1..Len(versions) : versions'[i].id = versions[i].id
        /\ versions'[Len(versions) + 1].id = r
    BY <2>1, <2>2
  <2>4. Published \in Seq(Ids) /\ Len(Published) = Len(versions)
    <3>1. Published \in [1..Len(versions) -> Ids]
      <4>1. \A i \in 1..Len(versions) : versions[i] \in [id : Ids, number : Nat]
        BY <2>2, ElementOfSeq
      <4>2. \A i \in 1..Len(versions) : versions[i].id \in Ids
        BY <4>1
      <4>3. Published = [i \in 1..Len(versions) |-> versions[i].id]
        BY <2>3 DEF Published
      <4>4. QED
        BY <4>2, <4>3
    <3>2. Published \in Seq(Ids)
      BY <2>3, <3>1, SeqDef
    <3>3. QED
      BY <2>3, <3>1, <3>2, LenProperties
  <2>5. Published' = Append(Published, r)
    BY <2>3, <2>4 DEF Published
  <2>6. \A i \in DOMAIN Published : Published[i] # r
    BY <2>1 DEF Published, IInv, OwnVersion
  <2>7. QED
    BY <2>1, <2>5, <2>6 DEF History!Publish, Published
<1>2. ASSUME NEW r \in Requests, CommitDelete(r)
      PROVE  History!Delete
  BY <1>2 DEF CommitDelete, History!Delete, IInv, TypeOK
<1>3. CASE UNCHANGED <<template, versions>>
  BY <1>3 DEF History!history, Published
<1>4. QED
  BY <1>1, <1>2, <1>3
  DEF Next, Step, AllClosed, vars, UpdateLookup, DeleteLookup, RenderLookup, Lookup,
      NumberVersion, FlushVersion, FlushConflict, CommitTouch, LoadVersion, CreateRender,
      Fail, Ids, History!Evolve, History!history, Published

\* The two tables implement the history a user is promised.
THEOREM ImplementsHistory == Spec => KeepsHistory
<1>1. Init => History!Created
  BY InitCreated
<1>2. IInv /\ [Next]_vars => [History!Evolve]_(History!history)
  BY NextKept
<1>3. QED
  BY <1>1, <1>2, Invariance, PTL DEF Spec, KeepsHistory, History!Kept
=============================================================================
