-------------------------- MODULE TemplateVersions --------------------------
(***************************************************************************)
(* One template and the requests that update, delete and render it.  Every *)
(* request reads the template first and writes in a later await, in one    *)
(* transaction of its own session at the database's default isolation      *)
(* (read committed): nothing locks the template in between, and a commit   *)
(* writes the columns the request has changed, whatever the row says now.  *)
(* An update with a composition adds a version, numbered one above the     *)
(* largest number it can see.  The unique index on the numbers, made by    *)
(* the migration, is all that orders two such updates.                     *)
(*                                                                         *)
(* A version never changes once it is inserted, so its composition and     *)
(* schema are left out: its id, the request that made it, stands for them. *)
(* So are the template's name, description and schema, which updates       *)
(* overwrite without a condition, and the locks of the database other than *)
(* the index: where it would abort a transaction to end a deadlock, Fail   *)
(* covers the effect.                                                      *)
(***************************************************************************)
EXTENDS Integers, Sequences

CONSTANTS Requests, \* the requests to the template's endpoints
          Initial   \* the version create_template inserts

ASSUME TemplateAssumption == Initial \notin Requests

VARIABLES template, \* the row: is_deleted and active_version_id
          versions, \* the committed rows of template_versions, oldest first
          renders,  \* the renders created, with the version each was pinned to
          request,  \* each request: control location and what it has read
          answered, \* what answered requests have made known: for properties
          arrival   \* what was known when each request arrived: for properties

vars == <<template, versions, renders, request, answered, arrival>>

Ids    == Requests \cup {Initial}
Closed == {"refused", "conflict", "failed", "done"}
Open   == {"numbering", "numbered", "flushed", "touching", "deleting",
           "loading", "creating"}

TypeOK ==
    /\ template \in [deleted : BOOLEAN, active : Ids]
    /\ versions \in Seq([id : Ids, number : Nat])
    /\ renders \subseteq [by : Requests, version : Ids]
    /\ request \in [Requests -> [pc : {"idle"} \cup Open \cup Closed,
                                 deleted : BOOLEAN, active : Ids, number : Nat]]
    /\ answered \in [deleted : BOOLEAN, number : Nat]
    /\ arrival \in [Requests -> [deleted : BOOLEAN, number : Nat, length : Nat]]

\* create_template: the template and version 1, in one commit.
Init ==
    /\ template = [deleted |-> FALSE, active |-> Initial]
    /\ versions = <<[id |-> Initial, number |-> 1]>>
    /\ renders = {}
    /\ request = [r \in Requests |->
           [pc |-> "idle", deleted |-> FALSE, active |-> Initial, number |-> 0]]
    /\ answered = [deleted |-> FALSE, number |-> 1]
    /\ arrival = [r \in Requests |-> [deleted |-> FALSE, number |-> 0, length |-> 0]]

Goto(r, pc) == request' = [request EXCEPT ![r].pc = pc]

-----------------------------------------------------------------------------
\* The read every handler starts with.  The session keeps the instance: later
\* reads in the same session do not renew it.
Lookup(r, next) ==
    /\ request[r].pc = "idle"
    /\ request' = [request EXCEPT ![r].pc = IF template.deleted THEN "refused" ELSE next,
                                  ![r].deleted = template.deleted,
                                  ![r].active = template.active]
    /\ arrival' = [arrival EXCEPT ![r] = [deleted |-> answered.deleted,
                                          number |-> answered.number,
                                          length |-> Len(versions)]]
    /\ UNCHANGED <<template, versions, renders, answered>>

\* PUT /v1/templates/{id}: with a composition, or only with other fields.
UpdateLookup(r) == Lookup(r, "numbering") \/ Lookup(r, "touching")
DeleteLookup(r) == Lookup(r, "deleting")
RenderLookup(r) == Lookup(r, "loading")

-----------------------------------------------------------------------------
(* update_template.                                                        *)

\* The largest number of a committed version.
MaxNumber ==
    LET numbers == {versions[i].number : i \in DOMAIN versions}
    IN  CHOOSE n \in numbers : \A m \in numbers : n >= m

NumberVersion(r) ==
    /\ request[r].pc = "numbering"
    /\ request' = [request EXCEPT ![r].pc = "numbered", ![r].number = MaxNumber + 1]
    /\ UNCHANGED <<template, versions, renders, answered, arrival>>

Taken(n) == \E i \in DOMAIN versions : versions[i].number = n

\* Mutant of FlushVersion: the index does not exist.
FlushVersionUnindexed(r) ==
    /\ request[r].pc = "numbered"
    /\ Goto(r, "flushed")
    /\ UNCHANGED <<template, versions, renders, answered, arrival>>

\* The insert, not committed yet.  On the index it waits for the transaction
\* that has inserted the same number, ...
FlushVersion(r) ==
    /\ request[r].pc = "numbered"
    /\ ~Taken(request[r].number)
    /\ \A q \in Requests : request[q].pc = "flushed" =>
           request[q].number # request[r].number
    /\ Goto(r, "flushed")
    /\ UNCHANGED <<template, versions, renders, answered, arrival>>

\* ... and fails if that one commits: 500, and nothing retries.
FlushConflict(r) ==
    /\ request[r].pc = "numbered"
    /\ Taken(request[r].number)
    /\ Goto(r, "conflict")
    /\ UNCHANGED <<template, versions, renders, answered, arrival>>

\* After the commit the row is refreshed, which may fail: the client is then
\* told 500 although the change stands.
Close(r, known) ==
    \/ Goto(r, "done") /\ answered' = known
    \/ Goto(r, "failed") /\ UNCHANGED answered

AddVersion(r) ==
    versions' = Append(versions, [id |-> r, number |-> request[r].number])

Known(n) == [answered EXCEPT !.number = IF n > @ THEN n ELSE @]

\* Mutant of CommitVersion: the session writes back the whole row it has read.
CommitVersionSavesRow(r) ==
    /\ request[r].pc = "flushed"
    /\ AddVersion(r)
    /\ template' = [deleted |-> request[r].deleted, active |-> r]
    /\ Close(r, Known(request[r].number))
    /\ UNCHANGED <<renders, arrival>>

\* Mutant of CommitVersion: a version that became active meanwhile stays so.
CommitVersionIfUnchanged(r) ==
    /\ request[r].pc = "flushed"
    /\ AddVersion(r)
    /\ template' = [template EXCEPT !.active = IF @ = request[r].active THEN r ELSE @]
    /\ Close(r, Known(request[r].number))
    /\ UNCHANGED <<renders, arrival>>

\* One commit makes the version visible and active.
CommitVersion(r) ==
    /\ request[r].pc = "flushed"
    /\ AddVersion(r)
    /\ template' = [template EXCEPT !.active = r]
    /\ Close(r, Known(request[r].number))
    /\ UNCHANGED <<renders, arrival>>

\* Without a composition: the other columns only, and no version.
CommitTouch(r) ==
    /\ request[r].pc = "touching"
    /\ Close(r, answered)
    /\ UNCHANGED <<template, versions, renders, arrival>>

-----------------------------------------------------------------------------
\* soft_delete_template: its own check reads the snapshot again, so that two
\* concurrent deletions both succeed.
CommitDelete(r) ==
    /\ request[r].pc = "deleting"
    /\ template' = [template EXCEPT !.deleted = TRUE]
    /\ Close(r, [answered EXCEPT !.deleted = TRUE])
    /\ UNCHANGED <<versions, renders, arrival>>

-----------------------------------------------------------------------------
(* POST /v1/templates/{id}/renders.                                        *)

\* The version that was active at the lookup is loaded and expanded.  The merge
\* data, the expansion, the limits and the queue may each refuse the request.
LoadVersion(r) ==
    /\ request[r].pc = "loading"
    /\ \/ /\ \E i \in DOMAIN versions : versions[i].id = request[r].active
          /\ Goto(r, "creating")
       \/ Goto(r, "refused")
    /\ UNCHANGED <<template, versions, renders, answered, arrival>>

\* create_render; the rest of the handler is that of a render without template.
CreateRender(r) ==
    /\ request[r].pc = "creating"
    /\ renders' = renders \cup {[by |-> r, version |-> request[r].active]}
    /\ Close(r, answered)
    /\ UNCHANGED <<template, versions, arrival>>

-----------------------------------------------------------------------------
\* A statement of the session fails, or the handler is cancelled or dies: the
\* transaction is rolled back.
Fail(r) ==
    /\ request[r].pc \in Open
    /\ Goto(r, "failed")
    /\ UNCHANGED <<template, versions, renders, answered, arrival>>

AllClosed == (\A r \in Requests : request[r].pc \in Closed) /\ UNCHANGED vars

Step(r) == \/ UpdateLookup(r) \/ NumberVersion(r) \/ FlushVersion(r) \/ FlushConflict(r)
           \/ CommitVersion(r) \/ CommitTouch(r)
           \/ DeleteLookup(r) \/ CommitDelete(r)
           \/ RenderLookup(r) \/ LoadVersion(r) \/ CreateRender(r)
           \/ Fail(r)

Next == AllClosed \/ \E r \in Requests : Step(r)

Spec == Init /\ [][Next]_vars

-----------------------------------------------------------------------------
(* Properties.                                                             *)

\* The numbers of the versions are 1, 2, 3, ... in the order of their commits,
\* although every number was read before others could commit theirs.
NumberedInOrder == \A i \in DOMAIN versions : versions[i].number = i

\* A request that arrives after a DELETE has been answered neither updates nor
\* renders the template: no update under way brings it back.
DeletedForLater ==
    \A r \in Requests : arrival[r].deleted => request[r].pc \in {"idle", "refused"}

\* A render that arrives after an update has been answered uses the version of
\* that update or a later one.
RendersAreFresh ==
    \A x \in renders : \E i \in DOMAIN versions :
        /\ versions[i].id = x.version
        /\ versions[i].number >= arrival[x.by].number

\* An update is refused for its number only if another update has published a
\* version since it arrived.
ConflictIsReal ==
    \A r \in Requests : request[r].pc = "conflict" => Len(versions) > arrival[r].length

\* The rows of the two tables together are one history (see TemplateHistory).
History == INSTANCE TemplateHistory
    WITH published <- [i \in DOMAIN versions |-> versions[i].id],
         active <- template.active, deleted <- template.deleted

KeepsHistory == History!Kept
=============================================================================
