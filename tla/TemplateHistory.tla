--------------------------- MODULE TemplateHistory ---------------------------
(***************************************************************************)
(* What a user of one template is promised: a history of versions that     *)
(* only grows, one version at a time; each version is the active one from  *)
(* the moment it appears until the next appears; a deletion is final.      *)
(***************************************************************************)
EXTENDS Sequences

CONSTANTS Ids,     \* the versions that may be published
          Initial  \* the version the template is created with

VARIABLES published, \* the versions, oldest first
          active,    \* the version renders use
          deleted

history == <<published, active, deleted>>

Created == published = <<Initial>> /\ active = Initial /\ deleted = FALSE

Publish(id) ==
    /\ \A i \in DOMAIN published : published[i] # id
    /\ published' = Append(published, id)
    /\ active' = id
    /\ UNCHANGED deleted

Delete == deleted' = TRUE /\ UNCHANGED <<published, active>>

Evolve == Delete \/ \E id \in Ids : Publish(id)

Kept == Created /\ [][Evolve]_history
=============================================================================
