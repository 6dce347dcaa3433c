---------------------------- MODULE RenderStatus ----------------------------
(***************************************************************************)
(* The status enumeration of a render and its transition table             *)
(* (app/models/render.py).  Constant operators only: the table is read by  *)
(* every writer of the status column.                                      *)
(***************************************************************************)

Active   == {"queued", "fetching", "compiling", "rendering", "uploading"}
Terminal == {"succeeded", "failed", "cancelled"}
Status   == Active \cup Terminal

\* The stage a worker enters from each active status.
NextStage == [queued    |-> "fetching",  fetching  |-> "compiling",
              compiling |-> "rendering", rendering |-> "uploading",
              uploading |-> "succeeded"]

\* _TRANSITIONS: any active render may also fail or be cancelled.
AllowedTransitions(s) ==
    IF s \in Active THEN {NextStage[s], "failed", "cancelled"} ELSE {}

CanTransition(s, t) == t \in AllowedTransitions(s)
=============================================================================
