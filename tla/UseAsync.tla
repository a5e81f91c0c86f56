------------------------------ MODULE UseAsync ------------------------------
(***************************************************************************)
(* lib/use-async.ts: the hooks through which every screen of the frontend  *)
(* loads what it shows (useAsync) and does what it is asked (useAction).   *)
(*                                                                         *)
(* A slot is the state of one useAsync: the dependencies its loader last   *)
(* ran with, what it shows, and its status.  A commit that changes the     *)
(* dependencies and the effect that runs the loader are one step: what an  *)
(* answer did between the two, the effect overwrites.                      *)
(***************************************************************************)

CONSTANT Nothing  \* null: not loaded, no result
AsyncStatus == {"loading", "reloading", "ready", "error"}

\* The loader runs again, for dep; what was loaded before stays.
Rerun(slot, dep) ==
    [slot EXCEPT !.dep = dep,
                 !.status = IF slot.data = Nothing THEN "loading"
                                                   ELSE "reloading"]

Mounted(dep) == [dep |-> dep, status |-> "loading", data |-> Nothing]

Retried(slot) == Rerun([slot EXCEPT !.data = Nothing], slot.dep)

Answered(slot, data) == [slot EXCEPT !.data = data, !.status = "ready"]

Failed(slot) == [slot EXCEPT !.status = "error"]

\* setData: what is shown is changed in place, if there is something.
SetData(slot, data) ==
    IF slot.data = Nothing THEN slot ELSE [slot EXCEPT !.data = data]

Loading(slot) == slot.status \in {"loading", "reloading"}

(***************************************************************************)
(* The state of one useAction.  `runs' are the calls under way, by what    *)
(* they were asked; each answers in its own time, and every answer is      *)
(* taken, whatever was asked or reset in between.                          *)
(***************************************************************************)
Idle == [status |-> "idle", result |-> Nothing, runs |-> {}]

ActionStarted(action, what) ==
    [action EXCEPT !.status = "pending", !.runs = @ \cup {what}]

ActionSucceeded(action, what, result) ==
    [status |-> "success", result |-> result, runs |-> action.runs \ {what}]

ActionFailed(action, what) ==
    [action EXCEPT !.status = "error", !.runs = @ \ {what}]

ActionReset(action) ==
    [action EXCEPT !.status = "idle", !.result = Nothing]
=============================================================================
