----------------------------- MODULE MCSession -----------------------------
(***************************************************************************)
(* A session in one tab, with one document, an account, and an address to  *)
(* register that is free; and the upload page of that tab, with two files. *)
(* The upload page shares no state with the rest of the session, so a      *)
(* behaviour here is one of the one or of the other, and the rest stays as *)
(* it begins.                                                              *)
(***************************************************************************)
EXTENDS Session, UploadLimits

CONSTANTS d1

VARIABLES part, jobs, view, effects, clicked, due, started, sending, polled,
          document, retries

Upload == INSTANCE UploadQueue

UploadVars == <<jobs, view, effects, clicked, due, started, sending, polled,
                document, retries>>
AllVars == <<part, vars, UploadVars>>

InitTab ==
    /\ part \in {"session", "upload"} /\ Init /\ Upload!Init
    /\ part = "upload" => path = "/login"

NextTab ==
    /\ \/ part = "session" /\ Next /\ UNCHANGED UploadVars
       \/ part = "upload" /\ Upload!Next /\ UNCHANGED vars
    /\ UNCHANGED part

\* Nothing that fairness asks for can be done where nothing has been dropped,
\* nor in a tab that waits at the sign-in page.
TabSpec == InitTab /\ [][NextTab]_AllVars /\ Fairness /\ Upload!Fairness

OneDocument == <<d1>>
Nowhere == [w \in {} |-> {}]
DemoAccount == [email |-> "demo", password |-> "demo"]

-----------------------------------------------------------------------------
\* No more files of the list are transferred at once than the limit allows.
WithinLimit == Upload!WithinLimit

\* A cancelled upload is not brought back by answers that come late.
CancelSticks == Upload!CancelSticks

\* Every file that waits in the queue is sent or taken back.
EveryFileGetsItsTurn == Upload!EveryFileGetsItsTurn

\* The end of every run is shown for the file it is the run of.
EveryRunIsFollowed == Upload!EveryRunIsFollowed

\* "Cancelling stops them mid-pipeline - nothing partially processed is
\* kept" (upload-view.tsx:706).  Not so: see the README.
TakenBackIsNotSent == Upload!TakenBackIsNotSent
=============================================================================
