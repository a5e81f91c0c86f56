---------------------------- MODULE SignInPages ----------------------------
(***************************************************************************)
(* app/login/login-view.tsx and app/register/register-view.tsx, with the   *)
(* stand-in for an account service that they use (lib/api.ts).             *)
(*                                                                         *)
(* `path' is the page that is open, `st' its state; `mem' is the state of  *)
(* lib/api.ts, which lasts as long as the tab: the attempts that remain,   *)
(* the timers of lock-outs, the calls of signIn under way, those with the  *)
(* right credentials and the others, apart those whose page has been left, *)
(* and whether a sign-in that succeeded is on its way to the dashboard.    *)
(***************************************************************************)
EXTENDS Integers, FiniteSets

CONSTANTS
    Empty,                 \* nothing typed
    Emails, IsEmail,       \* what is typed for one, and what passes as one
    Taken, Unreachable,    \* addresses with an account, and with no mailbox
    Passwords, LongEnough, \* at least 8 characters
    Strong, Breached,      \* score 3 or 4, and on the list of breaches
    Names,                 \* of people and workspaces; all but Empty will do
    DEMO,                  \* the only account: [email, password]
    MaxRuns                \* bound: calls under way

VARIABLES path, st, mem

Attempts == 3
Fields == {"name", "email", "org", "password", "confirm"}

Typed(field) == CASE field = "email" -> Emails
                  [] field \in {"name", "org"} -> Names
                  [] OTHER -> Passwords

LoginPage == [email |-> Empty, password |-> Empty, status |-> "idle",
              error |-> FALSE]

RegisterPage == [values |-> [field \in Fields |-> Empty], accepted |-> FALSE,
                 status |-> "idle", errorOn |-> "none", resend |-> "idle",
                 sentTo |-> Empty, resends |-> {}]

NoCalls == [good \in BOOLEAN |-> 0]

NoMemory == [attempts |-> Attempts, timers |-> 0,
             calls |-> NoCalls, late |-> NoCalls, pushing |-> FALSE]

\* The login page is left: nobody hears its calls any more, and a push of
\* the router is overtaken by the navigation.
Left(m) ==
    [m EXCEPT !.calls = NoCalls, !.pushing = FALSE,
              !.late = [good \in BOOLEAN |-> @[good] + m.calls[good]]]

-----------------------------------------------------------------------------
(***************************************************************************)
(* Sign-in.                                                                *)
(***************************************************************************)
canSignIn ==
    /\ st.email \in IsEmail /\ st.password \in LongEnough
    /\ st.status \notin {"submitting", "locked"}

\* The inputs are disabled while submitting; typing takes a rejection back.
TypeLogin(field, value) ==
    /\ path = "/login" /\ st.status \notin {"submitting", "success"}
    /\ st' = [st EXCEPT ![field] = value, !.error = FALSE,
                        !.status = IF @ \in {"error", "locked"} THEN "idle" ELSE @]
    /\ UNCHANGED <<path, mem>>

\* "Fill" is never disabled.
Fill ==
    /\ path = "/login"
    /\ st' = [LoginPage EXCEPT !.email = DEMO.email, !.password = DEMO.password]
    /\ UNCHANGED <<path, mem>>

SubmitLogin ==
    /\ path = "/login" /\ canSignIn
    /\ mem.calls[TRUE] + mem.calls[FALSE] + mem.late[TRUE] + mem.late[FALSE] < MaxRuns
    /\ LET good == st.email = DEMO.email /\ st.password = DEMO.password
       IN  mem' = [mem EXCEPT !.calls[good] = @ + 1]
    /\ st' = [st EXCEPT !.status = "submitting", !.error = FALSE]
    /\ UNCHANGED path

\* Mutant: who is locked out is found out at the end only.
signInUnguarded(m, good) ==
    IF good
    THEN [result |-> "ok", mem |-> [m EXCEPT !.attempts = Attempts]]
    ELSE IF m.attempts <= 1
    THEN [result |-> "locked", mem |-> [m EXCEPT !.attempts = @ - 1, !.timers = @ + 1]]
    ELSE [result |-> "error", mem |-> [m EXCEPT !.attempts = @ - 1]]

\* What signIn does when its pause is over, all at once.
signIn(m, good) ==
    IF m.attempts <= 0 THEN [result |-> "locked", mem |-> m]
    ELSE IF good
    THEN [result |-> "ok", mem |-> [m EXCEPT !.attempts = Attempts]]
    ELSE IF m.attempts = 1
    THEN [result |-> "locked", mem |-> [m EXCEPT !.attempts = 0, !.timers = @ + 1]]
    ELSE [result |-> "error", mem |-> [m EXCEPT !.attempts = @ - 1]]

\* A success pushes the router wherever the user is by then; the state of a
\* page that has been left is nobody's.
Pushed(m, result) == [m EXCEPT !.pushing = @ \/ result = "ok"]

SignInAnswers(good) ==
    /\ path = "/login" /\ mem.calls[good] > 0
    /\ LET done == signIn([mem EXCEPT !.calls[good] = @ - 1], good)
       IN  /\ mem' = Pushed(done.mem, done.result)
           /\ st' = IF done.result = "ok" THEN [st EXCEPT !.status = "success"]
                    ELSE [st EXCEPT !.status = done.result, !.error = TRUE]
    /\ UNCHANGED path

LateAnswers(good) ==
    /\ mem.late[good] > 0
    /\ LET done == signIn([mem EXCEPT !.late[good] = @ - 1], good)
       IN  mem' = Pushed(done.mem, done.result)
    /\ UNCHANGED <<path, st>>

LockEnds ==
    /\ mem.timers > 0
    /\ mem' = [mem EXCEPT !.attempts = Attempts, !.timers = @ - 1]
    /\ UNCHANGED <<path, st>>

-----------------------------------------------------------------------------
(***************************************************************************)
(* Registration.                                                           *)
(***************************************************************************)
\* errors: the fields that the form itself finds fault with.
errors(values) ==
    {field \in Fields :
        CASE field = "email"    -> values.email \notin IsEmail
          [] field = "password" -> values.password \notin Strong
          [] field = "confirm"  -> values.confirm # values.password
          [] OTHER              -> values[field] = Empty}

canRegister ==
    errors(st.values) = {} /\ st.accepted /\ st.status # "submitting"

OnForm == path = "/register" /\ st.status # "success"

\* Mutant: a field can be edited while the form is being sent.
EditableAlways == OnForm

\* The fields are disabled while submitting.
Editable == OnForm /\ st.status # "submitting"

TypeRegister(field, value) ==
    /\ Editable /\ value # st.values[field]
    /\ st' = [st EXCEPT !.values[field] = value,
                        !.errorOn = IF @ = field THEN "none" ELSE @,
                        !.status = IF @ = "error" THEN "idle" ELSE @]
    /\ UNCHANGED <<path, mem>>

Accept ==
    /\ OnForm
    /\ st' = [st EXCEPT !.accepted = ~ @]
    /\ UNCHANGED <<path, mem>>

\* What was sent is kept in sentTo until it is answered.
SubmitRegister ==
    /\ OnForm /\ canRegister
    /\ st' = [st EXCEPT !.status = "submitting", !.errorOn = "none",
                        !.sentTo = st.values.email]
    /\ UNCHANGED <<path, mem>>

\* signUp: the field that the service rejects, or "none".
signUp(input) == CASE input.email \in Taken       -> "email"
                   [] input.password \in Breached -> "password"
                   [] OTHER                       -> "none"

SignUpAnswers ==
    /\ path = "/register" /\ st.status = "submitting"
    /\ LET field == signUp([st.values EXCEPT !.email = st.sentTo])
       IN  st' = IF field = "none" THEN [st EXCEPT !.status = "success"]
                 ELSE [st EXCEPT !.status = "error", !.errorOn = field]
    /\ UNCHANGED <<path, mem>>

OnVerify == path = "/register" /\ st.status = "success"

Resend ==
    /\ OnVerify /\ st.resend # "sending"
    /\ st.values.email \notin st.resends
    /\ st' = [st EXCEPT !.resend = "sending", !.resends = @ \cup {st.values.email}]
    /\ UNCHANGED <<path, mem>>

ResendAnswers(email) ==
    /\ path = "/register" /\ email \in st.resends
    /\ st' = [st EXCEPT !.resends = @ \ {email},
                 !.resend = IF email \in Unreachable THEN "failed" ELSE "sent"]
    /\ UNCHANGED <<path, mem>>

\* "Wrong address? Go back": a resend under way is not stopped.
GoBack ==
    /\ OnVerify
    /\ st' = [st EXCEPT !.status = "idle", !.resend = "idle"]
    /\ UNCHANGED <<path, mem>>

-----------------------------------------------------------------------------
PageOfPath(p) == IF p = "/login" THEN LoginPage ELSE RegisterPage

\* Where the links of the two pages lead: to each other, and from the
\* verification screen into the workspace.
Leads ==
    CASE path = "/login" -> {"/register"}
      [] OnVerify        -> {"/dashboard"}
      [] OTHER           -> {"/login"}

SignInSteps ==
    \/ \E field \in {"email", "password"} :
           \E value \in Typed(field) : TypeLogin(field, value)
    \/ \E field \in Fields :
           \E value \in Typed(field) : TypeRegister(field, value)
    \/ \E good \in BOOLEAN : SignInAnswers(good) \/ LateAnswers(good)
    \/ \E email \in Emails : ResendAnswers(email)
    \/ Fill \/ SubmitLogin \/ LockEnds
    \/ Accept \/ SubmitRegister \/ SignUpAnswers \/ Resend \/ GoBack

-----------------------------------------------------------------------------
\* A lock-out lasts its 20 seconds and no longer than that: while no attempt
\* remains exactly one timer runs, and at no other time, so that no timer of
\* an earlier lock-out ends a later one (api.ts:167), even when "Fill" has
\* let several sign-ins overlap.
LockIsTimed ==
    /\ mem.attempts >= 0
    /\ mem.timers = IF mem.attempts = 0 THEN 1 ELSE 0

\* The screen that says where the verification link was sent shows the
\* address that was registered, which it reads from the form and not from
\* the answer (register-view.tsx:165).
VerificationIsForTheShown ==
    OnVerify => st.sentTo = st.values.email
=============================================================================
