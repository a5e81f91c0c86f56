------------------------------ MODULE Session ------------------------------
(***************************************************************************)
(* A session in one tab: the sign-in pages, and the frame round the pages  *)
(* of the workspace, whose content is the subject of Workspace.            *)
(***************************************************************************)
CONSTANTS
    Newest, UPSTREAM_PAGE_SIZE, MAX_PAGES, Words, Blank, Holds, Filters, Nothing,
    Empty, Emails, IsEmail, Taken, Unreachable,
    Passwords, LongEnough, Strong, Breached, Names, DEMO, MaxRuns, MaxReads,
    Visited,  \* bound: the pages of the rail that are visited
    MaxLoads  \* bound: how often the tab is loaded

VARIABLES library, path, shell, st, mem

INSTANCE Shell
INSTANCE SignInPages

vars == <<library, path, shell, st, mem>>

Pages == EXCLUDED \cup Visited

Content(p) == IF p \in EXCLUDED THEN PageOfPath(p)
                                  ELSE [content |-> p]

Init ==
    /\ library = [d \in Docs |-> "absent"]
    /\ path \in {"/login", "/dashboard"}
    /\ \E asked \in BOOLEAN :
           shell = Arrived(Loaded(NewBrowser, path, asked), path)
    /\ st = Content(path) /\ mem = NoMemory

\* Bounds: the frame is used and the tab loaded only while no sign-in and no
\* lock-out is under way; one registers in a tab that has just been opened
\* and no attempt has failed, and signs out when the splash is gone, the
\* window and the rail are as at first and no document is in the pipeline.
Quiet == mem = [NoMemory EXCEPT !.attempts = mem.attempts]
MayRegister == mem.attempts = Attempts /\ shell.narrow = Nothing /\ shell.loads = 1
MaySignOut ==
    /\ ~ Curtain /\ shell.wide /\ ~ shell.stored
    /\ \A d \in Docs : library[d] \notin InPipeline

\* A link.  "Sign out" is one of the workspace; nothing keeps a
\* page of the workspace from one who has not signed in.
Goto(p) ==
    /\ p # path /\ (p = "/register" => MayRegister)
    /\ \/ ~ Framed(path) /\ p \in Leads
       \/ Framed(path) /\ p \in Visited
       \/ Framed(path) /\ p = "/login" /\ MaySignOut
    /\ path' = p /\ st' = Content(p) /\ shell' = Arrived(shell, p)
    /\ mem' = Left(mem) /\ UNCHANGED library

\* The push of a sign-in that succeeded takes the user to the dashboard,
\* also from another page of the workspace; who is there stays.
Push ==
    /\ mem.pushing /\ mem' = Left(mem)
    /\ IF path = "/dashboard" THEN UNCHANGED <<path, st, shell>>
       ELSE /\ path' = "/dashboard" /\ st' = Content(path')
            /\ shell' = Arrived(shell, path')
    /\ UNCHANGED library

\* The tab is loaded again, at any page.
Load(p, asked) ==
    /\ Quiet /\ shell.loads < MaxLoads
    /\ path' = p /\ st' = Content(p) /\ mem' = NoMemory
    /\ shell' = Arrived(Loaded(shell, p, asked), p)
    /\ UNCHANGED library

\* Documents change whatever is open (bound: not while signing in, where
\* nothing shows them).
Library ==
    /\ Framed(path) /\ Quiet
    /\ \E d \in Docs, status \in Statuses :
           Becomes(library, d, status) /\ library' = [library EXCEPT ![d] = status]
    /\ UNCHANGED <<path, shell, st, mem>>

Frame == Quiet /\ ShellSteps /\ UNCHANGED <<st, mem>>
Account == SignInSteps /\ UNCHANGED <<library, shell>>

Next ==
    \/ \E p \in Pages : Goto(p)
    \/ \E p \in {"/login", "/dashboard"}, asked \in BOOLEAN : Load(p, asked)
    \/ Push \/ Library \/ Frame \/ Account

Spec == Init /\ [][Next]_vars

\* The interval ticks; the service reads, and its answer comes, asked again
\* and again.  Every read ends; sign-ins are answered, the push of one arrives
\* and the timer ends.
Fairness ==
    /\ WF_vars(Quiet /\ Tick /\ UNCHANGED <<st, mem>>)
    /\ SF_vars(Quiet /\ CountsRead /\ UNCHANGED <<st, mem>>)
    /\ SF_vars(Quiet /\ CountsAnswer(DocumentCounts(library)) /\ UNCHANGED <<st, mem>>)
    /\ WF_vars(/\ Quiet /\ UNCHANGED <<st, mem>>
               /\ \E next \in shell.reads : CountsAnswer(next) \/ CountsFail(next))
    /\ WF_vars(Push \/ /\ UNCHANGED <<library, shell>>
                       /\ \/ LockEnds
                          \/ \E good \in BOOLEAN : SignInAnswers(good) \/ LateAnswers(good))

FairSpec == Spec /\ Fairness

-----------------------------------------------------------------------------
\* The badges of a page catch up with the library.
BadgesCatchUp == Behind ~> ~ Behind
=============================================================================
