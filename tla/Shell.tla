------------------------------- MODULE Shell -------------------------------
(***************************************************************************)
(* The frame round every page of the workspace: the side rail and its      *)
(* store (components/shell/sidebar.tsx, sidebar-state.tsx), its badges     *)
(* (lib/use-health.ts), the top bar, and the splash a session opens on     *)
(* (components/shell/intro.tsx).                                           *)
(*                                                                         *)
(* `shell' has what the modules keep while the tab is not loaded again,    *)
(* what the browser keeps (wide, stored, seen), and the badges.            *)
(***************************************************************************)
EXTENDS ServerDocuments

CONSTANTS
    Nothing,  \* null: not read yet
    MaxReads  \* bound: reads of the counts under way

VARIABLES library, path, shell

EXCLUDED == {"/login", "/register"}
Links == {"/dashboard", "/chat", "/upload", "/documents"}

Framed(p) == p \notin EXCLUDED

-----------------------------------------------------------------------------
\* The counts route.
DocumentCounts(in) ==
    [total |-> Cardinality(Uploaded(in)),
     inFlight |-> Count(in, "queued") + Count(in, "processing")]

NoCounts == [total |-> 0, inFlight |-> 0]

\* The tab is loaded at `p', with ?intro or without: introInitScript, and
\* the modules' state as it is at first.
Loaded(s, p, asked) ==
    LET play == p \notin EXCLUDED /\ (asked \/ ~ s.seen)
    IN  [s EXCEPT !.narrow = Nothing, !.collapsed = Nothing, !.overlay = FALSE,
                  !.counts = NoCounts, !.reads = {},
                  !.play = play, !.showing = TRUE, !.seen = @ \/ play,
                  !.loads = @ + 1]

NewBrowser ==
    [wide |-> TRUE, stored |-> FALSE, seen |-> FALSE, narrow |-> Nothing,
     collapsed |-> Nothing, overlay |-> FALSE, counts |-> NoCounts, reads |-> {},
     play |-> FALSE, showing |-> TRUE, loads |-> 0]

\* The first render of the frame reads the two snapshots, unless they have
\* been read, and arriving at a page closes a floating rail.
Arrived(s, p) ==
    IF Framed(p)
    THEN [s EXCEPT !.overlay = FALSE,
                   !.narrow = IF @ = Nothing THEN ~ s.wide ELSE @,
                   !.collapsed = IF @ = Nothing THEN s.stored ELSE @]
    ELSE [s EXCEPT !.counts = NoCounts, !.reads = {}]

-----------------------------------------------------------------------------
\* useSidebar: what the rail looks like.
railCollapsed == IF shell.narrow THEN ~ shell.overlay ELSE shell.collapsed
floating == shell.narrow /\ shell.overlay

\* The button of the top bar and the "[" key.
toggle ==
    /\ Framed(path)
    /\ shell' = IF shell.narrow THEN [shell EXCEPT !.overlay = ~ @]
                ELSE [shell EXCEPT !.collapsed = ~ @, !.stored = ~ shell.collapsed]
    /\ UNCHANGED <<library, path>>

\* Escape, and a click beside the floating rail.
Dismiss ==
    /\ Framed(path) /\ floating
    /\ shell' = [shell EXCEPT !.overlay = FALSE]
    /\ UNCHANGED <<library, path>>

\* What the frame hears of a resize: leaving narrow drops an open rail.
onChange(s) == [s EXCEPT !.wide = ~ @, !.narrow = s.wide, !.overlay = s.wide /\ @]

\* The window is resized past 1023 pixels.  Only a frame that is mounted
\* listens.
Resize ==
    /\ shell' = IF Framed(path) THEN onChange(shell) ELSE [shell EXCEPT !.wide = ~ @]
    /\ UNCHANGED <<library, path>>

\* The items of the rail that are marked as the page that is open.
Active(href) == href = path

-----------------------------------------------------------------------------
(***************************************************************************)
(* The splash: a fixed hold, over a page that is there all the while.      *)
(***************************************************************************)
Curtain == Framed(path) /\ shell.play /\ shell.showing

Lift ==
    /\ Curtain
    /\ shell' = [shell EXCEPT !.showing = FALSE]
    /\ UNCHANGED <<library, path>>

-----------------------------------------------------------------------------
(***************************************************************************)
(* useDocumentCounts: a read is started every 15 s, whether or not the     *)
(* last one was answered.  One under way is what it has read, or Nothing;  *)
(* those that have read the same are one.                                  *)
(***************************************************************************)
\* Mutant: the timer is only set by a read that succeeded.
TicksAfterSuccess == shell.counts # NoCounts

Ticks == Framed(path)

Tick ==
    /\ Ticks /\ Nothing \notin shell.reads
    /\ Cardinality(shell.reads) < MaxReads
    /\ shell' = [shell EXCEPT !.reads = @ \cup {Nothing}]
    /\ UNCHANGED <<library, path>>

CountsRead ==
    /\ Nothing \in shell.reads
    /\ shell' = [shell EXCEPT !.reads = (@ \ {Nothing}) \cup {DocumentCounts(library)}]
    /\ UNCHANGED <<library, path>>

CountsAnswer(next) ==
    /\ next \in shell.reads \ {Nothing}
    /\ shell' = [shell EXCEPT !.reads = @ \ {next}, !.counts = next]
    /\ UNCHANGED <<library, path>>

\* The badges keep what they show.
CountsFail(next) ==
    /\ next \in shell.reads
    /\ shell' = [shell EXCEPT !.reads = @ \ {next}]
    /\ UNCHANGED <<library, path>>

ShellSteps ==
    \/ toggle \/ Dismiss \/ Resize \/ Lift \/ Tick \/ CountsRead
    \/ \E next \in shell.reads : CountsAnswer(next) \/ CountsFail(next)

-----------------------------------------------------------------------------
\* The badges fall behind the library when an old answer comes last or a
\* read fails, but not for good: the next tick reads it again.
Behind == Framed(path) /\ shell.counts # DocumentCounts(library)
=============================================================================
