------------------------------- MODULE Palette -------------------------------
(***************************************************************************)
(* The command palette (components/search) and the library cache behind it *)
(* (lib/api.ts), which it shares with the scope counter of the chat page.  *)
(*                                                                         *)
(* Each of the two reads through a useAsync.  A call of its loader gets    *)
(* the library from the cache, joins the request under way, or sends one   *)
(* with its own abort signal; running the loader again, or closing the     *)
(* palette, aborts the previous call.  A call that is no longer the        *)
(* latest may still be waiting for a request another one sent.  Everything *)
(* from a call to the promise it waits for happens before the next event,  *)
(* as does the rejection of what an abort ends.                            *)
(***************************************************************************)
EXTENDS SearchRank, UseAsync

CONSTANTS
    Queries,     \* what may be typed, Blank for nothing
    Blank,
    Terms,       \* the terms of each query
    Scopes,      \* ChatScope
    First        \* the library when the application is loaded

\* A library is the status of every document.
Libraries ==
    {[d \in DOMAIN Name |-> IF d \notin listed THEN "absent"
                            ELSE IF d \in done THEN "completed" ELSE "processing"] :
        listed, done \in SUBSET DOMAIN Name}

ASSUME PaletteAssumption ==
    Blank \in Queries /\ Terms \in [Queries -> Seq(STRING)] /\ First \in Libraries

VARIABLES
    library,     \* the status of every document, on the server
    cache,       \* libraryCache, or Nothing
    inFlight,    \* the request libraryInFlight stands for, or 0
    fetches,     \* requests on their way: number, caller, rows once read
    calls,       \* calls that wait for one: caller, dependency, live
    index,       \* the library the cached corpus was built from, or Nothing
    hooks,       \* the useAsync of the palette and of the scope counter
    query, selected,  \* what is typed, the place of the cursor
    settled      \* uploads that crossed no answer on its way

memory == <<cache, inFlight, fetches, calls, index, hooks>>
ui == <<query, selected>>
vars == <<library, memory, ui, settled>>

Callers == {"palette", "scope"}
Closed == [dep |-> Nothing, status |-> "closed", data |-> Nothing]
open == hooks["palette"] # Closed

Init ==
    /\ library = First
    /\ cache = Nothing /\ inFlight = 0 /\ fetches = {} /\ calls = {}
    /\ index = Nothing
    /\ hooks = [w \in Callers |-> Closed]
    /\ query = Blank /\ selected = 1
    /\ settled = {}

-----------------------------------------------------------------------------
\* A response, kept as the query and the library it was computed from.
Response(q, rows) == [query |-> q, rows |-> rows]

Hits(data) ==
    IF data.query = Blank THEN Suggestions(data.rows)
    ELSE Scored(Corpus(data.rows), Terms[data.query])

\* What each query finds in each state of the library, as groups.
Found == [q \in Queries |-> [rows \in Libraries |->
             GroupHits(Hits(Response(q, rows)))]]

Groups(data) == Found[data.query][data.rows]

RowsOf == [q \in Queries |-> [rows \in Libraries |->
              LET groups == Found[q][rows]
              IN  FlattenSeq([i \in DOMAIN groups |-> groups[i].hits])]]

Accounted == [q \in Queries |-> [rows \in Libraries |->
                 AddUp(Found[q][rows], Hits(Response(q, rows)))]]

Flat(slot) ==
    IF slot.data = Nothing THEN <<>> ELSE RowsOf[slot.data.query][slot.data.rows]

\* The corpus is built by the first search with a query, and kept.
IndexAfter(asked, rows) ==
    IF index = Nothing /\ \E q \in asked : q # Blank THEN rows ELSE index

\* What a caller's loader makes of the library.
AnswerOf(who, dep, rows) ==
    IF who = "scope" THEN Cardinality({d \in DOMAIN rows : rows[d] # "absent"})
    ELSE Response(dep, IF dep = Blank \/ index = Nothing THEN rows ELSE index)

-----------------------------------------------------------------------------
\* The requests that end when `who' aborts its last call, and who waits.
Ended(who) == {f \in fetches : f.by = who}
Left(who) == {c \in calls : \A f \in Ended(who) : c.on # f.n}
Dead(who) == {IF c.who = who THEN [c EXCEPT !.live = FALSE] ELSE c :
                 c \in Left(who)}

Number == CHOOSE n \in 1 .. 4 : \A f \in fetches : f.n # n

Call(who, dep, n) == [who |-> who, dep |-> dep, on |-> n, live |-> TRUE]

\* loadLibrary for a call of `who' whose slot is now `slot'.  The request
\* that `who' had sent is still libraryInFlight when the new call looks, so
\* the new call joins it and is rejected with it.
Load(who, slot) ==
    LET dep == slot.dep
        doomed == \E f \in Ended(who) : f.n = inFlight
        asked == IF who = "palette" THEN {dep} ELSE {}
        rejected == Ended(who) # {}
    IN  \/ /\ cache # Nothing
           /\ hooks' = [hooks EXCEPT ![who] =
                            Answered(slot, AnswerOf(who, dep, cache))]
           /\ index' = IndexAfter(asked, cache)
           /\ fetches' = fetches \ Ended(who)
           /\ calls' = Dead(who)
           /\ inFlight' = IF rejected THEN 0 ELSE inFlight
           /\ UNCHANGED cache
        \/ /\ cache = Nothing
           /\ hooks' = [hooks EXCEPT ![who] = slot]
           /\ \/ /\ doomed
                 /\ fetches' = fetches \ Ended(who)
                 /\ calls' = Dead(who)
                 /\ inFlight' = 0
              \/ /\ ~ doomed /\ inFlight # 0
                 /\ fetches' = fetches \ Ended(who)
                 /\ calls' = Dead(who) \cup {Call(who, dep, inFlight)}
                 /\ inFlight' = IF rejected THEN 0 ELSE inFlight
              \/ /\ inFlight = 0
                 /\ fetches' = (fetches \ Ended(who)) \cup
                        {[n |-> Number, by |-> who, rows |-> Nothing]}
                 /\ calls' = Dead(who) \cup {Call(who, dep, Number)}
                 /\ inFlight' = IF rejected THEN 0 ELSE Number
           /\ UNCHANGED <<cache, index>>

\* Unmounting: the last call is aborted and none follows.
Unload(who) ==
    /\ fetches' = fetches \ Ended(who)
    /\ calls' = Dead(who)
    /\ inFlight' = IF Ended(who) # {} THEN 0 ELSE inFlight
    /\ hooks' = [hooks EXCEPT ![who] = Closed]
    /\ UNCHANGED <<cache, index>>

ServerReads(f) ==
    /\ f.rows = Nothing
    /\ fetches' = (fetches \ {f}) \cup {[f EXCEPT !.rows = library]}
    /\ UNCHANGED <<library, cache, inFlight, calls, index, hooks, ui, settled>>

\* Mutant: every answer is taken, also of calls that were superseded.
CountsAlways(c) == TRUE

\* useAsync takes the answer of its latest call only.
Counts(c) == c.live

\* Of calls that one promise answers, the one that is answered last.
Latest(same) == CHOOSE c \in same : c.live \/ \A x \in same : ~ x.live

\* Whatever was invalidated since the request was sent, its answer is cached.
Arrives(f) ==
    LET waiting == {c \in calls : c.on = f.n}
        Of(who) == {c \in waiting : c.who = who /\ Counts(c)}
        asked == {c.dep : c \in {x \in waiting : x.who = "palette"}}
    IN  /\ f.rows # Nothing
        /\ fetches' = fetches \ {f}
        /\ calls' = calls \ waiting
        /\ cache' = f.rows
        /\ inFlight' = 0
        /\ index' = IndexAfter(asked, f.rows)
        /\ hooks' = [w \in Callers |->
                        IF Of(w) = {} THEN hooks[w]
                        ELSE Answered(hooks[w],
                                      AnswerOf(w, Latest(Of(w)).dep, f.rows))]
        /\ selected' = IF Of("palette") # {} THEN 1 ELSE selected
        /\ UNCHANGED <<library, query, settled>>

\* The request fails for every call that waits for it.
Fails(f) ==
    LET waiting == {c \in calls : c.on = f.n /\ Counts(c)}
    IN  /\ fetches' = fetches \ {f}
        /\ calls' = {c \in calls : c.on # f.n}
        /\ inFlight' = 0
        /\ hooks' = [w \in Callers |->
                        IF \E c \in waiting : c.who = w THEN Failed(hooks[w])
                                                       ELSE hooks[w]]
        /\ UNCHANGED <<library, cache, index, ui, settled>>

\* LIBRARY_TTL_MS
Expire ==
    /\ cache # Nothing
    /\ cache' = Nothing
    /\ UNCHANGED <<library, inFlight, fetches, calls, index, hooks, ui, settled>>

-----------------------------------------------------------------------------
(***************************************************************************)
(* The library changes: a document is uploaded here, by someone else, or   *)
(* is processed.                                                           *)
(***************************************************************************)
\* Mutant: an upload leaves the corpus as it is.
KeepCorpus == index' = index

InvalidateCorpus == index' = Nothing

Upload(d) ==
    /\ library[d] = "absent"
    /\ library' = [library EXCEPT ![d] = "processing"]
    /\ settled' = IF \E f \in fetches : f.rows # Nothing THEN settled
                  ELSE settled \cup {d}
    /\ InvalidateCorpus
    /\ cache' = Nothing /\ inFlight' = 0
    /\ UNCHANGED <<fetches, calls, hooks, ui>>

Becomes(d, status) ==
    /\ <<library[d], status>> \in {<<"absent", "processing">>,
                                  <<"processing", "completed">>}
    /\ library' = [library EXCEPT ![d] = status]
    /\ UNCHANGED <<memory, ui, settled>>

-----------------------------------------------------------------------------
(***************************************************************************)
(* What the user does.                                                     *)
(***************************************************************************)
\* New results put the cursor on the first row.
Reselect == selected' = IF hooks'["palette"].data = Nothing
                           \/ hooks'["palette"].status = "ready"
                        THEN 1 ELSE selected

\* Cmd-K, "/" or a trigger; the palette is mounted anew each time.
Open ==
    /\ ~ open
    /\ Load("palette", Mounted(Blank))
    /\ query' = Blank /\ Reselect
    /\ UNCHANGED <<library, settled>>

Close ==
    /\ open
    /\ Unload("palette")
    /\ query' = Blank /\ selected' = 1
    /\ UNCHANGED <<library, settled>>

Type(q) ==
    /\ open
    /\ query' = q
    /\ UNCHANGED <<library, memory, selected, settled>>

\* The typing has stopped for DEBOUNCE_MS.
Debounced ==
    /\ open /\ query # hooks["palette"].dep
    /\ Load("palette", Rerun(hooks["palette"], query))
    /\ Reselect
    /\ UNCHANGED <<library, query, settled>>

\* What the list of the dialog shows.
Shown ==
    LET slot == hooks["palette"]
    IN  CASE slot.status = "error"   -> "error"
          [] slot.status = "loading" -> "skeleton"
          [] slot.data # Nothing /\ Flat(slot) = <<>>
                 /\ slot.data.query # Blank -> "no results"
          [] OTHER -> "results"

\* "Try again" of SearchError.
Retry ==
    /\ open /\ Shown = "error"
    /\ Load("palette", Retried(hooks["palette"]))
    /\ Reselect
    /\ UNCHANGED <<library, query, settled>>

\* The keys move over whatever was found last, also when it is not shown.
PressKey(i) ==
    LET n == Len(Flat(hooks["palette"]))
    IN  /\ open /\ n > 0
        /\ i \in {1, n, (selected % n) + 1, ((selected + n - 2) % n) + 1}
        /\ selected' = i
        /\ UNCHANGED <<library, memory, query, settled>>

\* The pointer moves over a row.
Point(i) ==
    /\ open /\ Shown = "results"
    /\ i \in DOMAIN Flat(hooks["palette"]) /\ i # selected
    /\ selected' = i
    /\ UNCHANGED <<library, memory, query, settled>>

\* Enter, or a click, opens the row under the cursor.
Activate ==
    /\ selected \in DOMAIN Flat(hooks["palette"])
    /\ Close

\* The chat page, whose counter shares the cache, comes and goes.
ShowScope(scope) ==
    /\ hooks["scope"].dep # scope
    /\ Load("scope", IF hooks["scope"] = Closed THEN Mounted(scope)
                     ELSE Rerun(hooks["scope"], scope))
    /\ UNCHANGED <<library, ui, settled>>

LeaveChat ==
    /\ hooks["scope"] # Closed
    /\ Unload("scope")
    /\ UNCHANGED <<library, ui, settled>>

Next ==
    \/ \E f \in fetches : ServerReads(f) \/ Arrives(f) \/ Fails(f)
    \/ Expire
    \/ \E d \in DOMAIN library :
           \/ Upload(d)
           \/ \E status \in {"processing", "completed"} : Becomes(d, status)
    \/ Open \/ Close \/ Activate \/ Debounced \/ Retry
    \/ \E q \in Queries : Type(q)
    \/ \E i \in 1 .. TotalCap : PressKey(i) \/ Point(i)
    \/ \E scope \in Scopes : ShowScope(scope)
    \/ LeaveChat

Spec == Init /\ [][Next]_vars

-----------------------------------------------------------------------------
\* Whatever answers arrive in whatever order, results that are not marked as
\* being reloaded are those of the query the loader last ran with
\* (use-async.ts drops what arrives for another).
ResultsAreForTheQuery ==
    LET slot == hooks["palette"]
    IN  slot.status = "ready" => slot.data.query = slot.dep

\* Every match is on the screen, behind a "+n more" or counted by the row it
\* collapsed into, and the cap on the whole hides no kind of hit altogether
\* (groupHits: the total in the footer adds up).
EveryMatchIsAccounted ==
    hooks["palette"].data # Nothing =>
        LET data == hooks["palette"].data
        IN  Accounted[data.query][data.rows]

\* The corpus, which is built once and kept, has every document uploaded
\* here, unless an older list of the library was on its way at the time.
UploadsAreIndexed ==
    \A d \in settled : /\ index # Nothing => index[d] # "absent"
                       /\ cache # Nothing => cache[d] # "absent"

\* "An aborted request is the caller's own doing" (api.ts:89): whoever shows
\* that it is loading has a call under way.  Not so: see the README.
AbortIsOwnDoing ==
    \A who \in Callers :
        Loading(hooks[who]) => \E c \in calls : c.who = who /\ c.live
=============================================================================
