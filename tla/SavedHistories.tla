---------------------------- MODULE SavedHistories ----------------------------
(***************************************************************************)
(* Discovery of the sessions that a runtime has kept, while it goes on     *)
(* working on them: discover() of OpenCode's saved history, which asks its *)
(* server for pages of sessions and inspects each of a page with several   *)
(* workers (opencode/saved-history.ts); discover() of Claude's and Codex's *)
(* local history, which lists files, orders them by age and inspects them  *)
(* in batches (history/fs.ts, claude/history.ts, codex/history.ts).        *)
(*                                                                         *)
(* External: the runtimes, which touch, remove, archive and copy sessions. *)
(***************************************************************************)
EXTENDS Naturals, Sequences, FiniteSets, SequencesExt

CONSTANTS
    Saved,                 \* sessions
    SESSION_PAGE_SIZE, MAX_SESSION_PAGES,
    INSPECTION_CONCURRENCY,
    MAX_INSPECTIONS,       \* the messages that a discovery may inspect
    MaxEvents,             \* bound: what the runtime does meanwhile
    Limits,                \* how many sessions are asked for; 0 for all
    FilesMove              \* TRUE: a file may be moved while it is looked for

ASSUME SavedHistoriesAssumption ==
    /\ {SESSION_PAGE_SIZE, MAX_SESSION_PAGES, INSPECTION_CONCURRENCY} \subseteq Nat \ {0}
    /\ {MAX_INSPECTIONS, MaxEvents} \cup Limits \subseteq Nat
    /\ FilesMove \in BOOLEAN /\ IsFiniteSet(Saved)

VARIABLES
    kept,   \* of each session: when it last changed, where it is, whether a person spoke in it
    events, \* what the runtime did, and the sessions it did it to
    scan    \* the discovery

savedVars == <<kept, events, scan>>

\* A place is a path: a list of the server, or a directory.
Places == {"active", "archived"}
NoFile == 0
IsThere(s) == \E p \in Places : kept[s].at[p] # NoFile
ChangedAt(s) == LET at == kept[s].at IN IF at["active"] > at["archived"] THEN at["active"] ELSE at["archived"]
Now == 1 + Cardinality(Saved) + events.count

NewScan == [at |-> "idle", kind |-> "server", legacy |-> FALSE, limit |-> 0, pages |-> 0,
            list |-> << >>, cursor |-> 0, next |-> 1, busy |-> {}, results |-> << >>,
            failed |-> FALSE, inspected |-> 0, told |-> << >>]

Step(changes) == scan' = changes /\ UNCHANGED <<kept, events>>
Enough(told) == scan.limit # 0 /\ Len(told) >= scan.limit

-----------------------------------------------------------------------------
(* OpenCode *)

\* Sessions, newest first: with the endpoint of old, those that are active.
Listed == {s \in Saved : IsThere(s) /\ (scan.legacy => kept[s].at["active"] # NoFile)}
NewestFirst(sessions, age) ==
    CHOOSE list \in [1..Cardinality(sessions) -> sessions] :
        \A i, j \in DOMAIN list : i < j => list[i] # list[j] /\ age[list[i]] >= age[list[j]]

\* The page of the sessions older than the cursor, and the cursor of the next.
PageAfter(cursor) ==
    LET older == NewestFirst({s \in Listed : cursor = 0 \/ ChangedAt(s) < cursor},
                             [s \in Saved |-> ChangedAt(s)])
        size == IF scan.legacy THEN Len(older) ELSE SESSION_PAGE_SIZE
    IN  [list |-> SubSeq(older, 1, IF Len(older) < size THEN Len(older) ELSE size),
         next |-> IF Len(older) > size THEN ChangedAt(older[size]) ELSE 0]

Blank(list) == [n \in DOMAIN list |-> "none"]

\* firstSessionPage(), nextSessionPage().
AsksPage ==
    /\ scan.at = "page" /\ scan.kind = "server"
    /\ LET page == PageAfter(scan.cursor)
       IN  Step(IF scan.pages = MAX_SESSION_PAGES THEN [scan EXCEPT !.at = "failed"]
                ELSE [scan EXCEPT !.at = "inspecting", !.pages = @ + 1, !.list = page.list,
                                  !.cursor = page.next, !.next = 1, !.results = Blank(page.list)])

PageFails == scan.at = "page" /\ scan.kind = "server" /\ Step([scan EXCEPT !.at = "failed"])

\* inspectBatch(): a worker takes the next, unless one failed; a child is left out.
TakesNext ==
    /\ scan.at = "inspecting" /\ scan.kind = "server" /\ ~scan.failed
    /\ scan.next <= Len(scan.list) /\ Cardinality(scan.busy) < INSPECTION_CONCURRENCY
    /\ Step([scan EXCEPT !.next = @ + 1,
                         !.busy = IF kept[scan.list[scan.next]].child THEN @ ELSE @ \cup {scan.next}])

\* findUserText(): a session that is gone by now is left out; the budget is that of all.
Inspects(n) ==
    LET s == scan.list[n]
        count == scan.inspected + (IF IsThere(s) THEN 1 ELSE 0)
    IN  /\ scan.kind = "server" /\ n \in scan.busy
        /\ Step([scan EXCEPT !.busy = @ \ {n}, !.inspected = count,
                    !.failed = @ \/ count > MAX_INSPECTIONS,
                    !.results[n] = IF IsThere(s) /\ kept[s].spoken THEN "found" ELSE "none"])

\* Mutant: what cannot be inspected is left out.
LeavesOut(n) == scan.kind = "server" /\ n \in scan.busy /\ Step([scan EXCEPT !.busy = @ \ {n}])

\* Anything but a 404.
InspectionFails(n) ==
    /\ scan.kind = "server" /\ n \in scan.busy
    /\ Step([scan EXCEPT !.busy = @ \ {n}, !.failed = TRUE])

\* The workers are through; with one that failed nothing of the page is told.
BatchEnds ==
    /\ scan.at = "inspecting" /\ scan.kind = "server" /\ scan.busy = {}
    /\ scan.failed \/ scan.next > Len(scan.list)
    /\ Step([scan EXCEPT !.at = IF scan.failed THEN "failed" ELSE "telling", !.next = 1])

\* The consumer takes what was found, one at a time; then there is a next page or not.
TellsNext ==
    /\ scan.at = "telling"
    /\ LET found == {n \in DOMAIN scan.list : n >= scan.next /\ scan.results[n] = "found"}
           first == CHOOSE n \in found : \A m \in found : n <= m
           told == Append(scan.told, scan.list[first])
       IN  Step(IF found # {}
                THEN [scan EXCEPT !.told = told, !.next = first + 1,
                                  !.at = IF Enough(told) THEN "done" ELSE @]
                ELSE [scan EXCEPT !.at = IF scan.kind = "files" \/ scan.legacy \/ scan.cursor = 0
                                         THEN "done" ELSE "page"])

-----------------------------------------------------------------------------
(* Files.  `list` has paths: a session and where its file was found. *)

FilesIn(place) == {s \in Saved : kept[s].at[place] # NoFile}
Paths(place) == {<<s, place>> : s \in FilesIn(place)}

\* listCodexSessionFiles(): the active ones, then the archived ones.
ListsActive ==
    /\ scan.at = "page" /\ scan.kind = "files"
    /\ Step([scan EXCEPT !.at = "archive", !.list = SetToSeq(Paths("active"))])

\* Mutant: an archived copy is a session of its own.
EveryFile(list, more) == list \o SetToSeq(more)

\* dedupeCodexSessionFiles(): an active file wins over its archived copy.
Deduped(list, more) == list \o SetToSeq({path \in more : \A n \in DOMAIN list : list[n][1] # path[1]})

ListsArchived ==
    /\ scan.at = "archive"
    /\ LET list == Deduped(scan.list, Paths("archived"))
       IN  Step([scan EXCEPT !.at = "stats", !.list = list, !.results = [n \in DOMAIN list |-> 0],
                             !.busy = DOMAIN list])

\* recentEligible(): the age of each, as of when it is looked at; what is gone is left out.
Stats(n) ==
    /\ scan.at = "stats" /\ n \in scan.busy
    /\ Step([scan EXCEPT !.busy = @ \ {n}, !.results[n] = kept[scan.list[n][1]].at[scan.list[n][2]]])

\* Mutant: in the order they were listed.
AsListed == SelectSeq([n \in DOMAIN scan.list |-> n], LAMBDA n : scan.results[n] # NoFile)

\* Newest first.
ByAge == NewestFirst({n \in DOMAIN scan.list : scan.results[n] # NoFile}, scan.results)

Orders ==
    /\ scan.at = "stats" /\ scan.busy = {}
    /\ LET order == ByAge
           paths == [k \in DOMAIN order |-> scan.list[order[k]]]
       IN  Step([scan EXCEPT !.at = "inspecting", !.list = paths, !.results = Blank(paths), !.next = 1])

\* A batch is as many as are still asked for; its files are inspected in any order.
Found == Cardinality({n \in DOMAIN scan.list : scan.results[n] = "found"})
TakesBatch ==
    /\ scan.at = "inspecting" /\ scan.kind = "files" /\ scan.busy = {}
    /\ LET left == Len(scan.list) - scan.next + 1
           wanted == IF scan.limit = 0 THEN left ELSE scan.limit - Found
           size == CHOOSE k \in 0..left : k = IF wanted < left THEN wanted ELSE left
       IN  Step(IF size = 0 THEN [scan EXCEPT !.at = "telling", !.next = 1]
                ELSE [scan EXCEPT !.busy = scan.next..(scan.next + size - 1), !.next = @ + size])

\* inspectClaudeSession(), inspectCodexSession(): no main session, nobody spoke, or gone:
\* it is left out, whatever the error.
InspectsFile(n) ==
    LET s == scan.list[n][1]
    IN  /\ scan.kind = "files" /\ scan.at = "inspecting" /\ n \in scan.busy
        /\ Step([scan EXCEPT !.busy = @ \ {n},
               !.results[n] = IF kept[s].at[scan.list[n][2]] # NoFile /\ kept[s].spoken /\ ~kept[s].child
                              THEN "found" ELSE "none"])

-----------------------------------------------------------------------------
(* The runtimes *)

Happens(s, changed) ==
    /\ events.count < MaxEvents /\ IsThere(s) /\ scan.at \notin {"idle", "done", "failed"}
    /\ kept' = [kept EXCEPT ![s] = changed]
    /\ events' = [count |-> events.count + 1,
                  on |-> events.on \cup {s}]
    /\ UNCHANGED scan

\* A message.
TouchesSession(s) ==
    \E p \in Places : /\ kept[s].at[p] # NoFile
                      /\ Happens(s, [kept[s] EXCEPT !.at[p] = Now])

RemovesSession(s) == Happens(s, [kept[s] EXCEPT !.at = [p \in Places |-> NoFile]])

\* Archived or brought back: the file is moved, and keeps its age.
Moves(s, from, to) ==
    /\ from # to /\ kept[s].at[from] # NoFile /\ kept[s].at[to] = NoFile
    /\ scan.kind = "files" => FilesMove
    /\ Happens(s, [kept[s] EXCEPT !.at[to] = kept[s].at[from], !.at[from] = NoFile])

\* Archived by a copy, of which the first half is done.
Copies(s) ==
    /\ scan.kind = "files" /\ kept[s].at["active"] # NoFile /\ kept[s].at["archived"] = NoFile
    /\ Happens(s, [kept[s] EXCEPT !.at["archived"] = kept[s].at["active"]])

-----------------------------------------------------------------------------
StartsScan ==
    /\ scan.at = "idle" /\ Step([scan EXCEPT !.at = "page"])

\* A session has an age of its own; some are children, in some nobody spoke, some are archived.
Ages == CHOOSE ages \in [Saved -> 1..Cardinality(Saved)] : \A s, t \in Saved : s # t => ages[s] # ages[t]

SavedInit ==
    /\ \E children, silent, archived \in SUBSET Saved :
           kept = [s \in Saved |->
               [child |-> s \in children, spoken |-> s \notin silent,
                at |-> [p \in Places |-> IF (s \in archived) = (p = "archived") THEN Ages[s] ELSE NoFile]]]
    /\ events = [count |-> 0, on |-> {}]
    /\ \E kind \in {"server", "files"}, legacy \in BOOLEAN, limit \in Limits :
           /\ legacy => kind = "server"
           /\ scan = [NewScan EXCEPT !.kind = kind, !.legacy = legacy, !.limit = limit]

SavedNext ==
    \/ StartsScan \/ AsksPage \/ PageFails \/ TakesNext \/ BatchEnds \/ TellsNext
    \/ \E n \in DOMAIN scan.list : Inspects(n) \/ InspectionFails(n) \/ Stats(n) \/ InspectsFile(n)
    \/ ListsActive \/ ListsArchived \/ Orders \/ TakesBatch
    \/ \E s \in Saved :
          \/ TouchesSession(s) \/ RemovesSession(s) \/ Copies(s)
          \/ \E from, to \in Places : Moves(s, from, to)

SavedSpec == SavedInit /\ [][SavedNext]_savedVars

SavedTypeOK ==
    /\ scan.at \in {"idle", "page", "archive", "stats", "inspecting", "telling", "done", "failed"}
    /\ scan.busy \subseteq DOMAIN scan.list
    /\ scan.kind = "server" => Cardinality(scan.busy) <= INSPECTION_CONCURRENCY

-----------------------------------------------------------------------------
IdOf(told) == IF scan.kind = "files" THEN told[1] ELSE told
ToldIds == {IdOf(scan.told[n]) : n \in DOMAIN scan.told}

\* A session that was there all the while, and is asked for.  In the pages of a server
\* only what stays as it was keeps its place.
Sought(s) ==
    /\ IsThere(s) /\ kept[s].spoken /\ ~kept[s].child
    /\ scan.kind = "server" => s \notin events.on
    /\ scan.legacy => kept[s].at["active"] # NoFile

\* A discovery that ends without an error has told of every such session: if not of all,
\* then of those that changed last.
CatalogIsWhole ==
    scan.at = "done" =>
        \A s \in Saved : Sought(s) /\ s \notin ToldIds
            => /\ Enough(scan.told)
               /\ \A t \in ToldIds : {s, t} \cap events.on = {} => ChangedAt(t) > ChangedAt(s)

\* And of none twice, whatever became of it meanwhile.
ToldOfOnce == Cardinality(ToldIds) = Len(scan.told)

DiscoveryIsSound == SavedTypeOK /\ CatalogIsWhole /\ ToldOfOnce

=============================================================================
