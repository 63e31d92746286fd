---------------------------- MODULE WorkspaceTools ----------------------------
(***************************************************************************)
(* What a workspace has beside git (packages/workspace/src): the scripts   *)
(* it runs (scripts.ts), the ports it allocates (ports.ts), the watch on   *)
(* its files (watch.ts), what it attaches to its context (context.ts) and  *)
(* copies or links from its source (from-source.ts, internal/sparse.ts).   *)
(* The five share nothing.                                                 *)
(*                                                                         *)
(* External: the operating system, the script, chokidar, the source.       *)
(***************************************************************************)
EXTENDS Naturals, Sequences, FiniteSets, SequencesExt

CONSTANTS
    Kids,           \* processes that a script may start
    Kills,          \* calls of kill()
    MaxChunks,      \* bound: what a script writes
    LeaderFirst,    \* TRUE: the shell of a script may exit before what it started
    PortCalls, Ports, MaxPorts,  \* calls of allocate(), the free ports, how many are asked for
    MaxChanges,     \* bound: changes of the files that are watched
    Attachments,    \* files of one name that are attached
    AtOnce,         \* TRUE: two may be attached at once
    Entries,        \* paths that are copied or linked from the source
    UnderLinks      \* TRUE: a path may be in a folder that was linked from the source

ASSUME ToolsAssumption ==
    /\ {MaxChunks, MaxPorts, MaxChanges} \subseteq Nat /\ {LeaderFirst, AtOnce, UnderLinks} \subseteq BOOLEAN
    /\ IsFiniteSet(Ports)

VARIABLES
    script,     \* the last script: its processes, its pipes, its handle
    ports,      \* the sockets that are open, per call its probes, what is held
    watch,      \* the changes so far, the buffer, its timer, the batches delivered
    context,    \* per name its file, per attachment where its call is
    sources     \* of each entry: what the source has, what the workspace has; the call

toolVars == <<script, ports, watch, context, sources>>

-----------------------------------------------------------------------------
(* runScript *)

Pipes == {"stdout", "stderr"}
Leader == "leader"
NoScript == [at |-> "none", alive |-> {}, signalled |-> {}, written |-> << >>, unread |-> [p \in Pipes |-> << >>],
             open |-> Pipes, merged |-> << >>, ended |-> FALSE, killed |-> FALSE, kills |-> [k \in Kills |-> "none"]]
Script(changes) == script' = changes /\ UNCHANGED <<ports, watch, context, sources>>

\* scripts.<name>: that of the workspace before that of the source; neither absent nor blank.
Scripts == {"absent", "blank", "command"}
Configured(ofSource, ofWorkspace) == IF ofWorkspace # "absent" THEN ofWorkspace ELSE ofSource
RunScript ==
    /\ script.at = "none"
    /\ \E ofSource, ofWorkspace \in Scripts :
          Script(IF Configured(ofSource, ofWorkspace) = "command"
                 THEN [script EXCEPT !.at = "running", !.alive = {Leader}]
                 ELSE [script EXCEPT !.at = "refused"])

Starts(k) == Leader \in script.alive /\ k \notin script.alive /\ script.signalled = {}
             /\ Script([script EXCEPT !.alive = @ \cup {k}])

Writes(p) ==
    /\ script.alive # {} /\ Len(script.written) < MaxChunks
    /\ LET chunk == [of |-> p, n |-> Len(script.written) + 1]
       IN  Script([script EXCEPT !.written = Append(@, chunk), !.unread[p] = Append(@, chunk)])

\* pipe(merged, { end: false })
ReadsPipe(p) ==
    /\ script.unread[p] # << >>
    /\ Script([script EXCEPT !.merged = Append(@, Head(script.unread[p])), !.unread[p] = Tail(@)])

\* closePipe: the stream ends with the second of the pipes.  Mutant: with the first.
EndsWithOne(open) == TRUE
StreamEnds(open) == open = {}
ClosePipe(p) ==
    /\ script.at = "running" /\ p \in script.open /\ script.alive = {} /\ script.unread[p] = << >>
    /\ LET open == script.open \ {p}
       IN  Script([script EXCEPT !.open = open, !.ended = StreamEnds(open)])

\* A process exits, of itself or of the signal.
Exits(x) ==
    /\ x \in script.alive
    /\ x = Leader /\ x \notin script.signalled => LeaderFirst \/ script.alive = {Leader}
    /\ Script([script EXCEPT !.alive = @ \ {x}])

\* kill(): the first signals the group, if the shell has not exited; each returns with its exit.
Kill(k) ==
    /\ script.at = "running" /\ script.kills[k] = "none"
    /\ Script([script EXCEPT !.kills[k] = "waiting", !.killed = TRUE,
          !.signalled = IF script.killed \/ Leader \notin script.alive THEN @ ELSE script.alive])
KillReturns(k) ==
    /\ script.kills[k] = "waiting" /\ Leader \notin script.alive
    /\ Script([script EXCEPT !.kills[k] = "returned"])

\* All that was written comes or waits in its pipe, each pipe in its order; the stream ends only
\* when it has come and nothing lives that could write; a kill that returned leaves nothing of the
\* group that has not been signalled, if the shell was there to be killed (scripts.ts 69-124).
ScriptsAreTrue ==
    /\ script.ended => script.alive = {} /\ ToSet(script.merged) = ToSet(script.written)
    /\ ToSet(script.written) = ToSet(script.merged) \cup UNION {ToSet(script.unread[p]) : p \in Pipes}
    /\ \A i, j \in DOMAIN script.merged :
          i < j /\ script.merged[i].of = script.merged[j].of => script.merged[i].n < script.merged[j].n
    /\ \A k \in Kills : script.kills[k] = "returned" => script.alive \subseteq script.signalled

-----------------------------------------------------------------------------
(* PortAllocator *)

NoPorts == [open |-> {}, held |-> {},
            calls |-> [c \in PortCalls |-> [at |-> "none", asked |-> 0, probes |-> {}, failed |-> 0, got |-> {}]]]
PortsTo(c, call, open, held) ==
    /\ ports' = [open |-> open, held |-> held, calls |-> [ports.calls EXCEPT ![c] = call]]
    /\ UNCHANGED <<script, watch, context, sources>>

Allocate(c) == LET call == ports.calls[c] IN
    /\ call.at = "none"
    /\ \E n \in 1 .. MaxPorts : PortsTo(c, [call EXCEPT !.at = "probing", !.asked = n], ports.open, ports.held)

\* probeFreePort: a port that nobody listens on; all probes run before one is closed.
Probing(call) == call.at = "probing" /\ Cardinality(call.probes) + call.failed < call.asked
Probes(c) == LET call == ports.calls[c] IN
    /\ Probing(call)
    /\ \E p \in Ports \ ports.open :
          PortsTo(c, [call EXCEPT !.probes = @ \cup {p}], ports.open \cup {p}, ports.held)

ProbeFails(c) == LET call == ports.calls[c] IN
    /\ Probing(call)
    /\ PortsTo(c, [call EXCEPT !.failed = @ + 1], ports.open, ports.held)

\* Mutant: the sockets of the others stay open when a probe fails.
ClosesUnlessFailed(call) == IF call.failed > 0 THEN {} ELSE call.probes
Closes(call) == call.probes
Settles(c) == LET call == ports.calls[c] IN
    /\ call.at = "probing" /\ ~Probing(call)
    /\ LET got == IF call.failed > 0 THEN {} ELSE call.probes
       IN  PortsTo(c, [call EXCEPT !.at = "done", !.got = got], ports.open \ Closes(call), ports.held \cup got)

Release(p) == p \in ports.held /\ ports' = [ports EXCEPT !.held = @ \ {p}]
              /\ UNCHANGED <<script, watch, context, sources>>

\* A call that succeeds has as many ports as it asked for, and one that has ended keeps no socket,
\* whichever of its probes failed (ports.ts 43-67).
PortsAreTrue ==
    /\ ports.open = UNION {ports.calls[c].probes : c \in {d \in PortCalls : ports.calls[d].at = "probing"}}
    /\ \A c \in PortCalls : LET call == ports.calls[c] IN
          call.at = "done" => Cardinality(call.got) = (IF call.failed > 0 THEN 0 ELSE call.asked)

-----------------------------------------------------------------------------
(* watch *)

NoWatch == [changes |-> 0, buffer |-> << >>, timer |-> FALSE, disposed |-> FALSE, closed |-> FALSE,
            told |-> << >>, errors |-> 0, last |-> 0]
Watch(changes) == watch' = changes /\ UNCHANGED <<script, ports, context, sources>>

\* schedule: the first change of a batch starts the timer; a closed watcher may still tell some.
Schedule ==
    /\ watch.changes < MaxChanges /\ ~watch.closed
    /\ LET n == watch.changes + 1
       IN  Watch(IF watch.disposed THEN [watch EXCEPT !.changes = n]
                 ELSE [watch EXCEPT !.changes = n, !.buffer = Append(@, n), !.timer = TRUE])

\* Mutant: the buffer is emptied when the handler has returned.
EmptiedAfter(thrown) == ~thrown
Emptied(thrown) == TRUE
Flush ==
    /\ watch.timer
    /\ \E thrown \in BOOLEAN :
          Watch([watch EXCEPT !.timer = FALSE, !.told = @ \o watch.buffer, !.last = watch.changes,
                    !.buffer = IF Emptied(thrown) THEN << >> ELSE @, !.errors = IF thrown THEN @ + 1 ELSE @])

Dispose == ~watch.disposed /\ Watch([watch EXCEPT !.disposed = TRUE, !.timer = FALSE, !.last = watch.changes])
WatchClosed == watch.disposed /\ ~watch.closed /\ Watch([watch EXCEPT !.closed = TRUE])

\* Each change before the disposal is told once, in order, or waits for a timer that runs, even if
\* a handler throws; none is told after it (watch.ts 52-91).
BatchesAreTrue ==
    /\ ~watch.disposed => /\ watch.told \o watch.buffer = [n \in 1 .. watch.changes |-> n]
                          /\ watch.buffer # << >> => watch.timer
    /\ watch.disposed => ~watch.timer /\ Len(watch.told) <= watch.last

-----------------------------------------------------------------------------
(* context.attach *)

NoContext == [file |-> << >>, name |-> [a \in Attachments |-> 0], at |-> [a \in Attachments |-> "none"]]
Context(changes) == context' = changes /\ UNCHANGED <<script, ports, watch, sources>>

\* chooseUniqueAttachmentName: the name, then with a number from 2 on.
Unused(names) == CHOOSE n \in 1 .. Cardinality(names) + 1 : n \notin names /\ \A m \in 1 .. n - 1 : m \in names
\* Mutant: it is attached under its own name.
OwnName(names) == 1
Chosen(names) == Unused(names)
Attach(a) ==
    /\ context.at[a] = "none" /\ (AtOnce \/ (\A b \in Attachments : context.at[b] # "named"))
    /\ \E missing \in BOOLEAN :
          Context(IF missing THEN [context EXCEPT !.at[a] = "failed"]
                  ELSE [context EXCEPT !.at[a] = "named", !.name[a] = Chosen(DOMAIN context.file)])

Copies(a) ==
    /\ context.at[a] = "named"
    /\ Context([context EXCEPT !.at[a] = "attached",
           !.file = [n \in DOMAIN @ \cup {context.name[a]} |-> IF n = context.name[a] THEN a ELSE @[n]]])

\* What was attached is found where attach() said (context.ts 26-68).
AttachedStays == \A a \in Attachments : context.at[a] = "attached" => context.file[context.name[a]] = a

-----------------------------------------------------------------------------
(* copyFromSource, linkFromSource *)

\* What is at a path of the workspace.  In a folder that is a link it is the source's own file.
Things == {"none", "file", "directory", "link to the source"} \cup IF UnderLinks THEN {"the source's"} ELSE {}
NoSources == [place |-> [e \in Entries |-> [source |-> TRUE, whole |-> TRUE, at |-> "none", inside |-> TRUE]],
              op |-> "none", wanted |-> {}, todo |-> {}, checked |-> {}, skipped |-> {}, at |-> "none"]
Sources(changes) == sources' = changes /\ UNCHANGED <<script, ports, watch, context>>

\* The files of the source that match, or the paths that are named.
FromSource(op) ==
    /\ sources.at = "none"
    /\ LET wanted == IF op = "copy" THEN {e \in Entries : sources.place[e].source} ELSE Entries
       IN  Sources([sources EXCEPT !.at = "working", !.op = op, !.wanted = wanted, !.todo = wanted])

SkippedOutside(e) ==
    /\ sources.at = "working" /\ sources.checked = {} /\ e \in sources.todo /\ ~sources.place[e].inside
    /\ Sources([sources EXCEPT !.todo = @ \ {e}, !.skipped = @ \cup {e}])

FindsSource(e) ==
    /\ sources.at = "working" /\ e \in sources.todo /\ sources.place[e].inside /\ sources.checked = {}
    /\ Sources(IF sources.place[e].source THEN [sources EXCEPT !.checked = {e}] ELSE [sources EXCEPT !.at = "failed"])

\* What is in the way goes first, but for a directory.  Mutant: it stays to be copied over.
CopiedOver(thing) == thing
Cleared(thing) == IF thing = "directory" THEN thing ELSE "none"

\* A copy onto a link is a copy onto what it leads to.  What is cleared may be the source's own
\* file: there is nothing left to copy, and a link leads to itself.
Applies(e) ==
    /\ e \in sources.checked /\ sources.at = "working"
    /\ LET there == Cleared(sources.place[e].at)
           own == sources.place[e].at = "the source's"
           gone == sources.op = "copy" /\ (own \/ ~sources.place[e].source)
           done == [sources EXCEPT !.todo = @ \ {e}, !.checked = {}]
           through == own \/ (there = "link to the source" /\ sources.op = "copy")
       IN  Sources(CASE there = "directory" -> [sources EXCEPT !.at = "failed"]
                     [] there # "directory" /\ gone ->
                            [sources EXCEPT !.at = "failed", !.place[e].at = there, !.place[e].whole = ~own]
                     [] there # "directory" /\ ~gone /\ through -> [done EXCEPT !.place[e].whole = FALSE]
                     [] there # "directory" /\ ~gone /\ ~through ->
                            [done EXCEPT !.place[e].at = IF sources.op = "copy" THEN "file" ELSE "link to the source"])

Applied == sources.at = "working" /\ sources.todo = {} /\ Sources([sources EXCEPT !.at = "done"])

SourceGoes(e) == sources.at = "working" /\ sources.place[e].source
                 /\ Sources([sources EXCEPT !.place[e].source = FALSE])

\* Applying what the source has to give never writes to the source, and when it has been done each
\* entry is there, or was reported as outside of the checkout (from-source.ts 20-109).
SourceIsSafe ==
    /\ \A e \in Entries : sources.place[e].whole
    /\ sources.at = "done" => \A e \in sources.wanted \ sources.skipped : sources.place[e].at \in {"file", "link to the source"}

-----------------------------------------------------------------------------
ToolsInit ==
    /\ script = NoScript /\ ports = NoPorts /\ watch = NoWatch /\ context = NoContext
    /\ \E thing \in [Entries -> Things], inside \in [Entries -> BOOLEAN], source \in [Entries -> BOOLEAN] :
          sources = [NoSources EXCEPT !.place =
              [e \in Entries |-> [source |-> source[e], whole |-> TRUE, at |-> thing[e], inside |-> inside[e]]]]

ScriptNext ==
    RunScript \/ (\E k \in Kids : Starts(k)) \/ (\E x \in Kids \cup {Leader} : Exits(x))
    \/ (\E p \in Pipes : Writes(p) \/ ReadsPipe(p) \/ ClosePipe(p)) \/ \E k \in Kills : Kill(k) \/ KillReturns(k)
PortsNext ==
    (\E c \in PortCalls : Allocate(c) \/ Probes(c) \/ ProbeFails(c) \/ Settles(c)) \/ \E p \in Ports : Release(p)
WatchNext == Schedule \/ Flush \/ Dispose \/ WatchClosed
ContextNext == \E a \in Attachments : Attach(a) \/ Copies(a)
SourcesNext ==
    (\E op \in {"copy", "link"} : FromSource(op)) \/ Applied
    \/ \E e \in Entries : SkippedOutside(e) \/ FindsSource(e) \/ Applies(e) \/ SourceGoes(e)

ToolsNext == ScriptNext \/ PortsNext \/ WatchNext \/ ContextNext \/ SourcesNext

ToolsSpec == ToolsInit /\ [][ToolsNext]_toolVars

\* What a workspace has beside git does what it says: a script's stream, kills and exit; allocated
\* ports; a watch and its batches; attachments; the files of its source (scripts.ts, ports.ts,
\* watch.ts, context.ts, from-source.ts).
ToolsAreTrue == ScriptsAreTrue /\ PortsAreTrue /\ BatchesAreTrue /\ AttachedStays /\ SourceIsSafe
=============================================================================
