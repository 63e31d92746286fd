----------------------------- MODULE StreamParsers -----------------------------
(***************************************************************************)
(* From the lines of an agent to the events of a host, for every wire that *)
(* agentex reads: providers/{claude,codex,antigravity,cursor,pi,opencode,  *)
(* acp}/parse.ts, opencode/event-parse.ts with http-session.ts's emitPart, *)
(* and utils/tool-names.ts.  A line becomes zero or more events; some      *)
(* parsers remember (text that streams, tools opened, usage reported), and *)
(* a summary of the run is kept beside the events.                         *)
(*                                                                         *)
(* External: the agent, which writes text bit by bit and in several blocks *)
(* at a time, runs tools and background tasks side by side, spends tokens  *)
(* and ends its turns; the event stream of OpenCode's server, which loses  *)
(* frames when it breaks.                                                  *)
(***************************************************************************)
EXTENDS Naturals, FiniteSets, Sequences, SequencesExt

CONSTANTS
    Parsers,       \* the wires
    MaxTools,      \* bound: tool calls
    MaxBlocks,     \* bound: blocks of text
    MAX_TRACKED,   \* names remembered by a tool-name tracker
    MaxTasks,      \* bound: background tasks
    MaxLines,      \* bound: lines of a run
    MaxTurns,      \* bound: turns
    Interleaves,   \* whether Claude streams two messages at a time (a subagent's inside another)
    Mixes          \* whether a Cursor message may hold a tool block beside others

ASSUME ParsersAssumption ==
    /\ Parsers \subseteq {"claude", "codex", "codex-exec", "antigravity", "cursor", "pi",
                           "opencode", "opencode-http", "acp"}
    /\ MAX_TRACKED \in Nat \ {0} /\ {MaxTools, MaxBlocks, MaxTasks, MaxLines, MaxTurns} \subseteq Nat
    /\ {Interleaves, Mixes} \subseteq BOOLEAN

VARIABLES
    parser,   \* whose lines
    agent,    \* what the agent did: its tools, text, tasks, tokens, failures
    memory,   \* what the parser and its caller remember between lines
    events,   \* what the host was told, in order
    totals    \* the summary of the run: whether it failed, the tokens it used

streamVars == <<parser, agent, memory, events, totals>>

\* Numbered in the order in which they begin; a tool's number is its id and its name.
Tools == 1..MaxTools
Blocks == 1..MaxBlocks
BackgroundTasks == 1..MaxTasks
Nobody == 0
Unsaid == "none"

\* since: the turn a block was begun in; lost: the tools and blocks whose last frame the
\* stream lost; fresh: tokens not reported yet; untold: those of turns that ended without a
\* report; worded: whether a failure was reported with a text; reported: tasks whose result
\* was handed back.
AgentAtRest ==
    [calls |-> [t \in Tools |-> "new"], wrote |-> [b \in Blocks |-> 0], since |-> [b \in Blocks |-> 0],
     closed |-> {}, lost |-> {}, tasks |-> [k \in BackgroundTasks |-> "new"], reported |-> {},
     spent |-> 0, fresh |-> 0, untold |-> 0, failed |-> FALSE, worded |-> FALSE, turn |-> 1, lines |-> 0]

\* names: the names of tools by id, in order of insertion; message: PartialStreamContext;
\* text, opened: what Antigravity's parser has of a step; seen, called, returned: what
\* emitPart() has told of a part; usage: the counters of the last result.
BlankMemory ==
    [names |-> << >>, message |-> Nobody, text |-> [b \in Blocks |-> << >>], opened |-> {},
     seen |-> [b \in Blocks |-> 0], called |-> {}, returned |-> {}, usage |-> 0]

StreamsInit ==
    /\ parser \in Parsers
    /\ agent = AgentAtRest /\ memory = BlankMemory /\ events = << >>
    /\ totals = [failed |-> FALSE, used |-> 0]

\* message: the message or step an event names; flag: isError, or that a task's result is
\* handed back.
Event(type, id) ==
    [type |-> type, id |-> id, name |-> Nobody, text |-> << >>, message |-> Nobody, phase |-> Unsaid,
     status |-> Unsaid, flag |-> FALSE, turn |-> agent.turn]

Speech(type, b, text) == [Event(type, b) EXCEPT !.text = text, !.message = b]

-----------------------------------------------------------------------------
(* createToolNameTracker(), and the titles ACP's session keeps             *)

\* Mutant: the newest name gives way.
RemembersOldest(names, t) ==
    Append(IF Len(names) >= MAX_TRACKED THEN Front(names) ELSE names, t)

\* A map keeps the place of a key that is set again.
Remembers(names, t) ==
    LET kept == IF Len(names) >= MAX_TRACKED THEN Tail(names) ELSE names
    IN  IF Contains(kept, t) THEN kept ELSE Append(kept, t)

Tracked(names, event) ==
    IF event.type # "tool_call" THEN names
    ELSE CASE parser \in {"claude", "codex", "codex-exec"} -> Remembers(names, event.id)
           [] parser = "acp" -> Append(names, event.id)
           [] OTHER -> names

Named(names, event) ==
    IF event.type = "tool_result" /\ event.name = Nobody /\ Contains(names, event.id)
    THEN [event EXCEPT !.name = event.id] ELSE event

\* The parser has become `mem` and the host is told `new`.
Emits(mem, new) ==
    LET step(so, event) == [events |-> Append(so.events, Named(so.names, event)),
                            names |-> Tracked(so.names, event)]
        all == FoldLeft(step, [events |-> events, names |-> mem.names], new)
    IN  events' = all.events /\ memory' = [mem EXCEPT !.names = all.names]

-----------------------------------------------------------------------------
(* What an agent does, and the events that tell of it                      *)

\* A piece of text is its block and its place in it.
Pieces(b, from, to) == [i \in 1..(to - from) |-> <<b, from + i>>]

Open(b) == agent.wrote[b] > 0 /\ b \notin agent.closed /\ agent.since[b] = agent.turn

\* ends: how a tool ended, "wordless" if it failed without an error text; titled: whether
\* ACP's agent repeats its title.
Text(b) == [does |-> "text", what |-> b, ends |-> Unsaid, titled |-> FALSE]
Call(t) == [does |-> "call", what |-> t, ends |-> Unsaid, titled |-> FALSE]
Return(t, ends, titled) == [does |-> "return", what |-> t, ends |-> ends, titled |-> titled]

Acts ==
    {Text(b) : b \in Blocks} \cup {Call(t) : t \in Tools}
    \cup {Return(t, ends, titled) : t \in Tools, ends \in {"fine", "failed", "wordless", "declined"},
                                titled \in BOOLEAN}

Spoken(b, from) ==
    IF agent.wrote[b] <= from THEN << >> ELSE <<Speech("assistant", b, Pieces(b, from, agent.wrote[b]))>>

Called(t) == <<[Event("tool_call", t) EXCEPT !.name = t]>>

Returned(act, name) == <<[Event("tool_result", act.what) EXCEPT !.name = name, !.flag = (act.ends # "fine")]>>

-----------------------------------------------------------------------------
(* Claude, Codex                                                           *)

\* The messages of the API come through as they are written; a delta has the id that the
\* last message_start gave.
ClaudeDelta(b) ==
    LET started == IF agent.wrote[b] = 0 THEN b ELSE memory.message
        bit == Pieces(b, agent.wrote[b], agent.wrote[b] + 1)
    IN  [memory |-> [memory EXCEPT !.message = started],
         events |-> <<[Speech("assistant_delta", b, bit) EXCEPT !.message = started]>>]

\* message_stop precedes the message itself.
ClaudeMemory(mem, act) == IF act.does = "text" THEN [mem EXCEPT !.message = Nobody] ELSE mem

\* A block of an assistant record, or of a user record: results have no names.
ClaudeEvents(act) ==
    CASE act.does = "text" -> Spoken(act.what, 0)
      [] act.does = "call" -> Called(act.what)
      [] OTHER -> Returned(act, Nobody)

\* Items of the app-server: a command that was declined has failed.
CodexEvents(act) ==
    CASE act.does = "text" -> Spoken(act.what, 0)
      [] act.does = "call" -> Called(act.what)
      [] OTHER -> Returned(act, act.what)

\* Items of `codex exec`: only the exit code says that a command failed.
CodexExecEvents(act) ==
    IF act.does = "return" /\ act.ends = "declined"
    THEN <<[Event("tool_result", act.what) EXCEPT !.name = act.what]>>
    ELSE CodexEvents(act)

-----------------------------------------------------------------------------
(* Antigravity: steps that go on                                           *)

AgyDelta(b) ==
    LET bit == Pieces(b, agent.wrote[b], agent.wrote[b] + 1)
    IN  [memory |-> [memory EXCEPT !.text[b] = @ \o bit], events |-> <<Speech("assistant_delta", b, bit)>>]

AgyMemory(mem, act) ==
    CASE act.does = "text" -> [mem EXCEPT !.text[act.what] = << >>]
      [] act.does = "call" -> [mem EXCEPT !.opened = @ \cup {act.what}]
      [] OTHER -> [mem EXCEPT !.opened = @ \ {act.what}]

AgyEvents(act) ==
    LET opens == IF act.what \in memory.opened THEN << >> ELSE Called(act.what) IN
    CASE act.does = "text" -> <<Speech("assistant", act.what, memory.text[act.what])>>
      [] act.does = "call" -> opens
      [] OTHER -> opens \o Returned(act, act.what)

-----------------------------------------------------------------------------
(* Cursor, Pi, `opencode run`, ACP                                         *)

\* The first tool block of a message, or else its texts as one.
CursorEvents(acts) ==
    LET tools == SelectSeq(acts, LAMBDA act : act.does # "text")
        all == FoldLeft(LAMBDA text, act : text \o Pieces(act.what, 0, agent.wrote[act.what]), << >>, acts)
    IN  CASE tools = << >> -> <<Speech("assistant", acts[1].what, all)>>
          [] tools # << >> /\ tools[1].does = "call" -> Called(tools[1].what)
          [] OTHER -> Returned(tools[1], Nobody)

\* Text is told as it comes, and not again when the message ends.
ChunkAtOnce(b) ==
    [memory |-> memory, events |-> <<Speech("assistant", b, Pieces(b, agent.wrote[b], agent.wrote[b] + 1))>>]

PiEvents(act) ==
    CASE act.does = "text" -> << >>
      [] act.does = "call" -> Called(act.what)
      [] OTHER -> Returned(act, act.what)

OpenCodeEvents(act) ==
    CASE act.does = "text" -> Spoken(act.what, 0)
      [] act.does = "call" -> Called(act.what)
      [] OTHER -> Returned(act, act.what)

\* An update that ends a tool may repeat its title.
AcpEvents(act) ==
    CASE act.does = "text" -> << >>
      [] act.does = "call" -> Called(act.what)
      [] OTHER -> Returned(act, IF act.titled THEN act.what ELSE Nobody)

-----------------------------------------------------------------------------
(* OpenCode's server: each frame has the whole part                        *)

PartGrows(b) ==
    [memory |-> [memory EXCEPT !.seen[b] = agent.wrote[b] + 1],
     events |-> <<Speech("assistant", b, Pieces(b, memory.seen[b], agent.wrote[b] + 1))>>]

PartMemory(mem, act) ==
    CASE act.does = "text" -> [mem EXCEPT !.seen[act.what] = agent.wrote[act.what]]
      [] act.does = "call" -> [mem EXCEPT !.called = @ \cup {act.what}]
      [] OTHER -> [mem EXCEPT !.called = @ \cup {act.what}, !.returned = @ \cup {act.what}]

PartEvents(act) ==
    LET opens == IF act.what \in memory.called THEN << >> ELSE Called(act.what) IN
    CASE act.does = "text" -> Spoken(act.what, memory.seen[act.what])
      [] act.does = "call" -> opens
      [] OTHER -> opens \o IF act.what \in memory.returned THEN << >> ELSE Returned(act, act.what)

-----------------------------------------------------------------------------
(* Lines                                                                   *)

\* What a line leaves of the parser, and its events, by wire.
Bit(b) ==
    CASE parser = "claude" -> ClaudeDelta(b)
      [] parser = "antigravity" -> AgyDelta(b)
      [] parser \in {"pi", "acp"} -> ChunkAtOnce(b)
      [] parser = "opencode-http" -> PartGrows(b)
      [] OTHER -> [memory |-> memory, events |-> << >>]

Kept(mem, act) ==
    CASE parser = "claude" -> ClaudeMemory(mem, act)
      [] parser = "antigravity" -> AgyMemory(mem, act)
      [] parser = "opencode-http" -> PartMemory(mem, act)
      [] OTHER -> mem

ActEvents(act) ==
    CASE parser = "claude" -> ClaudeEvents(act)
      [] parser = "codex" -> CodexEvents(act)
      [] parser = "codex-exec" -> CodexExecEvents(act)
      [] parser = "antigravity" -> AgyEvents(act)
      [] parser = "pi" -> PiEvents(act)
      [] parser = "opencode" -> OpenCodeEvents(act)
      [] parser = "opencode-http" -> PartEvents(act)
      [] OTHER -> AcpEvents(act)

LineEvents(acts) ==
    IF parser = "cursor" THEN CursorEvents(acts)
    ELSE FoldLeft(LAMBDA so, act : so \o ActEvents(act), << >>, acts)

\* A block is begun, or goes on; the wires without partial messages say nothing of it.
WritesBit(b, heard) ==
    /\ agent.lines < MaxLines /\ agent.turn <= MaxTurns
    /\ \/ agent.wrote[b] = 0 /\ \A c \in 1..(b - 1) : agent.wrote[c] > 0
       \/ Open(b) /\ agent.wrote[b] < 2
    /\ (parser = "claude" /\ ~Interleaves) => \A c \in Blocks \ {b} : ~Open(c)
    /\ heard \/ parser = "opencode-http"
    /\ agent' = [agent EXCEPT !.wrote[b] = @ + 1, !.since[b] = agent.turn, !.lines = @ + 1]
    /\ IF heard THEN Emits(Bit(b).memory, Bit(b).events) ELSE UNCHANGED <<memory, events>>
    /\ UNCHANGED <<parser, totals>>

\* The block or the tool an act is about.
About(act) == <<IF act.does = "text" THEN "text" ELSE "tool", act.what>>

May(act) ==
    CASE act.does = "text" -> Open(act.what)
      [] act.does = "call" -> /\ agent.calls[act.what] = "new"
                               /\ \A t \in 1..(act.what - 1) : agent.calls[t] # "new"
      [] OTHER -> /\ agent.calls[act.what] = "running"
                  /\ act.titled => parser = "acp"
                  /\ act.ends = "declined" => parser \in {"codex", "codex-exec"}
                  /\ act.ends = "wordless" => parser = "opencode"

\* A message of Claude's holds text and calls, a user record holds results; Cursor's hold
\* blocks of one kind.  The other wires have a line for each act.
Fits(acts) ==
    LET kinds == {acts[i].does : i \in DOMAIN acts} IN
    Len(acts) > 1 =>
        /\ About(acts[1]) # About(acts[2])
        /\ CASE parser = "claude" -> "return" \notin kinds \/ kinds = {"return"}
             [] parser = "cursor" -> kinds = {"text"} \/ Mixes
             [] OTHER -> FALSE

\* Mutant: a failure without a text is a failure.
CountsEvery(worded) == TRUE

\* Whether a summary takes a failure for one: those of Cursor, Pi and OpenCode know it by
\* its text alone.
Counts(worded) == worded \/ parser \notin {"cursor", "pi", "opencode"}

\* Only the summary of `opencode run` looks at how tools end.
Counting(act) == parser = "opencode" /\ act.ends \in {"failed", "wordless"}
Worded(act) == act.ends # "wordless"

\* The tokens of a block; these wires' parsers count none.
Cost == IF parser \in {"codex", "acp", "opencode-http"} THEN 0 ELSE 1

Did(so, act) ==
    CASE act.does = "text" -> [so EXCEPT !.closed = @ \cup {act.what}, !.spent = @ + Cost, !.fresh = @ + Cost]
      [] act.does = "call" -> [so EXCEPT !.calls[act.what] = "running"]
      [] OTHER -> [so EXCEPT !.calls[act.what] = IF act.ends = "wordless" THEN "failed" ELSE act.ends,
                             !.failed = @ \/ Counting(act), !.worded = @ \/ (Counting(act) /\ Worded(act))]

\* OpenCode's `run` may print a tool only when it has ended, and the event stream of its
\* server loses what is sent while it is broken.
MayGoUnheard(acts) ==
    parser = "opencode-http" \/ (parser = "opencode" /\ acts[1].does = "call")

Line(acts, heard) ==
    /\ agent.lines < MaxLines /\ agent.turn <= MaxTurns
    /\ Fits(acts) /\ \A i \in DOMAIN acts : May(acts[i])
    /\ heard \/ MayGoUnheard(acts)
    /\ agent' = [FoldLeft(Did, agent, acts) EXCEPT !.lines = @ + 1,
                     !.lost = IF heard THEN @ ELSE @ \cup {About(acts[1])}]
    /\ IF heard THEN Emits(FoldLeft(Kept, memory, acts), LineEvents(acts)) ELSE UNCHANGED <<memory, events>>
    /\ totals' = [totals EXCEPT !.failed = @ \/ (Counting(acts[1]) /\ Counts(Worded(acts[1])))]
    /\ UNCHANGED parser

\* A tool that runs is mentioned again: not told again.
Ticks(t) ==
    /\ agent.calls[t] = "running" /\ parser \in {"antigravity", "opencode-http", "acp"}
    /\ agent.lines < MaxLines /\ agent.turn <= MaxTurns
    /\ agent' = [agent EXCEPT !.lines = @ + 1, !.lost = @ \ {<<"tool", t>>}]
    /\ IF parser = "acp" THEN UNCHANGED <<memory, events>>
       ELSE Emits(Kept(memory, Call(t)), ActEvents(Call(t)))
    /\ UNCHANGED <<parser, totals>>

-----------------------------------------------------------------------------
(* Background tasks                                                        *)

Delivered == {"completed", "failed"}
Terminal == Delivered \cup {"stopped"}

\* Mutant: every notification of an end hands something back.
ReportsEveryEnd(phase, status) == phase = "notification" /\ status \in Terminal

\* Whether an event hands a task's result back.
Reports(phase, status) == phase = "notification" /\ status \in Delivered

\* backgroundTaskEventFromClaude(): a bare notification is an end, started and progress
\* come from a task that runs, an update says nothing but what it says.
TaskEvent(k, phase, status) ==
    LET believed == CASE status = Unsaid /\ phase = "notification" -> "completed"
                      [] status = Unsaid /\ phase \in {"started", "progress"} -> "running"
                      [] OTHER -> status
    IN  [Event("background_task", k) EXCEPT
            !.phase = IF believed \in Terminal THEN "completed"
                     ELSE IF phase = "started" THEN "started" ELSE "progress",
            !.status = believed,
            !.flag = Reports(phase, believed)]

\* What the CLI says of a task: it starts, goes on, is renamed, paused, ends, is said to
\* run by a notification, and hands its result back once.
TaskSays(k, phase, status) ==
    LET was == agent.tasks[k] IN
    \/ /\ phase = "started" /\ was = "new" /\ status = Unsaid
       /\ agent' = [agent EXCEPT !.tasks[k] = "running", !.lines = @ + 1]
    \/ /\ phase = "progress" /\ was = "running" /\ status = Unsaid
       /\ agent' = [agent EXCEPT !.lines = @ + 1]
    \/ /\ phase = "updated" /\ was \in {"running", "paused"} /\ status # was
       /\ agent' = [agent EXCEPT !.tasks[k] = IF status = Unsaid THEN @ ELSE status, !.lines = @ + 1]
    \/ /\ phase = "notification" /\ was = "running" /\ status = was
       /\ agent' = [agent EXCEPT !.lines = @ + 1]
    \/ /\ phase = "notification" /\ was \in Terminal /\ k \notin agent.reported
       /\ status = was \/ (was = "completed" /\ status = Unsaid)
       /\ agent' = [agent EXCEPT !.reported = @ \cup {k}, !.lines = @ + 1]

TaskLine(k, phase, status) ==
    /\ parser = "claude" /\ agent.lines < MaxLines
    /\ TaskSays(k, phase, status)
    /\ Emits(memory, <<TaskEvent(k, phase, status)>>)
    /\ UNCHANGED <<parser, totals>>

\* Codex's collabAgentToolCall: one line about several children, an event for each.
ChildEvent(k, status) ==
    [Event("background_task", k) EXCEPT
        !.phase = IF status \in Terminal THEN "completed" ELSE "started",
        !.status = status, !.flag = status \in Delivered]

CollabLine(children, status) ==
    /\ parser = "codex" /\ agent.lines < MaxLines /\ children # {}
    /\ \A k \in children :
          IF status = "running" THEN agent.tasks[k] = "new" ELSE agent.tasks[k] = "running"
    /\ agent' = [agent EXCEPT !.lines = @ + 1,
                     !.tasks = [k \in BackgroundTasks |-> IF k \in children THEN status ELSE @[k]]]
    /\ Emits(memory, [i \in 1..Cardinality(children) |-> ChildEvent(SetToSeq(children)[i], status)])
    /\ UNCHANGED <<parser, totals>>

-----------------------------------------------------------------------------
(* Usage, errors, the end of a turn                                        *)

\* The wires whose summary is made of every line, and not of the last result.
SumsUp == {"codex-exec", "cursor", "pi", "opencode"}

\* turn_end of Pi's, step_finish of OpenCode's and Cursor's: what was used since the last.
UsageLine ==
    /\ parser \in {"pi", "opencode", "cursor"} /\ agent.fresh > 0 /\ agent.lines < MaxLines
    /\ agent' = [agent EXCEPT !.fresh = 0, !.lines = @ + 1]
    /\ totals' = [totals EXCEPT !.used = @ + agent.fresh]
    /\ UNCHANGED <<parser, memory, events>>

\* An error the agent reports, in words or as an object that no parser reads: a result for
\* `codex exec`, nothing the others tell apart.
ErrorLine(worded) ==
    /\ parser \in SumsUp /\ (agent.failed => worded /\ ~agent.worded)
    /\ agent.lines < MaxLines /\ agent.turn <= MaxTurns
    /\ agent' = [agent EXCEPT !.failed = TRUE, !.worded = @ \/ worded, !.lines = @ + 1]
    /\ totals' = [totals EXCEPT !.failed = @ \/ Counts(worded)]
    /\ Emits(memory, <<IF parser = "codex-exec" THEN [Event("result", Nobody) EXCEPT !.flag = TRUE]
                                                ELSE Event("unknown", Nobody)>>)
    /\ UNCHANGED parser

\* What a result adds to the tokens of the run.  Claude's counts the run so far, and
\* replaces what the summary had; Antigravity's counts it too, or carries no counters.
ClaudeUsed == agent.spent - totals.used

\* Mutant: Antigravity's counters are taken for this turn's.
AgyUsedInAll(counted) == IF counted THEN agent.spent ELSE 0
AgyUsed(counted) == IF counted THEN agent.spent - memory.usage ELSE 0

\* Mutant: a turn of `codex exec` that failed is counted too.
CodexUsedAnyway(how) == agent.fresh

\* `codex exec` and Cursor add up what each turn's result reports; a turn of `codex exec`
\* that failed reports nothing.
CodexUsed(how) == IF how = "ok" THEN agent.fresh ELSE 0
CursorUsed == agent.fresh

UsedByResult(how, counted) ==
    CASE parser = "claude" -> ClaudeUsed
      [] parser = "antigravity" -> AgyUsed(counted)
      [] parser = "codex-exec" -> CodexUsed(how)
      [] parser = "cursor" -> CursorUsed
      [] OTHER -> 0

\* The next turn starts: what a parser or its session forgets with a turn.
AgyTurnMemory(counted) ==
    [memory EXCEPT !.text = [b \in Blocks |-> << >>], !.opened = {}, !.usage = IF counted THEN agent.spent ELSE @]
PartTurnMemory == [memory EXCEPT !.seen = [b \in Blocks |-> 0], !.called = {}, !.returned = {}]

TurnMemory(counted) ==
    CASE parser = "antigravity" -> AgyTurnMemory(counted)
      [] parser = "opencode-http" -> PartTurnMemory
      [] parser = "acp" -> [memory EXCEPT !.names = << >>]
      [] OTHER -> memory

\* Codex's item ids begin again with a turn; a tool of another wire is not heard of again.
NextCalls(status) == IF parser \in {"codex", "codex-exec"} \/ status = "new" THEN "new" ELSE "over"

\* Pi's agent_end is never an error, OpenCode's `run` has no result line; a failure
\* to log in is told before the result.
ResultEvents(how) ==
    LET result == [Event("result", Nobody) EXCEPT !.flag = (how # "ok" /\ parser # "pi")] IN
    CASE parser = "opencode" -> << >>
      [] parser # "opencode" /\ how = "auth" -> <<Event("auth_required", Nobody), result>>
      [] OTHER -> <<result>>

\* how: "wordless" if the turn failed and its result has no text that says so.
TurnEnds(how, counted) ==
    LET fails == how # "ok"
        worded == fails /\ how # "wordless"
        before == parser \in SumsUp
    IN
    /\ agent.turn <= MaxTurns
    /\ how = "auth" => parser = "claude"
    /\ how = "wordless" => parser = "cursor"
    /\ fails => parser \notin {"pi", "opencode"}
    /\ counted \/ parser = "antigravity"
    /\ agent' = [agent EXCEPT !.turn = @ + 1,
                     !.failed = (@ /\ before) \/ fails, !.worded = (@ /\ before) \/ worded,
                     !.fresh = IF counted /\ parser \notin {"pi", "opencode"} THEN 0 ELSE @,
                     !.untold = IF fails /\ parser = "codex-exec" THEN @ + agent.fresh ELSE @,
                     !.calls = [t \in Tools |-> NextCalls(@[t])]]
    /\ Emits(TurnMemory(counted), ResultEvents(how))
    /\ totals' = [failed |-> (totals.failed /\ before) \/ (fails /\ Counts(worded)),
                  used |-> totals.used + UsedByResult(how, counted)]
    /\ UNCHANGED parser

StreamsNext ==
    \/ \E b \in Blocks, heard \in BOOLEAN : WritesBit(b, heard)
    \/ \E a \in Acts, heard \in BOOLEAN : Line(<<a>>, heard)
    \/ \E a, c \in Acts : parser \in {"claude", "cursor"} /\ Line(<<a, c>>, TRUE)
    \/ \E t \in Tools : Ticks(t)
    \/ \E k \in BackgroundTasks, phase \in {"started", "progress", "updated", "notification"},
          status \in Terminal \cup {"running", "paused", Unsaid} : TaskLine(k, phase, status)
    \/ \E children \in SUBSET BackgroundTasks, status \in Terminal \cup {"running"} : CollabLine(children, status)
    \/ UsageLine \/ \E worded \in BOOLEAN : ErrorLine(worded)
    \/ \E how \in {"ok", "failed", "wordless", "auth"}, counted \in BOOLEAN : TurnEnds(how, counted)

-----------------------------------------------------------------------------
(* Properties                                                              *)

Places(type, id, turn) == {i \in DOMAIN events : events[i].type = type /\ events[i].id = id /\ events[i].turn = turn}

\* In a turn a tool is announced once, ends once, after that; what runs was announced and
\* what has ended was told to have, as failed if it did.  `opencode run` may announce
\* nothing; `codex exec` says of a command that was declined that it is fine.
CallsArePaired ==
    \A t \in Tools, n \in 1..MaxTurns :
        LET calls == Places("tool_call", t, n)
            results == Places("tool_result", t, n)
            ends == agent.calls[t]
        IN  /\ Cardinality(calls) <= 1 /\ Cardinality(results) <= 1
            /\ \A i \in results : parser = "opencode" \/ \E j \in calls : j < i
            /\ n = agent.turn /\ <<"tool", t>> \notin agent.lost =>
                   /\ ends = "running" => calls # {}
                   /\ ends \in {"fine", "failed", "declined"} => calls # {} \/ results # {}
                   /\ \A i \in results :
                          events[i].flag <=> ends = "failed" \/ (ends = "declined" /\ parser = "codex")

\* A result has the name of its call, unless as many calls were begun since as the
\* tracker remembers; Cursor's have none.
ResultsAreNamed ==
    \A i \in DOMAIN events : events[i].type = "tool_result" /\ parser # "cursor" =>
        \/ events[i].name = events[i].id
        \/ /\ parser = "claude"
           /\ \E j \in 1..i : /\ events[j].type = "tool_call" /\ events[j].id = events[i].id
                              /\ Cardinality({k \in (j + 1)..i : events[k].type = "tool_call"}) >= MAX_TRACKED

\* The text told of a block, by messages of the given type.
ToldOf(type, b) ==
    LET heard == FoldLeft(LAMBDA text, e : IF e.type = type THEN text \o e.text ELSE text, << >>, events)
    IN  SelectSeq(heard, LAMBDA piece : piece[1] = b)

\* What is told of a block is what was written of it, in order, nothing twice, in its
\* turn; all of it once it is complete (unless the stream lost its last frame).  The
\* deltas of a message name the message.
TextIsWhole ==
    /\ \A b \in Blocks :
          /\ IsPrefix(ToldOf("assistant", b), Pieces(b, 0, agent.wrote[b]))
          /\ IsPrefix(ToldOf("assistant_delta", b), Pieces(b, 0, agent.wrote[b]))
          /\ b \in agent.closed /\ <<"text", b>> \notin agent.lost => Len(ToldOf("assistant", b)) = agent.wrote[b]
    /\ \A i \in DOMAIN events : \A p \in ToSet(events[i].text) :
          /\ events[i].turn = agent.since[p[1]]
          /\ events[i].type = "assistant_delta" => events[i].message = p[1]

\* The status a host was last told of a task; a rename tells none.
LastTold(k) ==
    FoldLeft(LAMBDA status, e : IF e.type = "background_task" /\ e.id = k /\ e.status # Unsaid
                                THEN e.status ELSE status, "new", events)

\* A host that keeps the last status it was told of a task knows it, and was told of its
\* end exactly if it ended; its result is handed back at most once, if it delivered one.
TasksAreTold ==
    \A k \in BackgroundTasks :
        LET about == {i \in DOMAIN events : events[i].type = "background_task" /\ events[i].id = k}
            handed == {i \in about : events[i].flag}
        IN  /\ LastTold(k) = agent.tasks[k]
            /\ (\E i \in about : events[i].phase = "completed") <=> agent.tasks[k] \in Terminal
            /\ Cardinality(handed) <= 1
            /\ handed # {} => agent.tasks[k] \in Delivered
            /\ parser = "claude" => (handed # {} <=> k \in agent.reported /\ agent.tasks[k] \in Delivered)

\* What a host is told of a run is what the agent did.
StreamIsTrue == CallsArePaired /\ ResultsAreNamed /\ TextIsWhole /\ TasksAreTold

\* The summary says what the lines said: the tokens of every report once, whatever the
\* wire counts, and none of the turns that ended without one; a failure if one was
\* reported, and for Cursor, Pi and OpenCode if it came with a text.  The host was told of
\* a failure where the wire has an event for it: in a result, in the last one where the
\* summary is made of that, in a result of a tool of OpenCode's.
TotalsAreTrue ==
    LET results == SelectSeq(events, LAMBDA e : e.type = "result")
        failures == SelectSeq(results, LAMBDA e : e.flag)
        others == SelectSeq(events, LAMBDA e : e.type = "unknown" \/ (e.type = "tool_result" /\ e.flag))
    IN  /\ totals.used + agent.fresh + agent.untold = agent.spent
        /\ agent.untold > 0 => parser = "codex-exec" /\ totals.failed
        /\ totals.failed <=> agent.failed /\ (agent.worded \/ parser \notin {"cursor", "pi", "opencode"})
        /\ parser = "codex-exec" => (totals.failed <=> failures # << >>)
        /\ parser \notin SumsUp => (totals.failed <=> results # << >> /\ Last(results).flag)
        /\ parser \in {"cursor", "pi", "opencode"} => (totals.failed => failures # << >> \/ others # << >>)
        /\ parser = "cursor" /\ failures # << >> => agent.failed

\* What the host is told while the lines come, and what the summary says of them in the end.
ToldTrue == StreamIsTrue /\ TotalsAreTrue

=============================================================================
