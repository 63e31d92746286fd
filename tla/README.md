# Verification of agentex

TLA+ models of agentex (`packages/agent`, `packages/gateway`, `packages/workspace`), the TLC
runs that check them on small instances, and TLAPS proofs of what is proved for every instance.
`PROJECT.json` lists the parts of the system, the code lines that each definition stands for,
the runs, the hazards that each property is aimed at, and for every property of a run a mutation
of the model (a plausible bug of the code) that violates it.

| module | what it models |
|---|---|
| `ClaudeSession`, `ClaudeSystem` | the host side of the Claude CLI against any lines; with a CLI that keeps the turn protocol |
| `CodexSession`, `CodexSystem` | turns, sends and deliveries of a Codex session; with the app-server |
| `CodexSubagents`, `CodexApprovals` | its child threads; what its threads ask of the host |
| `PromptSession` | abstract: a session that takes one prompt at a time |
| `AcpSession`, `AntigravitySession`, `PiSession`, `OpenCodeSession` | four sessions that implement it |
| `GoalController`, `ExecBackedSession` | the goal engine of every session; a session of one-shot runs with its goal engine |
| `OneShotRun`, `Executions` | one `execute()` within its child process; what every route of execution stages, holds and gives back, alone and several together |
| `StreamParsers` | the lines of nine wires, and the events a host is told |
| `Telemetry`, `TelemetryFlights` | usage, limits and context of a session; reads shared by several callers |
| `OpenCodeRuntime` | the pool of `opencode serve` processes and the sign-in flows |
| `OpenCodeHistory`, `SavedHistories`, `DurableTranscript` | a history read page by page; discovery of saved sessions; a transcript read while it is written |
| `Worktrees`, `WorkspaceTools`, `WorkspaceDiff` | workspaces of one repository; scripts, ports, watch, context and sources; what is read of git's output |
| `InstalledFiles` | skills, instruction files and skill commands among those of other programs |
| `SessionStore`, `GatewayPipeline` | the gateway's file of sessions; its message pipeline, saving through it |
| `GatewayAccess`, `GatewayLifecycle`, `Chunker` | who gets through and into which conversation; `start()` and `stop()`; answers cut for their channel |
| `MC*` | the instances TLC checks |
| `*_proofs` | theorems: `ClaudeSession`, `CodexSystem_proofs` (and `SavedHistories`), `OneShot_proofs` (`OneShotRun` and `Executions`), `HandedOn_proofs` (`GatewayPipeline` with `SessionStore`, `CodexSubagents`), `Sessions_proofs` (the four sessions and `PromptSession`, `ExecBackedSession` with `GoalController`), `Shared_proofs` (`OpenCodeRuntime`, `TelemetryFlights`, `Telemetry`, `CodexApprovals`, `GatewayAccess`, `GatewayLifecycle`), `Workspaces_proofs` (`Worktrees`, `WorkspaceTools`, `InstalledFiles`) |

## 1. Inventory

agentex runs coding agents. `packages/agent` gives every agent (Claude, Codex, OpenCode, ACP
agents, Antigravity, Pi, Cursor, ...) one interface: `execute()` for one prompt, or a session
with `send`, `interrupt`, `drain`, `close`, events and goals. `packages/gateway` puts chat
channels before agents. `packages/workspace` and `packages/github` prepare git checkouts.
Everything is one JavaScript thread per process, so what is hard is what happens between an
`await` and its continuation, between a child process and its pipes, and across files.

| component | state | operations | what makes it correct |
|---|---|---|---|
| Claude session | open turn, outstanding and pending sends, captured result batches, event chain, background tasks, control requests both ways, drain and close phases | `send`, `interrupt`, `cancel`, `stopTask`, `drain`, `close`; a handler per line; process exit | a promise settles once, with the result of its own turn; turns alternate and agree with the state; `drain` kills no work |
| Codex session | the turn latch and its generation, the turn id's promise, sends, RPCs, deliveries in flight, approvals, children and their pollers | `send`, `interrupt`, `drain`, `close`; responses, notifications, server requests; polls; exit | a delivery settles the sends of its turn; a running turn can be stopped; each turn of a child ends once, and is told; an approval names its call |
| ACP, Antigravity, Pi, OpenCode sessions | one prompt in flight with timeout and abort, waiters, requests with cached replies | `send`, `interrupt`, `drain`, `close`; lines, polls, exits | the abstract contract; text, results and requests stay with their turn |
| Goal controller, exec-backed session | goal, mode, iterations, generation, re-entrancy guard; turn in flight, closing promise | `setGoal`, `clearGoal`, `observe`, `onTurnSettled`; `send`, `drain`, `close` | one judge, no verdict about an older goal, the budget, the loop lives; nothing starts after a drain |
| One-shot execution | captured output, callback chain, timers; staged directories, files, worktrees, listeners | `runChildProcess`, the executors, `executeAll`, the HTTP agent | one ending, told last, the true one; what was staged does not stay |
| Parsers | text, tools, tasks, counters of a stream | line to events | each is told whole, once, in order, whatever the wire says of it |
| Telemetry | snapshots by scope, revisions, fences; shared reads with their users | `update`, `refresh`, `reset`; `run`, timeout, abort | no older account, model or context is shown; nobody's cancellation is another's |
| Transcripts, histories, discovery | offsets, checkpoints, cursors, inspected files | `read`, `attach`, `catchUp`, `discover` | nothing missed, nothing told twice, across crashes of the host |
| OpenCode runtime | pooled servers with references and generations; sign-in flows | `acquire`, `release`, `retire`; `beginOAuth`, `completeOAuth`, `disconnect` | a server in use lives, an unused one does not; a flow is completed, expires or makes room |
| Gateway pipeline, store, lifecycle | sessions, queues, running flags, configuration, streamers; `sessions.json`; channels, sockets, timers | `processMessage`, `dispatchNext`; `persist`, `load`; `start`, `stop`, PATCH, reset, reaper | one run per session, in order, nobody forgotten; the file whole and never older; what runs is what the flag says |
| Gateway access, chunker | pairing requests with held messages, policies, agents by channel | check, `request`, `approve`, `deny`; `chunkMessage` | a message is held once and handed back once; people meet only in their own session; an answer shows what it showed whole |
| Workspace | directories, git state, metadata; processes, ports, watches | `create`, `open`, `archive`, checkpoints; scripts, ports, watch, context, sources | nobody's work is lost; what is returned is what is there |
| Installed files | links and managed regions | `install`, `uninstall`, discovery | what others put there stays |
| Stateless rest | none | lookups, arguments, configuration, overlays of derived providers, `gh`, demos | precedence |

How they interact: a provider's session owns a child process and its pipes (Claude, Codex, ACP,
Antigravity, Pi), a pooled server (OpenCode) or calls `execute()` (exec-backed); it emits events
through a promise chain of the host's handlers, and hands every settled turn to its goal
controller, which may call `send` again. The gateway calls `execute()` for each batch of a
session's messages, keeps the agent's session id in the store, and is called by channels, by its
control plane and by a timer (the reaper).

## 2. Models and code

One action is one synchronous stretch of JavaScript: the handling of a line, a call up to its
first `await`, or a continuation. An `await` is a variable that remembers what the continuation
captured. Text, payloads, titles and logging are left out; ids are small numbers or model
values. Variables marked *history* in a module exist only for its properties.

**Claude.** `ClaudeSession` has an action per branch of `handleLine` and `handleStreamMessage`;
a result line captures its batch at once (`Claim`) and `TurnSettled` is the rest of
`handleResult` after `await this._eventChain`, whose place in the ledger of turn events
`EventsHandled` advances. The wire is unconstrained, so what holds there holds whatever the CLI
does. `ClaudeSystem` adds the CLI (external: `docs/turn-liveness.md`, the comments and the
tests) and two pipes.

**Codex.** `CodexSession` is the latch protocol: a terminal frame starts a delivery bound to the
latch it found, perhaps behind a disk scan for usage; `Deliver` settles the sends and gives up
the latch unless superseded. `CodexSystem` adds the app-server: one turn at a time, late
responses, missing ids. `CodexSubagents` is what is heard of a child by its thread, by items of
the root and by polling; `CodexApprovals` the requests of several threads and the search for the
call that an MCP approval is about.

**One prompt at a time.** `PromptSession` is the abstract promise: one send in flight, each
settled once, none after the end. `SessionsKeepContract` is `INSTANCE PromptSession WITH` a
refinement mapping in each of `AcpSession` (prompt against timeout and abort, two seconds of
grace), `AntigravitySession` (a process restarted between turns, results for the first waiter),
`PiSession` (settling from the event chain) and `OpenCodeSession` (a POST per turn, the event
stream and polls beside it, replies posted again).

**Goals.** One action per stretch of `setGoal`, `clearGoal`, `onTurnSettled` around `armNative`,
`clearNative` and the sentinel's verdict. `ExecBackedSession` extends it: the goal loop sees a
settled turn before whoever drains.

**One-shot.** `OneShotRun` is `runChildProcess` with six executors around it, callbacks, both
graces and the retry without the session. `Executions` is one level up: each of nine routes is a
sequence of steps, each with how its failure is taken (ignored, told, thrown) and what it
stages; one run again after another, or two under `executeAll`. `StreamParsers` draws what an
agent does, writes it as each wire does, and compares what the parser tells, and what the
summary of the run adds up, with what was done. The two need not agree on a failure: the
summaries of Cursor, Pi and `opencode run` count one only if it has a text (`Counts`), so the
agent draws failures with and without; and a turn of `codex exec` that failed reports no tokens
(`untold`). `TotalsAreTrue` says exactly this much.

**Reads.** `Telemetry` fills the store from a session and from an attachment, with answers that
overtake each other; `DurableTranscript` is a file byte by byte (a record is two halves and a
newline) and a host that resumes; `OpenCodeHistory` and `SavedHistories` are cursors over data
that moves.

**Workspaces.** `Worktrees` has one action per git command or file operation of `create`, `open`
and `archive`; a commit is a number, a ref the set it reaches. `WorkspaceDiff` prints drawn
changes as git does and reads them back. `InstalledFiles` looks, then changes, as the code does,
beside users and other callers.

**Gateway.** `SessionStore` is `persist()` over inodes: a call that opened the temporary file
writes on under its new name. `GatewayPipeline` extends it with `processMessage` and
`dispatchNext` cut at their awaits. `GatewayAccess` is what comes before (policies, pairing,
routing to an agent, the session key) beside the control API; `GatewayLifecycle` has an action
per step of `start()` and `stop()`; `Chunker` cuts a drawn answer.

## 3. Runs

Components that share no state are checked in one run: a behaviour is one of one *part*, drawn
in the initial state, and a run's property is the conjunction of its parts'. In
`claude_session`, `claude_system`, `codex` and the gateway, *scopes* likewise leave out steps so
that one thing is explored deeply at a time; within a part or a scope every interleaving is
explored. Where liveness is checked the scopes withhold only steps without fairness.

| run | states | instance | shows |
|---|---|---|---|
| `claude_session` | 715 K | two sends, turns and results; one task, request and control request | `TurnsAgree`, `NobodyStranded`, `OwnResult`, `HandlersSettledFirst`, `OverIsOver` |
| `claude_system` | 395 K | two messages and a subagent, a `cancel()` or a permission request; three turns; the CLI writes on until two lines wait | `TrueOwner`, `DrainKillsNothing`, `EveryCallReturns` |
| `codex` | 138 K | three sends over three turns; refusals, timeouts, interrupts, close, exit | `OwnTurn`, `Stoppable`, `EveryCallReturns` |
| `sessions` | 285 K | two sends in each of the four prompt sessions; two goals, two host turns in the exec-backed one | `EachTurnItsOwn`, `ClosesQuietly`, `SessionsKeepContract`, `DrainReleases` |
| `one_shot` | 879 K | six executors with two pieces of output; nine routes alone and again, four pairs; nine wires with three tools, two blocks, one task, two turns | `RunsEndClean`, `ResultsAreTrue`, `ToldTrue`, `StoppedRunsEnd` |
| `host` | 1,730 K | two objectives, three goals; two changes and three rows of telemetry; four messages in pages of two; three saved sessions | `VerdictsAreCurrent`, `EndsInTime`, `LoopAlive`, `SnapshotsAreTrue`, `HistoryIsKept`, `DiscoveryIsSound` |
| `shared` | 647 K | two keys, three users, four servers, two flows; two records, one interruption; three asks; three letters, four configurations; two channels, three starts; four lines of answer | `LivesWhileUsed`, `FlightsFair`, `TextsAreTrue`, `RequestsAreTrue` |
| `workspaces` | 714 K | two calls on two paths, two commits; two installers | `WorkspacesAreTrue`, `ToolsAreTrue`, `ReadsAreTrue`, `WorkIsKept`, `OthersSkillsStay` |
| `handed_on` | 447 K | four messages in two sessions over two routes; one child, two turns, one missed end | `OneRunPerSession`, `QueueIsFair`, `ChildrenTrue`, `Durable`, `ComesToRest`, `ChildEndIsTold` |
| `codex_net`, `gateway_torn`, `goals_replaced` | | the instances of those parts | three disagreements (section 4) |

Each property is stated with a comment where it is defined. `SYMMETRY` is used where only
invariants and action properties are checked over interchangeable values.

*Why the bounds are enough.* The protocols compare one turn, page, save or run with the next:
what resumes late meets at most its successor, and a third party (a close, an exit, a timeout, a
removal) comes between. Two of each and one third party have all of these. `codex` needs three
generations, because a delivery can be overtaken by the terminal frame of the next turn while a
third send arrives; the gateway three messages, because a queue of one is replaced, bounded or
batched only under a third; the OpenCode pool four servers, because a key's server is retired,
replaced and retired again under two holders; histories pages of two, because a change must be
able to fall before, on and behind a cursor; the chunker lengths from below a fence's to above a
paragraph's. That the cases happen is shown by the mutants: each property has a small change of
the model that the same run refutes.

*Deadlock* is not checked: every system here may stop (all calls made, the session closed).

## 4. Where code and documents disagree

Three are runs with one property that TLC violates; `PROJECT.json` quotes the text.

- `codex_net`: a child made known by a `subAgentActivity` item keeps the root's turn as its
  active one, so `thread/read` never ends it: the poller that the comment calls its safety net
  polls for ever.
- `gateway_torn`: overlapping `persist()` calls share one temporary file and leave
  `sessions.json` empty or torn for a while.
- `goals_replaced`: a goal that replaces one being judged may be announced active and never move
  again.

The models contain more of them; each is in the behaviour when the named constant (section 5) is
TRUE, or is what a property sets apart, and is listed with its lines in the note of a hazard. In
short:

- *Turns.* A queued lifecycle record joins a message to a running turn; a discarded message
  leaves Claude `thinking`; a control request read after `close()` sets the state off `closed`, so that a later send is
  accepted, and with a wide enough pipe gets the result of another message's turn;
  a Codex latch whose leader timed out and was then refused stays; one failure in two terminal
  frames ends the next turn; an approval among identical calls names the wrong one.
- *Streams.* Cursor drops all but the first tool block and never names its results; deltas of
  interleaved Claude messages are misfiled; codex exec tells a declined command without exit
  code as success and an `error` line as a second result; OpenCode fails a run for one failed
  tool; Pi's `agent_end` is never an error; Claude's last unterminated line is parsed without
  the partial text before it.
- *Executions.* Late failures of a preparation leave skills, directories and token files behind;
  the Codex tier says timeout also when it was aborted first; an HTTP agent's timer is off
  before the body is read; a run that throws leaves the others of `executeAll` going.
- *Histories.* A session touched or archived during discovery may be missed; exactly `MAX_PAGES`
  full pages are a limit error; a host that saves its place per event skips the second event of
  a Codex line.
- *Workspaces.* The base is not captured atomically; a creation that fails after `git worktree
  add` leaves a worktree without metadata, and one whose worktree is archived and made again by
  another call before its metadata is written writes it into the other's; commits of a detached HEAD go with the worktree;
  `kill()` does nothing once the shell has exited; a port may be handed out twice, a name
  attached twice.
- *Installed files.* What is looked at may be replaced before it is unlinked or written; `$&` in
  a brief is garbled.
- *Gateway.* `approve()` returns the held messages, which nobody replays, and the sender's next
  message asks again; a sender whose id equals the name that others are linked to shares their
  `per-peer` session; an answer goes to the session's latest route; a failed bind leaves its
  listener; a bad `resetOnIdle` makes `start()` reject with everything up and `stop()` do
  nothing; hooks are wired again by each `start()`; a cut code block makes a chunk longer than
  its channel takes; the README has `DELETE /api/sessions/:key`, the code `POST .../reset`;
  `pairing.approved` and `.denied` are never emitted.

## 5. Assumptions

*Fairness.* Weak fairness of what Node runs: continuations, lines that are there, timers the
code sets (deadlines, graces, the pollers' intervals); and of the other side where the code
cannot go on without it: the CLI and the app-server read their input and end their turns,
`execute()` ends, file operations and channel sends settle. `Announces` and the answers to a
poll in `CodexSubagents` are strongly fair, for they compete with lines that wake the same
child. Nothing else is fair: neither calls of the host, nor exits, nor optional lines. Promises
without a timer (`cancel`, `stopTask`) are not claimed to settle.

*Host handlers* return and do not throw, unless a module says so.

*Constants.* Each names a behaviour of the environment, or a window of the code, that breaks a
property when it is TRUE; the run has it FALSE, so that the rest is still checked, and the
module still has the steps:

| constant | when TRUE |
|---|---|
| `QueuedRecords` | the CLI announces messages that it merely queues |
| `Repeats`, `IdenticalCalls`, `PerEvent` | Codex: a failure is reported twice; two calls of a thread have the same arguments; a host saves its place per event |
| `AcpSlowAgent`, `AcpLateAsks` | ACP: a cancelled prompt outlives its two seconds; a request is read after the kill |
| `PiSlowHandlers`, `PiClosesBusy` | Pi: handlers outlast the grace; the host closes during a turn |
| `OcLatePolls`, `LastTickRelease` | OpenCode: a poll returns after `close()`; the last reference goes in the microtask before `acquire()` resumes |
| `LateEvents` | `execute()` forwards events of an aborted turn |
| `LateFailures` | steps of a preparation whose failure leaves something behind may fail |
| `Interleaves`, `Mixes` | Claude streams two messages at a time; a Cursor message mixes tool and other blocks |
| `FirstReadCrossed` | the model changes before a context was ever observed |
| `QueuedPrompts`, `PartialText`, `EmptyReplies`, `FilesMove` | histories: a prompt behind a growing reply; a text served in part; a turn without reply; a file moved while looked for |
| `RefsMove`, `Remade`, `LeaderFirst`, `AtOnce`, `UnderLinks` | workspaces: base and branch move between two git commands; a worktree goes and is made again before its first creation has written the metadata; the shell exits before its children; two attach at once; what is copied or linked is in a folder that was linked from the source |
| `Replaced`, `Meanwhile`, `DiesWriting` | installed files: a link, or a file, changes between look and change; a write is torn. `Briefs` leaves out the brief with `$&` |
| `IdleIsWrong` | the gateway's `resetOnIdle` is no duration |

`Rejections`, `IoFails`, `SignedRoutes` and `TokenIsSet` are TRUE in their runs: a run of
several may throw, a file operation may fail, webhooks are signed, the control API asks for its
token.

*Closed.* `TrueOwner` speaks of a session until something closes it: afterwards lines are dropped,
and one that a request woke again knows less than it would need (section 4).

*In step.* `OwnTurn` and `Stoppable` of Codex are stated up to `OutOfStep`: terminal frames
carry no send and are not compared with the latch, so when a send crosses the end of a turn on
the wire the session cannot tell. `CodexSystem` models those behaviours and `EveryCallReturns`
holds in them. `OneRunPerSession` is stated up to `stop()`, `Durable` for saves that did not
overlap.

## 6. Proofs

Every theorem holds for all values of the constants, within the named assumptions: bounds are
naturals, identifiers are no two things at once, and the switches of section 5 that a theorem
names in its `ASSUME`. Each rests on an inductive invariant, a conjunction of named parts that
hold together; its proof has a lemma, or a step, per action, and a last temporal step.

**Claude** (`ClaudeSession_proofs`; any sequence of lines from the CLI).

| theorem | property | inductive invariant |
|---|---|---|
| `TypeCorrect` | `TypeOK` | itself, in four parts; each part survives steps that leave its variables alone |
| `NobodyIsStranded` | `NobodyStranded` | itself: a close settles all *because* each pending send is in a list or a captured batch, and a handler may give up on a closed session *because* none is pending |
| `ResultsReachTheirOwners` | `OwnResult` | `Owned` adds `BatchOwned`: a captured batch holds only messages of the turn its result ended |
| `TurnsAlwaysAgree` | `TurnsAgree` | two conjuncts: `TurnsAreWellFormed`, the ledger as a chain that `ChainGrows` extends by what the last event allows; `NeverIdleDuringATurn`, over a classification of the steps (`TurnKinds`) into opening, ending, joining and resting |
| `WhatIsOverStaysOver` | `OverIsOver` | three conjuncts: `SettlesOnce`, from `UnsentAbove` (messages above `sent` are unsent, so a new send overwrites no outcome); `ClosedSessionIsSilent`, from the previous row; `WithdrawnStaysUnanswered`, each action by itself |
| `HandlersRunFirst` | `HandlersSettledFirst` | `Marked`, `Rising`, `ResolvedDrained`: each result marks its `turn_end` in the log, later results later places, and a resolved send's result has been passed by the chain |

`SystemIsSession` shows that the session of `ClaudeSystem`, with the CLI and the two pipes, is a
`ClaudeSession`: each step is one of it or leaves it alone. So the table holds there too, and
`SendsReachTheirTurns` proves `TrueOwner`, for every width of the pipe, where the CLI does not
announce what it merely queues (`~QueuedRecords`; a record read while another turn is open would
join it). Neither side counts turns, so the invariant (`Attributed`) numbers the lines in stdout by
the results before them (`Numbered`), and says of a line that starts a message that this turn ran
it, or that the next line refuses it (`StartsHold`). Then the open turn has only messages of the
turn whose lines are read (`OpenTurnRan`), which its result makes `ResultsRan`. That no turn is
credited by guess is `NamesComeFirst`: what speaks, ends or waits to start a turn has a line
before it that names a message. The numbering survives an append (`LinesNumbered`,
`ResultNumbered`) and a read (`ReadNumbered`), whatever the lines.

**Codex** (`CodexSystem_proofs`). `CodexOwnTurn` proves `OwnTurn` where the app-server reports
a failure once (`~Repeats`). A delivery is bound to the latch that was held when its frame was
read, and `DeliveriesAreNew` carries what that is worth until it settles somebody: its turn had
not been heard to end by any send of that latch, and ran a send no younger than they are. For
that, `TurnsEndOnce` says that the end of a turn is on the wire once, and that what is heard is
not running; `SendsKnowTheirs` and `LatchIsNewest` tie sends to generations.

`CodexStopsItsTurn` proves `Stoppable`, with `StopInv` beside that invariant. `OutOfStep` may
become false again (its turn ends, its sends are refused), so the invariant is kept per send:
`LiveAreHeld`, each send that waits and whose turn is not over is under the latch, or has strayed
itself, and who has strayed stays so. `IdsAreTrue` says the same of the id. It needs what is on
the wires: `ReadOnce`, a `turn/start` is read once and by one turn; `LinesAreTrue`, a response
names the turn of its send and a `turn/started` is before its end; and `GensAreLed`, every
generation has a leader of its own, so a turn that starts with older sends was crossed by it.
That turn ids are none of the words of `Nameless` is assumed.

`ChildrenAreTrue` (`HandedOn_proofs`) proves `ChildrenTrue`. No variable says which turn of
a child the session has heard of, so the invariant is about every number that may be it:
`HasHeard(c, k)`, no line that is still to be read announces k or an earlier turn, and one
announces the next, if there is one. `Sound` is what holds of the record and the reports for
such a k (`TasksInv`): while the record is open turn k is not reported, one that names a turn of
the child names k, one that names none has never ended, and an ended one is quiet. It is kept by
what lines tell: `LinesInv`, a line tells the turn that was the latest, with those begun since
behind it, so one that says "over" is followed by the start of whatever runs; `ReadsInv`, what
`thread/read` told to be over is over, although it lags; and `KnownInv`, a child is known before
its second turn is heard of. Here alone a least number is needed (`Least`: some turn was heard of
last), which comes from the well-foundedness of finite sets. `Dispatched` spells out the two
edges a line has at most.

**Goals** (`Sessions_proofs`; the first four are about `GoalController`, which it extends).

| theorem | property | inductive invariant |
|---|---|---|
| `GoalTypeCorrect` | `GoalTypeOK` | part of `GoalInv` |
| `GoalVerdictsAreCurrent` | `VerdictsAreCurrent` | `GuardInv`: the re-entrancy guard is held exactly by the one verdict that is awaited, and none is about a later goal |
| `GoalEndsInTime` | `EndsInTime` | `DrivenInv`: what may still be judged has budget left and was not told to have ended; `ArmingInv`, `RecordInv`, `ClearingInv`: who will announce a goal, and what was said of it by then |
| `GoalLoopAlive` | `LoopAlive` | `LoopInv`: a settle that is skipped, or a verdict about another goal, has left its excuse |
| `SessionClosesQuietly` | `ClosesQuietly` | `SessionInv`, with `~LateEvents`: whoever awaits a turn awaits the last one (`AwaitInv`), a closed session aborted its turn, a released one has none (`ReleaseInv`) |
| `SessionGoalIsTrue` | the three of the controller | `SessionInv` contains `GoalInv`: each step of the session is one of the controller, or leaves it alone |

**The four prompt sessions** (`Sessions_proofs`, with one invariant each: `AcpInv`, `PiInv`,
`AgyInv`, `OcInv`). `EveryTurnItsOwn` proves `EachTurnItsOwn` without `AcpSlowAgent` and
`PiSlowHandlers`. Pi's part is the subtlest: `PiOrder` counts which turn the next end on the wire
belongs to, from the settled turns and those that are still owed an end; Antigravity's says that
a live process has at most the message of its one waiter, and that a message already taken is
heard of before the exit. `SessionsKeepSafety` proves the refinement: initial states map to
`PromptSession!Init`, and every step to one of `PromptSession!Next` or a stutter, without
`AcpLateAsks` and `OcLatePolls`. It is the safety half of `SessionsKeepContract`; the fair half
is TLC's.

**Gateway** (`HandedOn_proofs`; `PipeInv`).

| theorem | property | inductive invariant |
|---|---|---|
| `OneRunAtATime` | `OneRunPerSession` | `BatchInv`, `QueueHolds`: what waits is queued, what runs is in one batch; `AttendedInv`: a session with a queue or a flag has a run |
| `TheQueueIsFair` | `QueueIsFair` | `OrderInv`, `TicketInv`: in every queue tickets rise, and are later than those of what ran. `Requeued` is written in closed form (which elements stay), not as the loop of `enqueue` calls in the code, for what a fold returns would need induction over data |
| `TheFileIsDurable` | `Durable` | `FileInv`: while no two saves overlapped, who writes is alone and the files are as it left them; `CurrentInv`: the file holds what memory holds, or somebody is about to serialise or owes a save |

**Shared reads and the OpenCode pool** (`Shared_proofs`). `FlightsTypeCorrect` and
`FlightsAreFair`: `FlightsInv` adds `HasItsRead`, each waiter's flight is there and counts it.
`RuntimeTypeCorrect` and `ServersLiveWhileUsed` (without `LastTickRelease`): `PoolInv` says that
each server counts exactly the handles not given back and one that starts is awaited
(`CountsHold`), that a pooled one is of its key's generation and not retired (`PoolIsFresh`),
that a killed one is nobody's (`KilledIsFree`) and one that is up is somebody's (`UpIsKept`).

**Telemetry** (`Shared_proofs`; `TeleInv`). `SnapshotsHold` proves `SnapshotsAreTrue` without
`FirstReadCrossed`. Its two halves meet only in the store. *The store* (`StoreTrue`): of every
bucket, nothing that was told is newer than what is shown, than its removal or than the list it
belongs to; what is shown was told no earlier than any of these (`Floors`), and what is not shown
was told to be gone by the newest of all. `MergedIsTrue` and `TakesWholeIsTrue` show that one
more update keeps this, in whatever order updates come, and `StoreTrueGives` that it is
`NewestWins`. *The stream*: `AccountsInv` and `ChangesInv` count, along the lines that are not
read yet, the changes the session will have been told of, so that a report and an answer can be
compared with what the session knows when it reads them; `RateReadInv` and `CtxReadInv` say that
an answer, wherever it is, is no older than that, or the read has `moved`. `ForgetInv` is
`NoChangeForgotten` at every moment, not only when all is quiet: a change that the session heard
of has a read or the timer to its name.

**Questions and the gateway's callers** (`Shared_proofs`). `RequestsStayTrue` proves
`RequestsAreTrue` of the composition that TLC runs, from one invariant per part, each of which
is a theorem of its own part too:

| theorem | property | inductive invariant |
|---|---|---|
| `AsksStayTrue` (`~IdenticalCalls`) | `AsksAreTrue` | `ApprovalsInv`: no two calls in flight on a thread have the same arguments, so the one that is looked up by its arguments is the one that asks (`CallForIsTheCall`) |
| `AccessStaysSound` (`NamesApart`) | `AccessIsSound` | `AccessInv`: what a request holds is what its sender has held (`HoldsItsOwn`), so no two requests hold the same message and a decision takes no other's; each message that came in has the key of its letter, its agent, and the scope and links of the configuration of that moment (`Keyed`), and such keys are equal exactly when the messages belong together (`KeysMeanTogether`) |
| `GatewayStartsAndStops` (`~IdleIsWrong`) | `StartsAndStops` | `LifecycleInv`: until a signal's `stop()` is about to end the process, what is up is what the stage of `start()` or of the host's `stop()` says (`ServerHolds`, `RestHolds`), and they are not both under way (`CallsHold`) |

`NamesApart` is a hypothesis about the configurations and not about the code: no name in
`identityLinks` is the id of a sender. Where one is, two people do meet (section 4).

**Discovery** (`CodexSystem_proofs`; `SavedInv`). `DiscoveryStaysSound` proves
`DiscoveryIsSound` without `FilesMove`, for every finite set of sessions and every page size,
number of pages, workers, inspections and events. The two discoveries share an invariant only in
what is outside them: ages are given out once (`AgesApart`), so no two sessions changed at the
same time and what stays as it was keeps its place.

- *Pages of a server* (`PagesAreRight`). While pages are read, nothing is told yet of much that is
  asked for: `PagesCover` says of every such session that it was told, is in the page that is
  being inspected or told and has not been dropped from it, or is left, before the cursor.
  `PagesPass` says that what was told or is in the page is not left as well, so nothing is told
  twice although pages are cut at a time and not at a place; `PagesInOrder`, that pages follow
  each other in age, so the limit keeps the newest; `PagesSeen`, that workers have left nothing
  out behind `next`, unless one of them failed and the whole discovery does.
- *Files* (`FilesAreRight`). Here all is listed first: `FilesListed` follows a session through the
  two directories, `FilesStay` and `FilesDated` say that what `stat` tells is still the file's and
  no other's, so the list is in order (`FilesInOrder`); then `FilesSeen` and `FilesTold` say that
  workers take from its front and stop only with as many as were asked for, all of them before
  what was not looked at.

`InSomeOrder` and `InOrderOfAge` are what they need of lists: a finite set has an order, and with
different ages one by age. So the model says `CHOOSE` of a sorted list where it once sorted one
with a library operator that takes an operator, about which nothing can be proved.

**One-shot runs** (`OneShot_proofs`). `RunsAlwaysEndClean` (`~LateFailures`) and `ResultsStayTrue`
(no assumption) are about what TLC runs, for every set of executors, sequence of routes and number
of runs, from two invariants that share no variable.

- `RunInv`, of one child. `RunRests` says what a run that has no child yet, or has none any more,
  may have left; `StopsAreTrue`, that a flag was raised by a signal or a timer there was;
  `HandledIsTold`, that what was handled of the child's lines was told, so that a task it opened is
  seen in what the host heard. `RunEndsOnce` is the property itself, with what precedes the end: as
  long as the stage is not the last, no last word was told.
- `ExecInv`, of the executions: each run is right (`RunIsRight`) whatever the others do. It
  `HoldsItsOwn`, nothing but what a step that it has passed stages; a stop that it heard is the
  first one, and one that there was (`StopsItHeard`); and `SpeaksIn` ties the session it names to
  the one that it asked for and the folder of that one. Its steps are lemmas about one run and any
  others, so `executeAll` adds only `BatchIsWhole`.

For this, two definitions of `OneShotRun` speak of places where they filtered a sequence.

**Workspaces** (`Workspaces_proofs`). `PartsOfWorkspaces` shows that what TLC runs, where a
behaviour is one of one part, are behaviours of the three specifications that the theorems are
about.

| theorem | property | inductive invariant |
|---|---|---|
| `WorkspacesStayTrue` (`~RefsMove`, `~Remade`) | `WorkspacesAreTrue` | `TreesInv`: what git lists, what is on disk and what the metadata says agree (`TreesSound`), every set of commits has the first (`RefsRooted`), and each call, by where it stands, knows what it has looked at: a creation that is about to write is the maker of the worktree at its path (`CallIsSound`, `OwnTree`) |
| `ArchivesLoseNothing` | `WorkIsKept` | no more than that trees and metadata are functions (`TreesAreFunctions`): each step by itself, whatever moves meanwhile. `git worktree remove` without `--force` and `git branch -d` look again, so the status that `archive` read before need not hold any more |
| `ToolsStayTrue` (`~LeaderFirst`, `~AtOnce`, `~UnderLinks`) | `ToolsAreTrue` | `ToolsInv`, one part per tool. `ScriptInv`: chunks are numbered as they are written, so the order in each pipe is that of the numbers (`ChunksInOrder`). `PortsInv`: the sockets that are open are those of the calls that probe, and no two share one. `WatchInv`: what was told and what waits are, in this order, all that changed. `ContextInv`: a name that is picked is free and nobody else's (`LeastNumber`: there is a first free one). `SourcesInv`: the source is whole, and what is done is there |
| `PortsAndBatchesStayTrue` | two parts of it | the same, whatever the three constants are |
| `OthersSkillsAreKept` (`~Replaced`) | `OthersSkillsStay` | `LinksInv`: between a call's look and its unlink, what it is about to take is still what it may take (`MayTake`) |

To prove them, two things had to be said that the first model left open. A creation that is about
to write its metadata may find another call's worktree at its path, when its own was archived
meanwhile: three calls are needed, more than the run has, so it is a constant, `Remade`. And the
guards of a `CASE` must exclude one another: TLA+ does not say which of two true ones is taken.

*Only model-checked.* Liveness under fairness (`EveryCallReturns`, `StoppedRunsEnd`,
`DrainReleases`, `ComesToRest`, `ChildEndIsTold`) is out of the prover's reach. Section 8 has the
rest.

## 7. Not modelled

`PROJECT.json` has every component with its status and what is left out of it. Left out for
good: thin wrappers (Gemini, Copilot, OpenClaw, Cursor's session), argument and environment
building, configuration overlays (derived providers), lookups without state, payloads of chat
services, the `gh` wrapper, demos and scripts. Left out of the modelled components, for a later
extension: the handshakes' content, goal hydration and the paused status, usage and cost,
titles, the streamer's interval edits, cron.

Branches that the modelled code has and the modules leave out, because no property tells them
apart or they only remove steps:

- a call of an MCP server that the host itself serves is accepted without a question
  (codex/session.ts:1668-1671): `CodexApprovals` asks about every call;
- an exec-backed turn whose `execute()` throws is not seen by the goal loop
  (exec-backed.ts:87): the turns of `ExecBackedSession` resolve, as completed or failed;
- `connect()` of OpenCode's session polls once for pending input (http-session.ts:165): a request
  of an earlier process is first seen by a later poll or event in `OpenCodeSession`;
- a cron message's `replyTo` chooses where its answer goes: in `GatewayPipeline` answers go back
  on the message's route;
- a file whose `diff --git` header cannot be read is dropped whole (diff.ts:92): paths are numbers
  in `WorkspaceDiff`, so every header can be read.

## 8. What stays with TLC

Every invariant below is checked by a run and stated by no theorem.

- What a fold or a filter over a sequence computes, which is induction over data: `HistoryIsKept`,
  `ToldTrue`, `ReadsAreTrue`.
- `TextsAreTrue`: one part of it is about `Chunker`, which folds over texts.
- `DrainKillsNothing` is about what `drain()` may believe of background tasks. It needs that the
  session's record of tasks agrees with the CLI's, line by line, which `Attributed` does not have.
