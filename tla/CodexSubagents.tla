--------------------------- MODULE CodexSubagents ---------------------------
(***************************************************************************)
(* The children of a Codex session (packages/agent/src/providers/codex/    *)
(* session.ts and parse.ts): threads that the root spawns on the same      *)
(* app-server.  The session knows them from notifications of their         *)
(* threads, from items of the root, and from thread/read, which it polls   *)
(* because the end of a child may not be notified; each turn of a child is *)
(* to be reported once, and a child that was woken again is not to be      *)
(* ended by what is still said of its previous turn.                       *)
(*                                                                         *)
(* External: the app-server.  Its lines come in order; what thread/read    *)
(* tells may lag.  Children of children, descriptions and summaries are    *)
(* left out.                                                               *)
(***************************************************************************)
EXTENDS Naturals, Sequences, FiniteSets, SequencesExt

CONSTANTS
    Children,       \* the threads that the root may spawn
    MaxTurns,       \* bound: turns of a child
    MaxItems,       \* bound: items of the root about children, spawns aside
    MaxMissed,      \* bound: ends of turns that are not notified
    MaxLines        \* bound: lines that the session has not read

ASSUME SubagentsAssumption ==
    /\ IsFiniteSet(Children) /\ MaxTurns \in Nat /\ MaxItems \in Nat /\ MaxMissed \in Nat
    /\ MaxLines \in Nat

VARIABLES
    threads,    \* per child: whether it is made, announced by the root, failed, and its turns
    persisted,  \* per child, the turns that thread/read tells
    lines,      \* from the app-server to the session
    items,      \* items of the root so far
    missed,     \* ends not notified so far
    tasks,      \* the session's record per child
    pollers,    \* the pollers, each of a child and a generation
    ended,      \* whether the session has been closed or its process has exited
    reported,   \* history: the turns whose end was dispatched, per child
    overtaken   \* history: children that were woken while not known to have ended

serverVars == <<threads, persisted, items, missed>>
childVars == <<tasks, pollers, reported>>
subagentVars == <<serverVars, lines, childVars, ended, overtaken>>

NoTurn == 0
RootTurn == MaxTurns + 1    \* the id of a turn of the root is no turn of a child

Statuses == {"completed", "stopped"}

SubagentsInit ==
    /\ threads = [c \in Children |-> [made |-> FALSE, announced |-> FALSE, failed |-> FALSE,
                                      turns |-> << >>]]
    /\ persisted = [c \in Children |-> << >>]
    /\ lines = << >> /\ items = 0 /\ missed = 0
    /\ tasks = [c \in Children |-> [known |-> FALSE, terminal |-> FALSE, generation |-> 0,
                                    active |-> NoTurn]]
    /\ pollers = {} /\ ended = FALSE
    /\ reported = [c \in Children |-> << >>] /\ overtaken = {}

-----------------------------------------------------------------------------
(* The app-server                                                          *)

Running(c) == threads[c].turns # << >> /\ Last(threads[c].turns) = "running"
Latest(c) == Len(threads[c].turns)

\* The state that an item of the root tells of a child: codexAgentState is terminal
\* unless it is "running".
StateOf(c) ==
    CASE threads[c].failed -> "failed"
      [] ~threads[c].failed /\ threads[c].turns # << >> -> Last(threads[c].turns)
      [] OTHER -> "running"

\* The app-server writes one more line.
Writes(line) == Len(lines) < MaxLines /\ lines' = Append(lines, line)

Line(kind, c, state) == [kind |-> kind, of |-> c, state |-> state, turn |-> Latest(c)]

\* A child is made, its thread is notified or not.
Spawns(c, notified) ==
    /\ ~threads[c].made
    /\ threads' = [threads EXCEPT ![c].made = TRUE]
    /\ IF notified THEN Writes(Line("thread", c, "running")) ELSE UNCHANGED lines
    /\ UNCHANGED <<persisted, items, missed, childVars, ended, overtaken>>

\* The root's call that spawned it is done: a collabAgentToolCall item, with the child's
\* state or without, or a subAgentActivity item.
Announces(c) ==
    /\ threads[c].made /\ ~threads[c].announced
    /\ threads' = [threads EXCEPT ![c].announced = TRUE]
    /\ \/ \E state \in {StateOf(c), "running"} : Writes(Line("spawn", c, state))
       \/ Writes(Line("activity", c, "running"))
    /\ UNCHANGED <<persisted, items, missed, childVars, ended, overtaken>>

\* A turn of a child; the ones after the first are asked for by the root.
TurnBegins(c) ==
    /\ threads[c].made /\ ~threads[c].failed /\ ~Running(c) /\ Latest(c) < MaxTurns
    /\ Latest(c) > 0 => threads[c].announced
    /\ threads' = [threads EXCEPT ![c].turns = Append(@, "running")]
    /\ Writes([kind |-> "turn", of |-> c, state |-> "running", turn |-> Latest(c) + 1])
    /\ UNCHANGED <<persisted, items, missed, childVars, ended, overtaken>>

TurnFinishes(c, status, notified) ==
    /\ Running(c) /\ (notified \/ missed < MaxMissed)
    /\ threads' = [threads EXCEPT ![c].turns[Latest(c)] = status]
    /\ missed' = IF notified THEN missed ELSE missed + 1
    /\ IF notified THEN Writes(Line("end", c, status)) ELSE UNCHANGED lines
    /\ UNCHANGED <<persisted, items, childVars, ended, overtaken>>

\* A child fails before its first turn.
InitFails(c) ==
    /\ threads[c].made /\ threads[c].turns = << >> /\ ~threads[c].failed
    /\ threads' = [threads EXCEPT ![c].failed = TRUE]
    /\ UNCHANGED <<persisted, lines, items, missed, childVars, ended, overtaken>>

Persists(c) ==
    /\ persisted' = [persisted EXCEPT ![c] = threads[c].turns]
    /\ UNCHANGED <<threads, lines, items, missed, childVars, ended, overtaken>>

\* The root has waited for a child, sent it something, forwarded its answer, or closed or
\* interrupted it (once it is not running): an item about it.
RootItem(c, kind) ==
    /\ items < MaxItems /\ threads[c].announced
    /\ kind \in {"close", "interrupted"} => ~Running(c)
    /\ items' = items + 1
    /\ Writes(Line(kind, c, IF kind = "close" THEN "stopped" ELSE StateOf(c)))
    /\ UNCHANGED <<threads, persisted, missed, childVars, ended, overtaken>>

-----------------------------------------------------------------------------
(* Events                                                                  *)

Edge(phase, turn, of) == [phase |-> phase, turn |-> turn, of |-> of]

\* observeBackgroundTask(): a task that has ended hears no more, one that is known does
\* not start again; `turn` is the turn that the event names.
Observed(s, edge) ==
    IF s.task.terminal \/ (s.task.known /\ edge.phase = "started") THEN s
    ELSE LET terminal == edge.phase = "completed"
         IN  [task |-> [s.task EXCEPT !.known = TRUE, !.terminal = terminal,
                           !.active = CASE terminal -> NoTurn
                                        [] ~terminal /\ edge.turn # NoTurn -> edge.turn
                                        [] OTHER -> @],
              reports |-> IF terminal THEN Append(s.reports, edge.of) ELSE s.reports,
              polls |-> s.polls \/ ~terminal]

\* Mutant: one poller per child, whichever generation it polls for.
HasPollerEver(c, generation) == \E p \in pollers : p.of = c

\* startBackgroundTaskPoller(): the one that is there is of this generation.
HasPoller(c, generation) == \E p \in pollers : p.of = c /\ p.generation = generation

\* dispatchEvent() of the edges of a line, of which there are two at most.
Dispatched(s, edges) ==
    CASE Len(edges) = 1 -> Observed(s, edges[1])
      [] Len(edges) = 2 -> Observed(Observed(s, edges[1]), edges[2])
      [] OTHER -> s

\* The same, when the record of c is `task`.
Dispatch(c, task, edges) ==
    LET s == Dispatched([task |-> task, reports |-> reported[c], polls |-> FALSE], edges)
    IN  /\ tasks' = [tasks EXCEPT ![c] = s.task]
        /\ reported' = [reported EXCEPT ![c] = s.reports]
        /\ pollers' = IF s.polls /\ ~HasPoller(c, task.generation)
                      THEN pollers \cup {[of |-> c, generation |-> task.generation, at |-> "due"]}
                      ELSE pollers

-----------------------------------------------------------------------------
(* What the session hears                                                  *)

\* handleCollabAgentToolCall(): a spawn makes the child known; a state ends a known child;
\* what was only sent to it says nothing.
CollabEdges(l) ==
    LET start == Edge("started", NoTurn, l.turn)
        end == Edge("completed", NoTurn, l.turn)
        over == l.state # "running"
    IN  CASE l.kind = "spawn" -> IF over THEN <<start, end>> ELSE <<start>>
          [] l.kind \in {"wait", "close"} /\ tasks[l.of].known /\ over -> <<end>>
          [] OTHER -> << >>

\* subAgentActivity: the event names the turn of the item, which is the root's.
ActivityPhase ==
    [activity |-> "started", interacted |-> "progress", interrupted |-> "completed"]

ActivityEdges(l) == <<Edge(ActivityPhase[l.kind], RootTurn, l.turn)>>

\* handleForeignNotification
ThreadStarted(l) == Dispatch(l.of, tasks[l.of], <<Edge("started", NoTurn, l.turn)>>)

TurnStarted(l) ==
    IF tasks[l.of].terminal
    THEN LET woken == [tasks[l.of] EXCEPT !.terminal = FALSE, !.generation = @ + 1]
         IN  Dispatch(l.of, woken, <<Edge("progress", l.turn, l.turn)>>)
    ELSE UNCHANGED childVars

TurnEnded(l) ==
    IF tasks[l.of].known THEN Dispatch(l.of, tasks[l.of], <<Edge("completed", l.turn, l.turn)>>)
    ELSE UNCHANGED childVars

-----------------------------------------------------------------------------
(* Polling                                                                 *)

\* Mutant: the turn that thread/read ends with is taken for the one that was started.
AnyTurn(task, turn) == TRUE

\* A turn that was started is not ended by an older one.
IsActiveTurn(task, turn) == task.active # NoTurn => turn = task.active

Stale(p) == ended \/ tasks[p.of].generation # p.generation \/ tasks[p.of].terminal

\* The microtask, or the timer, is due: thread/read, unless there is nothing to ask.
Polls(p) ==
    /\ p.at \in {"due", "waiting"}
    /\ pollers' = (pollers \ {p}) \cup (IF Stale(p) THEN {} ELSE {[p EXCEPT !.at = "asked"]})
    /\ UNCHANGED <<serverVars, lines, tasks, ended, reported, overtaken>>

\* The app-server answers with what it has: the latest turn, or that there is none and
\* the thread failed.
Answers(p) ==
    LET turns == persisted[p.of]
        state == CASE turns # << >> -> Last(turns)
                   [] turns = << >> /\ threads[p.of].failed -> "failed"
                   [] OTHER -> "running"
    IN  /\ p.at = "asked"
        /\ Writes([kind |-> "read", of |-> p.of, state |-> state, turn |-> Len(turns), poller |-> p])
        /\ pollers' = (pollers \ {p}) \cup {[p EXCEPT !.at = "answered"]}
        /\ UNCHANGED <<serverVars, tasks, ended, reported, overtaken>>

\* It does not, or not in time: the poller waits for its timer.
ReadTimesOut(p) ==
    /\ p.at = "asked"
    /\ pollers' = (pollers \ {p}) \cup (IF Stale(p) THEN {} ELSE {[p EXCEPT !.at = "waiting"]})
    /\ UNCHANGED <<serverVars, lines, tasks, ended, reported, overtaken>>

\* observeBackgroundTaskThread(): the answer proves that the child's turn ended.
Proves(l) ==
    /\ l.state # "running"
    /\ l.turn > 0 => IsActiveTurn(tasks[l.of], l.turn)

\* pollBackgroundTask() resumes with an answer.
Reconciles(l) ==
    LET p == [l.poller EXCEPT !.at = "answered"]
    IN  CASE Stale(p) -> pollers' = pollers \ {p} /\ UNCHANGED <<tasks, reported>>
          [] ~Stale(p) /\ Proves(l) ->
                LET s == Observed([task |-> tasks[l.of], reports |-> reported[l.of], polls |-> FALSE],
                                  Edge("completed", l.turn, l.turn))
                IN  /\ tasks' = [tasks EXCEPT ![l.of] = s.task]
                    /\ reported' = [reported EXCEPT ![l.of] = s.reports]
                    /\ pollers' = pollers \ {p}
          [] OTHER -> /\ pollers' = (pollers \ {p}) \cup {[p EXCEPT !.at = "waiting"]}
                      /\ UNCHANGED <<tasks, reported>>

-----------------------------------------------------------------------------
(* The session                                                             *)

\* A line about a child is handled; a session that is over ignores it.
Hears ==
    LET l == Head(lines)
    IN  /\ lines # << >> /\ lines' = Tail(lines)
        /\ IF ended THEN UNCHANGED <<childVars, overtaken>>
           ELSE /\ CASE l.kind = "thread" -> ThreadStarted(l)
                     [] l.kind = "turn" -> TurnStarted(l)
                     [] l.kind = "end" -> TurnEnded(l)
                     [] l.kind \in DOMAIN ActivityPhase -> Dispatch(l.of, tasks[l.of], ActivityEdges(l))
                     [] l.kind = "read" -> Reconciles(l)
                     [] OTHER -> Dispatch(l.of, tasks[l.of], CollabEdges(l))
                /\ overtaken' = IF l.kind = "turn" /\ l.turn > 1 /\ tasks[l.of].known /\ ~tasks[l.of].terminal
                                THEN overtaken \cup {l.of} ELSE overtaken
        /\ UNCHANGED <<serverVars, ended>>

\* close(), or the process exits: the tasks that are known and run end here, and what is
\* asked is rejected.
Ends ==
    /\ ~ended /\ ended' = TRUE
    /\ LET left == {c \in Children : tasks[c].known /\ ~tasks[c].terminal}
       IN  /\ tasks' = [c \in Children |-> IF c \in left THEN [tasks[c] EXCEPT !.terminal = TRUE] ELSE tasks[c]]
           /\ reported' = [c \in Children |->
                  IF c \in left THEN Append(reported[c], NoTurn) ELSE reported[c]]
    /\ pollers' = {}
    /\ UNCHANGED <<serverVars, lines, overtaken>>

SubagentsNext ==
    \/ \E c \in Children :
          \/ \E notified \in BOOLEAN : Spawns(c, notified)
          \/ Announces(c) \/ TurnBegins(c) \/ InitFails(c) \/ Persists(c)
          \/ \E status \in Statuses, notified \in BOOLEAN : TurnFinishes(c, status, notified)
          \/ \E kind \in {"wait", "interacted", "interrupted", "close", "sent"} : RootItem(c, kind)
    \/ Hears \/ Ends
    \/ \E p \in pollers : Polls(p) \/ Answers(p) \/ ReadTimesOut(p)

\* The session reads what is there and its timers fire; the app-server announces what it
\* made, brings thread/read up to date, and answers one read if it is asked again and again.
SubagentsFairness ==
    /\ WF_subagentVars(Hears)
    /\ WF_subagentVars(\E p \in pollers : Polls(p))
    /\ \A c \in Children :
          /\ SF_subagentVars(Announces(c))
          /\ WF_subagentVars(Persists(c) /\ persisted[c] # threads[c].turns)
          /\ SF_subagentVars(\E p \in pollers : p.of = c /\ Answers(p))

SubagentsSpec == SubagentsInit /\ [][SubagentsNext]_subagentVars /\ SubagentsFairness

-----------------------------------------------------------------------------
(* Properties                                                              *)

SubagentsTypeOK ==
    /\ \A c \in Children : tasks[c].active \in 0 .. MaxTurns + 1
    /\ \A p \in pollers : p.of \in Children /\ p.at \in {"due", "asked", "answered", "waiting"}

\* The start of a child's turn has not been heard yet.
Unheard(c) == \E i \in DOMAIN lines : lines[i].kind = "turn" /\ lines[i].of = c

Rising(s) == \A i, j \in DOMAIN s : i < j => s[i] < s[j]

\* While the session lives, a child is not taken for ended while it runs, and every turn is
\* reported once, in order: whatever a poll, an item of the root or a late line still
\* says of the turn before.  (But for a child that was woken before its end was known.)
ChildrenTrue ==
    ~ended => \A c \in Children \ overtaken :
        /\ tasks[c].known /\ tasks[c].terminal /\ Running(c) => Unheard(c)
        /\ Rising(reported[c])

\* Who is over: no turn runs and there was one, or there never will be.
Over(c) == ~Running(c) /\ (threads[c].failed \/ threads[c].turns # << >>)

\* The end of a child is told, whichever route made it known and though no line of the
\* child may arrive: thread/read is polled for it.
SafetyNet ==
    \A c \in Children :
        Over(c) ~> ended \/ tasks[c].terminal \/ ~Over(c) \/ c \in overtaken

\* So it is for all children but those whose turn an activity item of the root has named.
ChildEndIsTold ==
    \A c \in Children :
        Over(c) ~> \/ ended \/ tasks[c].terminal \/ ~Over(c) \/ c \in overtaken
                   \/ tasks[c].active = RootTurn

=============================================================================
