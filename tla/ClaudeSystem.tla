----------------------------- MODULE ClaudeSystem -----------------------------
(***************************************************************************)
(* ClaudeSession composed with the Claude CLI over the two pipes of the    *)
(* child process.  The CLI is external: it is modelled from                *)
(* docs/turn-liveness.md, the comments of session.ts and the tests of the  *)
(* session.  It queues messages and finished tasks' results as input,      *)
(* names each host message it dequeues, starts a turn of its own for a     *)
(* task's result, folds what arrives during a turn into that turn, and     *)
(* ends a turn with a result.                                              *)
(***************************************************************************)
EXTENDS ClaudeSession

CONSTANTS
    QueuedRecords,  \* whether the CLI announces a message it merely queues
    MaxPipe         \* bound: lines the CLI lets wait in its stdout

ASSUME PipeAssumption == QueuedRecords \in BOOLEAN /\ MaxPipe \in Nat \ {0}
\* What the CLI says is content that the session knows.
ASSUME ContentOfCli == "assistant" \in ContentTypes

VARIABLES
    toCli,     \* stdin: what the session wrote and the CLI has not read
    toHost,    \* stdout: lines the session has not read
    queue,     \* the CLI's input queue: messages, and notifications
    cliTurn,   \* the turn the CLI runs
    asking,    \* the permission request that blocks it, if any
    live,      \* subagents running
    launched,  \* subagents ever started
    ran        \* the messages of each turn that produced a result

cliVars == <<queue, cliTurn, asking, live, launched, ran>>
systemVars == <<vars, toCli, toHost, cliVars>>

Notification == 0    \* a finished task's result, in the CLI's queue
NoRequest == "none"
NoCliTurn == [running |-> FALSE, commands |-> {}, spoke |-> FALSE]

Line(type, id, ok) == [type |-> type, id |-> id, ok |-> ok]

SystemInit ==
    /\ Init
    /\ toCli = << >> /\ toHost = <<Line("init", 0, TRUE)>>
    /\ queue = << >> /\ cliTurn = NoCliTurn /\ asking = NoRequest
    /\ live = {} /\ launched = {} /\ ran = << >>

-----------------------------------------------------------------------------
(* The host's calls, with what they write to the CLI.                      *)

Write(messages) == toCli' = toCli \o messages

HostSend == Send /\ Write(<<Line("user", sent + 1, TRUE)>>)

Interrupt == IF InterruptAccepted THEN <<Line("interrupt", 0, TRUE)>> ELSE << >>

HostEarly == \E u \in Sends : SettleEarly(u) /\ Write(Interrupt)

HostCancel ==
    \E c \in Controls, u \in 1..sent :
        SendControl(c, "waiting") /\ Write(<<Line("cancel", <<c, u>>, TRUE)>>)

HostStopTask ==
    \E c \in Controls, t \in Tasks :
        SendControl(c, "waiting") /\ Write(<<Line("stop_task", <<c, t>>, TRUE)>>)

HostDrain == Drain /\ Write(<< >>)
HostClose == Close /\ Write(<< >>)

HostCall ==
    /\ HostSend \/ HostEarly \/ HostCancel \/ HostStopTask \/ HostDrain \/ HostClose
    /\ UNCHANGED <<toHost, cliVars>>

Answer ==
    /\ \E r \in Requests :
          /\ CallbackReturns(r)
          /\ Write(IF StillWanted(r) THEN <<Line("answer", r, TRUE)>> ELSE << >>)
    /\ UNCHANGED <<toHost, cliVars>>

Internal(step) == step /\ UNCHANGED <<toCli, toHost, cliVars>>

-----------------------------------------------------------------------------
(* The session reads one line of stdout.                                   *)

TakeLine ==
    LET l == Head(toHost)
        Unless(ignored, step) == IF ignored THEN UNCHANGED vars ELSE step
    IN
    /\ toHost # << >> /\ toHost' = Tail(toHost)
    /\ CASE l.type = "result" -> ResultLine
         [] l.type = "assistant" -> Unless(~Listening, ContentLine("assistant", FALSE))
         [] l.type = "init" -> Unless(~Listening \/ ~seenResult \/ TurnOpen, InitLine)
         [] l.type \in {"queued", "started"} ->
               Unless(~Listening, JoinLine(l.id, l.type) \/ StartLine(l.id, l.type))
         [] l.type \in TerminalStates -> Unless(~Listening, RetireLine(l.id, l.type))
         [] l.type = "task_started" -> Unless(~Listening, TaskLine(l.id, "started", "running"))
         [] l.type = "task_completed" -> Unless(~Listening, TaskLine(l.id, "update", "completed"))
         [] l.type = "task_stopped" -> Unless(~Listening, TaskLine(l.id, "update", "stopped"))
         [] l.type = "request" -> RequestLine(l.id, "can_use_tool", FALSE)
         [] l.type = "cancel_request" ->
               Unless(callbacks[l.id].status # "asked", CancelRequestLine(l.id))
         [] l.type = "response" ->
               Unless(controls[l.id] # "waiting", ResponseLine(l.id, l.ok))
    /\ UNCHANGED <<toCli, cliVars>>

-----------------------------------------------------------------------------
(* The CLI.                                                                *)

Running == cliTurn.running

Emit(lines) == toHost' = toHost \o lines

\* The CLI steps while it lives and its stdout has room.  Once the session has
\* closed only what is in the pipe is left to read: module ClaudeSession lets any
\* line arrive after the close.
CliUp == ~exited /\ state # "closed" /\ Len(toHost) < MaxPipe /\ UNCHANGED <<vars>>

\* The CLI reports them one by one, each once.
Completed(commands) ==
    LET order == CHOOSE s \in [1..Cardinality(commands) -> commands] :
                    \A u \in commands : \E i \in DOMAIN s : s[i] = u
    IN  [i \in 1..Cardinality(commands) |-> Line("completed", order[i], TRUE)]

\* The turn ends with a result, and its messages complete.
EndTurn ==
    /\ cliTurn' = NoCliTurn /\ asking' = NoRequest
    /\ ran' = Append(ran, cliTurn.commands)
    /\ Emit(<<Line("result", 0, TRUE)>> \o Completed(cliTurn.commands))

CliQueues(u) ==
    /\ queue' = Append(queue, u)
    /\ Emit(IF QueuedRecords THEN <<Line("queued", u, TRUE)>> ELSE << >>)
    /\ UNCHANGED <<cliTurn, asking, live, launched, ran>>

\* A message still in the queue leaves it; one that was dequeued stays.
CliCancels(c, u) ==
    /\ \/ \E i \in DOMAIN queue :
             /\ queue[i] = u
             /\ queue' = SubSeq(queue, 1, i - 1) \o SubSeq(queue, i + 1, Len(queue))
             /\ Emit(<<Line("cancelled", u, TRUE), Line("response", c, TRUE)>>)
       \/ /\ \A i \in DOMAIN queue : queue[i] # u
          /\ Emit(<<Line("response", c, TRUE)>>)
          /\ UNCHANGED queue
    /\ UNCHANGED <<cliTurn, asking, live, launched, ran>>

CliStopsTask(c, t) ==
    /\ live' = live \ {t}
    /\ Emit((IF t \in live THEN <<Line("task_stopped", t, TRUE)>> ELSE << >>)
            \o <<Line("response", c, t \in live)>>)
    /\ UNCHANGED <<queue, cliTurn, asking, launched, ran>>

CliReads ==
    /\ CliUp /\ toCli # << >> /\ toCli' = Tail(toCli)
    /\ LET m == Head(toCli) IN
       CASE m.type = "user" -> CliQueues(m.id)
         [] m.type = "cancel" -> CliCancels(m.id[1], m.id[2])
         [] m.type = "stop_task" -> CliStopsTask(m.id[1], m.id[2])
         [] m.type = "answer" ->
               /\ asking' = IF asking = m.id THEN NoRequest ELSE asking
               /\ UNCHANGED <<toHost, queue, cliTurn, live, launched, ran>>
         [] m.type = "interrupt" /\ Running ->
               EndTurn /\ UNCHANGED <<queue, live, launched>>
         [] OTHER -> UNCHANGED <<toHost, cliVars>>

CliStarts ==
    /\ CliUp /\ ~Running /\ queue # << >>
    /\ queue' = Tail(queue)
    /\ cliTurn' = [running |-> TRUE, spoke |-> FALSE,
                   commands |-> {Head(queue)} \ {Notification}]
    /\ Emit(IF Head(queue) = Notification THEN <<Line("init", 0, TRUE)>>
                                          ELSE <<Line("started", Head(queue), TRUE)>>)
    /\ UNCHANGED <<toCli, asking, live, launched, ran>>

\* What waits in the queue while a turn runs joins it; only messages are named.
CliFolds ==
    /\ CliUp /\ Running /\ queue # << >>
    /\ queue' = Tail(queue)
    /\ cliTurn' = [cliTurn EXCEPT !.commands = @ \cup ({Head(queue)} \ {Notification})]
    /\ Emit(IF Head(queue) = Notification THEN << >>
                                          ELSE <<Line("started", Head(queue), TRUE)>>)
    /\ UNCHANGED <<toCli, asking, live, launched, ran>>

\* A message retires without a turn, or opens one that has no result.
CliRefuses ==
    /\ CliUp /\ ~Running /\ queue # << >> /\ Head(queue) # Notification
    /\ queue' = Tail(queue)
    /\ \/ Emit(<<Line("started", Head(queue), TRUE), Line("refused", Head(queue), TRUE)>>)
       \/ Emit(<<Line("discarded", Head(queue), TRUE)>>)
    /\ UNCHANGED <<toCli, cliTurn, asking, live, launched, ran>>

CliSpeaks ==
    /\ CliUp /\ Running /\ ~cliTurn.spoke
    /\ cliTurn' = [cliTurn EXCEPT !.spoke = TRUE]
    /\ Emit(<<Line("assistant", 0, TRUE)>>)
    /\ UNCHANGED <<toCli, queue, asking, live, launched, ran>>

CliLaunches ==
    /\ CliUp /\ Running
    /\ \E t \in Tasks \ launched :
          /\ live' = live \cup {t} /\ launched' = launched \cup {t}
          /\ Emit(<<Line("task_started", t, TRUE)>>)
    /\ UNCHANGED <<toCli, queue, cliTurn, asking, ran>>

\* A subagent finishes: the state patch, the delivery, and its result as input.
CliTaskDone ==
    /\ CliUp
    /\ \E t \in live :
          /\ live' = live \ {t}
          /\ Emit(<<Line("task_completed", t, TRUE), Line("task_completed", t, TRUE)>>)
    /\ queue' = Append(queue, Notification)
    /\ UNCHANGED <<toCli, cliTurn, asking, launched, ran>>

CliAsks ==
    /\ CliUp /\ Running /\ asking = NoRequest
    /\ \E r \in Requests :
          /\ callbacks[r] = Idle /\ \A i \in DOMAIN toHost : toHost[i].type # "request"
          /\ asking' = r
          /\ Emit(<<Line("request", r, TRUE)>>)
    /\ UNCHANGED <<toCli, queue, cliTurn, live, launched, ran>>

\* A hook wins the race against the permission prompt.
CliWithdraws ==
    /\ CliUp /\ asking # NoRequest
    /\ asking' = NoRequest
    /\ Emit(<<Line("cancel_request", asking, TRUE)>>)
    /\ UNCHANGED <<toCli, queue, cliTurn, live, launched, ran>>

\* A turn ends once it is not blocked and has taken in what arrived during it.
CliEnds ==
    /\ CliUp /\ Running /\ asking = NoRequest
    /\ \A i \in DOMAIN queue : queue[i] # Notification
    /\ EndTurn
    /\ UNCHANGED <<toCli, queue, live, launched>>

\* The process dies, by itself or by the signals of close(); what it wrote can
\* still be read.
CliExits == ProcessExit /\ UNCHANGED <<toCli, toHost, cliVars>>

-----------------------------------------------------------------------------

SystemNext ==
    \/ HostCall \/ Answer \/ TakeLine
    \/ Internal(EventsHandled) \/ Internal(TurnSettled)
    \/ Internal(DrainSettled) \/ Internal(DrainDeadline) \/ Internal(DrainClose)
    \/ Internal(CloseSignal) \/ Internal(GraceKill)
    \/ CliReads \/ CliStarts \/ CliFolds \/ CliRefuses \/ CliSpeaks \/ CliLaunches
    \/ CliTaskDone \/ CliAsks \/ CliWithdraws \/ CliEnds \/ CliExits

\* The event loop runs every continuation and reads every line, timers fire, the
\* host's callbacks return, and the CLI reads its input and ends its turns.
Fairness ==
    /\ WF_systemVars(Answer) /\ WF_systemVars(TakeLine)
    /\ WF_systemVars(Internal(EventsHandled)) /\ WF_systemVars(Internal(TurnSettled))
    /\ WF_systemVars(Internal(DrainSettled)) /\ WF_systemVars(Internal(DrainDeadline))
    /\ WF_systemVars(Internal(DrainClose))
    /\ WF_systemVars(Internal(CloseSignal)) /\ WF_systemVars(Internal(GraceKill))
    /\ WF_systemVars(CliReads) /\ WF_systemVars(CliStarts) /\ WF_systemVars(CliEnds)
    /\ WF_systemVars(CliFolds)

SystemSpec == SystemInit /\ [][SystemNext]_systemVars /\ Fairness

-----------------------------------------------------------------------------
(* Properties.                                                             *)

\* Nothing has closed the session yet.
Alive == closing = "no" /\ ~exited

\* A send is resolved with the result of the very turn in which the CLI ran it:
\* attribution by uuid agrees with what happened on the other side of the pipe.  A
\* closed session is out of it: a request it reads takes `state` off "closed", and
\* what it did not act on before is missing from what it knows.
TrueOwner ==
    Alive => \A u \in Sends :
        outcome[u] = "result" /\ results[resultOf[u]].turn # 0 => u \in ran[resultOf[u]]

\* drain() kills no work it can wait for: when it closes before its deadline, and
\* every message sent had a turn and its result, the CLI runs no turn, no subagent is alive and no
\* delivered result waits to start a turn, although all three become known to the
\* session only through lines still in the pipe.
DrainKillsNothing ==
    [][(drain = "turns" /\ drain' = "done" /\ closing = "no" /\ closing' # "no"
          /\ \A u \in 1..sent : outcome[u] = "result")
        => ~Running /\ live = {} /\ \A i \in DOMAIN queue : queue[i] # Notification
      ]_systemVars

\* Every promise of send() settles, unless the process dies (and then the close
\* settles it: ClosedSettlesAll).
EverySendSettles ==
    \A u \in Sends : outcome[u] = "pending" ~> (outcome[u] # "pending" \/ exited)

\* drain() ends, whatever the CLI keeps running.
DrainCloses == drain = "settling" ~> (drain = "done" \/ exited)

\* Whoever waits for the session, for a send or for its end, is answered.
EveryCallReturns == EverySendSettles /\ DrainCloses

=============================================================================
