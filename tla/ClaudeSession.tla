---------------------------- MODULE ClaudeSession ----------------------------
(***************************************************************************)
(* ClaudeSessionImpl (packages/agent/src/providers/claude/session.ts): the *)
(* host side of one long-lived Claude CLI process.  The session turns the  *)
(* ordered lines of the CLI's stdout into turns, and settles each send()   *)
(* with the result of the turn that ran it.                                *)
(*                                                                         *)
(* One action is one synchronous stretch of JavaScript: the handling of    *)
(* one stdout line, one API call up to its first await, or the             *)
(* continuation after an await.  The lines are unconstrained here, so what *)
(* holds of this module holds whatever the CLI writes; module ClaudeSystem *)
(* composes it with a CLI that follows the protocol of                     *)
(* docs/turn-liveness.md.                                                  *)
(***************************************************************************)
EXTENDS Naturals, Sequences, FiniteSets

CONSTANTS
    MaxSends,     \* bound: calls of send(); message u is the u-th one
    MaxTurns,     \* bound: root turns the session opens
    MaxResults,   \* bound: result lines read
    Tasks,        \* ids of the CLI's background tasks
    Subagents,    \* those whose task_started names them a subagent
    Requests,     \* ids of the control requests the CLI sends
    Answered,     \* subtypes of them the host supplied a callback for
    Controls,     \* ids of the control requests the session sends
    ContentTypes  \* wire types of the content lines

ASSUME BoundsAssumption ==
    MaxSends \in Nat /\ MaxTurns \in Nat /\ MaxResults \in Nat
ASSUME TasksAssumption == Subagents \subseteq Tasks
ASSUME RequestsAssumption ==
    Answered \subseteq {"can_use_tool", "elicitation", "hook_callback"}

Sends == 1..MaxSends

\* A command the session never minted a uuid for (another client's).
Foreign == 0

NoTurn == [turn |-> 0, trigger |-> "none", commands |-> {}]

SessionStates == {"idle", "thinking", "tool_executing",
                  "waiting_for_approval", "waiting_for_input", "closed"}

\* Lifecycle states that retire a message.
TerminalStates == {"completed", "cancelled", "discarded", "refused"}

ASSUME ContentAssumption ==
    ContentTypes \subseteq {"assistant", "tool_use", "user", "stream_event",
                           "tool_result"}

VARIABLES
    state,          \* the SessionState the host reads
    openTurn,       \* the open root turn, or NoTurn
    turnSeq,        \* turns opened so far
    deliveries,     \* tasks whose delivered result still lacks its resume turn
    sent,           \* messages minted so far
    outstanding,    \* messages no turn has claimed
    pending,        \* messages whose promise awaits a result
    outcome,        \* how each message's promise stands
    resultOf,       \* the result a message was resolved with, or 0
    results,        \* per result line: turn taken, its commands, batch, chain length
    resumed,        \* handleResult calls that got past their await
    settling,       \* result lines whose batch is captured and not resolved
    log,            \* turn_start, result and turn_end events dispatched
    drained,        \* result lines up to which onEvent has handled the log
    seenLifecycle,  \* this CLI has named a command
    seenResult,     \* this stream has carried a result
    activeTasks,    \* live background tasks, with the type on record
    taskFacts,      \* tasks whose task_started was seen
    callbacks,      \* CLI control requests: kind and progress
    controls,       \* session control requests: progress
    drain,          \* phase of drain()
    closing,        \* phase of close()
    exited          \* the CLI process is gone

turnVars == <<openTurn, turnSeq, deliveries>>
sendVars == <<sent, outstanding, pending, outcome, resultOf>>
resultVars == <<results, resumed, settling>>
taskVars == <<activeTasks, taskFacts>>
controlVars == <<callbacks, controls>>
closeVars == <<drain, closing, exited>>
latchVars == <<seenLifecycle, seenResult>>
vars == <<state, turnVars, sendVars, resultVars, log, drained, latchVars,
          taskVars, controlVars, closeVars>>

Idle == [kind |-> "none", status |-> "none"]

Init ==
    /\ state = "idle"
    /\ openTurn = NoTurn /\ turnSeq = 0 /\ deliveries = {}
    /\ sent = 0 /\ outstanding = {} /\ pending = {}
    /\ outcome = [u \in Sends |-> "unsent"]
    /\ resultOf = [u \in Sends |-> 0]
    /\ results = << >> /\ resumed = 0 /\ settling = {}
    /\ log = << >> /\ drained = 0
    /\ seenLifecycle = FALSE /\ seenResult = FALSE
    /\ activeTasks = [t \in Tasks |-> "none"] /\ taskFacts = {}
    /\ callbacks = [r \in Requests |-> Idle]
    /\ controls = [c \in Controls |-> "unsent"]
    /\ drain = "none" /\ closing = "no" /\ exited = FALSE

-----------------------------------------------------------------------------
(* The pieces the handlers are made of.                                    *)

TurnOpen == openTurn # NoTurn

Event(type, turn) == [type |-> type, turn |-> turn]

\* Mutant: the settled flag is not looked at.
SettledTwice(S, how) == [u \in Sends |-> IF u \in S THEN how ELSE outcome[u]]

\* Settle the still pending members of S as `how`; an entry settled before
\* (p.settled in the code) keeps its outcome.
Settled(S, how) ==
    [u \in Sends |-> IF u \in S /\ outcome[u] = "pending" THEN how ELSE outcome[u]]

\* Open a root turn: announce it, forget the deliveries it answers.
OpenTurn(trigger, commands) ==
    /\ turnSeq < MaxTurns
    /\ turnSeq' = turnSeq + 1
    /\ openTurn' = [turn |-> turnSeq + 1, trigger |-> trigger, commands |-> commands]
    /\ deliveries' = {}
    /\ log' = Append(log, Event("turn_start", turnSeq + 1))

\* The events that announce the close of the open turn, if one is open.
CloseEvents == IF TurnOpen THEN <<Event("turn_end", openTurn.turn)>> ELSE << >>

CloseTurn ==
    /\ openTurn' = NoTurn
    /\ deliveries' = {}
    /\ log' = log \o CloseEvents
    /\ UNCHANGED turnSeq

\* Mutant: every pending send is claimed, whichever turn ran it.
ClaimAll(turn) == pending

\* The sends a result settles.  A turn the provider opened itself has no
\* command and settles nobody; a result with no turn settles everybody.
Claim(turn) ==
    IF turn = NoTurn THEN pending ELSE pending \cap turn.commands

\* Captured sends: those of the batches whose handler has not resumed.
Captured == UNION {results[k].sends : k \in settling}

\* Reject every pending send and control request, and close the open turn.
RejectAllPending ==
    /\ outcome' = Settled(pending \cup Captured, "rejected")
    /\ pending' = {} /\ settling' = {} /\ outstanding' = {}
    /\ CloseTurn
    /\ activeTasks' = [t \in Tasks |-> "none"] /\ taskFacts' = {}
    /\ controls' = [c \in Controls |->
                      IF controls[c] \in {"waiting", "timed"} THEN "rejected"
                                                              ELSE controls[c]]
    /\ UNCHANGED <<sent, resultOf, results, resumed>>

\* closeTransport up to its first await.
CloseTransport ==
    /\ state' = "closed"
    /\ closing' = "scan"
    /\ RejectAllPending

\* close(): once per session; on a session already closed there is nothing left.
DoClose ==
    IF closing = "no" /\ state # "closed"
    THEN CloseTransport
    ELSE UNCHANGED <<state, closing, sendVars, resultVars, turnVars, log,
                     taskVars, controls>>

\* What handleStreamMessage requires before it acts on a line.
Listening == state # "closed"

InterruptAccepted == state \notin {"idle", "closed"}

-----------------------------------------------------------------------------
(* The host's calls.                                                       *)

Send ==
    /\ state # "closed" /\ drain = "none" /\ sent < MaxSends
    /\ state' = IF state = "idle" THEN "thinking" ELSE state
    /\ sent' = sent + 1
    /\ outstanding' = outstanding \cup {sent + 1}
    /\ pending' = pending \cup {sent + 1}
    /\ outcome' = [outcome EXCEPT ![sent + 1] = "pending"]
    /\ UNCHANGED <<turnVars, resultOf, resultVars, log, drained, latchVars,
                   taskVars, controlVars, closeVars>>

\* A send's timeout or abort signal fires first.  The interrupt it asks for
\* only writes to the CLI.
SettleEarly(u) ==
    /\ outcome[u] = "pending"
    /\ outcome' = [outcome EXCEPT ![u] = "early"]
    /\ pending' = pending \ {u}
    /\ UNCHANGED <<state, turnVars, sent, outstanding, resultOf, resultVars, log,
                   drained, latchVars, taskVars, controlVars, closeVars>>

\* cancel() and stopTask() wait for the answer without a timer ("waiting");
\* the title and telemetry controls carry one ("timed").
SendControl(c, how) ==
    /\ controls[c] = "unsent" /\ state # "closed"
    /\ controls' = [controls EXCEPT ![c] = how]
    /\ UNCHANGED <<state, turnVars, sendVars, resultVars, log, drained, latchVars,
                   taskVars, callbacks, closeVars>>

ControlTimeout(c) ==
    /\ controls[c] = "timed"
    /\ controls' = [controls EXCEPT ![c] = "rejected"]
    /\ UNCHANGED <<state, turnVars, sendVars, resultVars, log, drained, latchVars,
                   taskVars, callbacks, closeVars>>

Drain ==
    /\ state # "closed" /\ drain = "none"
    /\ drain' = "settling"
    /\ UNCHANGED <<state, turnVars, sendVars, resultVars, log, drained, latchVars,
                   taskVars, controlVars, closing, exited>>

\* Promise.allSettled over the sends in flight when drain() began; no later
\* send is accepted, so these are all of them.
DrainSettled ==
    /\ drain = "settling"
    /\ \A u \in Sends : outcome[u] # "pending"
    /\ drain' = "turns"
    /\ UNCHANGED <<state, turnVars, sendVars, resultVars, log, drained, latchVars,
                   taskVars, controlVars, closing, exited>>

\* Mutant: the gap between a delivery and its resume turn is not covered.
AwaitingNoDelivery == TurnOpen \/ \E t \in Tasks : activeTasks[t] = "subagent"

\* awaitTurnClose polls while this holds.
AwaitingTurns ==
    \/ TurnOpen
    \/ deliveries # {}
    \/ \E t \in Tasks : activeTasks[t] = "subagent"

DrainWithoutDeadline == FALSE /\ UNCHANGED vars  \* Mutant: the poll has no deadline.

DrainDeadline ==
    /\ drain = "turns"
    /\ drain' = "expired"
    /\ UNCHANGED <<state, turnVars, sendVars, resultVars, log, drained, latchVars,
                   taskVars, controlVars, closing, exited>>

DrainClose ==
    /\ \/ drain = "turns" /\ (~AwaitingTurns \/ state = "closed")
       \/ drain = "expired"
    /\ drain' = "done"
    /\ DoClose
    /\ UNCHANGED <<drained, latchVars, callbacks, exited>>

\* close() by the host, or by the error handler of the child's stdin.
Close ==
    /\ closing = "no" /\ state # "closed"
    /\ DoClose
    /\ UNCHANGED <<drained, latchVars, callbacks, drain, exited>>

\* The goal transcript is scanned; stdin ends and SIGTERM goes out.
CloseSignal ==
    /\ closing = "scan"
    /\ closing' = "grace"
    /\ UNCHANGED <<state, turnVars, sendVars, resultVars, log, drained, latchVars,
                   taskVars, controlVars, drain, exited>>

\* The grace timer fires: SIGKILL, without waiting for the exit.
GraceKill ==
    /\ closing = "grace"
    /\ closing' = "done"
    /\ UNCHANGED <<state, turnVars, sendVars, resultVars, log, drained, latchVars,
                   taskVars, controlVars, drain, exited>>

\* The child exits.  close() listens for it only once it has signalled.
ProcessExit ==
    /\ ~exited /\ exited' = TRUE
    /\ closing' = IF closing = "grace" THEN "done" ELSE closing
    /\ IF state # "closed"
       THEN state' = "closed" /\ RejectAllPending
       ELSE UNCHANGED <<state, sendVars, resultVars, turnVars, log, taskVars, controls>>
    /\ UNCHANGED <<drained, latchVars, callbacks, drain>>

-----------------------------------------------------------------------------
(* The continuations.                                                      *)

\* The serial event chain runs the host's onEvent handlers up to the next point a
\* handler waits for.  The points between are told apart by nobody.
EventsHandled ==
    /\ drained < Len(results)
    /\ drained' = drained + 1
    /\ UNCHANGED <<state, turnVars, sendVars, resultVars, log, latchVars, taskVars,
                   controlVars, closeVars>>

ChainIgnored(k) == TRUE  \* Mutant: handleResult does not await the chain.

\* handleResult awaits the event chain as it stood when the line was read.
ChainDrained(k) == k <= drained

StateAfterResult == IF TurnOpen THEN state ELSE "idle"

\* Mutant: a handler that finds a turn open gives up its batch.
AbandonedIfBusy == state = "closed" \/ TurnOpen

\* A handler that resumes on a closed session leaves the settling to the close.
Abandoned == state = "closed"

\* handleResult after its await.
TurnSettled ==
    LET k == resumed + 1 IN
    /\ k \in DOMAIN results /\ ChainDrained(k)
    /\ resumed' = k
    /\ IF Abandoned
       THEN UNCHANGED <<state, outcome, resultOf, settling>>
       ELSE /\ state' = StateAfterResult
            /\ settling' = settling \ {k}
            /\ outcome' = Settled(results[k].sends, "result")
            /\ resultOf' = [u \in Sends |-> IF outcome'[u] # outcome[u] THEN k
                                                                       ELSE resultOf[u]]
    /\ UNCHANGED <<turnVars, sent, outstanding, pending, results, log, drained,
                   latchVars, taskVars, controlVars, closeVars>>

StillWanted(r) == callbacks[r].status = "asked"

\* The host's callback returns or throws.  An answer goes out only while the
\* request is still wanted.
CallbackReturns(r) ==
    LET waiting == [can_use_tool |-> "waiting_for_approval",
                    elicitation |-> "waiting_for_input", hook_callback |-> "none"] IN
    /\ callbacks[r].status \in {"asked", "withdrawn"}
    /\ IF StillWanted(r)
       THEN /\ callbacks' = [callbacks EXCEPT ![r].status = "answered"]
            /\ state' = IF state = waiting[callbacks[r].kind] THEN "thinking" ELSE state
       ELSE /\ callbacks' = [callbacks EXCEPT ![r].status = "dropped"]
            /\ UNCHANGED state
    /\ UNCHANGED <<turnVars, sendVars, resultVars, log, drained, latchVars, taskVars,
                   controls, closeVars>>

-----------------------------------------------------------------------------
(* The lines of the CLI's stdout.  A closed session reads them all the     *)
(* same: close() leaves the reader attached.                               *)

\* The result event, stray when no turn is open to own it.
ResultEvent == IF ~Listening THEN << >>
               ELSE IF TurnOpen THEN <<Event("result", openTurn.turn)>>
               ELSE <<Event("stray_result", turnSeq)>>

\* Mutant: the close is announced before the payload.
CloseThenResult == CloseEvents \o ResultEvent

ResultThenClose == ResultEvent \o CloseEvents

\* A result line: take the open turn and capture its batch before anything
\* else, announce result then turn_end, and leave the settling to handleResult.
ResultLine ==
    /\ Len(results) < MaxResults
    /\ results' = Append(results, [turn |-> openTurn.turn, commands |-> openTurn.commands,
                                   sends |-> Claim(openTurn),
                                   upTo |-> Len(log \o ResultThenClose)])
    /\ settling' = settling \cup {Len(results) + 1}
    /\ pending' = pending \ Claim(openTurn)
    /\ openTurn' = NoTurn /\ deliveries' = {}
    /\ log' = log \o ResultThenClose
    /\ seenResult' = TRUE
    /\ UNCHANGED <<state, turnSeq, sent, outstanding, outcome, resultOf, resumed,
                   drained, seenLifecycle, taskVars, controlVars, closeVars>>

\* The message an unnamed turn is credited to: the oldest unclaimed one, for a
\* CLI that has never named any.
Guess ==
    IF seenLifecycle THEN {}
    ELSE {u \in outstanding : \A v \in outstanding : u <= v}

StateAfterContent(type, nested) ==
    CASE nested -> state
      [] ~nested /\ type \in {"assistant", "tool_result"} -> "thinking"
      [] ~nested /\ type = "tool_use" -> "tool_executing"
      [] OTHER -> state

\* The session's state once a turn has opened on a line that left it at s.
Woken(s) == IF s = "idle" THEN "thinking" ELSE s

\* A line of turn content.  Nested lines are a subagent's: they move nothing.
ContentLine(type, nested) ==
    LET after == StateAfterContent(type, nested) IN
    /\ Listening
    /\ IF ~TurnOpen /\ ~nested /\ type # "tool_result"
       THEN /\ OpenTurn(IF Guess = {} THEN "resume" ELSE "send", Guess)
            /\ outstanding' = outstanding \ Guess
            /\ state' = Woken(after)
       ELSE /\ state' = after
            /\ UNCHANGED <<turnVars, outstanding, log>>
    /\ UNCHANGED <<sent, pending, outcome, resultOf, resultVars, drained, latchVars,
                   taskVars, controlVars, closeVars>>

\* system/init: boot metadata at first, the head of a resume turn once a
\* result has been seen.
InitLine ==
    /\ Listening
    /\ seenResult /\ ~TurnOpen
    /\ OpenTurn(IF Guess = {} THEN "resume" ELSE "send", Guess)
    /\ outstanding' = outstanding \ Guess
    /\ state' = Woken(state)
    /\ UNCHANGED <<sent, pending, outcome, resultOf, resultVars, drained, latchVars,
                   taskVars, controlVars, closeVars>>

\* Mutant: a retired message's promise is left to a result that never comes.
RetiredLeft(u) == {}

\* The sends waiting on a message that retires.
Retired(u) == {u} \cap pending

\* A message retires without a result: settle a send that still waits on it,
\* and close the turn it belongs to when that turn will have no result.
RetireLine(u, status) ==
    LET ends == status # "completed" /\ u \in openTurn.commands IN
    /\ Listening /\ status \in TerminalStates
    /\ seenLifecycle' = TRUE
    /\ outstanding' = outstanding \ {u}
    /\ pending' = pending \ Retired(u)
    /\ outcome' = Settled(Retired(u), "retired")
    /\ IF ends THEN CloseTurn /\ state' = "idle"
               ELSE UNCHANGED <<turnVars, log, state>>
    /\ UNCHANGED <<sent, resultOf, resultVars, drained, seenResult, taskVars,
                   controlVars, closeVars>>

\* Any other lifecycle line, while a turn is open: a message still unclaimed
\* that it names joins the turn.
JoinLine(u, status) ==
    /\ Listening /\ status \in {"queued", "started"} /\ TurnOpen
    /\ seenLifecycle' = TRUE
    /\ IF u \in outstanding
       THEN /\ openTurn' = [openTurn EXCEPT !.commands = @ \cup {u}]
            /\ outstanding' = outstanding \ {u}
       ELSE UNCHANGED <<openTurn, outstanding>>
    /\ UNCHANGED <<state, turnSeq, deliveries, sent, pending, outcome, resultOf,
                   resultVars, log, drained, seenResult, taskVars, controlVars,
                   closeVars>>

\* The same with no turn open: "started" opens one, ours if the message is.
StartLine(u, status) ==
    /\ Listening /\ status \in {"queued", "started"} /\ ~TurnOpen
    /\ seenLifecycle' = TRUE
    /\ IF status = "started"
       THEN /\ OpenTurn(IF u \in outstanding THEN "send" ELSE "resume", {u})
            /\ outstanding' = outstanding \ {u}
            /\ state' = Woken(state)
       ELSE UNCHANGED <<turnVars, outstanding, log, state>>
    /\ UNCHANGED <<sent, pending, outcome, resultOf, resultVars, drained, seenResult,
                   taskVars, controlVars, closeVars>>

\* A background-task record.  phase is the record's kind, status what it
\* reports ("none" for a patch that says nothing of liveness); only
\* task_started names the task's type.  A record has a report only with a status that
\* delivers (parse.ts:914-926), so the status alone says whether a turn will follow.
TaskLine(t, phase, status) ==
    LET named == IF t \in Subagents THEN "subagent" ELSE "process"
        type == IF t \in taskFacts \/ phase = "started" THEN named ELSE "unknown"
        reports == status \in {"completed", "failed"}
    IN
    /\ Listening
    /\ activeTasks' = CASE status \in {"completed", "failed", "stopped"} ->
                               [activeTasks EXCEPT ![t] = "none"]
                        [] status = "running" -> [activeTasks EXCEPT ![t] = type]
                        [] OTHER -> activeTasks
    /\ deliveries' = IF reports /\ ~TurnOpen THEN deliveries \cup {t} ELSE deliveries
    /\ taskFacts' = IF phase = "started" THEN taskFacts \cup {t} ELSE taskFacts
    /\ UNCHANGED <<state, openTurn, turnSeq, sendVars, resultVars, log, drained,
                   latchVars, controlVars, closeVars>>

\* A control request of the CLI.  Read on a closed session too.
RequestLine(r, kind, nested) ==
    /\ callbacks[r] = Idle
    /\ callbacks' = [callbacks EXCEPT ![r] =
                       [kind |-> kind,
                        status |-> IF kind \in Answered THEN "asked" ELSE "answered"]]
    /\ state' = CASE kind = "can_use_tool" /\ ~nested -> "waiting_for_approval"
                  [] kind = "elicitation" /\ ~nested -> "waiting_for_input"
                  [] OTHER -> state
    /\ UNCHANGED <<turnVars, sendVars, resultVars, log, drained, latchVars, taskVars,
                   controls, closeVars>>

\* The CLI withdraws its request.
CancelRequestLine(r) ==
    /\ callbacks[r].status = "asked"
    /\ callbacks' = [callbacks EXCEPT ![r].status = "withdrawn"]
    /\ UNCHANGED <<state, turnVars, sendVars, resultVars, log, drained, latchVars,
                   taskVars, controls, closeVars>>

\* The CLI answers a control request of the session.
ResponseLine(c, ok) ==
    /\ controls[c] \in {"waiting", "timed"}
    /\ controls' = [controls EXCEPT ![c] = IF ok THEN "resolved" ELSE "rejected"]
    /\ UNCHANGED <<state, turnVars, sendVars, resultVars, log, drained, latchVars,
                   taskVars, callbacks, closeVars>>

-----------------------------------------------------------------------------

\* The turns and the sends.
TurnStep ==
    \/ Send
    \/ \E u \in Sends : SettleEarly(u)
    \/ EventsHandled \/ TurnSettled
    \/ ResultLine
    \/ \E type \in ContentTypes, nested \in BOOLEAN : ContentLine(type, nested)
    \/ InitLine
    \/ \E u \in {Foreign} \cup 1..sent, status \in TerminalStates : RetireLine(u, status)
    \/ \E u \in {Foreign} \cup 1..sent, status \in {"queued", "started"} :
          JoinLine(u, status) \/ StartLine(u, status)

CloseStep ==
    \/ Drain \/ DrainSettled \/ DrainDeadline \/ DrainClose
    \/ Close \/ CloseSignal \/ GraceKill \/ ProcessExit

TaskStep ==
    \/ \E t \in Tasks : TaskLine(t, "started", "running")
    \/ \E t \in Tasks, status \in {"none", "running", "completed", "failed", "stopped"} :
          TaskLine(t, "update", status)

\* The control requests of the CLI.
RequestStep ==
    \E r \in Requests :
        \/ \E kind \in {"can_use_tool", "elicitation", "hook_callback"}, nested \in BOOLEAN :
              RequestLine(r, kind, nested)
        \/ CancelRequestLine(r)
        \/ CallbackReturns(r)

\* The control requests of the session.
ControlStep ==
    \E c \in Controls :
        \/ \E how \in {"waiting", "timed"} : SendControl(c, how)
        \/ \E ok \in BOOLEAN : ResponseLine(c, ok)
        \/ ControlTimeout(c)

Next == TurnStep \/ CloseStep \/ TaskStep \/ RequestStep \/ ControlStep

Spec == Init /\ [][Next]_vars

-----------------------------------------------------------------------------
(* Properties.                                                             *)

Events == [type : {"turn_start", "turn_end", "result", "stray_result"},
           turn : 0..MaxTurns]

Turns == {NoTurn} \cup [turn : 1..MaxTurns, trigger : {"send", "resume"},
                         commands : SUBSET ({Foreign} \cup Sends)]

TurnType ==
    /\ state \in SessionStates
    /\ turnSeq \in 0..MaxTurns
    /\ openTurn \in Turns /\ openTurn.turn \in {0, turnSeq}
    /\ deliveries \subseteq Tasks
    /\ log \in Seq(Events)

SendType ==
    /\ sent \in 0..MaxSends
    /\ outstanding \subseteq 1..sent /\ pending \subseteq 1..sent
    /\ outcome \in [Sends -> {"unsent", "pending", "result", "retired", "early",
                              "rejected"}]
    /\ resultOf \in [Sends -> 0..MaxResults]

ResultType ==
    /\ results \in Seq([turn : 0..MaxTurns, commands : SUBSET ({Foreign} \cup Sends),
                        sends : SUBSET Sends, upTo : Nat])
    /\ Len(results) <= MaxResults
    /\ resumed \in 0..Len(results)
    /\ settling \subseteq 1..Len(results)
    /\ drained \in 0..Len(results)

ControlType ==
    /\ seenLifecycle \in BOOLEAN /\ seenResult \in BOOLEAN
    /\ activeTasks \in [Tasks -> {"none", "subagent", "process", "unknown"}]
    /\ taskFacts \subseteq Tasks
    /\ callbacks \in [Requests ->
                       [kind : {"none", "can_use_tool", "elicitation", "hook_callback"},
                        status : {"none", "asked", "withdrawn", "answered", "dropped"}]]
    /\ controls \in [Controls -> {"unsent", "waiting", "timed", "resolved", "rejected"}]
    /\ drain \in {"none", "settling", "turns", "expired", "done"}
    /\ closing \in {"no", "scan", "grace", "done"}
    /\ exited \in BOOLEAN

\* Every variable keeps its type, and the counters stay in step: the open turn is
\* the last one opened, and no handler resumes for a result that was not read.
TypeOK == TurnType /\ SendType /\ ResultType /\ ControlType

\* Consecutive events of the ledger: a turn's start is followed by its result or
\* its end, its result by its end, and only then may the next turn start.
Follows(e, f) ==
    CASE e.type = "turn_start" -> f.turn = e.turn /\ f.type \in {"result", "turn_end"}
      [] e.type = "result" -> f = Event("turn_end", e.turn)
      [] OTHER -> f \in {Event("turn_start", e.turn + 1), Event("stray_result", e.turn)}

LastEvent == IF log = << >> THEN Event("turn_end", 0) ELSE log[Len(log)]

\* The host can pair every turn_start with exactly one turn_end by id, the result
\* falls between them, and `openTurn` is the turn the events say is running, with
\* results, retirements and closes arriving in any order.
TurnLedger ==
    /\ log # << >> => Follows(Event("turn_end", 0), log[1])
    /\ \A i \in 1..(Len(log) - 1) : Follows(log[i], log[i + 1])
    /\ IF TurnOpen THEN LastEvent = Event("turn_start", openTurn.turn)
                   ELSE LastEvent.type \in {"turn_end", "stray_result"}
    /\ LastEvent.turn = turnSeq

\* No caller is stranded: a send that is still pending is either waiting for its
\* turn or in a captured batch whose handler has yet to resume, never in neither
\* because a handler gave up or a batch was dropped.
NoOrphan ==
    \A u \in Sends :
        outcome[u] = "pending" =>
            \/ u \in pending
            \/ \E k \in settling : k > resumed /\ u \in results[k].sends

\* However the session closes (the host, a drain, a dead stdin, the process), no
\* promise of a send or of a control request outlives it: every close path must
\* reach the captured batches as well as the lists.
ClosedSettlesAll ==
    state = "closed" =>
        /\ \A u \in Sends : outcome[u] # "pending"
        /\ \A c \in Controls : controls[c] \notin {"waiting", "timed"}

\* No caller waits for a promise that nothing can settle any more, open or closed.
NobodyStranded == NoOrphan /\ ClosedSettlesAll

\* The state a host reads never contradicts the turn events: a session with a turn
\* open does not read idle or closed, although the handler of the turn before may
\* resume after this one has opened.
NotIdleWhileTurnOpen == TurnOpen => state \notin {"idle", "closed"}

\* The events, the open turn and the state tell a host the same story.
TurnsAgree == TurnLedger /\ NotIdleWhileTurnOpen

\* A send resolved with a turn's result was a message of that turn: two results
\* read back to back never exchange or share their sends.
OwnResult ==
    \A u \in Sends :
        outcome[u] = "result" =>
            LET k == resultOf[u] IN
            /\ k \in DOMAIN results
            /\ results[k].turn # 0 => u \in results[k].commands

\* By the time a send resolves, the host's onEvent handler has finished with the
\* turn_end of its turn, whatever else was dispatched meanwhile.
HandlersSettledFirst ==
    \A u \in Sends :
        outcome[u] = "result" =>
            LET k == results[resultOf[u]].turn IN
            k # 0 => /\ drained # 0
                     /\ \E i \in 1..results[drained].upTo : log[i] = Event("turn_end", k)

\* A promise settles once: a timeout, a retirement, a result and a close may race,
\* and whichever is first is final.
OutcomeFinal ==
    [][\A u \in Sends : outcome[u] \notin {"unsent", "pending"} =>
          outcome'[u] = outcome[u] /\ resultOf'[u] = resultOf[u]]_vars

\* A closed session announces no turn and no result: lines read in the grace window,
\* or buffered past the exit, reach no host that is already gone.
ClosedIsSilent == [][state = "closed" => log' = log]_vars

\* A request the CLI has withdrawn is never answered, although the host's callback
\* still runs and returns.
WithdrawnNeverAnswered ==
    [][\A r \in Requests : callbacks[r].status \in {"withdrawn", "dropped"} =>
          callbacks'[r].status \in {"withdrawn", "dropped"}]_vars

\* What is over stays over: a settled promise, a closed session, a withdrawn request.
OverIsOver == OutcomeFinal /\ ClosedIsSilent /\ WithdrawnNeverAnswered

=============================================================================
