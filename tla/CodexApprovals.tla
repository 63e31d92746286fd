--------------------------- MODULE CodexApprovals ---------------------------
(***************************************************************************)
(* What the Codex app-server asks of the host (packages/agent/src/         *)
(* providers/codex/session.ts): commands, file changes, permissions,       *)
(* questions, MCP tool calls and MCP forms, of the root thread or of a     *)
(* child.  The host answers when it likes, several are open at once, and   *)
(* the request for an MCP tool does not say which call it is about: the    *)
(* session looks for it among the calls in flight.                         *)
(*                                                                         *)
(* External: the app-server, and the host.  close() is in CodexSession.    *)
(***************************************************************************)
EXTENDS Naturals, Sequences, FiniteSets, SequencesExt, FiniteSetsExt

CONSTANTS
    Threads,         \* "root", and its children
    Args,            \* arguments of MCP calls
    AskKinds,        \* what is asked, MCP tools aside
    MaxCalls,        \* bound: MCP calls
    MaxAsks,         \* bound: requests
    IdenticalCalls   \* whether two calls of a thread may have the same arguments at once

ASSUME ApprovalsAssumption ==
    /\ "root" \in Threads /\ AskKinds \subseteq {"command", "permissions", "question", "form"}
    /\ MaxCalls \in Nat /\ MaxAsks \in Nat /\ IdenticalCalls \in BOOLEAN

VARIABLES
    handled,    \* whether the host gave handlers
    rootState,  \* _state
    turnOpen,   \* whether sends are pending
    calls,      \* the MCP calls started, in order
    inFlight,   \* _mcpCallsInFlight: the ones not completed; they started in this order
    asks        \* the requests, with what the session made of them

approvalVars == <<handled, rootState, turnOpen, calls, inFlight, asks>>

ApprovalsInit ==
    /\ handled \in BOOLEAN
    /\ rootState = "idle" /\ turnOpen = FALSE
    /\ calls = << >> /\ inFlight = {} /\ asks = << >>

-----------------------------------------------------------------------------
(* Turns and MCP calls                                                     *)

TurnOpens ==
    /\ ~turnOpen /\ turnOpen' = TRUE /\ rootState' = "thinking"
    /\ UNCHANGED <<handled, calls, inFlight, asks>>

\* deliverTurnResult()
TurnSettles ==
    /\ turnOpen /\ turnOpen' = FALSE /\ rootState' = "idle"
    /\ UNCHANGED <<handled, calls, inFlight, asks>>

OfRoot(thread) == thread = "root"

\* item/started of an mcpToolCall; a child's moves nothing of the root.
CallStarts(thread, args) ==
    /\ Len(calls) < MaxCalls /\ turnOpen
    /\ IdenticalCalls \/ \A i \in inFlight : calls[i].thread = thread => calls[i].args # args
    /\ calls' = Append(calls, [thread |-> thread, args |-> args])
    /\ inFlight' = inFlight \cup {Len(calls) + 1}
    /\ rootState' = IF OfRoot(thread) THEN "tool_executing" ELSE rootState
    /\ UNCHANGED <<handled, turnOpen, asks>>

AsksOf(i) == {k \in DOMAIN asks : asks[k].gates = i}

\* item/completed, when nothing is asked about it any more.
CallEnds(i) ==
    /\ i \in inFlight /\ \A k \in AsksOf(i) : asks[k].answer # "none"
    /\ inFlight' = inFlight \ {i}
    /\ rootState' = IF OfRoot(calls[i].thread) THEN "thinking" ELSE rootState
    /\ UNCHANGED <<handled, turnOpen, calls, asks>>

-----------------------------------------------------------------------------
(* Requests                                                                *)

NoCall == 0

\* Mutant: the latest call, whatever its arguments.
LatestCall(thread, known, args) ==
    LET candidates == {i \in inFlight : calls[i].thread = thread}
    IN  IF candidates = {} THEN NoCall ELSE Max(candidates)

\* findMcpCallForApproval(): the first call on the thread with these arguments, or the
\* latest.
CallFor(thread, known, args) ==
    LET candidates == {i \in inFlight : calls[i].thread = thread}
        exact == {i \in candidates : known /\ calls[i].args = args}
    IN  IF exact # {} THEN Min(exact) ELSE IF candidates # {} THEN Max(candidates) ELSE NoCall

\* What the session waits for: questions and forms are input, the others approvals.
WaitFor(kind) ==
    IF kind \in {"question", "form"} THEN "waiting_for_input" ELSE "waiting_for_approval"

\* What a request is answered with when the host has no handler.
Default(kind) == IF kind \in {"command", "tool"} THEN "granted" ELSE "refused"

\* restoreStateAfter()
RestoredFrom(waiting) ==
    CASE rootState # waiting -> rootState
      [] rootState = waiting /\ turnOpen -> "thinking"
      [] OTHER -> "idle"

\* A request arrives: without a handler it is answered at once, and the state restored.
Asked(kind, thread, gates, names) ==
    /\ Len(asks) < MaxAsks
    /\ asks' = Append(asks, [kind |-> kind, thread |-> thread, gates |-> gates, names |-> names,
                             answer |-> IF handled THEN "none" ELSE Default(kind)])
    /\ rootState' = CASE ~OfRoot(thread) -> rootState
                      [] OfRoot(thread) /\ handled -> WaitFor(kind)
                      [] OfRoot(thread) /\ ~handled /\ kind = "form" -> rootState
                      [] OTHER -> IF turnOpen THEN "thinking" ELSE "idle"
    /\ UNCHANGED <<handled, turnOpen, calls, inFlight>>

\* handleApproval, handlePermissionsApproval, handleUserInputRequest, handleElicitation
Asks(kind, thread) == Asked(kind, thread, NoCall, NoCall)

\* handleMcpToolApproval: the request tells the arguments of its call, or it is asked right
\* after the call started.
AsksForTool(i, known) ==
    /\ i \in inFlight /\ AsksOf(i) = {}
    /\ known \/ i = CallFor(calls[i].thread, FALSE, calls[i].args)
    /\ Asked("tool", calls[i].thread, i, CallFor(calls[i].thread, known, calls[i].args))

\* Mutant: a handler that throws leaves the state as it is.
AnsweredQuietly(ask, how) ==
    IF OfRoot(ask.thread) /\ how # "throws" THEN RestoredFrom(WaitFor(ask.kind)) ELSE rootState

AnsweredState(ask, how) ==
    IF OfRoot(ask.thread) THEN RestoredFrom(WaitFor(ask.kind)) ELSE rootState

\* The host answers, or its handler throws: that refuses.
HostAnswers(k, how) ==
    /\ asks[k].answer = "none"
    /\ asks' = [asks EXCEPT ![k].answer = IF how = "allows" THEN "granted" ELSE "refused"]
    /\ rootState' = AnsweredState(asks[k], how)
    /\ UNCHANGED <<handled, turnOpen, calls, inFlight>>

ApprovalsNext ==
    \/ TurnOpens \/ TurnSettles
    \/ \E thread \in Threads :
          \/ \E args \in Args : CallStarts(thread, args)
          \/ \E kind \in AskKinds : Asks(kind, thread)
    \/ \E i \in DOMAIN calls : CallEnds(i) \/ \E known \in BOOLEAN : AsksForTool(i, known)
    \/ \E k \in DOMAIN asks, how \in {"allows", "denies", "throws"} : HostAnswers(k, how)

ApprovalsSpec == ApprovalsInit /\ [][ApprovalsNext]_approvalVars

-----------------------------------------------------------------------------
(* Properties                                                              *)

Open == {k \in DOMAIN asks : asks[k].answer = "none"}

\* The tool uses that hosts key pending approvals on do not repeat.
ToolUsesDiffer ==
    \A j, k \in Open : asks[j].names = asks[k].names /\ asks[j].names # NoCall => j = k

\* A request for a tool is about the call it is shown with, though it does not name it and
\* several calls are in flight on several threads.
NamesItsCall == \A k \in DOMAIN asks : asks[k].names = asks[k].gates

\* A session that says it waits for the user has something open of that kind, of the root:
\* several are answered in any order, turns end meanwhile, children ask too, handlers throw.
WaitsForSomebody ==
    rootState \in {"waiting_for_approval", "waiting_for_input"} =>
        \E k \in Open : OfRoot(asks[k].thread) /\ WaitFor(asks[k].kind) = rootState

AsksAreTrue == ToolUsesDiffer /\ NamesItsCall /\ WaitsForSomebody

=============================================================================
