----------------------------- MODULE AcpSession -----------------------------
(***************************************************************************)
(* AcpSession (packages/agent/src/providers/acp/session.ts): one prompt at *)
(* a time to an agent that speaks the Agent Client Protocol on its pipes.  *)
(* A prompt races its timeout and its abort; when a guard wins, the prompt *)
(* is cancelled and given two seconds to end inside its own turn.          *)
(*                                                                         *)
(* External: the agent and the SDK's connection.  The agent answers every  *)
(* prompt it has read; when the agent is gone the connection refuses those *)
(* that are unanswered.                                                    *)
(***************************************************************************)
EXTENDS Naturals, Sequences, FiniteSets

CONSTANTS
    MaxAcpSends,     \* bound: sends of the host and of the goal loop
    MaxAcpAsks,      \* bound: permission requests of the agent
    AcpSlowAgent,    \* whether a cancelled prompt may outlive its two seconds
    AcpLateAsks      \* whether a request is still read once the agent was killed

ASSUME AcpAssumption ==
    /\ MaxAcpSends \in Nat /\ MaxAcpAsks \in Nat
    /\ AcpSlowAgent \in BOOLEAN /\ AcpLateAsks \in BOOLEAN

VARIABLES
    acpStage,     \* connect(): how far the handshake got
    acpId,        \* the agent gave the session an id
    acpState,     \* _state
    acpAgent,     \* the child process runs
    acpDraining,  \* _draining
    acpSent,      \* sends taken; the last is the turn in flight while acpPhase # "none"
    acpPhase,     \* where runPrompt awaits: the race, or the drain of a cancelled prompt
    acpGuard,     \* the guard that won the race
    acpGuarded,   \* the turn has a timeout or a signal
    acpPrompts,   \* turns whose prompt the agent has not answered
    acpText,      \* the turns whose text is in _turnText
    acpSettled,   \* the TurnResults: the status, and the turns whose text is the summary
    acpAsks,      \* permission requests that wait for the host
    acpAsked,     \* permission requests so far
    acpDrains     \* drain() calls, by the turn each awaits

acpVars == <<acpStage, acpId, acpState, acpAgent, acpDraining, acpSent, acpPhase, acpGuard,
             acpGuarded, acpPrompts, acpText, acpSettled, acpAsks, acpAsked, acpDrains>>

acpTurnVars == <<acpSent, acpPhase, acpGuard, acpGuarded, acpPrompts, acpText, acpSettled>>
acpAskVars == <<acpAsks, acpAsked>>

AcpInit ==
    /\ acpStage = "initialize" /\ acpId = FALSE
    /\ acpState = "idle" /\ acpAgent = TRUE /\ acpDraining = FALSE
    /\ acpSent = 0 /\ acpPhase = "none" /\ acpGuard = "none" /\ acpGuarded = FALSE
    /\ acpPrompts = {} /\ acpText = {} /\ acpSettled = << >>
    /\ acpAsks = 0 /\ acpAsked = 0 /\ acpDrains = {}

AcpActive == acpPhase # "none"

-----------------------------------------------------------------------------
(* connect()                                                               *)

\* A failure of the handshake closes the session and kills the agent.
AcpHandshakeFails ==
    /\ acpStage \in {"initialize", "new"}
    /\ acpStage' = "failed" /\ acpState' = "closed" /\ acpAgent' = FALSE
    /\ UNCHANGED <<acpId, acpDraining, acpTurnVars, acpAskVars, acpDrains>>

\* initialize, then session/load when there is one to resume and the agent can, else
\* or on its failure session/new; the mode is applied when asked for, best effort.
AcpHandshake ==
    /\ acpAgent
    /\ \/ acpStage = "initialize" /\ acpStage' \in {"load", "new"} /\ UNCHANGED acpId
       \/ acpStage = "load" /\ acpStage' = "mode" /\ acpId' = TRUE
       \/ acpStage = "load" /\ acpStage' = "new" /\ UNCHANGED acpId
       \/ acpStage = "new" /\ acpStage' = "mode" /\ acpId' \in BOOLEAN
       \/ acpStage = "mode" /\ acpStage' = "ready" /\ UNCHANGED acpId
    /\ UNCHANGED <<acpState, acpAgent, acpDraining, acpTurnVars, acpAskVars, acpDrains>>

\* The agent died during the handshake: a pending call fails or times out.
AcpHandshakeEnds ==
    /\ ~acpAgent
    /\ \/ acpStage = "load" /\ acpStage' = "new"
       \/ acpStage = "mode" /\ acpStage' = "ready"
    /\ UNCHANGED <<acpId, acpState, acpAgent, acpDraining, acpTurnVars, acpAskVars, acpDrains>>

\* "exit" or "error" of the child.
AcpExit ==
    /\ acpAgent
    /\ acpAgent' = FALSE /\ acpState' = "closed"
    /\ UNCHANGED <<acpStage, acpId, acpDraining, acpTurnVars, acpAskVars, acpDrains>>

-----------------------------------------------------------------------------
(* A turn                                                                  *)

AcpAccepts == acpState # "closed" /\ ~acpDraining /\ ~AcpActive

\* send(), and runPrompt() up to its race; without a session id the turn fails at once.
AcpSend(guarded) ==
    /\ acpStage = "ready" /\ acpSent < MaxAcpSends
    /\ AcpAccepts
    /\ acpSent' = acpSent + 1
    /\ acpText' = {} /\ acpGuard' = "none"
    /\ IF acpId
       THEN /\ acpPhase' = "race" /\ acpGuarded' = guarded
            /\ acpPrompts' = acpPrompts \cup {acpSent + 1}
            /\ acpState' = "thinking"
            /\ UNCHANGED acpSettled
       ELSE /\ acpSettled' = Append(acpSettled, [status |-> "failed", text |-> {}])
            /\ acpState' = "idle"
            /\ UNCHANGED <<acpPhase, acpGuarded, acpPrompts>>
    /\ UNCHANGED <<acpStage, acpId, acpAgent, acpDraining, acpAskVars, acpDrains>>

\* finishTurn(), and the result of runPrompt().
AcpFinish(status) ==
    /\ acpPhase' = "none"
    /\ acpSettled' = Append(acpSettled, [status |-> status, text |-> acpText])
    /\ acpState' = IF acpState = "closed" THEN "closed" ELSE "idle"

\* The prompt of turn t is answered, or refused by the connection of a dead agent.
AcpAnswer(t, status) ==
    /\ t \in acpPrompts
    /\ acpAgent \/ status = "failed"
    /\ acpPrompts' = acpPrompts \ {t}
    /\ CASE AcpActive /\ t = acpSent /\ acpPhase = "race" -> AcpFinish(status)
         [] AcpActive /\ t = acpSent /\ acpPhase = "grace" -> AcpFinish(acpGuard)
         [] OTHER -> UNCHANGED <<acpPhase, acpSettled, acpState>>
    /\ UNCHANGED <<acpStage, acpId, acpAgent, acpDraining, acpSent, acpGuard, acpGuarded,
                   acpText, acpAskVars, acpDrains>>

\* The timeout or the abort wins the race: the prompt is cancelled (interrupt()).
AcpGuardFires(guard) ==
    /\ acpPhase = "race" /\ acpGuarded
    /\ acpPhase' = "grace" /\ acpGuard' = guard
    /\ UNCHANGED <<acpStage, acpId, acpState, acpAgent, acpDraining, acpSent, acpGuarded,
                   acpPrompts, acpText, acpSettled, acpAskVars, acpDrains>>

\* The cancelled prompt has not ended within two seconds.
AcpGraceExpires ==
    /\ acpPhase = "grace" /\ (AcpSlowAgent \/ ~acpAgent)
    /\ AcpFinish(acpGuard)
    /\ UNCHANGED <<acpStage, acpId, acpAgent, acpDraining, acpSent, acpGuard, acpGuarded,
                   acpPrompts, acpText, acpAskVars, acpDrains>>

\* handleSessionUpdate: text of turn t, read while some turn is active.
AcpUpdate(t) ==
    /\ acpAgent /\ t \in acpPrompts /\ AcpActive
    /\ acpText' = acpText \cup {t}
    /\ UNCHANGED <<acpStage, acpId, acpState, acpAgent, acpDraining, acpSent, acpPhase, acpGuard,
                   acpGuarded, acpPrompts, acpSettled, acpAskVars, acpDrains>>

-----------------------------------------------------------------------------
(* Permission requests                                                     *)

\* handlePermission up to the host's callback.
AcpAsk ==
    /\ acpStage = "ready" /\ acpAsked < MaxAcpAsks
    /\ IF acpAgent THEN acpPrompts # {} ELSE AcpLateAsks
    /\ acpAsked' = acpAsked + 1 /\ acpAsks' = acpAsks + 1
    /\ acpState' = "waiting_for_approval"
    /\ UNCHANGED <<acpStage, acpId, acpAgent, acpDraining, acpTurnVars, acpDrains>>

\* The host answered, or threw: restore().
AcpAnswerAsk ==
    /\ acpAsks > 0
    /\ acpAsks' = acpAsks - 1
    /\ acpState' = IF acpState # "waiting_for_approval" THEN acpState
                   ELSE IF AcpActive THEN "thinking" ELSE "idle"
    /\ UNCHANGED <<acpStage, acpId, acpAgent, acpDraining, acpTurnVars, acpAsked, acpDrains>>

-----------------------------------------------------------------------------
(* drain() and close()                                                     *)

AcpShut == acpState' = "closed" /\ acpAgent' = FALSE

\* close(), or the abort of the session's signal.
AcpClose ==
    /\ acpStage = "ready"
    /\ AcpShut
    /\ UNCHANGED <<acpStage, acpId, acpDraining, acpTurnVars, acpAskVars, acpDrains>>

\* drain() up to its await, or to the close when no turn is in flight.
AcpDrain ==
    /\ acpStage = "ready"
    /\ acpDraining' = TRUE
    /\ IF AcpActive
       THEN acpDrains' = acpDrains \cup {acpSent} /\ UNCHANGED <<acpState, acpAgent>>
       ELSE AcpShut /\ UNCHANGED acpDrains
    /\ UNCHANGED <<acpStage, acpId, acpTurnVars, acpAskVars>>

\* The turn a drain awaits has settled.
AcpDrained(t) ==
    /\ t \in acpDrains /\ t <= Len(acpSettled)
    /\ acpDrains' = acpDrains \ {t}
    /\ AcpShut
    /\ UNCHANGED <<acpStage, acpId, acpDraining, acpTurnVars, acpAskVars>>

-----------------------------------------------------------------------------

AcpStatuses == {"completed", "failed", "aborted", "timeout"}

AcpAnswers == \E t \in acpPrompts, status \in {"completed", "aborted", "failed"} : AcpAnswer(t, status)

AcpNext ==
    \/ AcpHandshake \/ AcpHandshakeFails \/ AcpHandshakeEnds \/ AcpExit
    \/ \E guarded \in BOOLEAN : AcpSend(guarded)
    \/ AcpAnswers
    \/ \E guard \in {"timeout", "aborted"} : AcpGuardFires(guard)
    \/ AcpGraceExpires
    \/ \E t \in acpPrompts : AcpUpdate(t)
    \/ AcpAsk \/ AcpAnswerAsk \/ AcpClose \/ AcpDrain
    \/ \E t \in acpDrains : AcpDrained(t)

\* The agent, or the connection in its place, answers; the two seconds pass.
AcpProgress == AcpAnswers \/ AcpGraceExpires \/ (\E t \in acpDrains : AcpDrained(t))

-----------------------------------------------------------------------------
(* Properties                                                              *)

\* Every variable keeps its type; at most the prompts of turns that were cancelled are
\* unanswered beside that of the turn in flight.
AcpTypeOK ==
    /\ acpStage \in {"initialize", "load", "new", "mode", "ready", "failed"}
    /\ acpId \in BOOLEAN /\ acpAgent \in BOOLEAN /\ acpDraining \in BOOLEAN
    /\ acpGuarded \in BOOLEAN
    /\ acpState \in {"idle", "thinking", "waiting_for_approval", "closed"}
    /\ acpSent \in Nat /\ acpAsks \in Nat /\ acpAsked \in Nat
    /\ acpPhase \in {"none", "race", "grace"} /\ acpGuard \in {"none", "timeout", "aborted"}
    /\ acpPrompts \subseteq 1..acpSent /\ acpText \subseteq 1..acpSent
    /\ acpDrains \subseteq 1..acpSent
    /\ acpSettled \in Seq([status : AcpStatuses, text : SUBSET Nat])
    /\ acpSent = Len(acpSettled) + IF AcpActive THEN 1 ELSE 0

AcpContract == INSTANCE PromptSession WITH
    Outcomes <- AcpStatuses,
    open <- acpState # "closed" /\ ~acpDraining,
    sent <- acpSent,
    settled <- [i \in DOMAIN acpSettled |-> acpSettled[i].status]

\* The session does what is promised of one prompt at a time: a send is taken only
\* when open and idle, settles once and surely, whichever of answer, guard, grace,
\* exit, close and drain comes first, and a shut session stays shut.
AcpKeepsContract == AcpContract!Spec

\* What is said in a turn stays in it: no summary holds the text of another turn, a
\* cancelled turn's included, whose agent is given the time to end it.
AcpOwnText ==
    \A i \in DOMAIN acpSettled : acpSettled[i].text \subseteq {i}

\* A closed session is closed for good: whatever is still read from the pipe of the
\* agent that was killed, send() refuses.
AcpClosedForGood == [][acpState = "closed" => acpState' = "closed"]_acpVars

=============================================================================
