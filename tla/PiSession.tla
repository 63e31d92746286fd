------------------------------ MODULE PiSession ------------------------------
(***************************************************************************)
(* PiSession (packages/agent/src/providers/pi/session.ts): one turn at a   *)
(* time with a `pi --mode rpc` process.  Lines are handled as they arrive; *)
(* the handlers of the host run on a chain, and a turn is settled from the *)
(* chain, behind its own events.  A guard sends `abort` and settles the    *)
(* turn itself when pi does not end it within the grace.                   *)
(*                                                                         *)
(* External: pi runs the prompts it reads one after the other and ends     *)
(* each with one `agent_end`; it may leave an `abort` unanswered.          *)
(***************************************************************************)
EXTENDS Naturals, Sequences, FiniteSets

CONSTANTS
    MaxPiSends,       \* bound: sends
    MaxPiLines,       \* bound: lines unread, and lines whose handlers have not run
    PiSlowHandlers,   \* whether the handlers of a turn may outlast its grace
    PiClosesBusy      \* whether the host closes the session while a turn is in flight

ASSUME PiAssumption ==
    /\ MaxPiSends \in Nat /\ MaxPiLines \in Nat
    /\ PiSlowHandlers \in BOOLEAN /\ PiClosesBusy \in BOOLEAN

VARIABLES
    piState,     \* _state
    piAlive,     \* the child process runs
    piDraining,  \* _draining
    piSent,      \* sends taken; the last is the turn in flight while piActive
    piActive,    \* _turnActive, and _pending with it
    piGuarded,   \* the turn in flight has a timeout or a signal
    piPending,   \* _pendingStatus
    piGrace,     \* the grace timer runs
    piStale,     \* _staleEnds
    piText,      \* the turns whose text is in _turnText
    piQueue,     \* pi: the prompts it has read and not ended, and whether it said a line
                 \* for it (bound: one)
    piWire,      \* the lines pi wrote that are not read: the turn, and whether it ends it
    piChain,     \* _eventChain: handlers, and the settlements behind them
    piSettled,   \* TurnResults: the status, the turns whose text is the summary, the turn
                 \* whose end settled it (0: none)
    piDrains     \* drain() calls, by the turn each awaits

piVars == <<piState, piAlive, piDraining, piSent, piActive, piGuarded, piPending, piGrace,
            piStale, piText, piQueue, piWire, piChain, piSettled, piDrains>>

piTurnVars == <<piActive, piPending, piGrace, piText, piSettled>>

\* connect(): the process is spawned; nothing is awaited from it.
PiInit ==
    /\ piState = "idle" /\ piAlive = TRUE /\ piDraining = FALSE
    /\ piSent = 0 /\ piActive = FALSE /\ piGuarded = FALSE /\ piPending = "none"
    /\ piGrace = FALSE /\ piStale = 0 /\ piText = {} /\ piQueue = << >> /\ piWire = << >>
    /\ piChain = << >> /\ piSettled = << >> /\ piDrains = {}

-----------------------------------------------------------------------------

\* resolveTurn(): the turn in flight, if any, is settled.
PiResolve(status, by) ==
    IF piActive
    THEN /\ piActive' = FALSE /\ piPending' = "none" /\ piGrace' = FALSE /\ piText' = {}
         /\ piSettled' = Append(piSettled, [status |-> status, text |-> piText, by |-> by])
         /\ piState' = IF piState = "closed" THEN "closed" ELSE "idle"
    ELSE UNCHANGED <<piTurnVars, piState>>

PiSend(guarded) ==
    /\ piSent < MaxPiSends
    /\ piState # "closed" /\ ~piDraining /\ ~piActive
    /\ piSent' = piSent + 1 /\ piActive' = TRUE /\ piGuarded' = guarded
    /\ piText' = {} /\ piState' = "thinking"
    /\ piQueue' = IF piAlive THEN Append(piQueue, [turn |-> piSent + 1, said |-> FALSE]) ELSE piQueue
    /\ UNCHANGED <<piAlive, piDraining, piPending, piGrace, piStale, piWire, piChain, piSettled,
                   piDrains>>

\* pi writes text of the prompt it runs, or its agent_end.
PiWrites(ends) ==
    /\ piAlive /\ piQueue # << >> /\ Len(piWire) < MaxPiLines
    /\ ends \/ ~Head(piQueue).said
    /\ piWire' = Append(piWire, [turn |-> Head(piQueue).turn, ends |-> ends])
    /\ piQueue' = IF ends THEN Tail(piQueue) ELSE [piQueue EXCEPT ![1].said = TRUE]
    /\ UNCHANGED <<piState, piAlive, piDraining, piSent, piActive, piGuarded, piPending, piGrace,
                   piStale, piText, piChain, piSettled, piDrains>>

\* The agent_end of a turn that was settled without it.
PiStaleEnd(line) == line.ends /\ piStale > 0

\* handleLine: a line outside of any turn is dropped; an agent_end settles the turn once
\* the handlers before it have run.
PiReads ==
    /\ piWire # << >> /\ Len(piChain) < MaxPiLines
    /\ LET line == Head(piWire)
           status == IF piPending = "none" THEN "completed" ELSE piPending
       IN  /\ piStale' = IF PiStaleEnd(line) THEN piStale - 1 ELSE piStale
           /\ IF PiStaleEnd(line) \/ ~piActive
              THEN UNCHANGED <<piText, piChain>>
              ELSE /\ piText' = IF line.ends THEN piText ELSE piText \cup {line.turn}
                   /\ piChain' = Append(piChain, [line EXCEPT !.ends = IF line.ends THEN status ELSE "no"])
    /\ piWire' = Tail(piWire)
    /\ UNCHANGED <<piState, piAlive, piDraining, piSent, piActive, piGuarded, piPending, piGrace,
                   piQueue, piSettled, piDrains>>

\* The head of the chain is done: a handler returned, and behind the last line of a turn
\* resolveTurn() runs, on whatever turn is then in flight.
PiHandles ==
    /\ piChain # << >>
    /\ piChain' = Tail(piChain)
    /\ IF Head(piChain).ends = "no"
       THEN UNCHANGED <<piTurnVars, piState>>
       ELSE PiResolve(Head(piChain).ends, Head(piChain).turn)
    /\ UNCHANGED <<piAlive, piDraining, piSent, piGuarded, piStale, piQueue, piWire, piDrains>>

\* onTurnInterrupt: the timeout or the signal of the turn; `abort` is written and the
\* grace begins, anew when the other one fires too.
PiGuardFires(status) ==
    /\ piActive /\ piGuarded /\ piPending # status
    /\ piPending' = status /\ piGrace' = TRUE
    /\ UNCHANGED <<piState, piAlive, piDraining, piSent, piActive, piGuarded, piStale, piText,
                   piQueue, piWire, piChain, piSettled, piDrains>>

\* The grace timer: the turn is settled without its agent_end.
PiGraceExpires ==
    /\ piGrace
    /\ PiSlowHandlers \/ \A i \in DOMAIN piChain : piChain[i].ends = "no"
    /\ piStale' = piStale + 1
    /\ PiResolve(piPending, 0)
    /\ UNCHANGED <<piAlive, piDraining, piSent, piGuarded, piQueue, piWire, piChain, piDrains>>

\* "exit" or "error" of the child, unread lines or not: failPending(), unless closed.
PiExit ==
    /\ piAlive
    /\ piAlive' = FALSE /\ piQueue' = << >>
    /\ IF piState = "closed"
       THEN UNCHANGED <<piTurnVars, piState>>
       ELSE IF piActive
       THEN /\ piActive' = FALSE /\ piPending' = "none" /\ piGrace' = FALSE /\ piText' = {}
            /\ piSettled' = Append(piSettled, [status |-> "failed", text |-> piText, by |-> 0])
            /\ piState' = "closed"
       ELSE piState' = "closed" /\ UNCHANGED piTurnVars
    /\ UNCHANGED <<piDraining, piSent, piGuarded, piStale, piWire, piChain, piDrains>>

\* close(), or the abort of the session's signal: the state, and the signal to the
\* child, whose exit follows.
PiClose ==
    /\ piActive => PiClosesBusy
    /\ piState' = "closed"
    /\ UNCHANGED <<piAlive, piDraining, piSent, piTurnVars, piGuarded, piStale, piQueue, piWire,
                   piChain, piDrains>>

\* Mutant: drain() closes at once.
PiDrainCloses ==
    /\ ~piDraining
    /\ piDraining' = TRUE /\ piState' = "closed"
    /\ UNCHANGED <<piAlive, piSent, piTurnVars, piGuarded, piStale, piQueue, piWire, piChain, piDrains>>

PiDrain ==
    /\ ~piDraining
    /\ piDraining' = TRUE
    /\ IF piActive
       THEN piDrains' = piDrains \cup {piSent} /\ UNCHANGED piState
       ELSE piState' = "closed" /\ UNCHANGED piDrains
    /\ UNCHANGED <<piAlive, piSent, piTurnVars, piGuarded, piStale, piQueue, piWire, piChain>>

PiDrained(t) ==
    /\ t \in piDrains /\ t <= Len(piSettled)
    /\ piDrains' = piDrains \ {t} /\ piState' = "closed"
    /\ UNCHANGED <<piAlive, piDraining, piSent, piTurnVars, piGuarded, piStale, piQueue, piWire,
                   piChain>>

-----------------------------------------------------------------------------

PiNext ==
    \/ \E guarded \in BOOLEAN : PiSend(guarded)
    \/ \E ends \in BOOLEAN : PiWrites(ends)
    \/ PiReads \/ PiHandles
    \/ \E status \in {"timeout", "aborted"} : PiGuardFires(status)
    \/ PiGraceExpires \/ PiExit \/ PiClose \/ PiDrain
    \/ \E t \in piDrains : PiDrained(t)

\* pi ends its prompts or exits, a child that was killed exits, lines are read,
\* handlers return, the grace ends.
PiProgress ==
    \/ PiWrites(TRUE) \/ PiReads \/ PiHandles \/ PiGraceExpires
    \/ (piState = "closed" /\ PiExit)
    \/ \E t \in piDrains : PiDrained(t)

-----------------------------------------------------------------------------
(* Properties                                                              *)

\* Every variable keeps its type.
PiTypeOK ==
    /\ piState \in {"idle", "thinking", "closed"}
    /\ piAlive \in BOOLEAN /\ piDraining \in BOOLEAN /\ piActive \in BOOLEAN
    /\ piGuarded \in BOOLEAN /\ piGrace \in BOOLEAN
    /\ piSent \in Nat /\ piStale \in Nat
    /\ piPending \in {"none", "timeout", "aborted"}
    /\ piText \subseteq 1..piSent /\ piDrains \subseteq 1..piSent
    /\ piQueue \in Seq([turn : 1..piSent, said : BOOLEAN])
    /\ piWire \in Seq([turn : 1..piSent, ends : BOOLEAN])
    /\ piChain \in Seq([turn : 1..piSent, ends : {"no", "completed", "timeout", "aborted"}])
    /\ piSent = Len(piSettled) + IF piActive THEN 1 ELSE 0

PiContract == INSTANCE PromptSession WITH
    Outcomes <- {"completed", "failed", "aborted", "timeout"},
    open <- piState # "closed" /\ ~piDraining,
    sent <- piSent,
    settled <- [i \in DOMAIN piSettled |-> piSettled[i].status]

\* One prompt at a time, each settled once and surely, by pi's end, by the grace or by
\* the exit; a shut session stays shut.
PiKeepsContract == PiContract!Spec

\* An agent_end settles the turn it is the end of, whatever was settled without one
\* before: a turn that is completed was ended by pi, and no later turn by the end of
\* an earlier one.
PiOwnEnd ==
    \A i \in DOMAIN piSettled :
        /\ piSettled[i].by \in {0, i}
        /\ piSettled[i].status = "completed" => piSettled[i].by = i

\* drain() returns once the session is closed, although the host also closes it.
PiDrainReturns == [](piDrains # {} => <>(piDrains = {}))

=============================================================================
