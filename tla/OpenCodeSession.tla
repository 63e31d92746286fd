--------------------------- MODULE OpenCodeSession ---------------------------
(***************************************************************************)
(* OpenCodeSession (packages/agent/src/providers/opencode/http-session.ts):*)
(* a turn is one POST that returns when the model is done.  What the model *)
(* asks of the user arrives beside it, on the event stream and again in    *)
(* every poll of the open requests; each request is put to the host and    *)
(* the answer is posted, again when the post failed.                       *)
(*                                                                         *)
(* External: the `opencode serve` process.  A POST returns or fails, at    *)
(* the latest when it is aborted; a request is open until a reply reaches  *)
(* it; a poll returns what was open at some time since it was made.        *)
(***************************************************************************)
EXTENDS Naturals, Sequences, FiniteSets

CONSTANTS
    MaxOcSends,    \* bound: sends
    OcRequests,    \* bound: the permission requests and questions the model may ask
    MaxOcFails,    \* bound: replies whose post fails
    OcLatePolls    \* whether a poll may return after close()

ASSUME OcAssumption ==
    /\ MaxOcSends \in Nat /\ MaxOcFails \in Nat
    /\ IsFiniteSet(OcRequests) /\ OcLatePolls \in BOOLEAN

VARIABLES
    ocState,     \* _state
    ocConn,      \* connect(): acquiring, connecting, up or failed; down once closed
    ocDraining,  \* _draining
    ocSent,      \* sends taken; the last is the turn in flight while ocPhase # "none"
    ocPhase,     \* where runTurn awaits
    ocGuarded,   \* the turn has a timeout or a signal that is not aborted yet
    ocAbort,     \* the reason the turn's controller was aborted with
    ocOutcome,   \* the outcome runTurn has decided on
    ocSettled,   \* the outcomes of the sends
    ocStream,    \* the event stream: on, broken (reconnects after 250 ms), off
    ocServer,    \* per request: not asked, open at the server, or the reply it got
    ocInput,     \* per request: where its handler is (_inputInFlight)
    ocHandled,   \* _handledInput
    ocReply,     \* per request: the decision in _inputReplies
    ocPolls,     \* what polls in flight will return: sets of requests
    ocAsked,     \* history: per request, how often the host was asked
    ocFails,     \* posts of replies that failed
    ocDrains     \* drain() calls, by the turn each awaits

ocVars == <<ocState, ocConn, ocDraining, ocSent, ocPhase, ocGuarded, ocAbort, ocOutcome,
            ocSettled, ocStream, ocServer, ocInput, ocHandled, ocReply, ocPolls, ocAsked,
            ocFails, ocDrains>>
ocTurnVars == <<ocSent, ocPhase, ocGuarded, ocAbort, ocOutcome, ocSettled>>
ocInputVars == <<ocServer, ocInput, ocHandled, ocReply, ocAsked, ocFails>>

OcInit ==
    /\ ocState = "idle" /\ ocConn = "acquiring" /\ ocDraining = FALSE
    /\ ocSent = 0 /\ ocPhase = "none" /\ ocGuarded = FALSE /\ ocAbort = "none"
    /\ ocOutcome = "none" /\ ocSettled = << >> /\ ocStream = "off"
    /\ ocServer = [r \in OcRequests |-> "new"] /\ ocInput = [r \in OcRequests |-> "none"]
    /\ ocHandled = {} /\ ocReply = [r \in OcRequests |-> "none"] /\ ocPolls = {}
    /\ ocAsked = [r \in OcRequests |-> 0] /\ ocFails = 0 /\ ocDrains = {}

OcActive == ocPhase # "none"

\* The host has the session.
OcHanded == ocConn \in {"up", "down"}

-----------------------------------------------------------------------------
(* connect() and the event stream                                          *)

\* Acquire a server, create or resume the session, open the stream; a failure releases
\* the server and closes the session.
OcConnect ==
    /\ \/ /\ ocConn = "acquiring"
          /\ \/ ocConn' = "connecting" /\ UNCHANGED <<ocState, ocStream>>
             \/ ocConn' = "failed" /\ UNCHANGED <<ocState, ocStream>>
       \/ /\ ocConn = "connecting"
          /\ \/ ocConn' = "up" /\ ocStream' = "on" /\ UNCHANGED ocState
             \/ ocConn' = "failed" /\ ocState' = "closed" /\ UNCHANGED ocStream
    /\ UNCHANGED <<ocDraining, ocTurnVars, ocInputVars, ocPolls, ocDrains>>

\* The stream breaks; after 250 ms it is opened again and a poll follows, or it is given
\* up when that fails.
OcStreamBreaks ==
    /\ ocStream = "on" /\ ocStream' = "broken"
    /\ UNCHANGED <<ocState, ocConn, ocDraining, ocTurnVars, ocInputVars, ocPolls, ocDrains>>

OcOpen == {r \in OcRequests : ocServer[r] = "open"}

OcReconnects ==
    /\ ocStream = "broken"
    /\ \/ ocStream' = "on" /\ ocPolls' = ocPolls \cup {OcOpen}
       \/ ocStream' = "off" /\ UNCHANGED ocPolls
    /\ UNCHANGED <<ocState, ocConn, ocDraining, ocTurnVars, ocInputVars, ocDrains>>

-----------------------------------------------------------------------------
(* A turn                                                                  *)

\* send(), and runTurn up to the response of its POST; the runtime may have been
\* reconfigured since connect().
OcSend(guarded, current) ==
    /\ OcHanded /\ ocSent < MaxOcSends
    /\ current => ocConn = "up"
    /\ ocState # "closed" /\ ~ocDraining /\ ~OcActive
    /\ ocSent' = ocSent + 1 /\ ocState' = "thinking"
    /\ ocGuarded' = guarded /\ ocAbort' = "none"
    /\ IF current
       THEN ocPhase' = "posting" /\ ocOutcome' = "none"
       ELSE ocPhase' = "ending" /\ ocOutcome' = "failed"
    /\ UNCHANGED <<ocConn, ocDraining, ocSettled, ocStream, ocInputVars, ocPolls, ocDrains>>

\* The response: the model's answer, or an error.
OcResponse(outcome) ==
    /\ ocPhase = "posting" /\ ocAbort = "none"
    /\ ocPhase' = "ending" /\ ocOutcome' = outcome
    /\ UNCHANGED <<ocState, ocConn, ocDraining, ocSent, ocGuarded, ocAbort, ocSettled, ocStream,
                   ocInputVars, ocPolls, ocDrains>>

\* The timer or the signal aborts the controller.
OcGuardFires(reason) ==
    /\ ocPhase = "posting" /\ ocGuarded /\ ocAbort = "none"
    /\ ocAbort' = reason
    /\ UNCHANGED <<ocState, ocConn, ocDraining, ocSent, ocPhase, ocGuarded, ocOutcome, ocSettled,
                   ocStream, ocInputVars, ocPolls, ocDrains>>

\* The aborted POST throws; the server is told too, unless close() aborted it.
OcAborted ==
    /\ ocPhase = "posting" /\ ocAbort # "none"
    /\ ocOutcome' = IF ocAbort = "timeout" THEN "timeout" ELSE "aborted"
    /\ ocPhase' = IF ocAbort = "closed" THEN "ending" ELSE "interrupting"
    /\ UNCHANGED <<ocState, ocConn, ocDraining, ocSent, ocGuarded, ocAbort, ocSettled, ocStream,
                   ocInputVars, ocPolls, ocDrains>>

OcInterrupted ==
    /\ ocPhase = "interrupting" /\ ocPhase' = "ending"
    /\ UNCHANGED <<ocState, ocConn, ocDraining, ocSent, ocGuarded, ocAbort, ocOutcome, ocSettled,
                   ocStream, ocInputVars, ocPolls, ocDrains>>

OcIdle == IF ocState = "closed" THEN "closed" ELSE "idle"

\* The handlers of the result event returned: finishTurn(), and the result.
OcEnds ==
    /\ ocPhase = "ending" /\ ocPhase' = "none"
    /\ ocSettled' = Append(ocSettled, ocOutcome)
    /\ ocState' = OcIdle
    /\ UNCHANGED <<ocConn, ocDraining, ocSent, ocGuarded, ocAbort, ocOutcome, ocStream,
                   ocInputVars, ocPolls, ocDrains>>

-----------------------------------------------------------------------------
(* What the model asks of the user                                         *)

\* The server opens a request, in a turn.
OcOpens(r) ==
    /\ ocPhase = "posting" /\ ocServer[r] = "new"
    /\ ocServer' = [ocServer EXCEPT ![r] = "open"]
    /\ UNCHANGED <<ocState, ocConn, ocDraining, ocTurnVars, ocStream, ocInput, ocHandled, ocReply,
                   ocPolls, ocAsked, ocFails, ocDrains>>

\* reconcilePendingInput(): every 750 ms of a turn.
OcPoll ==
    /\ ocPhase = "posting" /\ ocState # "closed"
    /\ ocPolls' = ocPolls \cup {OcOpen}
    /\ UNCHANGED <<ocState, ocConn, ocDraining, ocTurnVars, ocStream, ocInputVars, ocDrains>>

OcIsNew(r) == r \notin ocHandled /\ ocInput[r] = "none"

\* handlePermission, handleQuestion up to the host, or to the post of a decision that
\* is cached; seen on the stream or in the answer of a poll.
OcHandles(r) ==
    /\ OcIsNew(r) /\ (ocConn = "up" \/ OcLatePolls)
    /\ IF ocReply[r] = "none"
       THEN /\ ocInput' = [ocInput EXCEPT ![r] = "asking"]
            /\ ocState' = "waiting"
            /\ ocAsked' = [ocAsked EXCEPT ![r] = @ + 1]
       ELSE /\ ocInput' = [ocInput EXCEPT ![r] = "posting"]
            /\ UNCHANGED <<ocState, ocAsked>>

OcSees(r) ==
    /\ ocStream = "on" /\ ocServer[r] = "open"
    /\ OcHandles(r)
    /\ UNCHANGED <<ocConn, ocDraining, ocTurnVars, ocStream, ocServer, ocHandled, ocReply, ocPolls,
                   ocFails, ocDrains>>

OcPollReturns(poll, r) ==
    /\ poll \in ocPolls /\ (ocState = "closed" => OcLatePolls)
    /\ r \in poll /\ OcHandles(r)
    /\ ocPolls' = (ocPolls \ {poll}) \cup ({poll \ {r}} \ {{}})
    /\ UNCHANGED <<ocConn, ocDraining, ocTurnVars, ocStream, ocServer, ocHandled, ocReply, ocFails,
                   ocDrains>>

\* What a poll brings that is being handled, or was, is left alone.
OcPollEnds(poll) ==
    /\ poll \in ocPolls
    /\ ocState = "closed" \/ \A r \in poll : ~OcIsNew(r)
    /\ ocPolls' = ocPolls \ {poll}
    /\ UNCHANGED <<ocState, ocConn, ocDraining, ocTurnVars, ocStream, ocInputVars, ocDrains>>

\* hostInput() returns: what the host said, or the unattended policy when it throws, is
\* late, or the session closes.
OcDecides(r, decision) ==
    /\ ocInput[r] = "asking"
    /\ ocInput' = [ocInput EXCEPT ![r] = "posting"]
    /\ ocReply' = [ocReply EXCEPT ![r] = decision]
    /\ UNCHANGED <<ocState, ocConn, ocDraining, ocTurnVars, ocStream, ocServer, ocHandled, ocPolls,
                   ocAsked, ocFails, ocDrains>>

\* Mutant: a decision whose post failed is not kept.
OcForgets(r) == [ocReply EXCEPT ![r] = "none"]

OcKeepsReply(r) == ocReply

\* The post of a reply returns, delivered or not; then restoreAfterInput().  A failure
\* keeps the decision for the next poll; the post may have been delivered all the same.
OcPosted(r, ok, delivered) ==
    /\ ocInput[r] = "posting"
    /\ ocInput' = [ocInput EXCEPT ![r] = "none"]
    /\ ocConn = "down" => ~ok /\ ~delivered
    /\ ok => delivered
    /\ ocServer' = IF delivered /\ ocServer[r] = "open"
                   THEN [ocServer EXCEPT ![r] = ocReply[r]] ELSE ocServer
    /\ IF ok
       THEN /\ ocHandled' = ocHandled \cup {r}
            /\ ocReply' = [ocReply EXCEPT ![r] = "none"]
            /\ UNCHANGED ocFails
       ELSE /\ ocFails < MaxOcFails \/ ocConn = "down"
            /\ ocFails' = IF ocConn = "down" THEN ocFails ELSE ocFails + 1
            /\ ocReply' = OcKeepsReply(r)
            /\ UNCHANGED ocHandled
    /\ ocState' = IF ocState = "closed" THEN "closed" ELSE IF OcActive THEN "thinking" ELSE "idle"
    /\ UNCHANGED <<ocConn, ocDraining, ocTurnVars, ocStream, ocPolls, ocAsked, ocDrains>>

-----------------------------------------------------------------------------
(* drain() and close()                                                     *)

OcAbortsPost == IF ocPhase = "posting" /\ ocAbort = "none" THEN "closed" ELSE ocAbort

\* close(): the POST, the stream and the polling end; the server is released.
OcShuts ==
    /\ ocState' = "closed" /\ ocConn' = "down"
    /\ ocAbort' = OcAbortsPost
    /\ ocStream' = "off"

OcClose ==
    /\ OcHanded
    /\ OcShuts
    /\ UNCHANGED <<ocDraining, ocSent, ocPhase, ocGuarded, ocOutcome, ocSettled, ocInputVars,
                   ocPolls, ocDrains>>

OcDrain ==
    /\ OcHanded /\ ~ocDraining
    /\ ocDraining' = TRUE
    /\ IF OcActive
       THEN /\ ocDrains' = ocDrains \cup {ocSent}
            /\ UNCHANGED <<ocState, ocConn, ocAbort, ocStream>>
       ELSE OcShuts /\ UNCHANGED ocDrains
    /\ UNCHANGED <<ocSent, ocPhase, ocGuarded, ocOutcome, ocSettled, ocInputVars, ocPolls>>

OcDrained(t) ==
    /\ t \in ocDrains /\ t <= Len(ocSettled)
    /\ ocDrains' = ocDrains \ {t}
    /\ OcShuts
    /\ UNCHANGED <<ocDraining, ocSent, ocPhase, ocGuarded, ocOutcome, ocSettled, ocInputVars, ocPolls>>

-----------------------------------------------------------------------------

OcTurnSteps ==
    \/ \E outcome \in {"completed", "failed"} : OcResponse(outcome)
    \/ OcAborted \/ OcInterrupted \/ OcEnds
    \/ \E t \in ocDrains : OcDrained(t)

OcNext ==
    \/ OcConnect \/ OcStreamBreaks \/ OcReconnects
    \/ \E guarded, current \in BOOLEAN : OcSend(guarded, current)
    \/ OcTurnSteps
    \/ \E reason \in {"timeout", "aborted"} : OcGuardFires(reason)
    \/ OcPoll \/ OcClose \/ OcDrain
    \/ \E r \in OcRequests :
          \/ OcOpens(r) \/ OcSees(r)
          \/ \E decision \in {"allow", "deny"} : OcDecides(r, decision)
          \/ \E ok, delivered \in BOOLEAN : OcPosted(r, ok, delivered)
    \/ \E poll \in ocPolls : OcPollEnds(poll) \/ \E r \in poll : OcPollReturns(poll, r)

-----------------------------------------------------------------------------
(* Properties                                                              *)

\* Every variable keeps its type.
OcTypeOK ==
    /\ ocState \in {"idle", "thinking", "waiting", "closed"}
    /\ ocConn \in {"acquiring", "connecting", "up", "failed", "down"}
    /\ ocDraining \in BOOLEAN /\ ocGuarded \in BOOLEAN /\ ocSent \in Nat /\ ocFails \in Nat
    /\ ocPhase \in {"none", "posting", "interrupting", "ending"}
    /\ ocAbort \in {"none", "timeout", "aborted", "closed"}
    /\ ocOutcome \in {"none", "completed", "failed", "timeout", "aborted"}
    /\ ocStream \in {"on", "broken", "off"} /\ ocHandled \subseteq OcRequests
    /\ ocServer \in [OcRequests -> {"new", "open", "allow", "deny"}]
    /\ ocInput \in [OcRequests -> {"none", "asking", "posting"}]
    /\ ocReply \in [OcRequests -> {"none", "allow", "deny"}]
    /\ ocAsked \in [OcRequests -> Nat] /\ ocPolls \subseteq SUBSET OcRequests
    /\ ocDrains \subseteq 1..ocSent
    /\ ocSent = Len(ocSettled) + IF OcActive THEN 1 ELSE 0

OcContract == INSTANCE PromptSession WITH
    Outcomes <- {"completed", "failed", "aborted", "timeout"},
    open <- ocState # "closed" /\ ocConn # "failed" /\ ~ocDraining,
    sent <- ocSent,
    settled <- ocSettled

\* One POST at a time, each settled once and surely, by its response, a guard or the
\* close; a shut session stays shut.
OcKeepsContract == OcContract!Spec

\* The host decides once: a request that the stream and several polls bring is put to it
\* a single time, and what reaches the server is that decision, though its post fails
\* and is retried.
OcAskedOnce ==
    \A r \in OcRequests :
        /\ ocAsked[r] <= 1
        /\ ocServer[r] \in {"allow", "deny"} => ocAsked[r] = 1
        /\ ocReply[r] # "none" /\ ocServer[r] \notin {"new", "open"} => ocServer[r] = ocReply[r]

=============================================================================
