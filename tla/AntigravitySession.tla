------------------------- MODULE AntigravitySession -------------------------
(***************************************************************************)
(* AntigravitySession and AgyConnection (packages/agent/src/providers/     *)
(* antigravity): one turn at a time on an `agy` process that is spawned by *)
(* the first turn, reused while it lives and replaced when it died.  The   *)
(* lines of a process are handled on a chain; a result on the chain is     *)
(* given to the first waiter, the exit to all that are left.  A message    *)
(* that a dying process never took is given once more to a fresh one.      *)
(*                                                                         *)
(* External: agy reports an event before it works on a message and ends it *)
(* with one result; it may exit at any time, and does on SIGKILL.          *)
(***************************************************************************)
EXTENDS Naturals, Sequences, FiniteSets

CONSTANTS
    MaxAgySends,   \* bound: sends
    MaxAgyProcs    \* bound: processes; a session that needs more is not looked at

ASSUME AgyAssumption == MaxAgySends \in Nat /\ MaxAgyProcs \in Nat \ {0}

VARIABLES
    agyState,     \* _state, "busy" for thinking and tool_executing
    agyDraining,  \* draining
    agySent,      \* sends taken; the last is `active` while agyPhase # "none"
    agyPhase,     \* where runTurn awaits
    agyStop,      \* the guards that fired: the abort controller, the timer
    agyReason,    \* the guard that won the race
    agyAttempt,   \* how often the message was written
    agyHeard,     \* connectionEvents has grown since the message was written
    agyConn,      \* the connection of the session, 0: none
    agyTurnConn,  \* the connection of the turn
    agyGot,      \* the message of the result that reached the turn, 0: none, or the exit
    agyProcs,     \* the processes spawned
    agySettled,   \* TurnResults: the status, the message its result is about (0: none)
    agyClosing,   \* close() calls, by what each awaits
    agyRuns       \* history: the messages agy worked on

agyVars == <<agyState, agyDraining, agySent, agyPhase, agyStop, agyReason, agyAttempt, agyHeard,
             agyConn, agyTurnConn, agyGot, agyProcs, agySettled, agyClosing, agyRuns>>

\* A process: alive, the messages it has not ended, whether it took the first of them,
\* the chain of what it wrote, and the turns that wait for a result of it.
AgyNewProc == [alive |-> TRUE, stdin |-> << >>, took |-> FALSE, chain |-> << >>, waiters |-> << >>]

AgyInit ==
    /\ agyState = "idle" /\ agyDraining = FALSE /\ agySent = 0 /\ agyPhase = "none"
    /\ agyStop = {} /\ agyReason = "none" /\ agyAttempt = 0 /\ agyHeard = FALSE /\ agyConn = 0
    /\ agyTurnConn = 0 /\ agyGot = 0 /\ agyProcs = << >> /\ agySettled = << >>
    /\ agyClosing = {} /\ agyRuns = << >>

-----------------------------------------------------------------------------
(* A turn                                                                  *)

\* send(), and runTurn up to its turn_start handlers.
AgySend(aborted) ==
    /\ agySent < MaxAgySends
    /\ agyState # "closed" /\ ~agyDraining /\ agyPhase = "none"
    /\ agySent' = agySent + 1 /\ agyState' = "busy" /\ agyPhase' = "starting"
    /\ agyStop' = IF aborted THEN {"aborted"} ELSE {}
    /\ agyReason' = "none" /\ agyAttempt' = 0 /\ agyTurnConn' = 0 /\ agyGot' = 0
    /\ UNCHANGED <<agyDraining, agyHeard, agyConn, agyProcs, agySettled, agyClosing, agyRuns>>

\* The timer, the signal of the send, interrupt() or close().
AgyGuardFires(guard) ==
    /\ agyPhase # "none" /\ guard \notin agyStop
    /\ agyStop' = agyStop \cup {guard}
    /\ UNCHANGED <<agyState, agyDraining, agySent, agyPhase, agyReason, agyAttempt, agyHeard,
                   agyConn, agyTurnConn, agyGot, agyProcs, agySettled, agyClosing, agyRuns>>

AgyReuse(procs, c) == c # 0 /\ procs[c].alive

\* ensureConnection(), nextTurn() and write(): the message goes to the live connection or
\* to a new process; a dead one, whose exit is not handled yet, ignores it.
AgyWrite(procs, conn) ==
    LET c == IF AgyReuse(procs, conn) THEN conn ELSE Len(procs) + 1
        p == IF AgyReuse(procs, conn) THEN procs[c] ELSE AgyNewProc
        q == [p EXCEPT !.waiters = Append(@, agySent),
                       !.stdin = IF p.alive THEN Append(@, agySent) ELSE @]
    IN  /\ c <= MaxAgyProcs
        /\ agyProcs' = IF c > Len(procs) THEN Append(procs, q) ELSE [procs EXCEPT ![c] = q]
        /\ agyConn' = c /\ agyTurnConn' = c
        /\ agyAttempt' = agyAttempt + 1 /\ agyHeard' = FALSE

\* The turn_start handlers returned: stopped before agy saw anything, or written.
AgyStarts ==
    /\ agyPhase = "starting"
    /\ IF "aborted" \in agyStop
       THEN /\ agyPhase' = "ending" /\ agyReason' = "aborted" /\ agyGot' = 0
            /\ UNCHANGED <<agyAttempt, agyHeard, agyConn, agyTurnConn, agyProcs>>
       ELSE /\ AgyWrite(agyProcs, agyConn)
            /\ agyPhase' = "waiting"
            /\ UNCHANGED <<agyReason, agyGot>>
    /\ UNCHANGED <<agyState, agyDraining, agySent, agyStop, agySettled, agyClosing, agyRuns>>

\* A guard wins the race: SIGINT, and three seconds for a result.
AgyInterrupted(guard) ==
    /\ agyPhase = "waiting" /\ guard \in agyStop
    /\ agyPhase' = "interrupting" /\ agyReason' = guard
    /\ UNCHANGED <<agyState, agyDraining, agySent, agyStop, agyAttempt, agyHeard, agyConn,
                   agyTurnConn, agyGot, agyProcs, agySettled, agyClosing, agyRuns>>

\* No result in three seconds: terminate() closes stdin, then SIGTERM, then SIGKILL.
AgyTerminates ==
    /\ agyPhase = "interrupting"
    /\ agyPhase' = "terminating"
    /\ UNCHANGED <<agyState, agyDraining, agySent, agyStop, agyReason, agyAttempt, agyHeard,
                   agyConn, agyTurnConn, agyGot, agyProcs, agySettled, agyClosing, agyRuns>>

\* Whether the session goes on with the connection of a stopped turn.
AgyDropsConn ==
    IF agyConn = agyTurnConn /\ (agyGot = 0 \/ ~agyProcs[agyTurnConn].alive)
    THEN 0 ELSE agyConn

\* The stop is over: the process was terminated, its exit handled or not (slow handlers),
\* or it gave a result and stayed or left within half a second.
AgyStopped ==
    /\ \/ agyPhase = "terminating" /\ ~agyProcs[agyTurnConn].alive
       \/ agyPhase = "leaving"
    /\ agyConn' = AgyDropsConn
    /\ agyPhase' = "ending"
    /\ UNCHANGED <<agyState, agyDraining, agySent, agyStop, agyReason, agyAttempt, agyHeard,
                   agyTurnConn, agyGot, agyProcs, agySettled, agyClosing, agyRuns>>

\* The turn_end handlers returned: runTurn's finally, and the result.
AgyEnds ==
    /\ agyPhase = "ending"
    /\ agyPhase' = "none"
    /\ agySettled' = Append(agySettled,
           [status |-> IF agyReason # "none" THEN agyReason
                       ELSE IF agyGot = 0 THEN "failed" ELSE "completed",
            about |-> agyGot])
    /\ agyConn' = IF agyConn # 0 /\ agyConn = agyTurnConn /\ ~agyProcs[agyConn].alive
                  THEN 0 ELSE agyConn
    /\ agyState' = IF agyState = "closed" THEN "closed" ELSE "idle"
    /\ UNCHANGED <<agyDraining, agySent, agyStop, agyReason, agyAttempt, agyHeard, agyTurnConn,
                   agyGot, agyProcs, agyClosing, agyRuns>>

-----------------------------------------------------------------------------
(* What a process writes, and its chain                                    *)

\* agy takes the next message: it reports an event, and works on it.
AgyTakes(p) ==
    /\ agyProcs[p].alive /\ agyProcs[p].stdin # << >> /\ ~agyProcs[p].took
    /\ agyProcs' = [agyProcs EXCEPT ![p].took = TRUE, ![p].chain = Append(@, [kind |-> "event"])]
    /\ agyRuns' = Append(agyRuns, Head(agyProcs[p].stdin))
    /\ UNCHANGED <<agyState, agyDraining, agySent, agyPhase, agyStop, agyReason, agyAttempt,
                   agyHeard, agyConn, agyTurnConn, agyGot, agySettled, agyClosing>>

\* It ends the message it works on, of itself or because of SIGINT.
AgyReports(p) ==
    /\ agyProcs[p].alive /\ agyProcs[p].took
    /\ agyProcs' = [agyProcs EXCEPT ![p].took = FALSE, ![p].stdin = Tail(@),
                                    ![p].chain = Append(@, [kind |-> "result", about |-> Head(agyProcs[p].stdin)])]
    /\ UNCHANGED <<agyState, agyDraining, agySent, agyPhase, agyStop, agyReason, agyAttempt,
                   agyHeard, agyConn, agyTurnConn, agyGot, agySettled, agyClosing, agyRuns>>

\* finalize(): the process closed, of itself, or by a signal.
AgyExit(p) ==
    /\ agyProcs[p].alive
    /\ agyProcs' = [agyProcs EXCEPT ![p].alive = FALSE, ![p].chain = Append(@, [kind |-> "exit"])]
    /\ UNCHANGED <<agyState, agyDraining, agySent, agyPhase, agyStop, agyReason, agyAttempt,
                   agyHeard, agyConn, agyTurnConn, agyGot, agySettled, agyClosing, agyRuns>>

\* Mutant: a message that agy took is written again when agy exits.
AgyRetriesTaken == agyAttempt = 1 /\ agyState # "closed"

\* The message was never taken by the process that exited, which had not said that it
\* wants a sign-in (auth); it is tried on a fresh one, once.
AgyRetries == agyAttempt = 1 /\ ~agyHeard /\ agyState # "closed"

\* The turn goes on with the outcome of its message: a result, or the exit (o = 0).
AgyOutcome(o, procs, auth) ==
    CASE agyPhase = "waiting" /\ o = 0 /\ AgyRetries /\ ~auth ->
           /\ AgyWrite(procs, 0)
           /\ UNCHANGED <<agyPhase, agyGot>>
      [] agyPhase = "waiting" /\ ~(o = 0 /\ AgyRetries /\ ~auth) ->
           /\ agyPhase' = "ending" /\ agyGot' = o /\ agyProcs' = procs
           /\ UNCHANGED <<agyAttempt, agyHeard, agyConn, agyTurnConn>>
      [] agyPhase = "interrupting" ->
           /\ agyPhase' = IF o = 0 THEN "ending" ELSE "leaving"
           /\ agyConn' = IF o = 0 /\ agyConn = agyTurnConn THEN 0 ELSE agyConn
           /\ agyGot' = o /\ agyProcs' = procs
           /\ UNCHANGED <<agyAttempt, agyHeard, agyTurnConn>>
      [] agyPhase = "terminating" ->
           /\ agyGot' = o /\ agyProcs' = procs
           /\ UNCHANGED <<agyPhase, agyAttempt, agyHeard, agyConn, agyTurnConn>>
      [] OTHER ->
           /\ agyProcs' = procs
           /\ UNCHANGED <<agyPhase, agyGot, agyAttempt, agyHeard, agyConn, agyTurnConn>>

\* The head of the chain of p: an event, counted when p is the session's; a result,
\* for the first waiter; or the exit, for those that are left.
AgyChain(p) ==
    /\ agyProcs[p].chain # << >>
    /\ LET line == Head(agyProcs[p].chain)
           rest == [agyProcs EXCEPT ![p].chain = Tail(@)]
           waits == agyProcs[p].waiters
           mine(w) == p = agyTurnConn /\ w = agySent /\ agyPhase # "none"
       IN  CASE line.kind = "event" ->
                  /\ agyProcs' = rest
                  /\ agyHeard' = (agyHeard \/ p = agyConn)
                  /\ UNCHANGED <<agyPhase, agyGot, agyAttempt, agyConn, agyTurnConn>>
             [] line.kind = "exit" ->
                  LET done == [rest EXCEPT ![p].waiters = << >>]
                  IN  IF \E i \in DOMAIN waits : mine(waits[i])
                      THEN \E auth \in BOOLEAN : AgyOutcome(0, done, auth)
                      ELSE /\ agyProcs' = done
                           /\ UNCHANGED <<agyPhase, agyGot, agyAttempt, agyHeard, agyConn, agyTurnConn>>
             [] line.kind = "result" /\ waits = << >> ->
                  /\ agyProcs' = rest
                  /\ UNCHANGED <<agyPhase, agyGot, agyAttempt, agyHeard, agyConn, agyTurnConn>>
             [] line.kind = "result" /\ waits # << >> ->
                  LET done == [rest EXCEPT ![p].waiters = Tail(@)]
                  IN  IF mine(Head(waits))
                      THEN AgyOutcome(line.about, done, FALSE)
                      ELSE /\ agyProcs' = done
                           /\ UNCHANGED <<agyPhase, agyGot, agyAttempt, agyHeard, agyConn, agyTurnConn>>
    /\ UNCHANGED <<agyState, agyDraining, agySent, agyStop, agyReason, agySettled, agyClosing, agyRuns>>

-----------------------------------------------------------------------------
(* drain() and close()                                                     *)

\* close() up to its first await: the turn in flight, or the process.
AgyShuts(others) ==
    IF agyState = "closed" /\ agyConn = 0
    THEN agyClosing' = others /\ UNCHANGED <<agyState, agyStop, agyConn>>
    ELSE /\ agyState' = "closed"
         /\ IF agyPhase # "none"
            THEN /\ agyStop' = agyStop \cup {"aborted"}
                 /\ agyClosing' = others \cup {[awaits |-> "turn", of |-> agySent]}
                 /\ UNCHANGED agyConn
            ELSE /\ agyConn' = 0
                 /\ agyClosing' = IF agyConn = 0 THEN others
                                  ELSE others \cup {[awaits |-> "exit", of |-> agyConn]}
                 /\ UNCHANGED agyStop

AgyClose ==
    /\ AgyShuts(agyClosing)
    /\ UNCHANGED <<agyDraining, agySent, agyPhase, agyReason, agyAttempt, agyHeard, agyTurnConn,
                   agyGot, agyProcs, agySettled, agyRuns>>

AgyDrain ==
    /\ ~agyDraining
    /\ agyDraining' = TRUE
    /\ IF agyPhase # "none"
       THEN /\ agyClosing' = agyClosing \cup {[awaits |-> "drain", of |-> agySent]}
            /\ UNCHANGED <<agyState, agyStop, agyConn>>
       ELSE AgyShuts(agyClosing)
    /\ UNCHANGED <<agySent, agyPhase, agyReason, agyAttempt, agyHeard, agyTurnConn, agyGot,
                   agyProcs, agySettled, agyRuns>>

\* The turn awaited has settled: drain() closes; close() terminates the connection there
\* is now.
AgyWakes(w) ==
    /\ w \in agyClosing /\ w.awaits # "exit" /\ w.of <= Len(agySettled)
    /\ IF w.awaits = "drain"
       THEN AgyShuts(agyClosing \ {w})
       ELSE /\ agyConn' = 0
            /\ agyClosing' = (agyClosing \ {w}) \cup
                   (IF agyConn = 0 THEN {} ELSE {[awaits |-> "exit", of |-> agyConn]})
            /\ UNCHANGED <<agyState, agyStop>>
    /\ UNCHANGED <<agyDraining, agySent, agyPhase, agyReason, agyAttempt, agyHeard, agyTurnConn,
                   agyGot, agyProcs, agySettled, agyRuns>>

\* terminate() returns: the process exited, killed in the end.
AgyClosed(w) ==
    /\ w \in agyClosing /\ w.awaits = "exit" /\ ~agyProcs[w.of].alive
    /\ agyClosing' = agyClosing \ {w}
    /\ UNCHANGED <<agyState, agyDraining, agySent, agyPhase, agyStop, agyReason, agyAttempt,
                   agyHeard, agyConn, agyTurnConn, agyGot, agyProcs, agySettled, agyRuns>>

-----------------------------------------------------------------------------

AgyNext ==
    \/ \E aborted \in BOOLEAN : AgySend(aborted)
    \/ \E guard \in {"timeout", "aborted"} : AgyGuardFires(guard) \/ AgyInterrupted(guard)
    \/ AgyStarts \/ AgyTerminates \/ AgyStopped \/ AgyEnds
    \/ \E p \in DOMAIN agyProcs : AgyTakes(p) \/ AgyReports(p) \/ AgyExit(p) \/ AgyChain(p)
    \/ AgyClose \/ AgyDrain
    \/ \E w \in agyClosing : AgyWakes(w) \/ AgyClosed(w)

\* The processes that are being terminated.
AgyDoomed == {w.of : w \in {x \in agyClosing : x.awaits = "exit"}}
             \cup (IF agyPhase = "terminating" THEN {agyTurnConn} ELSE {})

\* Handlers return, timers pass, agy works, and a terminated process exits.
AgyProgress ==
    \/ \E guard \in {"timeout", "aborted"} : AgyInterrupted(guard)
    \/ AgyStarts \/ AgyTerminates \/ AgyStopped \/ AgyEnds
    \/ \E p \in DOMAIN agyProcs : AgyTakes(p) \/ AgyReports(p) \/ AgyChain(p)
    \/ \E p \in AgyDoomed : AgyExit(p)
    \/ \E w \in agyClosing : AgyWakes(w) \/ AgyClosed(w)

-----------------------------------------------------------------------------
(* Properties                                                              *)

\* Every variable keeps its type; a turn past its start has a connection.
AgyTypeOK ==
    /\ agyState \in {"idle", "busy", "closed"} /\ agyDraining \in BOOLEAN /\ agyHeard \in BOOLEAN
    /\ agySent \in Nat /\ agyAttempt \in 0..2
    /\ agyPhase \in {"none", "starting", "waiting", "interrupting", "terminating", "leaving", "ending"}
    /\ agyStop \subseteq {"timeout", "aborted"} /\ agyReason \in {"none", "timeout", "aborted"}
    /\ agyConn \in 0..Len(agyProcs) /\ agyTurnConn \in 0..Len(agyProcs)
    /\ agyPhase \in {"waiting", "interrupting", "terminating", "leaving"} => agyTurnConn # 0
    /\ agyGot \in 0..agySent
    /\ agyClosing \subseteq [awaits : {"turn", "drain", "exit"}, of : Nat]
    /\ agySent = Len(agySettled) + IF agyPhase # "none" THEN 1 ELSE 0

AgyContract == INSTANCE PromptSession WITH
    Outcomes <- {"completed", "failed", "aborted", "timeout"},
    open <- agyState # "closed" /\ ~agyDraining,
    sent <- agySent,
    settled <- [i \in DOMAIN agySettled |-> agySettled[i].status]

\* One message at a time, each settled once and surely, across deaths of the process,
\* its replacement, interrupts that agy answers, ignores or dies of, drain and close.
AgyKeepsContract == AgyContract!Spec

\* A result settles the turn of the message it is about, although waiters are served in
\* order and a process outlives its turns; and agy works on no message twice, although
\* a message may be written twice.
AgyOwnResult ==
    /\ \A i \in DOMAIN agySettled : agySettled[i].about \in {0, i}
    /\ \A i, j \in DOMAIN agyRuns : agyRuns[i] = agyRuns[j] => i = j

=============================================================================
