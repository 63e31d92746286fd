----------------------------- MODULE CodexSession -----------------------------
(***************************************************************************)
(* CodexSessionImpl (packages/agent/src/providers/codex/session.ts): sends *)
(* are grouped under a turn latch, and the terminal frame of a turn        *)
(* settles the sends of the latch it finds, after the host's event         *)
(* handlers.  Results name no send and terminal frames are not compared    *)
(* with the latch's turn id.                                               *)
(*                                                                         *)
(* The actions take what the app-server said as parameters; CodexSystem    *)
(* composes them with the app-server.  Left out: child agents, titles,     *)
(* telemetry, goals (a goal's turn is a send of the host), event payloads. *)
(***************************************************************************)
EXTENDS Naturals, Sequences, SequencesExt, FiniteSets

CONSTANTS
    Sends,    \* calls of send() the host may make
    Turns,    \* turn ids of the app-server
    NoTurn    \* where a frame or a result names no turn

\* What the promise of a latch may be while it names no turn.
Nameless == {"none", "waiting", "rejected", "ended"}

ASSUME SessionAssumption ==
    IsFiniteSet(Sends) /\ NoTurn \notin Turns /\ Nameless \cap Turns = {}

VARIABLES
    state,       \* _state
    draining,    \* the sends that drain() awaits, after _draining was set
    closing,     \* close(): not called, in its grace window, resolved
    latch,       \* _activeTurnReady, by its generation, 0 for none
    ready,       \* the promise of each latch; _activeTurnId is the latch's, once a turn
    generation,  \* _turnGeneration
    terminal,    \* _turnTerminalObserved
    stops,       \* the interrupt() of each generation, _interruptPromise for the latch's
    result,      \* the promise of each send; its entry is in _pendingResults while pending
    gen,         \* the generation of each send's entry
    leaders,     \* the sends whose turn/start response is read for the turn id
    rpc,         \* _pendingRpc: the sends whose turn/start is not answered
    deliveries,  \* calls of deliverTurnResult, or of the usage scan before it
    asking,      \* server requests the host is answering
    stdin,       \* what was written to the app-server and not read
    heard,       \* history: the turns whose terminal frame was handled
    before,      \* history: heard, when each send was made
    by           \* history: the turn whose terminal frame settled each send

turnVars == <<latch, ready, generation, terminal, leaders, gen>>
historyVars == <<heard, before, by>>
vars == <<state, draining, closing, turnVars, stops, result, rpc, deliveries, asking, stdin,
          historyVars>>

Gens == 1..Cardinality(Sends)
Waits == {"waiting_for_approval", "waiting_for_input"}
NotDraining == [on |-> FALSE, awaits |-> {}]

Init ==
    /\ state = "idle" /\ draining = NotDraining /\ closing = "open"
    /\ latch = 0 /\ ready = [g \in Gens |-> "none"] /\ generation = 0 /\ terminal = FALSE
    /\ stops = [g \in Gens |-> "none"]
    /\ result = [s \in Sends |-> "unsent"] /\ gen = [s \in Sends |-> 0]
    /\ leaders = {} /\ rpc = {} /\ deliveries = << >> /\ stdin = << >>
    /\ asking = [w \in Waits |-> 0]
    /\ heard = {} /\ before = [s \in Sends |-> {}] /\ by = [s \in Sends |-> NoTurn]

Pending == {s \in Sends : result[s] = "pending"}

Settled(ss, how) == [s \in Sends |-> IF s \in ss THEN how ELSE result[s]]

Write(what) == stdin' = Append(stdin, what)

-----------------------------------------------------------------------------
(* The turn latch.                                                         *)

\* The promises once that of the latch, if it still waits, is settled with `how`.
Ready(how) == [g \in Gens |-> IF g = latch /\ ready[g] = "waiting" THEN how ELSE ready[g]]

\* The `expected` fence: the latch is still that of generation g.
StillLatch(g) == latch = g

\* Mutant: the fence of a turn that has ended is dropped.
CanJoinAlways == latch # 0

\* Whether a send joins the active turn.
CanJoin == latch # 0 /\ ~terminal

\* clearActiveTurn.
ClearLatch(how) == latch' = 0 /\ ready' = Ready(how) /\ terminal' = FALSE

\* Mutant: sends whose turn/start was written are left to the app-server.
Unsent == Pending \ rpc

\* rejectAllPending: every send and every request in flight is rejected.
Rejected == Pending

RejectAllPending ==
    /\ result' = Settled(Rejected, "rejected")
    /\ rpc' = {} /\ ClearLatch("rejected")
    /\ stops' = [g \in DOMAIN stops |-> IF stops[g] = "sent" THEN "done" ELSE stops[g]]
    /\ UNCHANGED <<generation, leaders, gen>>

-----------------------------------------------------------------------------
(* send(), its deadline, and the answers to turn/start.                    *)

\* sendTurn.
Send(s) ==
    LET g == IF CanJoin THEN latch ELSE generation + 1 IN
    /\ result[s] = "unsent" /\ state # "closed" /\ ~draining.on
    /\ result' = Settled({s}, "pending") /\ gen' = [gen EXCEPT ![s] = g]
    /\ IF CanJoin THEN UNCHANGED <<latch, ready, generation, terminal, leaders>>
       ELSE /\ latch' = g /\ ready' = [ready EXCEPT ![g] = "waiting"] /\ generation' = g
            /\ terminal' = FALSE /\ leaders' = leaders \cup {s}
    /\ state' = IF state = "idle" THEN "thinking" ELSE state
    /\ rpc' = rpc \cup {s} /\ Write([do |-> "start", send |-> s])
    /\ before' = [before EXCEPT ![s] = heard]
    /\ UNCHANGED <<draining, closing, stops, deliveries, asking, heard, by>>

\* The response to turn/start; a leader's may name the turn.
StartAnswered(s, t) ==
    /\ rpc' = rpc \ {s}
    /\ ready' = IF s \in rpc \cap leaders /\ StillLatch(gen[s]) /\ t # NoTurn
                THEN Ready(t) ELSE ready
    /\ UNCHANGED <<state, draining, closing, latch, generation, terminal, leaders, gen, stops, result,
                   deliveries, asking, stdin, historyVars>>

\* turn/start is refused, or could not be written: settleRejectedTurnStart, after
\* rejectActiveTurnReady for a leader.
StartRefused(s) ==
    LET others == {o \in Pending \ {s} : gen[o] = gen[s]}
        mine == s \in rpc /\ s \in Pending
        over == mine /\ others = {} /\ latch = gen[s] /\ ready[gen[s]] \notin Turns
    IN
    /\ rpc' = rpc \ {s}
    /\ result' = Settled({s} \cap Pending \cap rpc, "refused")
    /\ IF over THEN ClearLatch("rejected")
       ELSE /\ ready' = IF s \in rpc \cap leaders /\ latch = gen[s] THEN Ready("rejected") ELSE ready
            /\ UNCHANGED <<latch, terminal>>
    /\ state' = IF over /\ state # "closed" THEN "idle" ELSE state
    /\ UNCHANGED <<draining, closing, generation, leaders, gen, stops, deliveries, asking, stdin,
                   historyVars>>

-----------------------------------------------------------------------------
(* interrupt().                                                            *)

CanInterrupt == state # "closed" /\ CanJoin /\ stops[latch] = "none"

\* interrupt(): at once when the turn id is known, else when the latch is settled.
DoInterrupt ==
    IF ready[latch] \in Turns
    THEN /\ stops' = [stops EXCEPT ![latch] = "sent"]
         /\ Write([do |-> "interrupt", gen |-> latch, turn |-> ready[latch]])
    ELSE /\ stops' = [stops EXCEPT ![latch] = "waiting"]
         /\ UNCHANGED stdin

Interrupt ==
    /\ CanInterrupt /\ DoInterrupt
    /\ UNCHANGED <<state, draining, closing, turnVars, result, rpc, deliveries, asking, historyVars>>

\* The latch's promise settled: the turn is over, or nobody knows its id, or it is
\* interrupted now.  A call that failed may be repeated.
StopWakes(g) ==
    /\ stops[g] = "waiting" /\ ready[g] # "waiting"
    /\ IF latch = g /\ ~terminal
       THEN IF ready[g] \in Turns THEN DoInterrupt
            ELSE stops' = [stops EXCEPT ![g] = "none"] /\ UNCHANGED stdin
       ELSE stops' = [stops EXCEPT ![g] = "done"] /\ UNCHANGED stdin
    /\ UNCHANGED <<state, draining, closing, turnVars, result, rpc, deliveries, asking, historyVars>>

\* The response to turn/interrupt.
StopAnswered(g, ok) ==
    /\ stops' = [stops EXCEPT ![g] = CASE @ # "sent" -> @
                                       [] latch = g /\ ~ok -> "none"
                                       [] OTHER -> "done"]
    /\ UNCHANGED <<state, draining, closing, turnVars, result, rpc, deliveries, asking, stdin, historyVars>>

\* settleEarly: the deadline or the abort signal of a send.
SettleEarly(s) ==
    /\ s \in Pending
    /\ result' = Settled({s}, "early")
    /\ IF CanInterrupt THEN DoInterrupt ELSE UNCHANGED <<stops, stdin>>
    /\ UNCHANGED <<state, draining, closing, turnVars, rpc, deliveries, asking, historyVars>>

-----------------------------------------------------------------------------
(* Notifications.                                                          *)

\* turn/started.
TurnStarted(t) ==
    /\ ready' = IF state # "closed" THEN Ready(t) ELSE ready
    /\ UNCHANGED <<state, draining, closing, latch, generation, terminal, leaders, gen, stops, result,
                   rpc, deliveries, asking, stdin, historyVars>>

\* item/started and item/completed.
Item(now) ==
    /\ state' = IF state # "closed" THEN now ELSE state
    /\ UNCHANGED <<draining, closing, turnVars, stops, result, rpc, deliveries, asking, stdin, historyVars>>

\* Mutant: the latch's promise is left to be settled with the delivery.
StillWaiting == ready

\* markTurnTerminalObserved releases an interrupt that awaits the id.
Ended == Ready("ended")

\* turn/completed and turn/failed: resolveTurn binds the delivery to the latch.
\* Without usage in the frame, the session logs on disk are read first.
TurnEnds(t, scan) ==
    IF state = "closed" THEN UNCHANGED vars ELSE
    /\ terminal' = TRUE /\ ready' = Ended
    /\ deliveries' = Append(deliveries, [gen |-> latch, turn |-> t, scan |-> scan])
    /\ heard' = heard \cup {t}
    /\ UNCHANGED <<state, draining, closing, latch, generation, leaders, gen, stops, result, rpc,
                   asking, stdin, before, by>>

\* Mutant: every send is settled.
TakeAll(d) == Pending

\* takePendingResults of the generation that is delivered.
Taken(d) == {s \in Pending : gen[s] = d.gen}

\* Mutant: a delivery that was overtaken by a new turn is not told apart.
NeverSuperseded(d) == FALSE

Superseded(d) == latch # d.gen

\* deliverTurnResult after the event chain, which keeps deliveries in order except
\* for those that read the disk first.
Deliver(i) ==
    LET d == deliveries[i] IN
    /\ \A j \in 1..(i - 1) : deliveries[j].scan
    /\ deliveries' = RemoveAt(deliveries, i)
    /\ IF state = "closed" THEN UNCHANGED <<state, latch, ready, terminal, result, by>>
       ELSE /\ result' = Settled(Taken(d), "delivered")
            /\ by' = [s \in Sends |-> IF s \in Taken(d) THEN d.turn ELSE by[s]]
            /\ IF Superseded(d) THEN UNCHANGED <<state, latch, ready, terminal>>
               ELSE state' = "idle" /\ ClearLatch("ended")
    /\ UNCHANGED <<draining, closing, generation, leaders, gen, stops, rpc, asking, stdin, heard, before>>

\* A request for an approval or an answer: handled in every state.
Asked(w) ==
    /\ state' = w /\ asking' = [asking EXCEPT ![w] = @ + 1]
    /\ UNCHANGED <<draining, closing, turnVars, stops, result, rpc, deliveries, stdin, historyVars>>

\* The host answered: restoreStateAfter.
Answered(w) ==
    /\ asking[w] > 0 /\ asking' = [asking EXCEPT ![w] = @ - 1]
    /\ state' = IF state # w THEN state ELSE IF Pending # {} THEN "thinking" ELSE "idle"
    /\ UNCHANGED <<draining, closing, turnVars, stops, result, rpc, deliveries, stdin, historyVars>>

-----------------------------------------------------------------------------
(* drain(), close() and the end of the process.                            *)

\* closeTransport up to the grace window.
DoClose ==
    /\ closing = "open" /\ state # "closed"
    /\ state' = "closed" /\ closing' = "grace" /\ RejectAllPending

Close ==
    /\ DoClose
    /\ UNCHANGED <<draining, deliveries, asking, stdin, historyVars>>

Drain ==
    /\ state # "closed" /\ ~draining.on
    /\ draining' = [on |-> TRUE, awaits |-> Pending]
    /\ UNCHANGED <<state, closing, turnVars, stops, result, rpc, deliveries, asking, stdin, historyVars>>

\* Every send that drain() found is settled.
DrainCloses ==
    /\ draining.on /\ draining.awaits \cap Pending = {}
    /\ DoClose
    /\ UNCHANGED <<draining, deliveries, asking, stdin, historyVars>>

\* The exit and error handlers, and close()'s own.
ProcessExit ==
    /\ IF state = "closed" THEN UNCHANGED <<state, turnVars, stops, result, rpc>>
       ELSE state' = "closed" /\ RejectAllPending
    /\ closing' = IF closing = "grace" THEN "done" ELSE closing
    /\ UNCHANGED <<draining, deliveries, asking, stdin, historyVars>>

-----------------------------------------------------------------------------
(* Properties.                                                             *)

States == {"idle", "thinking", "tool_executing", "closed"} \cup Waits

\* Every variable keeps its type.  The latch and the sends that wait know their
\* generation, which never runs ahead of the counter; a closed session has neither.
CodexTypeOK ==
    /\ state \in States /\ closing \in {"open", "grace", "done"} /\ terminal \in BOOLEAN
    /\ draining \in [on : BOOLEAN, awaits : SUBSET Sends]
    /\ latch \in 0..generation /\ generation <= Cardinality(leaders)
    /\ ready \in [Gens -> Nameless \cup Turns]
    /\ \A g \in Gens : ready[g] = "waiting" => g = latch /\ ~terminal
    /\ leaders \subseteq {s \in Sends : result[s] # "unsent"}
    /\ stops \in [Gens -> {"none", "waiting", "sent", "done"}]
    /\ result \in [Sends -> {"unsent", "pending", "early", "refused", "rejected", "delivered"}]
    /\ gen \in [Sends -> 0..generation] /\ rpc \subseteq Sends
    /\ \A s \in Pending : gen[s] > 0
    /\ deliveries \in Seq([gen : 0..generation, turn : Turns, scan : BOOLEAN])
    /\ asking \in [Waits -> Nat]
    /\ heard \subseteq Turns /\ before \in [Sends -> SUBSET Turns] /\ by \in [Sends -> Turns \cup {NoTurn}]
    /\ state = "closed" => Pending = {} /\ latch = 0

\* A send that lands after the end of a turn was handled is owed a result of its own:
\* no terminal frame of that turn, the first, a late or a repeated one, settles it.
NoStaleSettle == \A s \in Sends : by[s] \notin before[s]

=============================================================================
