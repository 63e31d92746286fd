------------------------------ MODULE CodexSystem ------------------------------
(***************************************************************************)
(* CodexSession with its host and the app-server, over the two pipes.      *)
(*                                                                         *)
(* The app-server is external, modelled from the protocol notes in         *)
(* session.ts and its tests: it runs one turn at a time; a turn/start it   *)
(* reads during a turn joins that turn; responses may come after the       *)
(* notifications of the same turn and may omit the turn id, and turn/      *)
(* started may be missing; a failed turn may end in two terminal frames.   *)
(* It may refuse, ask, exit.                                               *)
(***************************************************************************)
EXTENDS CodexSession

CONSTANT Repeats   \* whether a failed turn may be reported twice

ASSUME SystemAssumption == Repeats \in BOOLEAN

VARIABLES
    stdout,   \* lines the session has not handled
    turn,     \* the turn that runs
    ran,      \* the sends of each turn
    owed,     \* responses to turn/start not yet written
    alive     \* the process runs

serverVars == <<stdout, turn, ran, owed, alive>>
systemVars == <<vars, serverVars>>

SystemInit ==
    /\ Init
    /\ stdout = << >> /\ turn = NoTurn /\ ran = [t \in Turns |-> {}]
    /\ owed = {} /\ alive = TRUE

-----------------------------------------------------------------------------
(* The app-server.                                                         *)

Say(lines) == stdout' = stdout \o lines

\* The next line of stdin is read.
Reads(do) ==
    /\ alive /\ stdin # << >> /\ Head(stdin).do = do
    /\ stdin' = Tail(stdin)
    /\ UNCHANGED <<state, draining, closing, turnVars, stops, result, rpc, deliveries, asking, historyVars>>

Response(s, t) == [line |-> "response", send |-> s, turn |-> t]

\* turn/start: a turn begins, with a turn/started or without, or the one that runs takes
\* the message in.  Bound: no turn begins when every id was used.
ServerStarts(told) ==
    LET s == Head(stdin).send
        t == IF turn = NoTurn THEN CHOOSE u \in Turns : ran[u] = {} ELSE turn IN
    /\ Reads("start") /\ (turn = NoTurn => \E u \in Turns : ran[u] = {})
    /\ ran' = [ran EXCEPT ![t] = @ \cup {s}] /\ owed' = owed \cup {s} /\ turn' = t
    /\ Say(IF told /\ turn = NoTurn THEN <<[line |-> "started", turn |-> t]>> ELSE << >>)
    /\ UNCHANGED alive

ServerRefuses ==
    /\ Reads("start")
    /\ Say(<<[line |-> "refused", send |-> Head(stdin).send]>>)
    /\ UNCHANGED <<turn, ran, owed, alive>>

\* The response to a turn/start, with the turn id or without.
ServerAnswers(s, named) ==
    /\ alive /\ s \in owed /\ owed' = owed \ {s}
    /\ Say(<<Response(s, IF named THEN CHOOSE t \in Turns : s \in ran[t] ELSE NoTurn)>>)
    /\ UNCHANGED <<vars, turn, ran, alive>>

End(t, again, scan) ==
    LET line == [line |-> "ended", turn |-> t, scan |-> scan] IN
    IF again THEN <<line, line>> ELSE <<line>>

\* The turn ends; a failure may be said twice.
ServerEnds(again, scan) ==
    /\ alive /\ turn # NoTurn /\ (again => Repeats)
    /\ turn' = NoTurn /\ Say(End(turn, again, scan))
    /\ UNCHANGED <<vars, ran, owed, alive>>

\* turn/interrupt: the turn ends, or it is over and the request fails.
ServerStops ==
    LET i == Head(stdin)
        hit == i.turn = turn
        reply == <<[line |-> "stopped", gen |-> i.gen, ok |-> hit]>> IN
    /\ Reads("interrupt")
    /\ turn' = IF hit THEN NoTurn ELSE turn
    /\ Say(IF hit THEN reply \o End(turn, FALSE, FALSE) ELSE reply)
    /\ UNCHANGED <<ran, owed, alive>>

ServerWorks(what) ==
    /\ alive /\ turn # NoTurn
    /\ Say(<<[line |-> what]>>)
    /\ UNCHANGED <<vars, turn, ran, owed, alive>>

\* The process ends by itself, or after close(): SIGTERM, SIGKILL.
ServerExits ==
    /\ alive /\ alive' = FALSE
    /\ ProcessExit
    /\ UNCHANGED <<stdout, turn, ran, owed>>

-----------------------------------------------------------------------------
(* The session.                                                            *)

\* handleLine.
TakeLine ==
    LET l == Head(stdout) IN
    /\ stdout # << >> /\ stdout' = Tail(stdout)
    /\ CASE l.line = "response" -> StartAnswered(l.send, l.turn)
         [] l.line = "refused" -> StartRefused(l.send)
         [] l.line = "stopped" -> StopAnswered(l.gen, l.ok)
         [] l.line = "started" -> TurnStarted(l.turn)
         [] l.line = "ended" -> TurnEnds(l.turn, l.scan)
         [] l.line \in Waits -> Asked(l.line)
         [] l.line = "item/started" -> Item("tool_executing")
         [] l.line = "item/completed" -> Item("thinking")
    /\ UNCHANGED <<turn, ran, owed, alive>>

\* A write that nobody will read fails: the request is rejected.
WriteFails(s) ==
    /\ s \in rpc /\ (~alive \/ closing # "open")
    /\ StartRefused(s)
    /\ UNCHANGED serverVars

HostActs ==
    /\ \/ Interrupt \/ Drain \/ Close
       \/ \E s \in Sends : Send(s) \/ SettleEarly(s)
       \/ \E w \in Waits : Answered(w)
    /\ UNCHANGED serverVars

\* The promises that settled.
Delivers == (\E i \in DOMAIN deliveries : Deliver(i)) /\ UNCHANGED serverVars
Wakes(g) == StopWakes(g) /\ UNCHANGED serverVars
Releases == (\E s \in Sends : WriteFails(s)) \/ (DrainCloses /\ UNCHANGED serverVars)

\* What the app-server does sooner or later.
ServerStep ==
    \/ (\E told \in BOOLEAN : ServerStarts(told)) \/ ServerRefuses \/ ServerStops
    \/ \E s \in Sends : \E named \in BOOLEAN : ServerAnswers(s, named)
    \/ \E again, scan \in BOOLEAN : ServerEnds(again, scan)

Next ==
    \/ ServerStep \/ ServerExits
    \/ \E what \in Waits \cup {"item/started", "item/completed"} : ServerWorks(what)
    \/ TakeLine \/ Delivers \/ Releases \/ HostActs
    \/ \E g \in DOMAIN stops : Wakes(g)

\* The app-server answers what it reads and ends its turns, each once; the event loop
\* handles lines and promises, and event handlers return; close() ends the process.
Fairness ==
    /\ WF_systemVars(ServerStep) /\ WF_systemVars(closing = "grace" /\ ServerExits)
    /\ WF_systemVars(TakeLine) /\ WF_systemVars(Delivers) /\ WF_systemVars(Releases)
    /\ \A g \in Gens : WF_systemVars(Wakes(g))

Spec == SystemInit /\ [][Next]_systemVars /\ Fairness

-----------------------------------------------------------------------------
(* Properties.                                                             *)

\* The session and the app-server group the sends differently.  A send joined the latch
\* of a turn that ended before the app-server read it (they crossed on the wire), or it
\* opened a latch before the end of an earlier generation's turn was heard (its leader
\* was refused, its other sends had timed out, and the latch was given up).
OutOfStep ==
    \E s \in Sends, t \in Turns : t \notin before[s] /\ \E r \in ran[t] :
        \/ gen[r] = gen[s] /\ s \notin ran[t] /\ t # turn /\ result[s] # "refused"
        \/ gen[r] < gen[s]

\* No send is settled by a turn that was over before it was made; and unless they are out of
\* step, it is settled by a turn that ran it.
OwnTurn == NoStaleSettle /\ (OutOfStep \/ \A s \in Sends : by[s] # NoTurn => s \in ran[by[s]])

\* While the app-server runs the turn of a send that waits, and until its end is handled,
\* the latch is that turn's and the session is not idle: an interrupt() finds what to stop.
LatchHolds ==
    turn # NoTurn =>
        \A s \in ran[turn] \cap Pending : latch = gen[s] /\ ~terminal /\ state # "idle"

\* The id that interrupt() would name is that of a turn that runs a send of the latch,
\* however late the responses come.
CapturesOwnTurn ==
    latch # 0 /\ ready[latch] \in Turns => \E s \in ran[ready[latch]] : gen[s] = latch

\* Unless they are out of step, an interrupt() stops the turn that runs, and no other.
Stoppable == OutOfStep \/ (LatchHolds /\ CapturesOwnTurn)

\* Every send settles.
EverySendSettles == \A s \in Sends : s \in Pending ~> s \notin Pending

\* Every interrupt() returns.
StopReturns == \A g \in Gens :
                  stops[g] \in {"waiting", "sent"} ~> stops[g] \notin {"waiting", "sent"}

\* Whoever waits for the session, for a send or for a stop, is answered.
EveryCallReturns == EverySendSettles /\ StopReturns

=============================================================================
