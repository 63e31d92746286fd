-------------------------- MODULE ExecBackedSession --------------------------
(***************************************************************************)
(* ExecBackedSession (packages/agent/src/sessions/exec-backed.ts): a       *)
(* session whose every turn is one execute() of the provider's CLI, with a *)
(* GoalController whose sends are the session's own.  It runs one turn at  *)
(* a time and refuses what comes meanwhile; drain() lets the turn finish,  *)
(* close() aborts it, and both release what the session holds afterwards.  *)
(***************************************************************************)
EXTENDS GoalController

CONSTANT LateEvents  \* whether execute() still forwards events once the turn is aborted

ASSUME ExecAssumption ==
    LateEvents \in BOOLEAN /\ OneAtATime /\ Mechanism = "emulated"

VARIABLES
    status,    \* the SessionState
    draining,  \* drain() was called
    turnNo,    \* turns started; the last is the one in flight, if any
    aborted,   \* the abort signal of the turn in flight
    waiting,   \* drain() and close() calls, each with the turn it awaits
    releases,  \* calls of onClose
    cut        \* history: a drain closed the session on a turn

execVars == <<status, draining, turnNo, aborted, waiting, releases, cut>>
sessionVars == <<goalVars, execVars>>

SessionInit ==
    /\ GoalInit
    /\ status = "idle" /\ draining = FALSE /\ turnNo = 0 /\ aborted = FALSE
    /\ waiting = {} /\ releases = 0 /\ cut = FALSE

-----------------------------------------------------------------------------

InFlight == turns # << >>

\* What send() requires, beside that no turn is in flight.
Accepts(s, d) == s # "closed" /\ ~d

\* run() up to execute(), for a send that was taken.
Begin ==
    /\ status' = "thinking" /\ aborted' = FALSE
    /\ turnNo' = turnNo + 1

\* A step of the goal controller, or of the host, that may send.
Sends(step) ==
    /\ step
    /\ IF turns' # turns THEN Begin ELSE UNCHANGED <<status, aborted, turnNo>>
    /\ UNCHANGED <<draining, waiting, releases, cut>>

GoalStep ==
    \/ \E o \in Objectives, judge \in {"default", "custom"} : Sends(SetEmulated(o, judge))
    \/ \E o \in Objectives : Sends(SetAdvisory(o))
    \/ \E reason \in {"cleared", "blocked"} : Sends(ClearGoal(reason))
    \/ \E e \in evals, verdict \in {"met", "unmet", "throws"} : Sends(Judge(e, verdict))

HostSends == Sends(HostTurn)

\* An event of the running turn.
TurnEvent(next) ==
    /\ InFlight /\ (aborted => LateEvents)
    /\ status' = next
    /\ accepting' = Accepts(next, draining)
    /\ UNCHANGED <<engine, awaits, turns, provider, hostTurns, history, draining, turnNo,
                   aborted, waiting, releases, cut>>

\* execute() resolves: run()'s finally, then onTurnSettled, ahead of whoever awaits
\* the turn.  The goal controller may begin the next turn at once.
TurnSettles(how) ==
    /\ TurnEnds(how)
    /\ IF turns' # << >>
       THEN Begin
       ELSE /\ status' = IF status = "closed" THEN "closed" ELSE "idle"
            /\ aborted' = FALSE
            /\ UNCHANGED turnNo
    /\ UNCHANGED <<draining, waiting, releases, cut>>

Interrupt ==
    /\ InFlight /\ ~aborted
    /\ aborted' = TRUE
    /\ UNCHANGED <<goalVars, status, draining, turnNo, waiting, releases, cut>>

\* Mutant: no close releases.
ReleasesNever == releases

\* closing ??= onClose()
Release == IF releases = 0 THEN 1 ELSE releases

\* Mutant: close() releases without awaiting the turn.
CloseAtOnce(others) ==
    /\ status' = "closed" /\ accepting' = FALSE
    /\ aborted' = InFlight
    /\ waiting' = others
    /\ releases' = Release

\* close() up to its await, or to the release when no turn is in flight.
DoClose(others) ==
    /\ status' = "closed" /\ accepting' = FALSE
    /\ aborted' = InFlight
    /\ IF InFlight
       THEN /\ waiting' = others \cup {[who |-> "close", turn |-> turnNo]}
            /\ UNCHANGED releases
       ELSE waiting' = others /\ releases' = Release

Close ==
    /\ DoClose(waiting)
    /\ UNCHANGED <<engine, awaits, turns, provider, hostTurns, history, draining, turnNo, cut>>

Drain ==
    /\ draining' = TRUE
    /\ IF InFlight
       THEN /\ waiting' = waiting \cup {[who |-> "drain", turn |-> turnNo]}
            /\ accepting' = Accepts(status, TRUE)
            /\ UNCHANGED <<status, aborted, releases>>
       ELSE DoClose(waiting)
    /\ UNCHANGED <<engine, awaits, turns, provider, hostTurns, history, turnNo, cut>>

\* The turn that a drain() or a close() awaits has settled.
Wakes(w) ==
    /\ w \in waiting /\ (InFlight => turnNo > w.turn)
    /\ IF w.who = "close"
       THEN /\ waiting' = waiting \ {w} /\ releases' = Release
            /\ UNCHANGED <<status, accepting, aborted, cut>>
       ELSE /\ DoClose(waiting \ {w})
            /\ cut' = (cut \/ InFlight)
    /\ UNCHANGED <<engine, awaits, turns, provider, hostTurns, history, draining, turnNo>>

SessionNext ==
    \/ GoalStep \/ HostSends
    \/ \E next \in {"thinking", "tool_executing"} : TurnEvent(next)
    \/ \E how \in {"completed", "failed"} : TurnSettles(how)
    \/ Interrupt \/ Close \/ Drain
    \/ \E w \in waiting : Wakes(w)

\* execute() ends (the child exits, or is killed by its timeout or its abort), and
\* the event loop resumes whoever awaits.
SessionFairness ==
    /\ WF_sessionVars(\E how \in {"completed", "failed"} : TurnSettles(how))
    /\ WF_sessionVars(\E w \in waiting : Wakes(w))

SessionSpec == SessionInit /\ [][SessionNext]_sessionVars /\ SessionFairness

-----------------------------------------------------------------------------
(* Properties.                                                             *)

\* Every variable keeps its type; `accepting` is what send() would answer.
SessionTypeOK ==
    /\ GoalTypeOK
    /\ status \in {"idle", "thinking", "tool_executing", "closed"}
    /\ draining \in BOOLEAN /\ aborted \in BOOLEAN /\ cut \in BOOLEAN
    /\ turnNo \in Nat /\ releases \in {0, 1}
    /\ waiting \subseteq [who : {"drain", "close"}, turn : 1..turnNo]
    /\ accepting = (status # "closed" /\ ~draining)
    /\ Len(turns) <= 1

\* What the session holds is released once, after its last turn: no turn is in
\* flight when onClose runs, and none starts afterwards, although the goal loop runs
\* when that turn settles, ahead of the close that awaits it.
ReleasedWhenQuiet == releases > 0 => turns = << >>

\* drain() cuts no turn short: its own close never finds one in flight, although a
\* judged goal would start the next turn as soon as the present one settles.
DrainCutsNothing == ~cut

ClosesQuietly == ReleasedWhenQuiet /\ DrainCutsNothing

\* drain() ends: the session is released whatever is in flight, being judged or
\* about to be sent when it is called.
DrainReleases == draining ~> releases > 0

=============================================================================
