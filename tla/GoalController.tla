--------------------------- MODULE GoalController ---------------------------
(***************************************************************************)
(* GoalController (packages/agent/src/goals/controller.ts): the goal       *)
(* engine of a session.  A goal is enforced by the provider (native), by   *)
(* the library's loop of turns and sentinel verdicts (emulate), or by      *)
(* nobody (advisory).  Arming, clearing and judging are awaited, so the    *)
(* host may set, replace or clear a goal while any of them is in flight.   *)
(*                                                                         *)
(* The session is reduced to what the controller asks of it: send() and    *)
(* the settling of turns.  The provider's native goal is external.         *)
(***************************************************************************)
EXTENDS Naturals, Sequences, FiniteSets

CONSTANTS
    Objectives,     \* what goals are about
    MaxGoals,       \* bound: setGoal and clearGoal calls that change something
    MaxIterations,  \* GoalOptions.maxIterations
    MaxHostTurns,   \* bound: turns the host sends itself, and goals the model makes
    Mechanism,      \* the provider's capability: how it enforces a goal
    OneAtATime      \* whether the session refuses a send while a turn runs

ASSUME GoalAssumption ==
    /\ MaxGoals \in Nat /\ MaxIterations \in Nat \ {0} /\ MaxHostTurns \in Nat
    /\ Mechanism \in {"sentinel", "model-tools", "emulated"}
    /\ OneAtATime \in BOOLEAN

VARIABLES
    goal,         \* state: objective and status
    mode,         \* how the goal is enforced
    sentinel,     \* the judge of an emulated goal
    iterations,   \* continuation turns driven for the goal
    evaluating,   \* the re-entrancy guard of onTurnSettled
    suspendNext,  \* an interrupt asked for one settle to be skipped
    generation,   \* bumped by every set and clear
    arming,       \* setGoal calls that await armNative
    clearing,     \* clearGoal calls that await clearNative
    evals,        \* onTurnSettled calls that await a verdict
    turns,        \* turns sent and not settled
    accepting,    \* the session takes sends
    native,       \* the provider's goal
    wire,         \* goal_status events of the provider, not read yet
    hostTurns,    \* turns the host sent
    told,         \* history: goal_status events the controller dispatched
    nudges,       \* history: continuation turns of each goal
    owner,        \* history: the set that made the goal, 0 for the provider's
    excuse        \* history: why the loop of the present goal may have stopped

engine == <<goal, mode, sentinel, iterations, evaluating, suspendNext, generation>>
awaits == <<arming, clearing, evals>>
provider == <<native, wire>>
history == <<told, nudges, owner, excuse>>
goalVars == <<engine, awaits, turns, accepting, provider, hostTurns, history>>

NoGoal == [objective |-> "none", status |-> "none"]
Goal(objective, status) == [objective |-> objective, status |-> status]

Terminal(g) == g.status \in {"met", "cleared", "blocked"}

\* A goal that is neither null nor terminal.
Live(g) == g # NoGoal /\ ~Terminal(g)

GoalInit ==
    /\ goal = NoGoal /\ mode = "idle" /\ sentinel = "none" /\ iterations = 0
    /\ evaluating = FALSE /\ suspendNext = FALSE /\ generation = 0
    /\ arming = {} /\ clearing = {} /\ evals = {}
    /\ turns = << >> /\ accepting = TRUE
    /\ native = NoGoal /\ wire = << >> /\ hostTurns = 0
    /\ told = << >> /\ nudges = [g \in 1..MaxGoals |-> 0]
    /\ owner = 0 /\ excuse = {}

-----------------------------------------------------------------------------

CanSend == accepting /\ (OneAtATime => turns = << >>)

\* deps.send(): a refusal is swallowed by the controller.
SendTurn(kind) == turns' = IF CanSend THEN Append(turns, kind) ELSE turns

\* transition(): record and dispatch.  The session hands the event back to
\* observe(), which finds the state it carries.  `judged` is history: the goal
\* whose evaluation asked for it.
Tell(g, gen, judged) ==
    Append(told, [goal |-> g, gen |-> gen, judged |-> judged])

\* Mutant: a goal that has ended is cleared once more.
ReplacedAnyway ==
    IF goal # NoGoal THEN Tell(Goal(goal.objective, "cleared"), owner, 0) ELSE told

\* What replacing a live goal tells the host first.
Replaced ==
    IF Live(goal) THEN Tell(Goal(goal.objective, "cleared"), owner, 0) ELSE told

\* setGoal's fall to the emulation engine: announce, and start a turn.
Emulate(objective, judge, gen, before) ==
    /\ mode' = "emulate" /\ sentinel' = judge
    /\ goal' = Goal(objective, "active")
    /\ told' = Append(before, [goal |-> Goal(objective, "active"), gen |-> gen, judged |-> 0])
    /\ SendTurn("kickoff")
    /\ owner' = gen
    /\ excuse' = (IF evals = {} THEN {} ELSE {"overlap"})
                 \cup (IF suspendNext' THEN {"interrupted"} ELSE {})

\* What setGoal resets before it looks at how the goal is to be enforced.
StartGoal ==
    /\ generation < MaxGoals
    /\ generation' = generation + 1
    /\ iterations' = 0 /\ suspendNext' = FALSE

\* setGoal, when it awaits armNative: the provider enforces, or is only told.
SetNative(objective, how) ==
    /\ StartGoal
    /\ \/ how = "native" /\ Mechanism # "emulated"
       \/ how = "advisory" /\ Mechanism = "model-tools"
    /\ goal' = IF Live(goal) THEN Goal(goal.objective, "cleared") ELSE goal
    /\ mode' = IF how = "advisory" THEN "advisory" ELSE mode
    /\ sentinel' = "none"
    /\ told' = Replaced
    /\ arming' = arming \cup {[gen |-> generation + 1, objective |-> objective, how |-> how]}
    /\ UNCHANGED <<evaluating, clearing, evals, turns, accepting, provider, hostTurns,
                   nudges, owner, excuse>>

\* setGoal, when it awaits nothing: forced emulation, a sentinel of the host's,
\* or a provider with nothing to arm.
SetEmulated(objective, judge) ==
    /\ StartGoal
    /\ Emulate(objective, judge, generation + 1, Replaced)
    /\ UNCHANGED <<evaluating, awaits, accepting, provider, hostTurns, nudges>>

SetAdvisory(objective) ==
    /\ StartGoal /\ Mechanism # "model-tools"
    /\ mode' = "advisory" /\ sentinel' = "none"
    /\ goal' = Goal(objective, "active")
    /\ told' = Append(Replaced, [goal |-> Goal(objective, "active"),
                                 gen |-> generation + 1, judged |-> 0])
    /\ owner' = generation + 1
    /\ UNCHANGED <<evaluating, awaits, turns, accepting, provider, hostTurns, nudges, excuse>>

\* armNative settles.  A goal set or cleared meanwhile makes this call return
\* unarmed; an arm that failed falls through to emulation.
ArmReturns(a, ok) ==
    LET current == a.gen = generation IN
    /\ a \in arming /\ arming' = arming \ {a}
    /\ UNCHANGED <<iterations, evaluating, suspendNext, generation, clearing, evals,
                   accepting, hostTurns, nudges>>
    /\ IF ok THEN native' = Goal(a.objective, "active")
                  /\ wire' = Append(wire, Goal(a.objective, "active"))
             ELSE UNCHANGED provider
    /\ CASE ~current -> UNCHANGED <<goal, mode, sentinel, told, turns, owner, excuse>>
         [] current /\ ok ->
               /\ goal' = Goal(a.objective, "active") /\ owner' = a.gen
               /\ mode' = IF a.how = "native" THEN "native" ELSE mode
               /\ UNCHANGED <<sentinel, told, turns, excuse>>
         [] current /\ ~ok /\ a.how = "native" ->
               Emulate(a.objective, "default", a.gen, told)
         [] current /\ ~ok /\ a.how = "advisory" ->
               /\ goal' = Goal(a.objective, "active") /\ owner' = a.gen
               /\ told' = Tell(Goal(a.objective, "active"), a.gen, 0)
               /\ UNCHANGED <<mode, sentinel, turns, excuse>>

\* clearGoal up to its await, or to its end when nothing is native.
ClearGoal(reason) ==
    /\ Live(goal) /\ generation < MaxGoals
    /\ generation' = generation + 1
    /\ mode' = "idle" /\ sentinel' = "none"
    /\ IF mode = "native"
       THEN /\ clearing' = clearing \cup {[gen |-> owner, goal |-> Goal(goal.objective, reason)]}
            /\ UNCHANGED <<goal, told>>
       ELSE /\ goal' = Goal(goal.objective, reason)
            /\ told' = Tell(Goal(goal.objective, reason), owner, 0)
            /\ UNCHANGED clearing
    /\ UNCHANGED <<iterations, evaluating, suspendNext, arming, evals, turns, accepting,
                   provider, hostTurns, nudges, owner, excuse>>

\* clearNative settles; its failure is swallowed, and nothing is checked again.
ClearReturns(c, ok) ==
    /\ c \in clearing /\ clearing' = clearing \ {c}
    /\ goal' = c.goal /\ owner' = c.gen
    /\ told' = IF c.goal.status = "blocked" THEN Tell(c.goal, c.gen, 0) ELSE told
    /\ IF ok /\ native # NoGoal
       THEN native' = NoGoal /\ wire' = Append(wire, Goal("none", "cleared"))
       ELSE UNCHANGED provider
    /\ UNCHANGED <<mode, sentinel, iterations, evaluating, suspendNext, generation,
                   arming, evals, turns, accepting, hostTurns, nudges, excuse>>

\* The session reads one goal_status event of the provider.  A late event of a
\* goal that has ended, or one that names no goal, is then ignored; one of another
\* goal is not.  An event that names no goal is about the one on record.
Observe ==
    LET e == Head(wire) IN
    /\ wire # << >> /\ wire' = Tail(wire)
    /\ IF Terminal(goal) /\ e.objective \in {"none", goal.objective}
       THEN UNCHANGED <<goal, mode, sentinel, owner>>
       ELSE /\ goal' = IF e.objective = "none" THEN Goal(goal.objective, e.status) ELSE e
            /\ owner' = IF goal'.objective = goal.objective THEN owner ELSE 0
            /\ IF Terminal(e) THEN mode' = "idle" /\ sentinel' = "none"
                              ELSE UNCHANGED <<mode, sentinel>>
    /\ UNCHANGED <<iterations, evaluating, suspendNext, generation, awaits, turns,
                   accepting, native, hostTurns, told, nudges, excuse>>

-----------------------------------------------------------------------------
(* The loop.                                                               *)

\* Mutant: the settle of the sentinel's own turn is judged too.
JudgesAgain(status) ==
    mode = "emulate" /\ status = "completed" /\ ~suspendNext /\ Live(goal) /\ sentinel # "none"

\* Whether onTurnSettled judges the goal after a turn that ended as `status`.
Judges(status) ==
    /\ mode = "emulate" /\ ~evaluating /\ ~suspendNext
    /\ status = "completed"
    /\ Live(goal) /\ sentinel # "none"

\* The oldest turn settles: onTurnSettled up to its await.  The default sentinel
\* asks the agent itself, in a turn of its own, and fails at once when the session
\* refuses it.
TurnEnds(status) ==
    LET rest == Tail(turns)
        room == accepting /\ (OneAtATime => rest = << >>)
        asks == sentinel = "default" /\ room
    IN
    /\ turns # << >>
    /\ suspendNext' = (suspendNext /\ ~(mode = "emulate" /\ ~evaluating))
    /\ IF Judges(status)
       THEN /\ evaluating' = TRUE
            /\ evals' = evals \cup {[gen |-> generation, objective |-> goal.objective,
                                     meta |-> asks, refused |-> sentinel = "default" /\ ~room]}
            /\ turns' = IF asks THEN Append(rest, "meta") ELSE rest
       ELSE turns' = rest /\ UNCHANGED <<evaluating, evals>>
    /\ excuse' = IF status = "completed" THEN excuse ELSE excuse \cup {"failed"}
    /\ UNCHANGED <<goal, mode, sentinel, iterations, generation, arming, clearing,
                   accepting, provider, hostTurns, told, nudges, owner>>

\* A verdict can come: from the judge's own work, or once the agent's turn ended.
CanJudge(e) == ~e.refused /\ (e.meta => \A i \in DOMAIN turns : turns[i] # "meta")

\* Mutants: the verdict is not compared with the goal of the day; one turn too many.
StaleAccepted(e) == TRUE
SpentLate(n) == n > MaxIterations
Kept == evaluating  \* Mutant: the guard is not released.

\* The goal judged is still the one in force.
StillCurrent(e) == e.gen = generation

\* The budget is spent once n continuations were asked for.
Spent(n) == n >= MaxIterations

\* However onTurnSettled ends, the guard is released.
Released == FALSE

\* The verdict ends the goal: met, out of turns, or a sentinel that threw.
EndGoal(e, status) ==
    /\ goal' = Goal(e.objective, status)
    /\ told' = Tell(Goal(e.objective, status), generation, e.gen)
    /\ mode' = "idle" /\ sentinel' = "none"
    /\ UNCHANGED <<turns, nudges>>

\* onTurnSettled after its await.
Judge(e, verdict) ==
    /\ e \in evals
    /\ CanJudge(e) \/ (e.refused /\ verdict = "throws")
    /\ evals' = evals \ {e}
    /\ evaluating' = Released
    /\ IF ~StillCurrent(e)
       THEN UNCHANGED <<goal, mode, sentinel, iterations, told, nudges, turns>>
       ELSE CASE verdict = "met" -> EndGoal(e, "met") /\ UNCHANGED iterations
              [] verdict = "throws" -> EndGoal(e, "blocked") /\ UNCHANGED iterations
              [] verdict = "unmet" ->
                   /\ iterations' = iterations + 1
                   /\ IF Spent(iterations + 1)
                      THEN EndGoal(e, "blocked")
                      ELSE /\ SendTurn("nudge")
                           /\ nudges' = [nudges EXCEPT ![e.gen] = @ + 1]
                           /\ UNCHANGED <<goal, mode, sentinel, told>>
    /\ UNCHANGED <<suspendNext, generation, arming, clearing, accepting, provider,
                   hostTurns, owner, excuse>>

-----------------------------------------------------------------------------
(* The host and the provider.                                              *)

HostTurn ==
    /\ hostTurns < MaxHostTurns /\ CanSend
    /\ hostTurns' = hostTurns + 1
    /\ SendTurn("host")
    /\ UNCHANGED <<engine, awaits, accepting, provider, history>>

\* notifyInterrupted(), when the session has a turn to interrupt.
NotifyInterrupted ==
    /\ turns # << >>
    /\ suspendNext' = (suspendNext \/ mode = "emulate")
    /\ excuse' = excuse \cup {"interrupted"}
    /\ UNCHANGED <<goal, mode, sentinel, iterations, evaluating, generation, awaits, turns,
                   accepting, provider, hostTurns, told, nudges, owner>>

\* The provider's own judge, or its model, ends the native goal.
NativeEnds(status) ==
    /\ native.status = "active"
    /\ native' = Goal(native.objective, status)
    /\ wire' = Append(wire, native')
    /\ UNCHANGED <<engine, awaits, turns, accepting, hostTurns, history>>

\* A model with goal tools makes a goal of its own.
ModelStarts(objective) ==
    /\ Mechanism = "model-tools" /\ hostTurns < MaxHostTurns
    /\ hostTurns' = hostTurns + 1
    /\ native' = Goal(objective, "active")
    /\ wire' = Append(wire, native')
    /\ UNCHANGED <<engine, awaits, turns, accepting, history>>

GoalNext ==
    \/ \E o \in Objectives :
          \/ \E how \in {"native", "advisory"} : SetNative(o, how)
          \/ \E judge \in {"default", "custom"} : SetEmulated(o, judge)
          \/ SetAdvisory(o)
    \/ \E a \in arming, ok \in BOOLEAN : ArmReturns(a, ok)
    \/ \E reason \in {"cleared", "blocked"} : ClearGoal(reason)
    \/ \E c \in clearing, ok \in BOOLEAN : ClearReturns(c, ok)
    \/ Observe
    \/ \E status \in {"completed", "failed"} : TurnEnds(status)
    \/ \E e \in evals, verdict \in {"met", "unmet", "throws"} : Judge(e, verdict)
    \/ HostTurn \/ NotifyInterrupted
    \/ \E status \in {"met", "blocked"} : NativeEnds(status)
    \/ \E o \in Objectives : ModelStarts(o)

GoalSpec == GoalInit /\ [][GoalNext]_goalVars

-----------------------------------------------------------------------------
(* Properties.                                                             *)

GoalType == [objective : Objectives \cup {"none"},
             status : {"none", "active", "met", "blocked", "cleared"}]

\* Every variable keeps its type; no goal is driven past its budget of turns.
GoalTypeOK ==
    /\ goal \in GoalType /\ native \in GoalType /\ wire \in Seq(GoalType)
    /\ mode \in {"idle", "native", "emulate", "advisory"}
    /\ sentinel \in {"none", "default", "custom"}
    /\ iterations \in 0..MaxIterations
    /\ evaluating \in BOOLEAN /\ suspendNext \in BOOLEAN /\ accepting \in BOOLEAN
    /\ generation \in 0..MaxGoals /\ owner \in 0..MaxGoals
    /\ arming \subseteq [gen : 1..MaxGoals, objective : Objectives,
                         how : {"native", "advisory"}]
    /\ clearing \subseteq [gen : 0..MaxGoals, goal : GoalType]
    /\ evals \subseteq [gen : 1..MaxGoals, objective : Objectives \cup {"none"},
                        meta : BOOLEAN, refused : BOOLEAN]
    /\ turns \in Seq({"kickoff", "nudge", "meta", "host"})
    /\ hostTurns \in 0..MaxHostTurns
    /\ told \in Seq([goal : GoalType, gen : 0..MaxGoals, judged : 0..MaxGoals])
    /\ nudges \in [1..MaxGoals -> Nat]
    /\ excuse \subseteq {"failed", "interrupted", "overlap"}

\* One verdict is awaited at a time, whatever settles meanwhile: the turn of the
\* default sentinel, a turn of the host, the kickoff of a goal that replaced this one.
OneJudge == Cardinality(evals) = (IF evaluating THEN 1 ELSE 0)

\* The host reads no goal as met or blocked on a verdict about the goal before it:
\* the verdict may come after the host has set, cleared or replaced the goal.
NoStaleVerdict == \A i \in DOMAIN told : told[i].judged \in {0, told[i].gen}

\* A goal costs at most maxIterations - 1 continuation turns, whichever turns (its
\* own, the host's) brought its verdicts.
WithinBudget == \A g \in 1..MaxGoals : nudges[g] < MaxIterations

\* Of a goal it has announced as active the controller tells the host one end at
\* most, and nothing more: a replacement, a clear, a verdict and an event of the
\* provider may each end it.
OneEnding ==
    \A i, j \in DOMAIN told :
        (/\ i < j /\ told[i].gen = told[j].gen /\ told[i].gen # 0
         /\ \E k \in 1..i : told[k].gen = told[i].gen /\ ~Terminal(told[k].goal))
        => ~Terminal(told[i].goal) /\ Terminal(told[j].goal)

\* What the host is told of a goal rests on one verdict at a time, about that goal.
VerdictsAreCurrent == OneJudge /\ NoStaleVerdict

\* A goal costs no more than its budget, and is told to have ended once.
EndsInTime == WithinBudget /\ OneEnding

Working == turns # << >> \/ evals # {}
Enforced ==
    /\ mode = "emulate" /\ sentinel # "none" /\ Live(goal) /\ accepting
    /\ owner = generation

\* An emulated goal stays at work: as long as no turn failed or was interrupted, the
\* provider put no goal of its own in its place, and it replaced no goal that was
\* being judged, it is running a turn or awaiting a verdict.
LoopAlive == Enforced /\ excuse = {} => Working

\* What the README promises of setGoal, of a goal that replaced another as well.
LoopKeepsWorking == Enforced /\ excuse \subseteq {"overlap"} => Working

=============================================================================
