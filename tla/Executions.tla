------------------------------ MODULE Executions ------------------------------
(***************************************************************************)
(* What the execute() of each provider prepares, holds and gives back      *)
(* (packages/agent/src/providers/*/execute*.ts, _shared/http-agent.ts), one *)
(* after the other or several together (utils/execute-all.ts).  A route is *)
(* a sequence of steps.  A step may fail, which the route ignores, tells as *)
(* a result or throws; what was staged before it must not stay behind.     *)
(*                                                                         *)
(* What happens within one child process is OneShotRun's: here it works,   *)
(* and says whether it went well.  External: the agents and their sessions, *)
(* git, the file system, the gateway of an HTTP agent.                     *)
(***************************************************************************)
EXTENDS Naturals, Sequences, SequencesExt

Providers == {"claude", "codex", "codex skills", "codex tier", "cursor", "opencode", "pi", "antigravity", "http"}

CONSTANTS
    Batches,       \* sequences of routes: what is executed together
    LateFailures,  \* TRUE: the steps whose failure leaves something behind may fail too
    Rejections,    \* TRUE: of several runs, one may throw
    MaxRuns        \* bound: runs that a host makes one after the other

ASSUME ExecutionsAssumption ==
    /\ Batches \subseteq Seq(Providers) \ {<< >>}
    /\ {LateFailures, Rejections} \subseteq BOOLEAN /\ MaxRuns \in Nat

VARIABLES
    runs,      \* per run of the batch
    aborted,   \* the signal that all of them are given
    batch,     \* executeAll: whether a failure cancels the others, how its promise settled
    sessions,  \* the agents' sessions: the folder each was begun in
    saved      \* the session the host goes on with, 0: none

execVars == <<runs, aborted, batch, sessions, saved>>

-----------------------------------------------------------------------------
(* The routes                                                              *)

\* steps, in order; of those that may fail: the ones that are ignored, the ones after
\* which the workspace is removed before the run throws, and the ones told as a result.
\* All others throw.
Route(steps, ignored, cleaned, result) ==
    [steps |-> steps, ignored |-> ignored, cleaned |-> cleaned, result |-> result]

\* Claude looks for its binary before and after it prepares a service tier.
Claude == Route(<<"binary", "tier", "workspace", "skills", "mcp", "child">>, {"skills"}, {}, {"binary"})
\* Flags are the arguments of the host and those of its MCP servers.
CodexExec == Route(<<"binary", "workspace", "flags", "instructions", "child">>, {}, {"flags"}, {"binary"})
\* With skills: one turn of an app-server.  A flag it has no equivalent for is a result.
CodexAppServer == Route(<<"binary", "workspace", "flags", "guards", "session", "turn">>, {}, {"flags", "session"}, {"binary", "flags"})
\* With a service tier: what cannot be started is a result, but for the tier's own errors.
CodexTier == Route(<<"guards", "binary", "workspace", "session", "turn">>, {}, {"session"}, {"guards", "binary", "workspace", "session"})
Cursor == Route(<<"binary", "workspace", "instructions", "skills", "child">>, {"skills"}, {}, {"binary"})
OpenCode == Route(<<"binary", "workspace", "instructions", "skills", "child">>, {}, {}, {"binary"})
\* Pi's session is a file of the run's own: its folder must be there, that it could not be
\* written is left to Pi.
Pi == Route(<<"binary", "workspace", "instructions", "skills", "file", "child">>, {}, {}, {"binary"})
Antigravity == Route(<<"binary", "workspace", "instructions", "skills", "process", "guards", "turn">>, {"skills"}, {}, {"binary"})
HttpAgent == Route(<<"guards", "request", "body">>, {}, {}, {"request", "body"})

RouteOf(r) ==
    CASE r = "claude" -> Claude [] r = "codex" -> CodexExec [] r = "codex skills" -> CodexAppServer
      [] r = "codex tier" -> CodexTier [] r = "cursor" -> Cursor [] r = "opencode" -> OpenCode
      [] r = "pi" -> Pi [] r = "antigravity" -> Antigravity [] OTHER -> HttpAgent

Works == {"child", "turn", "request", "body"}
Optional == {"tier", "workspace", "skills", "mcp", "instructions"}
Here(run) == RouteOf(run.route).steps[run.at]
Guards == {"timer", "listener"}

\* What a step stages, starts or registers.  Pi's skills are arguments; the app-server's
\* go with its session.
Stages(run) ==
    LET step == Here(run)
    IN  CASE step \in {"tier", "workspace", "mcp"} -> {step}
          [] step = "skills" -> IF run.route = "pi" THEN {} ELSE {"skills"}
          [] step \in {"process", "session"} -> {"process"}
          [] step = "guards" -> Guards
          [] step = "child" -> Guards \cup {"process"}
          [] OTHER -> {}

\* Mutant: Claude's try begins with the child, its settings file is not in one.
WithoutTier(run) == IF Here(run) = "child" THEN {"skills", "mcp", "process"} \cup Guards ELSE {}

\* What the finally blocks that a run is in remove: a child is gone with its guards.
Finally(run) ==
    CASE run.route = "claude" -> IF Here(run) = "child" THEN {"tier", "skills", "mcp", "process"} \cup Guards ELSE {"tier"}
      [] run.route \in {"codex skills", "codex tier"} -> {"process"} \cup Guards
      [] run.route = "antigravity" -> IF run.at > 4 THEN {"skills", "process"} \cup Guards ELSE {}
      [] run.route = "http" -> {"timer"}
      [] OTHER -> IF Here(run) = "child" THEN {"skills", "process"} \cup Guards ELSE {}

-----------------------------------------------------------------------------
(* One run                                                                 *)

ToAsk(route) == ToSet(RouteOf(route).steps) \cap Optional

\* The next step that is asked for.
Following(run, at) ==
    LET steps == RouteOf(run.route).steps
    IN  CHOOSE n \in at + 1..Len(steps) :
            /\ steps[n] \notin Optional \ run.asked
            /\ \A m \in at + 1..n - 1 : steps[m] \in Optional \ run.asked

\* A run: its step, what it holds, the stops it heard in order, whether its signal was
\* aborted before it began to work; how its work went; the session it speaks in and the
\* one it gives back, whether the old one is given up.
NewRun(route, asked, timed) ==
    LET run == [route |-> route, asked |-> asked, timed |-> timed, at |-> 0, held |-> {}, stops |-> << >>, late |-> FALSE,
                answered |-> "no", speaks |-> 0, gives |-> 0, cleared |-> FALSE, ended |-> "no", status |-> "none"]
    IN  [run EXCEPT !.at = Following(run, 0)]

Cwd(run) == IF "workspace" \in run.asked THEN "tree" ELSE "here"

ExecutionsInit ==
    /\ \E b \in Batches :
           /\ batch \in [cancels : IF Len(b) = 1 THEN {FALSE} ELSE BOOLEAN, settled : {"pending"}, made : {1}]
           /\ IF Len(b) = 1
              THEN \E asked \in SUBSET ToAsk(b[1]), timed \in BOOLEAN : runs = <<NewRun(b[1], asked, timed)>>
              ELSE runs = [i \in DOMAIN b |-> NewRun(b[i], ToAsk(b[i]), TRUE)]
    /\ aborted = FALSE /\ sessions = << >> /\ saved = 0

Running(i) == runs[i].ended = "no"

\* With a service tier: a signal that is aborted already ends the run before it prepares.
Prepares(i) == Running(i) /\ ~(runs[i].route = "codex tier" /\ runs[i].late)

Change(i, run) == runs' = [runs EXCEPT ![i] = run] /\ UNCHANGED <<aborted, batch, saved>>

\* A stop is heard by who listens to it, once.
Hears(run, why) ==
    IF run.ended = "no" /\ (IF why = "timeout" THEN "timer" ELSE "listener") \in run.held /\ ~Contains(run.stops, why)
    THEN [run EXCEPT !.stops = Append(@, why)] ELSE run

\* Mutant: a signal that is aborted already is not looked at.
HearsLater(run) == run

\* Guards look at a signal that is aborted already.
HearsBefore(run) == IF aborted THEN Hears(run, "aborted") ELSE run

Untimed(run) == IF run.timed THEN {} ELSE {"timer"}

\* Mutant: a session is resumed wherever it was begun.
ResumesAnywhere(run) == saved # 0 /\ ~run.cleared

\* The session to go on with is resumed in the folder it was begun in; of an HTTP agent
\* the gateway knows where.
Resumes(run) == saved # 0 /\ ~run.cleared /\ (run.route = "http" \/ sessions[saved] = Cwd(run))

\* The session that the prompt goes to: the one to resume or, where that is left to the
\* agent, a new one.
Speaks(run, s) ==
    /\ s \in (IF Resumes(run) THEN {saved} ELSE {}) \cup
              (IF ~Resumes(run) \/ run.route \in {"codex skills", "codex tier", "antigravity", "http"} THEN {Len(sessions) + 1} ELSE {})
    /\ sessions' = IF s > Len(sessions) THEN Append(sessions, Cwd(run)) ELSE sessions

\* A session is given up when it is another one that answers; with a service tier, also
\* when it was not resumed.
GivesUp(run, s) ==
    CASE run.route \in {"codex skills", "antigravity"} -> Resumes(run) /\ s # saved
      [] run.route = "codex tier" -> saved # 0 /\ s # saved
      [] OTHER -> run.cleared

\* A step before the work has passed.  An app-server does not start for a run that was
\* stopped, nor is Claude's version asked for one that is aborted.
Passes(i, s) ==
    LET run == runs[i]
        next == [run EXCEPT !.held = @ \cup (Stages(run) \ Untimed(run)), !.at = Following(run, run.at)]
    IN  /\ Prepares(i) /\ Here(run) \notin Works
        /\ Here(run) = "session" => run.stops = << >>
        /\ Here(run) = "tier" => ~aborted
        /\ IF Here(run) \in {"session", "process", "file"}
           THEN Speaks(run, s) /\ Change(i, [next EXCEPT !.speaks = s, !.cleared = GivesUp(run, s)])
           ELSE /\ s = 0 /\ UNCHANGED sessions
                /\ Change(i, IF Here(run) = "guards" THEN HearsBefore([next EXCEPT !.late = aborted]) ELSE next)

\* runChildProcess(): a signal that is aborted already resolves at once.
StartsChild(i, s) ==
    LET run == runs[i]
    IN  /\ Running(i) /\ Here(run) = "child" /\ "process" \notin run.held /\ ~aborted
        /\ IF run.route = "pi" THEN s = run.speaks /\ UNCHANGED sessions ELSE Speaks(run, s)
        /\ Change(i, [run EXCEPT !.held = @ \cup (Stages(run) \ Untimed(run)), !.speaks = s])

-----------------------------------------------------------------------------
(* How it ends                                                             *)

\* executeAll hears of a result: a failure aborts the signal of all.
Returns(i, run) ==
    LET ended == [run EXCEPT !.held = @ \ Finally(runs[i]), !.ended = "returned"]
        fails == batch.cancels /\ run.status # "completed"
        after == [j \in DOMAIN runs |-> IF j = i THEN ended ELSE IF fails THEN Hears(runs[j], "aborted") ELSE runs[j]]
    IN  /\ runs' = after /\ aborted' = (aborted \/ fails)
        /\ batch' = IF batch.settled = "pending" /\ \A j \in DOMAIN runs : after[j].ended = "returned"
                    THEN [batch EXCEPT !.settled = "resolved"] ELSE batch
        /\ UNCHANGED saved

\* Promise.all rejects with the first that throws; the others go on.
Threw(i, run) ==
    /\ Len(runs) > 1 => Rejections
    /\ runs' = [runs EXCEPT ![i] = [run EXCEPT !.held = @ \ Finally(runs[i]), !.ended = "thrown"]]
    /\ batch' = IF batch.settled = "pending" THEN [batch EXCEPT !.settled = "rejected"] ELSE batch
    /\ UNCHANGED <<aborted, saved>>

\* One reason for all: the stop that came first.
FirstStop(run, how) == IF run.stops = << >> THEN how ELSE Head(run.stops)

\* With a service tier: that the time was up comes before an abort, whenever.
TierStatus(run, how) ==
    IF Contains(run.stops, "timeout") THEN "timeout" ELSE IF run.stops # << >> THEN "aborted" ELSE how

\* A child's run: an abort comes before that the time was up.
ChildStatus(run, how) ==
    IF Contains(run.stops, "aborted") THEN "aborted" ELSE IF run.stops # << >> THEN "timeout" ELSE how

\* The text of a refusal is read to its end, or not at all.
HttpStatus(run, how) == IF run.answered = "refused" THEN how ELSE FirstStop(run, how)

\* Mutant: an app-server's run looks at its timer first.
TimerFirst(run, how) == IF run.route = "http" THEN HttpStatus(run, how) ELSE TierStatus(run, how)

Told(run, how) ==
    CASE run.route \in {"codex skills", "antigravity"} -> FirstStop(run, how)
      [] run.route = "codex tier" -> TierStatus(run, how)
      [] run.route = "http" -> HttpStatus(run, how)
      [] OTHER -> ChildStatus(run, how)

\* What can be left of a step that fails: a directory that was made first.
Remains(run) ==
    IF <<run.route, Here(run)>> \in {<<"claude", "skills">>, <<"claude", "mcp">>, <<"cursor", "skills">>, <<"antigravity", "skills">>}
    THEN SUBSET {"remains"} ELSE {{}}

\* A tier that could not be prepared for an aborted run is no error: the run goes on to say
\* that it is aborted.
TierFates == IF aborted THEN {"ignored"} ELSE {"thrown"}

\* An app-server that does not start throws, unless the run was stopped; with a service
\* tier only an error of the tier does.
StartFates(run) ==
    IF run.stops # << >> THEN {"result"}
    ELSE {"thrown"} \cup IF run.route = "codex tier" THEN {"result"} ELSE {}

\* How a step that fails is taken.
Fates(run) ==
    LET route == RouteOf(run.route)
        step == Here(run)
    IN  IF step = "session" THEN StartFates(run)
        ELSE IF step = "tier" THEN TierFates
        ELSE IF step \in route.ignored THEN {"ignored"}
        ELSE IF step \in route.result THEN {"result"} \cup IF step \in route.cleaned THEN {"thrown"} ELSE {}
        ELSE {"thrown"}

Fails(i, fate, remains) ==
    LET run == [runs[i] EXCEPT !.held = @ \cup remains]
        left == IF Here(run) \in RouteOf(run.route).cleaned THEN run.held \ {"workspace"} ELSE run.held
    IN  /\ Prepares(i) /\ Here(run) \notin Works \cup {"guards", "process"}
        /\ fate \in Fates(runs[i]) /\ remains \in Remains(runs[i])
        /\ LateFailures \/ (remains = {} /\ (fate = "thrown" => left \subseteq Finally(run)))
        /\ CASE fate = "ignored" -> Change(i, [run EXCEPT !.at = Following(run, run.at)])
             [] fate = "thrown" -> Threw(i, [run EXCEPT !.held = left])
             [] OTHER -> Returns(i, [run EXCEPT !.status = Told(run, "failed")])
        /\ UNCHANGED sessions

CancelledBefore(i) ==
    /\ Running(i) /\ ~Prepares(i)
    /\ Returns(i, [runs[i] EXCEPT !.status = Told(runs[i], "failed")]) /\ UNCHANGED sessions

NeverStarted(i) ==
    LET run == [runs[i] EXCEPT !.late = TRUE, !.stops = <<"aborted">>]
    IN  /\ Running(i) /\ Here(run) = "child" /\ "process" \notin run.held /\ aborted
        /\ Returns(i, [run EXCEPT !.status = "aborted", !.gives = IF run.route = "pi" THEN run.speaks ELSE 0])
        /\ UNCHANGED sessions

\* Mutant: the session that the run began with is given back.
GivesFirst(run, heard) == IF Resumes([run EXCEPT !.cleared = FALSE]) THEN saved ELSE IF heard THEN run.speaks ELSE 0

\* The session of the result: the one that was heard of; Pi's is a file of the run's own.
Gives(run, heard) == IF heard \/ run.route = "pi" THEN run.speaks ELSE 0

\* The child does not know the session: it is given up, and another child started without
\* it, of Pi with another file.
StartsOver(i) ==
    LET run == [runs[i] EXCEPT !.held = @ \ (Guards \cup {"process"}), !.cleared = TRUE]
    IN  /\ Running(i) /\ Here(run) = "child" /\ "process" \in runs[i].held
        /\ Resumes(runs[i]) /\ ~Contains(run.stops, "timeout")
        /\ IF run.route = "pi"
           THEN Change(i, [run EXCEPT !.speaks = Len(sessions) + 1]) /\ sessions' = Append(sessions, Cwd(run))
           ELSE Change(i, run) /\ UNCHANGED sessions

\* The child ends.
ChildEnds(i, how, heard) ==
    LET run == runs[i]
    IN  /\ Running(i) /\ Here(run) = "child" /\ "process" \in run.held
        /\ how = "completed" => heard
        /\ Returns(i, [run EXCEPT !.status = Told(run, how), !.gives = Gives(run, heard)])
        /\ UNCHANGED sessions

\* The turn of an app-server or of agy is answered; its process is still there.
Answers(i, how) ==
    LET run == runs[i]
    IN  /\ Running(i) /\ Here(run) = "turn" /\ run.route # "codex tier" /\ run.answered = "no"
        /\ Change(i, [run EXCEPT !.answered = how]) /\ UNCHANGED sessions

\* The turn was answered, or stopped, and the app-server is closed; a stop counts until
\* then.
AppServerEnds(i) ==
    LET run == runs[i]
    IN  /\ Running(i) /\ run.route = "codex skills" /\ Here(run) = "turn"
        /\ run.answered # "no" \/ run.stops # << >>
        /\ Returns(i, [run EXCEPT !.status = FirstStop(run, run.answered), !.gives = run.speaks])
        /\ UNCHANGED sessions

\* With a service tier: the turn is answered, or the session that a stop closes ends it; the
\* guards are off at once.
TierEnds(i, how) ==
    LET run == runs[i]
    IN  /\ Running(i) /\ run.route = "codex tier" /\ Here(run) = "turn"
        /\ Returns(i, [run EXCEPT !.status = TierStatus(run, how), !.gives = run.speaks])
        /\ UNCHANGED sessions

\* agy has exited, by itself or interrupted and terminated: an answer is kept, the first stop
\* is told.  Before it has named its conversation that is the one to resume.
AgyEnds(i, heard) ==
    LET run == runs[i]
        known == IF heard THEN run.speaks ELSE IF Resumes([run EXCEPT !.cleared = FALSE]) THEN saved ELSE 0
    IN  /\ Running(i) /\ run.route = "antigravity" /\ Here(run) = "turn"
        /\ run.answered # "no" => heard
        /\ Returns(i, [run EXCEPT !.status = FirstStop(run, IF run.answered = "no" THEN "failed" ELSE run.answered),
                                  !.speaks = known, !.gives = known, !.cleared = @ /\ heard])
        /\ UNCHANGED sessions

\* An HTTP agent has answered, with its body still to come: the timer is off.
Responds(i, ok) ==
    LET run == runs[i]
    IN  /\ Running(i) /\ Here(run) = "request" /\ run.stops = << >>
        /\ Change(i, [run EXCEPT !.at = @ + 1, !.held = @ \ {"timer"}, !.answered = IF ok THEN "ok" ELSE "refused"])
        /\ UNCHANGED sessions

\* The body has come, or the fetch has failed or was stopped: the caller's session stays.
HttpEnds(i, how, s) ==
    LET run == runs[i]
        stopped == run.stops # << >> /\ run.answered # "refused"
        key == IF Resumes(run) THEN saved ELSE 0
    IN  /\ Running(i) /\ run.route = "http" /\ Here(run) \in Works
        /\ how \in (IF stopped \/ run.answered = "refused" \/ Here(run) = "request" THEN {"failed"} ELSE {"completed", "failed"})
        /\ IF how = "completed" THEN Speaks(run, s) ELSE s = key /\ UNCHANGED sessions
        /\ Returns(i, [run EXCEPT !.status = Told(run, how), !.speaks = s, !.gives = s])

TimerFires(i) ==
    /\ Running(i) /\ Hears(runs[i], "timeout") # runs[i]
    /\ Change(i, Hears(runs[i], "timeout")) /\ UNCHANGED sessions

\* The host's signal, of all runs.
HostCancels ==
    /\ ~aborted /\ \E i \in DOMAIN runs : Running(i)
    /\ aborted' = TRUE /\ runs' = [i \in DOMAIN runs |-> Hears(runs[i], "aborted")]
    /\ UNCHANGED <<batch, sessions, saved>>

\* The host makes another run, with the session of the last.
RunsAgain ==
    LET last == runs[1]
    IN  /\ Len(runs) = 1 /\ ~Running(1) /\ batch.made < MaxRuns
        /\ saved' = IF last.gives # 0 THEN last.gives ELSE IF last.cleared THEN 0 ELSE saved
        /\ \E asked \in {last.asked, last.asked \ {"workspace"}} : runs' = <<NewRun(last.route, asked, last.timed)>>
        /\ aborted' = FALSE /\ batch' = [batch EXCEPT !.made = @ + 1, !.settled = "pending"] /\ UNCHANGED sessions

Hows == {"completed", "failed"}
SomeSession == 0..Len(sessions) + 1

ExecutionsNext ==
    \/ \E i \in DOMAIN runs :
           \/ \E s \in SomeSession : Passes(i, s) \/ StartsChild(i, s) \/ \E how \in Hows : HttpEnds(i, how, s)
           \/ \E fate \in {"ignored", "thrown", "result"}, remains \in SUBSET {"remains"} : Fails(i, fate, remains)
           \/ \E how \in Hows : Answers(i, how) \/ TierEnds(i, how)
           \/ \E heard \in BOOLEAN : AgyEnds(i, heard) \/ \E how \in Hows : ChildEnds(i, how, heard)
           \/ \E ok \in BOOLEAN : Responds(i, ok)
           \/ CancelledBefore(i) \/ NeverStarted(i) \/ StartsOver(i) \/ TimerFires(i)
           \/ AppServerEnds(i)
    \/ HostCancels \/ RunsAgain

\* What goes on without the agent, and what ends once the run has been stopped: a child is
\* killed, an agent ends a turn that is interrupted, a fetch is aborted.
ExecutionsGoOn ==
    \E i \in DOMAIN runs :
        \/ \E s \in SomeSession : Passes(i, s) \/ StartsChild(i, s)
        \/ Fails(i, "result", {}) \/ CancelledBefore(i) \/ NeverStarted(i)
        \/ /\ runs[i].stops # << >>
           /\ \/ \E how \in Hows : TierEnds(i, how)
              \/ \E heard \in BOOLEAN : AgyEnds(i, heard) \/ \E how \in Hows : ChildEnds(i, how, heard)
              \/ \E s \in SomeSession : HttpEnds(i, "failed", s)
              \/ AppServerEnds(i)

-----------------------------------------------------------------------------
(* Properties                                                              *)

\* Every variable keeps its type.
ExecutionsTypeOK ==
    /\ \A i \in DOMAIN runs :
           /\ runs[i].held \subseteq {"tier", "workspace", "skills", "mcp", "process", "timer", "listener", "remains"}
           /\ runs[i].ended \in {"no", "returned", "thrown"} /\ runs[i].speaks \in 0..Len(sessions)
           /\ runs[i].status \in {"none", "completed", "failed", "aborted", "timeout"}
    /\ aborted \in BOOLEAN /\ batch.settled \in {"pending", "resolved", "rejected"} /\ saved \in 0..Len(sessions)

\* Whichever way a run ends, nothing that was staged or started for it stays: a result
\* hands the workspace over, a run that throws has removed it.  (An HTTP agent's listener
\* stays on the caller's signal.)
NothingStaysBehind ==
    \A i \in DOMAIN runs :
        /\ runs[i].ended = "returned" => runs[i].held \subseteq {"workspace"} \cup IF runs[i].route = "http" THEN {"listener"} ELSE {}
        /\ runs[i].ended = "thrown" => runs[i].held = {}

\* A stop that a run heard is what its result says, of an app-server's and agy's runs the
\* first of two; and work that began after the signal was aborted never completes.
StopsAreTold ==
    \A i \in DOMAIN runs :
        LET run == runs[i]
        IN  /\ run.status = "completed" => run.stops = << >> /\ ~run.late
            /\ run.status \in {"aborted", "timeout"} => Contains(run.stops, run.status)
            /\ (run.ended = "returned" /\ run.stops # << >> /\ run.answered # "refused") =>
                   /\ run.status \in ToSet(run.stops)
                   /\ run.route \in {"codex skills", "antigravity"} => run.status = Head(run.stops)

\* Over several runs, no prompt reaches a session in another folder than the one it was
\* begun in; a result names the session that its prompt went to, whenever it completed, and
\* never one that it gives up.
SessionsStayHome ==
    \A i \in DOMAIN runs :
        LET run == runs[i]
        IN  /\ run.speaks # 0 /\ run.route # "http" => sessions[run.speaks] = Cwd(run)
            /\ run.gives \in {0, run.speaks} /\ (run.status = "completed" => run.gives # 0)
            /\ run.ended = "returned" /\ run.cleared => run.gives = 0 \/ run.gives # saved

\* executeAll: an abort, the host's or that of a failure, is heard by every run that listens;
\* the promise resolves when all have returned, and rejects only if one of them threw.
BatchIsWhole ==
    /\ \A i \in DOMAIN runs : aborted /\ Running(i) /\ "listener" \in runs[i].held => Contains(runs[i].stops, "aborted")
    /\ batch.cancels /\ (\E i \in DOMAIN runs : runs[i].status \in {"failed", "aborted", "timeout"}) => aborted
    /\ batch.settled = "resolved" <=> \A i \in DOMAIN runs : runs[i].ended = "returned"
    /\ batch.settled = "rejected" <=> \E i \in DOMAIN runs : runs[i].ended = "thrown"

\* A run of a batch that was stopped, and ends.
StoppedExecution(i) == i \in DOMAIN runs /\ Running(i) /\ runs[i].stops # << >>

=============================================================================
