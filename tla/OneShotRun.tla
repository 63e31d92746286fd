------------------------------ MODULE OneShotRun ------------------------------
(***************************************************************************)
(* One execute() of a provider that runs a child process: runChildProcess  *)
(* (packages/agent/src/utils/process.ts) and the executors around it       *)
(* (providers/{claude,codex,cursor,opencode,pi,process}/execute.ts).  An   *)
(* attempt that fails because the session to resume is unknown is made     *)
(* once more without it; what the child said, how it ended and why it was  *)
(* stopped become one status, told to the host as its last phase.          *)
(*                                                                         *)
(* External: the child prints lines, exits or is killed; a killed child's  *)
(* pipes close; the host's handlers return.                                *)
(***************************************************************************)
EXTENDS Naturals, Sequences, SequencesExt

CONSTANTS
    Executors,   \* the providers
    MaxPrinted   \* bound: lines of one attempt

ASSUME OneShotAssumption ==
    /\ Executors \subseteq {"claude", "codex", "cursor", "opencode", "pi", "process"}
    /\ MaxPrinted \in Nat

VARIABLES
    job,    \* who runs what: provider, a session to resume, a timeout, and the host's signal
    stage,  \* how far execute() is
    child,  \* the attempt: the process, what it printed, its timers
    told,   \* what the host was told, in order: lines, events, the last phase
    ending  \* the result: status, errorCode, clearSession, and the files still staged

runVars == <<job, stage, child, told, ending>>

\* What a line can mean to a provider's parser.  `auth_required` and `unknown_session`
\* are texts on stderr; `init` is Cursor's acceptance marker; the tasks are Codex's.
Lines(p) ==
    {"text"} \cup
    CASE p = "claude" -> {"failure", "max_turns", "auth_required", "unknown_session"}
      [] p = "codex" -> {"failure", "auth_required", "unknown_session", "task", "task_done"}
      [] p = "cursor" -> {"init", "failure", "auth_required", "unknown_session"}
      [] p = "opencode" -> {"failure", "auth_required", "unknown_session"}
      [] p = "pi" -> {"failure", "unknown_session"}
      [] OTHER -> {}

\* runChildProcess() before anything happened.
NoChild == [up |-> "no", exit |-> "none", pipe |-> << >>, said |-> << >>, handled |-> 0,
            timedOut |-> FALSE, aborted |-> FALSE, grace |-> {}, closed |-> FALSE]

NoEnding == [status |-> "none", code |-> "none", cleared |-> FALSE, staged |-> {}]

RunInit ==
    /\ job \in [provider : Executors, resume : BOOLEAN, guarded : BOOLEAN, signal : {FALSE}]
    /\ job.provider = "process" => ~job.resume
    /\ stage = "ready" /\ child = NoChild /\ told = << >> /\ ending = NoEnding

-----------------------------------------------------------------------------
(* Up to the child                                                         *)

\* OpenCode's own result event.
OwnResult == IF job.provider = "opencode" THEN <<"result">> ELSE << >>

\* The binary is not found: a result that failed, told.
BinaryMissing ==
    /\ stage = "ready"
    /\ stage' = "done" /\ told' = told \o OwnResult \o <<"error">>
    /\ ending' = [ending EXCEPT !.status = "failed", !.code = "binary_not_found"]
    /\ UNCHANGED <<job, child>>

\* Claude, Cursor and OpenCode stage files for the run; Pi is told of its skills in its
\* arguments, and Codex has none here.
Staging == IF job.provider \in {"claude", "cursor", "opencode"} THEN {"skills"} ELSE {}

\* The workspace or the staging of files throws: execute() rejects, and what Claude's
\* had staged stays.
PrepareThrows ==
    /\ stage = "ready"
    /\ stage' = "rejected"
    /\ ending' \in {[ending EXCEPT !.staged = s] : s \in SUBSET IF job.provider = "claude" THEN {"skills"} ELSE {}}
    /\ UNCHANGED <<job, child, told>>

Prepared ==
    /\ stage = "ready"
    /\ stage' = "spawning"
    /\ ending' \in {[ending EXCEPT !.staged = s] : s \in SUBSET Staging}
    /\ UNCHANGED <<job, child, told>>

\* spawn(); a signal that is aborted already, and a process that cannot be started,
\* resolve at once, the latter with every flag false.
Spawn(works) ==
    /\ stage = "spawning"
    /\ IF job.signal
       THEN child' = [NoChild EXCEPT !.aborted = TRUE] /\ stage' = "settling"
       ELSE IF works
       THEN child' = [NoChild EXCEPT !.up = "up"] /\ stage' = "running"
       ELSE child' = [NoChild EXCEPT !.exit = "unspawned"] /\ stage' = "settling"
    /\ UNCHANGED <<job, told, ending>>

-----------------------------------------------------------------------------
(* While it runs                                                           *)

Prints(line) ==
    /\ child.up = "up" /\ Len(child.pipe) + Len(child.said) < MaxPrinted
    /\ child' = [child EXCEPT !.pipe = Append(@, line)]
    /\ UNCHANGED <<job, stage, told, ending>>

\* "data": captured, and a callback queued behind the earlier ones.
ReadsData ==
    /\ child.pipe # << >>
    /\ child' = [child EXCEPT !.pipe = Tail(@), !.said = Append(@, Head(child.pipe))]
    /\ UNCHANGED <<job, stage, told, ending>>

\* Cursor's stream is accepted when its marker comes before any visible output.
Accepted(lines) ==
    \E i \in DOMAIN lines : lines[i] = "init" /\ ~Contains(SubSeq(lines, 1, i), "text")

\* What the callback of a line tells the host: Cursor's output is held until the stream
\* is accepted, its events until then at most.
Tells(before, line) ==
    IF job.provider # "cursor" \/ Accepted(before) THEN <<line>>
    ELSE IF Accepted(Append(before, line)) THEN Append(before, line)
    ELSE << >>

\* A link of callbackChain has run.
HandlesData ==
    /\ child.handled < Len(child.said)
    /\ told' = told \o Tells(SubSeq(child.said, 1, child.handled), child.said[child.handled + 1])
    /\ child' = [child EXCEPT !.handled = @ + 1]
    /\ UNCHANGED <<job, stage, ending>>

\* timeoutSec: SIGTERM, which the child may ignore, and a grace.
TimeoutFires ==
    /\ stage = "running" /\ ~child.closed /\ job.guarded /\ ~child.timedOut
    /\ child' = [child EXCEPT !.timedOut = TRUE, !.grace = @ \cup {"timeout"}]
    /\ UNCHANGED <<job, stage, told, ending>>

\* The host's signal; heard until the child has closed.
HostAborts ==
    /\ ~job.signal
    /\ job' = [job EXCEPT !.signal = TRUE]
    /\ child' = IF stage = "running" /\ ~child.closed
                THEN [child EXCEPT !.aborted = TRUE, !.grace = @ \cup {"abort"}] ELSE child
    /\ UNCHANGED <<stage, told, ending>>

\* Mutant: SIGTERM again.
Asked == child

\* SIGKILL.
Killed == IF child.up = "up" THEN [child EXCEPT !.up = "gone", !.exit = "signal"] ELSE child

GraceFires(g) ==
    /\ g \in child.grace
    /\ child' = [Killed EXCEPT !.grace = @ \ {g}]
    /\ UNCHANGED <<job, stage, told, ending>>

ChildExits(how) ==
    /\ child.up = "up"
    /\ child' = [child EXCEPT !.up = "gone", !.exit = how]
    /\ UNCHANGED <<job, stage, told, ending>>

\* "close": the pipes are read to their end; timers and listener are removed.
Closes ==
    /\ child.up = "gone" /\ child.pipe = << >> /\ ~child.closed
    /\ child' = [child EXCEPT !.closed = TRUE, !.grace = {}]
    /\ UNCHANGED <<job, stage, told, ending>>

\* Mutant: the result does not wait for the callbacks.
Undrained == TRUE

\* callbackChain has run to its end.
Drained == child.handled = Len(child.said)

\* Codex: a background task that is open when the process has ended is closed.
OpenTask ==
    \E n \in DOMAIN told : told[n] = "task" /\ \A m \in DOMAIN told : m > n => told[m] # "task_done"

ChildResolved ==
    /\ stage = "running" /\ child.closed /\ Drained
    /\ stage' = "settling"
    /\ told' = IF OpenTask THEN Append(told, "task_done") ELSE told
    /\ UNCHANGED <<job, child, ending>>

-----------------------------------------------------------------------------
(* The result                                                              *)

Said == ToSet(child.said)

\* The session to resume is unknown (and, of Cursor, nothing was accepted).
Retries ==
    /\ job.resume /\ ~child.timedOut /\ child.exit = "nonzero" /\ "unknown_session" \in Said
    /\ job.provider = "cursor" => ~Accepted(child.said)

Retry ==
    /\ stage = "settling" /\ Retries
    /\ stage' = "spawning"
    /\ job' = [job EXCEPT !.resume = FALSE] /\ ending' = [ending EXCEPT !.cleared = TRUE]
    /\ child' = NoChild
    /\ UNCHANGED told

\* Cursor: visible output before the marker, or a clean exit without one.
Degraded ==
    /\ job.provider = "cursor" /\ ~Accepted(child.said)
    /\ "text" \in Said \/ child.exit = "zero"

\* Mutant: a child that was killed by somebody else has no code.
StopCodeOfOurs == IF child.aborted THEN "aborted" ELSE IF child.timedOut THEN "timeout" ELSE "none"

\* deriveErrorCode().
StopCode ==
    IF child.aborted THEN "aborted"
    ELSE IF child.timedOut THEN "timeout"
    ELSE IF child.exit = "signal" THEN "killed" ELSE "none"

\* The codes a provider gives what was said, the first that applies.
SaidCode ==
    LET codes == CASE job.provider = "claude" -> <<"max_turns", "auth_required">>
                   [] job.provider \in {"codex", "cursor"} -> <<"auth_required">>
                   [] job.provider = "opencode" -> <<"failure", "auth_required">>
                   [] job.provider = "pi" -> <<"failure">>
                   [] OTHER -> << >>
        heard == {n \in DOMAIN codes : codes[n] \in Said}
    IN  IF heard = {} THEN "none" ELSE codes[CHOOSE n \in heard : \A m \in heard : n <= m]

ErrorCode ==
    IF Degraded THEN "protocol_degraded" ELSE IF StopCode # "none" THEN StopCode ELSE SaidCode

\* errorMessage is not null.  A nonzero exit is not an error when there is a summary,
\* except for Codex and a plain process.
HasMessage ==
    \/ child.timedOut
    \/ ErrorCode \in {"auth_required", "protocol_degraded"}
    \/ "failure" \in Said
    \/ child.exit = "nonzero" /\ \/ job.provider \in {"codex", "process"}
                                 \/ Said \cap {"text", "max_turns"} = {}

Status ==
    IF child.aborted THEN "aborted"
    ELSE IF child.timedOut THEN "timeout"
    ELSE IF ErrorCode # "none" \/ HasMessage THEN "failed" ELSE "completed"

Phase(status) ==
    CASE status = "completed" -> "completed" [] status = "aborted" -> "cancelled" [] OTHER -> "error"

\* What is told with the result: the auth event, OpenCode's event, the phase.
LastWords ==
    (IF ErrorCode = "auth_required" /\ job.provider # "claude" THEN <<"auth_event">> ELSE << >>)
    \o OwnResult \o <<Phase(Status)>>

Finish ==
    /\ stage = "settling" /\ ~Retries
    /\ stage' = "done" /\ told' = told \o LastWords
    /\ ending' = [ending EXCEPT !.status = Status, !.code = ErrorCode, !.staged = {}]
    /\ UNCHANGED <<job, child>>

RunNext ==
    \/ BinaryMissing \/ PrepareThrows \/ Prepared
    \/ \E works \in BOOLEAN : Spawn(works)
    \/ \E line \in Lines(job.provider) : Prints(line)
    \/ ReadsData \/ HandlesData \/ TimeoutFires \/ HostAborts
    \/ \E g \in {"timeout", "abort"} : GraceFires(g)
    \/ \E how \in {"zero", "nonzero", "signal"} : ChildExits(how)
    \/ Closes \/ ChildResolved \/ Retry \/ Finish

\* Timers, the pipes of a child that has exited, and the event loop.
RunProgress ==
    \/ ReadsData \/ HandlesData \/ Closes \/ ChildResolved
    \/ \E g \in {"timeout", "abort"} : GraceFires(g)

-----------------------------------------------------------------------------
(* Properties                                                              *)

Endings == {"completed", "cancelled", "error"}

\* Every variable keeps its type.
RunTypeOK ==
    /\ stage \in {"ready", "rejected", "spawning", "running", "settling", "done"}
    /\ child.up \in {"no", "up", "gone"} /\ child.exit \in {"none", "unspawned", "zero", "nonzero", "signal"}
    /\ child.pipe \o child.said \in Seq(Lines(job.provider)) /\ child.handled \in 0..Len(child.said)
    /\ child.grace \subseteq {"timeout", "abort"}
    /\ ending.status \in {"none", "completed", "failed", "aborted", "timeout"}

\* The host is told one ending, after everything else, the one of the result it gets;
\* by then the child is gone, its timers too, no task is open, nothing is staged.
OneLastWord ==
    /\ \A i \in DOMAIN told : told[i] \in Endings => stage = "done" /\ i = Len(told)
    /\ stage = "done" =>
           /\ told # << >> /\ Last(told) = Phase(ending.status)
           /\ child.up # "up" /\ child.grace = {} /\ ~OpenTask /\ ending.staged = {}

\* The status is what happened: aborted and timed out runs were, a run that completed
\* was neither stopped nor killed and asked for no login, and a session is given up
\* only for being unknown: the second attempt is the last.
StatusIsTrue ==
    /\ ending.status = "aborted" => job.signal
    /\ ending.status = "timeout" => job.guarded /\ child.timedOut
    /\ ending.status = "completed" =>
           /\ ~child.aborted /\ ~child.timedOut /\ child.exit # "signal"
           /\ "failure" \notin Said /\ "auth_required" \notin Said
    /\ ending.cleared => ~job.resume /\ (job.provider # "cursor" => Contains(told, "unknown_session"))

\* A run that was stopped, and ends, whatever the child makes of SIGTERM.
StoppedRun == stage = "running" /\ child.grace # {}

=============================================================================
