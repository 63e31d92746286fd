------------------------------ MODULE MCOneShot ------------------------------
(* For TLC: one execute() of any of the providers that run a child process, the  *)
(* executions of any providers, one after the other or two together, or the lines *)
(* of any wire on their way to a host.  The three share no state: a behaviour is  *)
(* one of them, drawn at the start.                                              *)
EXTENDS OneShotRun, Executions, StreamParsers

VARIABLE part

oneShotVars == <<runVars, execVars, streamVars, part>>

\* Any one, and two together that differ in how they hear of a stop.
MCBatches == {<<r>> : r \in Providers}
             \cup {<<"claude", "codex tier">>, <<"codex skills", "http">>, <<"antigravity", "claude">>, <<"http", "http">>}

OneShotInit ==
    /\ part \in {"run", "batch", "lines"}
    /\ StreamsInit /\ (part # "lines" => parser = "acp")
    /\ RunInit /\ (part # "run" => job.provider = "process" /\ ~job.guarded)
    /\ IF part = "batch" THEN ExecutionsInit
       ELSE /\ runs = << >> /\ aborted = FALSE /\ sessions = << >> /\ saved = 0
            /\ batch = [cancels |-> FALSE, settled |-> "resolved", made |-> 0]

OneShotNext ==
    /\ UNCHANGED part
    /\ \/ part = "run" /\ RunNext /\ UNCHANGED <<streamVars, execVars>>
       \/ part = "batch" /\ ExecutionsNext /\ UNCHANGED <<runVars, streamVars>>
       \/ part = "lines" /\ StreamsNext /\ UNCHANGED <<runVars, execVars>>

\* Timers, pipes and the event loop go on, of the part that runs.
Progress ==
    /\ UNCHANGED <<streamVars, part>>
    /\ \/ part = "run" /\ RunProgress /\ UNCHANGED execVars
       \/ part = "batch" /\ ExecutionsGoOn /\ UNCHANGED runVars

OneShotSpec == OneShotInit /\ [][OneShotNext]_oneShotVars /\ WF_oneShotVars(Progress)

\* When a run is over the host has heard its one last word, and nothing that was made for
\* it is left.
RunsEndClean == OneLastWord /\ NothingStaysBehind

\* A result says what happened: how the run ended, what stopped it, which session it spoke
\* in; and of several runs each returns its own.
ResultsAreTrue == StatusIsTrue /\ StopsAreTold /\ SessionsStayHome /\ BatchIsWhole

Stopped(i) == IF part = "run" THEN i = 1 /\ StoppedRun ELSE StoppedExecution(i)
Over(i) == IF part = "run" THEN stage # "running" ELSE i \notin DOMAIN runs \/ ~Running(i)

\* A run that was stopped ends, whatever its child makes of SIGTERM; so does every run of
\* a batch.
StoppedRunsEnd == \A i \in 1..2 : Stopped(i) ~> Over(i)

=============================================================================
