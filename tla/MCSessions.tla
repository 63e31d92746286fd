----------------------------- MODULE MCSessions -----------------------------
(* For TLC: the sessions that take one prompt at a time, and the exec-backed *)
(* session with its goal loop.  They share no state: a behaviour is one of   *)
(* one session, drawn at the start.                                          *)
EXTENDS AcpSession, PiSession, AntigravitySession, OpenCodeSession, ExecBackedSession, TLC

VARIABLE kind

sessionsVars == <<acpVars, piVars, agyVars, ocVars, sessionVars, kind>>

SessionsInit ==
    /\ AcpInit /\ PiInit /\ AgyInit /\ OcInit /\ SessionInit
    /\ kind \in {"acp", "pi", "antigravity", "opencode", "exec"}

SessionsNext ==
    /\ UNCHANGED kind
    /\ \/ kind = "acp" /\ AcpNext /\ UNCHANGED <<piVars, agyVars, ocVars, sessionVars>>
       \/ kind = "pi" /\ PiNext /\ UNCHANGED <<acpVars, agyVars, ocVars, sessionVars>>
       \/ kind = "antigravity" /\ AgyNext /\ UNCHANGED <<acpVars, piVars, ocVars, sessionVars>>
       \/ kind = "opencode" /\ OcNext /\ UNCHANGED <<acpVars, piVars, agyVars, sessionVars>>
       \/ kind = "exec" /\ SessionNext /\ UNCHANGED <<acpVars, piVars, agyVars, ocVars>>

SessionsSpec ==
    /\ SessionsInit /\ [][SessionsNext]_sessionsVars
    /\ WF_acpVars(kind = "acp" /\ AcpProgress)
    /\ WF_piVars(kind = "pi" /\ PiProgress)
    /\ WF_agyVars(kind = "antigravity" /\ AgyProgress)
    /\ WF_ocVars(kind = "opencode" /\ OcTurnSteps)
    /\ (kind = "exec") => SessionFairness

\* Each of the four sessions keeps the contract of PromptSession.
SessionsKeepContract ==
    AcpKeepsContract /\ PiKeepsContract /\ AgyKeepsContract /\ OcKeepsContract

\* The text, the end and the result of a turn reach the send of that turn, whatever is left
\* over of the turn before it: late updates and ends, a retried message; and a request of
\* OpenCode's is put to the host once.
EachTurnItsOwn == AcpOwnText /\ PiOwnEnd /\ AgyOwnResult /\ OcAskedOnce

=============================================================================
