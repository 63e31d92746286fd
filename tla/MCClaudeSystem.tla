---------------------------- MODULE MCClaudeSystem ----------------------------
(* ClaudeSession and ClaudeSystem for TLC.  The behaviours of each have a    *)
(* scope, drawn at the start.                                                *)
EXTENDS ClaudeSystem, TLC

VARIABLE scope

-----------------------------------------------------------------------------
(* ClaudeSession alone: every line the wire can carry, in any order.  Its    *)
(* scopes are turns and sends to the bounds of the .cfg, up to the first     *)
(* phase of a close; or the background tasks, the CLI's requests or the      *)
(* session's, with every phase of a close, beside one send, one turn and one *)
(* result.  The pipes and the CLI rest.                                      *)

Small == sent <= 1 /\ turnSeq <= 1 /\ Len(results) <= 1

SessionInScope ==
    IF scope = "turns"
    THEN drain = "none" /\ closing \in {"no", "scan"} /\ (closing = "no" \/ ~exited)
    ELSE Small

SessionMCInit == SystemInit /\ scope \in {"turns", "tasks", "requests", "controls"}

SessionMCNext ==
    /\ \/ TurnStep
       \/ CloseStep
       \/ scope = "tasks" /\ TaskStep
       \/ scope = "requests" /\ RequestStep
       \/ scope = "controls" /\ ControlStep
    /\ UNCHANGED <<toCli, toHost, cliVars, scope>>
    /\ SessionInScope'

SessionMCSpec == SessionMCInit /\ [][SessionMCNext]_<<systemVars, scope>>

-----------------------------------------------------------------------------
(* ClaudeSystem: two messages, with a subagent, a cancel() or a permission   *)
(* request beside them.  The scope withholds only steps without fairness.    *)

InScope ==
    CASE scope = "subagent" -> asking = NoRequest
                               /\ (closing # "no" => drain = "done")
                               /\ \A c \in Controls : controls[c] = "unsent"
      [] scope = "control" -> asking = NoRequest /\ launched = {} /\ drain = "none"
                              /\ closing = "no"
      [] scope = "request" -> launched = {} /\ sent <= 1
                              /\ \A c \in Controls : controls[c] = "unsent"

MCInit == SystemInit /\ scope \in {"subagent", "control", "request"}

MCSpec ==
    /\ MCInit
    /\ [][SystemNext /\ UNCHANGED scope /\ InScope']_<<systemVars, scope>>
    /\ Fairness
=============================================================================
