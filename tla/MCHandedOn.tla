------------------------------ MODULE MCHandedOn ------------------------------
(* For TLC: what is handed on and is to come to rest: the messages of a         *)
(* gateway, which become runs, and the children of a Codex session, whose turns *)
(* become tasks.  They share no state: a behaviour is one of one of them, drawn *)
(* at the start.  In the gateway three peers write to one session (dmScope      *)
(* main) over a streaming and a plain channel, a fourth to a session whose      *)
(* agent has no provider.  Its behaviours have a scope:                         *)
(*   queue: saves one at a time, the queue under three messages, one patch,     *)
(*          and, for two of them, failures or stop();                           *)
(*   saves: overlapping saves of two messages and their runs, or of one         *)
(*          message, a reset and the session without a provider.                *)
EXTENDS GatewayPipeline, CodexSubagents

CONSTANTS m1, m2, m3, other, s1, s2, slack, webhook, reset

VARIABLES part, scope

MCSessionOf == m1 :> s1 @@ m2 :> s1 @@ m3 :> s1 @@ other :> s2
MCRouteOf == m1 :> slack @@ m2 :> webhook @@ m3 :> webhook @@ other :> slack

MCConfigs == {[replaces |-> FALSE, depth |-> 1], [replaces |-> FALSE, depth |-> 0],
              [replaces |-> TRUE, depth |-> 0]}

Unusual == \E d \in runs : d.named \/ d.via = "nowhere"

InScope ==
    CASE scope = "queue" -> ~overlapped /\ stage[other] = "new" /\ save[reset] = NoSave
                            /\ (faulty => ~stopped /\ config.depth = 1)
                            /\ (faulty \/ stopped \/ Unusual => stage[m3] = "new")
      [] scope = "saves" -> ~stopped /\ ~faulty /\ ~Unusual /\ config.depth = 1 /\ stage[m3] = "new"
                            /\ (stage[m2] = "new" \/ (save[reset] = NoSave /\ stage[other] = "new"))

MCInit == PipelineInit /\ scope \in {"queue", "saves"} /\ InScope
OnePatch == config' # config => config = [replaces |-> FALSE, depth |-> 0]
MCNext == Next /\ UNCHANGED scope /\ InScope' /\ OnePatch

handedOnVars == <<vars, scope, subagentVars, part>>

HandedOnInit ==
    /\ MCInit /\ SubagentsInit
    /\ part \in {"gateway", "children"}
    /\ part = "children" => scope = "saves" /\ config.depth = 1

HandedOnNext ==
    /\ UNCHANGED part
    /\ \/ part = "gateway" /\ MCNext /\ UNCHANGED subagentVars
       \/ part = "children" /\ SubagentsNext /\ UNCHANGED <<vars, scope>>

Gateway == part = "gateway"
Codex == part = "children"

\* The fairness of the gateway and that of the session, each where it is what runs.
HandedOnSpec ==
    /\ HandedOnInit /\ [][HandedOnNext]_handedOnVars
    /\ \A m \in Messages : WF_vars(Gateway /\ Logged(m, TRUE)) /\ WF_vars(Gateway /\ Saved(m))
    /\ WF_vars(Gateway /\ \E d \in runs : DispatchStep(d))
    /\ \A w \in Writers : WF_vars(Gateway /\ FileStep(w))
    /\ WF_subagentVars(Codex /\ Hears)
    /\ WF_subagentVars(Codex /\ \E p \in pollers : Polls(p))
    /\ \A k \in Children :
          /\ SF_subagentVars(Codex /\ Announces(k))
          /\ WF_subagentVars(Codex /\ Persists(k) /\ persisted[k] # threads[k].turns)
          /\ SF_subagentVars(Codex /\ \E p \in pollers : p.of = k /\ Answers(p))
=============================================================================
