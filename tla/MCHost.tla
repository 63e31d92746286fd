-------------------------------- MODULE MCHost --------------------------------
(* For TLC: what a host has beside the turns of its sessions: goals, the       *)
(* snapshots of telemetry, the history of an OpenCode session, the discovery   *)
(* of sessions that were kept.  They share no state: a behaviour is one of one *)
(* of them, drawn at the start.  The snapshots are filled by a session, whose  *)
(* capacity and context are read apart, or from the rows of a transcript; a    *)
(* session is imported from its start, or attached to when it has a past.      *)
EXTENDS GoalController, Telemetry, OpenCodeHistory, SavedHistories

VARIABLES part, scope

hostVars == <<goalVars, scope, teleVars, ocHistoryVars, savedVars, part>>

(* Of the goals, the loop of turns and verdicts has at most two turns at once  *)
(* and nothing native; or the awaits of a native goal have beside them at most *)
(* one turn (of the controller's) and two unread events; with a goal of the    *)
(* model's own, two sets and clears instead of three.                          *)
InScope ==
    CASE scope = "loop" -> arming = {} /\ native = NoGoal /\ Len(turns) <= 2
      [] scope = "native" -> Len(turns) <= 1 /\ iterations = 0 /\ Len(wire) + hostTurns <= 2
                           /\ \A i \in DOMAIN turns : turns[i] # "host"
                           /\ generation + 2 * hostTurns <= MaxGoals + 1

Scopes == [goals |-> {"loop", "native"}, snapshots |-> {"capacity", "context", "rows"},
           history |-> {"new", "old"}, discovery |-> {"server", "files"}]
Sources == [capacity |-> {"claude", "codex"}, context |-> {"claude"}, rows |-> {"rows"}]

\* Sessions of which there is nothing to say.
Plain == [s \in Saved |-> [child |-> FALSE, spoken |-> TRUE,
                           at |-> [p \in Places |-> IF p = "active" THEN Ages[s] ELSE NoFile]]]

\* At most one session is a child, in one at most nobody spoke, one at most is archived.
FewOfEach ==
    \A some \in {{s \in Saved : kept[s].child}, {s \in Saved : ~kept[s].spoken},
                  {s \in Saved : kept[s].at["archived"] # NoFile}} : Cardinality(some) <= 1

HostInit ==
    /\ GoalInit /\ TeleInit /\ OcHistoryInit /\ SavedInit
    /\ part \in DOMAIN Scopes /\ scope \in Scopes[part]
    /\ source \in IF part = "snapshots" THEN Sources[scope] ELSE {"rows"}
    /\ server.messages = IF scope = "old" THEN Past ELSE << >>
    /\ users = (scope = "new")
    /\ IF part = "discovery" THEN scan.kind = scope /\ FewOfEach ELSE scan = NewScan /\ kept = Plain

\* Objectives differ in their names alone: the first that is ever named is this one.
First == CHOOSE o \in Objectives : TRUE
FirstIsNamed ==
    generation = 0 /\ native = NoGoal
        => {goal'.objective, native'.objective} \cup {a.objective : a \in arming'} \subseteq {First, "none"}

LinesOf(some) == \A n \in DOMAIN stdout' : stdout'[n].kind \in some \cup {"answer"}

HostNext ==
    /\ UNCHANGED <<part, scope>>
    /\ \/ /\ part = "goals" /\ GoalNext /\ InScope' /\ FirstIsNamed
          /\ UNCHANGED <<teleVars, ocHistoryVars, savedVars>>
       \/ /\ part = "snapshots" /\ TeleNext /\ UNCHANGED <<goalVars, ocHistoryVars, savedVars>>
          /\ scope = "capacity" => UNCHANGED <<ctxRead, auto>> /\ LinesOf({"auth", "rates"})
          /\ scope = "context" => UNCHANGED rateRead /\ LinesOf({"compacted", "model", "result"})
       \/ /\ part = "history" /\ OcHistoryNext /\ UNCHANGED <<goalVars, teleVars, savedVars>>
          /\ scope = "new" => server'.made < MaxMessages
       \/ part = "discovery" /\ SavedNext /\ UNCHANGED <<goalVars, teleVars, ocHistoryVars>>

HostSpec == HostInit /\ [][HostNext]_hostVars
=============================================================================
