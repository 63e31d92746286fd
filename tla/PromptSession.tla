--------------------------- MODULE PromptSession ---------------------------
(***************************************************************************)
(* What AgentSession (packages/agent/src/types.ts) promises of a provider  *)
(* without concurrent sends: while the session is open it takes one send   *)
(* at a time, every send it took is settled, once, with an outcome, and a  *)
(* session that was closed or drained takes no send again.                 *)
(***************************************************************************)
EXTENDS Naturals, Sequences

CONSTANT Outcomes   \* how a send may settle (TurnResult.status)

VARIABLES
    open,      \* send() takes what comes, when nothing is in flight
    sent,      \* the number of sends taken
    settled    \* the outcomes of the sends, in the order of the sends

promptVars == <<open, sent, settled>>

Init == open \in BOOLEAN /\ sent = 0 /\ settled = << >>

\* A send is taken: the session is open and the one before it is settled.
Take ==
    /\ open /\ Len(settled) = sent
    /\ sent' = sent + 1
    /\ UNCHANGED <<open, settled>>

Settle(outcome) ==
    /\ Len(settled) < sent
    /\ settled' = Append(settled, outcome)
    /\ UNCHANGED sent
    /\ open' \in {open, FALSE}

\* A send that cannot even start settles at once.
Refuse(outcome) ==
    /\ open /\ Len(settled) = sent
    /\ sent' = sent + 1
    /\ settled' = Append(settled, outcome)
    /\ UNCHANGED open

\* close(), drain(), or the death of the process.
Shut == open /\ open' = FALSE /\ UNCHANGED <<sent, settled>>

Next ==
    \/ Take \/ Shut
    \/ \E outcome \in Outcomes : Settle(outcome) \/ Refuse(outcome)

Spec ==
    /\ Init /\ [][Next]_promptVars
    /\ WF_promptVars(\E outcome \in Outcomes : Settle(outcome))

=============================================================================
