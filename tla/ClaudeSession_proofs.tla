------------------------- MODULE ClaudeSession_proofs -------------------------
(***************************************************************************)
(* Theorems about ClaudeSession, for every bound and every set of tasks,   *)
(* requests and controls, whatever lines the CLI writes in whatever order; *)
(* then about ClaudeSystem, where the lines are those of a CLI that keeps  *)
(* the turn protocol, for every width of its stdout.                       *)
(***************************************************************************)
EXTENDS ClaudeSystem, FiniteSetTheorems, TLAPS

-----------------------------------------------------------------------------
(* Type correctness.  Each part of TypeOK survives a step that leaves its  *)
(* variables alone.                                                        *)

\* The turn's variables are kept.
LEMMA TurnTypeKept ==
    ASSUME TurnType, UNCHANGED <<state, turnVars, log>>
    PROVE  TurnType'
BY DEF TurnType, turnVars

\* The sends' variables are kept.
LEMMA SendTypeKept ==
    ASSUME SendType, UNCHANGED sendVars
    PROVE  SendType'
BY DEF SendType, sendVars

\* The results' variables are kept.
LEMMA ResultTypeKept ==
    ASSUME ResultType, UNCHANGED <<resultVars, drained>>
    PROVE  ResultType'
BY DEF ResultType, resultVars

\* The other variables are kept.
LEMMA ControlTypeKept ==
    ASSUME ControlType, UNCHANGED <<latchVars, taskVars, controlVars, closeVars>>
    PROVE  ControlType'
BY DEF ControlType, latchVars, taskVars, controlVars, closeVars

\* The messages sent are among those the bound allows.
LEMMA SentAreSends ==
    ASSUME SendType
    PROVE  1..sent \subseteq Sends
BY BoundsAssumption DEF SendType, Sends

\* Settling keeps the type of `outcome`.
LEMMA SettledType ==
    ASSUME SendType, NEW S, NEW how \in {"result", "retired", "early", "rejected"}
    PROVE  Settled(S, how) \in [Sends -> {"unsent", "pending", "result", "retired", "early",
                                         "rejected"}]
BY DEF Settled, SendType

\* What a close and a result add to the log are events.
LEMMA EventTypes ==
    ASSUME TurnType
    PROVE  /\ CloseEvents \in Seq(Events)
           /\ ResultEvent \in Seq(Events)
<1>1. \A type \in {"turn_start", "turn_end", "result", "stray_result"}, turn \in 0..MaxTurns :
         <<Event(type, turn)>> \in Seq(Events)
  BY DEF Event, Events
<1>2. openTurn.turn \in 0..MaxTurns BY BoundsAssumption DEF TurnType
<1> QED BY <1>1, <1>2 DEF CloseEvents, ResultEvent, TurnType

\* Closing the turn keeps the turn's types, whatever state is written with it.
LEMMA CloseTurnType ==
    ASSUME TurnType, CloseTurn, state' \in SessionStates
    PROVE  TurnType'
<1>1. log' \in Seq(Events) BY EventTypes DEF CloseTurn, TurnType
<1> QED BY <1>1 DEF CloseTurn, TurnType, Turns, NoTurn

\* So does opening one.
LEMMA OpenTurnType ==
    ASSUME TurnType, state' \in SessionStates,
           NEW trigger \in {"send", "resume"},
           NEW commands \in SUBSET ({Foreign} \cup Sends),
           OpenTurn(trigger, commands)
    PROVE  TurnType'
<1>1. turnSeq + 1 \in 1..MaxTurns /\ turnSeq' = turnSeq + 1 BY BoundsAssumption DEF TurnType, OpenTurn
<1>2. log' \in Seq(Events) BY <1>1, BoundsAssumption DEF TurnType, OpenTurn, Event, Events
<1>3. openTurn' \in Turns /\ openTurn'.turn = turnSeq' BY <1>1 DEF OpenTurn, Turns
<1> QED BY <1>1, <1>2, <1>3, BoundsAssumption DEF TurnType, OpenTurn

\* Rejecting everything keeps every type.
LEMMA RejectAllType ==
    ASSUME TypeOK, RejectAllPending, state' \in SessionStates,
           closing' \in {"no", "scan", "grace", "done"},
           drain' \in {"none", "settling", "turns", "expired", "done"}, exited' \in BOOLEAN,
           UNCHANGED <<drained, latchVars, callbacks>>
    PROVE  TypeOK'
<1>1. TurnType' BY CloseTurnType DEF RejectAllPending, TypeOK
<1>2. SendType' BY SettledType DEF RejectAllPending, TypeOK, SendType
<1>3. ResultType' BY DEF RejectAllPending, TypeOK, ResultType
<1>4. ControlType' BY DEF RejectAllPending, TypeOK, ControlType, latchVars
<1> QED BY <1>1, <1>2, <1>3, <1>4 DEF TypeOK

\* So does close(), whatever its phase.
LEMMA DoCloseType ==
    ASSUME TypeOK, DoClose,
           drain' \in {"none", "settling", "turns", "expired", "done"},
           UNCHANGED <<drained, latchVars, callbacks, exited>>
    PROVE  TypeOK'
<1>1. CASE closing = "no" /\ state # "closed"
  BY <1>1, RejectAllType DEF DoClose, CloseTransport, SessionStates, TypeOK, ControlType
<1>2. CASE ~(closing = "no" /\ state # "closed")
  BY <1>2, TurnTypeKept, SendTypeKept, ResultTypeKept DEF DoClose, TypeOK, ControlType, taskVars, latchVars
<1> QED BY <1>1, <1>2

\* Every variable keeps its type in every behaviour.
THEOREM TypeCorrect == Spec => []TypeOK
<1>1. Init => TypeOK
  <2> SUFFICES ASSUME Init PROVE TypeOK OBVIOUS
  <2>1. TurnType BY BoundsAssumption DEF Init, TurnType, NoTurn, Turns, SessionStates
  <2>2. SendType BY BoundsAssumption DEF Init, SendType
  <2>3. ResultType BY BoundsAssumption DEF Init, ResultType
  <2>4. ControlType BY DEF Init, ControlType, Idle
  <2> QED BY <2>1, <2>2, <2>3, <2>4 DEF TypeOK
<1>2. TypeOK /\ [Next]_vars => TypeOK'
  <2> SUFFICES ASSUME TypeOK, [Next]_vars PROVE TypeOK' OBVIOUS
  <2>1. CASE Send
    <3>1. ResultType' /\ ControlType'
      BY <2>1, ResultTypeKept, ControlTypeKept
         DEF Send, TypeOK, resultVars, latchVars, taskVars, controlVars, closeVars
    <3>2. TurnType' BY <2>1 DEF Send, TypeOK, TurnType, turnVars, SessionStates
    <3>3. SendType' BY <2>1, BoundsAssumption DEF Send, TypeOK, SendType, Sends
    <3> QED BY <3>1, <3>2, <3>3 DEF TypeOK
  <2>2. ASSUME NEW u \in Sends, SettleEarly(u) PROVE TypeOK'
    <3>1. TurnType' /\ ResultType' /\ ControlType'
      BY <2>2, TurnTypeKept, ResultTypeKept, ControlTypeKept
         DEF SettleEarly, TypeOK, turnVars, resultVars, latchVars, taskVars, controlVars, closeVars
    <3>2. SendType' BY <2>2 DEF SettleEarly, TypeOK, SendType, sendVars
    <3> QED BY <3>1, <3>2 DEF TypeOK
  <2>3. CASE EventsHandled
    <3>1. TurnType' /\ SendType' /\ ControlType'
      BY <2>3, TurnTypeKept, SendTypeKept, ControlTypeKept
         DEF EventsHandled, TypeOK, turnVars, sendVars, latchVars, taskVars, controlVars, closeVars
    <3>2. ResultType' BY <2>3 DEF EventsHandled, TypeOK, ResultType, resultVars
    <3> QED BY <3>1, <3>2 DEF TypeOK
  <2>4. CASE TurnSettled
    <3>1. ControlType'
      BY <2>4, ControlTypeKept
         DEF TurnSettled, TypeOK, latchVars, taskVars, controlVars, closeVars
    <3>2. TurnType' BY <2>4 DEF TurnSettled, StateAfterResult, SessionStates, TypeOK, TurnType, turnVars
    <3>3. SendType'
      <4>1. resumed + 1 \in 1..Len(results) => resumed + 1 \in 0..MaxResults
        BY BoundsAssumption DEF TypeOK, ResultType
      <4>2. resumed + 1 \in 1..Len(results) BY <2>4 DEF TurnSettled, TypeOK, ResultType
      <4>3. outcome' \in [Sends -> {"unsent", "pending", "result", "retired", "early",
                                  "rejected"}]
        BY <2>4, SettledType DEF TurnSettled, TypeOK, SendType
      <4> QED BY <2>4, <4>1, <4>2, <4>3 DEF TurnSettled, TypeOK, SendType
    <3>4. ResultType'
      <4>1. resumed' \in 0..Len(results) /\ UNCHANGED <<results, drained>>
        BY <2>4 DEF TurnSettled, TypeOK, ResultType
      <4>2. settling' \subseteq settling BY <2>4 DEF TurnSettled
      <4> QED BY <4>1, <4>2 DEF TypeOK, ResultType
    <3> QED BY <3>1, <3>2, <3>3, <3>4 DEF TypeOK
  <2>5. CASE ResultLine
    <3>1. TurnType' BY <2>5, EventTypes DEF ResultLine, ResultThenClose, TypeOK, TurnType, Turns, NoTurn
    <3>2. SendType' BY <2>5 DEF ResultLine, TypeOK, SendType, sendVars
    <3>3. ResultType'
      <4>1. openTurn.turn \in 0..MaxTurns /\ openTurn.commands \in SUBSET ({Foreign} \cup Sends)
        BY BoundsAssumption DEF TypeOK, TurnType, Turns, NoTurn
      <4>2. Claim(openTurn) \in SUBSET Sends BY SentAreSends DEF Claim, TypeOK, SendType
      <4>3. Len(log \o ResultThenClose) \in Nat BY EventTypes DEF ResultThenClose, TypeOK, TurnType
      <4>4. /\ results' \in Seq([turn : 0..MaxTurns, commands : SUBSET ({Foreign} \cup Sends),
                                sends : SUBSET Sends, upTo : Nat])
            /\ Len(results') = Len(results) + 1
        BY <2>5, <4>1, <4>2, <4>3 DEF ResultLine, TypeOK, ResultType
      <4>5. Len(results') <= MaxResults BY <2>5, <4>4, BoundsAssumption DEF ResultLine, TypeOK, ResultType
      <4>6. Len(results) \in Nat /\ 0..Len(results) \subseteq 0..Len(results') BY <4>4 DEF TypeOK, ResultType
      <4>7. settling' \subseteq 1..Len(results')
        <5>1. settling \subseteq 1..Len(results) BY DEF TypeOK, ResultType
        <5>2. settling' = settling \cup {Len(results) + 1} BY <2>5 DEF ResultLine
        <5>3. Len(results') = Len(results) + 1 BY <4>4
        <5>4. ASSUME NEW L \in Nat PROVE 1..L \subseteq 1..(L + 1) /\ L + 1 \in 1..(L + 1) OBVIOUS
        <5>5. settling \cup {Len(results) + 1} \subseteq 1..(Len(results) + 1) BY <5>1, <5>4, <4>6
        <5> QED BY <5>2, <5>3, <5>5
      <4>8. UNCHANGED <<resumed, drained>> BY <2>5 DEF ResultLine
      <4> QED BY <4>4, <4>5, <4>6, <4>7, <4>8 DEF TypeOK, ResultType
    <3>4. ControlType' BY <2>5 DEF ResultLine, TypeOK, ControlType, latchVars, taskVars, controlVars, closeVars
    <3> QED BY <3>1, <3>2, <3>3, <3>4 DEF TypeOK
  <2>6. ASSUME NEW type \in ContentTypes, NEW nested \in BOOLEAN,
               ContentLine(type, nested)
        PROVE  TypeOK'
    <3>1. ResultType' /\ ControlType'
      BY <2>6, ResultTypeKept, ControlTypeKept
         DEF ContentLine, TypeOK, resultVars, latchVars, taskVars, controlVars, closeVars
    <3>2. TurnType'
      BY <2>6, SentAreSends, OpenTurnType DEF StateAfterContent, SessionStates, TypeOK, TurnType, ContentLine,
         Woken, Guess, SendType, turnVars
    <3>3. SendType' BY <2>6 DEF ContentLine, TypeOK, SendType, sendVars
    <3> QED BY <3>1, <3>2, <3>3 DEF TypeOK
  <2>7. CASE InitLine
    <3>1. ResultType' /\ ControlType'
      BY <2>7, ResultTypeKept, ControlTypeKept
         DEF InitLine, TypeOK, resultVars, latchVars, taskVars, controlVars, closeVars
    <3>2. TurnType'
      BY <2>7, SentAreSends, OpenTurnType DEF InitLine, Woken, SessionStates, TypeOK, TurnType, Guess, SendType
    <3>3. SendType' BY <2>7 DEF InitLine, TypeOK, SendType, sendVars
    <3> QED BY <3>1, <3>2, <3>3 DEF TypeOK
  <2>8. ASSUME NEW u \in {Foreign} \cup 1..sent, NEW status \in TerminalStates,
               RetireLine(u, status)
        PROVE  TypeOK'
    <3>1. ResultType'
      BY <2>8, ResultTypeKept
         DEF RetireLine, TypeOK, resultVars
    <3>2. TurnType' BY <2>8, CloseTurnType DEF RetireLine, SessionStates, TypeOK, TurnType, turnVars
    <3>3. SendType' BY <2>8, SettledType DEF RetireLine, TypeOK, SendType
    <3>4. ControlType' BY <2>8 DEF RetireLine, TypeOK, ControlType, latchVars, taskVars, controlVars, closeVars
    <3> QED BY <3>1, <3>2, <3>3, <3>4 DEF TypeOK
  <2>9. ASSUME NEW u \in {Foreign} \cup 1..sent, NEW status \in {"queued", "started"},
               JoinLine(u, status)
        PROVE  TypeOK'
    <3>1. ResultType'
      BY <2>9, ResultTypeKept
         DEF JoinLine, TypeOK, resultVars
    <3>2. TurnType'
      <4>1. openTurn \in [turn : 1..MaxTurns, trigger : {"send", "resume"},
                          commands : SUBSET ({Foreign} \cup Sends)]
        BY <2>9 DEF JoinLine, TurnOpen, TypeOK, TurnType, Turns
      <4>2. u \in {Foreign} \cup Sends BY BoundsAssumption DEF TypeOK, SendType, Sends
      <4>3. openTurn' \in Turns /\ openTurn'.turn = openTurn.turn BY <2>9, <4>1, <4>2 DEF JoinLine, Turns
      <4> QED BY <2>9, <4>3 DEF JoinLine, TypeOK, TurnType
    <3>3. SendType' BY <2>9 DEF JoinLine, TypeOK, SendType, sendVars
    <3>4. ControlType' BY <2>9 DEF JoinLine, TypeOK, ControlType, latchVars, taskVars, controlVars, closeVars
    <3> QED BY <3>1, <3>2, <3>3, <3>4 DEF TypeOK
  <2>10. ASSUME NEW u \in {Foreign} \cup 1..sent, NEW status \in {"queued", "started"},
               StartLine(u, status)
        PROVE  TypeOK'
    <3>1. ResultType'
      BY <2>10, ResultTypeKept
         DEF StartLine, TypeOK, resultVars
    <3>2. TurnType'
      BY <2>10, BoundsAssumption, OpenTurnType DEF StartLine, Woken, SessionStates, TypeOK, TurnType, SendType,
         Sends, turnVars
    <3>3. SendType' BY <2>10 DEF StartLine, TypeOK, SendType, sendVars
    <3>4. ControlType' BY <2>10 DEF StartLine, TypeOK, ControlType, latchVars, taskVars, controlVars, closeVars
    <3> QED BY <3>1, <3>2, <3>3, <3>4 DEF TypeOK
  <2>11. CASE Drain
    <3>1. TurnType' /\ SendType' /\ ResultType'
      BY <2>11, TurnTypeKept, SendTypeKept, ResultTypeKept
         DEF Drain, TypeOK, turnVars, sendVars, resultVars
    <3>2. ControlType' BY <2>11 DEF Drain, TypeOK, ControlType, latchVars, taskVars, controlVars, closeVars
    <3> QED BY <3>1, <3>2 DEF TypeOK
  <2>12. CASE DrainSettled
    <3>1. TurnType' /\ SendType' /\ ResultType'
      BY <2>12, TurnTypeKept, SendTypeKept, ResultTypeKept
         DEF DrainSettled, TypeOK, turnVars, sendVars, resultVars
    <3>2. ControlType'
      BY <2>12 DEF DrainSettled, TypeOK, ControlType, latchVars, taskVars, controlVars, closeVars
    <3> QED BY <3>1, <3>2 DEF TypeOK
  <2>13. CASE DrainDeadline
    <3>1. TurnType' /\ SendType' /\ ResultType'
      BY <2>13, TurnTypeKept, SendTypeKept, ResultTypeKept
         DEF DrainDeadline, TypeOK, turnVars, sendVars, resultVars
    <3>2. ControlType'
      BY <2>13 DEF DrainDeadline, TypeOK, ControlType, latchVars, taskVars, controlVars, closeVars
    <3> QED BY <3>1, <3>2 DEF TypeOK
  <2>14. CASE DrainClose BY <2>14, DoCloseType DEF DrainClose, TypeOK, ControlType
  <2>15. CASE Close BY <2>15, DoCloseType DEF Close, TypeOK, ControlType
  <2>16. CASE CloseSignal
    <3>1. TurnType' /\ SendType' /\ ResultType'
      BY <2>16, TurnTypeKept, SendTypeKept, ResultTypeKept
         DEF CloseSignal, TypeOK, turnVars, sendVars, resultVars
    <3>2. ControlType'
      BY <2>16 DEF CloseSignal, TypeOK, ControlType, latchVars, taskVars, controlVars, closeVars
    <3> QED BY <3>1, <3>2 DEF TypeOK
  <2>17. CASE GraceKill
    <3>1. TurnType' /\ SendType' /\ ResultType'
      BY <2>17, TurnTypeKept, SendTypeKept, ResultTypeKept
         DEF GraceKill, TypeOK, turnVars, sendVars, resultVars
    <3>2. ControlType' BY <2>17 DEF GraceKill, TypeOK, ControlType, latchVars, taskVars, controlVars, closeVars
    <3> QED BY <3>1, <3>2 DEF TypeOK
  <2>18. CASE ProcessExit
    <3>1. CASE state # "closed"
      BY <2>18, <3>1, RejectAllType DEF ProcessExit, SessionStates, TypeOK, ControlType
    <3>2. CASE state = "closed"
      BY <2>18, <3>2, TurnTypeKept, SendTypeKept, ResultTypeKept DEF ProcessExit, TypeOK, ControlType,
         taskVars, latchVars
    <3> QED BY <3>1, <3>2
  <2>19. ASSUME NEW t \in Tasks, NEW phase \in {"started", "update"}, NEW status \in {"none", "running", "completed", "failed", "stopped"},
               TaskLine(t, phase, status)
        PROVE  TypeOK'
    <3>1. SendType' /\ ResultType'
      BY <2>19, SendTypeKept, ResultTypeKept
         DEF TaskLine, TypeOK, sendVars, resultVars
    <3>2. TurnType' BY <2>19 DEF TaskLine, TypeOK, TurnType, turnVars
    <3>3. ControlType' BY <2>19 DEF TaskLine, TypeOK, ControlType, latchVars, taskVars, controlVars, closeVars
    <3> QED BY <3>1, <3>2, <3>3 DEF TypeOK
  <2>20. ASSUME NEW r \in Requests, NEW kind \in {"can_use_tool", "elicitation", "hook_callback"}, NEW nested \in BOOLEAN,
               RequestLine(r, kind, nested)
        PROVE  TypeOK'
    <3>1. SendType' /\ ResultType'
      BY <2>20, SendTypeKept, ResultTypeKept
         DEF RequestLine, TypeOK, sendVars, resultVars
    <3>2. TurnType' BY <2>20 DEF RequestLine, SessionStates, TypeOK, TurnType, turnVars
    <3>3. ControlType'
      BY <2>20 DEF RequestLine, TypeOK, ControlType, latchVars, taskVars, controlVars, closeVars
    <3> QED BY <3>1, <3>2, <3>3 DEF TypeOK
  <2>21. ASSUME NEW r \in Requests, CancelRequestLine(r) PROVE TypeOK'
    <3>1. TurnType' /\ SendType' /\ ResultType'
      BY <2>21, TurnTypeKept, SendTypeKept, ResultTypeKept
         DEF CancelRequestLine, TypeOK, turnVars, sendVars, resultVars
    <3>2. ControlType'
      BY <2>21 DEF CancelRequestLine, TypeOK, ControlType, latchVars, taskVars, controlVars, closeVars
    <3> QED BY <3>1, <3>2 DEF TypeOK
  <2>22. ASSUME NEW r \in Requests, CallbackReturns(r) PROVE TypeOK'
    <3>1. SendType' /\ ResultType'
      BY <2>22, SendTypeKept, ResultTypeKept
         DEF CallbackReturns, TypeOK, sendVars, resultVars
    <3>2. TurnType' BY <2>22 DEF CallbackReturns, SessionStates, TypeOK, TurnType, turnVars
    <3>3. ControlType'
      BY <2>22 DEF CallbackReturns, TypeOK, ControlType, latchVars, taskVars, controlVars, closeVars
    <3> QED BY <3>1, <3>2, <3>3 DEF TypeOK
  <2>23. ASSUME NEW c \in Controls, NEW how \in {"waiting", "timed"},
               SendControl(c, how)
        PROVE  TypeOK'
    <3>1. TurnType' /\ SendType' /\ ResultType'
      BY <2>23, TurnTypeKept, SendTypeKept, ResultTypeKept
         DEF SendControl, TypeOK, turnVars, sendVars, resultVars
    <3>2. ControlType'
      BY <2>23 DEF SendControl, TypeOK, ControlType, latchVars, taskVars, controlVars, closeVars
    <3> QED BY <3>1, <3>2 DEF TypeOK
  <2>24. ASSUME NEW c \in Controls, NEW ok \in BOOLEAN, ResponseLine(c, ok) PROVE TypeOK'
    <3>1. TurnType' /\ SendType' /\ ResultType'
      BY <2>24, TurnTypeKept, SendTypeKept, ResultTypeKept
         DEF ResponseLine, TypeOK, turnVars, sendVars, resultVars
    <3>2. ControlType'
      BY <2>24 DEF ResponseLine, TypeOK, ControlType, latchVars, taskVars, controlVars, closeVars
    <3> QED BY <3>1, <3>2 DEF TypeOK
  <2>25. ASSUME NEW c \in Controls, ControlTimeout(c) PROVE TypeOK'
    <3>1. TurnType' /\ SendType' /\ ResultType'
      BY <2>25, TurnTypeKept, SendTypeKept, ResultTypeKept
         DEF ControlTimeout, TypeOK, turnVars, sendVars, resultVars
    <3>2. ControlType'
      BY <2>25 DEF ControlTimeout, TypeOK, ControlType, latchVars, taskVars, controlVars, closeVars
    <3> QED BY <3>1, <3>2 DEF TypeOK
  <2>26. CASE UNCHANGED vars
    BY <2>26, TurnTypeKept, SendTypeKept, ResultTypeKept, ControlTypeKept DEF TypeOK, vars
  <2> QED
    BY <2>1, <2>2, <2>3, <2>4, <2>5, <2>6, <2>7, <2>8, <2>9, <2>10, <2>11, <2>12, <2>13, <2>14, <2>15, <2>16, <2>17, <2>18, <2>19, <2>20, <2>21, <2>22, <2>23, <2>24, <2>25, <2>26
       DEF Next, TurnStep, CloseStep, TaskStep, RequestStep, ControlStep
<1> QED BY <1>1, <1>2, PTL DEF Spec

-----------------------------------------------------------------------------
(* The sends.  Six kinds of step move them; whatever else the session does *)
(* leaves them, and cannot close it.                                       *)

sendAndResultVars == <<sent, pending, outcome, resultOf, results, resumed, settling>>

\* A step that moves no send: it neither closes the session nor arms a control
\* request on a closed one.
Aside ==
    /\ UNCHANGED sendAndResultVars
    /\ state' = "closed" =>
          /\ state = "closed"
          /\ \A c \in Controls : controls'[c] \in {"waiting", "timed"} =>
                                  controls[c] \in {"waiting", "timed"}

\* A step that closes the session.
Closing == RejectAllPending /\ state' = "closed"

\* close() closes the session or does nothing.
LEMMA DoCloseKinds ==
    ASSUME DoClose
    PROVE  Closing \/ Aside
<1>1. CASE closing = "no" /\ state # "closed" BY <1>1 DEF DoClose, CloseTransport, Closing
<1>2. CASE ~(closing = "no" /\ state # "closed")
  BY <1>2 DEF DoClose, Aside, sendAndResultVars, sendVars, resultVars
<1> QED BY <1>1, <1>2

\* Every step is of one of these kinds.
LEMMA StepKinds ==
    ASSUME TypeOK, [Next]_vars
    PROVE  \/ Send \/ TurnSettled \/ ResultLine \/ Closing \/ Aside
           \/ \E u \in Sends : SettleEarly(u)
           \/ \E u \in {Foreign} \cup 1..sent, status \in TerminalStates : RetireLine(u, status)
<1> USE DEF Aside, sendAndResultVars, sendVars, resultVars
<1>1. CASE TurnStep
  <2>1. CASE EventsHandled BY <2>1 DEF EventsHandled, controlVars
  <2>2. ASSUME NEW type \in ContentTypes, NEW nested \in BOOLEAN, ContentLine(type, nested)
        PROVE  Aside
    BY <2>2 DEF ContentLine, StateAfterContent, Listening, Woken
  <2>3. CASE InitLine BY <2>3 DEF InitLine, Woken, Listening
  <2>4. ASSUME NEW u, NEW status, JoinLine(u, status) \/ StartLine(u, status)
        PROVE  Aside
    BY <2>4 DEF JoinLine, StartLine, Woken, Listening
  <2> QED BY <1>1, <2>1, <2>2, <2>3, <2>4 DEF TurnStep
<1>2. CASE CloseStep
  <2>1. CASE Drain \/ DrainSettled \/ DrainDeadline \/ CloseSignal \/ GraceKill
    BY <2>1 DEF Drain, DrainSettled, DrainDeadline, CloseSignal, GraceKill, controlVars
  <2>2. CASE DrainClose \/ Close BY <2>2, DoCloseKinds DEF DrainClose, Close
  <2>3. CASE ProcessExit BY <2>3 DEF ProcessExit, Closing
  <2> QED BY <1>2, <2>1, <2>2, <2>3 DEF CloseStep
<1>3. CASE TaskStep BY <1>3 DEF TaskStep, TaskLine, controlVars
<1>4. CASE RequestStep BY <1>4 DEF RequestStep, RequestLine, CancelRequestLine, CallbackReturns
<1>5. CASE ControlStep BY <1>5 DEF ControlStep, SendControl, ResponseLine, ControlTimeout, TypeOK, ControlType
<1>6. CASE UNCHANGED vars BY <1>6 DEF vars, controlVars
<1> QED BY <1>1, <1>2, <1>3, <1>4, <1>5, <1>6 DEF Next

-----------------------------------------------------------------------------
(* No caller is stranded.  Neither half is inductive alone: a close settles *)
(* every send because every pending one is in a list or in a captured batch, *)
(* and a handler may give up on a closed session because none is pending.  *)

\* Closing reaches every pending send and every control request.
LEMMA ClosingSettles ==
    ASSUME TypeOK, NobodyStranded, Closing
    PROVE  NobodyStranded'
<1>1. \A u \in Sends : outcome'[u] # "pending"
  <2> SUFFICES ASSUME NEW u \in Sends, outcome'[u] = "pending" PROVE FALSE OBVIOUS
  <2>1. outcome[u] = "pending" BY DEF Closing, RejectAllPending, Settled
  <2>2. u \in pending \cup Captured BY <2>1 DEF NobodyStranded, NoOrphan, Captured
  <2> QED BY <2>1, <2>2 DEF Closing, RejectAllPending, Settled
<1>2. \A c \in Controls : controls'[c] \notin {"waiting", "timed"} BY DEF Closing, RejectAllPending
<1> QED BY <1>1, <1>2 DEF NobodyStranded, NoOrphan, ClosedSettlesAll

\* Settling some sends strands nobody as long as those taken off the list are
\* among them.
LEMMA SettlingStrandsNobody ==
    ASSUME NobodyStranded, NEW S, NEW how \in {"retired", "early"},
           outcome' = Settled(S, how), pending \ S \subseteq pending',
           UNCHANGED <<results, resumed, settling, controls>>,
           state' = "closed" => state = "closed"
    PROVE  NobodyStranded'
<1>1. \A u \in Sends : outcome'[u] = "pending" => outcome[u] = "pending" /\ u \notin S BY DEF Settled
<1> QED BY <1>1 DEF NobodyStranded, NoOrphan, ClosedSettlesAll

\* Every pending send is in reach of the handler that will settle it, and a closed
\* session has none.
THEOREM NobodyIsStranded == Spec => []NobodyStranded
<1>1. Init => NobodyStranded BY DEF Init, NobodyStranded, NoOrphan, ClosedSettlesAll
<1>2. TypeOK /\ NobodyStranded /\ [Next]_vars => NobodyStranded'
  <2> SUFFICES ASSUME TypeOK, NobodyStranded, [Next]_vars PROVE NobodyStranded' OBVIOUS
  <2>1. CASE Send
    <3>1. ASSUME NEW u \in Sends, outcome'[u] = "pending"
          PROVE  u = sent + 1 \/ outcome[u] = "pending"
      BY <2>1, <3>1 DEF Send, TypeOK, SendType
    <3>2. state' # "closed" BY <2>1 DEF Send
    <3> QED BY <2>1, <3>1, <3>2 DEF Send, NobodyStranded, NoOrphan, ClosedSettlesAll, resultVars
  <2>2. CASE TurnSettled
    <3>1. CASE Abandoned
      BY <2>2, <3>1 DEF TurnSettled, Abandoned, NobodyStranded, NoOrphan, ClosedSettlesAll, controlVars
    <3>2. CASE ~Abandoned
      <4>1. state' # "closed" BY <2>2, <3>2 DEF TurnSettled, Abandoned, StateAfterResult
      <4>2. \A u \in Sends : outcome'[u] = "pending" =>
               outcome[u] = "pending" /\ u \notin results[resumed + 1].sends
        BY <2>2, <3>2 DEF TurnSettled, Settled
      <4>3. \A k \in settling : k > resumed /\ k # resumed + 1 => k > resumed'
        BY <2>2 DEF TurnSettled, TypeOK, ResultType
      <4>4. UNCHANGED <<pending, results>> /\ settling' = settling \ {resumed + 1} BY <2>2, <3>2 DEF TurnSettled
      <4>5. NoOrphan' BY <4>2, <4>3, <4>4 DEF NobodyStranded, NoOrphan
      <4> QED BY <4>1, <4>5 DEF NobodyStranded, ClosedSettlesAll
    <3> QED BY <3>1, <3>2
  <2>3. CASE ResultLine
    BY <2>3 DEF ResultLine, controlVars, TypeOK, ResultType, NobodyStranded, NoOrphan, ClosedSettlesAll
  <2>4. CASE Closing BY <2>4, ClosingSettles
  <2>5. CASE Aside BY <2>5 DEF Aside, sendAndResultVars, NobodyStranded, NoOrphan, ClosedSettlesAll
  <2>6. ASSUME NEW u \in Sends, SettleEarly(u) PROVE NobodyStranded'
    BY <2>6, SettlingStrandsNobody DEF SettleEarly, Settled, TypeOK, SendType, resultVars, controlVars
  <2>7. ASSUME NEW u \in {Foreign} \cup 1..sent, NEW status \in TerminalStates,
               RetireLine(u, status)
        PROVE  NobodyStranded'
    BY <2>7, SettlingStrandsNobody DEF RetireLine, resultVars, controlVars
  <2> QED BY <2>1, <2>2, <2>3, <2>4, <2>5, <2>6, <2>7, StepKinds
<1> QED BY <1>1, <1>2, TypeCorrect, PTL DEF Spec

-----------------------------------------------------------------------------
(* A result goes to the messages of its turn.                              *)

\* A captured batch holds only messages of the turn the result ended.
BatchOwned ==
    \A k \in DOMAIN results : results[k].turn # 0 => results[k].sends \subseteq results[k].commands

Owned == OwnResult /\ BatchOwned

\* A step that resolves no send and reads no result keeps both.
LEMMA OwnedKept ==
    ASSUME Owned, UNCHANGED <<results, resultOf>>,
           \A u \in Sends : outcome'[u] = "result" => outcome[u] = "result"
    PROVE  Owned'
BY DEF Owned, OwnResult, BatchOwned

\* A send resolved with the result of a turn was a message of that turn.
THEOREM ResultsReachTheirOwners == Spec => []OwnResult
<1>1. Init => Owned BY DEF Init, Owned, OwnResult, BatchOwned
<1>2. TypeOK /\ Owned /\ [Next]_vars => Owned'
  <2> SUFFICES ASSUME TypeOK, Owned, [Next]_vars PROVE Owned' OBVIOUS
  <2>1. CASE Send BY <2>1, OwnedKept DEF Send, resultVars, TypeOK, SendType
  <2>2. CASE TurnSettled
    <3>1. UNCHANGED results /\ resumed + 1 \in DOMAIN results BY <2>2 DEF TurnSettled
    <3>2. CASE Abandoned BY <2>2, <3>1, <3>2, OwnedKept DEF TurnSettled
    <3>3. CASE ~Abandoned
      <4>1. ASSUME NEW u \in Sends, outcome'[u] = "result", outcome[u] # "result"
            PROVE  resultOf'[u] = resumed + 1 /\ u \in results[resumed + 1].sends
        BY <2>2, <3>3, <4>1 DEF TurnSettled, Settled
      <4>2. ASSUME NEW u \in Sends, outcome'[u] = outcome[u]
            PROVE  resultOf'[u] = resultOf[u]
        BY <2>2, <3>3, <4>2 DEF TurnSettled
      <4> QED BY <3>1, <4>1, <4>2 DEF Owned, OwnResult, BatchOwned
    <3> QED BY <3>2, <3>3
  <2>3. CASE ResultLine
    <3>1. UNCHANGED <<outcome, resultOf>> BY <2>3 DEF ResultLine
    <3>2. /\ DOMAIN results' = DOMAIN results \cup {Len(results) + 1}
          /\ \A k \in DOMAIN results : results'[k] = results[k]
      BY <2>3 DEF ResultLine, TypeOK, ResultType
    <3>3. LET r == results'[Len(results) + 1]
          IN  r.turn = openTurn.turn /\ r.sends = Claim(openTurn) /\ r.commands = openTurn.commands
      BY <2>3 DEF ResultLine, TypeOK, ResultType
    <3>4. openTurn.turn # 0 => Claim(openTurn) \subseteq openTurn.commands BY DEF Claim, NoTurn
    <3> QED BY <3>1, <3>2, <3>3, <3>4 DEF Owned, OwnResult, BatchOwned
  <2>4. CASE Closing BY <2>4, OwnedKept DEF Closing, RejectAllPending, Settled
  <2>5. CASE Aside BY <2>5, OwnedKept DEF Aside, sendAndResultVars
  <2>6. ASSUME NEW u \in Sends, SettleEarly(u) PROVE Owned'
    BY <2>6, OwnedKept DEF SettleEarly, resultVars, TypeOK, SendType
  <2>7. ASSUME NEW u \in {Foreign} \cup 1..sent, NEW status \in TerminalStates,
               RetireLine(u, status)
        PROVE  Owned'
    BY <2>7, OwnedKept DEF RetireLine, resultVars, Settled
  <2> QED BY <2>1, <2>2, <2>3, <2>4, <2>5, <2>6, <2>7, StepKinds
<1> QED BY <1>1, <1>2, TypeCorrect, PTL DEF Spec, Owned

-----------------------------------------------------------------------------
(* A promise settles once.                                                 *)

\* A message not sent yet has no outcome.
UnsentAbove == \A u \in Sends : u > sent => outcome[u] = "unsent"

\* Settling leaves what has settled, and what was never sent.
LEMMA SettledKeeps ==
    ASSUME NEW S, NEW how, NEW u \in Sends, outcome[u] # "pending",
           outcome' = Settled(S, how)
    PROVE  outcome'[u] = outcome[u]
BY DEF Settled

\* Once settled, an outcome and the result that brought it never change.
THEOREM SettlesOnce == Spec => OutcomeFinal
<1>1. Init => UnsentAbove BY DEF Init, UnsentAbove
<1>2. ASSUME TypeOK, UnsentAbove, [Next]_vars
      PROVE  /\ UnsentAbove'
             /\ \A u \in Sends : outcome[u] \notin {"unsent", "pending"} =>
                   outcome'[u] = outcome[u] /\ resultOf'[u] = resultOf[u]
  <2>1. CASE Send BY <1>2, <2>1 DEF Send, UnsentAbove, TypeOK, SendType, Sends
  <2>2. CASE TurnSettled
    <3>1. UNCHANGED sent BY <2>2 DEF TurnSettled
    <3>2. CASE Abandoned BY <1>2, <2>2, <3>1, <3>2 DEF TurnSettled, UnsentAbove
    <3>3. CASE ~Abandoned BY <2>2, <3>3, SettledKeeps, <1>2, <3>1 DEF TurnSettled, UnsentAbove
    <3> QED BY <3>2, <3>3
  <2>3. CASE ResultLine BY <1>2, <2>3 DEF ResultLine, UnsentAbove
  <2>4. CASE Closing BY <2>4, SettledKeeps, <1>2 DEF Closing, RejectAllPending, UnsentAbove
  <2>5. CASE Aside BY <1>2, <2>5 DEF Aside, sendAndResultVars, UnsentAbove
  <2>6. ASSUME NEW u \in Sends, SettleEarly(u)
        PROVE  \A v \in Sends : outcome[v] # "pending" => outcome'[v] = outcome[v]
    BY <1>2, <2>6 DEF SettleEarly, TypeOK, SendType
  <2>7. ASSUME NEW u \in {Foreign} \cup 1..sent, NEW status \in TerminalStates,
               RetireLine(u, status)
        PROVE  \A v \in Sends : outcome[v] # "pending" => outcome'[v] = outcome[v]
    BY <2>7, SettledKeeps DEF RetireLine
  <2>8. CASE \E u \in Sends : SettleEarly(u) BY <1>2, <2>6, <2>8 DEF SettleEarly, UnsentAbove
  <2>9. CASE \E u \in {Foreign} \cup 1..sent, status \in TerminalStates : RetireLine(u, status)
    BY <1>2, <2>7, <2>9 DEF RetireLine, UnsentAbove
  <2> QED BY <1>2, <2>1, <2>2, <2>3, <2>4, <2>5, <2>8, <2>9, StepKinds
<1>3. TypeOK /\ UnsentAbove /\ [Next]_vars => UnsentAbove' BY <1>2
<1>4. TypeOK /\ UnsentAbove /\ [Next]_vars =>
        [\A u \in Sends : outcome[u] \notin {"unsent", "pending"} =>
            outcome'[u] = outcome[u] /\ resultOf'[u] = resultOf[u]]_vars
  BY <1>2
<1> QED BY <1>1, <1>3, <1>4, TypeCorrect, PTL DEF Spec, OutcomeFinal

-----------------------------------------------------------------------------
(* The turns and their events.  Five kinds of step move them.              *)

\* A turn opens while none is open, on a session that listens.
Opening ==
    /\ ~TurnOpen /\ state # "closed" /\ state' \notin {"idle", "closed"}
    /\ \E trigger, commands : OpenTurn(trigger, commands)

\* The open turn ends without a result, or the session closes with none open.
Ending == CloseTurn /\ (state = "closed" => ~TurnOpen /\ state' = "closed")

\* A message joins the open turn.
Joining ==
    /\ TurnOpen /\ openTurn' # NoTurn /\ openTurn'.turn = openTurn.turn
    /\ UNCHANGED <<state, turnSeq, log>>

\* The turn is left alone, and so is the state unless to a working one.
Resting ==
    /\ UNCHANGED <<openTurn, turnSeq, log>>
    /\ TurnOpen /\ state \notin {"idle", "closed"} => state' \notin {"idle", "closed"}

\* close() ends the turn or rests.
LEMMA DoCloseTurns ==
    ASSUME DoClose
    PROVE  Ending \/ Resting
BY DEF DoClose, CloseTransport, RejectAllPending, Ending, Resting, turnVars

\* Every step is of one of these kinds.
LEMMA TurnKinds ==
    ASSUME TypeOK, [Next]_vars
    PROVE  Opening \/ Ending \/ Joining \/ Resting \/ ResultLine
<1> USE DEF turnVars
<1>1. CASE TurnStep
  <2>1. CASE Send \/ EventsHandled \/ TurnSettled
    BY <2>1 DEF Send, EventsHandled, TurnSettled, StateAfterResult, Resting
  <2>2. ASSUME NEW u \in Sends, SettleEarly(u) PROVE Resting BY <2>2 DEF SettleEarly, Resting
  <2>3. ASSUME NEW type \in ContentTypes, NEW nested \in BOOLEAN, ContentLine(type, nested)
        PROVE  Opening \/ Resting
    BY <2>3 DEF ContentLine, StateAfterContent, Listening, Woken, Opening, Resting
  <2>4. CASE InitLine BY <2>4 DEF InitLine, Woken, Opening, Listening
  <2>5. ASSUME NEW u, NEW status, RetireLine(u, status) PROVE Ending \/ Resting
    BY <2>5 DEF RetireLine, Ending, Resting, Listening
  <2>6. ASSUME NEW u, NEW status, JoinLine(u, status) PROVE Joining \/ Resting
    <3>1. CASE u \in outstanding BY <2>6, <3>1 DEF JoinLine, TurnOpen, TypeOK, TurnType, Turns, Joining, NoTurn
    <3>2. CASE u \notin outstanding BY <2>6, <3>2 DEF JoinLine, Resting
    <3> QED BY <3>1, <3>2
  <2>7. ASSUME NEW u, NEW status, StartLine(u, status) PROVE Opening \/ Resting
    BY <2>7 DEF StartLine, Woken, Opening, Resting, Listening
  <2> QED BY <1>1, <2>1, <2>2, <2>3, <2>4, <2>5, <2>6, <2>7 DEF TurnStep
<1>2. CASE CloseStep
  <2>1. CASE Drain \/ DrainSettled \/ DrainDeadline \/ CloseSignal \/ GraceKill
    BY <2>1 DEF Drain, DrainSettled, DrainDeadline, CloseSignal, GraceKill, Resting
  <2>2. CASE DrainClose \/ Close BY <2>2, DoCloseTurns DEF DrainClose, Close
  <2>3. CASE ProcessExit BY <2>3 DEF ProcessExit, RejectAllPending, Ending, Resting
  <2> QED BY <1>2, <2>1, <2>2, <2>3 DEF CloseStep
<1>3. CASE TaskStep BY <1>3 DEF TaskStep, TaskLine, Resting
<1>4. CASE RequestStep BY <1>4 DEF RequestStep, RequestLine, CancelRequestLine, CallbackReturns, Resting
<1>5. CASE ControlStep BY <1>5 DEF ControlStep, SendControl, ResponseLine, ControlTimeout, Resting
<1>6. CASE UNCHANGED vars BY <1>6 DEF vars, Resting
<1> QED BY <1>1, <1>2, <1>3, <1>4, <1>5, <1>6 DEF Next

\* The state the host reads agrees with the turn events.
THEOREM NeverIdleDuringATurn == Spec => []NotIdleWhileTurnOpen
<1>1. Init => NotIdleWhileTurnOpen BY DEF Init, NotIdleWhileTurnOpen, TurnOpen
<1>2. TypeOK /\ NotIdleWhileTurnOpen /\ [Next]_vars => NotIdleWhileTurnOpen'
  <2> SUFFICES ASSUME TypeOK, NotIdleWhileTurnOpen, [Next]_vars
               PROVE  NotIdleWhileTurnOpen'
    OBVIOUS
  <2> QED BY TurnKinds DEF NotIdleWhileTurnOpen, TurnOpen, Opening, Ending, Joining, Resting,
                           CloseTurn, ResultLine
<1> QED BY <1>1, <1>2, TypeCorrect, PTL DEF Spec

\* A closed session dispatches no turn event.
THEOREM ClosedSessionIsSilent == Spec => ClosedIsSilent
<1>1. TypeOK /\ NotIdleWhileTurnOpen /\ [Next]_vars => [state = "closed" => log' = log]_vars
  <2> SUFFICES ASSUME TypeOK, NotIdleWhileTurnOpen, [Next]_vars, state = "closed"
               PROVE  log' = log
    OBVIOUS
  <2>1. ~TurnOpen /\ CloseEvents = << >> BY DEF NotIdleWhileTurnOpen, CloseEvents
  <2>2. log \o << >> = log BY DEF TypeOK, TurnType
  <2>3. CASE ResultLine BY <2>1, <2>2, <2>3 DEF ResultEvent, Listening, ResultLine, ResultThenClose
  <2> QED BY <2>1, <2>2, <2>3, TurnKinds DEF Opening, Ending, Joining, Resting, CloseTurn
<1> QED BY <1>1, TypeCorrect, NeverIdleDuringATurn, PTL DEF Spec, ClosedIsSilent

-----------------------------------------------------------------------------
(* The ledger of turns, over sequences of events.                          *)

Before == Event("turn_end", 0)
LastOf(l) == IF l = << >> THEN Before ELSE l[Len(l)]

Chained(l) ==
    /\ l # << >> => Follows(Before, l[1])
    /\ \A i \in 1..(Len(l) - 1) : Follows(l[i], l[i + 1])

\* A chained sequence stays chained when an event that may follow its last is added.
LEMMA ChainGrows ==
    ASSUME NEW l \in Seq(Events), Chained(l), NEW e \in Events, Follows(LastOf(l), e)
    PROVE  /\ l \o <<e>> \in Seq(Events)
           /\ Chained(l \o <<e>>)
           /\ LastOf(l \o <<e>>) = e
<1> DEFINE m == l \o <<e>>
<1>1. /\ m \in Seq(Events) /\ Len(l) \in Nat /\ Len(m) = Len(l) + 1
      /\ m[Len(l) + 1] = e /\ \A i \in 1..Len(l) : m[i] = l[i]
  OBVIOUS
<1>2. m # << >> /\ LastOf(m) = e BY <1>1 DEF LastOf
<1>3. CASE l = << >> BY <1>1, <1>3, <1>2 DEF Chained, LastOf
<1>4. CASE l # << >>
  <2>1. Len(l) > 0 /\ m[1] = l[1] BY <1>1, <1>4
  <2>2. ASSUME NEW i \in 1..(Len(m) - 1) PROVE Follows(m[i], m[i + 1])
    <3>1. CASE i = Len(l) BY <1>1, <1>4, <3>1, <2>1 DEF LastOf
    <3>2. CASE i # Len(l) BY <1>1, <3>2 DEF Chained
    <3> QED BY <3>1, <3>2
  <2> QED BY <1>1, <1>2, <1>4, <2>1, <2>2 DEF Chained
<1> QED BY <1>1, <1>2, <1>3, <1>4

\* The ledger says that `log` is chained and ends as openTurn says.
LEMMA LedgerIsChain ==
    TurnLedger <=>
        /\ Chained(log)
        /\ IF TurnOpen THEN LastOf(log) = Event("turn_start", openTurn.turn)
                       ELSE LastOf(log).type \in {"turn_end", "stray_result"}
        /\ LastOf(log).turn = turnSeq
BY DEF TurnLedger, Chained, LastOf, LastEvent, Before

\* The same of the next state.
LEMMA NextLedgerIsChain ==
    TurnLedger' <=>
        /\ Chained(log')
        /\ IF openTurn' # NoTurn THEN LastOf(log') = Event("turn_start", openTurn'.turn)
                                 ELSE LastOf(log').type \in {"turn_end", "stray_result"}
        /\ LastOf(log').turn = turnSeq'
BY DEF TurnLedger, Chained, LastOf, LastEvent, Before, TurnOpen

\* The last event is an event, and names the current turn number when none is open.
LEMMA LastIsEvent ==
    ASSUME TypeOK
    PROVE  LastOf(log) \in Events
<1>1. Before \in Events BY BoundsAssumption DEF Before, Event, Events
<1> QED BY <1>1 DEF LastOf, TypeOK, TurnType

\* Events pair up by turn: start, then at most one result, then end.
THEOREM TurnsAreWellFormed == Spec => []TurnLedger
<1>1. Init => TurnLedger
  <2> SUFFICES ASSUME Init PROVE TurnLedger OBVIOUS
  <2>1. log = << >> /\ Len(log) = 0 /\ ~TurnOpen /\ turnSeq = 0 BY DEF Init, TurnOpen
  <2>2. LastOf(log) = Before /\ Before.type = "turn_end" /\ Before.turn = 0 BY <2>1 DEF LastOf, Before, Event
  <2> QED BY <2>1, <2>2, LedgerIsChain DEF Chained
<1>2. TypeOK /\ TypeOK' /\ TurnLedger /\ NotIdleWhileTurnOpen /\ [Next]_vars => TurnLedger'
  <2> SUFFICES ASSUME TypeOK, TypeOK', TurnLedger, NotIdleWhileTurnOpen, [Next]_vars
               PROVE  TurnLedger'
    OBVIOUS
  <2>1. /\ Chained(log)
        /\ TurnOpen => LastOf(log) = Event("turn_start", openTurn.turn)
        /\ ~TurnOpen => LastOf(log).type \in {"turn_end", "stray_result"}
        /\ LastOf(log).turn = turnSeq
    BY LedgerIsChain
  <2>2. log \in Seq(Events) /\ turnSeq \in 0..MaxTurns /\ LastOf(log) \in Events
    BY LastIsEvent DEF TypeOK, TurnType
  <2>3. TurnOpen => openTurn.turn = turnSeq BY <2>1 DEF Event
  <2>4. CASE Opening
    <3>1. /\ turnSeq' = turnSeq + 1 /\ openTurn' # NoTurn /\ openTurn'.turn = turnSeq + 1
          /\ log' = log \o <<Event("turn_start", turnSeq + 1)>>
      BY <2>2, <2>4 DEF Opening, OpenTurn, NoTurn
    <3>2. Event("turn_start", turnSeq + 1) \in Events
      BY <2>2, <2>4, BoundsAssumption DEF Opening, OpenTurn, Event, Events
    <3>3. Follows(LastOf(log), Event("turn_start", turnSeq + 1)) BY <2>1, <2>4 DEF Opening, Follows
    <3>4. Chained(log') /\ LastOf(log') = Event("turn_start", turnSeq + 1)
      BY <2>1, <2>2, <3>1, <3>2, <3>3, ChainGrows
    <3> QED BY <3>1, <3>4, NextLedgerIsChain DEF Event
  <2>5. CASE Ending
    <3>1. openTurn' = NoTurn /\ turnSeq' = turnSeq /\ log' = log \o CloseEvents BY <2>5 DEF Ending, CloseTurn
    <3>2. CASE ~TurnOpen BY <2>2, <3>1, <3>2, <2>1, NextLedgerIsChain DEF CloseEvents
    <3>3. CASE TurnOpen
      <4>1. log' = log \o <<Event("turn_end", turnSeq)>> /\ Event("turn_end", turnSeq) \in Events
        BY <2>2, <2>3, <3>1, <3>3 DEF CloseEvents, Event, Events
      <4>2. Follows(LastOf(log), Event("turn_end", turnSeq)) BY <2>1, <2>3, <3>3 DEF Follows, Event
      <4>3. Chained(log') /\ LastOf(log') = Event("turn_end", turnSeq) BY <2>1, <2>2, <4>1, <4>2, ChainGrows
      <4> QED BY <3>1, <4>3, NextLedgerIsChain DEF Event
    <3> QED BY <3>2, <3>3
  <2>6. CASE Joining BY <2>1, <2>6, NextLedgerIsChain DEF Joining
  <2>7. CASE Resting BY <2>1, <2>7, NextLedgerIsChain DEF Resting, TurnOpen
  <2>8. CASE ResultLine
    <3>1. openTurn' = NoTurn /\ turnSeq' = turnSeq /\ log' = log \o (ResultEvent \o CloseEvents)
      BY <2>8 DEF ResultLine, ResultThenClose
    <3>2. CASE TurnOpen
      <4> DEFINE e == Event("result", turnSeq)
                 f == Event("turn_end", turnSeq)
      <4>1. ResultEvent = <<e>> /\ CloseEvents = <<f>>
        BY <2>3, <3>2 DEF ResultEvent, CloseEvents, NotIdleWhileTurnOpen, Listening
      <4>2. e \in Events /\ f \in Events BY <2>2 DEF Event, Events
      <4>3. log' = (log \o <<e>>) \o <<f>> BY <2>2, <3>1, <4>1, <4>2
      <4>4. Follows(LastOf(log), e) BY <2>1, <2>3, <3>2 DEF Follows, Event
      <4>5. log \o <<e>> \in Seq(Events) /\ Chained(log \o <<e>>) /\ LastOf(log \o <<e>>) = e
        BY <2>1, <2>2, <4>2, <4>4, ChainGrows
      <4>6. Follows(e, f) BY DEF Follows, Event
      <4>7. Chained(log') /\ LastOf(log') = f BY <4>2, <4>3, <4>5, <4>6, ChainGrows
      <4> QED BY <3>1, <4>7, NextLedgerIsChain DEF Event
    <3>3. CASE ~TurnOpen /\ Listening
      <4> DEFINE e == Event("stray_result", turnSeq)
      <4>1. log' = log \o <<e>> /\ e \in Events BY <2>2, <3>1, <3>3 DEF ResultEvent, CloseEvents, Event, Events
      <4>2. Follows(LastOf(log), e) BY <2>1, <3>3 DEF Follows, Event
      <4>3. Chained(log') /\ LastOf(log') = e BY <2>1, <2>2, <4>1, <4>2, ChainGrows
      <4> QED BY <3>1, <4>3, NextLedgerIsChain DEF Event
    <3>4. CASE ~TurnOpen /\ ~Listening BY <2>2, <3>1, <3>4, <2>1, NextLedgerIsChain DEF ResultEvent, CloseEvents
    <3> QED BY <3>2, <3>3, <3>4
  <2> QED BY <2>4, <2>5, <2>6, <2>7, <2>8, TurnKinds
<1> QED BY <1>1, <1>2, TypeCorrect, NeverIdleDuringATurn, PTL DEF Spec

-----------------------------------------------------------------------------
(* The host's handlers run before the caller resumes.                      *)

\* The event chain only advances.
LEMMA ChainAdvances ==
    ASSUME TypeOK, [Next]_vars
    PROVE  drained' \in Nat /\ drained <= drained'
<1>1. drained \in Nat BY DEF TypeOK, ResultType
<1>2. CASE EventsHandled BY <1>1, <1>2 DEF EventsHandled
<1>6. CASE TurnStep /\ ~EventsHandled
  <2>1. Send \/ TurnSettled \/ ResultLine \/ InitLine => UNCHANGED drained
    <3>1. Send => UNCHANGED drained BY DEF Send
    <3>2. TurnSettled => UNCHANGED drained BY DEF TurnSettled
    <3>3. ResultLine => UNCHANGED drained BY DEF ResultLine
    <3>4. InitLine => UNCHANGED drained BY DEF InitLine
    <3> QED BY <3>1, <3>2, <3>3, <3>4
  <2>2. ASSUME NEW u, NEW status, RetireLine(u, status) \/ JoinLine(u, status) \/ StartLine(u, status)
        PROVE  UNCHANGED drained
    BY <2>2 DEF RetireLine, JoinLine, StartLine
  <2>5. ASSUME NEW u, SettleEarly(u) PROVE UNCHANGED drained BY <2>5 DEF SettleEarly
  <2>3. ASSUME NEW type, NEW nested, ContentLine(type, nested) PROVE UNCHANGED drained
    BY <2>3 DEF ContentLine, resultVars
  <2>4. UNCHANGED drained BY <1>6, <2>1, <2>2, <2>3, <2>5 DEF TurnStep
  <2> QED BY <1>1, <2>4
<1>3. CASE CloseStep
  BY <1>1, <1>3 DEF CloseStep, Drain, DrainSettled, DrainDeadline, DrainClose, Close, CloseSignal,
                    GraceKill, ProcessExit, resultVars
<1>4. CASE TaskStep \/ RequestStep \/ ControlStep
  BY <1>1, <1>4 DEF TaskStep, TaskLine, RequestStep, RequestLine, CancelRequestLine,
                    CallbackReturns, ControlStep, SendControl, ResponseLine, ControlTimeout
<1>5. CASE UNCHANGED vars BY <1>1, <1>5 DEF vars
<1> QED BY <1>2, <1>3, <1>4, <1>5, <1>6 DEF Next

\* The log only grows.
LEMMA LogGrows ==
    ASSUME TypeOK, TypeOK', [Next]_vars
    PROVE  /\ Len(log) \in Nat /\ Len(log') \in Nat /\ Len(log) <= Len(log')
           /\ \A i \in 1..Len(log) : log'[i] = log[i]
<1>1. log \in Seq(Events) /\ log' \in Seq(Events) BY DEF TypeOK, TurnType
<1>2. ASSUME NEW s \in Seq(Events), log' = log \o s
      PROVE  Len(log) <= Len(log') /\ \A i \in 1..Len(log) : log'[i] = log[i]
  BY <1>1, <1>2
<1>3. CASE log' = log BY <1>1, <1>3
<1>4. CASE Opening
  <2>1. PICK turn \in 0..MaxTurns : log' = log \o <<Event("turn_start", turn)>>
    <3>1. turnSeq + 1 \in 0..MaxTurns /\ log' = log \o <<Event("turn_start", turnSeq + 1)>>
      BY <1>1, <1>4, BoundsAssumption DEF Opening, OpenTurn, TypeOK, TurnType
    <3> QED BY <3>1
  <2>2. <<Event("turn_start", turn)>> \in Seq(Events) BY DEF Event, Events
  <2> QED BY <1>1, <1>2, <2>1, <2>2
<1>5. CASE Ending \/ ResultLine
  BY <1>1, <1>2, <1>5, EventTypes DEF Ending, CloseTurn, ResultLine, ResultThenClose, TypeOK
<1> QED BY <1>1, <1>3, <1>4, <1>5, TurnKinds DEF Joining, Resting

\* A result line marks the place in the log where the end of its turn was written,
\* and later lines mark later places.
Marked ==
    \A k \in DOMAIN results :
        /\ results[k].upTo \in 0..Len(log)
        /\ results[k].turn # 0 =>
              results[k].upTo >= 1 /\ log[results[k].upTo] = Event("turn_end", results[k].turn)

Rising ==
    \A j, k \in DOMAIN results : j <= k => results[j].upTo <= results[k].upTo

\* A send is resolved with a result the chain has passed.
ResolvedDrained ==
    \A u \in Sends : outcome[u] = "result" => resultOf[u] \in 1..drained

\* The three together are the property.
LEMMA MarksImplyHandled ==
    ASSUME TypeOK, Marked, Rising, ResolvedDrained
    PROVE  HandlersSettledFirst
<1> SUFFICES ASSUME NEW u \in Sends, outcome[u] = "result", results[resultOf[u]].turn # 0
             PROVE  /\ drained # 0
                    /\ \E i \in 1..results[drained].upTo :
                          log[i] = Event("turn_end", results[resultOf[u]].turn)
  BY DEF HandlersSettledFirst
<1>1. resultOf[u] \in 1..drained /\ drained \in 1..Len(results)
      /\ resultOf[u] \in 1..Len(results) /\ DOMAIN results = 1..Len(results)
  BY DEF ResolvedDrained, TypeOK, ResultType
<1> DEFINE i == results[resultOf[u]].upTo
<1>2. i \in Nat /\ i >= 1 /\ log[i] = Event("turn_end", results[resultOf[u]].turn) BY <1>1 DEF Marked
<1>3. i <= results[drained].upTo /\ results[drained].upTo \in Nat BY <1>1 DEF Rising, Marked
<1>4. i \in 1..results[drained].upTo BY <1>2, <1>3
<1> QED BY <1>1, <1>2, <1>4

\* Growing the log and reading result lines keeps the marks.
LEMMA MarksKept ==
    ASSUME TypeOK, TypeOK', Marked, Rising, [Next]_vars
    PROVE  Marked' /\ Rising'
<1>1. CASE UNCHANGED results BY <1>1, LogGrows DEF Rising, Marked
<1>2. CASE ResultLine
  <2> DEFINE n == Len(results) + 1
  <2>1. /\ DOMAIN results = 1..Len(results) /\ DOMAIN results' = 1..n /\ Len(results) \in Nat
        /\ \A k \in DOMAIN results : results'[k] = results[k]
    BY <1>2 DEF ResultLine, TypeOK, ResultType
  <2>2. results'[n].upTo = Len(log') /\ results'[n].turn = openTurn.turn
    BY <1>2 DEF ResultLine, TypeOK, ResultType
  <2>3. openTurn.turn # 0 => Len(log') >= 1 /\ log'[Len(log')] = Event("turn_end", openTurn.turn)
    <3> SUFFICES ASSUME openTurn.turn # 0
                 PROVE  Len(log') >= 1 /\ log'[Len(log')] = Event("turn_end", openTurn.turn)
      OBVIOUS
    <3> DEFINE e == Event("turn_end", openTurn.turn)
    <3>1. CloseEvents = <<e>> /\ CloseEvents \in Seq(Events)
          /\ ResultEvent \in Seq(Events) /\ log \in Seq(Events)
      BY EventTypes DEF CloseEvents, TurnOpen, NoTurn, TypeOK, TurnType
    <3>2. log' = (log \o ResultEvent) \o <<e>> /\ log \o ResultEvent \in Seq(Events)
      BY <1>2, <3>1 DEF ResultLine, ResultThenClose
    <3> QED BY <3>1, <3>2
  <2>4. Marked'
    <3>1. ASSUME NEW k \in 1..Len(results)
          PROVE  /\ results'[k].upTo \in 0..Len(log')
                 /\ results'[k].turn # 0 => /\ results'[k].upTo >= 1
                                           /\ log'[results'[k].upTo] = Event("turn_end", results'[k].turn)
      BY <2>1, <3>1, LogGrows DEF Marked
    <3>2. results'[n].upTo \in 0..Len(log') BY <2>2, LogGrows
    <3> QED BY <2>1, <2>2, <2>3, <3>1, <3>2 DEF Marked
  <2>5. Rising'
    <3>1. \A k \in 1..Len(results) : results[k].upTo \in Nat /\ results[k].upTo <= Len(log')
      BY <2>1, LogGrows DEF Marked
    <3>2. ASSUME NEW j \in 1..n, NEW k \in 1..n, j <= k
          PROVE  results'[j].upTo <= results'[k].upTo
      <4>1. CASE k = n BY <2>1, <2>2, <3>1, <3>2, <4>1, LogGrows
      <4>2. CASE k # n BY <2>1, <3>2, <4>2 DEF Rising
      <4> QED BY <4>1, <4>2
    <3> QED BY <2>1, <3>2 DEF Rising
  <2> QED BY <2>4, <2>5
<1> QED BY <1>1, <1>2, StepKinds
     DEF Send, TurnSettled, Closing, RejectAllPending, Aside, sendAndResultVars, SettleEarly,
         RetireLine, resultVars

\* A step that resolves no send keeps the third.
LEMMA ResolvedKept ==
    ASSUME TypeOK, [Next]_vars, ResolvedDrained, UNCHANGED resultOf,
           \A u \in Sends : outcome'[u] = "result" => outcome[u] = "result"
    PROVE  ResolvedDrained'
<1>1. drained \in Nat /\ drained' \in Nat /\ drained <= drained' BY ChainAdvances DEF TypeOK, ResultType
<1> QED BY <1>1 DEF ResolvedDrained

\* A caller's send never resolves ahead of its onEvent handler.
THEOREM HandlersRunFirst == Spec => []HandlersSettledFirst
<1>1. Init => Marked /\ Rising /\ ResolvedDrained BY DEF Init, Marked, Rising, ResolvedDrained
<1>2. TypeOK /\ TypeOK' /\ Marked /\ Rising /\ ResolvedDrained /\ [Next]_vars
        => (Marked /\ Rising /\ ResolvedDrained)'
  <2> SUFFICES ASSUME TypeOK, TypeOK', Marked, Rising, ResolvedDrained, [Next]_vars
               PROVE  ResolvedDrained'
    BY MarksKept
  <2>1. CASE TurnSettled
    <3>1. CASE Abandoned BY <2>1, <3>1, ResolvedKept DEF TurnSettled
    <3>2. CASE ~Abandoned
      <4>1. ASSUME NEW u \in Sends, outcome'[u] = "result", outcome[u] # "result"
            PROVE  resultOf'[u] = resumed + 1
        BY <2>1, <3>2, <4>1 DEF TurnSettled
      <4>2. ASSUME NEW u \in Sends, outcome'[u] = outcome[u]
            PROVE  resultOf'[u] = resultOf[u]
        BY <2>1, <3>2, <4>2 DEF TurnSettled
      <4>3. resumed + 1 \in 1..drained /\ drained' = drained
        BY <2>1 DEF TurnSettled, ChainDrained, TypeOK, ResultType
      <4> QED BY <4>1, <4>2, <4>3 DEF ResolvedDrained
    <3> QED BY <3>1, <3>2
  <2>2. CASE Send \/ ResultLine BY <2>2, ResolvedKept DEF Send, ResultLine, TypeOK, SendType
  <2>3. CASE Closing BY <2>3, ResolvedKept DEF Closing, RejectAllPending, Settled
  <2>4. CASE Aside BY <2>4, ResolvedKept DEF Aside, sendAndResultVars
  <2>5. ASSUME NEW u \in Sends, SettleEarly(u) PROVE ResolvedDrained'
    BY <2>5, ResolvedKept DEF SettleEarly, TypeOK, SendType
  <2>6. ASSUME NEW u, NEW status, RetireLine(u, status) PROVE ResolvedDrained'
    BY <2>6, ResolvedKept DEF RetireLine, Settled
  <2> QED BY <2>1, <2>2, <2>3, <2>4, <2>5, <2>6, StepKinds
<1>3. TypeOK /\ Marked /\ Rising /\ ResolvedDrained => HandlersSettledFirst BY MarksImplyHandled
<1> QED BY <1>1, <1>2, <1>3, TypeCorrect, PTL DEF Spec

-----------------------------------------------------------------------------

\* No step answers a request that the CLI has withdrawn.
THEOREM WithdrawnStaysUnanswered == Spec => WithdrawnNeverAnswered
<1>1. TypeOK /\ [Next]_vars =>
        [\A r \in Requests : callbacks[r].status \in {"withdrawn", "dropped"} =>
            callbacks'[r].status \in {"withdrawn", "dropped"}]_vars
  <2> SUFFICES ASSUME TypeOK, [Next]_vars,
                      NEW r \in Requests, callbacks[r].status \in {"withdrawn", "dropped"}
               PROVE  callbacks'[r].status \in {"withdrawn", "dropped"}
    OBVIOUS
  <2>1. CASE TurnStep
    BY <2>1 DEF TurnStep, Send, SettleEarly, EventsHandled, TurnSettled, ResultLine, ContentLine,
                InitLine, RetireLine, JoinLine, StartLine, controlVars
  <2>2. CASE CloseStep
    BY <2>2 DEF CloseStep, Drain, DrainSettled, DrainDeadline, DrainClose, Close, CloseSignal,
                GraceKill, ProcessExit, controlVars
  <2>3. CASE TaskStep \/ ControlStep
    BY <2>3 DEF TaskStep, TaskLine, ControlStep, SendControl, ResponseLine, ControlTimeout,
                controlVars
  <2>4. CASE RequestStep
    BY <2>4 DEF RequestStep, RequestLine, CancelRequestLine, CallbackReturns, StillWanted, Idle,
                TypeOK, ControlType
  <2>5. CASE UNCHANGED vars BY <2>5 DEF vars, controlVars
  <2> QED BY <2>1, <2>2, <2>3, <2>4, <2>5 DEF Next
<1> QED BY <1>1, TypeCorrect, PTL DEF Spec, WithdrawnNeverAnswered

-----------------------------------------------------------------------------
(* What the runs check together.                                           *)

\* The events, the open turn and the state always agree.
THEOREM TurnsAlwaysAgree == Spec => []TurnsAgree
BY TurnsAreWellFormed, NeverIdleDuringATurn, PTL DEF TurnsAgree

\* A settled promise, a closed session and a withdrawn request stay as they are.
THEOREM WhatIsOverStaysOver == Spec => OverIsOver
BY SettlesOnce, ClosedSessionIsSilent, WithdrawnStaysUnanswered DEF OverIsOver

-----------------------------------------------------------------------------
(* The composition: the session of ClaudeSystem is a ClaudeSession.        *)

Lifecycle == {"queued", "started"} \cup TerminalStates

\* What the two pipes carry when n messages were sent.
OutLines(n) ==
    [type : Lifecycle, id : 1..n, ok : BOOLEAN]
    \cup [type : {"init", "result", "assistant"}, id : {0}, ok : BOOLEAN]
    \cup [type : {"task_started", "task_completed", "task_stopped"}, id : Tasks, ok : BOOLEAN]
    \cup [type : {"request", "cancel_request"}, id : Requests, ok : BOOLEAN]
    \cup [type : {"response"}, id : Controls, ok : BOOLEAN]

InLines(n) ==
    [type : {"user"}, id : 1..n, ok : BOOLEAN]
    \cup [type : {"interrupt"}, id : {0}, ok : BOOLEAN]
    \cup [type : {"cancel"}, id : Controls \X (1..n), ok : BOOLEAN]
    \cup [type : {"stop_task"}, id : Controls \X Tasks, ok : BOOLEAN]
    \cup [type : {"answer"}, id : Requests, ok : BOOLEAN]

CliTurns(n) == [running : BOOLEAN, commands : SUBSET (1..n), spoke : BOOLEAN]

PipeType ==
    /\ sent \in Nat
    /\ toCli \in Seq(InLines(sent))
    /\ toHost \in Seq(OutLines(sent))
    /\ queue \in Seq(0..sent)
    /\ cliTurn \in CliTurns(sent)
    /\ ~cliTurn.running => cliTurn.commands = {}
    /\ asking \in Requests \cup {NoRequest}
    /\ live \subseteq Tasks
    /\ ran \in Seq(SUBSET (1..sent))

\* Each completed line names one of the turn's messages.
LEMMA CompletedLines ==
    ASSUME NEW n \in Nat, NEW commands \in SUBSET (1..n)
    PROVE  /\ Completed(commands) \in Seq(OutLines(n))
           /\ \A i \in DOMAIN Completed(commands) : Completed(commands)[i].type = "completed"
<1> DEFINE c == Cardinality(commands)
           Lists(s) == \A u \in commands : \E i \in DOMAIN s : s[i] = u
<1>a. IsFiniteSet(1..n) BY FS_Interval
<1>b. IsFiniteSet(commands) BY <1>a, FS_Subset
<1>1. c \in Nat /\ ExistsBijection(1..c, commands) BY <1>b, FS_CardinalityType
<1>2. \E s \in [1..c -> commands] : Lists(s) BY <1>1 DEF ExistsBijection, Bijection, Injection, Surjection
<1> DEFINE order == CHOOSE s \in [1..c -> commands] : Lists(s)
<1>3. order \in [1..c -> commands] BY <1>2
<1>4. Completed(commands) = [i \in 1..c |-> Line("completed", order[i], TRUE)] BY DEF Completed
<1> HIDE DEF order, c
<1>5. \A i \in 1..c : Line("completed", order[i], TRUE) \in OutLines(n)
  BY <1>3 DEF Line, OutLines, Lifecycle, TerminalStates
<1> QED BY <1>1, <1>4, <1>5 DEF Line

\* More messages sent leave what is in the pipes as it was.
LEMMA PipeTypeGrows ==
    ASSUME PipeType, NEW n \in Nat, sent \in Nat, sent <= n
    PROVE  /\ toCli \in Seq(InLines(n))
           /\ toHost \in Seq(OutLines(n))
           /\ queue \in Seq(0..n)
           /\ cliTurn \in CliTurns(n)
           /\ ran \in Seq(SUBSET (1..n))
<1>1. 1..sent \subseteq 1..n /\ 0..sent \subseteq 0..n OBVIOUS
<1>2. InLines(sent) \subseteq InLines(n) /\ OutLines(sent) \subseteq OutLines(n) BY <1>1 DEF InLines, OutLines
<1>3. SUBSET (1..sent) \subseteq SUBSET (1..n) BY <1>1
<1>4. toCli \in Seq(InLines(n)) /\ toHost \in Seq(OutLines(n)) BY <1>2 DEF PipeType
<1>5. queue \in Seq(0..n) /\ ran \in Seq(SUBSET (1..n)) BY <1>1, <1>3 DEF PipeType
<1>6. cliTurn \in CliTurns(n) BY <1>1 DEF PipeType, CliTurns
<1> QED BY <1>4, <1>5, <1>6

-----------------------------------------------------------------------------
(* The turn in which the CLI wrote a line: f numbers the lines of the      *)
(* stdout h by the results before them, n of which the session has read.   *)

\* The messages of the k-th turn: R lists the finished ones, c is the one that runs.
TurnOf(k, R, c) == IF k \in DOMAIN R THEN R[k] ELSE c

Refuses(l, u) == l.type = "refused" /\ l.id = u

Numbers(f, h, n, m) ==
    /\ f \in [DOMAIN h -> 1..(m + 1)]
    /\ h = << >> => m = n
    /\ h # << >> => /\ f[1] = n + 1
                    /\ m = IF h[Len(h)].type = "result" THEN f[Len(h)] ELSE f[Len(h)] - 1
    /\ \A i \in 1..(Len(h) - 1) : f[i + 1] = IF h[i].type = "result" THEN f[i] + 1 ELSE f[i]

\* A message that a line says is started is one of that turn, or is refused next.
StartsHold(f, h, R, c) ==
    \A i \in DOMAIN h : h[i].type = "started" =>
        \/ h[i].id \in TurnOf(f[i], R, c)
        \/ i + 1 \in DOMAIN h /\ Refuses(h[i + 1], h[i].id)

Numbered(h, n, R, c) == \E f : Numbers(f, h, n, Len(R)) /\ StartsHold(f, h, R, c)

\* Lines without a result are written in the turn that runs.
LEMMA LinesNumbered ==
    ASSUME NEW S, NEW h \in Seq(S), NEW L \in Seq(S), NEW n \in Nat,
           NEW T, NEW R \in Seq(T), NEW c, NEW d, c \subseteq d, Numbered(h, n, R, c),
           \A j \in DOMAIN L : L[j].type # "result",
           \A j \in DOMAIN L : L[j].type = "started" =>
               L[j].id \in d \/ (j + 1 \in DOMAIN L /\ Refuses(L[j + 1], L[j].id))
    PROVE  Numbered(h \o L, n, R, d)
<1> DEFINE m == Len(R)
           all == h \o L
<1>1. PICK f : Numbers(f, h, n, m) /\ StartsHold(f, h, R, c) BY DEF Numbered
<1> DEFINE g == [i \in DOMAIN all |-> IF i \in DOMAIN h THEN f[i] ELSE m + 1]
<1>2. /\ m \in Nat /\ all \in Seq(S) /\ Len(all) = Len(h) + Len(L)
      /\ Len(h) \in Nat /\ Len(L) \in Nat
      /\ \A i \in DOMAIN h : all[i] = h[i]
      /\ \A j \in DOMAIN L : all[Len(h) + j] = L[j]
  OBVIOUS
<1> HIDE DEF all
<1>3. \A i \in DOMAIN all : i \notin DOMAIN h => i - Len(h) \in DOMAIN L /\ all[i] = L[i - Len(h)] BY <1>2
<1>4. CASE L = << >> BY <1>4, <1>1 DEF all, TurnOf, StartsHold, Numbered
<1>5. CASE L # << >>
  <2>1. g \in [DOMAIN all -> 1..(m + 1)] BY <1>1, <1>2 DEF Numbers
  <2>a. \A i \in DOMAIN all : i \in DOMAIN h => g[i] = f[i] OBVIOUS
  <2>b. \A i \in DOMAIN all : i \notin DOMAIN h => g[i] = m + 1 OBVIOUS
  <2> HIDE DEF g
  <2>2. g[1] = n + 1
    <3>1. CASE h = << >> BY <3>1, <1>1, <1>2, <1>5, <2>b DEF Numbers
    <3>2. CASE h # << >> BY <3>2, <1>1, <1>2, <2>a DEF Numbers
    <3> QED BY <3>1, <3>2
  <2>3. all[Len(all)].type # "result" /\ g[Len(all)] = m + 1 /\ all # << >> BY <1>2, <1>5, <1>3, <2>b
  <2>4. ASSUME NEW i \in 1..(Len(all) - 1)
        PROVE  g[i + 1] = IF all[i].type = "result" THEN g[i] + 1 ELSE g[i]
    <3>1. CASE i + 1 \in DOMAIN h
      <4>1. i \in 1..(Len(h) - 1) /\ i \in DOMAIN h /\ i \in DOMAIN all /\ i + 1 \in DOMAIN all BY <3>1, <1>2
      <4>2. all[i] = h[i] /\ g[i] = f[i] /\ g[i + 1] = f[i + 1] BY <3>1, <4>1, <1>2, <2>a
      <4> QED BY <4>1, <4>2, <1>1 DEF Numbers
    <3>2. CASE i = Len(h)
      <4>1. h # << >> /\ i \in DOMAIN h /\ all[i] = h[i] /\ g[i] = f[i] /\ g[i + 1] = m + 1
        BY <3>2, <1>2, <2>a, <2>b
      <4>2. m = IF h[i].type = "result" THEN f[i] ELSE f[i] - 1 BY <3>2, <4>1, <1>1 DEF Numbers
      <4>3. f[i] \in 1..(m + 1) BY <4>1, <1>1 DEF Numbers
      <4> QED BY <4>1, <4>2, <4>3, <1>2
    <3>3. CASE i > Len(h)
      <4>1. i \in DOMAIN all /\ i \notin DOMAIN h /\ i + 1 \in DOMAIN all /\ i + 1 \notin DOMAIN h BY <3>3, <1>2
      <4> QED BY <4>1, <1>3, <2>b
    <3> QED BY <3>1, <3>2, <3>3, <1>2
  <2>5. StartsHold(g, all, R, d)
    <3> SUFFICES ASSUME NEW i \in DOMAIN all, all[i].type = "started"
                 PROVE  \/ all[i].id \in TurnOf(g[i], R, d)
                        \/ i + 1 \in DOMAIN all /\ Refuses(all[i + 1], all[i].id)
      BY DEF StartsHold
    <3>1. CASE i \in DOMAIN h
      <4>1. h[i].type = "started" /\ all[i] = h[i] /\ g[i] = f[i] BY <3>1, <1>2, <2>a
      <4>2. \/ h[i].id \in TurnOf(f[i], R, c)
            \/ i + 1 \in DOMAIN h /\ Refuses(h[i + 1], h[i].id)
        BY <3>1, <4>1, <1>1 DEF StartsHold
      <4>3. i + 1 \in DOMAIN h => i + 1 \in DOMAIN all /\ all[i + 1] = h[i + 1] BY <1>2
      <4>4. TurnOf(f[i], R, c) \subseteq TurnOf(f[i], R, d) BY DEF TurnOf
      <4> QED BY <4>1, <4>2, <4>3, <4>4
    <3>2. CASE i \notin DOMAIN h
      <4> DEFINE j == i - Len(h)
      <4>1. j \in DOMAIN L /\ all[i] = L[j] /\ g[i] = m + 1 BY <3>2, <1>3, <2>b
      <4>2. TurnOf(m + 1, R, d) = d BY <1>2 DEF TurnOf
      <4>3. j + 1 \in DOMAIN L => i + 1 \in DOMAIN all /\ all[i + 1] = L[j + 1]
        <5> SUFFICES ASSUME j + 1 \in DOMAIN L
                     PROVE  i + 1 \in DOMAIN all /\ all[i + 1] = L[j + 1]
          OBVIOUS
        <5>1. Len(h) + (j + 1) = i + 1 /\ i + 1 \in 1..(Len(h) + Len(L)) BY <1>2
        <5>2. all[Len(h) + (j + 1)] = L[j + 1] BY <1>2
        <5> QED BY <5>1, <5>2, <1>2
      <4>4. L[j].id \in d \/ (j + 1 \in DOMAIN L /\ Refuses(L[j + 1], L[j].id)) BY <4>1
      <4> QED BY <4>1, <4>2, <4>3, <4>4
    <3> QED BY <3>1, <3>2
  <2>6. Numbers(g, all, n, m) BY <2>1, <2>2, <2>3, <2>4 DEF Numbers
  <2> QED BY <2>5, <2>6 DEF Numbered, all
<1> QED BY <1>4, <1>5

\* A result ends the turn that runs, and the next has no messages yet.
LEMMA ResultNumbered ==
    ASSUME NEW S, NEW h \in Seq(S), NEW l \in S, l.type = "result", NEW n \in Nat,
           NEW T, NEW R \in Seq(T), NEW c \in T, Numbered(h, n, R, c)
    PROVE  Numbered(Append(h, l), n, Append(R, c), {})
<1> DEFINE m == Len(R)
           all == Append(h, l)
           S2 == Append(R, c)
<1>1. PICK f : Numbers(f, h, n, m) /\ StartsHold(f, h, R, c) BY DEF Numbered
<1> DEFINE g == [i \in DOMAIN all |-> IF i \in DOMAIN h THEN f[i] ELSE m + 1]
<1>2. /\ m \in Nat /\ all \in Seq(S) /\ Len(all) = Len(h) + 1
      /\ Len(h) \in Nat /\ Len(S2) = m + 1 /\ S2 # << >>
      /\ DOMAIN all = 1..(Len(h) + 1) /\ DOMAIN h = 1..Len(h)
      /\ \A i \in DOMAIN h : all[i] = h[i]
      /\ all[Len(h) + 1] = l /\ all # << >>
  OBVIOUS
<1>3. \A k \in 1..(m + 1) : TurnOf(k, R, c) = TurnOf(k, S2, {}) BY DEF TurnOf
<1> HIDE DEF all, S2
<1>4. g \in [DOMAIN all -> 1..(m + 2)] BY <1>1, <1>2 DEF Numbers
<1>5. /\ \A i \in DOMAIN h : g[i] = f[i]
      /\ g[Len(h) + 1] = m + 1
  BY <1>2
<1> HIDE DEF g
<1>6. g[1] = n + 1
  <2>1. CASE h = << >> BY <2>1, <1>1, <1>2, <1>5 DEF Numbers
  <2>2. CASE h # << >> BY <2>2, <1>1, <1>2, <1>5 DEF Numbers
  <2> QED BY <2>1, <2>2
<1>7. ASSUME NEW i \in 1..(Len(all) - 1)
      PROVE  g[i + 1] = IF all[i].type = "result" THEN g[i] + 1 ELSE g[i]
  <2>1. CASE i = Len(h)
    <3>1. h # << >> /\ i \in DOMAIN h /\ all[i] = h[i] /\ g[i] = f[i] /\ g[i + 1] = m + 1 BY <2>1, <1>2, <1>5
    <3>2. m = IF h[i].type = "result" THEN f[i] ELSE f[i] - 1 BY <2>1, <3>1, <1>1 DEF Numbers
    <3>3. f[i] \in 1..(m + 1) BY <3>1, <1>1 DEF Numbers
    <3> QED BY <3>1, <3>2, <3>3, <1>2
  <2>2. CASE i # Len(h)
    <3>a. Len(all) - 1 = Len(h) BY <1>2
    <3>b. i \in 1..Len(h) /\ i \in Nat BY <3>a
    <3>e. Len(h) \in Nat BY <1>2
    <3>c. i \in 1..(Len(h) - 1) BY <2>2, <3>b, <3>e
    <3>d. i + 1 \in 1..Len(h) BY <3>c, <1>2
    <3>1. i \in 1..(Len(h) - 1) /\ i \in DOMAIN h /\ i + 1 \in DOMAIN h BY <3>b, <3>c, <3>d, <1>2
    <3>2. all[i] = h[i] /\ g[i] = f[i] /\ g[i + 1] = f[i + 1] BY <3>1, <1>2, <1>5
    <3> QED BY <3>1, <3>2, <1>1 DEF Numbers
  <2> QED BY <2>1, <2>2
<1>8. Numbers(g, all, n, m + 1) BY <1>2, <1>4, <1>5, <1>6, <1>7 DEF Numbers
<1>9. StartsHold(g, all, S2, {})
  <2> SUFFICES ASSUME NEW i \in DOMAIN all, all[i].type = "started"
               PROVE  \/ all[i].id \in TurnOf(g[i], S2, {})
                      \/ i + 1 \in DOMAIN all /\ Refuses(all[i + 1], all[i].id)
    BY DEF StartsHold
  <2>1. i \in DOMAIN h BY <1>2
  <2>2. h[i].type = "started" /\ all[i] = h[i] /\ g[i] = f[i] /\ f[i] \in 1..(m + 1)
    BY <2>1, <1>1, <1>2, <1>5 DEF Numbers
  <2>3. \/ h[i].id \in TurnOf(f[i], R, c)
        \/ i + 1 \in DOMAIN h /\ Refuses(h[i + 1], h[i].id)
    BY <2>1, <2>2, <1>1 DEF StartsHold
  <2>4. i + 1 \in DOMAIN h => i + 1 \in DOMAIN all /\ all[i + 1] = h[i + 1] BY <1>2
  <2> QED BY <2>2, <2>3, <2>4, <1>3
<1> QED BY <1>2, <1>8, <1>9 DEF Numbered, all, S2

\* The session reads a line: those that wait keep their turns.
LEMMA ReadNumbered ==
    ASSUME NEW S, NEW h \in Seq(S), h # << >>, NEW n \in Nat,
           NEW T, NEW R \in Seq(T), NEW c, Numbered(h, n, R, c)
    PROVE  /\ Numbered(Tail(h), IF Head(h).type = "result" THEN n + 1 ELSE n, R, c)
           /\ Head(h).type = "result" => n + 1 \in DOMAIN R
           /\ Head(h).type = "started" =>
                 \/ Head(h).id \in TurnOf(n + 1, R, c)
                 \/ Tail(h) # << >> /\ Refuses(Tail(h)[1], Head(h).id)
<1> DEFINE m == Len(R)
           t == Tail(h)
           next == IF Head(h).type = "result" THEN n + 1 ELSE n
<1>1. PICK f : Numbers(f, h, n, m) /\ StartsHold(f, h, R, c) BY DEF Numbered
<1>2. /\ m \in Nat /\ t \in Seq(S) /\ Len(t) = Len(h) - 1 /\ Len(h) \in Nat \ {0}
      /\ DOMAIN t = 1..(Len(h) - 1) /\ DOMAIN h = 1..Len(h)
      /\ \A i \in DOMAIN t : t[i] = h[i + 1]
      /\ Head(h) = h[1] /\ 1 \in DOMAIN h
      /\ DOMAIN R = 1..m
  OBVIOUS
<1> DEFINE g == [i \in DOMAIN t |-> f[i + 1]]
<1>3. f[1] = n + 1 /\ f[1] \in 1..(m + 1) BY <1>1, <1>2 DEF Numbers
<1>4. g \in [DOMAIN t -> 1..(m + 1)] /\ \A i \in DOMAIN t : g[i] = f[i + 1]
  <2>1. \A i \in DOMAIN t : i + 1 \in DOMAIN h BY <1>2
  <2> HIDE DEF t
  <2>2. \A i \in DOMAIN t : f[i + 1] \in 1..(m + 1) BY <2>1, <1>1 DEF Numbers
  <2> QED BY <2>2
<1> HIDE DEF g, t
<1>5. t # << >> => f[2] = IF h[1].type = "result" THEN n + 2 ELSE n + 1
  <2> SUFFICES ASSUME t # << >> PROVE f[2] = IF h[1].type = "result" THEN n + 2 ELSE n + 1 OBVIOUS
  <2>1. 1 \in 1..(Len(h) - 1) BY <1>2
  <2>2. f[1 + 1] = IF h[1].type = "result" THEN f[1] + 1 ELSE f[1] BY <2>1, <1>1 DEF Numbers
  <2> QED BY <2>2, <1>3
<1>6. Numbers(g, t, next, m)
  <2>1. ASSUME t = << >> PROVE m = next
    <3>1. Len(h) = 1 BY <2>1, <1>2
    <3>2. m = IF h[1].type = "result" THEN f[1] ELSE f[1] - 1 BY <3>1, <1>1, <1>2 DEF Numbers
    <3> QED BY <3>2, <1>2, <1>3
  <2>2. ASSUME t # << >>
        PROVE  /\ g[1] = next + 1
               /\ m = IF t[Len(t)].type = "result" THEN g[Len(t)] ELSE g[Len(t)] - 1
    <3>1. 1 \in DOMAIN t /\ Len(t) \in DOMAIN t BY <2>2, <1>2
    <3>2. g[1] = f[2] /\ g[Len(t)] = f[Len(h)] /\ t[Len(t)] = h[Len(h)] BY <3>1, <1>2, <1>4
    <3>3. m = IF h[Len(h)].type = "result" THEN f[Len(h)] ELSE f[Len(h)] - 1 BY <1>1, <1>2 DEF Numbers
    <3> QED BY <2>2, <3>2, <3>3, <1>5, <1>2
  <2>3. ASSUME NEW i \in 1..(Len(t) - 1)
        PROVE  g[i + 1] = IF t[i].type = "result" THEN g[i] + 1 ELSE g[i]
    <3>1. i \in DOMAIN t /\ i + 1 \in DOMAIN t /\ i + 1 \in 1..(Len(h) - 1) BY <1>2
    <3>2. t[i] = h[i + 1] /\ g[i] = f[i + 1] /\ g[i + 1] = f[(i + 1) + 1] BY <3>1, <1>2, <1>4
    <3> QED BY <3>1, <3>2, <1>1 DEF Numbers
  <2> QED BY <2>1, <2>2, <2>3, <1>4 DEF Numbers
<1>7. StartsHold(g, t, R, c)
  <2> SUFFICES ASSUME NEW i \in DOMAIN t, t[i].type = "started"
               PROVE  \/ t[i].id \in TurnOf(g[i], R, c)
                      \/ i + 1 \in DOMAIN t /\ Refuses(t[i + 1], t[i].id)
    BY DEF StartsHold
  <2>1. i + 1 \in DOMAIN h /\ t[i] = h[i + 1] /\ g[i] = f[i + 1] BY <1>2, <1>4
  <2>2. \/ h[i + 1].id \in TurnOf(f[i + 1], R, c)
        \/ (i + 1) + 1 \in DOMAIN h /\ Refuses(h[(i + 1) + 1], h[i + 1].id)
    BY <2>1, <1>1 DEF StartsHold
  <2>3. (i + 1) + 1 \in DOMAIN h => i + 1 \in DOMAIN t /\ t[i + 1] = h[(i + 1) + 1] BY <1>2
  <2> QED BY <2>1, <2>2, <2>3
<1>8. Numbered(t, next, R, c) BY <1>6, <1>7 DEF Numbered
<1>9. Head(h).type = "result" => n + 1 \in DOMAIN R
  <2> SUFFICES ASSUME Head(h).type = "result" PROVE n + 1 \in 1..m BY <1>2
  <2>1. CASE t = << >>
    <3>1. Len(h) = 1 BY <2>1, <1>2
    <3>2. m = f[1] BY <3>1, <1>1, <1>2 DEF Numbers
    <3> QED BY <3>2, <1>3
  <2>2. CASE t # << >>
    <3>1. 2 \in DOMAIN h BY <2>2, <1>2
    <3>2. f[2] \in 1..(m + 1) BY <3>1, <1>1 DEF Numbers
    <3> QED BY <2>2, <3>2, <1>5, <1>2
  <2> QED BY <2>1, <2>2
<1>10. Head(h).type = "started" =>
         \/ Head(h).id \in TurnOf(n + 1, R, c)
         \/ t # << >> /\ Refuses(t[1], Head(h).id)
  <2> SUFFICES ASSUME Head(h).type = "started"
               PROVE  \/ Head(h).id \in TurnOf(n + 1, R, c)
                      \/ t # << >> /\ Refuses(t[1], Head(h).id)
    OBVIOUS
  <2>1. \/ h[1].id \in TurnOf(f[1], R, c)
        \/ 1 + 1 \in DOMAIN h /\ Refuses(h[1 + 1], h[1].id)
    BY <1>1, <1>2 DEF StartsHold
  <2>2. 1 + 1 \in DOMAIN h => t # << >> /\ t[1] = h[1 + 1] BY <1>2
  <2> QED BY <2>1, <2>2, <1>2, <1>3
<1> QED BY <1>8, <1>9, <1>10 DEF t

-----------------------------------------------------------------------------
(* The steps of the composition.                                           *)

\* One line.
LEMMA OneLine ==
    ASSUME NEW S, NEW x \in S
    PROVE  <<x>> \in Seq(S)
OBVIOUS

\* Two sequences joined.
LEMMA Joined ==
    ASSUME NEW S, NEW a \in Seq(S), NEW b \in Seq(S)
    PROVE  a \o b \in Seq(S)
OBVIOUS

\* A sequence without one of its elements.
LEMMA WithoutOne ==
    ASSUME NEW S, NEW a \in Seq(S), NEW i \in DOMAIN a
    PROVE  SubSeq(a, 1, i - 1) \o SubSeq(a, i + 1, Len(a)) \in Seq(S)
<1>1. SubSeq(a, 1, i - 1) \in Seq(S) /\ SubSeq(a, i + 1, Len(a)) \in Seq(S) OBVIOUS
<1> QED BY <1>1, Joined

\* Where the elements of a joined sequence are.
LEMMA JoinedAt ==
    ASSUME NEW S, NEW a \in Seq(S), NEW b \in Seq(S), NEW all, all = a \o b
    PROVE  /\ Len(a) \in Nat /\ Len(b) \in Nat /\ DOMAIN all = 1..(Len(a) + Len(b))
           /\ \A i \in 1..Len(a) : all[i] = a[i]
           /\ \A j \in 1..Len(b) : all[Len(a) + j] = b[j]
OBVIOUS

\* Each element of a joined sequence is one of its parts'.
LEMMA JoinedElements ==
    ASSUME NEW S, NEW a \in Seq(S), NEW b \in Seq(S)
    PROVE  \A j \in DOMAIN (a \o b) :
              \/ \E i \in DOMAIN a : (a \o b)[j] = a[i]
              \/ \E i \in DOMAIN b : (a \o b)[j] = b[i]
<1> SUFFICES ASSUME NEW j \in DOMAIN (a \o b)
             PROVE  \/ \E i \in DOMAIN a : (a \o b)[j] = a[i]
                    \/ \E i \in DOMAIN b : (a \o b)[j] = b[i]
  OBVIOUS
<1>1. /\ j \in 1..(Len(a) + Len(b)) /\ Len(a) \in Nat /\ Len(b) \in Nat
      /\ DOMAIN a = 1..Len(a) /\ DOMAIN b = 1..Len(b)
  OBVIOUS
<1>2. CASE j \in DOMAIN a BY <1>2
<1>3. CASE j \notin DOMAIN a BY <1>1, <1>3
<1> QED BY <1>2, <1>3

\* What is left of a sequence was in it.
LEMMA WithoutOneElements ==
    ASSUME NEW S, NEW a \in Seq(S), NEW i \in DOMAIN a
    PROVE  \A k \in DOMAIN (SubSeq(a, 1, i - 1) \o SubSeq(a, i + 1, Len(a))) :
              \E j \in DOMAIN a :
                 (SubSeq(a, 1, i - 1) \o SubSeq(a, i + 1, Len(a)))[k] = a[j]
<1> DEFINE x == SubSeq(a, 1, i - 1)
           y == SubSeq(a, i + 1, Len(a))
           both == x \o y
<1>1. /\ x \in Seq(S) /\ y \in Seq(S) /\ DOMAIN x = 1..(i - 1) /\ DOMAIN y = 1..(Len(a) - i)
      /\ \A k \in 1..(i - 1) : x[k] = a[k]
      /\ \A k \in 1..(Len(a) - i) : y[k] = a[i + k]
  OBVIOUS
<1>2. Len(a) \in Nat /\ i \in 1..Len(a) /\ DOMAIN a = 1..Len(a) OBVIOUS
<1> HIDE DEF x, y
<1>3. \A k \in DOMAIN x : \E j \in DOMAIN a : x[k] = a[j] BY <1>1, <1>2
<1>4. \A k \in DOMAIN y : \E j \in DOMAIN a : y[k] = a[j]
  <2> SUFFICES ASSUME NEW k \in DOMAIN y PROVE \E j \in DOMAIN a : y[k] = a[j] OBVIOUS
  <2>1. i + k \in 1..Len(a) /\ y[k] = a[i + k] BY <1>1, <1>2
  <2> QED BY <2>1, <1>2
<1>5. \A k \in DOMAIN both : \/ \E j \in DOMAIN x : both[k] = x[j]
                             \/ \E j \in DOMAIN y : both[k] = y[j]
  <2>1. x \in Seq(S) /\ y \in Seq(S) BY <1>1
  <2> QED BY <2>1, JoinedElements
<1>6. \A k \in DOMAIN both : \E j \in DOMAIN a : both[k] = a[j]
  <2> HIDE DEF both
  <2> QED BY <1>3, <1>4, <1>5
<1> QED BY <1>6 DEF x, y

\* A call writes to the CLI, and touches nothing else of it.
LEMMA WritesKeepPipes ==
    ASSUME PipeType, sent \in Nat, NEW n \in Nat, sent' = n, sent <= n,
           NEW messages \in Seq(InLines(n)), Write(messages), UNCHANGED <<toHost, cliVars>>
    PROVE  PipeType'
<1>1. /\ toCli \in Seq(InLines(n)) /\ toHost \in Seq(OutLines(n))
      /\ queue \in Seq(0..n) /\ cliTurn \in CliTurns(n) /\ ran \in Seq(SUBSET (1..n))
  BY PipeTypeGrows
<1>2. toCli' \in Seq(InLines(n)) BY <1>1 DEF Write
<1> QED BY <1>1, <1>2 DEF PipeType, cliVars

\* A call that sends no message.
LEMMA WritesWithoutSend ==
    ASSUME PipeType, sent \in Nat, UNCHANGED sent,
           NEW messages \in Seq(InLines(sent)), Write(messages), UNCHANGED <<toHost, cliVars>>
    PROVE  PipeType'
<1>1. sent' = sent /\ sent <= sent OBVIOUS
<1> QED BY <1>1, WritesKeepPipes

\* A step of the session that neither sends nor writes.
LEMMA InnerKeepsPipes ==
    ASSUME PipeType, UNCHANGED <<sent, toCli, cliVars>>, toHost' \in Seq(OutLines(sent))
    PROVE  PipeType'
BY DEF PipeType, cliVars

\* The host's calls are calls of the session.
LEMMA CallsOfSession ==
    ASSUME PipeType, HostCall
    PROVE  Next /\ PipeType'
<1>1. sent \in Nat BY DEF PipeType
<1>2. << >> \in Seq(InLines(sent)) OBVIOUS
<1>3. CASE HostSend
  <2>1. sent' = sent + 1 /\ sent' \in Nat /\ sent <= sent' BY <1>1, <1>3 DEF HostSend, Send
  <2>2. Line("user", sent + 1, TRUE) \in InLines(sent + 1) BY <1>1 DEF Line, InLines
  <2>3. <<Line("user", sent + 1, TRUE)>> \in Seq(InLines(sent + 1)) BY <2>2, OneLine
  <2>4. PipeType' BY <1>1, <1>3, <2>1, <2>3, WritesKeepPipes DEF HostCall, HostSend
  <2> QED BY <1>3, <2>4 DEF HostSend, Next, TurnStep
<1>4. CASE HostEarly
  <2>1. PICK u \in Sends : SettleEarly(u) /\ Write(Interrupt) BY <1>4 DEF HostEarly
  <2>2. Line("interrupt", 0, TRUE) \in InLines(sent) BY DEF Line, InLines
  <2>3. Interrupt \in Seq(InLines(sent)) BY <2>2, <1>2, OneLine DEF Interrupt
  <2>4. sent' = sent BY <2>1 DEF SettleEarly
  <2>5. PipeType' BY <1>1, <2>1, <2>3, <2>4, WritesWithoutSend DEF HostCall
  <2> QED BY <2>1, <2>5 DEF Next, TurnStep
<1>5. CASE HostCancel
  <2>1. PICK c \in Controls, u \in 1..sent :
            SendControl(c, "waiting") /\ Write(<<Line("cancel", <<c, u>>, TRUE)>>)
    BY <1>5 DEF HostCancel
  <2>2. Line("cancel", <<c, u>>, TRUE) \in InLines(sent) BY DEF Line, InLines
  <2>3. <<Line("cancel", <<c, u>>, TRUE)>> \in Seq(InLines(sent)) BY <2>2, OneLine
  <2>4. sent' = sent BY <2>1 DEF SendControl, sendVars
  <2>5. PipeType' BY <1>1, <2>1, <2>3, <2>4, WritesWithoutSend DEF HostCall
  <2> QED BY <2>1, <2>5 DEF Next, ControlStep
<1>6. CASE HostStopTask
  <2>1. PICK c \in Controls, t \in Tasks :
            SendControl(c, "waiting") /\ Write(<<Line("stop_task", <<c, t>>, TRUE)>>)
    BY <1>6 DEF HostStopTask
  <2>2. Line("stop_task", <<c, t>>, TRUE) \in InLines(sent) BY DEF Line, InLines
  <2>3. <<Line("stop_task", <<c, t>>, TRUE)>> \in Seq(InLines(sent)) BY <2>2, OneLine
  <2>4. sent' = sent BY <2>1 DEF SendControl, sendVars
  <2>5. PipeType' BY <1>1, <2>1, <2>3, <2>4, WritesWithoutSend DEF HostCall
  <2> QED BY <2>1, <2>5 DEF Next, ControlStep
<1>7. CASE HostDrain
  BY <1>7, <1>1, <1>2, WritesWithoutSend DEF HostDrain, Drain, sendVars, HostCall, Next, CloseStep
<1>8. CASE HostClose
  BY <1>8, <1>1, <1>2, WritesWithoutSend DEF HostClose, Close, DoClose, CloseTransport, RejectAllPending,
     sendVars, HostCall, Next, CloseStep
<1> QED BY <1>3, <1>4, <1>5, <1>6, <1>7, <1>8 DEF HostCall

\* So is the return of a callback.
LEMMA AnswersOfSession ==
    ASSUME PipeType, Answer
    PROVE  Next /\ PipeType'
<1>1. sent \in Nat BY DEF PipeType
<1>2. PICK r \in Requests :
          /\ CallbackReturns(r)
          /\ Write(IF StillWanted(r) THEN <<Line("answer", r, TRUE)>> ELSE << >>)
  BY DEF Answer
<1>3. Line("answer", r, TRUE) \in InLines(sent) BY DEF Line, InLines
<1>4. (IF StillWanted(r) THEN <<Line("answer", r, TRUE)>> ELSE << >>) \in Seq(InLines(sent))
  <2>1. <<Line("answer", r, TRUE)>> \in Seq(InLines(sent)) BY <1>3, OneLine
  <2>2. << >> \in Seq(InLines(sent)) OBVIOUS
  <2> QED BY <2>1, <2>2
<1>5. sent' = sent BY <1>2 DEF CallbackReturns, sendVars
<1>6. PipeType' BY <1>1, <1>2, <1>4, <1>5, WritesWithoutSend DEF Answer
<1> QED BY <1>2, <1>6 DEF Next, RequestStep

\* Every line the session takes from the pipe is one that ClaudeSession lets arrive, or
\* one that it ignores.
LEMMA LinesOfSession ==
    ASSUME PipeType, TakeLine
    PROVE  [Next]_vars /\ PipeType'
<1> DEFINE l == Head(toHost)
<1>1. l \in OutLines(sent) /\ Tail(toHost) \in Seq(OutLines(sent)) BY DEF TakeLine, PipeType
<1>2. toHost' = Tail(toHost) /\ UNCHANGED <<toCli, cliVars>> BY DEF TakeLine
<1>3. [Next]_vars /\ sent' = sent
  <2>1. CASE l.type = "result" BY <2>1 DEF TakeLine, TerminalStates, Next, TurnStep, ResultLine
  <2>2. CASE l.type = "assistant"
    BY <2>2, ContentOfCli DEF TakeLine, TerminalStates, vars, sendVars, Next, TurnStep, ContentLine
  <2>3. CASE l.type = "init" BY <2>3 DEF TakeLine, TerminalStates, vars, sendVars, Next, TurnStep, InitLine
  <2>4. CASE l.type \in {"queued", "started"}
    BY <2>4, <1>1 DEF TakeLine, TerminalStates, vars, sendVars, OutLines, Next, TurnStep, JoinLine, StartLine
  <2>5. CASE l.type \in TerminalStates
    BY <2>5, <1>1 DEF TakeLine, TerminalStates, vars, sendVars, OutLines, Next, TurnStep, RetireLine
  <2>6. CASE l.type \in {"task_started", "task_completed", "task_stopped"}
    <3>1. \/ UNCHANGED vars
          \/ TaskLine(l.id, "started", "running")
          \/ TaskLine(l.id, "update", "completed")
          \/ TaskLine(l.id, "update", "stopped")
      BY <2>6 DEF TakeLine, TerminalStates
    <3>2. UNCHANGED vars => sent' = sent BY DEF vars, sendVars
    <3>3. l.id \in Tasks BY <1>1, <2>6 DEF OutLines, Lifecycle, TerminalStates
    <3>4. ASSUME NEW phase, NEW status, TaskLine(l.id, phase, status) PROVE sent' = sent
      BY <3>4 DEF TaskLine, sendVars
    <3> QED BY <3>1, <3>2, <3>3, <3>4 DEF Next, TaskStep
  <2>7. CASE l.type = "request"
    BY <2>7, <1>1 DEF TakeLine, TerminalStates, OutLines, Lifecycle, RequestLine, sendVars, Next, RequestStep
  <2>8. CASE l.type = "cancel_request"
    <3>1. UNCHANGED vars \/ CancelRequestLine(l.id) BY <2>8 DEF TakeLine, TerminalStates
    <3>2. UNCHANGED vars => sent' = sent BY DEF vars, sendVars
    <3>3. l.id \in Requests BY <1>1, <2>8 DEF OutLines, Lifecycle, TerminalStates
    <3>4. CancelRequestLine(l.id) => sent' = sent BY DEF CancelRequestLine, sendVars
    <3> QED BY <3>1, <3>2, <3>3, <3>4 DEF Next, RequestStep
  <2>9. CASE l.type = "response"
    <3>1. UNCHANGED vars \/ ResponseLine(l.id, l.ok) BY <2>9 DEF TakeLine, TerminalStates
    <3>2. UNCHANGED vars => sent' = sent BY DEF vars, sendVars
    <3>3. l.id \in Controls /\ l.ok \in BOOLEAN BY <1>1, <2>9 DEF OutLines, Lifecycle, TerminalStates
    <3>4. ResponseLine(l.id, l.ok) => sent' = sent BY DEF ResponseLine, sendVars
    <3> QED BY <3>1, <3>2, <3>3, <3>4 DEF Next, ControlStep
  <2> HIDE DEF l
  <2>10. \/ l.type \in {"result", "assistant", "init", "request", "cancel_request", "response"}
         \/ l.type \in {"queued", "started"} \/ l.type \in TerminalStates
         \/ l.type \in {"task_started", "task_completed", "task_stopped"}
    BY <1>1 DEF OutLines, Lifecycle
  <2> QED BY <2>1, <2>2, <2>3, <2>4, <2>5, <2>6, <2>7, <2>8, <2>9, <2>10
<1> QED BY <1>1, <1>2, <1>3, InnerKeepsPipes

\* The lines that end a turn.
LEMMA EndLines ==
    ASSUME NEW n \in Nat, NEW commands \in SUBSET (1..n)
    PROVE  /\ Line("result", 0, TRUE) \in OutLines(n)
           /\ <<Line("result", 0, TRUE)>> \o Completed(commands) \in Seq(OutLines(n))
<1>1. Line("result", 0, TRUE) \in OutLines(n) BY DEF Line, OutLines
<1>2. <<Line("result", 0, TRUE)>> \in Seq(OutLines(n)) BY <1>1, OneLine
<1>3. Completed(commands) \in Seq(OutLines(n)) BY CompletedLines
<1> QED BY <1>1, <1>2, <1>3, Joined

\* A turn that ends leaves well-formed pipes.
LEMMA TurnEndKeepsPipes ==
    ASSUME PipeType, sent \in Nat, EndTurn, UNCHANGED <<sent, queue, live>>,
           toCli' \in Seq(InLines(sent))
    PROVE  PipeType'
<1>1. cliTurn.commands \in SUBSET (1..sent) BY DEF PipeType, CliTurns
<1> DEFINE L == <<Line("result", 0, TRUE)>> \o Completed(cliTurn.commands)
<1>2. L \in Seq(OutLines(sent)) BY <1>1, EndLines
<1>3. Emit(L) BY DEF EndTurn
<1> HIDE DEF L
<1>4. toHost' \in Seq(OutLines(sent)) BY <1>2, <1>3 DEF Emit, PipeType
<1>5. ran' \in Seq(SUBSET (1..sent)) BY <1>1 DEF EndTurn, PipeType
<1>6. cliTurn' \in CliTurns(sent) /\ cliTurn'.commands = {} BY DEF EndTurn, NoCliTurn, CliTurns
<1> QED BY <1>4, <1>5, <1>6 DEF PipeType, EndTurn

\* What the CLI reads is a call that it got.
LEMMA ReadsKeepPipes ==
    ASSUME PipeType, sent \in Nat, CliReads
    PROVE  PipeType'
<1> DEFINE m == Head(toCli)
<1>1. m \in InLines(sent) /\ toCli' \in Seq(InLines(sent)) /\ sent' = sent
  BY DEF CliReads, CliUp, PipeType, vars, sendVars
<1>2. ASSUME NEW L \in Seq(OutLines(sent)), Emit(L)
      PROVE  toHost' \in Seq(OutLines(sent))
  BY <1>2 DEF Emit, PipeType
<1>3. CASE m.type = "user"
  <2>1. CliQueues(m.id) BY <1>3 DEF CliReads
  <2>2. m.id \in 1..sent BY <1>1, <1>3 DEF InLines
  <2> DEFINE L == IF QueuedRecords THEN <<Line("queued", m.id, TRUE)>> ELSE << >>
  <2>3. Line("queued", m.id, TRUE) \in OutLines(sent) BY <2>2 DEF Line, OutLines, Lifecycle
  <2>4. << >> \in Seq(OutLines(sent)) OBVIOUS
  <2>5. L \in Seq(OutLines(sent)) BY <2>3, <2>4, OneLine
  <2>6. Emit(L) BY <2>1 DEF CliQueues
  <2>7. toHost' \in Seq(OutLines(sent)) BY <1>2, <2>5, <2>6
  <2>8. queue' \in Seq(0..sent) BY <2>1, <2>2 DEF CliQueues, PipeType
  <2> QED BY <1>1, <2>1, <2>7, <2>8 DEF CliQueues, PipeType
<1>4. CASE m.type = "cancel"
  <2>1. CliCancels(m.id[1], m.id[2]) BY <1>4 DEF CliReads
  <2>2. m.id[1] \in Controls /\ m.id[2] \in 1..sent BY <1>1, <1>4 DEF InLines
  <2>3. /\ Line("cancelled", m.id[2], TRUE) \in OutLines(sent)
        /\ Line("response", m.id[1], TRUE) \in OutLines(sent)
    BY <2>2 DEF Line, OutLines, Lifecycle, TerminalStates
  <2> DEFINE first == Line("cancelled", m.id[2], TRUE)
             second == Line("response", m.id[1], TRUE)
  <2>4. <<first, second>> \in Seq(OutLines(sent)) /\ <<second>> \in Seq(OutLines(sent))
    <3> HIDE DEF first, second
    <3>1. first \in OutLines(sent) /\ second \in OutLines(sent) BY <2>3 DEF first, second
    <3> QED BY <3>1
  <2>5. toHost' \in Seq(OutLines(sent)) BY <2>1, <1>2, <2>4 DEF CliCancels
  <2>6. queue' \in Seq(0..sent)
    <3>1. CASE queue' = queue BY <3>1 DEF PipeType
    <3>2. CASE queue' # queue
      <4>1. PICK i \in DOMAIN queue :
                queue' = SubSeq(queue, 1, i - 1) \o SubSeq(queue, i + 1, Len(queue))
        BY <2>1, <3>2 DEF CliCancels
      <4> QED BY <4>1, WithoutOne DEF PipeType
    <3> QED BY <3>1, <3>2
  <2> QED BY <1>1, <2>1, <2>5, <2>6 DEF CliCancels, PipeType
<1>5. CASE m.type = "stop_task"
  <2>1. CliStopsTask(m.id[1], m.id[2]) BY <1>5 DEF CliReads
  <2>2. m.id[1] \in Controls /\ m.id[2] \in Tasks BY <1>1, <1>5 DEF InLines
  <2> DEFINE stopped == m.id[2] \in live
             first == Line("task_stopped", m.id[2], TRUE)
             second == Line("response", m.id[1], m.id[2] \in live)
             L == (IF stopped THEN <<first>> ELSE << >>) \o <<second>>
  <2>3. first \in OutLines(sent) BY <2>2 DEF Line, OutLines
  <2>a. stopped \in BOOLEAN OBVIOUS
  <2>b. second \in OutLines(sent) BY <2>2, <2>a DEF Line, OutLines
  <2>4. Emit(L) BY <2>1 DEF CliStopsTask
  <2>5. L \in Seq(OutLines(sent))
    <3> HIDE DEF first, second, stopped
    <3>1. <<first>> \in Seq(OutLines(sent)) /\ <<second>> \in Seq(OutLines(sent)) BY <2>3, <2>b
    <3> QED BY <3>1
  <2> HIDE DEF L
  <2>6. toHost' \in Seq(OutLines(sent)) BY <1>2, <2>4, <2>5
  <2> QED BY <1>1, <2>1, <2>6 DEF CliStopsTask, PipeType
<1>6. CASE m.type = "answer" BY <1>6, <1>1 DEF CliReads, PipeType
<1>7. CASE m.type = "interrupt"
  <2>1. CASE Running BY <1>7, <2>1, <1>1, TurnEndKeepsPipes DEF CliReads
  <2>2. CASE ~Running BY <1>7, <2>2, <1>1 DEF CliReads, PipeType, cliVars
  <2> QED BY <2>1, <2>2
<1> HIDE DEF m
<1>8. m.type \in {"user", "cancel", "stop_task", "answer", "interrupt"} BY <1>1 DEF InLines
<1> QED BY <1>3, <1>4, <1>5, <1>6, <1>7, <1>8

\* The CLI's own steps.
LEMMA CliKeepsPipes ==
    ASSUME PipeType, sent \in Nat,
           CliStarts \/ CliFolds \/ CliRefuses \/ CliSpeaks \/ CliLaunches
             \/ CliTaskDone \/ CliAsks \/ CliWithdraws \/ CliEnds
    PROVE  PipeType'
<1>1. sent' = sent /\ toCli' = toCli
  BY DEF CliStarts, CliFolds, CliRefuses, CliSpeaks, CliLaunches, CliTaskDone, CliAsks,
         CliWithdraws, CliEnds, CliUp, vars, sendVars
<1>2. ASSUME NEW L \in Seq(OutLines(sent)), Emit(L)
      PROVE  toHost' \in Seq(OutLines(sent))
  BY <1>2 DEF Emit, PipeType
<1>3. ASSUME queue # << >>
      PROVE  /\ Head(queue) \in 0..sent /\ Tail(queue) \in Seq(0..sent)
             /\ Head(queue) # Notification => Head(queue) \in 1..sent
  BY <1>3 DEF PipeType, Notification
<1>4. ASSUME queue # << >>, Head(queue) # Notification
      PROVE  /\ Line("started", Head(queue), TRUE) \in OutLines(sent)
             /\ Line("refused", Head(queue), TRUE) \in OutLines(sent)
             /\ Line("discarded", Head(queue), TRUE) \in OutLines(sent)
  BY <1>3, <1>4 DEF Line, OutLines, Lifecycle, TerminalStates
<1>5. /\ Line("init", 0, TRUE) \in OutLines(sent)
      /\ Line("assistant", 0, TRUE) \in OutLines(sent)
      /\ \A t \in Tasks : /\ Line("task_started", t, TRUE) \in OutLines(sent)
                          /\ Line("task_completed", t, TRUE) \in OutLines(sent)
      /\ \A r \in Requests : /\ Line("request", r, TRUE) \in OutLines(sent)
                             /\ Line("cancel_request", r, TRUE) \in OutLines(sent)
  BY DEF Line, OutLines
<1>6. << >> \in Seq(OutLines(sent)) OBVIOUS
<1>7. CASE CliStarts
  <2> DEFINE L == IF Head(queue) = Notification THEN <<Line("init", 0, TRUE)>>
                  ELSE <<Line("started", Head(queue), TRUE)>>
  <2>1. L \in Seq(OutLines(sent)) /\ Emit(L) BY <1>7, <1>4, <1>5, OneLine DEF CliStarts
  <2>2. toHost' \in Seq(OutLines(sent)) BY <1>2, <2>1
  <2>3. queue' \in Seq(0..sent) /\ {Head(queue)} \ {Notification} \subseteq 1..sent BY <1>3, <1>7 DEF CliStarts
  <2>4. cliTurn' \in CliTurns(sent) /\ cliTurn'.running BY <2>3, <1>7 DEF CliStarts, CliTurns
  <2> QED BY <1>1, <1>7, <2>2, <2>3, <2>4 DEF CliStarts, PipeType
<1>8. CASE CliFolds
  <2> DEFINE L == IF Head(queue) = Notification THEN << >>
                  ELSE <<Line("started", Head(queue), TRUE)>>
  <2>1. L \in Seq(OutLines(sent)) /\ Emit(L) BY <1>8, <1>4, <1>6, OneLine DEF CliFolds
  <2>2. toHost' \in Seq(OutLines(sent)) BY <1>2, <2>1
  <2>3. queue' \in Seq(0..sent) /\ {Head(queue)} \ {Notification} \subseteq 1..sent BY <1>3, <1>8 DEF CliFolds
  <2>4. cliTurn' \in CliTurns(sent) /\ cliTurn'.running BY <2>3, <1>8 DEF CliFolds, CliTurns, PipeType, Running
  <2> QED BY <1>1, <1>8, <2>2, <2>3, <2>4 DEF CliFolds, PipeType
<1>9. CASE CliRefuses
  <2> DEFINE s == Line("started", Head(queue), TRUE)
             r == Line("refused", Head(queue), TRUE)
             d == Line("discarded", Head(queue), TRUE)
  <2>1. Emit(<<s, r>>) \/ Emit(<<d>>) BY <1>9 DEF CliRefuses
  <2>2. s \in OutLines(sent) /\ r \in OutLines(sent) /\ d \in OutLines(sent) BY <1>4, <1>9 DEF CliRefuses
  <2>3. <<s, r>> \in Seq(OutLines(sent)) /\ <<d>> \in Seq(OutLines(sent))
    <3> HIDE DEF s, r, d
    <3> QED BY <2>2
  <2>4. toHost' \in Seq(OutLines(sent)) BY <1>2, <2>1, <2>3
  <2>5. queue' \in Seq(0..sent) BY <1>3, <1>9 DEF CliRefuses
  <2> QED BY <1>1, <1>9, <2>4, <2>5 DEF CliRefuses, PipeType
<1>10. CASE CliSpeaks BY <1>2, <1>5, <1>10, OneLine, <1>1 DEF CliSpeaks, CliTurns, PipeType, Running
<1>11. CASE CliLaunches
  <2>1. PICK t \in Tasks \ launched :
            live' = live \cup {t} /\ Emit(<<Line("task_started", t, TRUE)>>)
    BY <1>11 DEF CliLaunches
  <2>2. toHost' \in Seq(OutLines(sent)) BY <1>2, <1>5, <2>1, OneLine
  <2> QED BY <1>1, <1>11, <2>1, <2>2 DEF CliLaunches, PipeType
<1>12. CASE CliTaskDone
  <2>1. PICK t \in live :
            /\ live' = live \ {t}
            /\ Emit(<<Line("task_completed", t, TRUE), Line("task_completed", t, TRUE)>>)
    BY <1>12 DEF CliTaskDone
  <2> DEFINE d == Line("task_completed", t, TRUE)
  <2>2. <<d, d>> \in Seq(OutLines(sent))
    <3>1. d \in OutLines(sent) BY <1>5, <2>1 DEF PipeType
    <3> HIDE DEF d
    <3> QED BY <3>1
  <2>3. toHost' \in Seq(OutLines(sent)) BY <1>2, <2>1, <2>2
  <2>4. queue' \in Seq(0..sent) BY <1>12 DEF CliTaskDone, PipeType, Notification
  <2> QED BY <1>1, <1>12, <2>1, <2>3, <2>4 DEF CliTaskDone, PipeType
<1>13. CASE CliAsks
  <2>1. PICK r \in Requests : asking' = r /\ Emit(<<Line("request", r, TRUE)>>) BY <1>13 DEF CliAsks
  <2>2. toHost' \in Seq(OutLines(sent)) BY <1>2, <1>5, <2>1, OneLine
  <2> QED BY <1>1, <1>13, <2>1, <2>2 DEF CliAsks, PipeType
<1>14. CASE CliWithdraws BY <1>14, <1>2, <1>5, OneLine, <1>1 DEF CliWithdraws, PipeType
<1>15. CASE CliEnds BY <1>15, <1>1, TurnEndKeepsPipes DEF CliEnds, PipeType
<1> QED BY <1>7, <1>8, <1>9, <1>10, <1>11, <1>12, <1>13, <1>14, <1>15

\* A step of the composition is one of the session, or leaves the session alone.
LEMMA StepsOfSession ==
    ASSUME PipeType, [SystemNext]_systemVars
    PROVE  [Next]_vars /\ PipeType'
<1>1. sent \in Nat BY DEF PipeType
<1>2. CASE HostCall BY <1>2, CallsOfSession
<1>3. CASE Answer BY <1>3, AnswersOfSession
<1>4. CASE TakeLine BY <1>4, LinesOfSession
<1>5. CASE \/ Internal(EventsHandled) \/ Internal(TurnSettled)
           \/ Internal(DrainSettled) \/ Internal(DrainDeadline) \/ Internal(DrainClose)
           \/ Internal(CloseSignal) \/ Internal(GraceKill) \/ CliExits
  <2>1. UNCHANGED <<toCli, toHost, cliVars>> BY <1>5 DEF Internal, CliExits
  <2>2. \/ EventsHandled \/ TurnSettled \/ DrainSettled \/ DrainDeadline \/ DrainClose
        \/ CloseSignal \/ GraceKill \/ ProcessExit
    BY <1>5 DEF Internal, CliExits
  <2>3. Next BY <2>2 DEF Next, TurnStep, CloseStep
  <2>4. sent' = sent
    BY <2>2 DEF EventsHandled, TurnSettled, DrainSettled, DrainDeadline, DrainClose, DoClose,
                CloseTransport, RejectAllPending, CloseSignal, GraceKill, ProcessExit, sendVars
  <2>5. toHost' \in Seq(OutLines(sent)) BY <2>1 DEF PipeType
  <2> QED BY <2>1, <2>3, <2>4, <2>5, InnerKeepsPipes
<1>6. CASE CliReads BY <1>6, <1>1, ReadsKeepPipes DEF CliReads, CliUp
<1>7. CASE \/ CliStarts \/ CliFolds \/ CliRefuses \/ CliSpeaks \/ CliLaunches
           \/ CliTaskDone \/ CliAsks \/ CliWithdraws \/ CliEnds
  <2>1. UNCHANGED vars
    BY <1>7 DEF CliStarts, CliFolds, CliRefuses, CliSpeaks, CliLaunches, CliTaskDone, CliAsks,
                CliWithdraws, CliEnds, CliUp
  <2> QED BY <1>1, <1>7, <2>1, CliKeepsPipes
<1>8. CASE UNCHANGED systemVars BY <1>8 DEF systemVars, vars, sendVars, PipeType, cliVars
<1> QED BY <1>2, <1>3, <1>4, <1>5, <1>6, <1>7, <1>8 DEF SystemNext

\* At first the pipes hold the line of the boot, and nothing else.
LEMMA PipesInitially ==
    ASSUME SystemInit
    PROVE  Init /\ PipeType
<1>1. Line("init", 0, TRUE) \in OutLines(sent) BY DEF Line, OutLines
<1>2. toHost \in Seq(OutLines(sent)) BY <1>1, OneLine DEF SystemInit
<1>3. cliTurn \in CliTurns(sent) /\ cliTurn.commands = {} BY DEF SystemInit, NoCliTurn, CliTurns
<1>4. sent = 0 /\ toCli = << >> /\ queue = << >> /\ ran = << >> /\ live = {} /\ asking = NoRequest
  BY DEF SystemInit, Init
<1>5. Init BY DEF SystemInit
<1> QED BY <1>2, <1>3, <1>4, <1>5 DEF PipeType

\* The session of the composition is the session that reads any lines: what is proved of
\* ClaudeSession holds beside this CLI too.
THEOREM SystemIsSession == SystemSpec => Spec
<1>1. SystemInit => Init /\ PipeType BY PipesInitially
<1>2. PipeType /\ [SystemNext]_systemVars => [Next]_vars /\ PipeType' BY StepsOfSession
<1> QED BY <1>1, <1>2, PTL DEF SystemSpec, Spec

-----------------------------------------------------------------------------
(* A send gets the result of the turn that ran it.  The turn the session   *)
(* has open is the one whose lines it reads: its messages are those the    *)
(* CLI ran in that turn, or one that the next line refuses; and no turn is *)
(* credited by guess, because the CLI names a message before it speaks.    *)

\* No record announces a message that the CLI merely queues.
NothingAnnounced == \A i \in DOMAIN toHost : toHost[i].type # "queued"

Busy == Running \/ live # {} \/ \E i \in DOMAIN queue : queue[i] = Notification

\* Until the session has heard a message named, no turn has spoken or ended.
NamesComeFirst ==
    seenLifecycle \/
    /\ ~seenResult
    /\ \A i \in DOMAIN toHost : toHost[i].type \in {"assistant", "result"} =>
          \E j \in 1..i : toHost[j].type \in Lifecycle
    /\ Busy => \E j \in DOMAIN toHost : toHost[j].type \in Lifecycle

OpenTurnRan ==
    \A u \in openTurn.commands :
        \/ u \in TurnOf(Len(results) + 1, ran, cliTurn.commands)
        \/ toHost # << >> /\ Refuses(toHost[1], u)

ResultsRan ==
    \A k \in DOMAIN results : k \in DOMAIN ran /\ results[k].commands \subseteq ran[k]

LinesNumberedNow == Numbered(toHost, Len(results), ran, cliTurn.commands)

Attributed ==
    Alive => /\ state # "closed"
             /\ LinesNumberedNow /\ NothingAnnounced /\ NamesComeFirst
             /\ OpenTurnRan /\ ResultsRan

\* What is kept of the turns gives the property.
LEMMA AttributedGivesOwner ==
    ASSUME TypeOK, OwnResult, Attributed
    PROVE  TrueOwner
<1> SUFFICES ASSUME Alive, NEW u \in Sends, outcome[u] = "result",
                    results[resultOf[u]].turn # 0
             PROVE  u \in ran[resultOf[u]]
  BY DEF TrueOwner
<1>1. resultOf[u] \in DOMAIN results /\ u \in results[resultOf[u]].commands BY DEF OwnResult
<1> QED BY <1>1 DEF Attributed, ResultsRan

\* No turn has begun.
LEMMA AttributedInitially ==
    ASSUME SystemInit
    PROVE  Attributed
<1>1. /\ toHost = <<Line("init", 0, TRUE)>> /\ results = << >> /\ ran = << >>
      /\ cliTurn = NoCliTurn /\ openTurn = NoTurn /\ live = {} /\ queue = << >>
      /\ seenResult = FALSE /\ state = "idle"
  BY DEF SystemInit, Init
<1>2. Len(toHost) = 1 /\ DOMAIN toHost = {1} /\ toHost[1].type = "init" /\ toHost # << >>
      /\ Len(results) = 0 /\ Len(ran) = 0
  BY <1>1 DEF Line
<1>3. LinesNumberedNow
  <2> DEFINE f == [i \in DOMAIN toHost |-> 1]
  <2>1. Numbers(f, toHost, 0, 0) BY <1>2 DEF Numbers
  <2>2. StartsHold(f, toHost, ran, cliTurn.commands) BY <1>2 DEF StartsHold
  <2> QED BY <1>2, <2>1, <2>2 DEF LinesNumberedNow, Numbered
<1>4. ~Busy /\ NothingAnnounced
  <2>1. ~Running BY <1>1 DEF Running, NoCliTurn
  <2>2. NothingAnnounced BY <1>2 DEF NothingAnnounced
  <2> QED BY <1>1, <2>1, <2>2 DEF Busy
<1>5. NamesComeFirst BY <1>1, <1>2, <1>4 DEF NamesComeFirst
<1>6. OpenTurnRan /\ ResultsRan BY <1>1 DEF OpenTurnRan, ResultsRan, NoTurn
<1> QED BY <1>1, <1>3, <1>4, <1>5, <1>6 DEF Attributed

\* Nothing that matters here moves.
LEMMA AttributedKept ==
    ASSUME Attributed, Alive, state' # "closed",
           UNCHANGED <<toHost, queue, cliTurn, live, ran, results, openTurn, latchVars>>
    PROVE  Attributed'
<1>1. LinesNumberedNow' BY DEF Attributed, LinesNumberedNow
<1>2. NothingAnnounced' /\ OpenTurnRan' /\ ResultsRan'
  BY DEF Attributed, NothingAnnounced, OpenTurnRan, ResultsRan
<1>3. NamesComeFirst' BY DEF Attributed, NamesComeFirst, Busy, Running, latchVars
<1> QED BY <1>1, <1>2, <1>3 DEF Attributed

\* The numbering says how many turns are over.
LEMMA ReadTurnsAreOver ==
    ASSUME NEW S, NEW h \in Seq(S), NEW n \in Nat, NEW T, NEW R \in Seq(T), NEW c,
           Numbered(h, n, R, c)
    PROVE  n <= Len(R)
<1>1. PICK f : Numbers(f, h, n, Len(R)) BY DEF Numbered
<1>2. CASE h = << >> BY <1>1, <1>2 DEF Numbers
<1>3. CASE h # << >> BY <1>3, <1>1 DEF Numbers
<1> QED BY <1>2, <1>3

\* The CLI writes lines in the turn that runs.
LEMMA EmissionKeeps ==
    ASSUME TypeOK, PipeType, Attributed, Alive, UNCHANGED <<vars, ran>>,
           NEW L \in Seq(OutLines(sent)), Emit(L),
           cliTurn.commands \subseteq cliTurn'.commands,
           \A j \in DOMAIN L : L[j].type \notin {"result", "queued"},
           \A j \in DOMAIN L : L[j].type = "started" =>
               L[j].id \in cliTurn'.commands \/ (j + 1 \in DOMAIN L /\ Refuses(L[j + 1], L[j].id)),
           \A j \in DOMAIN L : L[j].type = "assistant" => Running,
           Busy' => Busy \/ \E j \in DOMAIN L : L[j].type \in Lifecycle
    PROVE  Attributed'
<1> DEFINE h == toHost
           n == Len(results)
           c == cliTurn.commands
           d == cliTurn'.commands
<1>1. /\ h \in Seq(OutLines(sent)) /\ n \in Nat /\ ran \in Seq(SUBSET (1..sent))
      /\ toHost' = h \o L
      /\ results' = results /\ openTurn' = openTurn /\ state' = state /\ ran' = ran
      /\ seenLifecycle' = seenLifecycle /\ seenResult' = seenResult
  BY DEF PipeType, TypeOK, ResultType, Emit, vars, resultVars, turnVars, latchVars
<1>2. LinesNumberedNow'
  <2>1. Numbered(h, n, ran, c) BY DEF Attributed, LinesNumberedNow
  <2>2. \A j \in DOMAIN L : L[j].type # "result" OBVIOUS
  <2> HIDE DEF n, h, c, d
  <2>3. c \subseteq d /\ \A j \in DOMAIN L : L[j].type = "started" =>
               L[j].id \in d \/ (j + 1 \in DOMAIN L /\ Refuses(L[j + 1], L[j].id))
    BY DEF c, d
  <2>4. Numbered(h \o L, n, ran, d) BY <1>1, <2>1, <2>2, <2>3, LinesNumbered
  <2> QED BY <2>4, <1>1 DEF LinesNumberedNow, n, d
<1>3. /\ DOMAIN toHost' = 1..(Len(h) + Len(L)) /\ DOMAIN h = 1..Len(h) /\ DOMAIN L = 1..Len(L)
      /\ Len(h) \in Nat /\ Len(L) \in Nat
      /\ \A i \in DOMAIN h : toHost'[i] = h[i]
      /\ \A j \in DOMAIN L : toHost'[Len(h) + j] = L[j]
      /\ h # << >> => toHost' # << >> /\ toHost'[1] = h[1]
  BY <1>1
<1>4. \A i \in DOMAIN toHost' : i \notin DOMAIN h =>
         i - Len(h) \in DOMAIN L /\ toHost'[i] = L[i - Len(h)]
  BY <1>3
<1>5. NothingAnnounced' BY <1>3, <1>4 DEF Attributed, NothingAnnounced
<1>6. OpenTurnRan' BY <1>1, <1>3 DEF Attributed, OpenTurnRan, TurnOf
<1>7. ResultsRan' BY <1>1 DEF Attributed, ResultsRan
<1>8. NamesComeFirst'
  <2>1. CASE seenLifecycle BY <2>1, <1>1 DEF NamesComeFirst
  <2>2. CASE ~seenLifecycle
    <3>1. /\ ~seenResult
          /\ \A i \in DOMAIN h : h[i].type \in {"assistant", "result"} =>
                \E j \in 1..i : h[j].type \in Lifecycle
          /\ Busy => \E j \in DOMAIN h : h[j].type \in Lifecycle
      BY <2>2 DEF Attributed, NamesComeFirst
    <3>2. Busy' => \E j \in DOMAIN toHost' : toHost'[j].type \in Lifecycle
      <4> SUFFICES ASSUME Busy' PROVE \E j \in DOMAIN toHost' : toHost'[j].type \in Lifecycle OBVIOUS
      <4>1. CASE Busy
        <5>1. PICK j \in DOMAIN h : h[j].type \in Lifecycle BY <4>1, <3>1
        <5>2. j \in DOMAIN toHost' /\ toHost'[j].type \in Lifecycle BY <5>1, <1>3
        <5> QED BY <5>2
      <4>2. CASE \E j \in DOMAIN L : L[j].type \in Lifecycle
        <5>1. PICK j \in DOMAIN L : L[j].type \in Lifecycle BY <4>2
        <5>2. Len(h) + j \in DOMAIN toHost' /\ toHost'[Len(h) + j].type \in Lifecycle BY <5>1, <1>3
        <5> QED BY <5>2
      <4> QED BY <4>1, <4>2
    <3>3. ASSUME NEW i \in DOMAIN toHost', toHost'[i].type \in {"assistant", "result"}
          PROVE  \E j \in 1..i : toHost'[j].type \in Lifecycle
      <4>1. CASE i \in DOMAIN h
        <5>1. PICK j \in 1..i : h[j].type \in Lifecycle BY <4>1, <3>1, <3>3, <1>3
        <5>2. j \in DOMAIN h BY <4>1, <1>3
        <5>3. toHost'[j] = h[j] BY <5>2, <1>3
        <5> QED BY <5>1, <5>3
      <4>2. CASE i \notin DOMAIN h
        <5>1. Running BY <4>2, <3>3, <1>4
        <5>2. PICK j \in DOMAIN h : h[j].type \in Lifecycle BY <5>1, <3>1 DEF Busy
        <5>3. toHost'[j] = h[j] /\ j \in 1..i BY <4>2, <1>3
        <5> QED BY <5>2, <5>3
      <4> QED BY <4>1, <4>2
    <3> QED BY <3>1, <3>2, <3>3, <1>1 DEF NamesComeFirst
  <2> QED BY <2>1, <2>2
<1> QED BY <1>1, <1>2, <1>5, <1>6, <1>7, <1>8 DEF Attributed

\* A first line, and the others behind it.
LEMMA AppendedLines ==
    ASSUME NEW S, NEW a \in Seq(S), NEW x \in S, NEW b \in Seq(S)
    PROVE  a \o (<<x>> \o b) = Append(a, x) \o b
OBVIOUS

\* The CLI ends its turn.
LEMMA EndKeeps ==
    ASSUME TypeOK, PipeType, Attributed, Alive, UNCHANGED <<vars, queue, live>>,
           EndTurn, Running
    PROVE  Attributed'
<1> DEFINE h == toHost
           n == Len(results)
           c == cliTurn.commands
           r == Line("result", 0, TRUE)
           more == Completed(c)
           ended == Append(h, r)
<1>1. /\ h \in Seq(OutLines(sent)) /\ n \in Nat /\ ran \in Seq(SUBSET (1..sent))
      /\ results' = results /\ openTurn' = openTurn /\ state' = state
      /\ seenLifecycle' = seenLifecycle /\ seenResult' = seenResult
  BY DEF PipeType, TypeOK, ResultType, vars, resultVars, turnVars, latchVars
<1>2. c \in SUBSET (1..sent) /\ sent \in Nat BY DEF PipeType, CliTurns
<1>3. /\ r \in OutLines(sent) /\ r.type = "result"
      /\ more \in Seq(OutLines(sent))
      /\ \A j \in DOMAIN more : more[j].type = "completed"
  BY <1>2, EndLines, CompletedLines DEF Line
<1>4. /\ toHost' = h \o (<<r>> \o more) /\ ran' = Append(ran, c)
      /\ cliTurn'.commands = {} /\ cliTurn'.running = FALSE
  BY DEF EndTurn, Emit, NoCliTurn
<1>5. Numbered(h, n, ran, c) BY DEF Attributed, LinesNumberedNow
<1>6. n <= Len(ran)
  <2> HIDE DEF h, n, c
  <2> QED BY <1>1, <1>5, ReadTurnsAreOver
<1>7. /\ ended \in Seq(OutLines(sent)) /\ toHost' = ended \o more
      /\ DOMAIN ended = 1..(Len(h) + 1) /\ DOMAIN h = 1..Len(h) /\ Len(h) \in Nat
      /\ \A i \in DOMAIN h : ended[i] = h[i]
      /\ ended[Len(h) + 1] = r
  <2> HIDE DEF h, r, more
  <2>1. toHost' = ended \o more BY <1>1, <1>3, <1>4, AppendedLines
  <2> QED BY <1>1, <1>3, <2>1
<1>8. LinesNumberedNow'
  <2> HIDE DEF h, n, c, r, more
  <2>1. Numbered(ended, n, Append(ran, c), {}) BY <1>1, <1>2, <1>3, <1>5, ResultNumbered
  <2> HIDE DEF ended
  <2>2. Append(ran, c) \in Seq(SUBSET (1..sent)) BY <1>1, <1>2
  <2>3. /\ \A j \in DOMAIN more : more[j].type # "result"
        /\ \A j \in DOMAIN more : more[j].type = "started" =>
              more[j].id \in {} \/ (j + 1 \in DOMAIN more /\ Refuses(more[j + 1], more[j].id))
    BY <1>3
  <2> DEFINE past == Append(ran, c)
             none == {}
  <2>4. past \in Seq(SUBSET (1..sent)) /\ Numbered(ended, n, past, none) /\ none \subseteq none BY <2>1, <2>2
  <2>5. \A j \in DOMAIN more : more[j].type = "started" =>
            more[j].id \in none \/ (j + 1 \in DOMAIN more /\ Refuses(more[j + 1], more[j].id))
    BY <2>3
  <2> HIDE DEF past, none
  <2>6. Numbered(ended \o more, n, past, none) BY <1>1, <1>3, <1>7, <2>3, <2>4, <2>5, LinesNumbered
  <2> QED BY <2>6, <1>1, <1>4, <1>7 DEF LinesNumberedNow, n, past, none
<1>9. /\ DOMAIN toHost' = 1..(Len(ended) + Len(more)) /\ Len(ended) = Len(h) + 1
      /\ Len(more) \in Nat /\ DOMAIN more = 1..Len(more)
      /\ \A i \in DOMAIN ended : toHost'[i] = ended[i]
      /\ \A j \in DOMAIN more : toHost'[Len(ended) + j] = more[j]
  <2> HIDE DEF h, r, more, ended
  <2>1. Len(ended) = Len(h) + 1 BY <1>1, <1>3 DEF ended
  <2>2. ended \in Seq(OutLines(sent)) /\ more \in Seq(OutLines(sent)) /\ toHost' = ended \o more BY <1>3, <1>7
  <2>3. /\ DOMAIN toHost' = 1..(Len(ended) + Len(more)) /\ Len(more) \in Nat
        /\ \A i \in 1..Len(ended) : toHost'[i] = ended[i]
        /\ \A j \in 1..Len(more) : toHost'[Len(ended) + j] = more[j]
    BY <2>2, JoinedAt
  <2>4. DOMAIN ended = 1..Len(ended) /\ DOMAIN more = 1..Len(more) BY <2>2
  <2> QED BY <2>1, <2>3, <2>4
<1>10. \A i \in DOMAIN toHost' :
          \/ i \in DOMAIN h /\ toHost'[i] = h[i]
          \/ i \notin DOMAIN h /\ toHost'[i].type \in {"result", "completed"}
  <2> HIDE DEF h, more, ended, r
  <2> SUFFICES ASSUME NEW i \in DOMAIN toHost'
               PROVE  \/ i \in DOMAIN h /\ toHost'[i] = h[i]
                      \/ i \notin DOMAIN h /\ toHost'[i].type \in {"result", "completed"}
    OBVIOUS
  <2>1. CASE i \in DOMAIN h BY <2>1, <1>7, <1>9
  <2>2. CASE i = Len(h) + 1 BY <2>2, <1>3, <1>7, <1>9
  <2>3. CASE i > Len(h) + 1 BY <2>3, <1>7, <1>9, <1>3
  <2> QED BY <2>1, <2>2, <2>3, <1>7, <1>9
<1>11. NothingAnnounced' BY <1>10 DEF Attributed, NothingAnnounced
<1>12. /\ h # << >> => toHost' # << >> /\ toHost'[1] = h[1]
       /\ \A i \in DOMAIN h : i \in DOMAIN toHost' /\ toHost'[i] = h[i]
  <2> HIDE DEF h, more, ended, r
  <2>1. \A i \in DOMAIN h : i \in DOMAIN toHost' /\ toHost'[i] = h[i] BY <1>7, <1>9
  <2>2. h # << >> => 1 \in DOMAIN h BY <1>1
  <2> QED BY <2>1, <2>2
<1>13. OpenTurnRan'
  <2>1. \A u \in openTurn.commands : u \in TurnOf(n + 1, ran, c) \/ (h # << >> /\ Refuses(h[1], u))
    BY DEF Attributed, OpenTurnRan
  <2>2. TurnOf(n + 1, ran, c) = TurnOf(n + 1, Append(ran, c), {})
    <3> HIDE DEF n, c
    <3> QED BY <1>1, <1>2, <1>6 DEF TurnOf
  <2> QED BY <2>1, <2>2, <1>1, <1>4, <1>12 DEF OpenTurnRan
<1>14. ResultsRan' BY <1>1, <1>2, <1>4 DEF Attributed, ResultsRan
<1>15. NamesComeFirst'
  <2>1. CASE seenLifecycle BY <2>1, <1>1 DEF NamesComeFirst
  <2>2. CASE ~seenLifecycle
    <3>1. /\ ~seenResult
          /\ \A i \in DOMAIN h : h[i].type \in {"assistant", "result"} =>
                \E j \in 1..i : h[j].type \in Lifecycle
      BY <2>2 DEF Attributed, NamesComeFirst
    <3>2. PICK first \in DOMAIN h : h[first].type \in Lifecycle BY <2>2 DEF Attributed, NamesComeFirst, Busy
    <3>3. first \in DOMAIN toHost' /\ toHost'[first].type \in Lifecycle BY <3>2, <1>12
    <3>4. ASSUME NEW i \in DOMAIN toHost', toHost'[i].type \in {"assistant", "result"}
          PROVE  \E j \in 1..i : toHost'[j].type \in Lifecycle
      <4>1. CASE i \in DOMAIN h
        <5>1. PICK j \in 1..i : h[j].type \in Lifecycle BY <4>1, <3>1, <3>4, <1>12
        <5>2. j \in DOMAIN h BY <4>1, <1>7
        <5> QED BY <5>1, <5>2, <1>12
      <4>2. CASE i \notin DOMAIN h
        <5>1. first \in 1..i BY <4>2, <1>7, <1>9, <3>2
        <5> QED BY <5>1, <3>3
      <4> QED BY <4>1, <4>2
    <3> QED BY <3>1, <3>3, <3>4, <1>1 DEF NamesComeFirst
  <2> QED BY <2>1, <2>2
<1> QED BY <1>1, <1>8, <1>11, <1>13, <1>14, <1>15 DEF Attributed

\* Whatever the CLI does, the lines it writes are those of the turn it runs.
LEMMA CliKeepsAttribution ==
    ASSUME TypeOK, PipeType, Attributed, Alive, ~QueuedRecords,
           \/ CliReads \/ CliStarts \/ CliFolds \/ CliRefuses \/ CliSpeaks \/ CliLaunches
           \/ CliTaskDone \/ CliAsks \/ CliWithdraws \/ CliEnds
    PROVE  Attributed'
<1>1. UNCHANGED vars /\ UNCHANGED sent /\ sent \in Nat
  BY DEF CliReads, CliStarts, CliFolds, CliRefuses, CliSpeaks, CliLaunches, CliTaskDone, CliAsks,
         CliWithdraws, CliEnds, CliUp, vars, sendVars, PipeType
<1>2. /\ state' = state /\ state # "closed"
      /\ UNCHANGED <<results, openTurn, latchVars>>
  BY <1>1 DEF vars, Attributed, resultVars, turnVars
<1>3. PipeType' BY <1>1, ReadsKeepPipes, CliKeepsPipes
<1>4. ASSUME queue # << >>
      PROVE  /\ Head(queue) \in 0..sent
             /\ Head(queue) # Notification => Head(queue) \in 1..sent
             /\ (\E i \in DOMAIN Tail(queue) : Tail(queue)[i] = Notification)
                   => \E i \in DOMAIN queue : queue[i] = Notification
             /\ Head(queue) = Notification => \E i \in DOMAIN queue : queue[i] = Notification
  <2>1. queue \in Seq(0..sent) BY DEF PipeType
  <2>2. \A i \in DOMAIN Tail(queue) : i + 1 \in DOMAIN queue /\ Tail(queue)[i] = queue[i + 1] BY <1>4, <2>1
  <2>3. 1 \in DOMAIN queue /\ Head(queue) = queue[1] BY <1>4, <2>1
  <2>4. Head(queue) \in 0..sent BY <2>1, <1>1, <2>3
  <2>5. Head(queue) # Notification => Head(queue) \in 1..sent BY <2>4 DEF Notification
  <2> QED BY <2>2, <2>3, <2>4, <2>5
<1>5. CASE CliReads
  <2> DEFINE m == Head(toCli)
  <2>1. m \in InLines(sent) BY <1>5 DEF CliReads, PipeType
  <2>2. CASE m.type = "user"
    <3>1. CliQueues(m.id) BY <1>5, <2>2 DEF CliReads
    <3>2. m.id \in 1..sent BY <2>1, <2>2 DEF InLines
    <3>3. Emit(<< >>) /\ UNCHANGED <<cliTurn, live, ran>> /\ queue' = Append(queue, m.id) BY <3>1 DEF CliQueues
    <3>4. << >> \in Seq(OutLines(sent)) /\ DOMAIN << >> = {} OBVIOUS
    <3>5. Busy' => Busy BY <3>2, <3>3 DEF PipeType, Notification, Busy, Running
    <3> QED BY <1>1, <3>3, <3>4, <3>5, EmissionKeeps
  <2>3. CASE m.type = "cancel"
    <3> DEFINE u == m.id[2]
               first == Line("cancelled", u, TRUE)
               second == Line("response", m.id[1], TRUE)
    <3>1. CliCancels(m.id[1], u) BY <1>5, <2>3 DEF CliReads
    <3>2. m.id[1] \in Controls /\ u \in 1..sent BY <2>1, <2>3 DEF InLines
    <3>3. /\ first \in OutLines(sent) /\ second \in OutLines(sent)
          /\ first.type = "cancelled" /\ second.type = "response"
      BY <3>2 DEF Line, OutLines, Lifecycle, TerminalStates
    <3>4. UNCHANGED <<cliTurn, live, ran>> BY <3>1 DEF CliCancels
    <3>5. Busy' => Busy
      <4>1. CASE queue' = queue BY <3>4, <4>1 DEF Busy, Running
      <4>2. CASE queue' # queue
        <5>1. PICK i \in DOMAIN queue :
                  queue' = SubSeq(queue, 1, i - 1) \o SubSeq(queue, i + 1, Len(queue))
          BY <3>1, <4>2 DEF CliCancels
        <5>2. \A k \in DOMAIN queue' : \E j \in DOMAIN queue : queue'[k] = queue[j]
          <6>1. queue \in Seq(0..sent) BY DEF PipeType
          <6> DEFINE left == SubSeq(queue, 1, i - 1) \o SubSeq(queue, i + 1, Len(queue))
          <6>2. \A k \in DOMAIN left : \E j \in DOMAIN queue : left[k] = queue[j] BY <6>1, WithoutOneElements
          <6> HIDE DEF left
          <6>3. queue' = left BY <5>1 DEF left
          <6> QED BY <6>2, <6>3
        <5> QED BY <3>4, <5>2 DEF Busy, Running
      <4> QED BY <4>1, <4>2
    <3> HIDE DEF first, second
    <3>6. Emit(<<first, second>>) \/ Emit(<<second>>) BY <3>1 DEF CliCancels, first, second
    <3>7. /\ <<first, second>> \in Seq(OutLines(sent)) /\ <<second>> \in Seq(OutLines(sent))
          /\ \A j \in DOMAIN <<first, second>> : <<first, second>>[j].type \in {"cancelled", "response"}
          /\ \A j \in DOMAIN <<second>> : <<second>>[j].type \in {"cancelled", "response"}
      BY <3>3
    <3>8. ASSUME NEW L \in Seq(OutLines(sent)), Emit(L),
                 \A j \in DOMAIN L : L[j].type \in {"cancelled", "response"}
          PROVE  Attributed'
      BY <1>1, <3>4, <3>5, <3>8, EmissionKeeps
    <3> QED BY <3>6, <3>7, <3>8
  <2>4. CASE m.type = "stop_task"
    <3> DEFINE first == Line("task_stopped", m.id[2], TRUE)
               second == Line("response", m.id[1], m.id[2] \in live)
               L == (IF m.id[2] \in live THEN <<first>> ELSE << >>) \o <<second>>
    <3>1. CliStopsTask(m.id[1], m.id[2]) BY <1>5, <2>4 DEF CliReads
    <3>2. m.id[1] \in Controls /\ m.id[2] \in Tasks /\ (m.id[2] \in live) \in BOOLEAN BY <2>1, <2>4 DEF InLines
    <3>3. first \in OutLines(sent) /\ first.type = "task_stopped" BY <3>2 DEF Line, OutLines
    <3>4. second \in OutLines(sent) /\ second.type = "response" BY <3>2 DEF Line, OutLines
    <3>5. UNCHANGED <<cliTurn, queue, ran>> /\ live' = live \ {m.id[2]} /\ Emit(L) BY <3>1 DEF CliStopsTask
    <3>6. Busy' => Busy BY <3>5 DEF Busy, Running
    <3> HIDE DEF first, second
    <3> DEFINE x == IF m.id[2] \in live THEN <<first>> ELSE << >>
               y == <<second>>
    <3>a. x \in Seq(OutLines(sent)) /\ y \in Seq(OutLines(sent)) BY <3>3, <3>4
    <3>b. /\ \A k \in DOMAIN x : x[k].type \in {"task_stopped", "response"}
          /\ \A k \in DOMAIN y : y[k].type \in {"task_stopped", "response"}
      BY <3>3, <3>4
    <3>c. L = x \o y OBVIOUS
    <3> HIDE DEF L, x, y
    <3>7. L \in Seq(OutLines(sent)) /\ \A j \in DOMAIN L : L[j].type \in {"task_stopped", "response"}
      BY <3>a, <3>b, <3>c, Joined, JoinedElements
    <3> HIDE DEF L
    <3> QED BY <1>1, <3>5, <3>6, <3>7, EmissionKeeps
  <2>5. CASE m.type = "answer" BY <1>5, <2>5, <1>2, AttributedKept DEF CliReads
  <2>6. CASE m.type = "interrupt"
    <3>1. CASE Running BY <1>5, <2>6, <3>1, <1>1, EndKeeps DEF CliReads
    <3>2. CASE ~Running BY <1>5, <2>6, <3>2, <1>2, AttributedKept DEF CliReads, cliVars
    <3> QED BY <3>1, <3>2
  <2> HIDE DEF m
  <2>7. m.type \in {"user", "cancel", "stop_task", "answer", "interrupt"} BY <2>1 DEF InLines
  <2> QED BY <2>2, <2>3, <2>4, <2>5, <2>6, <2>7
<1>6. CASE CliStarts \/ CliFolds
  <2>1. /\ queue # << >> /\ queue' = Tail(queue) /\ UNCHANGED <<live, ran>>
        /\ cliTurn.commands \subseteq cliTurn'.commands
        /\ Head(queue) # Notification => Head(queue) \in cliTurn'.commands
    BY <1>6 DEF CliStarts, CliFolds, PipeType, CliTurns, Running
  <2> DEFINE i == Line("init", 0, TRUE)
             s == Line("started", Head(queue), TRUE)
  <2>2. CASE Head(queue) = Notification
    <3>1. Emit(<<i>>) \/ Emit(<< >>) BY <1>6, <2>2 DEF CliStarts, CliFolds
    <3>2. i \in OutLines(sent) /\ i.type = "init" BY DEF Line, OutLines
    <3>3. Busy BY <2>1, <2>2, <1>4 DEF Busy
    <3> HIDE DEF i
    <3>4. /\ <<i>> \in Seq(OutLines(sent)) /\ << >> \in Seq(OutLines(sent))
          /\ \A j \in DOMAIN <<i>> : <<i>>[j].type = "init"
          /\ \A j \in DOMAIN << >> : << >>[j].type = "init"
      BY <3>2
    <3>5. ASSUME NEW L \in Seq(OutLines(sent)), Emit(L), \A j \in DOMAIN L : L[j].type = "init"
          PROVE  Attributed'
      BY <1>1, <2>1, <3>3, <3>5, EmissionKeeps
    <3> QED BY <3>1, <3>4, <3>5
  <2>3. CASE Head(queue) # Notification
    <3>1. Emit(<<s>>) BY <1>6, <2>3 DEF CliStarts, CliFolds
    <3>2. s \in OutLines(sent) /\ s.type = "started" /\ s.id = Head(queue)
      BY <2>1, <2>3, <1>4 DEF Line, OutLines, Lifecycle
    <3>3. "started" \in Lifecycle /\ s.id \in cliTurn'.commands BY <2>1, <2>3, <3>2 DEF Lifecycle
    <3> HIDE DEF s
    <3>4. /\ <<s>> \in Seq(OutLines(sent)) /\ 1 \in DOMAIN <<s>> /\ <<s>>[1] = s
          /\ \A j \in DOMAIN <<s>> : <<s>>[j] = s
      BY <3>2
    <3> DEFINE L == <<s>>
    <3>5. /\ \A j \in DOMAIN L : L[j].type \notin {"result", "queued"}
          /\ \A j \in DOMAIN L : L[j].type = "started" =>
                L[j].id \in cliTurn'.commands \/ (j + 1 \in DOMAIN L /\ Refuses(L[j + 1], L[j].id))
          /\ \A j \in DOMAIN L : L[j].type = "assistant" => Running
          /\ \E j \in DOMAIN L : L[j].type \in Lifecycle
      BY <3>2, <3>3, <3>4
    <3>6. L \in Seq(OutLines(sent)) /\ Emit(L) BY <3>1, <3>4
    <3> HIDE DEF L
    <3> QED BY <1>1, <2>1, <3>5, <3>6, EmissionKeeps
  <2> QED BY <2>2, <2>3
<1>7. CASE CliRefuses
  <2> DEFINE s == Line("started", Head(queue), TRUE)
             r == Line("refused", Head(queue), TRUE)
             d == Line("discarded", Head(queue), TRUE)
  <2>1. /\ queue # << >> /\ Head(queue) # Notification /\ queue' = Tail(queue)
        /\ UNCHANGED <<cliTurn, live, ran>>
        /\ Emit(<<s, r>>) \/ Emit(<<d>>)
    BY <1>7 DEF CliRefuses
  <2>2. /\ s \in OutLines(sent) /\ r \in OutLines(sent) /\ d \in OutLines(sent)
        /\ s.type = "started" /\ r.type = "refused" /\ d.type = "discarded"
        /\ Refuses(r, s.id)
    BY <2>1, <1>4 DEF Line, OutLines, Lifecycle, TerminalStates, Refuses
  <2>3. "started" \in Lifecycle /\ "discarded" \in Lifecycle BY DEF Lifecycle, TerminalStates
  <2> HIDE DEF s, r, d
  <2> DEFINE K == <<s, r>>
             L == <<d>>
  <2>4. /\ K \in Seq(OutLines(sent)) /\ L \in Seq(OutLines(sent))
        /\ DOMAIN K = 1..2 /\ DOMAIN L = 1..1 /\ K[1] = s /\ K[2] = r /\ L[1] = d
    BY <2>2
  <2>5. Emit(K) \/ Emit(L) BY <2>1
  <2> HIDE DEF K, L
  <2>6. CASE Emit(K)
    <3>1. /\ \A j \in DOMAIN K : K[j].type \notin {"result", "queued"}
          /\ \A j \in DOMAIN K : K[j].type = "started" =>
                K[j].id \in cliTurn'.commands \/ (j + 1 \in DOMAIN K /\ Refuses(K[j + 1], K[j].id))
          /\ \A j \in DOMAIN K : K[j].type = "assistant" => Running
          /\ \E j \in DOMAIN K : K[j].type \in Lifecycle
      BY <2>4, <2>2, <2>3
    <3> QED BY <1>1, <2>1, <2>4, <2>6, <3>1, EmissionKeeps
  <2>7. CASE Emit(L) BY <2>2, <2>3, <2>4, <1>1, <2>1, <2>7, EmissionKeeps
  <2> QED BY <2>5, <2>6, <2>7
<1>8. CASE CliSpeaks
  <2> DEFINE a == Line("assistant", 0, TRUE)
             L == <<a>>
  <2>1. /\ Running /\ Emit(L) /\ UNCHANGED <<queue, live, ran>>
        /\ cliTurn'.commands = cliTurn.commands
    BY <1>8 DEF CliSpeaks, PipeType, CliTurns
  <2>2. a \in OutLines(sent) /\ a.type = "assistant" BY DEF Line, OutLines
  <2>3. Busy BY <2>1 DEF Busy
  <2> HIDE DEF a
  <2>4. L \in Seq(OutLines(sent)) /\ \A j \in DOMAIN L : L[j].type = "assistant" BY <2>2
  <2> HIDE DEF L
  <2> QED BY <1>1, <2>1, <2>3, <2>4, EmissionKeeps
<1>9. CASE CliLaunches
  <2>1. PICK t \in Tasks \ launched :
            live' = live \cup {t} /\ Emit(<<Line("task_started", t, TRUE)>>)
    BY <1>9 DEF CliLaunches
  <2> DEFINE a == Line("task_started", t, TRUE)
             L == <<a>>
  <2>2. Running /\ Emit(L) /\ UNCHANGED <<queue, cliTurn, ran>> BY <1>9, <2>1 DEF CliLaunches
  <2>3. a \in OutLines(sent) /\ a.type = "task_started" BY DEF Line, OutLines
  <2>4. Busy BY <2>2 DEF Busy
  <2> HIDE DEF a
  <2>5. L \in Seq(OutLines(sent)) /\ \A j \in DOMAIN L : L[j].type = "task_started" BY <2>3
  <2> HIDE DEF L
  <2> QED BY <1>1, <2>2, <2>4, <2>5, EmissionKeeps
<1>10. CASE CliTaskDone
  <2>1. PICK t \in live :
            Emit(<<Line("task_completed", t, TRUE), Line("task_completed", t, TRUE)>>)
    BY <1>10 DEF CliTaskDone
  <2> DEFINE a == Line("task_completed", t, TRUE)
             L == <<a, a>>
  <2>2. Emit(L) /\ UNCHANGED <<cliTurn, ran>> BY <1>10, <2>1 DEF CliTaskDone
  <2>3. a \in OutLines(sent) /\ a.type = "task_completed" BY <2>1 DEF Line, OutLines, PipeType
  <2>4. Busy BY <2>1 DEF Busy
  <2> HIDE DEF a
  <2>5. L \in Seq(OutLines(sent)) /\ \A j \in DOMAIN L : L[j].type = "task_completed" BY <2>3
  <2> HIDE DEF L
  <2> QED BY <1>1, <2>2, <2>4, <2>5, EmissionKeeps
<1>11. CASE CliAsks
  <2>1. PICK r \in Requests : Emit(<<Line("request", r, TRUE)>>) BY <1>11 DEF CliAsks
  <2> DEFINE a == Line("request", r, TRUE)
             L == <<a>>
  <2>2. Emit(L) /\ UNCHANGED <<queue, cliTurn, live, ran>> BY <1>11, <2>1 DEF CliAsks
  <2>3. a \in OutLines(sent) /\ a.type = "request" BY DEF Line, OutLines
  <2>4. Busy' => Busy BY <2>2 DEF Busy, Running
  <2> HIDE DEF a
  <2>5. L \in Seq(OutLines(sent)) /\ \A j \in DOMAIN L : L[j].type = "request" BY <2>3
  <2> HIDE DEF L
  <2> QED BY <1>1, <2>2, <2>4, <2>5, EmissionKeeps
<1>12. CASE CliWithdraws
  <2> DEFINE a == Line("cancel_request", asking, TRUE)
             L == <<a>>
  <2>1. Emit(L) /\ UNCHANGED <<queue, cliTurn, live, ran>> /\ asking \in Requests
    BY <1>12 DEF CliWithdraws, PipeType
  <2>2. a \in OutLines(sent) /\ a.type = "cancel_request" BY <2>1 DEF Line, OutLines
  <2>3. Busy' => Busy BY <2>1 DEF Busy, Running
  <2> HIDE DEF a
  <2>4. L \in Seq(OutLines(sent)) /\ \A j \in DOMAIN L : L[j].type = "cancel_request" BY <2>2
  <2> HIDE DEF L
  <2> QED BY <1>1, <2>1, <2>3, <2>4, EmissionKeeps
<1>13. CASE CliEnds BY <1>13, <1>1, EndKeeps DEF CliEnds
<1> QED BY <1>5, <1>6, <1>7, <1>8, <1>9, <1>10, <1>11, <1>12, <1>13
\* A session once closed stays closed.
LEMMA AliveBefore ==
    ASSUME [Next]_vars, Alive'
    PROVE  Alive
<1>1. CASE UNCHANGED vars BY <1>1 DEF Alive, vars, closeVars
<1>2. CASE TurnStep
  <2>1. CASE Send \/ EventsHandled \/ TurnSettled \/ ResultLine \/ InitLine
    BY <2>1 DEF Send, EventsHandled, TurnSettled, ResultLine, InitLine, closeVars, Alive
  <2>2. CASE \E u \in Sends : SettleEarly(u) BY <2>2 DEF SettleEarly, closeVars, Alive
  <2>3. CASE \E type \in ContentTypes, nested \in BOOLEAN : ContentLine(type, nested)
    BY <2>3 DEF ContentLine, closeVars, Alive
  <2>4. CASE \E u, status : RetireLine(u, status) BY <2>4 DEF RetireLine, closeVars, Alive
  <2>5. CASE \E u, status : JoinLine(u, status) \/ StartLine(u, status)
    BY <2>5 DEF JoinLine, StartLine, closeVars, Alive
  <2> QED BY <1>2, <2>1, <2>2, <2>3, <2>4, <2>5 DEF TurnStep
<1>3. CASE CloseStep
  BY <1>3 DEF CloseStep, Drain, DrainSettled, DrainDeadline, DrainClose, Close, CloseSignal,
              GraceKill, ProcessExit, DoClose, CloseTransport, Alive
<1>4. CASE TaskStep BY <1>4 DEF TaskStep, TaskLine, closeVars, Alive
<1>5. CASE RequestStep
  BY <1>5 DEF RequestStep, RequestLine, CancelRequestLine, CallbackReturns, closeVars, Alive
<1>6. CASE ControlStep BY <1>6 DEF ControlStep, SendControl, ResponseLine, ControlTimeout, closeVars, Alive
<1> QED BY <1>1, <1>2, <1>3, <1>4, <1>5, <1>6 DEF Next

\* What the host does leaves the turns and the lines alone, or closes the session.
LEMMA HostKeepsAttribution ==
    ASSUME Attributed, Alive,
           \/ HostCall \/ Answer \/ CliExits
           \/ Internal(EventsHandled) \/ Internal(TurnSettled)
           \/ Internal(DrainSettled) \/ Internal(DrainDeadline) \/ Internal(DrainClose)
           \/ Internal(CloseSignal) \/ Internal(GraceKill)
    PROVE  Attributed'
<1>1. UNCHANGED <<toHost, queue, cliTurn, live, ran>> BY DEF HostCall, Answer, CliExits, Internal, cliVars
<1>2. state # "closed" BY DEF Attributed
<1>3. ASSUME state' # "closed", UNCHANGED <<results, openTurn, latchVars>>
      PROVE  Attributed'
  BY <1>1, <1>3, AttributedKept
<1>4. ASSUME ~Alive' PROVE Attributed' BY <1>4 DEF Attributed
<1>5. CASE HostCall
  <2>1. CASE HostSend BY <1>2, <1>3, <2>1 DEF HostSend, Send, resultVars, turnVars
  <2>2. CASE HostEarly BY <1>2, <1>3, <2>2 DEF HostEarly, SettleEarly, resultVars, turnVars
  <2>3. CASE HostCancel \/ HostStopTask
    BY <1>2, <1>3, <2>3 DEF HostCancel, HostStopTask, SendControl, resultVars, turnVars
  <2>4. CASE HostDrain BY <1>2, <1>3, <2>4 DEF HostDrain, Drain, resultVars, turnVars
  <2>5. CASE HostClose BY <1>4, <2>5 DEF HostClose, Close, DoClose, CloseTransport, Alive
  <2> QED BY <1>5, <2>1, <2>2, <2>3, <2>4, <2>5 DEF HostCall
<1>6. CASE Answer BY <1>2, <1>3, <1>6 DEF Answer, CallbackReturns, resultVars, turnVars
<1>7. CASE CliExits BY <1>4, <1>7 DEF CliExits, ProcessExit, Alive
<1>8. CASE Internal(EventsHandled) BY <1>2, <1>3, <1>8 DEF Internal, EventsHandled, resultVars, turnVars
<1>9. CASE Internal(TurnSettled) BY <1>2, <1>3, <1>9 DEF Internal, TurnSettled, StateAfterResult, turnVars
<1>10. CASE Internal(DrainSettled) \/ Internal(DrainDeadline)
  BY <1>2, <1>3, <1>10 DEF Internal, DrainSettled, DrainDeadline, resultVars, turnVars
<1>11. CASE Internal(DrainClose) BY <1>2, <1>4, <1>11 DEF Internal, DrainClose, DoClose, CloseTransport, Alive
<1>12. CASE Internal(CloseSignal) \/ Internal(GraceKill) BY <1>12 DEF Internal, CloseSignal, GraceKill, Alive
<1> QED BY <1>5, <1>6, <1>7, <1>8, <1>9, <1>10, <1>11, <1>12

\* The session reads a line of the turn that it has open, or that the line opens.
LEMMA ReadKeepsAttribution ==
    ASSUME TypeOK, PipeType, Attributed, Alive, Alive', TakeLine
    PROVE  Attributed'
<1> DEFINE h == toHost
           l == Head(h)
           n == Len(results)
           c == cliTurn.commands
           rest == Tail(h)
<1>1. /\ h \in Seq(OutLines(sent)) /\ n \in Nat /\ ran \in Seq(SUBSET (1..sent))
      /\ results \in Seq([turn : 0..MaxTurns, commands : SUBSET ({Foreign} \cup Sends),
                          sends : SUBSET Sends, upTo : Nat])
  BY DEF PipeType, TypeOK, ResultType
<1>2. /\ h # << >> /\ toHost' = rest
      /\ UNCHANGED <<queue, cliTurn, live, ran>>
  BY DEF TakeLine, cliVars
<1>3. /\ state # "closed" /\ Listening
      /\ Numbered(h, n, ran, c) /\ NothingAnnounced /\ NamesComeFirst /\ OpenTurnRan /\ ResultsRan
  BY DEF Attributed, LinesNumberedNow, Listening
<1>4. /\ l \in OutLines(sent) /\ l = h[1] /\ 1 \in DOMAIN h /\ rest \in Seq(OutLines(sent))
      /\ \A i \in DOMAIN rest : i + 1 \in DOMAIN h /\ rest[i] = h[i + 1]
      /\ \A i \in DOMAIN h : i # 1 => i - 1 \in DOMAIN rest /\ rest[i - 1] = h[i]
      /\ DOMAIN rest \subseteq Nat \ {0} /\ DOMAIN h = 1..Len(h) /\ Len(h) \in Nat
      /\ DOMAIN rest = 1..(Len(h) - 1)
  <2> HIDE DEF h
  <2>1. /\ l \in OutLines(sent) /\ l = h[1] /\ 1 \in DOMAIN h /\ rest \in Seq(OutLines(sent))
        /\ DOMAIN h = 1..Len(h) /\ Len(h) \in Nat /\ DOMAIN rest = 1..(Len(h) - 1)
    BY <1>1, <1>2
  <2>2. \A i \in DOMAIN rest : i + 1 \in DOMAIN h /\ rest[i] = h[i + 1] BY <1>1, <1>2
  <2>3. \A i \in DOMAIN h : i # 1 => i - 1 \in DOMAIN rest /\ rest[i - 1] = h[i]
    <3> SUFFICES ASSUME NEW i \in DOMAIN h, i # 1
                 PROVE  i - 1 \in DOMAIN rest /\ rest[i - 1] = h[i]
      OBVIOUS
    <3> HIDE DEF rest
    <3>1. i - 1 \in DOMAIN rest /\ (i - 1) + 1 = i BY <2>1
    <3> QED BY <2>2, <3>1
  <2> QED BY <2>1, <2>2, <2>3
<1>5. /\ Numbered(rest, IF l.type = "result" THEN n + 1 ELSE n, ran, c)
      /\ l.type = "result" => n + 1 \in DOMAIN ran
      /\ l.type = "started" =>
            \/ l.id \in TurnOf(n + 1, ran, c)
            \/ rest # << >> /\ Refuses(rest[1], l.id)
  <2> HIDE DEF h, n, c
  <2> QED BY <1>1, <1>2, <1>3, ReadNumbered DEF l, rest
<1>6. l.type # "queued" BY <1>3, <1>4 DEF NothingAnnounced
<1>7. l.type \in {"assistant", "result"} => seenLifecycle
  <2> SUFFICES ASSUME l.type \in {"assistant", "result"}, ~seenLifecycle PROVE FALSE OBVIOUS
  <2>1. PICK j \in 1..1 : h[j].type \in Lifecycle BY <1>3, <1>4 DEF NamesComeFirst
  <2>2. l.type \in Lifecycle BY <2>1, <1>4
  <2> QED BY <2>2 DEF Lifecycle, TerminalStates
<1>8. NothingAnnounced' BY <1>2, <1>3, <1>4 DEF NothingAnnounced
<1>9. ASSUME l.type \in Lifecycle => seenLifecycle',
             seenLifecycle => seenLifecycle',
             seenResult' = seenResult \/ seenLifecycle'
      PROVE  NamesComeFirst'
  <2>1. CASE seenLifecycle' BY <2>1 DEF NamesComeFirst
  <2>2. CASE ~seenLifecycle'
    <3>1. /\ ~seenResult /\ l.type \notin Lifecycle
          /\ \A i \in DOMAIN h : h[i].type \in {"assistant", "result"} =>
                \E j \in 1..i : h[j].type \in Lifecycle
          /\ Busy => \E j \in DOMAIN h : h[j].type \in Lifecycle
      BY <2>2, <1>3, <1>9 DEF NamesComeFirst
    <3>2. Busy' => \E j \in DOMAIN rest : rest[j].type \in Lifecycle
      <4> SUFFICES ASSUME Busy' PROVE \E j \in DOMAIN rest : rest[j].type \in Lifecycle OBVIOUS
      <4>1. Busy BY <1>2 DEF Busy, Running
      <4>2. PICK j \in DOMAIN h : h[j].type \in Lifecycle BY <4>1, <3>1
      <4>3. j # 1 BY <4>2, <3>1, <1>4
      <4> QED BY <4>2, <4>3, <1>4
    <3>3. ASSUME NEW i \in DOMAIN rest, rest[i].type \in {"assistant", "result"}
          PROVE  \E j \in 1..i : rest[j].type \in Lifecycle
      <4>1. i + 1 \in DOMAIN h /\ rest[i] = h[i + 1] /\ i \in Nat BY <1>4
      <4>2. PICK j \in 1..(i + 1) : h[j].type \in Lifecycle BY <4>1, <3>1, <3>3
      <4>3. j # 1 /\ j \in DOMAIN h BY <4>1, <4>2, <3>1, <1>4
      <4>4. rest[j - 1] = h[j] /\ j - 1 \in 1..i BY <4>1, <4>2, <4>3, <1>4
      <4> QED BY <4>2, <4>4
    <3> QED BY <3>1, <3>2, <3>3, <2>2, <1>2, <1>9 DEF NamesComeFirst
  <2> QED BY <2>1, <2>2
<1>10. ASSUME state' # "closed", UNCHANGED results, l.type # "result", NamesComeFirst',
              \A u \in openTurn'.commands :
                 \/ u \in openTurn.commands /\ ~Refuses(l, u)
                 \/ l.type = "started" /\ u = l.id
       PROVE  Attributed'
  <2>1. LinesNumberedNow' BY <1>2, <1>5, <1>10 DEF LinesNumberedNow
  <2>2. ResultsRan' BY <1>2, <1>3, <1>10 DEF ResultsRan
  <2>3. ASSUME NEW u \in openTurn'.commands
        PROVE  \/ u \in TurnOf(n + 1, ran, c)
               \/ rest # << >> /\ Refuses(rest[1], u)
    <3>1. CASE u \in openTurn.commands /\ ~Refuses(l, u) BY <3>1, <1>3, <1>4 DEF OpenTurnRan
    <3>2. CASE l.type = "started" /\ u = l.id BY <3>2, <1>5
    <3> QED BY <3>1, <3>2, <1>10
  <2>4. OpenTurnRan' BY <2>3, <1>2, <1>10 DEF OpenTurnRan
  <2> QED BY <2>1, <2>2, <2>4, <1>8, <1>10 DEF Attributed
<1>11. ASSUME state' # "closed", UNCHANGED <<results, openTurn, latchVars>>,
              l.type \notin Lifecycle, l.type # "result"
       PROVE  Attributed'
  BY <1>9, <1>11, <1>10 DEF latchVars, Refuses, Lifecycle, TerminalStates
<1>12. ASSUME UNCHANGED vars, l.type \notin Lifecycle, l.type # "result"
       PROVE  Attributed'
  BY <1>3, <1>11, <1>12 DEF vars, resultVars, turnVars
<1>13. CASE l.type = "result"
  <2>1. ResultLine BY <1>13 DEF TakeLine, TerminalStates
  <2>2. /\ results' = Append(results, [turn |-> openTurn.turn, commands |-> openTurn.commands,
                                       sends |-> Claim(openTurn),
                                       upTo |-> Len(log \o ResultThenClose)])
        /\ openTurn' = NoTurn /\ seenLifecycle' = seenLifecycle /\ state' = state
    BY <2>1 DEF ResultLine
  <2>3. /\ Len(results') = n + 1 /\ results'[n + 1].commands = openTurn.commands
        /\ DOMAIN results' = 1..(n + 1) /\ DOMAIN results = 1..n
        /\ \A k \in 1..n : results'[k] = results[k]
    BY <2>2, <1>1
  <2>4. NamesComeFirst' BY <1>7, <1>13, <2>2 DEF NamesComeFirst
  <2>5. openTurn.commands \subseteq ran[n + 1] /\ n + 1 \in DOMAIN ran
    BY <1>4, <1>13, <1>5, <1>3 DEF Refuses, OpenTurnRan, TurnOf
  <2>6. ResultsRan'
    <3> SUFFICES ASSUME NEW k \in 1..(n + 1)
                 PROVE  k \in DOMAIN ran /\ results'[k].commands \subseteq ran[k]
      BY <2>3, <1>2 DEF ResultsRan
    <3>1. CASE k = n + 1 BY <3>1, <2>3, <2>5
    <3>2. CASE k # n + 1
      <4>1. k \in 1..n BY <3>2, <1>1
      <4> QED BY <4>1, <2>3, <1>3 DEF ResultsRan
    <3> QED BY <3>1, <3>2
  <2>7. OpenTurnRan' BY <2>2 DEF OpenTurnRan, NoTurn
  <2>8. LinesNumberedNow' BY <1>2, <1>5, <1>13, <2>3 DEF LinesNumberedNow
  <2> QED BY <1>3, <1>8, <2>2, <2>4, <2>6, <2>7, <2>8 DEF Attributed
<1>14. CASE l.type = "assistant"
  <2>1. ContentLine("assistant", FALSE) BY <1>3, <1>14 DEF TakeLine, TerminalStates
  <2>2. Guess = {} BY <1>7, <1>14 DEF Guess
  <2>3. /\ openTurn' = openTurn \/ openTurn'.commands = {}
        /\ state' = "thinking" /\ UNCHANGED <<results, latchVars>>
    <3>1. CASE TurnOpen BY <2>1, <3>1 DEF ContentLine, StateAfterContent, turnVars, resultVars
    <3>2. CASE ~TurnOpen BY <2>1, <2>2, <3>2 DEF ContentLine, StateAfterContent, Woken, OpenTurn, resultVars
    <3> QED BY <3>1, <3>2
  <2>4. NamesComeFirst' BY <1>9, <1>14, <2>3 DEF latchVars, Lifecycle, TerminalStates
  <2>5. \A u : ~Refuses(l, u) BY <1>14 DEF Refuses
  <2> QED BY <1>10, <1>14, <2>3, <2>4, <2>5
<1>15. CASE l.type = "init"
  <2>a. l.type \notin Lifecycle BY <1>15 DEF Lifecycle, TerminalStates
  <2>1. CASE ~seenResult \/ TurnOpen BY <1>15, <2>1, <1>12, <2>a DEF TakeLine, TerminalStates
  <2>2. CASE seenResult /\ ~TurnOpen
    <3>1. InitLine BY <1>3, <1>15, <2>2 DEF TakeLine, TerminalStates
    <3>2. Guess = {} BY <1>3, <2>2 DEF NamesComeFirst, Guess
    <3>3. /\ openTurn'.commands = {} /\ UNCHANGED <<results, latchVars>>
          /\ state' # "closed"
      BY <3>1, <3>2, <1>3 DEF InitLine, OpenTurn, Woken, resultVars
    <3>4. NamesComeFirst' BY <1>9, <3>3, <2>a DEF latchVars
    <3> QED BY <1>10, <1>15, <3>3, <3>4
  <2> QED BY <2>1, <2>2
<1>16. CASE l.type = "started"
  <2>1. JoinLine(l.id, "started") \/ StartLine(l.id, "started") BY <1>3, <1>16 DEF TakeLine, TerminalStates
  <2>2. /\ seenLifecycle' = TRUE /\ state' # "closed" /\ UNCHANGED results
        /\ \A u \in openTurn'.commands : u \in openTurn.commands \/ u = l.id
    <3>1. CASE JoinLine(l.id, "started")
      <4>1. CASE l.id \in outstanding
        BY <3>1, <4>1, <1>3 DEF JoinLine, TypeOK, TurnType, Turns, NoTurn, resultVars
      <4>2. CASE l.id \notin outstanding BY <3>1, <4>2, <1>3 DEF JoinLine, resultVars
      <4> QED BY <4>1, <4>2
    <3>2. CASE StartLine(l.id, "started") BY <3>2, <1>3 DEF StartLine, OpenTurn, Woken, resultVars
    <3> QED BY <2>1, <3>1, <3>2
  <2>3. NamesComeFirst' BY <2>2 DEF NamesComeFirst
  <2>4. \A u : ~Refuses(l, u) BY <1>16 DEF Refuses
  <2> QED BY <1>10, <1>16, <2>2, <2>3, <2>4
<1>17. CASE l.type \in TerminalStates
  <2>1. RetireLine(l.id, l.type) BY <1>3, <1>17 DEF TakeLine, TerminalStates
  <2>2. seenLifecycle' = TRUE /\ UNCHANGED results BY <2>1 DEF RetireLine, resultVars
  <2>3. /\ state' # "closed"
        /\ \A u \in openTurn'.commands : u \in openTurn.commands /\ ~Refuses(l, u)
    <3>1. CASE l.type # "completed" /\ l.id \in openTurn.commands
      BY <2>1, <3>1 DEF RetireLine, CloseTurn, NoTurn
    <3>2. CASE ~(l.type # "completed" /\ l.id \in openTurn.commands)
      BY <2>1, <3>2, <1>3 DEF RetireLine, turnVars, Refuses
    <3> QED BY <3>1, <3>2
  <2>4. NamesComeFirst' BY <2>2 DEF NamesComeFirst
  <2>5. l.type # "result" BY <1>17 DEF TerminalStates
  <2> QED BY <1>10, <2>2, <2>3, <2>4, <2>5
<1>18. CASE l.type \in {"task_started", "task_completed", "task_stopped"}
  <2>1. \E phase, status : TaskLine(l.id, phase, status)
    <3>1. CASE l.type = "task_started" BY <1>3, <3>1 DEF TakeLine, TerminalStates
    <3>2. CASE l.type = "task_completed" BY <1>3, <3>2 DEF TakeLine, TerminalStates
    <3>3. CASE l.type = "task_stopped" BY <1>3, <3>3 DEF TakeLine, TerminalStates
    <3> QED BY <1>18, <3>1, <3>2, <3>3
  <2>2. UNCHANGED <<results, openTurn, latchVars, state>> BY <2>1 DEF TaskLine, resultVars
  <2>3. l.type \notin Lifecycle /\ l.type # "result" BY <1>18 DEF Lifecycle, TerminalStates
  <2> QED BY <1>3, <1>11, <2>2, <2>3
<1>19. CASE l.type \in {"request", "cancel_request", "response"}
  <2>1. l.type \notin Lifecycle /\ l.type # "result" BY <1>19 DEF Lifecycle, TerminalStates
  <2>2. CASE l.type = "request"
    BY <2>2, <1>11, <2>1 DEF TakeLine, TerminalStates, RequestLine, resultVars, turnVars
  <2>3. CASE l.type = "cancel_request"
    <3>1. CancelRequestLine(l.id) \/ UNCHANGED vars BY <2>3 DEF TakeLine, TerminalStates
    <3>2. CASE UNCHANGED vars BY <1>12, <2>1, <3>2
    <3>3. CASE CancelRequestLine(l.id) BY <3>3, <1>3, <1>11, <2>1 DEF CancelRequestLine, resultVars, turnVars
    <3> QED BY <3>1, <3>2, <3>3
  <2>4. CASE l.type = "response"
    <3>1. ResponseLine(l.id, l.ok) \/ UNCHANGED vars BY <2>4 DEF TakeLine, TerminalStates
    <3>2. CASE UNCHANGED vars BY <1>12, <2>1, <3>2
    <3>3. CASE ResponseLine(l.id, l.ok) BY <3>3, <1>3, <1>11, <2>1 DEF ResponseLine, resultVars, turnVars
    <3> QED BY <3>1, <3>2, <3>3
  <2> QED BY <1>19, <2>2, <2>3, <2>4
<1> HIDE DEF l
<1>20. \/ l.type \in {"result", "assistant", "init", "started"} \/ l.type \in TerminalStates
       \/ l.type \in {"task_started", "task_completed", "task_stopped"}
       \/ l.type \in {"request", "cancel_request", "response"}
  BY <1>4, <1>6 DEF OutLines, Lifecycle
<1> QED BY <1>13, <1>14, <1>15, <1>16, <1>17, <1>18, <1>19, <1>20

\* Until something closes the session, a send that gets a result gets the one of the turn
\* that ran its message, however its lines wait in the pipe.  A CLI that announces what it
\* merely queues (QueuedRecords) is out of the theorem's reach: the announcement can come
\* before the lines of the turn that runs.
THEOREM SendsReachTheirTurns ==
    ASSUME ~QueuedRecords
    PROVE  SystemSpec => []TrueOwner
<1>1. SystemInit => PipeType /\ Attributed BY PipesInitially, AttributedInitially
<1>2. TypeOK /\ PipeType /\ Attributed /\ [SystemNext]_systemVars => PipeType' /\ Attributed'
  <2> SUFFICES ASSUME TypeOK, PipeType, Attributed, [SystemNext]_systemVars
               PROVE  PipeType' /\ Attributed'
    OBVIOUS
  <2>1. [Next]_vars /\ PipeType' BY StepsOfSession
  <2>2. CASE ~Alive' BY <2>1, <2>2 DEF Attributed
  <2>3. CASE Alive'
    <3>1. Alive BY <2>1, <2>3, AliveBefore
    <3>2. CASE UNCHANGED systemVars
      BY <3>1, <3>2, <2>1, AttributedKept DEF systemVars, vars, cliVars, resultVars, turnVars, Attributed
    <3>3. CASE TakeLine BY <2>1, <2>3, <3>1, <3>3, ReadKeepsAttribution
    <3>4. CASE \/ HostCall \/ Answer \/ CliExits
               \/ Internal(EventsHandled) \/ Internal(TurnSettled)
               \/ Internal(DrainSettled) \/ Internal(DrainDeadline) \/ Internal(DrainClose)
               \/ Internal(CloseSignal) \/ Internal(GraceKill)
      BY <2>1, <3>1, <3>4, HostKeepsAttribution
    <3>5. CASE \/ CliReads \/ CliStarts \/ CliFolds \/ CliRefuses \/ CliSpeaks \/ CliLaunches
               \/ CliTaskDone \/ CliAsks \/ CliWithdraws \/ CliEnds
      BY <2>1, <3>1, <3>5, CliKeepsAttribution
    <3> QED BY <3>2, <3>3, <3>4, <3>5 DEF SystemNext
  <2> QED BY <2>2, <2>3
<1>3. TypeOK /\ OwnResult /\ Attributed => TrueOwner BY AttributedGivesOwner
<1> QED BY <1>1, <1>2, <1>3, SystemIsSession, TypeCorrect, ResultsReachTheirOwners, PTL DEF SystemSpec

=============================================================================
