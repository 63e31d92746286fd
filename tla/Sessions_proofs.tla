---------------------------- MODULE Sessions_proofs ----------------------------
(***************************************************************************)
(* The sessions of MCSessions.  The four that take one prompt at a time,   *)
(* for any number of sends, lines, processes and requests: what is told in *)
(* a turn stays in it, and each session keeps the safety of the contract   *)
(* of PromptSession.  Then the goal loop, for every set of objectives,     *)
(* every bound and every way a provider enforces goals: GoalInv is         *)
(* inductive, and what the host is told, what a goal costs and when its    *)
(* loop stops follow; and ExecBackedSession, which drives that loop.       *)
(***************************************************************************)
EXTENDS MCSessions, SequenceTheorems, FiniteSetTheorems, TLAPS

-----------------------------------------------------------------------------
(* ACP                                                                     *)

AcpTypes ==
    /\ acpStage \in {"initialize", "load", "new", "mode", "ready", "failed"}
    /\ acpId \in BOOLEAN /\ acpAgent \in BOOLEAN /\ acpDraining \in BOOLEAN
    /\ acpGuarded \in BOOLEAN
    /\ acpState \in {"idle", "thinking", "waiting_for_approval", "closed"}
    /\ acpSent \in Nat /\ acpAsks \in Nat /\ acpAsked \in Nat
    /\ acpPhase \in {"none", "race", "grace"} /\ acpGuard \in {"none", "timeout", "aborted"}
    /\ acpPrompts \subseteq 1..acpSent /\ acpText \subseteq 1..acpSent
    /\ acpDrains \subseteq 1..acpSent

AcpResults == Seq([status : AcpStatuses, text : SUBSET Nat])

\* Every send but the one in flight has settled, with its own text if the agent is in time.
AcpSettledInv ==
    /\ acpSettled \in AcpResults
    /\ Len(acpSettled) = IF AcpActive THEN acpSent - 1 ELSE acpSent
    /\ ~AcpSlowAgent => \A i \in DOMAIN acpSettled : acpSettled[i].text \subseteq {i}

\* A turn has the text of nobody else, if a cancelled prompt ends within its grace.
AcpTextInv ==
    /\ ~AcpSlowAgent /\ AcpActive => acpText \subseteq {acpSent}
    /\ ~AcpSlowAgent /\ acpAgent => acpPrompts \subseteq IF AcpActive THEN {acpSent} ELSE {}
    /\ acpPhase = "grace" => acpGuard # "none"

\* The agent runs as long as the session is open, unless it still asks once killed.
AcpShutInv == ~AcpLateAsks => (acpAgent <=> acpState # "closed")

AcpInv == AcpTypes /\ AcpSettledInv /\ AcpTextInv /\ AcpShutInv

-----------------------------------------------------------------------------
(* Pi                                                                      *)

PiTypes ==
    /\ piState \in {"idle", "thinking", "closed"}
    /\ piAlive \in BOOLEAN /\ piDraining \in BOOLEAN /\ piActive \in BOOLEAN
    /\ piGuarded \in BOOLEAN /\ piGrace \in BOOLEAN
    /\ piSent \in Nat /\ piStale \in Nat
    /\ piPending \in {"none", "timeout", "aborted"}
    /\ piText \in SUBSET Nat

PiPrompt == [turn : Nat, said : BOOLEAN]
PiLine == [turn : Nat, ends : BOOLEAN]
PiHandler == [turn : Nat, ends : {"no", "completed", "timeout", "aborted"}]

PiSeqs ==
    /\ piQueue \in Seq(PiPrompt) /\ piWire \in Seq(PiLine) /\ piChain \in Seq(PiHandler)
    /\ \A i \in DOMAIN piQueue : piQueue[i].turn <= piSent
    /\ \A i \in DOMAIN piWire : piWire[i].turn <= piSent

PiStatuses == {"completed", "failed", "aborted", "timeout"}
PiResult == [status : PiStatuses, text : SUBSET Nat, by : Nat]

\* Every send but the one in flight has settled, by its own end or without one.
PiSettledInv ==
    /\ piSettled \in Seq(PiResult)
    /\ Len(piSettled) = IF piActive THEN piSent - 1 ELSE piSent
    /\ PiOwnEnd

PiGraceInv ==
    /\ piGrace => piActive /\ piPending # "none"
    /\ ~piAlive => piState = "closed" /\ piQueue = << >>

\* The turn after a line.
PiNextTurn(line) == line.turn + IF line.ends THEN 1 ELSE 0

\* The lines of w come in the order of the turns from the given one, one end each.
PiInOrder(w, first) ==
    \A i \in DOMAIN w : w[i].turn = IF i = 1 THEN first ELSE PiNextTurn(w[i - 1])

\* The turn of the line that follows w.
PiAfter(w, first) == IF w = << >> THEN first ELSE PiNextTurn(w[Len(w)])

PiHasEnd(c) == \E i \in DOMAIN c : c[i].ends # "no"

\* The turn of the next end that will be read: every turn that has settled was ended,
\* but for those that are owed an end; and so is the turn whose end is on the chain.
PiNextEnd == Len(piSettled) + 1 - piStale + IF PiHasEnd(piChain) THEN 1 ELSE 0

PiOrder ==
    /\ PiInOrder(piWire, PiNextEnd)
    /\ \A i \in DOMAIN piQueue : piQueue[i].turn = PiAfter(piWire, PiNextEnd) + i - 1
    /\ piAlive => PiAfter(piWire, PiNextEnd) + Len(piQueue) = piSent + 1

\* The end that was read is that of the turn in flight, and nothing follows it.
PiPendingIsOwn ==
    PiHasEnd(piChain) =>
        /\ piActive /\ piStale = 0
        /\ piChain[Len(piChain)].turn = piSent
        /\ \A i \in DOMAIN piChain : piChain[i].ends # "no" => i = Len(piChain)
        /\ piWire = << >> /\ piQueue = << >>

PiLive == piActive \/ piState # "closed"

PiInv ==
    /\ PiTypes /\ PiSeqs /\ PiSettledInv /\ PiGraceInv
    /\ PiLive => PiOrder /\ PiPendingIsOwn

-----------------------------------------------------------------------------
(* Antigravity                                                             *)

AgyLine == [kind : {"event", "exit"}] \cup [kind : {"result"}, about : Nat]
AgyProc == [alive : BOOLEAN, stdin : Seq(Nat), took : BOOLEAN, chain : Seq(AgyLine), waiters : Seq(Nat)]

\* What a process has to do and has to say: at most one message, that of its one waiter.
AgyProcOK(q) ==
    /\ q.waiters # << >> => Len(q.waiters) = 1
    /\ q.alive => q.stdin = << >> \/ q.stdin = q.waiters
    /\ q.alive /\ q.took => q.stdin # << >>
    /\ \A i \in DOMAIN q.chain :
          /\ q.chain[i].kind = "exit" => i = Len(q.chain) /\ ~q.alive
          /\ q.chain[i].kind = "result" =>
                /\ q.waiters = <<q.chain[i].about>>
                /\ q.alive => q.stdin = << >>
                /\ \A j \in DOMAIN q.chain : q.chain[j].kind = "result" => i = j

AgyWaits == agyPhase \in {"waiting", "interrupting", "terminating"}

\* The messages agy worked on.
AgyTaken == {agyRuns[i] : i \in DOMAIN agyRuns}

\* A live process waits for message m of the turn that waits for it (own), or for nobody.
AgyOfTurn(q, own, m, taken) ==
    /\ q.alive /\ q.waiters # << >> => own /\ q.waiters = <<m>>
    /\ q.alive /\ q.stdin # << >> /\ ~q.took => m \notin taken

AgyProcsInv ==
    /\ agyProcs \in Seq(AgyProc) /\ agyConn \in 0..Len(agyProcs)
    /\ \A c \in DOMAIN agyProcs :
          /\ AgyProcOK(agyProcs[c])
          /\ AgyOfTurn(agyProcs[c], c = agyTurnConn /\ AgyWaits, agySent, AgyTaken)

AgyRunsOnce ==
    /\ agyRuns \in Seq(Nat) /\ \A i \in DOMAIN agyRuns : agyRuns[i] <= agySent
    /\ \A i, j \in DOMAIN agyRuns : agyRuns[i] = agyRuns[j] => i = j

\* A message that agy took was heard of before the exit, or is yet to be.
AgyHasEvent(chain) == \E i \in DOMAIN chain : chain[i].kind = "event"

AgyHeardInv ==
    /\ agyPhase = "starting" => agyAttempt = 0 /\ agySent \notin AgyTaken
    /\ agyPhase = "waiting" => agyConn = agyTurnConn /\ agyConn # 0
    /\ agyPhase = "waiting" /\ agyAttempt = 1 /\ ~agyHeard /\ agySent \in AgyTaken =>
          AgyHasEvent(agyProcs[agyTurnConn].chain)

AgyRunsInv == AgyRunsOnce /\ AgyHeardInv

\* close() and drain() await the last turn there is.
AgyClosingInv ==
    \A w \in agyClosing :
        /\ w.awaits \in {"turn", "drain", "exit"}
        /\ w.awaits = "turn" => agyState = "closed" /\ w.of = agySent
        /\ w.awaits = "drain" => agyDraining /\ w.of = agySent

AgyTypes ==
    /\ agyState \in {"idle", "busy", "closed"} /\ agyDraining \in BOOLEAN /\ agyHeard \in BOOLEAN
    /\ agySent \in Nat /\ agyAttempt \in Nat
    /\ agyPhase \in {"none", "starting", "waiting", "interrupting", "terminating", "leaving", "ending"}
    /\ agyStop \subseteq {"timeout", "aborted"} /\ agyReason \in {"none", "timeout", "aborted"}
    /\ agyPhase # "none" => agyGot \in {0, agySent}

AgyStatuses == {"completed", "failed", "aborted", "timeout"}
AgyResult == [status : AgyStatuses, about : Nat]

AgySettledInv ==
    /\ agySettled \in Seq(AgyResult)
    /\ Len(agySettled) = IF agyPhase = "none" THEN agySent ELSE agySent - 1
    /\ \A i \in DOMAIN agySettled : agySettled[i].about \in {0, i}

AgyInv == AgyTypes /\ AgySettledInv /\ AgyProcsInv /\ AgyRunsInv /\ AgyClosingInv

-----------------------------------------------------------------------------
(* OpenCode                                                                *)

\* A request the host was asked about is being decided, decided or done with.
OcAsksInv ==
    \A r \in OcRequests :
        /\ ocAsked[r] \in {0, 1}
        /\ ocAsked[r] = 0 =>
              /\ ocInput[r] = "none" /\ ocReply[r] = "none" /\ r \notin ocHandled
              /\ ocServer[r] \in {"new", "open"}
        /\ ocAsked[r] = 1 => ocInput[r] = "asking" \/ ocReply[r] # "none" \/ r \in ocHandled
        /\ ocInput[r] = "posting" => ocReply[r] # "none"
        /\ ocInput[r] = "asking" => ocReply[r] = "none" /\ ocServer[r] \in {"new", "open"}
        /\ r \in ocHandled => ocInput[r] = "none" /\ ocReply[r] = "none"
        /\ ocReply[r] # "none" /\ ocServer[r] \notin {"new", "open"} => ocServer[r] = ocReply[r]

OcTypes ==
    /\ ocState \in {"idle", "thinking", "waiting", "closed"}
    /\ ocConn \in {"acquiring", "connecting", "up", "failed", "down"}
    /\ ocDraining \in BOOLEAN /\ ocSent \in Nat
    /\ ocPhase \in {"none", "posting", "interrupting", "ending"}
    /\ ocAbort \in {"none", "timeout", "aborted", "closed"}
    /\ ocOutcome \in {"none", "completed", "failed", "timeout", "aborted"}
    /\ ocHandled \subseteq OcRequests
    /\ ocServer \in [OcRequests -> {"new", "open", "allow", "deny"}]
    /\ ocInput \in [OcRequests -> {"none", "asking", "posting"}]
    /\ ocReply \in [OcRequests -> {"none", "allow", "deny"}]
    /\ ocAsked \in [OcRequests -> Nat] /\ ocPolls \subseteq SUBSET OcRequests

OcResults == Seq({"completed", "failed", "timeout", "aborted"})

OcSettledInv ==
    /\ ocSettled \in OcResults
    /\ Len(ocSettled) = IF OcActive THEN ocSent - 1 ELSE ocSent

OcTurnInv ==
    /\ ocPhase \in {"interrupting", "ending"} => ocOutcome # "none"
    /\ ocConn \in {"acquiring", "connecting", "up"} => ocState # "closed"

OcInv == OcTypes /\ OcSettledInv /\ OcTurnInv /\ OcAsksInv

SessionsInv == AcpInv /\ PiInv /\ AgyInv /\ OcInv

-----------------------------------------------------------------------------
(* ACP: proofs                                                             *)

LEMMA AcpInvHoldsFirst == AcpInit => AcpInv
<1> SUFFICES ASSUME AcpInit PROVE AcpInv OBVIOUS
<1>1. AcpTypes /\ AcpTextInv /\ AcpShutInv BY DEF AcpInit, AcpTypes, AcpTextInv, AcpShutInv, AcpActive
<1>2. AcpSettledInv BY DEF AcpInit, AcpActive, AcpSettledInv, AcpResults
<1>3. QED BY <1>1, <1>2 DEF AcpInv

\* A turn that ends adds what it said, all its own, to what has settled.
LEMMA AcpSettles ==
  ASSUME AcpTypes, AcpSettledInv, NEW r \in [status : AcpStatuses, text : SUBSET Nat],
         ~AcpSlowAgent => r.text \subseteq {Len(acpSettled) + 1}, acpSettled' = Append(acpSettled, r),
         acpSent' = Len(acpSettled) + 1, acpPhase' = "none"
  PROVE  AcpSettledInv'
<1>1. acpSettled' \in AcpResults /\ Len(acpSettled') = acpSent' BY DEF AcpSettledInv, AcpResults
<1>2. ~AcpSlowAgent => \A i \in DOMAIN acpSettled' : acpSettled'[i].text \subseteq {i}
  BY DEF AcpSettledInv, AcpResults
<1>3. QED BY <1>1, <1>2 DEF AcpSettledInv, AcpActive

LEMMA AcpFinishSettles ==
  ASSUME AcpInv, AcpActive, NEW st \in AcpStatuses, AcpFinish(st), UNCHANGED acpSent
  PROVE  AcpSettledInv'
<1> DEFINE r == [status |-> st, text |-> acpText]
<1>1. /\ acpText \in SUBSET Nat /\ Len(acpSettled) = acpSent - 1
      /\ ~AcpSlowAgent => acpText \subseteq {acpSent}
  BY DEF AcpInv, AcpTypes, AcpTextInv, AcpSettledInv
<1>2. acpSent = Len(acpSettled) + 1 BY <1>1 DEF AcpInv, AcpTypes
<1>3. /\ r \in [status : AcpStatuses, text : SUBSET Nat]
      /\ ~AcpSlowAgent => r.text \subseteq {Len(acpSettled) + 1}
  BY <1>1, <1>2
<1>4. acpSettled' = Append(acpSettled, r) /\ acpPhase' = "none" /\ acpSent' = Len(acpSettled) + 1
  BY <1>2 DEF AcpFinish
<1> HIDE DEF r
<1>5. QED BY <1>3, <1>4, AcpSettles DEF AcpInv

LEMMA AcpSettledKept ==
  ASSUME AcpSettledInv, UNCHANGED <<acpSettled, acpSent>>, acpPhase' = "none" <=> acpPhase = "none"
  PROVE  AcpSettledInv'
  BY DEF AcpSettledInv, AcpActive

\* A session that is closed is closed for good, when the killed agent asks no more.
LEMMA AcpShutKept ==
  ASSUME AcpTypes, AcpShutInv, [AcpNext]_acpVars
  PROVE  AcpShutInv' /\ (~AcpLateAsks /\ acpState = "closed" => acpState' = "closed")
<1> DEFINE AcpGoal == /\ acpAgent' <=> acpState' # "closed"
                      /\ acpState = "closed" => acpState' = "closed"
<1> SUFFICES ASSUME ~AcpLateAsks PROVE AcpGoal BY DEF AcpShutInv
<1>1. acpAgent <=> acpState # "closed" BY DEF AcpShutInv
<1>2. CASE UNCHANGED acpVars BY <1>1, <1>2 DEF acpVars
<1>3. CASE AcpHandshake \/ AcpHandshakeFails \/ AcpHandshakeEnds \/ AcpExit
  BY <1>1, <1>3 DEF AcpHandshake, AcpHandshakeFails, AcpHandshakeEnds, AcpExit
<1>4. ASSUME NEW guarded \in BOOLEAN, AcpSend(guarded) PROVE AcpGoal BY <1>1, <1>4 DEF AcpSend, AcpAccepts
<1>5. CASE AcpAnswers BY <1>1, <1>5 DEF AcpAnswers, AcpAnswer, AcpFinish
<1>6. CASE AcpGraceExpires BY <1>1, <1>6 DEF AcpGraceExpires, AcpFinish
<1>7. CASE \/ \E guard \in {"timeout", "aborted"} : AcpGuardFires(guard)
           \/ \E t \in acpPrompts : AcpUpdate(t)
  BY <1>1, <1>7 DEF AcpGuardFires, AcpUpdate
<1>8. CASE AcpAsk \/ AcpAnswerAsk BY <1>1, <1>8 DEF AcpAsk, AcpAnswerAsk
<1>9. CASE AcpClose \/ AcpDrain \/ \E t \in acpDrains : AcpDrained(t)
  BY <1>1, <1>9 DEF AcpClose, AcpDrain, AcpDrained, AcpShut
<1> HIDE DEF AcpGoal
<1>10. QED BY <1>2, <1>3, <1>4, <1>5, <1>6, <1>7, <1>8, <1>9 DEF AcpNext

\* No step lets a text into another turn, when a cancelled prompt ends within its grace.
LEMMA AcpInvKept ==
  ASSUME AcpInv, [AcpNext]_acpVars
  PROVE  AcpInv'
<1> DEFINE Rest == AcpTypes /\ AcpTextInv
<1> USE DEF AcpActive
<1>a. Rest /\ AcpSettledInv BY DEF AcpInv
<1>b. SUFFICES Rest' /\ AcpSettledInv' BY AcpShutKept DEF AcpInv
<1>1. ASSUME UNCHANGED acpVars PROVE Rest' /\ AcpSettledInv'
  BY <1>a, <1>1, AcpSettledKept DEF acpVars, AcpTypes, AcpTextInv
<1>2. ASSUME AcpHandshake \/ AcpHandshakeFails \/ AcpHandshakeEnds \/ AcpExit
      PROVE  Rest' /\ AcpSettledInv'
  <2> USE DEF AcpHandshake, AcpHandshakeFails, AcpHandshakeEnds, AcpExit, acpTurnVars, acpAskVars
  <2>1. AcpTypes'
    <3>1. CASE AcpHandshake BY <1>a, <3>1 DEF AcpTypes
    <3>2. CASE AcpHandshakeFails \/ AcpHandshakeEnds BY <1>a, <3>2 DEF AcpTypes
    <3>3. CASE AcpExit BY <1>a, <3>3 DEF AcpTypes
    <3>4. QED BY <1>2, <3>1, <3>2, <3>3
  <2>2. AcpTextInv' BY <1>a, <1>2 DEF AcpTextInv
  <2>3. QED BY <1>a, <1>2, <2>1, <2>2, AcpSettledKept
<1>3. ASSUME NEW guarded \in BOOLEAN, AcpSend(guarded) PROVE Rest' /\ AcpSettledInv'
  <2>1. Rest'
    <3>1. /\ acpSent' = acpSent + 1 /\ acpText' = {} /\ acpSent \in Nat
          /\ acpPrompts' \in {acpPrompts, acpPrompts \cup {acpSent + 1}}
          /\ UNCHANGED acpDrains
      BY <1>a, <1>3 DEF AcpSend, AcpTypes
    <3>2. acpPrompts' \subseteq 1..acpSent' /\ acpDrains' \subseteq 1..acpSent' /\ acpSent' \in Nat
      BY <1>a, <3>1 DEF AcpTypes
    <3>3. AcpTypes' BY <1>a, <1>3, <3>1, <3>2 DEF AcpSend, AcpAccepts, acpAskVars, AcpTypes
    <3>4. AcpTextInv' BY <1>a, <1>3 DEF AcpSend, AcpAccepts, acpAskVars, AcpTextInv
    <3>5. QED BY <3>3, <3>4
  <2>2. Len(acpSettled) = acpSent /\ acpSent' = acpSent + 1 BY <1>a, <1>3 DEF AcpSend, AcpAccepts, AcpSettledInv
  <2>3. CASE acpId BY <1>3, <2>3, <1>a, <2>2, <2>1 DEF AcpSend, AcpSettledInv, AcpTypes
  <2>4. CASE ~acpId
    <3> DEFINE r == [status |-> "failed", text |-> {}]
    <3>1. r \in [status : AcpStatuses, text : SUBSET Nat] /\ r.text \subseteq {Len(acpSettled) + 1}
      BY DEF AcpStatuses
    <3>2. acpSettled' = Append(acpSettled, r) /\ acpPhase' = "none" /\ acpSent' = Len(acpSettled) + 1
      BY <1>3, <2>2, <2>4 DEF AcpSend, AcpAccepts
    <3> HIDE DEF r
    <3>3. QED BY <1>a, <2>1, <3>1, <3>2, AcpSettles
  <2>5. QED BY <2>3, <2>4
<1>4. ASSUME NEW t \in acpPrompts, NEW st \in {"completed", "aborted", "failed"}, AcpAnswer(t, st)
      PROVE  Rest' /\ AcpSettledInv'
  <2>1. CASE AcpActive /\ t = acpSent
    <3>1. PICK s \in AcpStatuses : AcpFinish(s)
      BY <1>a, <1>4, <2>1 DEF AcpAnswer, AcpStatuses, AcpTypes, AcpTextInv
    <3>2. UNCHANGED acpSent BY <1>4 DEF AcpAnswer
    <3>3. AcpSettledInv' BY <2>1, <3>1, <3>2, AcpFinishSettles
    <3>4. acpPhase' = "none" /\ acpState' \in {"closed", "idle"} BY <3>1 DEF AcpFinish
    <3>5. Rest' BY <1>a, <1>4, <2>1, <3>4 DEF AcpAnswer, acpAskVars, AcpTypes, AcpTextInv
    <3>6. QED BY <3>3, <3>5
  <2>2. CASE ~(AcpActive /\ t = acpSent)
    BY <1>4, <2>2, <1>a, AcpSettledKept DEF AcpAnswer, acpAskVars, AcpTypes, AcpTextInv
  <2>3. QED BY <2>1, <2>2
<1>5. ASSUME NEW guard \in {"timeout", "aborted"}, AcpGuardFires(guard) PROVE Rest' /\ AcpSettledInv'
  BY <1>a, <1>5, AcpSettledKept DEF AcpGuardFires, acpAskVars, AcpTypes, AcpTextInv
<1>6. ASSUME AcpGraceExpires PROVE Rest' /\ AcpSettledInv'
  <2>1. AcpFinish(acpGuard) /\ acpGuard \in AcpStatuses /\ (AcpSlowAgent \/ ~acpAgent) /\ UNCHANGED acpSent
    BY <1>a, <1>6 DEF AcpGraceExpires, AcpTypes, AcpTextInv, AcpStatuses
  <2>2. AcpSettledInv' BY <1>6, <2>1, AcpFinishSettles DEF AcpGraceExpires
  <2>3. acpPhase' = "none" /\ acpState' \in {"closed", "idle"} BY <2>1 DEF AcpFinish
  <2>4. Rest' BY <1>a, <1>6, <2>1, <2>3 DEF AcpGraceExpires, acpAskVars, AcpTypes, AcpTextInv
  <2>5. QED BY <2>2, <2>4
<1>7. ASSUME NEW t \in acpPrompts, AcpUpdate(t) PROVE Rest' /\ AcpSettledInv'
  BY <1>a, <1>7, AcpSettledKept DEF AcpUpdate, acpAskVars, AcpTypes, AcpTextInv
<1>8. ASSUME AcpAsk \/ AcpAnswerAsk \/ AcpClose PROVE Rest' /\ AcpSettledInv'
  <2> USE DEF AcpAsk, AcpAnswerAsk, AcpClose, AcpShut, acpTurnVars, acpAskVars
  <2>1. AcpTypes'
    <3>1. CASE AcpAsk BY <1>a, <3>1 DEF AcpTypes
    <3>2. CASE AcpAnswerAsk BY <1>a, <3>2 DEF AcpTypes
    <3>3. CASE AcpClose BY <1>a, <3>3 DEF AcpTypes
    <3>4. QED BY <1>8, <3>1, <3>2, <3>3
  <2>2. AcpTextInv' BY <1>a, <1>8 DEF AcpTextInv
  <2>3. QED BY <1>a, <1>8, <2>1, <2>2, AcpSettledKept
<1>9. ASSUME AcpDrain \/ (\E t \in acpDrains : AcpDrained(t)) PROVE Rest' /\ AcpSettledInv'
  <2> USE DEF AcpDrain, AcpDrained, AcpShut, acpTurnVars, acpAskVars
  <2>1. AcpActive => acpSent \in 1..acpSent BY <1>a DEF AcpSettledInv, AcpResults, AcpTypes
  <2>2. acpDrains' \subseteq 1..acpSent /\ acpSent' = acpSent BY <1>a, <1>9, <2>1 DEF AcpTypes
  <2>3. AcpTypes' BY <1>a, <1>9, <2>2 DEF AcpTypes
  <2>4. AcpTextInv' BY <1>a, <1>9 DEF AcpTextInv
  <2>5. QED BY <1>a, <1>9, <2>3, <2>4, AcpSettledKept
<1>10. QED BY <1>1, <1>2, <1>3, <1>4, <1>5, <1>6, <1>7, <1>8, <1>9 DEF AcpNext, AcpAnswers

-----------------------------------------------------------------------------
(* OpenCode: proofs                                                        *)

LEMMA OcInvHoldsFirst == OcInit => OcInv
<1> SUFFICES ASSUME OcInit PROVE OcInv OBVIOUS
<1>1. OcTypes BY DEF OcInit, OcTypes
<1>2. OcAsksInv BY DEF OcInit, OcAsksInv
<1>3. OcSettledInv BY DEF OcInit, OcSettledInv, OcActive, OcResults
<1>4. OcTurnInv BY DEF OcInit, OcTurnInv
<1>5. QED BY <1>1, <1>2, <1>3, <1>4 DEF OcInv

LEMMA OcSettledKept ==
  ASSUME OcSettledInv, UNCHANGED <<ocSettled, ocSent>>, ocPhase' = "none" <=> ocPhase = "none"
  PROVE  OcSettledInv'
  BY DEF OcSettledInv, OcActive

\* The steps that leave the requests alone.
LEMMA OcAsksKept ==
  ASSUME OcAsksInv, UNCHANGED <<ocServer, ocInput, ocHandled, ocReply, ocAsked>>
  PROVE  OcAsksInv'
  BY DEF OcAsksInv

LEMMA OcAsksKeptByRequests ==
  ASSUME OcTypes, OcAsksInv, NEW r \in OcRequests,
         \/ OcOpens(r) \/ (OcHandles(r) /\ UNCHANGED <<ocServer, ocHandled, ocReply>>)
         \/ \E decision \in {"allow", "deny"} : OcDecides(r, decision)
         \/ \E ok, delivered \in BOOLEAN : OcPosted(r, ok, delivered)
  PROVE  OcAsksInv'
<1> DEFINE P(q) ==
        /\ ocAsked[q] \in {0, 1}
        /\ ocAsked[q] = 0 =>
              /\ ocInput[q] = "none" /\ ocReply[q] = "none" /\ q \notin ocHandled
              /\ ocServer[q] \in {"new", "open"}
        /\ ocAsked[q] = 1 => ocInput[q] = "asking" \/ ocReply[q] # "none" \/ q \in ocHandled
        /\ ocInput[q] = "posting" => ocReply[q] # "none"
        /\ ocInput[q] = "asking" => ocReply[q] = "none" /\ ocServer[q] \in {"new", "open"}
        /\ q \in ocHandled => ocInput[q] = "none" /\ ocReply[q] = "none"
        /\ ocReply[q] # "none" /\ ocServer[q] \notin {"new", "open"} => ocServer[q] = ocReply[q]
<1> SUFFICES ASSUME NEW q \in OcRequests PROVE P(q)' BY DEF OcAsksInv
<1>1. P(q) /\ P(r) BY DEF OcAsksInv
<1>2. CASE OcOpens(r) BY <1>1, <1>2 DEF OcOpens, OcTypes
<1>3. CASE OcHandles(r) /\ UNCHANGED <<ocServer, ocHandled, ocReply>>
  BY <1>1, <1>3 DEF OcHandles, OcIsNew, OcTypes
<1>4. ASSUME NEW decision \in {"allow", "deny"}, OcDecides(r, decision) PROVE P(q)'
  BY <1>1, <1>4 DEF OcDecides, OcTypes
<1>5. ASSUME NEW ok \in BOOLEAN, NEW delivered \in BOOLEAN, OcPosted(r, ok, delivered) PROVE P(q)'
  <2>1. CASE ok BY <1>1, <1>5, <2>1 DEF OcPosted, OcTypes
  <2>2. CASE ~ok BY <1>1, <1>5, <2>2 DEF OcPosted, OcKeepsReply, OcTypes
  <2>3. QED BY <2>1, <2>2
<1>6. QED BY <1>2, <1>3, <1>4, <1>5

\* No step asks twice, or lets a decision get lost.
LEMMA OcInvKept ==
  ASSUME OcInv, [OcNext]_ocVars
  PROVE  OcInv'
<1>a. OcTypes /\ OcSettledInv /\ OcTurnInv /\ OcAsksInv BY DEF OcInv
<1>b. SUFFICES OcTypes' /\ OcSettledInv' /\ OcTurnInv' /\ OcAsksInv' BY DEF OcInv
<1> USE DEF OcActive
<1>1. ASSUME UNCHANGED ocVars PROVE OcTypes' /\ OcSettledInv' /\ OcTurnInv' /\ OcAsksInv'
  <2> USE DEF ocVars
  <2>1. OcTypes' /\ OcTurnInv' BY <1>a, <1>1 DEF OcTypes, OcTurnInv
  <2>2. QED BY <1>a, <1>1, <2>1, OcSettledKept, OcAsksKept
<1>2. ASSUME OcConnect \/ OcStreamBreaks \/ OcReconnects \/ OcPoll \/ \E poll \in ocPolls : OcPollEnds(poll)
      PROVE  OcTypes' /\ OcSettledInv' /\ OcTurnInv' /\ OcAsksInv'
  <2> USE DEF OcConnect, OcStreamBreaks, OcReconnects, OcPoll, OcPollEnds, OcOpen, ocTurnVars, ocInputVars
  <2>1. UNCHANGED <<ocTurnVars, ocInputVars, ocDraining>> /\ ocPolls' \subseteq SUBSET OcRequests
    BY <1>a, <1>2 DEF OcTypes
  <2>2. /\ ocState' \in {"idle", "thinking", "waiting", "closed"}
        /\ ocConn' \in {"acquiring", "connecting", "up", "failed", "down"}
        /\ ocConn' \in {"acquiring", "connecting", "up"} => ocState' # "closed"
    BY <1>a, <1>2 DEF OcTypes, OcTurnInv
  <2>3. OcTypes' /\ OcTurnInv' BY <1>a, <2>1, <2>2 DEF OcTypes, OcTurnInv
  <2>4. QED BY <1>a, <2>1, <2>3, OcSettledKept, OcAsksKept
<1>3. ASSUME NEW guarded \in BOOLEAN, NEW current \in BOOLEAN, OcSend(guarded, current)
      PROVE  OcTypes' /\ OcSettledInv' /\ OcTurnInv' /\ OcAsksInv'
  <2> USE DEF OcSend, OcHanded, ocInputVars
  <2>1. OcTypes' /\ OcTurnInv' BY <1>a, <1>3 DEF OcTypes, OcTurnInv
  <2>2. OcSettledInv' BY <1>a, <1>3 DEF OcSettledInv, OcTypes
  <2>3. QED BY <1>a, <1>3, <2>1, <2>2, OcAsksKept
<1>4. ASSUME \/ \E outcome \in {"completed", "failed"} : OcResponse(outcome)
             \/ OcAborted \/ OcInterrupted
             \/ \E reason \in {"timeout", "aborted"} : OcGuardFires(reason)
      PROVE  OcTypes' /\ OcSettledInv' /\ OcTurnInv' /\ OcAsksInv'
  <2> USE DEF OcResponse, OcAborted, OcInterrupted, OcGuardFires, ocInputVars
  <2>1. OcTypes' /\ OcTurnInv' BY <1>a, <1>4 DEF OcTypes, OcTurnInv
  <2>2. QED BY <1>a, <1>4, <2>1, OcSettledKept, OcAsksKept
<1>5. ASSUME OcEnds PROVE OcTypes' /\ OcSettledInv' /\ OcTurnInv' /\ OcAsksInv'
  <2> USE DEF OcEnds, ocInputVars
  <2>1. OcTypes' /\ OcTurnInv' BY <1>a, <1>5 DEF OcTypes, OcTurnInv, OcIdle
  <2>2. OcSettledInv' BY <1>a, <1>5 DEF OcTypes, OcTurnInv, OcSettledInv, OcResults
  <2>3. QED BY <1>a, <1>5, <2>1, <2>2, OcAsksKept
<1>6. ASSUME OcClose \/ OcDrain \/ \E t \in ocDrains : OcDrained(t)
      PROVE  OcTypes' /\ OcSettledInv' /\ OcTurnInv' /\ OcAsksInv'
  <2> USE DEF OcClose, OcDrain, OcDrained, OcShuts, ocInputVars
  <2>1. /\ UNCHANGED <<ocInputVars, ocPolls, ocSent, ocPhase, ocOutcome, ocSettled>>
        /\ ocDraining' \in BOOLEAN
        /\ \/ UNCHANGED <<ocState, ocConn, ocAbort>>
           \/ ocState' = "closed" /\ ocConn' = "down" /\ ocAbort' \in {ocAbort, "closed"}
    BY <1>a, <1>6 DEF OcTypes, OcAbortsPost
  <2>3. OcTypes' /\ OcTurnInv' BY <1>a, <2>1 DEF OcTypes, OcTurnInv
  <2>2. QED BY <1>a, <2>1, <2>3, OcSettledKept, OcAsksKept
<1>7. ASSUME NEW r \in OcRequests,
             \/ OcOpens(r) \/ OcSees(r) \/ \E poll \in ocPolls : OcPollReturns(poll, r)
             \/ \E decision \in {"allow", "deny"} : OcDecides(r, decision)
             \/ \E ok, delivered \in BOOLEAN : OcPosted(r, ok, delivered)
      PROVE  OcTypes' /\ OcSettledInv' /\ OcTurnInv' /\ OcAsksInv'
  <2>1. OcAsksInv' BY <1>7, <1>a, OcAsksKeptByRequests DEF OcSees, OcPollReturns
  <2>2. CASE OcOpens(r) BY <1>a, <2>2, <2>1, OcSettledKept DEF OcOpens, ocTurnVars, OcTypes, OcTurnInv
  <2>3. CASE OcSees(r) \/ \E poll \in ocPolls : OcPollReturns(poll, r)
    <3>1. OcHandles(r) /\ UNCHANGED <<ocConn, ocDraining, ocTurnVars, ocServer, ocHandled, ocReply>>
      BY <2>3 DEF OcSees, OcPollReturns
    <3>2. ocPolls' \subseteq SUBSET OcRequests
      <4>1. CASE OcSees(r) BY <1>a, <4>1 DEF OcSees, OcTypes
      <4>2. ASSUME NEW poll \in ocPolls, OcPollReturns(poll, r) PROVE ocPolls' \subseteq SUBSET OcRequests
        BY <1>a, <4>2 DEF OcPollReturns, OcTypes
      <4>3. QED BY <2>3, <4>1, <4>2
    <3>3. OcTypes' /\ OcTurnInv' BY <1>a, <3>1, <3>2 DEF OcHandles, ocTurnVars, OcTypes, OcTurnInv
    <3>4. QED BY <1>a, <2>1, <3>1, <3>3, OcSettledKept DEF ocTurnVars
  <2>4. CASE \E decision \in {"allow", "deny"} : OcDecides(r, decision)
    BY <1>a, <2>4, <2>1, OcSettledKept DEF OcDecides, ocTurnVars, OcTypes, OcTurnInv
  <2>5. ASSUME NEW ok \in BOOLEAN, NEW delivered \in BOOLEAN, OcPosted(r, ok, delivered)
        PROVE  OcTypes' /\ OcSettledInv' /\ OcTurnInv' /\ OcAsksInv'
    <3>3. ocReply[r] \in {"allow", "deny"} BY <1>a, <2>5 DEF OcPosted, OcAsksInv, OcTypes
    <3>4. ocServer' \in [OcRequests -> {"new", "open", "allow", "deny"}]
      BY <1>a, <2>5, <3>3 DEF OcPosted, OcTypes
    <3>5. ocReply' \in [OcRequests -> {"none", "allow", "deny"}] /\ ocHandled' \subseteq OcRequests
      BY <1>a, <2>5 DEF OcPosted, OcKeepsReply, OcTypes
    <3>6. /\ ocState' \in {"idle", "thinking", "closed"}
          /\ ocState' = "closed" => ocState = "closed"
          /\ ocInput' \in [OcRequests -> {"none", "asking", "posting"}]
      BY <1>a, <2>5 DEF OcPosted, OcTypes
    <3>7. UNCHANGED <<ocConn, ocDraining, ocTurnVars, ocPolls, ocAsked>> BY <2>5 DEF OcPosted
    <3>1. OcTypes' /\ OcTurnInv' BY <1>a, <3>4, <3>5, <3>6, <3>7 DEF ocTurnVars, OcTypes, OcTurnInv
    <3>2. QED BY <1>a, <2>1, <2>5, <3>1, OcSettledKept DEF OcPosted, ocTurnVars
  <2>6. QED BY <1>7, <2>2, <2>3, <2>4, <2>5
<1>8. QED
  <2>1. CASE UNCHANGED ocVars BY <2>1, <1>1
  <2>2. ASSUME NEW poll \in ocPolls, NEW r \in poll, OcPollReturns(poll, r)
        PROVE  OcTypes' /\ OcSettledInv' /\ OcTurnInv' /\ OcAsksInv'
    BY <1>a, <2>2, <1>7 DEF OcTypes
  <2>3. QED BY <1>2, <1>3, <1>4, <1>5, <1>6, <1>7, <2>1, <2>2 DEF OcNext, OcTurnSteps

-----------------------------------------------------------------------------
(* Pi: proofs                                                              *)

\* Reading the first of the lines that are in order.
LEMMA PiOrderOfTail ==
  ASSUME NEW w \in Seq(PiLine), w # << >>, NEW first \in Int, PiInOrder(w, first)
  PROVE  /\ w[1].turn = first
         /\ PiInOrder(Tail(w), PiNextTurn(w[1]))
         /\ PiAfter(Tail(w), PiNextTurn(w[1])) = PiAfter(w, first)
<1>1. Len(w) \in Nat /\ Len(w) > 0 /\ 1 \in DOMAIN w OBVIOUS
<1>2. w[1].turn = first BY <1>1 DEF PiInOrder
<1>3. Tail(w) \in Seq(PiLine) /\ Len(Tail(w)) = Len(w) - 1 OBVIOUS
<1>4. \A i \in 1..(Len(w) - 1) : Tail(w)[i] = w[i + 1] OBVIOUS
<1>5. PiInOrder(Tail(w), PiNextTurn(w[1]))
  <2> SUFFICES ASSUME NEW i \in DOMAIN Tail(w)
               PROVE  Tail(w)[i].turn = IF i = 1 THEN PiNextTurn(w[1]) ELSE PiNextTurn(Tail(w)[i - 1])
    BY DEF PiInOrder
  <2>1. i \in 1..(Len(w) - 1) /\ i + 1 \in DOMAIN w /\ i + 1 # 1 /\ (i + 1) - 1 = i BY <1>1, <1>3
  <2>2. w[i + 1].turn = PiNextTurn(w[i]) BY <2>1 DEF PiInOrder
  <2>3. Tail(w)[i] = w[i + 1] /\ (i # 1 => Tail(w)[i - 1] = w[i]) BY <1>4, <2>1
  <2>4. QED BY <2>2, <2>3
<1>6. PiAfter(Tail(w), PiNextTurn(w[1])) = PiAfter(w, first)
  <2>1. CASE Len(w) = 1
    <3>1. Tail(w) = << >>
      <4>1. Tail(w) \in Seq(PiLine) /\ Len(Tail(w)) = 0 BY <1>3, <2>1
      <4>2. \A v \in Seq(PiLine) : v # << >> => Len(v) \in Nat \ {0} BY EmptySeq
      <4>3. QED BY <4>1, <4>2
    <3>2. QED BY <2>1, <3>1 DEF PiAfter
  <2>2. CASE Len(w) # 1
    <3>1. Tail(w) # << >> /\ Tail(w)[Len(Tail(w))] = w[Len(w)] BY <1>1, <1>3, <1>4, <2>2
    <3>2. QED BY <3>1 DEF PiAfter
  <2>3. QED BY <2>1, <2>2
<1>7. QED BY <1>2, <1>5, <1>6

LEMMA PiOrderOfAppend ==
  ASSUME NEW w \in Seq(PiLine), NEW line \in PiLine, NEW first \in Int,
         PiInOrder(w, first), line.turn = PiAfter(w, first)
  PROVE  PiInOrder(Append(w, line), first) /\ PiAfter(Append(w, line), first) = PiNextTurn(line)
<1> DEFINE v == Append(w, line)
<1>1. v \in Seq(PiLine) /\ Len(v) = Len(w) + 1 /\ v[Len(v)] = line /\ v # << >> OBVIOUS
<1>2. \A i \in 1..Len(w) : v[i] = w[i] OBVIOUS
<1>3. DOMAIN v = 1..(Len(w) + 1) /\ DOMAIN w = 1..Len(w) /\ Len(w) \in Nat BY <1>1
<1> HIDE DEF v
<1>4. PiInOrder(v, first)
  <2> SUFFICES ASSUME NEW i \in DOMAIN v
               PROVE  v[i].turn = IF i = 1 THEN first ELSE PiNextTurn(v[i - 1])
    BY DEF PiInOrder
  <2>1. CASE i \in 1..Len(w) BY <1>2, <1>3, <2>1 DEF PiInOrder
  <2>2. CASE i = Len(w) + 1 BY <1>1, <1>2, <1>3, <2>2 DEF PiAfter
  <2>3. QED BY <1>3, <2>1, <2>2
<1>5. PiAfter(v, first) = PiNextTurn(line) BY <1>1 DEF PiAfter
<1>6. QED BY <1>4, <1>5 DEF v

LEMMA PiHasEndOfAppend ==
  ASSUME NEW c \in Seq(PiHandler), NEW h \in PiHandler
  PROVE  PiHasEnd(Append(c, h)) <=> PiHasEnd(c) \/ h.ends # "no"
<1> DEFINE d == Append(c, h)
<1>1. DOMAIN d = 1..(Len(c) + 1) /\ DOMAIN c = 1..Len(c) /\ Len(c) \in Nat /\ d[Len(c) + 1] = h OBVIOUS
<1>2. \A i \in 1..Len(c) : d[i] = c[i] OBVIOUS
<1> HIDE DEF d
<1>3. PiHasEnd(d) <=> PiHasEnd(c) \/ h.ends # "no" BY <1>1, <1>2 DEF PiHasEnd
<1>4. QED BY <1>3 DEF d

\* The order is that of the lines, and of the turns that are owed an end.
LEMMA PiFrame ==
  ASSUME PiLive => PiOrder /\ PiPendingIsOwn, PiLive' => PiLive,
         UNCHANGED <<piWire, piQueue, piChain, piStale, piSettled, piSent, piActive>>,
         piAlive' => piAlive
  PROVE  PiLive' => PiOrder' /\ PiPendingIsOwn'
  BY DEF PiOrder, PiPendingIsOwn, PiNextEnd, PiHasEnd, PiInOrder, PiAfter, PiNextTurn

LEMMA PiSettledKept ==
  ASSUME PiSettledInv, UNCHANGED <<piSettled, piSent, piActive>>
  PROVE  PiSettledInv'
  BY DEF PiSettledInv, PiOwnEnd

LEMMA PiSettles ==
  ASSUME PiTypes, PiSettledInv, piActive, ~piActive', UNCHANGED piSent,
         NEW st \in PiStatuses, NEW by \in {0, piSent}, st = "completed" => by = piSent,
         piSettled' = Append(piSettled, [status |-> st, text |-> piText, by |-> by])
  PROVE  PiSettledInv' /\ Len(piSettled') = Len(piSettled) + 1
<1> DEFINE r == [status |-> st, text |-> piText, by |-> by]
<1>1. Len(piSettled) = piSent - 1 /\ piSettled \in Seq(PiResult) /\ piSent \in Nat BY DEF PiSettledInv, PiTypes
<1>2. r \in PiResult BY <1>1 DEF PiResult, PiTypes
<1>3. r.by = by /\ r.status = st /\ piSettled' = Append(piSettled, r) OBVIOUS
<1> HIDE DEF r
<1>4. piSettled' \in Seq(PiResult) /\ Len(piSettled') = piSent BY <1>1, <1>2, <1>3
<1>5. PiOwnEnd' BY <1>1, <1>2, <1>3 DEF PiSettledInv, PiOwnEnd
<1>6. QED BY <1>1, <1>4, <1>5 DEF PiSettledInv

LEMMA PiAfterIsTurn ==
  ASSUME PiTypes, PiSeqs, PiSettledInv
  PROVE  PiNextEnd \in Int /\ PiAfter(piWire, PiNextEnd) \in Int
<1>1. PiNextEnd \in Int BY DEF PiNextEnd, PiTypes, PiSettledInv
<1>2. piWire # << >> => piWire[Len(piWire)] \in PiLine BY DEF PiSeqs
<1>3. QED BY <1>1, <1>2 DEF PiAfter, PiNextTurn, PiLine

LEMMA PiTurns ==
  ASSUME PiSeqs
  PROVE  /\ \A i \in DOMAIN piQueue : piQueue[i].turn \in Nat /\ piQueue[i].turn <= piSent
         /\ \A i \in DOMAIN piWire : piWire[i] \in PiLine /\ piWire[i].turn \in Nat /\ piWire[i].turn <= piSent
<1>1. \A i \in DOMAIN piQueue : piQueue[i] \in PiPrompt /\ piQueue[i].turn <= piSent BY DEF PiSeqs
<1>2. \A i \in DOMAIN piWire : piWire[i] \in PiLine /\ piWire[i].turn <= piSent BY DEF PiSeqs
<1>3. QED BY <1>1, <1>2 DEF PiPrompt, PiLine

LEMMA PiInvHoldsFirst == PiInit => PiInv
<1> SUFFICES ASSUME PiInit PROVE PiInv OBVIOUS
<1>1. PiTypes /\ PiGraceInv BY DEF PiInit, PiTypes, PiGraceInv
<1>2. PiSeqs BY DEF PiInit, PiSeqs
<1>3. PiSettledInv BY DEF PiInit, PiSettledInv, PiOwnEnd
<1>4. PiNextEnd = 1 /\ ~PiHasEnd(piChain) /\ piWire = << >> /\ piQueue = << >> /\ piSent = 0
  BY DEF PiInit, PiNextEnd, PiHasEnd
<1>5. PiInOrder(piWire, PiNextEnd) /\ PiAfter(piWire, PiNextEnd) = 1 BY <1>4 DEF PiInOrder, PiAfter
<1>6. PiOrder /\ PiPendingIsOwn BY <1>4, <1>5 DEF PiOrder, PiPendingIsOwn
<1>7. QED BY <1>1, <1>2, <1>3, <1>6 DEF PiInv

\* The steps that neither move a line nor settle a turn.
LEMMA PiSilentSteps ==
  ASSUME PiInv,
         \/ UNCHANGED piVars \/ PiClose \/ PiDrain \/ \E t \in piDrains : PiDrained(t)
         \/ \E st \in {"timeout", "aborted"} : PiGuardFires(st)
  PROVE  PiInv'
<1> USE DEF piVars, piTurnVars, PiClose, PiDrain, PiDrained, PiGuardFires
<1>1. UNCHANGED <<piWire, piQueue, piChain, piStale, piSettled, piSent, piActive, piAlive, piText>> OBVIOUS
<1>2. piState' \in {piState, "closed"} /\ piDraining' \in BOOLEAN /\ piGuarded' = piGuarded
  BY DEF PiInv, PiTypes
<1>3. \/ UNCHANGED <<piGrace, piPending>>
      \/ piGrace' = TRUE /\ piActive /\ piPending' \in {"timeout", "aborted"}
  OBVIOUS
<1>4. PiTypes' BY <1>1, <1>2, <1>3 DEF PiInv, PiTypes
<1>5. PiGraceInv' BY <1>1, <1>2, <1>3 DEF PiInv, PiGraceInv
<1>6. PiSeqs' BY <1>1 DEF PiInv, PiSeqs
<1>7. PiSettledInv' BY <1>1, PiSettledKept DEF PiInv
<1>8. (PiLive => PiOrder /\ PiPendingIsOwn) /\ (PiLive' => PiLive) BY <1>1, <1>2 DEF PiInv, PiLive
<1>9. PiLive' => PiOrder' /\ PiPendingIsOwn' BY <1>1, <1>8, PiFrame
<1>10. QED BY <1>4, <1>5, <1>6, <1>7, <1>9 DEF PiInv

LEMMA PiSendKeeps ==
  ASSUME PiInv, NEW guarded \in BOOLEAN, PiSend(guarded)
  PROVE  PiInv'
<1>1. /\ piAlive /\ ~piActive /\ piState # "closed" /\ PiLive
      /\ piSent \in Nat /\ piQueue \in Seq(PiPrompt)
  BY DEF PiSend, PiInv, PiGraceInv, PiTypes, PiLive, PiSeqs
<1> DEFINE new == [turn |-> piSent + 1, said |-> FALSE]
<1>2. new \in PiPrompt /\ new.turn = piSent + 1 BY <1>1 DEF PiPrompt
<1>3. piQueue' = Append(piQueue, new) /\ UNCHANGED <<piWire, piChain, piStale, piSettled, piAlive>>
  BY <1>1 DEF PiSend
<1>4. piSent' = piSent + 1 /\ piActive' = TRUE /\ piState' = "thinking" /\ piText' = {} /\ piGuarded' = guarded
      /\ UNCHANGED <<piDraining, piGrace, piPending>>
  BY DEF PiSend
<1> HIDE DEF new
<1>5. PiTypes' /\ PiGraceInv' BY <1>1, <1>3, <1>4 DEF PiInv, PiTypes, PiGraceInv
<1>6. /\ piQueue' \in Seq(PiPrompt) /\ Len(piQueue') = Len(piQueue) + 1
      /\ piQueue'[Len(piQueue) + 1] = new
      /\ \A i \in DOMAIN piQueue : piQueue'[i] = piQueue[i]
      /\ DOMAIN piQueue' = 1..(Len(piQueue) + 1) /\ DOMAIN piQueue = 1..Len(piQueue)
      /\ Len(piQueue) \in Nat
  BY <1>1, <1>2, <1>3
<1>7. PiSeqs'
  <2>1. \A i \in DOMAIN piQueue : piQueue[i].turn \in Nat /\ piQueue[i].turn <= piSent BY PiTurns DEF PiInv
  <2>2. \A i \in DOMAIN piQueue' : piQueue'[i].turn <= piSent' BY <1>1, <1>2, <1>4, <1>6, <2>1
  <2>3. \A i \in DOMAIN piWire : piWire[i].turn \in Nat /\ piWire[i].turn <= piSent BY PiTurns DEF PiInv
  <2>4. \A i \in DOMAIN piWire' : piWire'[i].turn <= piSent' BY <1>1, <1>3, <1>4, <2>3
  <2>5. QED BY <1>3, <1>6, <2>2, <2>4 DEF PiInv, PiSeqs
<1>8. PiSettledInv' BY <1>1, <1>3, <1>4 DEF PiInv, PiSettledInv, PiOwnEnd
<1>9. ~PiHasEnd(piChain) /\ PiOrder BY <1>1 DEF PiInv, PiPendingIsOwn
<1>10. PiPendingIsOwn' BY <1>3, <1>9 DEF PiPendingIsOwn, PiHasEnd
<1>11. PiNextEnd' = PiNextEnd BY <1>3 DEF PiNextEnd, PiHasEnd
<1>12. PiInOrder(piWire, PiNextEnd)' /\ PiAfter(piWire, PiNextEnd)' = PiAfter(piWire, PiNextEnd)
  BY <1>3, <1>9, <1>11 DEF PiOrder, PiInOrder, PiAfter, PiNextTurn
<1>13. PiOrder'
  <2> DEFINE k == PiAfter(piWire, PiNextEnd)
  <2>1. k + Len(piQueue) = piSent + 1 /\ \A i \in DOMAIN piQueue : piQueue[i].turn = k + i - 1
    BY <1>1, <1>9 DEF PiOrder
  <2>2. k \in Int BY PiAfterIsTurn DEF PiInv
  <2> HIDE DEF k
  <2>3. \A i \in DOMAIN piQueue' : piQueue'[i].turn = k + i - 1 BY <1>1, <1>2, <1>6, <2>1, <2>2
  <2>4. k + Len(piQueue') = piSent' + 1 BY <1>1, <1>4, <1>6, <2>1, <2>2
  <2>5. PiAfter(piWire, PiNextEnd)' = k BY <1>12 DEF k
  <2>6. QED BY <1>12, <2>3, <2>4, <2>5 DEF PiOrder
<1>14. QED BY <1>5, <1>7, <1>8, <1>10, <1>13 DEF PiInv

LEMMA PiWritesKeeps ==
  ASSUME PiInv, NEW ends \in BOOLEAN, PiWrites(ends)
  PROVE  PiInv'
<1> DEFINE line == [turn |-> piQueue[1].turn, ends |-> ends]
           first == PiNextEnd
<1>1. /\ piAlive /\ piQueue # << >> /\ piQueue \in Seq(PiPrompt) /\ piWire \in Seq(PiLine)
      /\ Len(piQueue) \in Nat /\ Len(piQueue) > 0
      /\ piQueue[1] \in PiPrompt /\ piQueue[1].turn \in Nat /\ piQueue[1].turn <= piSent
  BY PiTurns DEF PiWrites, PiInv, PiSeqs
<1>2. line \in PiLine /\ line.turn = piQueue[1].turn /\ line.ends = ends BY <1>1 DEF PiLine
<1>3. /\ piWire' = Append(piWire, line)
      /\ UNCHANGED <<piState, piAlive, piDraining, piSent, piActive, piGuarded, piPending, piGrace,
                     piStale, piText, piChain, piSettled>>
  BY <1>1 DEF PiWrites
<1>4. piQueue' = IF ends THEN Tail(piQueue) ELSE [piQueue EXCEPT ![1].said = TRUE] BY DEF PiWrites
<1> HIDE DEF line
<1>5. PiTypes' /\ PiGraceInv' BY <1>1, <1>3 DEF PiInv, PiTypes, PiGraceInv
<1>6. PiSettledInv' BY <1>3, PiSettledKept DEF PiInv
<1>7. /\ piQueue' \in Seq(PiPrompt)
      /\ Len(piQueue') = Len(piQueue) - IF ends THEN 1 ELSE 0
      /\ \A i \in DOMAIN piQueue' : piQueue'[i].turn = piQueue[i + IF ends THEN 1 ELSE 0].turn
      /\ DOMAIN piQueue' = 1..Len(piQueue') /\ DOMAIN piQueue = 1..Len(piQueue)
  <2>1. CASE ends BY <1>4, <2>1, <1>1
  <2>2. CASE ~ends
    <3>1. piQueue' = [piQueue EXCEPT ![1] = [@ EXCEPT !.said = TRUE]] BY <1>4, <2>2
    <3>2. [piQueue[1] EXCEPT !.said = TRUE] \in PiPrompt
          /\ [piQueue[1] EXCEPT !.said = TRUE].turn = piQueue[1].turn
      BY <1>1 DEF PiPrompt
    <3>3. piQueue' \in Seq(PiPrompt) /\ Len(piQueue') = Len(piQueue)
          /\ \A i \in DOMAIN piQueue : piQueue'[i].turn = piQueue[i].turn
      BY <1>1, <3>1, <3>2
    <3>4. QED BY <1>1, <2>2, <3>3
  <2>3. QED BY <2>1, <2>2
<1>8. /\ piWire' \in Seq(PiLine) /\ Len(piWire') = Len(piWire) + 1 /\ Len(piWire) \in Nat
      /\ DOMAIN piWire' = 1..(Len(piWire) + 1) /\ DOMAIN piWire = 1..Len(piWire)
      /\ piWire'[Len(piWire) + 1] = line /\ \A i \in 1..Len(piWire) : piWire'[i] = piWire[i]
  BY <1>1, <1>2, <1>3
<1>9. PiSeqs'
  <2>1. \A i \in DOMAIN piQueue : piQueue[i].turn <= piSent BY PiTurns DEF PiInv
  <2>2. \A i \in DOMAIN piQueue' : (i + IF ends THEN 1 ELSE 0) \in DOMAIN piQueue
    <3> SUFFICES ASSUME NEW i \in 1..Len(piQueue')
                 PROVE  (i + IF ends THEN 1 ELSE 0) \in 1..Len(piQueue)
      BY <1>7
    <3>1. CASE ends BY <1>7, <3>1, <1>1
    <3>2. CASE ~ends BY <1>1, <1>7, <3>2
    <3>3. QED BY <3>1, <3>2
  <2>3. \A i \in DOMAIN piQueue' : piQueue'[i].turn <= piSent BY <1>7, <2>1, <2>2
  <2>4. \A i \in DOMAIN piWire' : piWire'[i].turn <= piSent BY <1>1, <1>2, <1>8, PiTurns DEF PiInv
  <2>5. QED BY <1>3, <1>7, <1>8, <2>3, <2>4 DEF PiInv, PiSeqs
<1>10. ASSUME PiLive' PROVE PiOrder' /\ PiPendingIsOwn'
  <2>1. PiOrder /\ PiPendingIsOwn BY <1>3, <1>10 DEF PiInv, PiLive
  <2>2. ~PiHasEnd(piChain) /\ piChain' = piChain /\ PiNextEnd' = first
    BY <1>1, <1>3, <2>1 DEF PiPendingIsOwn, PiNextEnd, PiHasEnd
  <2>3. PiPendingIsOwn' BY <2>2 DEF PiPendingIsOwn, PiHasEnd
  <2>4. first \in Int /\ PiAfter(piWire, first) \in Int BY PiAfterIsTurn DEF PiInv
  <2>5. PiInOrder(piWire, first) /\ line.turn = PiAfter(piWire, first) BY <1>1, <2>4, <1>2, <2>1 DEF PiOrder
  <2> HIDE DEF first
  <2>6. PiInOrder(Append(piWire, line), first) /\ PiAfter(Append(piWire, line), first) = PiNextTurn(line)
    BY <1>1, <1>2, <2>4, <2>5, PiOrderOfAppend
  <2>7. PiInOrder(piWire', first) /\ PiAfter(piWire', first) = PiNextTurn(line) BY <1>3, <2>6
  <2> DEFINE k == PiAfter(piWire, first)
             d == IF ends THEN 1 ELSE 0
  <2>8. PiNextTurn(line) = k + d /\ d \in {0, 1} BY <1>2, <2>5 DEF PiNextTurn
  <2>9. /\ \A i \in DOMAIN piQueue : piQueue[i].turn = k + i - 1
        /\ k + Len(piQueue) = piSent + 1
    BY <1>1, <2>1 DEF PiOrder, first
  <2>10. k \in Int BY <2>4
  <2>11. /\ Len(piQueue') = Len(piQueue) - d
         /\ \A i \in 1..Len(piQueue') : piQueue'[i].turn = piQueue[i + d].turn
    BY <1>7
  <2> HIDE DEF k, d
  <2>12. \A i \in 1..Len(piQueue') : piQueue'[i].turn = (k + d) + i - 1
    <3> SUFFICES ASSUME NEW i \in 1..Len(piQueue')
                 PROVE  piQueue'[i].turn = (k + d) + i - 1
      OBVIOUS
    <3>1. d \in Int /\ i \in Int /\ i + d \in 1..Len(piQueue) BY <1>1, <2>8, <2>11
    <3>2. piQueue[i + d].turn = k + (i + d) - 1 BY <1>7, <2>9, <3>1
    <3>3. QED BY <2>10, <2>11, <3>1, <3>2
  <2>13. (k + d) + Len(piQueue') = piSent + 1 BY <1>1, <2>8, <2>9, <2>10, <2>11 DEF PiInv, PiTypes
  <2>14. QED BY <1>3, <1>7, <2>2, <2>3, <2>7, <2>8, <2>12, <2>13 DEF PiOrder
<1>11. QED BY <1>5, <1>6, <1>9, <1>10 DEF PiInv

\* The line that is read is of the next turn that ends.
LEMMA PiReadsKeeps ==
  ASSUME PiInv, PiReads
  PROVE  PiInv'
<1> DEFINE line == piWire[1]
           first == PiNextEnd
           st == IF piPending = "none" THEN "completed" ELSE piPending
           handler == [line EXCEPT !.ends = IF line.ends THEN st ELSE "no"]
           dropped == PiStaleEnd(line) \/ ~piActive
<1>1. /\ piWire # << >> /\ piWire \in Seq(PiLine) /\ 1 \in DOMAIN piWire
      /\ line \in PiLine /\ line.turn \in Nat /\ line.ends \in BOOLEAN /\ line.turn <= piSent
  BY PiTurns DEF PiReads, PiInv, PiSeqs, PiLine
<1>2. /\ piStale' = IF PiStaleEnd(line) THEN piStale - 1 ELSE piStale
      /\ piWire' = Tail(piWire)
      /\ UNCHANGED <<piState, piAlive, piDraining, piSent, piActive, piGuarded, piPending, piGrace,
                     piQueue, piSettled>>
  BY <1>1 DEF PiReads
<1>3. IF dropped THEN UNCHANGED <<piText, piChain>>
      ELSE /\ piText' = IF line.ends THEN piText ELSE piText \cup {line.turn}
           /\ piChain' = Append(piChain, handler)
  BY <1>1 DEF PiReads
<1>4. /\ handler \in PiHandler /\ handler.turn = line.turn
      /\ handler.ends # "no" <=> line.ends
  BY <1>1 DEF PiInv, PiTypes, PiLine, PiHandler
<1> HIDE DEF line, handler
<1>5. PiTypes' /\ PiGraceInv'
  <2>1. piText' \in SUBSET Nat BY <1>1, <1>3 DEF PiInv, PiTypes
  <2>2. piStale' \in Nat BY <1>2 DEF PiInv, PiTypes, PiStaleEnd
  <2>3. QED BY <1>2, <2>1, <2>2 DEF PiInv, PiTypes, PiGraceInv
<1>6. PiSettledInv' BY <1>2, PiSettledKept DEF PiInv
<1>7. PiSeqs'
  <2>1. piWire' \in Seq(PiLine) /\ Len(piWire') = Len(piWire) - 1
        /\ \A i \in 1..(Len(piWire) - 1) : piWire'[i] = piWire[i + 1]
    BY <1>1, <1>2
  <2>2. \A i \in DOMAIN piWire' : piWire'[i].turn <= piSent BY <1>1, <2>1, PiTurns DEF PiInv
  <2>3. piChain' \in Seq(PiHandler)
    <3>1. piChain \in Seq(PiHandler) BY DEF PiInv, PiSeqs
    <3>2. piChain' \in {piChain, Append(piChain, handler)} BY <1>3
    <3>3. QED BY <1>4, <3>1, <3>2
  <2>4. QED BY <1>2, <2>1, <2>2, <2>3 DEF PiInv, PiSeqs
<1>8. ASSUME PiLive' PROVE PiOrder' /\ PiPendingIsOwn'
  <2>1. PiOrder /\ PiPendingIsOwn /\ PiLive BY <1>2, <1>8 DEF PiInv, PiLive
  <2>2. ~PiHasEnd(piChain) BY <1>1, <2>1 DEF PiPendingIsOwn
  <2>3. /\ first \in Int /\ first = Len(piSettled) + 1 - piStale
        /\ Len(piSettled) \in Nat /\ piStale \in Nat /\ piSent \in Nat
        /\ Len(piSettled) = IF piActive THEN piSent - 1 ELSE piSent
    BY <2>2 DEF PiNextEnd, PiInv, PiTypes, PiSettledInv
  <2>4. PiInOrder(piWire, first) BY <2>1 DEF PiOrder
  <2>5. first' = Len(piSettled) + 1 - piStale' + IF PiHasEnd(piChain') THEN 1 ELSE 0
    BY <1>2 DEF PiNextEnd, PiHasEnd
  <2> HIDE DEF first
  <2>6. /\ line.turn = first /\ PiInOrder(Tail(piWire), PiNextTurn(line))
        /\ PiAfter(Tail(piWire), PiNextTurn(line)) = PiAfter(piWire, first)
    BY <1>1, <2>3, <2>4, PiOrderOfTail DEF line
  <2>7. \* An end that is not owed is the end of the turn in flight.
        line.ends /\ piStale = 0 => piActive /\ line.turn = piSent
    BY <1>1, <2>3, <2>6
  <2>8. PiHasEnd(piChain') <=> line.ends /\ piStale = 0
    <3>1. CASE dropped BY <1>1, <1>3, <2>2, <2>3, <2>7, <3>1 DEF PiStaleEnd
    <3>2. CASE ~dropped
      <4>1. piChain' = Append(piChain, handler) /\ piChain \in Seq(PiHandler) BY <1>3, <3>2 DEF PiInv, PiSeqs
      <4>2. PiHasEnd(piChain') <=> line.ends BY <1>4, <2>2, <4>1, PiHasEndOfAppend
      <4>3. line.ends => piStale = 0 BY <2>3, <3>2 DEF PiStaleEnd
      <4>4. QED BY <4>2, <4>3
    <3>3. QED BY <3>1, <3>2
  <2>9. first' = PiNextTurn(line) BY <1>1, <1>2, <2>3, <2>5, <2>6, <2>8 DEF PiStaleEnd, PiNextTurn
  <2>10. PiOrder' BY <1>2, <2>6, <2>9, <2>1 DEF PiOrder, first
  <2>11. PiPendingIsOwn'
    <3> SUFFICES ASSUME PiHasEnd(piChain')
                 PROVE  /\ piActive' /\ piStale' = 0
                        /\ piChain'[Len(piChain')].turn = piSent'
                        /\ \A i \in DOMAIN piChain' : piChain'[i].ends # "no" => i = Len(piChain')
                        /\ piWire' = << >> /\ piQueue' = << >>
      BY DEF PiPendingIsOwn, PiHasEnd
    <3>1. line.ends /\ piStale = 0 /\ piActive /\ line.turn = piSent /\ piStale' = 0 /\ piActive'
      BY <1>2, <2>7, <2>8 DEF PiStaleEnd
    <3>2. piChain' = Append(piChain, handler) /\ piChain \in Seq(PiHandler)
      BY <1>3, <2>3, <3>1 DEF PiStaleEnd, PiInv, PiSeqs
    <3>3. /\ piChain'[Len(piChain')] = handler
          /\ \A i \in DOMAIN piChain' : piChain'[i].ends # "no" => i = Len(piChain')
      BY <1>4, <3>2, <2>2 DEF PiHasEnd
    <3>4. PiNextTurn(line) = piSent + 1 BY <2>3, <3>1 DEF PiNextTurn
    <3>5. piWire' = << >>
      <4> SUFFICES ASSUME piWire' # << >> PROVE FALSE OBVIOUS
      <4>1. 1 \in DOMAIN piWire' /\ piWire'[1].turn \in Nat /\ piWire'[1].turn <= piSent'
        <5>1. piWire' \in Seq(PiLine) /\ 1 \in DOMAIN piWire' /\ piWire'[1] \in PiLine BY <1>7 DEF PiSeqs
        <5>2. QED BY <1>7, <5>1 DEF PiSeqs, PiLine
      <4>2. piWire'[1].turn = piSent + 1 BY <1>2, <2>6, <3>4, <4>1 DEF PiInOrder
      <4>3. QED BY <1>2, <2>3, <4>1, <4>2
    <3>6. piQueue' = << >>
      <4> SUFFICES ASSUME piQueue' # << >> PROVE FALSE OBVIOUS
      <4>1. 1 \in DOMAIN piQueue /\ piQueue' = piQueue BY <1>2 DEF PiInv, PiSeqs
      <4>2. piQueue[1].turn <= piSent BY <4>1, PiTurns DEF PiInv
      <4>3. PiAfter(piWire, first) = piSent + 1 BY <1>2, <2>6, <3>4, <3>5 DEF PiAfter
      <4>4. piQueue[1].turn = piSent + 1 + 1 - 1 BY <2>1, <4>1, <4>3 DEF PiOrder, first
      <4>5. QED BY <2>3, <4>2, <4>4
    <3>7. QED BY <1>2, <1>4, <3>1, <3>3, <3>5, <3>6
  <2>12. QED BY <2>10, <2>11
<1>9. QED BY <1>5, <1>6, <1>7, <1>8 DEF PiInv

\* A handler that returns, and behind the end of a turn its settlement.
LEMMA PiHandlesKeeps ==
  ASSUME PiInv, PiHandles
  PROVE  PiInv'
<1> DEFINE h == piChain[1]
<1>1. /\ piChain # << >> /\ piChain \in Seq(PiHandler) /\ 1 \in DOMAIN piChain /\ h \in PiHandler
      /\ Len(piChain) \in Nat /\ DOMAIN piChain = 1..Len(piChain)
  BY DEF PiHandles, PiInv, PiSeqs
<1>2. /\ piChain' = Tail(piChain)
      /\ UNCHANGED <<piAlive, piDraining, piSent, piGuarded, piStale, piQueue, piWire>>
  BY DEF PiHandles
<1>3. IF h.ends = "no" THEN UNCHANGED <<piTurnVars, piState>> ELSE PiResolve(h.ends, h.turn)
  BY <1>1 DEF PiHandles
<1>4. /\ piChain' \in Seq(PiHandler) /\ Len(piChain') = Len(piChain) - 1
      /\ DOMAIN piChain' = 1..(Len(piChain) - 1)
      /\ \A i \in 1..(Len(piChain) - 1) : piChain'[i] = piChain[i + 1]
  BY <1>1, <1>2
<1>5. PiSeqs' BY <1>2, <1>4 DEF PiInv, PiSeqs
<1> HIDE DEF h
<1>6. CASE h.ends = "no" \/ ~piActive
  <2>1. UNCHANGED <<piTurnVars, piState>> BY <1>3, <1>6 DEF PiResolve
  <2>2. PiTypes' /\ PiGraceInv' BY <1>2, <2>1 DEF piTurnVars, PiInv, PiTypes, PiGraceInv
  <2>3. PiSettledInv' BY <1>2, <2>1, PiSettledKept DEF piTurnVars, PiInv
  <2>4. ASSUME PiLive' PROVE PiOrder' /\ PiPendingIsOwn'
    <3>1. PiOrder /\ PiPendingIsOwn BY <2>1, <2>4 DEF piTurnVars, PiInv, PiLive
    <3>2. h.ends = "no" BY <1>1, <1>6, <3>1 DEF PiPendingIsOwn, PiHasEnd, h
    <3>3. PiHasEnd(piChain') <=> PiHasEnd(piChain)
      <4>1. \A i \in 1..(Len(piChain) - 1) : i + 1 \in DOMAIN piChain BY <1>1
      <4>2. \A i \in DOMAIN piChain : i = 1 \/ (i - 1 \in 1..(Len(piChain) - 1) /\ (i - 1) + 1 = i) BY <1>1
      <4>3. PiHasEnd(piChain') => PiHasEnd(piChain) BY <1>4, <4>1 DEF PiHasEnd
      <4>4. ASSUME NEW i \in DOMAIN piChain, piChain[i].ends # "no" PROVE PiHasEnd(piChain')
        <5>1. i - 1 \in 1..(Len(piChain) - 1) /\ (i - 1) + 1 = i BY <3>2, <4>2, <4>4 DEF h
        <5>2. QED BY <1>4, <4>4, <5>1 DEF PiHasEnd
      <4>5. QED BY <4>3, <4>4 DEF PiHasEnd
    <3>4. PiNextEnd' = PiNextEnd BY <1>2, <2>1, <3>3 DEF PiNextEnd, PiHasEnd, piTurnVars
    <3>5. PiOrder' BY <1>2, <3>1, <3>4 DEF PiOrder, PiInOrder, PiAfter, PiNextTurn
    <3>6. PiPendingIsOwn'
      <4> SUFFICES ASSUME PiHasEnd(piChain')
                   PROVE  /\ piActive' /\ piStale' = 0
                          /\ piChain'[Len(piChain')].turn = piSent'
                          /\ \A i \in DOMAIN piChain' : piChain'[i].ends # "no" => i = Len(piChain')
                          /\ piWire' = << >> /\ piQueue' = << >>
        BY DEF PiPendingIsOwn, PiHasEnd
      <4>1. /\ piActive /\ piStale = 0 /\ piWire = << >> /\ piQueue = << >>
            /\ piChain[Len(piChain)].turn = piSent
            /\ \A i \in DOMAIN piChain : piChain[i].ends # "no" => i = Len(piChain)
        BY <3>1, <3>3 DEF PiPendingIsOwn
      <4>2. DOMAIN piChain' # {} BY DEF PiHasEnd
      <4>3. Len(piChain') \in 1..(Len(piChain) - 1) /\ Len(piChain') + 1 = Len(piChain) BY <1>1, <1>4, <4>2
      <4>4. piChain'[Len(piChain')] = piChain[Len(piChain)] BY <1>4, <4>3
      <4>5. \A i \in DOMAIN piChain' : piChain'[i].ends # "no" => i = Len(piChain')
        <5> SUFFICES ASSUME NEW i \in 1..(Len(piChain) - 1), piChain'[i].ends # "no"
                     PROVE  i = Len(piChain')
          BY <1>4
        <5>1. i + 1 \in DOMAIN piChain /\ piChain[i + 1].ends # "no" BY <1>1, <1>4
        <5>2. i + 1 = Len(piChain) BY <4>1, <5>1
        <5>3. QED BY <1>1, <4>3, <5>2
      <4>6. QED BY <1>2, <2>1, <4>1, <4>4, <4>5 DEF piTurnVars
    <3>7. QED BY <3>5, <3>6
  <2>5. QED BY <1>5, <2>2, <2>3, <2>4 DEF PiInv
<1>7. CASE h.ends # "no" /\ piActive
  <2>1. PiHasEnd(piChain) /\ PiOrder /\ PiPendingIsOwn BY <1>1, <1>7 DEF PiInv, PiLive, PiHasEnd, h
  <2>2. Len(piChain) = 1 /\ h.turn = piSent /\ piStale = 0 BY <1>1, <1>7, <2>1 DEF PiPendingIsOwn, h
  <2>3. /\ piActive' = FALSE /\ piPending' = "none" /\ piGrace' = FALSE /\ piText' = {}
        /\ piSettled' = Append(piSettled, [status |-> h.ends, text |-> piText, by |-> h.turn])
        /\ piState' = IF piState = "closed" THEN "closed" ELSE "idle"
    BY <1>3, <1>7 DEF PiResolve
  <2>4. PiTypes' /\ PiGraceInv' BY <1>2, <2>3 DEF PiInv, PiTypes, PiGraceInv
  <2>5. h.ends \in PiStatuses BY <1>1, <1>7 DEF PiHandler, PiStatuses
  <2>6. PiSettledInv' /\ Len(piSettled') = Len(piSettled) + 1
    BY <1>2, <2>2, <2>3, <1>7, <2>5, PiSettles DEF PiInv
  <2>7. piChain' = << >> /\ ~PiHasEnd(piChain') BY <1>4, <2>2 DEF PiHasEnd
  <2>8. PiNextEnd' = PiNextEnd
    BY <2>4, <2>6, <2>7, <2>1, <1>2 DEF PiNextEnd, PiHasEnd, PiTypes, PiSettledInv, PiInv
  <2>9. PiOrder' /\ PiPendingIsOwn'
    BY <1>2, <2>1, <2>7, <2>8 DEF PiOrder, PiInOrder, PiAfter, PiNextTurn, PiPendingIsOwn, PiHasEnd
  <2>10. QED BY <1>5, <2>4, <2>6, <2>9 DEF PiInv
<1>8. QED BY <1>6, <1>7

\* A turn that is settled without its end is owed one.
LEMMA PiGraceExpiresKeeps ==
  ASSUME ~PiSlowHandlers, PiInv, PiGraceExpires
  PROVE  PiInv'
<1>1. piGrace /\ piActive /\ piPending \in {"timeout", "aborted"} /\ ~PiHasEnd(piChain)
  BY DEF PiGraceExpires, PiInv, PiGraceInv, PiTypes, PiHasEnd
<1>2. PiLive /\ PiOrder BY <1>1 DEF PiInv, PiLive
<1>3. /\ piActive' = FALSE /\ piPending' = "none" /\ piGrace' = FALSE /\ piText' = {}
      /\ piSettled' = Append(piSettled, [status |-> piPending, text |-> piText, by |-> 0])
      /\ piState' = IF piState = "closed" THEN "closed" ELSE "idle"
      /\ piStale' = piStale + 1
      /\ UNCHANGED <<piAlive, piDraining, piSent, piGuarded, piQueue, piWire, piChain>>
  BY <1>1 DEF PiGraceExpires, PiResolve
<1>4. PiTypes' /\ PiGraceInv'
  <2>1. piState' \in {"idle", "thinking", "closed"} /\ piStale' \in Nat BY <1>3 DEF PiInv, PiTypes
  <2>2. PiTypes' BY <1>3, <2>1 DEF PiInv, PiTypes
  <2>3. PiGraceInv' BY <1>3 DEF PiInv, PiGraceInv
  <2>4. QED BY <2>2, <2>3
<1>5. PiSeqs' BY <1>3 DEF PiInv, PiSeqs
<1>6. PiSettledInv' /\ Len(piSettled') = Len(piSettled) + 1 BY <1>1, <1>3, PiSettles DEF PiStatuses, PiInv
<1>7. ~PiHasEnd(piChain') /\ PiNextEnd' = PiNextEnd
  BY <1>1, <1>3, <1>4, <1>6 DEF PiNextEnd, PiHasEnd, PiTypes, PiSettledInv, PiInv
<1>8. PiOrder' /\ PiPendingIsOwn'
  BY <1>2, <1>3, <1>7 DEF PiOrder, PiInOrder, PiAfter, PiNextTurn, PiPendingIsOwn, PiHasEnd
<1>9. QED BY <1>4, <1>5, <1>6, <1>8 DEF PiInv

LEMMA PiExitKeeps ==
  ASSUME PiInv, PiExit
  PROVE  PiInv'
<1>1. /\ piAlive /\ piAlive' = FALSE /\ piQueue' = << >>
      /\ UNCHANGED <<piDraining, piSent, piGuarded, piStale, piWire, piChain>>
  BY DEF PiExit
<1>2. PiSeqs' BY <1>1 DEF PiInv, PiSeqs
<1>3. CASE piState = "closed"
  <2>1. UNCHANGED <<piTurnVars, piState>> BY <1>3 DEF PiExit
  <2>2. PiTypes' /\ PiGraceInv' BY <1>1, <1>3, <2>1 DEF piTurnVars, PiInv, PiTypes, PiGraceInv
  <2>3. PiSettledInv' BY <1>1, <2>1, PiSettledKept DEF piTurnVars, PiInv
  <2>4. ASSUME PiLive' PROVE PiOrder' /\ PiPendingIsOwn'
    <3>1. PiOrder /\ PiPendingIsOwn BY <2>1, <2>4 DEF piTurnVars, PiInv, PiLive
    <3>2. PiNextEnd' = PiNextEnd BY <1>1, <2>1 DEF piTurnVars, PiNextEnd, PiHasEnd
    <3>3. PiInOrder(piWire, PiNextEnd)' BY <1>1, <3>1, <3>2 DEF PiOrder, PiInOrder, PiNextTurn
    <3>4. DOMAIN piQueue' = {} BY <1>1
    <3>5. PiOrder' BY <1>1, <3>3, <3>4 DEF PiOrder
    <3>6. PiPendingIsOwn' BY <1>1, <2>1, <3>1 DEF piTurnVars, PiPendingIsOwn, PiHasEnd
    <3>7. QED BY <3>5, <3>6
  <2>5. QED BY <1>2, <2>2, <2>3, <2>4 DEF PiInv
<1>4. CASE piState # "closed"
  <2>1. piState' = "closed" /\ ~piActive' BY <1>4 DEF PiExit, piTurnVars
  <2>2. CASE piActive
    <3>1. /\ piActive' = FALSE /\ piPending' = "none" /\ piGrace' = FALSE /\ piText' = {}
          /\ piSettled' = Append(piSettled, [status |-> "failed", text |-> piText, by |-> 0])
      BY <1>4, <2>2 DEF PiExit
    <3>2. PiTypes' /\ PiGraceInv' BY <1>1, <2>1, <3>1 DEF PiInv, PiTypes, PiGraceInv
    <3>3. "failed" \in PiStatuses /\ 0 \in {0, piSent} /\ ("failed" = "completed" => 0 = piSent)
      BY DEF PiStatuses
    <3>4. PiTypes /\ PiSettledInv /\ UNCHANGED piSent BY <1>1 DEF PiInv
    <3>5. PiSettledInv' BY <2>1, <2>2, <3>1, <3>3, <3>4, PiSettles
    <3>6. QED BY <1>2, <2>1, <3>2, <3>5 DEF PiInv, PiLive
  <2>3. CASE ~piActive
    BY <1>4, <2>3, <1>1, <2>1, PiSettledKept, <1>2 DEF PiExit, piTurnVars, PiInv, PiTypes, PiGraceInv, PiLive
  <2>4. QED BY <2>2, <2>3
<1>5. QED BY <1>3, <1>4

\* No end settles the turn of another, when the handlers of a turn return within its grace.
LEMMA PiInvKept ==
  ASSUME ~PiSlowHandlers, PiInv, [PiNext]_piVars
  PROVE  PiInv'
  BY PiSilentSteps, PiSendKeeps, PiWritesKeeps, PiReadsKeeps, PiHandlesKeeps, PiGraceExpiresKeeps,
     PiExitKeeps
  DEF PiNext

-----------------------------------------------------------------------------
(* Antigravity: proofs                                                     *)

LEMMA AgyFields ==
  ASSUME NEW q \in AgyProc
  PROVE  /\ q.alive \in BOOLEAN /\ q.took \in BOOLEAN
         /\ q.stdin \in Seq(Nat) /\ q.waiters \in Seq(Nat) /\ q.chain \in Seq(AgyLine)
  BY DEF AgyProc

\* A process that nobody waits for has nothing to do.
LEMMA AgyIdle ==
  ASSUME NEW q, AgyProcOK(q), q.alive => q.waiters = << >>, NEW own, NEW m, NEW taken
  PROVE  AgyOfTurn(q, own, m, taken)
  BY DEF AgyProcOK, AgyOfTurn

LEMMA AgyUpdate ==
  ASSUME NEW procs \in Seq(AgyProc), NEW p \in DOMAIN procs, NEW q \in AgyProc
  PROVE  /\ [procs EXCEPT ![p] = q] \in Seq(AgyProc)
         /\ Len([procs EXCEPT ![p] = q]) = Len(procs)
         /\ DOMAIN [procs EXCEPT ![p] = q] = DOMAIN procs
         /\ [procs EXCEPT ![p] = q][p] = q
         /\ \A c \in DOMAIN procs : c # p => [procs EXCEPT ![p] = q][c] = procs[c]
  OBVIOUS

\* What a process says, and what is left when it was handled.
LEMMA AgySaysOK ==
  ASSUME NEW q \in AgyProc, AgyProcOK(q), NEW line \in AgyLine, NEW r \in AgyProc, q.alive,
         r.chain = Append(q.chain, line), r.waiters = q.waiters,
         r.alive => r.stdin = << >> \/ r.stdin = r.waiters,
         r.alive /\ r.took => r.stdin # << >>,
         line.kind = "exit" => ~r.alive,
         line.kind = "result" => q.stdin # << >> /\ q.waiters = <<line.about>> /\ r.stdin = << >>,
         r.alive /\ line.kind # "result" => r.stdin = q.stdin
  PROVE  AgyProcOK(r)
<1> USE AgyFields
<1>1. /\ Len(r.chain) = Len(q.chain) + 1 /\ Len(q.chain) \in Nat
      /\ DOMAIN r.chain = 1..(Len(q.chain) + 1) /\ DOMAIN q.chain = 1..Len(q.chain)
      /\ r.chain[Len(q.chain) + 1] = line
      /\ \A i \in 1..Len(q.chain) : r.chain[i] = q.chain[i]
  OBVIOUS
<1>2. \A i \in DOMAIN q.chain : q.chain[i].kind # "exit" BY DEF AgyProcOK
<1>3. \A i \in DOMAIN q.chain : q.chain[i].kind = "result" => q.waiters = <<q.chain[i].about>> /\ q.stdin = << >>
  BY DEF AgyProcOK
<1>4. \A i, j \in DOMAIN q.chain : q.chain[i].kind = "result" /\ q.chain[j].kind = "result" => i = j
  BY DEF AgyProcOK
<1>5. \A i \in DOMAIN r.chain : r.chain[i].kind = "exit" => i = Len(r.chain) /\ ~r.alive BY <1>1, <1>2
<1>6. ASSUME NEW i \in DOMAIN r.chain, r.chain[i].kind = "result"
      PROVE  /\ r.waiters = <<r.chain[i].about>>
             /\ r.alive => r.stdin = << >>
             /\ \A j \in DOMAIN r.chain : r.chain[j].kind = "result" => i = j
  <2>1. CASE line.kind = "result"
    <3>1. \A j \in DOMAIN q.chain : q.chain[j].kind # "result" BY <1>3, <2>1
    <3>2. i = Len(q.chain) + 1 /\ r.chain[i] = line BY <1>1, <1>6, <3>1
    <3>3. \A j \in DOMAIN r.chain : r.chain[j].kind = "result" => j = Len(q.chain) + 1 BY <1>1, <3>1
    <3>4. QED BY <2>1, <3>2, <3>3
  <2>2. CASE line.kind # "result"
    <3>1. i \in 1..Len(q.chain) /\ r.chain[i] = q.chain[i] BY <1>1, <1>6, <2>2
    <3>2. r.waiters = <<r.chain[i].about>> /\ (r.alive => r.stdin = << >>) BY <1>1, <1>3, <1>6, <2>2, <3>1
    <3>3. \A j \in DOMAIN r.chain : r.chain[j].kind = "result" => j \in DOMAIN q.chain /\ q.chain[j].kind = "result"
      BY <1>1, <2>2
    <3>4. \A j \in DOMAIN r.chain : r.chain[j].kind = "result" => i = j BY <1>1, <1>4, <1>6, <3>1, <3>3
    <3>5. QED BY <3>2, <3>4
  <2>3. QED BY <2>1, <2>2
<1>7. r.waiters # << >> => Len(r.waiters) = 1 BY DEF AgyProcOK
<1>8. QED BY <1>5, <1>6, <1>7 DEF AgyProcOK

\* The head of the chain was handled; the waiters were served if it was not an event.
LEMMA AgyHandledOK ==
  ASSUME NEW q \in AgyProc, AgyProcOK(q), q.chain # << >>, NEW r \in AgyProc,
         r.chain = Tail(q.chain), r.alive = q.alive, r.took = q.took, r.stdin = q.stdin,
         \/ q.chain[1].kind = "event" /\ r.waiters = q.waiters
         \/ q.chain[1].kind # "event" /\ r.waiters = << >>
  PROVE  AgyProcOK(r)
<1> USE AgyFields
<1>1. /\ Len(q.chain) \in Nat /\ Len(q.chain) > 0 /\ Len(r.chain) = Len(q.chain) - 1
      /\ DOMAIN q.chain = 1..Len(q.chain) /\ DOMAIN r.chain = 1..(Len(q.chain) - 1)
      /\ \A i \in 1..(Len(q.chain) - 1) : r.chain[i] = q.chain[i + 1]
  OBVIOUS
<1>2. \A i \in DOMAIN r.chain : i + 1 \in DOMAIN q.chain /\ i + 1 # 1 /\ r.chain[i] = q.chain[i + 1] BY <1>1
<1>3. 1 \in DOMAIN q.chain /\ q.chain[1] \in AgyLine BY <1>1
<1>4. q.chain[1].kind \in {"event", "exit", "result"} BY <1>3 DEF AgyLine
<1>5. ASSUME NEW i \in DOMAIN r.chain, r.chain[i].kind = "exit" PROVE i = Len(r.chain) /\ ~r.alive
  <2>1. i + 1 = Len(q.chain) /\ ~q.alive BY <1>2, <1>5 DEF AgyProcOK
  <2>2. i \in 1..(Len(q.chain) - 1) BY <1>1, <1>5
  <2>3. i + 1 = Len(q.chain) BY <2>1
  <2>4. i = Len(r.chain) BY <1>1, <2>2, <2>3
  <2>5. ~r.alive BY <2>1
  <2>6. QED BY <2>4, <2>5
<1>6. CASE q.chain[1].kind = "event"
  <2>1. ASSUME NEW i \in DOMAIN r.chain, r.chain[i].kind = "result"
        PROVE  /\ r.waiters = <<r.chain[i].about>>
               /\ r.alive => r.stdin = << >>
               /\ \A j \in DOMAIN r.chain : r.chain[j].kind = "result" => i = j
    <3>1. q.chain[i + 1].kind = "result" /\ r.waiters = q.waiters BY <1>2, <1>6, <2>1
    <3>2. r.waiters = <<r.chain[i].about>> /\ (r.alive => r.stdin = << >>) BY <1>2, <3>1 DEF AgyProcOK
    <3>3. \A j \in DOMAIN r.chain : r.chain[j].kind = "result" => i + 1 = j + 1 BY <1>2, <3>1 DEF AgyProcOK
    <3>4. \A j \in DOMAIN r.chain : r.chain[j].kind = "result" => i = j BY <1>1, <3>3
    <3>5. QED BY <3>2, <3>4
  <2>2. QED BY <1>5, <1>6, <2>1 DEF AgyProcOK
<1>7. CASE q.chain[1].kind # "event"
  <2>1. r.waiters = << >> BY <1>7
  <2>2. \A i \in DOMAIN r.chain : r.chain[i].kind # "result"
    <3>1. CASE q.chain[1].kind = "exit"
      <4>1. Len(q.chain) = 1 BY <1>3, <3>1 DEF AgyProcOK
      <4>2. QED BY <1>1, <4>1
    <3>2. CASE q.chain[1].kind = "result" BY <1>3, <3>2, <1>1, <1>2 DEF AgyProcOK
    <3>3. QED BY <1>4, <1>7, <3>1, <3>2
  <2>3. r.alive => r.stdin = << >>
    <3>1. CASE q.chain[1].kind = "exit" BY <1>3, <3>1 DEF AgyProcOK
    <3>2. CASE q.chain[1].kind = "result" BY <1>3, <3>2 DEF AgyProcOK
    <3>3. QED BY <1>4, <1>7, <3>1, <3>2
  <2>4. r.alive /\ r.took => r.stdin # << >> BY DEF AgyProcOK
  <2>5. QED BY <1>5, <2>1, <2>2, <2>3, <2>4 DEF AgyProcOK
<1>8. QED BY <1>6, <1>7

LEMMA AgyInvHoldsFirst == AgyInit => AgyInv
<1> SUFFICES ASSUME AgyInit PROVE AgyInv OBVIOUS
<1>1. AgyTypes BY DEF AgyInit, AgyTypes
<1>2. AgySettledInv BY DEF AgyInit, AgySettledInv
<1>3. AgyProcsInv BY DEF AgyInit, AgyProcsInv
<1>4. AgyRunsInv BY DEF AgyInit, AgyRunsInv, AgyRunsOnce, AgyHeardInv, AgyTaken
<1>5. AgyClosingInv BY DEF AgyInit, AgyClosingInv
<1>6. QED BY <1>1, <1>2, <1>3, <1>4, <1>5 DEF AgyInv

LEMMA AgySettledKept ==
  ASSUME AgySettledInv, UNCHANGED <<agySettled, agySent>>, agyPhase' = "none" <=> agyPhase = "none"
  PROVE  AgySettledInv'
  BY DEF AgySettledInv

LEMMA AgyClosingKept ==
  ASSUME AgyClosingInv, agyClosing' \subseteq agyClosing, UNCHANGED agySent,
         agyState = "closed" => agyState' = "closed", agyDraining' = agyDraining
  PROVE  AgyClosingInv'
  BY DEF AgyClosingInv

\* While no turn waits, nobody waits.
LEMMA AgyNobodyWaits ==
  ASSUME AgyProcsInv
  PROVE  \A c \in DOMAIN agyProcs :
            agyProcs[c].alive /\ ~(c = agyTurnConn /\ AgyWaits) => agyProcs[c].waiters = << >>
  BY DEF AgyProcsInv, AgyOfTurn

\* The steps that leave the processes alone.
LEMMA AgyQuietSteps ==
  ASSUME AgyProcsInv, AgyRunsInv,
         UNCHANGED <<agyProcs, agyRuns, agySent, agyTurnConn, agyAttempt, agyHeard>>,
         agyConn' \in {0, agyConn}, agyPhase' = "waiting" => agyPhase = "waiting" /\ agyConn' = agyConn,
         agyPhase' # "starting" \/ agyPhase = "starting",
         AgyWaits' \/ (\A c \in DOMAIN agyProcs : agyProcs[c].alive => agyProcs[c].waiters = << >>),
         AgyWaits' => AgyWaits
  PROVE  AgyProcsInv' /\ AgyRunsInv'
<1>1. AgyTaken' = AgyTaken BY DEF AgyTaken
<1>2. \A c \in DOMAIN agyProcs :
         AgyOfTurn(agyProcs[c], c = agyTurnConn /\ AgyWaits', agySent, AgyTaken)
  <2> SUFFICES ASSUME NEW c \in DOMAIN agyProcs
               PROVE  AgyOfTurn(agyProcs[c], c = agyTurnConn /\ AgyWaits', agySent, AgyTaken)
    OBVIOUS
  <2>1. AgyProcOK(agyProcs[c]) /\ AgyOfTurn(agyProcs[c], c = agyTurnConn /\ AgyWaits, agySent, AgyTaken)
    BY DEF AgyProcsInv
  <2>2. CASE AgyWaits' BY <2>1, <2>2 DEF AgyOfTurn
  <2>3. CASE ~AgyWaits' BY <2>1, <2>3, AgyIdle
  <2>4. QED BY <2>2, <2>3
<1>3. AgyProcsInv' BY <1>1, <1>2 DEF AgyProcsInv
<1>4. AgyRunsInv' BY <1>1 DEF AgyRunsInv, AgyRunsOnce, AgyHeardInv
<1>5. QED BY <1>3, <1>4

\* The steps of a process, and of its chain, in a turn that goes on.
LEMMA AgyProcSteps ==
  ASSUME AgyProcsInv, NEW p \in DOMAIN agyProcs, NEW r \in AgyProc,
         agyProcs' = [agyProcs EXCEPT ![p] = r], AgyProcOK(r),
         agyConn' \in 0..Len(agyProcs),
         AgyOfTurn(r, p = agyTurnConn' /\ AgyWaits', agySent', AgyTaken'),
         \A c \in DOMAIN agyProcs : c # p =>
            AgyOfTurn(agyProcs[c], c = agyTurnConn' /\ AgyWaits', agySent', AgyTaken')
  PROVE  AgyProcsInv'
<1>1. agyProcs \in Seq(AgyProc) BY DEF AgyProcsInv
<1>2. /\ agyProcs' \in Seq(AgyProc) /\ Len(agyProcs') = Len(agyProcs)
      /\ DOMAIN agyProcs' = DOMAIN agyProcs /\ agyProcs'[p] = r
      /\ \A c \in DOMAIN agyProcs : c # p => agyProcs'[c] = agyProcs[c]
  BY <1>1, AgyUpdate
<1>3. \A c \in DOMAIN agyProcs : AgyProcOK(agyProcs'[c]) BY <1>2 DEF AgyProcsInv
<1>4. \A c \in DOMAIN agyProcs : AgyOfTurn(agyProcs'[c], c = agyTurnConn' /\ AgyWaits', agySent', AgyTaken')
  BY <1>2
<1>5. QED BY <1>2, <1>3, <1>4 DEF AgyProcsInv

\* A message is written to a process that has nothing to do.
LEMMA AgyWriteOK ==
  ASSUME agySent \in Nat, NEW procs \in Seq(AgyProc), NEW conn \in 0..Len(procs),
         \A c \in DOMAIN procs : AgyProcOK(procs[c]) /\ (procs[c].alive => procs[c].waiters = << >>),
         AgyWrite(procs, conn), agySent \notin AgyTaken',
         agySent' = agySent, agyPhase' = "waiting"
  PROVE  /\ AgyProcsInv'
         /\ agyConn' = agyTurnConn' /\ agyConn' # 0
         /\ agyAttempt' = agyAttempt + 1 /\ agyHeard' = FALSE
<1> DEFINE reuse == AgyReuse(procs, conn)
           c == IF reuse THEN conn ELSE Len(procs) + 1
           b == IF reuse THEN procs[c] ELSE AgyNewProc
           q == [b EXCEPT !.waiters = Append(@, agySent),
                          !.stdin = IF b.alive THEN Append(@, agySent) ELSE @]
<1>1. Len(procs) \in Nat /\ DOMAIN procs = 1..Len(procs) OBVIOUS
<1>2. /\ b \in AgyProc /\ b.alive /\ b.waiters = << >> /\ b.stdin = << >> /\ b.took = FALSE
      /\ \A i \in DOMAIN b.chain : b.chain[i].kind # "exit" /\ b.chain[i].kind # "result"
  <2>1. CASE reuse
    <3>1. conn \in DOMAIN procs /\ b = procs[conn] /\ procs[conn].alive BY <1>1, <2>1 DEF AgyReuse
    <3>2. b \in AgyProc /\ AgyProcOK(b) /\ b.alive /\ b.waiters = << >> BY <3>1
    <3> HIDE DEF b
    <3>3. b.stdin = << >> /\ b.took \in BOOLEAN /\ ~b.took BY <3>2, AgyFields DEF AgyProcOK
    <3>4. \A i \in DOMAIN b.chain : b.chain[i].kind # "exit" /\ b.chain[i].kind # "result"
      <4> SUFFICES ASSUME NEW i \in DOMAIN b.chain
                   PROVE  b.chain[i].kind # "exit" /\ b.chain[i].kind # "result"
        OBVIOUS
      <4>1. b.chain[i].kind # "exit" BY <3>2 DEF AgyProcOK
      <4>2. ASSUME b.chain[i].kind = "result" PROVE FALSE BY <3>2, <4>2 DEF AgyProcOK
      <4>3. QED BY <4>1, <4>2
    <3>5. QED BY <3>2, <3>3, <3>4
  <2>2. CASE ~reuse
    <3>1. b = [alive |-> TRUE, stdin |-> << >>, took |-> FALSE, chain |-> << >>, waiters |-> << >>]
      BY <2>2 DEF AgyNewProc
    <3>2. << >> \in Seq(Nat) /\ << >> \in Seq(AgyLine) OBVIOUS
    <3>3. b \in AgyProc
      <4>1. [alive |-> TRUE, stdin |-> << >>, took |-> FALSE, chain |-> << >>, waiters |-> << >>] \in AgyProc
        BY <3>2 DEF AgyProc
      <4>2. QED BY <3>1, <4>1
    <3>4. QED BY <3>1, <3>3
  <2>3. QED BY <2>1, <2>2
<1>3. /\ agyProcs' = IF c > Len(procs) THEN Append(procs, q) ELSE [procs EXCEPT ![c] = q]
      /\ agyConn' = c /\ agyTurnConn' = c
      /\ agyAttempt' = agyAttempt + 1 /\ agyHeard' = FALSE
  BY DEF AgyWrite
<1>4. c \in 1..(Len(procs) + 1) /\ (c > Len(procs) => c = Len(procs) + 1) BY <1>1 DEF AgyReuse
<1> HIDE DEF reuse, c, b
<1>5. /\ q \in AgyProc /\ q.alive = b.alive /\ q.took = b.took /\ q.chain = b.chain
      /\ q.waiters = Append(b.waiters, agySent) /\ q.stdin = Append(b.stdin, agySent)
  <2> DEFINE w == Append(b.waiters, agySent)
             i == Append(b.stdin, agySent)
  <2>1. b.waiters \in Seq(Nat) /\ b.stdin \in Seq(Nat) BY <1>2, AgyFields
  <2>2. w \in Seq(Nat) /\ i \in Seq(Nat) BY <2>1
  <2>3. q = [b EXCEPT !.waiters = w, !.stdin = i] BY <1>2
  <2> HIDE DEF w, i
  <2>4. QED BY <1>2, <2>2, <2>3 DEF AgyProc, w, i
<1> HIDE DEF q
<1>6. q.waiters = <<agySent>> /\ q.stdin = <<agySent>> /\ q.alive /\ ~q.took BY <1>2, <1>5
<1>7. AgyProcOK(q) BY <1>2, <1>5, <1>6 DEF AgyProcOK
<1>8. /\ agyProcs' \in Seq(AgyProc) /\ c \in DOMAIN agyProcs' /\ agyProcs'[c] = q
      /\ \A d \in DOMAIN agyProcs' : d # c => d \in DOMAIN procs /\ agyProcs'[d] = procs[d]
  <2>1. CASE c > Len(procs) BY <1>3, <1>4, <2>1, <1>1, <1>5
  <2>2. CASE ~(c > Len(procs)) BY <1>1, <1>3, <1>4, <2>2, <1>5, AgyUpdate
  <2>3. QED BY <2>1, <2>2
<1>9. AgyWaits' BY DEF AgyWaits
<1>10. \A d \in DOMAIN agyProcs' :
          /\ AgyProcOK(agyProcs'[d])
          /\ AgyOfTurn(agyProcs'[d], d = agyTurnConn' /\ AgyWaits', agySent', AgyTaken')
  <2> SUFFICES ASSUME NEW d \in DOMAIN agyProcs'
               PROVE  /\ AgyProcOK(agyProcs'[d])
                      /\ AgyOfTurn(agyProcs'[d], d = agyTurnConn' /\ AgyWaits', agySent', AgyTaken')
    OBVIOUS
  <2>1. CASE d = c BY <1>3, <1>6, <1>7, <1>8, <1>9, <2>1 DEF AgyOfTurn
  <2>2. CASE d # c BY <1>8, <2>2, AgyIdle
  <2>3. QED BY <2>1, <2>2
<1>11. agyConn' \in 0..Len(agyProcs') /\ agyConn' # 0 BY <1>3, <1>4, <1>8
<1>12. QED BY <1>3, <1>8, <1>10, <1>11 DEF AgyProcsInv

LEMMA AgyEventStays ==
  ASSUME NEW chain \in Seq(AgyLine)
  PROVE  /\ \A line \in AgyLine : AgyHasEvent(chain) => AgyHasEvent(Append(chain, line))
         /\ chain # << >> /\ chain[1].kind # "event" /\ AgyHasEvent(chain) => AgyHasEvent(Tail(chain))
<1>1. ASSUME NEW line \in AgyLine, NEW i \in DOMAIN chain, chain[i].kind = "event"
      PROVE  AgyHasEvent(Append(chain, line))
  BY <1>1 DEF AgyHasEvent
<1>2. ASSUME chain # << >>, chain[1].kind # "event", NEW i \in DOMAIN chain, chain[i].kind = "event"
      PROVE  AgyHasEvent(Tail(chain))
  <2>1. /\ Len(chain) \in Nat /\ DOMAIN chain = 1..Len(chain) /\ DOMAIN Tail(chain) = 1..(Len(chain) - 1)
        /\ \A j \in 1..(Len(chain) - 1) : Tail(chain)[j] = chain[j + 1]
    BY <1>2
  <2>2. i - 1 \in 1..(Len(chain) - 1) /\ (i - 1) + 1 = i BY <1>2, <2>1
  <2>3. QED BY <1>2, <2>1, <2>2 DEF AgyHasEvent
<1>3. QED BY <1>1, <1>2 DEF AgyHasEvent

\* A process that has a message has that of the turn that waits for it.
LEMMA AgyHasWork ==
  ASSUME AgyProcsInv, NEW p \in DOMAIN agyProcs, agyProcs[p].alive, agyProcs[p].stdin # << >>
  PROVE  /\ p = agyTurnConn /\ AgyWaits
         /\ agyProcs[p].waiters = <<agySent>> /\ agyProcs[p].stdin = <<agySent>>
  BY DEF AgyProcsInv, AgyProcOK, AgyOfTurn

LEMMA AgyTakesKeeps ==
  ASSUME AgyTypes, AgyProcsInv, AgyRunsInv, NEW p \in DOMAIN agyProcs, AgyTakes(p)
  PROVE  AgyProcsInv' /\ AgyRunsInv'
<1> DEFINE q == agyProcs[p]
           line == [kind |-> "event"]
           r == [q EXCEPT !.took = TRUE, !.chain = Append(@, line)]
<1>1. q \in AgyProc /\ agyProcs \in Seq(AgyProc) /\ AgyProcOK(q) /\ q.alive /\ q.stdin # << >> /\ ~q.took
  BY DEF AgyTakes, AgyProcsInv
<1>2. p = agyTurnConn /\ AgyWaits /\ q.waiters = <<agySent>> /\ q.stdin = <<agySent>> /\ agySent \notin AgyTaken
  BY <1>1, AgyHasWork DEF AgyProcsInv, AgyOfTurn
<1>3. /\ UNCHANGED <<agySent, agyPhase, agyTurnConn, agyConn, agyAttempt, agyHeard>>
      /\ agyRuns' = Append(agyRuns, agySent)
  BY <1>2 DEF AgyTakes
<1>4. agyProcs' = [agyProcs EXCEPT ![p] = r] BY <1>1 DEF AgyTakes
<1>5. /\ line \in AgyLine /\ line.kind = "event"
      /\ r.chain = Append(q.chain, line) /\ r.took = TRUE
      /\ r.alive = q.alive /\ r.stdin = q.stdin /\ r.waiters = q.waiters
      /\ r \in AgyProc
  <2>1. line \in AgyLine /\ line.kind = "event" BY DEF AgyLine
  <2> HIDE DEF line
  <2>2. Append(q.chain, line) \in Seq(AgyLine) BY <1>1, <2>1, AgyFields
  <2>3. QED BY <1>1, <2>1, <2>2 DEF AgyProc
<1> HIDE DEF r, line
<1>6. AgyProcOK(r)
  <2>1. r.alive => r.stdin = << >> \/ r.stdin = r.waiters BY <1>2, <1>5
  <2>2. r.alive /\ r.took => r.stdin # << >> BY <1>1, <1>5
  <2>3. /\ line.kind = "exit" => ~r.alive
        /\ line.kind = "result" => q.stdin # << >> /\ q.waiters = <<line.about>> /\ r.stdin = << >>
        /\ r.alive /\ line.kind # "result" => r.stdin = q.stdin
    BY <1>5
  <2> HIDE DEF q
  <2>4. QED BY <1>1, <1>5, <2>1, <2>2, <2>3, AgySaysOK
<1>7. AgyTaken' = AgyTaken \cup {agySent} /\ AgyRunsOnce'
  <2>1. agyRuns \in Seq(Nat) /\ agySent \in Nat BY DEF AgyRunsInv, AgyRunsOnce, AgyTypes
  <2>2. /\ agyRuns' \in Seq(Nat) /\ DOMAIN agyRuns' = 1..(Len(agyRuns) + 1)
        /\ DOMAIN agyRuns = 1..Len(agyRuns) /\ Len(agyRuns) \in Nat
        /\ agyRuns'[Len(agyRuns) + 1] = agySent
        /\ \A i \in 1..Len(agyRuns) : agyRuns'[i] = agyRuns[i]
    BY <1>3, <2>1
  <2>3. \A i \in DOMAIN agyRuns : agyRuns[i] # agySent BY <1>2 DEF AgyTaken
  <2>4. AgyTaken' = AgyTaken \cup {agySent} BY <2>2 DEF AgyTaken
  <2>5. \A i \in DOMAIN agyRuns' : agyRuns'[i] <= agySent' BY <1>3, <2>1, <2>2 DEF AgyRunsInv, AgyRunsOnce
  <2>6. \A i, j \in DOMAIN agyRuns' : agyRuns'[i] = agyRuns'[j] => i = j
    BY <2>2, <2>3 DEF AgyRunsInv, AgyRunsOnce
  <2>7. QED BY <2>2, <2>4, <2>5, <2>6 DEF AgyRunsOnce
<1>8. AgyProcsInv'
  <2>1. AgyWaits' = AgyWaits BY <1>3 DEF AgyWaits
  <2>2. AgyOfTurn(r, p = agyTurnConn' /\ AgyWaits', agySent', AgyTaken') BY <1>2, <1>3, <1>5, <2>1 DEF AgyOfTurn
  <2>3. \A c \in DOMAIN agyProcs : c # p =>
           AgyOfTurn(agyProcs[c], c = agyTurnConn' /\ AgyWaits', agySent', AgyTaken')
    <3> SUFFICES ASSUME NEW c \in DOMAIN agyProcs, c # p
                 PROVE  AgyOfTurn(agyProcs[c], c = agyTurnConn' /\ AgyWaits', agySent', AgyTaken')
      OBVIOUS
    <3>1. AgyProcOK(agyProcs[c]) /\ (agyProcs[c].alive => agyProcs[c].waiters = << >>)
      BY <1>2, AgyNobodyWaits DEF AgyProcsInv
    <3>2. QED BY <3>1, AgyIdle
  <2>4. agyConn' \in 0..Len(agyProcs) BY <1>3 DEF AgyProcsInv
  <2>5. QED BY <1>4, <1>5, <1>6, <2>2, <2>3, <2>4, AgyProcSteps
<1>9. AgyHeardInv'
  <2>1. agyPhase' # "starting" BY <1>2, <1>3 DEF AgyWaits
  <2>2. agyPhase' = "waiting" => agyConn' = agyTurnConn' /\ agyConn' # 0 BY <1>3 DEF AgyRunsInv, AgyHeardInv
  <2>3. agyProcs'[agyTurnConn'] = r BY <1>1, <1>2, <1>3, <1>4
  <2>4. AgyHasEvent(r.chain)
    <3>1. q.chain \in Seq(AgyLine) BY <1>1, AgyFields
    <3>2. Len(q.chain) + 1 \in DOMAIN r.chain /\ r.chain[Len(q.chain) + 1] = line BY <1>5, <3>1
    <3>3. QED BY <1>5, <3>2 DEF AgyHasEvent
  <2>5. QED BY <2>1, <2>2, <2>3, <2>4 DEF AgyHeardInv
<1>10. QED BY <1>7, <1>8, <1>9 DEF AgyRunsInv

\* The result of a message, and the exit of a process.
LEMMA AgyWritesKeeps ==
  ASSUME AgyProcsInv, AgyRunsInv, NEW p \in DOMAIN agyProcs, AgyReports(p) \/ AgyExit(p)
  PROVE  AgyProcsInv' /\ AgyRunsInv'
<1> DEFINE q == agyProcs[p]
<1>1. q \in AgyProc /\ agyProcs \in Seq(AgyProc) /\ AgyProcOK(q) /\ q.alive
  BY DEF AgyReports, AgyExit, AgyProcsInv
<1>2. UNCHANGED <<agySent, agyPhase, agyTurnConn, agyConn, agyAttempt, agyHeard, agyRuns>>
  BY DEF AgyReports, AgyExit
<1>3. AgyOfTurn(q, p = agyTurnConn /\ AgyWaits, agySent, AgyTaken) BY DEF AgyProcsInv
<1>4. PICK line \in AgyLine, r \in AgyProc :
         /\ agyProcs' = [agyProcs EXCEPT ![p] = r] /\ r.chain = Append(q.chain, line)
         /\ AgyProcOK(r) /\ AgyOfTurn(r, p = agyTurnConn /\ AgyWaits, agySent, AgyTaken)
  <2>1. CASE AgyReports(p)
    <3> DEFINE line == [kind |-> "result", about |-> Head(q.stdin)]
               r == [q EXCEPT !.took = FALSE, !.stdin = Tail(@), !.chain = Append(@, line)]
    <3>1. q.took /\ q.stdin # << >> BY <1>1, <2>1 DEF AgyReports, AgyProcOK
    <3>2. q.waiters = <<agySent>> /\ q.stdin = <<agySent>> BY <1>1, <3>1, AgyHasWork
    <3>3. agySent \in Nat /\ Head(q.stdin) = agySent /\ Tail(q.stdin) = << >>
      <4>1. q.stdin \in Seq(Nat) BY <1>1, AgyFields
      <4>2. agySent \in Nat BY <3>2, <4>1
      <4>3. QED BY <3>2, <4>2
    <3>4. agyProcs' = [agyProcs EXCEPT ![p] = r] BY <1>1, <2>1 DEF AgyReports
    <3>5. line \in AgyLine /\ line.kind = "result" /\ line.about = agySent BY <3>3 DEF AgyLine
    <3> HIDE DEF line
    <3>6. Append(q.chain, line) \in Seq(AgyLine) /\ << >> \in Seq(Nat) BY <1>1, <3>5, AgyFields
    <3>7. r \in AgyProc /\ r.chain = Append(q.chain, line) /\ r.took = FALSE /\ r.stdin = << >>
          /\ r.alive = q.alive /\ r.waiters = q.waiters
      BY <1>1, <3>3, <3>6 DEF AgyProc
    <3> HIDE DEF r, q
    <3>8. /\ line.kind = "exit" => ~r.alive
          /\ line.kind = "result" => q.stdin # << >> /\ q.waiters = <<line.about>> /\ r.stdin = << >>
          /\ r.alive /\ line.kind # "result" => r.stdin = q.stdin
          /\ r.alive => r.stdin = << >> \/ r.stdin = r.waiters
          /\ r.alive /\ r.took => r.stdin # << >>
      BY <3>1, <3>2, <3>5, <3>7
    <3>9. AgyProcOK(r) BY <1>1, <3>5, <3>7, <3>8, AgySaysOK
    <3>10. AgyOfTurn(r, p = agyTurnConn /\ AgyWaits, agySent, AgyTaken) BY <1>3, <3>7 DEF AgyOfTurn
    <3>11. QED BY <3>4, <3>5, <3>7, <3>9, <3>10
  <2>2. CASE AgyExit(p)
    <3> DEFINE line == [kind |-> "exit"]
               r == [q EXCEPT !.alive = FALSE, !.chain = Append(@, line)]
    <3>1. agyProcs' = [agyProcs EXCEPT ![p] = r] BY <1>1, <2>2 DEF AgyExit
    <3>2. line \in AgyLine /\ line.kind = "exit" BY DEF AgyLine
    <3> HIDE DEF line
    <3>3. Append(q.chain, line) \in Seq(AgyLine) BY <1>1, <3>2, AgyFields
    <3>4. r \in AgyProc /\ r.chain = Append(q.chain, line) /\ r.alive = FALSE
          /\ r.took = q.took /\ r.stdin = q.stdin /\ r.waiters = q.waiters
      BY <1>1, <3>3 DEF AgyProc
    <3> HIDE DEF r, q
    <3>5. AgyProcOK(r) BY <1>1, <3>2, <3>4, AgySaysOK
    <3>6. AgyOfTurn(r, p = agyTurnConn /\ AgyWaits, agySent, AgyTaken) BY <3>4 DEF AgyOfTurn
    <3>7. QED BY <3>1, <3>2, <3>4, <3>5, <3>6
  <2>3. QED BY <2>1, <2>2
<1>5. AgyTaken' = AgyTaken /\ AgyWaits' = AgyWaits BY <1>2 DEF AgyTaken, AgyWaits
<1>6. AgyProcsInv' BY <1>2, <1>5, <1>4, AgyProcSteps DEF AgyProcsInv
<1>7. AgyHeardInv'
  <2>1. ASSUME agyPhase = "waiting", AgyHasEvent(agyProcs[agyTurnConn].chain)
        PROVE  AgyHasEvent(agyProcs'[agyTurnConn].chain)
    <3>1. agyTurnConn \in DOMAIN agyProcs BY <2>1 DEF AgyProcsInv, AgyRunsInv, AgyHeardInv
    <3>2. CASE agyTurnConn = p BY <1>1, <1>4, <3>2, AgyFields, <2>1, AgyEventStays
    <3>3. CASE agyTurnConn # p BY <1>4, <3>1, <3>3, <2>1
    <3>4. QED BY <3>2, <3>3
  <2>2. QED BY <1>2, <1>5, <2>1 DEF AgyRunsInv, AgyHeardInv
<1>8. AgyRunsOnce' BY <1>2 DEF AgyRunsInv, AgyRunsOnce
<1>9. QED BY <1>6, <1>7, <1>8 DEF AgyRunsInv

\* The turn goes on with the outcome o of its message; done is what is left of the processes.
LEMMA AgyOutcomeKeeps ==
  ASSUME AgyTypes, AgySettledInv, AgyProcsInv, AgyRunsInv, agyPhase # "none",
         NEW done \in Seq(AgyProc), Len(done) = Len(agyProcs),
         \A c \in DOMAIN done : AgyProcOK(done[c]) /\ (done[c].alive => done[c].waiters = << >>),
         NEW o \in {0, agySent}, NEW auth \in BOOLEAN, AgyOutcome(o, done, auth),
         o = 0 /\ agyPhase = "waiting" /\ agyAttempt = 1 /\ ~agyHeard => agySent \notin AgyTaken,
         UNCHANGED <<agyState, agyDraining, agySent, agyStop, agyReason, agySettled, agyRuns>>
  PROVE  AgyTypes' /\ AgySettledInv' /\ AgyProcsInv' /\ AgyRunsInv'
<1>1. AgyTaken' = AgyTaken BY DEF AgyTaken
<1>2. AgyRunsOnce' BY DEF AgyRunsInv, AgyRunsOnce
<1>3. ASSUME agyProcs' = done, agyPhase' \in {"ending", "leaving", "terminating", agyPhase},
             agyPhase' # "waiting", agyPhase' = "starting" => agyPhase = "starting",
             agyGot' \in {0, agySent}, agyConn' \in {0, agyConn},
             UNCHANGED <<agyAttempt, agyHeard, agyTurnConn>>
      PROVE  AgyTypes' /\ AgySettledInv' /\ AgyProcsInv' /\ AgyRunsInv'
  <2>1. AgyTypes' BY <1>3 DEF AgyTypes
  <2>2. agyPhase' # "none" BY <1>3
  <2>3. AgySettledInv' BY <2>2, AgySettledKept
  <2>4. AgyProcsInv' BY <1>3, AgyIdle DEF AgyProcsInv
  <2>5. AgyHeardInv' BY <1>1, <1>3 DEF AgyRunsInv, AgyHeardInv
  <2>6. QED BY <1>2, <2>1, <2>3, <2>4, <2>5 DEF AgyRunsInv
<1>4. CASE agyPhase = "waiting" /\ o = 0 /\ AgyRetries /\ ~auth
  <2>1. AgyWrite(done, 0) /\ UNCHANGED <<agyPhase, agyGot>> BY <1>4 DEF AgyOutcome
  <2>2. agySent \notin AgyTaken' /\ agySent' = agySent /\ agyPhase' = "waiting" /\ agySent \in Nat
    BY <1>1, <1>4, <2>1 DEF AgyRetries, AgyTypes
  <2>3. 0 \in 0..Len(done) OBVIOUS
  <2>4. /\ AgyProcsInv' /\ agyConn' = agyTurnConn' /\ agyConn' # 0
        /\ agyAttempt' = agyAttempt + 1 /\ agyHeard' = FALSE
    BY <2>1, <2>2, <2>3, AgyWriteOK
  <2>5. AgyTypes'
    <3>1. agyAttempt' \in Nat /\ agyHeard' \in BOOLEAN
      <4>1. agyAttempt' \in Nat BY <2>4 DEF AgyTypes
      <4>2. agyHeard' \in BOOLEAN BY <2>4
      <4>3. QED BY <4>1, <4>2
    <3>2. agyPhase' # "none" => agyGot' \in {0, agySent'} BY <2>1, <2>2 DEF AgyTypes
    <3>3. /\ agyState' \in {"idle", "busy", "closed"} /\ agyDraining' \in BOOLEAN /\ agySent' \in Nat
          /\ agyPhase' \in {"none", "starting", "waiting", "interrupting", "terminating", "leaving", "ending"}
          /\ agyStop' \subseteq {"timeout", "aborted"} /\ agyReason' \in {"none", "timeout", "aborted"}
      BY <2>1 DEF AgyTypes
    <3>4. QED BY <3>1, <3>2, <3>3 DEF AgyTypes
  <2>6. AgySettledInv' BY <2>1, AgySettledKept
  <2>7. AgyHeardInv' BY <2>2, <2>4 DEF AgyHeardInv
  <2>8. QED BY <1>2, <2>4, <2>5, <2>6, <2>7 DEF AgyRunsInv
<1>5. CASE agyPhase = "waiting" /\ ~(o = 0 /\ AgyRetries /\ ~auth) BY <1>5, <1>3 DEF AgyOutcome
<1>6. CASE agyPhase = "interrupting" BY <1>6, <1>3 DEF AgyOutcome
<1>7. CASE agyPhase = "terminating" BY <1>7, <1>3 DEF AgyOutcome
<1>8. CASE agyPhase \notin {"waiting", "interrupting", "terminating"} BY <1>8, <1>3 DEF AgyOutcome, AgyTypes
<1>9. QED BY <1>4, <1>5, <1>6, <1>7, <1>8

LEMMA AgyChainKeeps ==
  ASSUME AgyTypes, AgySettledInv, AgyProcsInv, AgyRunsInv, NEW p \in DOMAIN agyProcs, AgyChain(p)
  PROVE  AgyTypes' /\ AgySettledInv' /\ AgyProcsInv' /\ AgyRunsInv'
<1> DEFINE q == agyProcs[p]
           line == q.chain[1]
<1>1. /\ q \in AgyProc /\ agyProcs \in Seq(AgyProc) /\ AgyProcOK(q)
      /\ q.chain \in Seq(AgyLine) /\ q.chain # << >> /\ q.waiters \in Seq(Nat)
      /\ AgyOfTurn(q, p = agyTurnConn /\ AgyWaits, agySent, AgyTaken)
  BY AgyFields DEF AgyChain, AgyProcsInv
<1>2. /\ 1 \in DOMAIN q.chain /\ line \in AgyLine /\ Head(q.chain) = line
      /\ Tail(q.chain) \in Seq(AgyLine)
  BY <1>1
<1>3. line.kind \in {"event", "exit", "result"} BY <1>2 DEF AgyLine
<1>4. UNCHANGED <<agyState, agyDraining, agySent, agyStop, agyReason, agySettled, agyRuns>> BY DEF AgyChain
<1>5. AgyTaken' = AgyTaken /\ AgyRunsOnce' BY <1>4 DEF AgyTaken, AgyRunsInv, AgyRunsOnce
<1>6. CASE line.kind = "event"
  <2> DEFINE r == [q EXCEPT !.chain = Tail(@)]
  <2>1. /\ agyProcs' = [agyProcs EXCEPT ![p] = r] /\ agyHeard' = (agyHeard \/ p = agyConn)
        /\ UNCHANGED <<agyPhase, agyGot, agyAttempt, agyConn, agyTurnConn>>
    BY <1>1, <1>2, <1>6 DEF AgyChain
  <2>2. r \in AgyProc /\ r.chain = Tail(q.chain) /\ r.alive = q.alive /\ r.took = q.took
        /\ r.stdin = q.stdin /\ r.waiters = q.waiters
    BY <1>1, <1>2 DEF AgyProc
  <2> HIDE DEF r
  <2>3. AgyProcOK(r) BY <1>1, <1>6, <2>2, AgyHandledOK
  <2>4. AgyWaits' = AgyWaits BY <2>1 DEF AgyWaits
  <2>5. AgyProcsInv' BY <1>4, <1>5, <2>1, <2>4, <1>1, <2>2, <2>3, AgyProcSteps DEF AgyProcsInv, AgyOfTurn
  <2>6. AgyHeardInv'
    <3>1. ASSUME agyPhase = "waiting", ~agyHeard' PROVE ~agyHeard /\ agyProcs'[agyTurnConn] = agyProcs[agyTurnConn]
      <4>1. ~agyHeard /\ p # agyConn BY <2>1, <3>1 DEF AgyTypes
      <4>2. agyConn = agyTurnConn /\ agyConn # 0 BY <3>1 DEF AgyRunsInv, AgyHeardInv
      <4>3. agyConn \in DOMAIN agyProcs BY <1>1, <4>2 DEF AgyProcsInv
      <4>4. agyProcs'[agyTurnConn] = agyProcs[agyTurnConn] BY <2>1, <4>1, <4>2, <4>3
      <4>5. QED BY <4>1, <4>4
    <3>2. QED BY <1>4, <1>5, <2>1, <3>1 DEF AgyRunsInv, AgyHeardInv
  <2>7. AgyTypes' BY <1>4, <2>1 DEF AgyTypes
  <2>8. AgySettledInv' BY <1>4, <2>1, AgySettledKept
  <2>9. QED BY <1>5, <2>5, <2>6, <2>7, <2>8 DEF AgyRunsInv
<1>7. CASE line.kind # "event"
  <2> DEFINE r == [q EXCEPT !.chain = Tail(@), !.waiters = << >>]
             done == [agyProcs EXCEPT ![p] = r]
             mine(w) == p = agyTurnConn /\ w = agySent /\ agyPhase # "none"
  <2>1. << >> \in Seq(Nat) OBVIOUS
  <2>2. r \in AgyProc /\ r.chain = Tail(q.chain) /\ r.alive = q.alive /\ r.took = q.took
        /\ r.stdin = q.stdin /\ r.waiters = << >>
    BY <1>1, <1>2, <2>1 DEF AgyProc
  <2>3. \* Whoever waited is served: the turn goes on, or nobody is concerned.
        \/ /\ p = agyTurnConn /\ agyPhase # "none"
           /\ \E o \in {0, agySent}, auth \in BOOLEAN :
                 AgyOutcome(o, done, auth) /\ (o = 0 => line.kind = "exit" \/ agySent = 0)
        \/ /\ agyProcs' = done
           /\ ~q.alive \/ ~(p = agyTurnConn /\ AgyWaits)
           /\ UNCHANGED <<agyPhase, agyGot, agyAttempt, agyHeard, agyConn, agyTurnConn>>
    <3>1. CASE line.kind = "exit"
      <4>1. done = [[agyProcs EXCEPT ![p].chain = Tail(@)] EXCEPT ![p].waiters = << >>] BY <1>1
      <4>2. IF \E i \in DOMAIN q.waiters : mine(q.waiters[i])
            THEN \E auth \in BOOLEAN : AgyOutcome(0, done, auth)
            ELSE /\ agyProcs' = done
                 /\ UNCHANGED <<agyPhase, agyGot, agyAttempt, agyHeard, agyConn, agyTurnConn>>
        BY <1>2, <3>1, <4>1 DEF AgyChain
      <4>3. ~q.alive BY <1>1, <1>2, <3>1 DEF AgyProcOK
      <4> HIDE DEF done
      <4>4. QED BY <3>1, <4>2, <4>3
    <3>2. CASE line.kind = "result"
      <4>1. q.waiters = <<line.about>> /\ q.waiters # << >>
        <5>1. q.waiters = <<line.about>> BY <1>1, <1>2, <3>2 DEF AgyProcOK
        <5>2. Len(q.waiters) = 1 BY <5>1
        <5>3. QED BY <5>1, <5>2
      <4>2. Head(q.waiters) = line.about /\ Tail(q.waiters) = << >> BY <4>1
      <4>3. done = [[agyProcs EXCEPT ![p].chain = Tail(@)] EXCEPT ![p].waiters = Tail(@)] BY <1>1, <4>2
      <4>4. IF mine(line.about)
            THEN AgyOutcome(line.about, done, FALSE)
            ELSE /\ agyProcs' = done
                 /\ UNCHANGED <<agyPhase, agyGot, agyAttempt, agyHeard, agyConn, agyTurnConn>>
        BY <1>2, <3>2, <4>1, <4>2, <4>3 DEF AgyChain
      <4>5. q.alive /\ p = agyTurnConn /\ AgyWaits => mine(line.about)
        <5>1. ASSUME q.alive, p = agyTurnConn, AgyWaits PROVE line.about = agySent /\ agyPhase # "none"
          BY <1>1, <4>1, <5>1 DEF AgyOfTurn, AgyWaits
        <5>2. QED BY <5>1
      <4> HIDE DEF done
      <4>6. QED BY <4>4, <4>5
    <3>3. QED BY <1>3, <1>7, <3>1, <3>2
  <2>4. AgyProcOK(r) BY <1>1, <1>7, <2>2, AgyHandledOK
  <2> HIDE DEF r
  <2>5. /\ done \in Seq(AgyProc) /\ Len(done) = Len(agyProcs) /\ DOMAIN done = DOMAIN agyProcs
        /\ done[p] = r /\ \A c \in DOMAIN agyProcs : c # p => done[c] = agyProcs[c]
    BY <1>1, <2>2, AgyUpdate
  <2> HIDE DEF done
  <2>6. ASSUME p = agyTurnConn, agyPhase # "none", NEW o \in {0, agySent}, NEW auth \in BOOLEAN,
               AgyOutcome(o, done, auth), o = 0 => line.kind = "exit" \/ agySent = 0
        PROVE  AgyTypes' /\ AgySettledInv' /\ AgyProcsInv' /\ AgyRunsInv'
    <3>1. \A c \in DOMAIN done : AgyProcOK(done[c]) /\ (done[c].alive => done[c].waiters = << >>)
      <4> SUFFICES ASSUME NEW c \in DOMAIN done
                   PROVE  AgyProcOK(done[c]) /\ (done[c].alive => done[c].waiters = << >>)
        OBVIOUS
      <4>1. CASE c = p BY <2>2, <2>4, <2>5, <4>1
      <4>2. CASE c # p BY <2>5, <2>6, <4>2, AgyNobodyWaits DEF AgyProcsInv
      <4>3. QED BY <4>1, <4>2
    <3>2. agySent # 0 BY <2>6 DEF AgySettledInv, AgyTypes
    <3>3. o = 0 /\ agyPhase = "waiting" /\ agyAttempt = 1 /\ ~agyHeard => agySent \notin AgyTaken
      <4> SUFFICES ASSUME line.kind = "exit", agyPhase = "waiting", agyAttempt = 1, ~agyHeard,
                          agySent \in AgyTaken
                   PROVE  FALSE
        BY <2>6, <3>2
      <4>1. AgyHasEvent(q.chain) BY <2>6 DEF AgyRunsInv, AgyHeardInv
      <4>2. Len(q.chain) = 1 BY <1>1, <1>2 DEF AgyProcOK
      <4>3. QED BY <1>1, <4>1, <4>2 DEF AgyHasEvent
    <3>4. QED BY <1>4, <2>5, <2>6, <3>1, <3>3, AgyOutcomeKeeps
  <2>7. ASSUME agyProcs' = done, ~q.alive \/ ~(p = agyTurnConn /\ AgyWaits),
               UNCHANGED <<agyPhase, agyGot, agyAttempt, agyHeard, agyConn, agyTurnConn>>
        PROVE  AgyTypes' /\ AgySettledInv' /\ AgyProcsInv' /\ AgyRunsInv'
    <3>1. AgyTypes' BY <1>4, <2>7 DEF AgyTypes
    <3>2. AgySettledInv' BY <1>4, <2>7, AgySettledKept
    <3>3. AgyWaits' = AgyWaits BY <2>7 DEF AgyWaits
    <3>4. AgyProcsInv' BY <1>4, <1>5, <2>7, <3>3, <2>2, <2>4, AgyIdle, AgyProcSteps DEF AgyProcsInv, done
    <3>5. AgyHeardInv'
      <4>1. ASSUME agyPhase = "waiting", AgyHasEvent(agyProcs[agyTurnConn].chain)
            PROVE  AgyHasEvent(agyProcs'[agyTurnConn].chain)
        <5>1. agyTurnConn \in DOMAIN agyProcs BY <4>1 DEF AgyProcsInv, AgyRunsInv, AgyHeardInv
        <5>2. CASE agyTurnConn = p BY <2>5, <2>7, <5>2, <1>1, <1>7, <4>1, AgyEventStays, <2>2
        <5>3. CASE agyTurnConn # p BY <2>5, <2>7, <4>1, <5>1, <5>3
        <5>4. QED BY <5>2, <5>3
      <4>2. QED BY <1>4, <1>5, <2>7, <4>1 DEF AgyRunsInv, AgyHeardInv
    <3>6. QED BY <1>5, <3>1, <3>2, <3>4, <3>5 DEF AgyRunsInv
  <2>8. QED BY <2>3, <2>6, <2>7
<1>8. QED BY <1>6, <1>7

\* A turn starts: nobody waits, and agy has not seen its message.
LEMMA AgySendKeeps ==
  ASSUME AgyInv, NEW stopped \in BOOLEAN, AgySend(stopped)
  PROVE  AgyInv'
<1> USE DEF AgyInv
<1>1. /\ agyPhase = "none" /\ agyState # "closed" /\ agyDraining = FALSE
      /\ agySent' = agySent + 1 /\ agyState' = "busy" /\ agyPhase' = "starting"
      /\ agyReason' = "none" /\ agyAttempt' = 0 /\ agyTurnConn' = 0 /\ agyGot' = 0
      /\ agyStop' \in {{"aborted"}, {}}
      /\ UNCHANGED <<agyDraining, agyHeard, agyConn, agyProcs, agySettled, agyClosing, agyRuns>>
  BY DEF AgySend, AgyTypes
<1>2. agySent \in Nat /\ agyRuns \in Seq(Nat) /\ agyProcs \in Seq(AgyProc)
  BY DEF AgyTypes, AgyRunsInv, AgyRunsOnce, AgyProcsInv
<1>3. AgyTypes' BY <1>1, <1>2 DEF AgyTypes
<1>4. AgySettledInv' BY <1>1, <1>2 DEF AgySettledInv
<1>5. AgyTaken' = AgyTaken /\ ~AgyWaits /\ ~AgyWaits' BY <1>1 DEF AgyTaken, AgyWaits
<1>6. AgyProcsInv'
  <2>1. \A c \in DOMAIN agyProcs :
           /\ AgyProcOK(agyProcs[c])
           /\ AgyOfTurn(agyProcs[c], c = agyTurnConn' /\ AgyWaits', agySent', AgyTaken')
    <3> SUFFICES ASSUME NEW c \in DOMAIN agyProcs
                 PROVE  /\ AgyProcOK(agyProcs[c])
                        /\ AgyOfTurn(agyProcs[c], c = agyTurnConn' /\ AgyWaits', agySent', AgyTaken')
      OBVIOUS
    <3>1. AgyProcOK(agyProcs[c]) /\ (agyProcs[c].alive => agyProcs[c].waiters = << >>)
      BY <1>5, AgyNobodyWaits DEF AgyProcsInv
    <3>2. QED BY <3>1, AgyIdle
  <2>2. agyProcs' = agyProcs /\ agyConn' \in 0..Len(agyProcs) BY <1>1 DEF AgyProcsInv
  <2>3. QED BY <1>2, <2>1, <2>2 DEF AgyProcsInv
<1>7. \A i \in DOMAIN agyRuns : agyRuns[i] \in Nat /\ agyRuns[i] <= agySent BY <1>2 DEF AgyRunsInv, AgyRunsOnce
<1>8. AgyRunsOnce' BY <1>1, <1>2, <1>7 DEF AgyRunsInv, AgyRunsOnce
<1>9. AgyHeardInv'
  <2>1. agySent' \notin AgyTaken'
    <3>1. ASSUME NEW i \in DOMAIN agyRuns PROVE agyRuns[i] # agySent + 1 BY <1>2, <1>7
    <3>2. agySent + 1 \notin AgyTaken BY <3>1 DEF AgyTaken
    <3>3. QED BY <1>1, <1>5, <3>2
  <2>2. QED BY <1>1, <2>1 DEF AgyHeardInv
<1>10. AgyClosingInv' BY <1>1 DEF AgyClosingInv
<1>11. QED BY <1>3, <1>4, <1>6, <1>8, <1>9, <1>10 DEF AgyRunsInv

\* The turn starts: it is over before agy saw anything, or the message is written.
LEMMA AgyStartsKeeps == ASSUME AgyInv, AgyStarts PROVE AgyInv'
<1> USE DEF AgyInv
<1>1. /\ agyPhase = "starting" /\ agyAttempt = 0 /\ agySent \notin AgyTaken /\ agySent \in Nat
      /\ UNCHANGED <<agyState, agyDraining, agySent, agyStop, agySettled, agyClosing, agyRuns>>
  BY DEF AgyStarts, AgyRunsInv, AgyHeardInv, AgyTypes
<1>2. AgyClosingInv' BY <1>1, AgyClosingKept
<1>3. \A c \in DOMAIN agyProcs : agyProcs[c].alive => agyProcs[c].waiters = << >>
  BY <1>1, AgyNobodyWaits DEF AgyWaits
<1>4. CASE "aborted" \in agyStop
  <2>1. /\ agyPhase' = "ending" /\ agyReason' = "aborted" /\ agyGot' = 0
        /\ UNCHANGED <<agyAttempt, agyHeard, agyConn, agyTurnConn, agyProcs>>
    BY <1>4 DEF AgyStarts
  <2>2. AgyTypes' BY <1>1, <2>1 DEF AgyTypes
  <2>3. AgySettledInv' BY <1>1, <2>1, AgySettledKept
  <2>4. ~AgyWaits' /\ UNCHANGED <<agyProcs, agyRuns, agySent, agyTurnConn, agyAttempt, agyHeard>>
        /\ agyConn' \in {0, agyConn} /\ (agyPhase' = "waiting" => agyPhase = "waiting" /\ agyConn' = agyConn)
        /\ (agyPhase' # "starting" \/ agyPhase = "starting")
    BY <1>1, <2>1 DEF AgyWaits
  <2>5. AgyProcsInv' /\ AgyRunsInv' BY <1>3, <2>4, AgyQuietSteps
  <2>6. QED BY <1>2, <2>2, <2>3, <2>5
<1>5. CASE "aborted" \notin agyStop
  <2>1. AgyWrite(agyProcs, agyConn) /\ agyPhase' = "waiting" /\ UNCHANGED <<agyReason, agyGot>>
    BY <1>5 DEF AgyStarts
  <2>2. AgyTaken' = AgyTaken /\ AgyRunsOnce' BY <1>1 DEF AgyTaken, AgyRunsInv, AgyRunsOnce
  <2>3. /\ AgyProcsInv' /\ agyConn' = agyTurnConn' /\ agyConn' # 0
        /\ agyAttempt' = agyAttempt + 1 /\ agyHeard' = FALSE
    BY <1>3, <1>1, <2>2, <2>1, AgyWriteOK DEF AgyProcsInv
  <2>4. AgyTypes'
    <3>1. agyAttempt' \in Nat /\ agyHeard' \in BOOLEAN
      <4>1. agyAttempt' \in Nat BY <1>1, <2>3
      <4>2. agyHeard' \in BOOLEAN BY <2>3
      <4>3. QED BY <4>1, <4>2
    <3>2. agyPhase' # "none" => agyGot' \in {0, agySent'} BY <1>1, <2>1 DEF AgyTypes
    <3>3. /\ agyState' \in {"idle", "busy", "closed"} /\ agyDraining' \in BOOLEAN /\ agySent' \in Nat
          /\ agyStop' \subseteq {"timeout", "aborted"} /\ agyReason' \in {"none", "timeout", "aborted"}
      BY <1>1, <2>1 DEF AgyTypes
    <3>4. QED BY <2>1, <3>1, <3>2, <3>3 DEF AgyTypes
  <2>5. AgySettledInv' BY <1>1, <2>1, AgySettledKept
  <2>6. AgyHeardInv' BY <1>1, <2>1, <2>2, <2>3 DEF AgyHeardInv
  <2>7. QED BY <1>2, <2>2, <2>3, <2>4, <2>5, <2>6 DEF AgyRunsInv
<1>6. QED BY <1>4, <1>5

\* The guards, and what stops a turn and ends it.
LEMMA AgyTurnKeeps ==
  ASSUME AgyInv,
         \/ \E guard \in {"timeout", "aborted"} : AgyGuardFires(guard) \/ AgyInterrupted(guard)
         \/ AgyTerminates \/ AgyStopped \/ AgyEnds
  PROVE  AgyInv'
<1> USE DEF AgyInv
<1>1. /\ UNCHANGED <<agyProcs, agyRuns, agySent, agyTurnConn, agyAttempt, agyHeard, agyDraining,
                     agyGot, agyClosing>>
      /\ agyState = "closed" => agyState' = "closed"
  BY DEF AgyGuardFires, AgyInterrupted, AgyTerminates, AgyStopped, AgyEnds
<1>2. AgyClosingInv' BY <1>1, AgyClosingKept
<1>3. CASE \E guard \in {"timeout", "aborted"} : AgyGuardFires(guard) \/ AgyInterrupted(guard)
  <2>1. /\ UNCHANGED <<agyState, agyConn, agySettled>>
        /\ agyPhase' = agyPhase \/ (agyPhase = "waiting" /\ agyPhase' = "interrupting")
        /\ agyReason' \in {agyReason, "timeout", "aborted"}
        /\ agyStop' \subseteq agyStop \cup {"timeout", "aborted"}
    BY <1>3 DEF AgyGuardFires, AgyInterrupted
  <2>2. AgyTypes' BY <1>1, <2>1 DEF AgyTypes
  <2>3. AgySettledInv' BY <1>1, <2>1, AgySettledKept
  <2>4. AgyWaits' = AgyWaits BY <2>1 DEF AgyWaits
  <2>5. AgyWaits' \/ (\A c \in DOMAIN agyProcs : agyProcs[c].alive => agyProcs[c].waiters = << >>)
    BY <2>4, AgyNobodyWaits
  <2>6. /\ agyConn' \in {0, agyConn} /\ (agyPhase' = "waiting" => agyPhase = "waiting" /\ agyConn' = agyConn)
        /\ (agyPhase' # "starting" \/ agyPhase = "starting")
    BY <2>1
  <2>7. AgyProcsInv' /\ AgyRunsInv' BY <1>1, <2>4, <2>5, <2>6, AgyQuietSteps
  <2>8. QED BY <1>2, <2>2, <2>3, <2>7
<1>4. CASE AgyTerminates
  <2>1. /\ UNCHANGED <<agyState, agyConn, agySettled, agyStop, agyReason>>
        /\ agyPhase = "interrupting" /\ agyPhase' = "terminating"
    BY <1>4 DEF AgyTerminates
  <2>2. AgyTypes' BY <1>1, <2>1 DEF AgyTypes
  <2>3. AgySettledInv' BY <1>1, <2>1, AgySettledKept
  <2>4. AgyWaits' /\ AgyWaits BY <2>1 DEF AgyWaits
  <2>5. /\ agyConn' \in {0, agyConn} /\ (agyPhase' = "waiting" => agyPhase = "waiting" /\ agyConn' = agyConn)
        /\ (agyPhase' # "starting" \/ agyPhase = "starting")
    BY <2>1
  <2>6. AgyProcsInv' /\ AgyRunsInv' BY <1>1, <2>4, <2>5, AgyQuietSteps
  <2>7. QED BY <1>2, <2>2, <2>3, <2>6
<1>5. CASE AgyStopped
  <2>1. /\ UNCHANGED <<agyState, agySettled, agyStop, agyReason>>
        /\ (agyPhase = "terminating" /\ ~agyProcs[agyTurnConn].alive) \/ agyPhase = "leaving"
        /\ agyPhase' = "ending" /\ agyConn' \in {0, agyConn}
    BY <1>5 DEF AgyStopped, AgyDropsConn
  <2>2. AgyTypes' BY <1>1, <2>1 DEF AgyTypes
  <2>3. AgySettledInv' BY <1>1, <2>1, AgySettledKept
  <2>4. \A c \in DOMAIN agyProcs : agyProcs[c].alive => agyProcs[c].waiters = << >>
    BY <2>1, AgyNobodyWaits DEF AgyWaits
  <2>5. /\ ~AgyWaits' /\ (agyPhase' = "waiting" => agyPhase = "waiting" /\ agyConn' = agyConn)
        /\ (agyPhase' # "starting" \/ agyPhase = "starting")
    BY <2>1 DEF AgyWaits
  <2>6. AgyProcsInv' /\ AgyRunsInv' BY <1>1, <2>1, <2>4, <2>5, AgyQuietSteps
  <2>7. QED BY <1>2, <2>2, <2>3, <2>6
<1>6. CASE AgyEnds
  <2> DEFINE result == [status |-> IF agyReason # "none" THEN agyReason
                                   ELSE IF agyGot = 0 THEN "failed" ELSE "completed",
                        about |-> agyGot]
  <2>1. /\ agyPhase = "ending" /\ agyPhase' = "none" /\ agySettled' = Append(agySettled, result)
        /\ agyConn' \in {0, agyConn} /\ agyState' \in {"closed", "idle"}
        /\ UNCHANGED <<agyStop, agyReason>>
    BY <1>6 DEF AgyEnds
  <2>2. AgyTypes' BY <1>1, <2>1 DEF AgyTypes
  <2>3. result \in AgyResult /\ result.about \in {0, agySent} /\ agySent \in Nat
    BY <2>1 DEF AgyTypes, AgyResult, AgyStatuses
  <2> HIDE DEF result
  <2>4. AgySettledInv'
    <3>1. agySettled \in Seq(AgyResult) /\ Len(agySettled) = agySent - 1 BY <2>1 DEF AgySettledInv
    <3>2. /\ agySettled' \in Seq(AgyResult) /\ Len(agySettled') = agySent /\ DOMAIN agySettled' = 1..agySent
          /\ agySettled'[agySent] = result
          /\ \A i \in DOMAIN agySettled : agySettled'[i] = agySettled[i]
          /\ DOMAIN agySettled = 1..(agySent - 1)
      BY <2>1, <2>3, <3>1
    <3>3. ASSUME NEW i \in DOMAIN agySettled' PROVE agySettled'[i].about \in {0, i}
      <4>1. CASE i = agySent BY <2>3, <3>2, <4>1
      <4>2. CASE i # agySent BY <2>3, <3>2, <4>2 DEF AgySettledInv
      <4>3. QED BY <4>1, <4>2
    <3>4. QED BY <1>1, <2>1, <3>2, <3>3 DEF AgySettledInv
  <2>5. \A c \in DOMAIN agyProcs : agyProcs[c].alive => agyProcs[c].waiters = << >>
    BY <2>1, AgyNobodyWaits DEF AgyWaits
  <2>6. /\ ~AgyWaits' /\ (agyPhase' = "waiting" => agyPhase = "waiting" /\ agyConn' = agyConn)
        /\ (agyPhase' # "starting" \/ agyPhase = "starting")
    BY <2>1 DEF AgyWaits
  <2>7. AgyProcsInv' /\ AgyRunsInv' BY <1>1, <2>1, <2>5, <2>6, AgyQuietSteps
  <2>8. QED BY <1>2, <2>2, <2>4, <2>7
<1>7. QED BY <1>3, <1>4, <1>5, <1>6

\* What a process writes, and what its chain does with it.
LEMMA AgyProcessKeeps ==
  ASSUME AgyInv, NEW p \in DOMAIN agyProcs, AgyTakes(p) \/ AgyReports(p) \/ AgyExit(p) \/ AgyChain(p)
  PROVE  AgyInv'
<1> USE DEF AgyInv
<1>1. UNCHANGED <<agyState, agyDraining, agySent, agyClosing>> BY DEF AgyTakes, AgyReports, AgyExit, AgyChain
<1>2. AgyClosingInv' BY <1>1, AgyClosingKept
<1>3. CASE AgyTakes(p) \/ AgyReports(p) \/ AgyExit(p)
  <2>1. UNCHANGED <<agyPhase, agyStop, agyReason, agyAttempt, agyHeard, agyGot, agySettled>>
    BY <1>3 DEF AgyTakes, AgyReports, AgyExit
  <2>2. AgyTypes' BY <1>1, <2>1 DEF AgyTypes
  <2>3. AgySettledInv' BY <1>1, <2>1, AgySettledKept
  <2>4. AgyProcsInv' /\ AgyRunsInv' BY <1>3, AgyTakesKeeps, AgyWritesKeeps
  <2>5. QED BY <1>2, <2>2, <2>3, <2>4
<1>4. CASE AgyChain(p) BY <1>2, <1>4, AgyChainKeeps
<1>5. QED BY <1>3, <1>4

\* close() up to its first await, called when others already close.
LEMMA AgyShutsKeeps ==
  ASSUME AgyInv, NEW others \in SUBSET agyClosing, AgyShuts(others), agyDraining' \in BOOLEAN,
         agyDraining => agyDraining',
         UNCHANGED <<agySent, agyPhase, agyReason, agyAttempt, agyHeard, agyTurnConn, agyGot,
                     agyProcs, agySettled, agyRuns>>
  PROVE  AgyInv'
<1> USE DEF AgyInv
<1>1. /\ agyState' = "closed" /\ agyStop' \subseteq agyStop \cup {"aborted"}
      /\ agyConn' = agyConn \/ (agyConn' = 0 /\ agyPhase = "none")
      /\ \A w \in agyClosing' : w \in agyClosing \/ w.awaits = "exit" \/ (w.awaits = "turn" /\ w.of = agySent)
  BY DEF AgyShuts
<1>2. AgyTypes' BY <1>1 DEF AgyTypes
<1>3. AgySettledInv' BY AgySettledKept
<1>4. AgyProcsInv' /\ AgyRunsInv' BY AgyNobodyWaits, <1>1, AgyQuietSteps DEF AgyWaits
<1>5. AgyClosingInv' BY <1>1 DEF AgyClosingInv, AgyTypes
<1>6. QED BY <1>2, <1>3, <1>4, <1>5

LEMMA AgyCloseKeeps ==
  ASSUME AgyInv, AgyClose \/ AgyDrain \/ \E w \in agyClosing : AgyWakes(w) \/ AgyClosed(w)
  PROVE  AgyInv'
<1> USE DEF AgyInv
<1>1. /\ UNCHANGED <<agySent, agyPhase, agyReason, agyAttempt, agyHeard, agyTurnConn, agyGot,
                     agyProcs, agySettled, agyRuns>>
      /\ agyDraining' \in BOOLEAN
  BY DEF AgyClose, AgyDrain, AgyWakes, AgyClosed, AgyTypes
<1>2. agyDraining => agyDraining' BY DEF AgyClose, AgyDrain, AgyWakes, AgyClosed
<1>3. CASE \E others \in SUBSET agyClosing : AgyShuts(others) BY <1>1, <1>2, <1>3, AgyShutsKeeps
<1>4. ASSUME UNCHANGED <<agyState, agyStop>>, agyConn' = agyConn \/ (agyConn' = 0 /\ agyPhase = "none"),
             \A w \in agyClosing' : \/ w \in agyClosing \/ w.awaits = "exit"
                                    \/ w.awaits = "drain" /\ w.of = agySent /\ agyDraining'
      PROVE  AgyInv'
  <2>1. AgyTypes' BY <1>1, <1>4 DEF AgyTypes
  <2>2. AgySettledInv' BY <1>1, AgySettledKept
  <2>3. AgyProcsInv' /\ AgyRunsInv' BY <1>1, AgyNobodyWaits, <1>4, AgyQuietSteps DEF AgyWaits
  <2>4. AgyClosingInv' BY <1>1, <1>2, <1>4 DEF AgyClosingInv, AgyTypes
  <2>5. QED BY <2>1, <2>2, <2>3, <2>4
<1>5. CASE AgyClose BY <1>3, <1>5 DEF AgyClose
<1>6. CASE AgyDrain
  <2>1. CASE agyPhase # "none" BY <1>6, <2>1, <1>4 DEF AgyDrain
  <2>2. CASE agyPhase = "none" BY <1>3, <1>6, <2>2 DEF AgyDrain
  <2>3. QED BY <2>1, <2>2
<1>7. ASSUME NEW w \in agyClosing, AgyWakes(w) PROVE AgyInv'
  <2>1. CASE w.awaits = "drain" BY <1>3, <1>7, <2>1 DEF AgyWakes
  <2>2. CASE w.awaits # "drain"
    <3>1. /\ w.awaits # "exit" /\ w.of <= Len(agySettled) /\ agyConn' = 0 /\ UNCHANGED <<agyState, agyStop>>
          /\ agyClosing' = (agyClosing \ {w}) \cup
               (IF agyConn = 0 THEN {} ELSE {[awaits |-> "exit", of |-> agyConn]})
      BY <1>7, <2>2 DEF AgyWakes
    <3>2. agyPhase = "none" BY <2>2, <3>1 DEF AgyClosingInv, AgySettledInv, AgyTypes
    <3>3. QED BY <1>4, <3>1, <3>2
  <2>3. QED BY <2>1, <2>2
<1>8. ASSUME NEW w \in agyClosing, AgyClosed(w) PROVE AgyInv' BY <1>4, <1>8 DEF AgyClosed
<1>9. QED BY <1>5, <1>6, <1>7, <1>8

LEMMA AgyInvKept == ASSUME AgyInv, [AgyNext]_agyVars PROVE AgyInv'
<1>1. CASE UNCHANGED agyVars
  BY <1>1 DEF agyVars, AgyInv, AgyTypes, AgySettledInv, AgyProcsInv, AgyRunsInv, AgyRunsOnce,
              AgyHeardInv, AgyClosingInv, AgyTaken, AgyWaits
<1>2. CASE AgyNext
  BY <1>2, AgySendKeeps, AgyStartsKeeps, AgyTurnKeeps, AgyProcessKeeps, AgyCloseKeeps DEF AgyNext
<1>3. QED BY <1>1, <1>2

-----------------------------------------------------------------------------
(* The sessions of MCSessions: a step of one of them leaves the others alone *)

LEMMA StepsOfEach ==
  ASSUME [SessionsNext]_sessionsVars
  PROVE  [AcpNext]_acpVars /\ [PiNext]_piVars /\ [AgyNext]_agyVars /\ [OcNext]_ocVars
<1>1. CASE UNCHANGED sessionsVars BY <1>1 DEF sessionsVars
<1>2. CASE SessionsNext BY <1>2 DEF SessionsNext
<1>3. QED BY <1>1, <1>2

LEMMA SessionsInvGives == ASSUME ~AcpSlowAgent, SessionsInv PROVE EachTurnItsOwn
<1>1. AcpOwnText BY DEF SessionsInv, AcpInv, AcpSettledInv, AcpOwnText
<1>2. PiOwnEnd BY DEF SessionsInv, PiInv, PiSettledInv
<1>3. AgyOwnResult BY DEF SessionsInv, AgyInv, AgySettledInv, AgyRunsInv, AgyRunsOnce, AgyOwnResult
<1>4. OcAskedOnce
  <2>1. OcAsksInv /\ OcTypes BY DEF SessionsInv, OcInv
  <2> SUFFICES ASSUME NEW r \in OcRequests
               PROVE  /\ ocAsked[r] <= 1
                      /\ ocServer[r] \in {"allow", "deny"} => ocAsked[r] = 1
                      /\ ocReply[r] # "none" /\ ocServer[r] \notin {"new", "open"} => ocServer[r] = ocReply[r]
    BY DEF OcAskedOnce
  <2>2. ocAsked[r] \in {0, 1} /\ (ocAsked[r] = 0 => ocServer[r] \in {"new", "open"}) BY <2>1 DEF OcAsksInv
  <2>3. ocReply[r] # "none" /\ ocServer[r] \notin {"new", "open"} => ocServer[r] = ocReply[r]
    BY <2>1 DEF OcAsksInv
  <2>4. QED BY <2>2, <2>3
<1>5. QED BY <1>1, <1>2, <1>3, <1>4 DEF EachTurnItsOwn

\* For any number of sends, lines, processes and requests: the text, the end and the result
\* of a turn reach the send of that turn and no other, and OpenCode's host decides a request
\* once, as long as a cancelled ACP prompt ends within its grace (acp/session.ts runPrompt)
\* and pi's handlers return within theirs (pi/session.ts onTurnInterrupt).
THEOREM EveryTurnItsOwn ==
  ASSUME ~AcpSlowAgent, ~PiSlowHandlers
  PROVE  SessionsSpec => []EachTurnItsOwn
<1>1. SessionsInit => SessionsInv
  BY AcpInvHoldsFirst, PiInvHoldsFirst, AgyInvHoldsFirst, OcInvHoldsFirst DEF SessionsInit, SessionsInv
<1>2. SessionsInv /\ [SessionsNext]_sessionsVars => SessionsInv'
  <2> SUFFICES ASSUME SessionsInv, [SessionsNext]_sessionsVars PROVE SessionsInv' OBVIOUS
  <2>1. [AcpNext]_acpVars /\ [PiNext]_piVars /\ [AgyNext]_agyVars /\ [OcNext]_ocVars BY StepsOfEach
  <2>2. AcpInv /\ PiInv /\ AgyInv /\ OcInv BY DEF SessionsInv
  <2>3. AcpInv' /\ PiInv' BY <2>1, <2>2, AcpInvKept, PiInvKept
  <2>4. AgyInv' /\ OcInv' BY <2>1, <2>2, AgyInvKept, OcInvKept
  <2>5. QED BY <2>3, <2>4 DEF SessionsInv
<1>3. SessionsInv => EachTurnItsOwn BY SessionsInvGives
<1>4. QED BY <1>1, <1>2, <1>3, PTL DEF SessionsSpec

-----------------------------------------------------------------------------
(* The contract of PromptSession: its safety                               *)

\* The statuses of what has settled grow by the status of what settles.
LEMMA StatusesGrow ==
  ASSUME NEW S, NEW R, \A x \in R : x.status \in S, NEW s \in Seq(R), NEW r \in R
  PROVE  /\ [i \in DOMAIN s |-> s[i].status] \in Seq(S)
         /\ Len([i \in DOMAIN s |-> s[i].status]) = Len(s)
         /\ [i \in DOMAIN Append(s, r) |-> Append(s, r)[i].status]
               = Append([i \in DOMAIN s |-> s[i].status], r.status)
<1> DEFINE st == [i \in DOMAIN s |-> s[i].status]
<1>1. st \in Seq(S) /\ Len(st) = Len(s) OBVIOUS
<1>2. \A i \in DOMAIN s : st[i] = s[i].status OBVIOUS
<1>3. DOMAIN st = DOMAIN s OBVIOUS
<1> HIDE DEF st
<1>4. /\ DOMAIN Append(st, r.status) = 1..(Len(s) + 1)
      /\ \A i \in 1..(Len(s) + 1) : Append(st, r.status)[i] = IF i = Len(s) + 1 THEN r.status ELSE st[i]
  BY <1>1
<1>5. /\ DOMAIN Append(s, r) = 1..(Len(s) + 1) /\ DOMAIN s = 1..Len(s) /\ Len(s) \in Nat
      /\ \A i \in 1..(Len(s) + 1) : Append(s, r)[i] = IF i = Len(s) + 1 THEN r ELSE s[i]
  OBVIOUS
<1>6. \A i \in 1..(Len(s) + 1) : Append(s, r)[i].status = Append(st, r.status)[i] BY <1>2, <1>4, <1>5
<1>7. Append(st, r.status) = [i \in 1..(Len(s) + 1) |-> Append(st, r.status)[i]] BY <1>1, <1>4
<1>8. [i \in DOMAIN Append(s, r) |-> Append(s, r)[i].status] = Append(st, r.status) BY <1>5, <1>6, <1>7
<1>9. QED BY <1>1, <1>8 DEF st

\* Antigravity: what is taken, settled and shut, in the terms of the contract.
AgyOpen == agyState # "closed" /\ ~agyDraining
AgyStep == [AgyContract!Next]_(AgyContract!promptVars)

LEMMA AgyTakesOne ==
  ASSUME AgyOpen, AgyOpen', Len(agySettled) = agySent, AgySettledInv, agySent' = agySent + 1, UNCHANGED agySettled
  PROVE  AgyStep
<1> DEFINE st == [i \in DOMAIN agySettled |-> agySettled[i].status]
<1>1. Len(st) = Len(agySettled) BY DEF AgySettledInv
<1>2. st' = st OBVIOUS
<1>3. AgyContract!Take BY <1>1, <1>2 DEF AgyContract!Take, AgyOpen
<1>4. QED BY <1>3 DEF AgyStep, AgyContract!Next

LEMMA AgySettlesOne ==
  ASSUME AgySettledInv, NEW r \in AgyResult, agySettled' = Append(agySettled, r),
         Len(agySettled) < agySent, UNCHANGED agySent, AgyOpen' => AgyOpen
  PROVE  AgyStep
<1> DEFINE st == [i \in DOMAIN agySettled |-> agySettled[i].status]
<1>1. \A x \in AgyResult : x.status \in AgyStatuses BY DEF AgyResult
<1>2. agySettled \in Seq(AgyResult) BY DEF AgySettledInv
<1>3. Len(st) = Len(agySettled) /\ st' = Append(st, r.status) BY <1>1, <1>2, StatusesGrow
<1>4. AgyOpen' \in {AgyOpen, FALSE} BY DEF AgyOpen
<1>5. AgyContract!Settle(r.status) BY <1>3, <1>4 DEF AgyContract!Settle, AgyOpen
<1>6. r.status \in {"completed", "failed", "aborted", "timeout"} BY <1>1 DEF AgyStatuses
<1>7. QED BY <1>5, <1>6 DEF AgyStep, AgyContract!Next

LEMMA AgyStaysOrShuts ==
  ASSUME UNCHANGED <<agySent, agySettled>>, AgyOpen' => AgyOpen
  PROVE  AgyStep
<1>1. CASE AgyOpen /\ ~AgyOpen' BY <1>1 DEF AgyContract!Shut, AgyOpen, AgyStep, AgyContract!Next
<1>2. CASE AgyOpen' <=> AgyOpen BY <1>2 DEF AgyStep, AgyContract!promptVars, AgyOpen
<1>3. QED BY <1>1, <1>2

LEMMA AgyStepMaps == ASSUME AgyInv, [AgyNext]_agyVars PROVE AgyStep
<1> USE DEF AgyOpen
<1>1. AgySettledInv /\ AgyTypes BY DEF AgyInv
<1>2. ASSUME NEW stopped \in BOOLEAN, AgySend(stopped) PROVE AgyStep
  BY <1>2, <1>1, AgyTakesOne DEF AgySend, AgySettledInv
<1>3. CASE AgyEnds
  <2> DEFINE r == [status |-> IF agyReason # "none" THEN agyReason
                              ELSE IF agyGot = 0 THEN "failed" ELSE "completed",
                   about |-> agyGot]
  <2>1. /\ agyPhase = "ending" /\ agySettled' = Append(agySettled, r)
        /\ agyState' = IF agyState = "closed" THEN "closed" ELSE "idle"
        /\ UNCHANGED <<agySent, agyDraining>>
    BY <1>3 DEF AgyEnds
  <2>2. r \in AgyResult /\ agySent \in Nat BY <1>1, <2>1 DEF AgyTypes, AgyResult, AgyStatuses
  <2> HIDE DEF r
  <2>3. Len(agySettled) < agySent BY <1>1, <2>1, <2>2 DEF AgySettledInv
  <2>4. AgyOpen' <=> AgyOpen BY <2>1
  <2>5. QED BY <1>1, <2>1, <2>2, <2>3, <2>4, AgySettlesOne
<1>4. CASE \/ UNCHANGED agyVars
           \/ \E guard \in {"timeout", "aborted"} : AgyGuardFires(guard) \/ AgyInterrupted(guard)
           \/ AgyStarts \/ AgyTerminates \/ AgyStopped
           \/ \E p \in DOMAIN agyProcs : AgyTakes(p) \/ AgyReports(p) \/ AgyExit(p) \/ AgyChain(p)
  <2>1. UNCHANGED <<agySent, agySettled, agyState, agyDraining>>
    BY <1>4 DEF agyVars, AgyGuardFires, AgyInterrupted, AgyStarts, AgyTerminates, AgyStopped,
                AgyTakes, AgyReports, AgyExit, AgyChain
  <2>2. QED BY <2>1, AgyStaysOrShuts
<1>5. CASE AgyClose \/ AgyDrain \/ \E w \in agyClosing : AgyWakes(w) \/ AgyClosed(w)
  BY <1>5, AgyStaysOrShuts DEF AgyClose, AgyDrain, AgyWakes, AgyClosed, AgyShuts
<1>6. QED BY <1>2, <1>3, <1>4, <1>5 DEF AgyNext

\* ACP: what is taken, settled and shut, in the terms of the contract.
AcpOpen == acpState # "closed" /\ ~acpDraining
AcpOne == [status : AcpStatuses, text : SUBSET Nat]
AcpStep == [AcpContract!Next]_(AcpContract!promptVars)

LEMMA AcpTakesOne ==
  ASSUME AcpOpen, AcpOpen', Len(acpSettled) = acpSent, AcpSettledInv, acpSent' = acpSent + 1, UNCHANGED acpSettled
  PROVE  AcpStep
<1> DEFINE st == [i \in DOMAIN acpSettled |-> acpSettled[i].status]
<1>1. Len(st) = Len(acpSettled) BY DEF AcpSettledInv, AcpResults, AcpOne
<1>2. st' = st OBVIOUS
<1>3. AcpContract!Take BY <1>1, <1>2 DEF AcpContract!Take, AcpOpen
<1>4. QED BY <1>3 DEF AcpStep, AcpContract!Next

LEMMA AcpSettlesOne ==
  ASSUME AcpSettledInv, NEW r \in AcpOne, acpSettled' = Append(acpSettled, r),
         Len(acpSettled) < acpSent, UNCHANGED acpSent, AcpOpen' => AcpOpen
  PROVE  AcpStep
<1> DEFINE st == [i \in DOMAIN acpSettled |-> acpSettled[i].status]
<1>1. \A x \in AcpOne : x.status \in AcpStatuses BY DEF AcpOne
<1>2. acpSettled \in Seq(AcpOne) BY DEF AcpSettledInv, AcpResults, AcpOne
<1>3. Len(st) = Len(acpSettled) /\ st' = Append(st, r.status) BY <1>1, <1>2, StatusesGrow
<1>4. AcpOpen' \in {AcpOpen, FALSE} BY DEF AcpOpen
<1>5. AcpContract!Settle(r.status) BY <1>3, <1>4 DEF AcpContract!Settle, AcpOpen
<1>6. r.status \in AcpStatuses BY <1>1
<1>7. QED BY <1>5, <1>6 DEF AcpStep, AcpContract!Next

LEMMA AcpStaysOrShuts ==
  ASSUME UNCHANGED <<acpSent, acpSettled>>, AcpOpen' => AcpOpen
  PROVE  AcpStep
<1>1. CASE AcpOpen /\ ~AcpOpen' BY <1>1 DEF AcpContract!Shut, AcpOpen, AcpStep, AcpContract!Next
<1>2. CASE AcpOpen' <=> AcpOpen BY <1>2 DEF AcpStep, AcpContract!promptVars, AcpOpen
<1>3. QED BY <1>1, <1>2

LEMMA AcpStepMaps == ASSUME ~AcpLateAsks, AcpInv, [AcpNext]_acpVars PROVE AcpStep
<1> USE DEF AcpOpen
<1>1. AcpSettledInv /\ AcpTypes /\ AcpTextInv /\ (acpState = "closed" => acpState' = "closed")
  BY AcpShutKept DEF AcpInv
<1>2. ASSUME NEW guarded \in BOOLEAN, AcpSend(guarded) PROVE AcpStep
  <2>1. /\ AcpOpen /\ ~AcpActive /\ acpSent' = acpSent + 1
        /\ acpState' \in {"thinking", "idle"} /\ UNCHANGED acpDraining
    BY <1>2 DEF AcpSend, AcpAccepts
  <2>2. Len(acpSettled) = acpSent /\ acpSettled \in Seq(AcpOne)
    BY <1>1, <2>1 DEF AcpSettledInv, AcpResults, AcpOne
  <2>3. AcpOpen /\ AcpOpen' BY <2>1
  <2>4. CASE acpId BY <1>2, <2>4, <1>1, <2>1, <2>2, <2>3, AcpTakesOne DEF AcpSend
  <2>5. CASE ~acpId
    <3> DEFINE r == [status |-> "failed", text |-> {}]
               st == [i \in DOMAIN acpSettled |-> acpSettled[i].status]
    <3>1. acpSettled' = Append(acpSettled, r) BY <1>2, <2>5 DEF AcpSend
    <3>2. r \in AcpOne /\ r.status = "failed" /\ "failed" \in AcpStatuses BY DEF AcpOne, AcpStatuses
    <3> HIDE DEF r
    <3>3. \A x \in AcpOne : x.status \in AcpStatuses BY DEF AcpOne
    <3>4. Len(st) = Len(acpSettled) /\ st' = Append(st, "failed") BY <2>2, <3>1, <3>2, <3>3, StatusesGrow
    <3>5. AcpOpen' = AcpOpen BY <2>3
    <3>6. AcpContract!Refuse("failed") BY <2>1, <2>2, <2>3, <3>4, <3>5 DEF AcpContract!Refuse
    <3>7. QED BY <3>2, <3>6 DEF AcpStep, AcpContract!Next
  <2>6. QED BY <2>4, <2>5
<1>3. ASSUME NEW st \in AcpStatuses, AcpFinish(st), AcpActive, UNCHANGED <<acpSent, acpDraining>>
      PROVE  AcpStep
  <2> DEFINE r == [status |-> st, text |-> acpText]
  <2>1. /\ acpSettled' = Append(acpSettled, r)
        /\ acpState' = IF acpState = "closed" THEN "closed" ELSE "idle"
    BY <1>3 DEF AcpFinish
  <2>2. r \in AcpOne /\ acpSent \in Nat BY <1>1 DEF AcpTypes, AcpOne
  <2> HIDE DEF r
  <2>3. Len(acpSettled) < acpSent BY <1>1, <1>3, <2>2 DEF AcpSettledInv
  <2>4. AcpOpen' => AcpOpen BY <1>3, <2>1
  <2>5. QED BY <1>1, <1>3, <2>1, <2>2, <2>3, <2>4, AcpSettlesOne
<1>4. ASSUME UNCHANGED <<acpSent, acpSettled>>, acpDraining => acpDraining' PROVE AcpStep
  BY <1>1, <1>4, AcpStaysOrShuts
<1>5. ASSUME NEW t \in acpPrompts, NEW st \in {"completed", "aborted", "failed"}, AcpAnswer(t, st)
      PROVE  AcpStep
  <2>1. UNCHANGED <<acpSent, acpDraining>> BY <1>5 DEF AcpAnswer
  <2>2. CASE AcpActive /\ t = acpSent
    <3>1. PICK s \in AcpStatuses : AcpFinish(s)
      BY <1>1, <1>5, <2>2 DEF AcpAnswer, AcpActive, AcpStatuses, AcpTypes, AcpTextInv
    <3>2. QED BY <1>3, <2>1, <2>2, <3>1
  <2>3. CASE ~(AcpActive /\ t = acpSent) BY <1>5, <2>3, <1>4, <2>1 DEF AcpAnswer
  <2>4. QED BY <2>2, <2>3
<1>6. CASE AcpGraceExpires BY <1>1, <1>6, <1>3 DEF AcpGraceExpires, AcpActive, AcpTypes, AcpTextInv, AcpStatuses
<1>7. CASE UNCHANGED acpVars BY <1>4, <1>7 DEF acpVars
<1>8. CASE AcpHandshake \/ AcpHandshakeFails \/ AcpHandshakeEnds \/ AcpExit
  BY <1>4, <1>8 DEF AcpHandshake, AcpHandshakeFails, AcpHandshakeEnds, AcpExit, acpTurnVars
<1>9. CASE \/ \E guard \in {"timeout", "aborted"} : AcpGuardFires(guard)
           \/ \E t \in acpPrompts : AcpUpdate(t)
  BY <1>4, <1>9 DEF AcpGuardFires, AcpUpdate
<1>10. CASE AcpAsk \/ AcpAnswerAsk \/ AcpClose BY <1>4, <1>10 DEF AcpAsk, AcpAnswerAsk, AcpClose, acpTurnVars
<1>11. CASE AcpDrain \/ \E t \in acpDrains : AcpDrained(t) BY <1>4, <1>11 DEF AcpDrain, AcpDrained, acpTurnVars
<1>12. QED BY <1>2, <1>5, <1>6, <1>7, <1>8, <1>9, <1>10, <1>11 DEF AcpNext, AcpAnswers

\* Pi: what is taken, settled and shut, in the terms of the contract.
PiOpen == piState # "closed" /\ ~piDraining
PiStep == [PiContract!Next]_(PiContract!promptVars)

\* What the contract rests on, slow handlers or not.
PiLenInv ==
    /\ piSettled \in Seq(PiResult)
    /\ Len(piSettled) = IF piActive THEN piSent - 1 ELSE piSent

PiShape ==
    /\ PiTypes /\ PiLenInv /\ (piGrace => piActive /\ piPending # "none")
    /\ piQueue \in Seq(PiPrompt) /\ piWire \in Seq(PiLine) /\ piChain \in Seq(PiHandler)

LEMMA PiTakesOne ==
  ASSUME PiOpen, PiOpen', Len(piSettled) = piSent, PiLenInv, piSent' = piSent + 1, UNCHANGED piSettled
  PROVE  PiStep
<1> DEFINE st == [i \in DOMAIN piSettled |-> piSettled[i].status]
<1>1. Len(st) = Len(piSettled) BY DEF PiLenInv
<1>2. st' = st OBVIOUS
<1>3. PiContract!Take BY <1>1, <1>2 DEF PiContract!Take, PiOpen
<1>4. QED BY <1>3 DEF PiStep, PiContract!Next

LEMMA PiSettlesOne ==
  ASSUME PiLenInv, NEW r \in PiResult, piSettled' = Append(piSettled, r),
         Len(piSettled) < piSent, UNCHANGED piSent, PiOpen' => PiOpen
  PROVE  PiStep
<1> DEFINE st == [i \in DOMAIN piSettled |-> piSettled[i].status]
<1>1. \A x \in PiResult : x.status \in PiStatuses BY DEF PiResult
<1>2. piSettled \in Seq(PiResult) BY DEF PiLenInv
<1>3. Len(st) = Len(piSettled) /\ st' = Append(st, r.status) BY <1>1, <1>2, StatusesGrow
<1>4. PiOpen' \in {PiOpen, FALSE} BY DEF PiOpen
<1>5. PiContract!Settle(r.status) BY <1>3, <1>4 DEF PiContract!Settle, PiOpen
<1>6. r.status \in {"completed", "failed", "aborted", "timeout"} BY <1>1 DEF PiStatuses
<1>7. QED BY <1>5, <1>6 DEF PiStep, PiContract!Next

LEMMA PiStaysOrShuts ==
  ASSUME UNCHANGED <<piSent, piSettled>>, PiOpen' => PiOpen
  PROVE  PiStep
<1>1. CASE PiOpen /\ ~PiOpen' BY <1>1 DEF PiContract!Shut, PiOpen, PiStep, PiContract!Next
<1>2. CASE PiOpen' <=> PiOpen BY <1>2 DEF PiStep, PiContract!promptVars, PiOpen
<1>3. QED BY <1>1, <1>2

\* A turn that is resolved settles.
LEMMA PiResolves ==
  ASSUME PiTypes, PiLenInv, NEW st \in PiStatuses, NEW by \in Nat, PiResolve(st, by),
         UNCHANGED <<piSent, piDraining>>
  PROVE  /\ PiLenInv' /\ PiStep
         /\ piState' \in {"idle", "thinking", "closed"} /\ piActive' \in BOOLEAN
         /\ piGrace' \in {FALSE, piGrace} /\ piPending' \in {"none", piPending}
         /\ piText' \in SUBSET Nat /\ (piGrace' => ~piActive /\ UNCHANGED <<piActive, piPending>>)
<1> USE DEF PiOpen
<1>1. CASE piActive
  <2> DEFINE r == [status |-> st, text |-> piText, by |-> by]
  <2>1. /\ piSettled' = Append(piSettled, r) /\ piActive' = FALSE /\ piGrace' = FALSE
        /\ piPending' = "none" /\ piText' = {}
        /\ piState' = IF piState = "closed" THEN "closed" ELSE "idle"
    BY <1>1 DEF PiResolve
  <2>2. r \in PiResult /\ piSent \in Nat BY DEF PiTypes, PiResult
  <2> HIDE DEF r
  <2>3. Len(piSettled) = piSent - 1 /\ piSettled \in Seq(PiResult) BY <1>1 DEF PiLenInv
  <2>4. PiLenInv' BY <2>1, <2>2, <2>3 DEF PiLenInv
  <2>5. PiOpen' => PiOpen BY <2>1
  <2>6. PiStep BY <2>1, <2>2, <2>3, <2>5, PiSettlesOne
  <2>7. QED BY <2>1, <2>4, <2>6
<1>2. CASE ~piActive
  <2>1. UNCHANGED <<piActive, piPending, piGrace, piText, piSettled, piState>> BY <1>2 DEF PiResolve, piTurnVars
  <2>2. PiLenInv' BY <2>1 DEF PiLenInv
  <2>3. PiOpen' => PiOpen BY <2>1
  <2>4. PiStep BY <2>1, <2>3, PiStaysOrShuts
  <2>5. QED BY <1>2, <2>1, <2>2, <2>4 DEF PiTypes
<1>3. QED BY <1>1, <1>2

LEMMA PiStepMaps == ASSUME PiShape, [PiNext]_piVars PROVE PiShape' /\ PiStep
<1> USE DEF PiOpen
<1>1. /\ PiTypes /\ PiLenInv /\ (piGrace => piActive /\ piPending # "none")
      /\ piQueue \in Seq(PiPrompt) /\ piWire \in Seq(PiLine) /\ piChain \in Seq(PiHandler)
  BY DEF PiShape
<1>2. ASSUME NEW guarded \in BOOLEAN, PiSend(guarded) PROVE PiShape' /\ PiStep
  <2>1. /\ PiOpen /\ PiOpen' /\ ~piActive /\ piSent' = piSent + 1 /\ piActive' = TRUE
        /\ piState' = "thinking" /\ piGuarded' = guarded /\ piText' = {}
        /\ UNCHANGED <<piAlive, piDraining, piPending, piGrace, piStale, piWire, piChain, piSettled>>
    BY <1>2 DEF PiSend
  <2>2. piSent \in Nat /\ Len(piSettled) = piSent BY <1>1, <2>1 DEF PiTypes, PiLenInv
  <2>3. PiTypes' BY <1>1, <2>1, <2>2 DEF PiTypes
  <2>4. PiLenInv' BY <1>1, <2>1, <2>2 DEF PiLenInv
  <2>5. piQueue' \in Seq(PiPrompt)
    <3>1. [turn |-> piSent + 1, said |-> FALSE] \in PiPrompt BY <2>2 DEF PiPrompt
    <3>2. piQueue' = piQueue \/ piQueue' = Append(piQueue, [turn |-> piSent + 1, said |-> FALSE])
      BY <1>2 DEF PiSend
    <3>3. CASE piQueue' = piQueue BY <1>1, <3>3
    <3>4. CASE piQueue' = Append(piQueue, [turn |-> piSent + 1, said |-> FALSE]) BY <1>1, <3>1, <3>4
    <3>5. QED BY <3>2, <3>3, <3>4
  <2>6. PiStep BY <1>1, <2>1, <2>2, PiTakesOne
  <2>7. QED BY <1>1, <2>1, <2>3, <2>4, <2>5, <2>6 DEF PiShape
<1>3. ASSUME UNCHANGED <<piSent, piSettled, piActive>>, PiTypes', piGrace' => piActive /\ piPending' # "none",
             piState = "closed" => piState' = "closed", piDraining => piDraining',
             piQueue' \in Seq(PiPrompt), piWire' \in Seq(PiLine), piChain' \in Seq(PiHandler)
      PROVE  PiShape' /\ PiStep
  BY <1>1, <1>3, PiStaysOrShuts DEF PiLenInv, PiShape
<1>4. CASE UNCHANGED piVars BY <1>1, <1>4, <1>3 DEF piVars, PiTypes
<1>5. ASSUME NEW ends \in BOOLEAN, PiWrites(ends) PROVE PiShape' /\ PiStep
  <2>1. UNCHANGED <<piState, piAlive, piDraining, piSent, piActive, piGuarded, piPending, piGrace,
                    piStale, piText, piChain, piSettled>>
    BY <1>5 DEF PiWrites
  <2>2. PiTypes' BY <1>1, <2>1 DEF PiTypes
  <2>3. piQueue # << >> /\ Head(piQueue) \in PiPrompt /\ Head(piQueue).turn \in Nat
        /\ 1 \in DOMAIN piQueue /\ piQueue[1] \in PiPrompt
    <3>1. piQueue # << >> BY <1>5 DEF PiWrites
    <3>2. 1 \in DOMAIN piQueue /\ piQueue[1] \in PiPrompt /\ Head(piQueue) = piQueue[1] BY <1>1, <3>1
    <3>3. QED BY <3>1, <3>2 DEF PiPrompt
  <2>4. piWire' \in Seq(PiLine) BY <2>3, <1>5, <1>1 DEF PiLine, PiWrites
  <2>5. piQueue' \in Seq(PiPrompt)
    <3>1. CASE ends BY <1>1, <1>5, <2>3, <3>1 DEF PiWrites
    <3>2. CASE ~ends
      <4> DEFINE q == [piQueue[1] EXCEPT !.said = TRUE]
      <4>1. piQueue' = [piQueue EXCEPT ![1] = q] BY <1>5, <3>2 DEF PiWrites
      <4>2. q \in PiPrompt BY <2>3 DEF PiPrompt
      <4> HIDE DEF q
      <4>3. QED BY <1>1, <2>3, <4>1, <4>2
    <3>3. QED BY <3>1, <3>2
  <2>6. QED BY <1>1, <1>3, <2>1, <2>2, <2>4, <2>5
<1>6. CASE PiReads
  <2>1. /\ UNCHANGED <<piState, piAlive, piDraining, piSent, piActive, piGuarded, piPending, piGrace,
                       piQueue, piSettled>>
        /\ piWire # << >> /\ piWire' = Tail(piWire)
    BY <1>6 DEF PiReads
  <2>2. Head(piWire) \in PiLine /\ piWire' \in Seq(PiLine) BY <1>1, <2>1
  <2>3. Head(piWire).turn \in Nat /\ Head(piWire).ends \in BOOLEAN BY <2>2 DEF PiLine
  <2>4. piStale' \in Nat BY <1>1, <1>6 DEF PiReads, PiStaleEnd, PiTypes
  <2>5. piText' \in SUBSET Nat BY <1>6, <1>1, <2>3 DEF PiReads, PiTypes
  <2>6. piChain' \in Seq(PiHandler)
    <3> DEFINE e == IF Head(piWire).ends
                    THEN IF piPending = "none" THEN "completed" ELSE piPending ELSE "no"
               h == [Head(piWire) EXCEPT !.ends = e]
    <3>1. piChain' \in {piChain, Append(piChain, h)} BY <1>6 DEF PiReads
    <3>2. e \in {"no", "completed", "timeout", "aborted"} BY <1>1 DEF PiTypes
    <3> HIDE DEF e
    <3>3. h \in PiHandler BY <2>2, <3>2 DEF PiLine, PiHandler
    <3> HIDE DEF h
    <3>4. QED BY <1>1, <3>1, <3>3
  <2>7. PiTypes' BY <1>1, <2>1, <2>4, <2>5 DEF PiTypes
  <2>8. QED BY <1>1, <1>3, <2>1, <2>2, <2>6, <2>7
<1>7. CASE PiHandles
  <2>1. /\ UNCHANGED <<piAlive, piDraining, piSent, piGuarded, piStale, piQueue, piWire>>
        /\ piChain # << >> /\ piChain' = Tail(piChain)
    BY <1>7 DEF PiHandles
  <2>2. Head(piChain) \in PiHandler /\ piChain' \in Seq(PiHandler) BY <1>1, <2>1
  <2>3. Head(piChain).turn \in Nat /\ Head(piChain).ends \in {"no", "completed", "timeout", "aborted"}
    BY <2>2 DEF PiHandler
  <2>4. CASE Head(piChain).ends = "no"
    <3>1. UNCHANGED <<piActive, piPending, piGrace, piText, piSettled, piState>>
      BY <1>7, <2>4 DEF PiHandles, piTurnVars
    <3>2. PiTypes' BY <1>1, <2>1, <3>1 DEF PiTypes
    <3>3. QED BY <1>1, <1>3, <2>1, <2>2, <3>1, <3>2
  <2>5. CASE Head(piChain).ends # "no"
    <3>1. PiResolve(Head(piChain).ends, Head(piChain).turn) BY <1>7, <2>5 DEF PiHandles
    <3>2. Head(piChain).ends \in PiStatuses BY <2>3, <2>5 DEF PiStatuses
    <3>3. /\ PiLenInv' /\ PiStep
          /\ piState' \in {"idle", "thinking", "closed"} /\ piActive' \in BOOLEAN
          /\ piGrace' \in {FALSE, piGrace} /\ piPending' \in {"none", piPending}
          /\ piText' \in SUBSET Nat /\ (piGrace' => ~piActive /\ UNCHANGED <<piActive, piPending>>)
      BY <1>1, <2>1, <2>3, <3>1, <3>2, PiResolves
    <3>4. PiTypes' BY <1>1, <2>1, <3>3 DEF PiTypes
    <3>5. piGrace' => piActive' /\ piPending' # "none" BY <1>1, <3>3
    <3>6. QED BY <1>1, <2>1, <2>2, <3>3, <3>4, <3>5 DEF PiShape
  <2>6. QED BY <2>4, <2>5
<1>8. ASSUME NEW st \in {"timeout", "aborted"}, PiGuardFires(st) PROVE PiShape' /\ PiStep
  BY <1>8, <1>1, <1>3 DEF PiGuardFires, PiTypes
<1>9. CASE PiGraceExpires
  <2>1. /\ piGrace /\ piStale' = piStale + 1 /\ PiResolve(piPending, 0)
        /\ UNCHANGED <<piAlive, piDraining, piSent, piGuarded, piQueue, piWire, piChain>>
    BY <1>9 DEF PiGraceExpires
  <2>2. piPending \in PiStatuses BY <1>1, <2>1 DEF PiTypes, PiStatuses
  <2>3. /\ PiLenInv' /\ PiStep
        /\ piState' \in {"idle", "thinking", "closed"} /\ piActive' \in BOOLEAN
        /\ piGrace' \in {FALSE, piGrace} /\ piPending' \in {"none", piPending}
        /\ piText' \in SUBSET Nat /\ (piGrace' => ~piActive /\ UNCHANGED <<piActive, piPending>>)
    BY <1>1, <2>1, <2>2, PiResolves
  <2>4. PiTypes'
    <3>1. piStale' \in Nat BY <1>1, <2>1 DEF PiTypes
    <3>2. /\ piAlive' \in BOOLEAN /\ piDraining' \in BOOLEAN /\ piGuarded' \in BOOLEAN
          /\ piSent' \in Nat /\ piGrace' \in BOOLEAN /\ piPending' \in {"none", "timeout", "aborted"}
      BY <1>1, <2>1, <2>3 DEF PiTypes
    <3>3. QED BY <2>3, <3>1, <3>2 DEF PiTypes
  <2>5. piGrace' => piActive' /\ piPending' # "none" BY <1>1, <2>3
  <2>6. QED BY <1>1, <2>1, <2>3, <2>4, <2>5 DEF PiShape
<1>10. CASE PiExit
  <2>1. /\ piAlive' = FALSE /\ piQueue' = << >>
        /\ UNCHANGED <<piDraining, piSent, piGuarded, piStale, piWire, piChain>>
    BY <1>10 DEF PiExit
  <2>2. piQueue' \in Seq(PiPrompt) BY <2>1
  <2>3. CASE piState # "closed" /\ piActive
    <3> DEFINE r == [status |-> "failed", text |-> piText, by |-> 0]
    <3>1. /\ piActive' = FALSE /\ piPending' = "none" /\ piGrace' = FALSE /\ piText' = {}
          /\ piSettled' = Append(piSettled, r) /\ piState' = "closed"
      BY <1>10, <2>3 DEF PiExit
    <3>2. r \in PiResult /\ piSent \in Nat BY <1>1 DEF PiTypes, PiResult, PiStatuses
    <3> HIDE DEF r
    <3>3. Len(piSettled) = piSent - 1 /\ piSettled \in Seq(PiResult) BY <1>1, <2>3 DEF PiLenInv
    <3>4. PiLenInv' BY <2>1, <3>1, <3>2, <3>3 DEF PiLenInv
    <3>5. PiOpen' => PiOpen BY <3>1
    <3>6. PiStep BY <1>1, <2>1, <3>1, <3>2, <3>3, <3>5, PiSettlesOne
    <3>7. PiTypes' BY <1>1, <2>1, <3>1 DEF PiTypes
    <3>8. QED BY <1>1, <2>1, <2>2, <3>1, <3>4, <3>6, <3>7 DEF PiShape
  <2>4. CASE ~(piState # "closed" /\ piActive)
    <3>1. UNCHANGED <<piActive, piPending, piGrace, piText, piSettled>> /\ piState' = "closed"
      BY <1>10, <2>4 DEF PiExit, piTurnVars
    <3>2. PiTypes' BY <1>1, <2>1, <3>1 DEF PiTypes
    <3>3. QED BY <1>1, <1>3, <2>1, <2>2, <3>1, <3>2
  <2>5. QED BY <2>3, <2>4
<1>11. CASE PiClose \/ PiDrain \/ \E t \in piDrains : PiDrained(t)
  <2>1. /\ UNCHANGED <<piAlive, piSent, piActive, piPending, piGrace, piText, piSettled, piGuarded,
                       piStale, piQueue, piWire, piChain>>
        /\ piState' \in {piState, "closed"} /\ (piDraining => piDraining')
    BY <1>11 DEF PiClose, PiDrain, PiDrained, piTurnVars
  <2>2. piDraining' \in BOOLEAN BY <1>1, <1>11 DEF PiClose, PiDrain, PiDrained, PiTypes
  <2>3. PiTypes' BY <1>1, <2>1, <2>2 DEF PiTypes
  <2>4. QED BY <1>1, <1>3, <2>1, <2>3
<1>12. QED BY <1>2, <1>4, <1>5, <1>6, <1>7, <1>8, <1>9, <1>10, <1>11 DEF PiNext

\* OpenCode: what is taken, settled and shut, in the terms of the contract.
OcOpenNow == ocState # "closed" /\ ocConn # "failed" /\ ~ocDraining
OcStep == [OcContract!Next]_(OcContract!promptVars)

LEMMA OcStaysOrShuts ==
  ASSUME UNCHANGED <<ocSent, ocSettled>>, OcOpenNow' => OcOpenNow
  PROVE  OcStep
<1>1. CASE OcOpenNow /\ ~OcOpenNow' BY <1>1 DEF OcContract!Shut, OcOpenNow, OcStep, OcContract!Next
<1>2. CASE OcOpenNow' <=> OcOpenNow BY <1>2 DEF OcStep, OcContract!promptVars, OcOpenNow
<1>3. QED BY <1>1, <1>2

LEMMA OcStepMaps == ASSUME ~OcLatePolls, OcInv, [OcNext]_ocVars PROVE OcStep
<1> USE DEF OcOpenNow
<1>1. OcTypes /\ OcSettledInv /\ OcTurnInv BY DEF OcInv
<1>2. ASSUME NEW guarded \in BOOLEAN, NEW current \in BOOLEAN, OcSend(guarded, current) PROVE OcStep
  BY <1>2, <1>1 DEF OcSend, OcHanded, OcSettledInv, OcContract!Take, OcStep, OcContract!Next
<1>3. CASE OcEnds
  <2>1. /\ ocPhase = "ending" /\ ocSettled' = Append(ocSettled, ocOutcome)
        /\ ocState' = OcIdle /\ UNCHANGED <<ocConn, ocSent, ocDraining>>
    BY <1>3 DEF OcEnds
  <2>2. ocOutcome \in {"completed", "failed", "aborted", "timeout"} BY <1>1, <2>1 DEF OcTypes, OcTurnInv
  <2>3. Len(ocSettled) < ocSent BY <1>1, <2>1 DEF OcSettledInv, OcActive, OcTypes
  <2>4. OcOpenNow' \in {OcOpenNow, FALSE} BY <2>1 DEF OcIdle
  <2>5. OcContract!Settle(ocOutcome) BY <2>1, <2>3, <2>4 DEF OcContract!Settle
  <2>6. QED BY <2>2, <2>5 DEF OcStep, OcContract!Next
<1>4. ASSUME UNCHANGED <<ocSent, ocSettled>>, ocDraining => ocDraining',
             ocState = "closed" => ocState' = "closed", ocConn = "failed" => ocConn' \in {"failed", "down"},
             ocConn' = "down" => ocConn = "down" \/ ocState' = "closed"
      PROVE  OcStep
  BY <1>4, OcStaysOrShuts
<1>5. CASE UNCHANGED ocVars BY <1>4, <1>5 DEF ocVars
<1>6. CASE OcConnect \/ OcStreamBreaks \/ OcReconnects
  BY <1>4, <1>6 DEF OcConnect, OcStreamBreaks, OcReconnects, ocTurnVars
<1>7. CASE \/ \E outcome \in {"completed", "failed"} : OcResponse(outcome)
           \/ OcAborted \/ OcInterrupted
           \/ \E reason \in {"timeout", "aborted"} : OcGuardFires(reason)
           \/ OcPoll
  BY <1>4, <1>7 DEF OcResponse, OcAborted, OcInterrupted, OcGuardFires, OcPoll, ocTurnVars
<1>8. CASE OcClose \/ OcDrain \/ \E t \in ocDrains : OcDrained(t)
  BY <1>4, <1>8 DEF OcClose, OcDrain, OcDrained, OcShuts
<1>9. ASSUME NEW r \in OcRequests,
             \/ OcOpens(r) \/ OcSees(r)
             \/ \E decision \in {"allow", "deny"} : OcDecides(r, decision)
             \/ \E ok, delivered \in BOOLEAN : OcPosted(r, ok, delivered)
      PROVE  OcStep
  <2>1. CASE OcOpens(r) \/ (\E decision \in {"allow", "deny"} : OcDecides(r, decision))
    BY <1>4, <2>1 DEF OcOpens, OcDecides, ocTurnVars
  <2>2. CASE OcSees(r) BY <1>1, <1>4, <2>2 DEF OcSees, OcHandles, OcTurnInv, ocTurnVars
  <2>3. CASE \E ok, delivered \in BOOLEAN : OcPosted(r, ok, delivered) BY <1>4, <2>3 DEF OcPosted, ocTurnVars
  <2>4. QED BY <1>9, <2>1, <2>2, <2>3
<1>10. ASSUME NEW poll \in ocPolls, OcPollEnds(poll) \/ \E r \in poll : OcPollReturns(poll, r)
       PROVE  OcStep
  BY <1>1, <1>4, <1>10 DEF OcPollEnds, OcPollReturns, OcHandles, OcTurnInv, ocTurnVars
<1>11. QED BY <1>2, <1>3, <1>5, <1>6, <1>7, <1>8, <1>9, <1>10 DEF OcNext, OcTurnSteps

-----------------------------------------------------------------------------

\* The safety of the contract, as each session keeps it.
AcpSafety == AcpContract!Init /\ [][AcpContract!Next]_(AcpContract!promptVars)
PiSafety == PiContract!Init /\ [][PiContract!Next]_(PiContract!promptVars)
AgySafety == AgyContract!Init /\ [][AgyContract!Next]_(AgyContract!promptVars)
OcSafety == OcContract!Init /\ [][OcContract!Next]_(OcContract!promptVars)

LEMMA NothingSettled ==
  ASSUME NEW s, s = << >>
  PROVE  [i \in DOMAIN s |-> s[i].status] = << >>
  OBVIOUS

LEMMA ContractsBegin ==
  ASSUME SessionsInit
  PROVE  AcpContract!Init /\ PiContract!Init /\ AgyContract!Init /\ OcContract!Init /\ PiShape
<1>1. AcpContract!Init BY NothingSettled DEF SessionsInit, AcpInit, AcpContract!Init
<1>2. PiContract!Init BY NothingSettled DEF SessionsInit, PiInit, PiContract!Init
<1>3. AgyContract!Init BY NothingSettled DEF SessionsInit, AgyInit, AgyContract!Init
<1>4. OcContract!Init BY DEF SessionsInit, OcInit, OcContract!Init
<1>5. PiShape
  <2>1. PiInit BY DEF SessionsInit
  <2>2. PiTypes /\ piGrace = FALSE BY <2>1 DEF PiInit, PiTypes
  <2>3. PiLenInv BY <2>1 DEF PiInit, PiLenInv
  <2>4. piQueue \in Seq(PiPrompt) /\ piWire \in Seq(PiLine) /\ piChain \in Seq(PiHandler) BY <2>1 DEF PiInit
  <2>5. QED BY <2>2, <2>3, <2>4 DEF PiShape
<1>6. QED BY <1>1, <1>2, <1>3, <1>4, <1>5

\* Each of the four sessions does only what PromptSession allows, for any number of sends,
\* lines, processes and requests: it takes a send only when it is open and idle, settles it
\* once, and once shut takes none (types.ts AgentSession; send, drain and close of each),
\* as long as no killed ACP agent still asks (acp/session.ts handlePermission) and no poll
\* of OpenCode's answers after close (opencode/session.ts reconcilePendingInput).
THEOREM SessionsKeepSafety ==
  ASSUME ~AcpLateAsks, ~OcLatePolls
  PROVE  SessionsSpec => AcpSafety /\ PiSafety /\ AgySafety /\ OcSafety
<1> DEFINE Inv == AcpInv /\ PiShape /\ AgyInv /\ OcInv
<1>1. SessionsInit => Inv
  BY AcpInvHoldsFirst, AgyInvHoldsFirst, OcInvHoldsFirst, ContractsBegin DEF SessionsInit
<1>2. SessionsInit => AcpContract!Init /\ PiContract!Init /\ AgyContract!Init /\ OcContract!Init
  BY ContractsBegin
<1>3. Inv /\ [SessionsNext]_sessionsVars => Inv' /\ AcpStep /\ PiStep /\ AgyStep /\ OcStep
  <2> SUFFICES ASSUME Inv, [SessionsNext]_sessionsVars
               PROVE  Inv' /\ AcpStep /\ PiStep /\ AgyStep /\ OcStep
    OBVIOUS
  <2>1. [AcpNext]_acpVars /\ [PiNext]_piVars /\ [AgyNext]_agyVars /\ [OcNext]_ocVars BY StepsOfEach
  <2>2. AcpInv' /\ AcpStep BY <2>1, AcpInvKept, AcpStepMaps
  <2>3. PiShape' /\ PiStep BY <2>1, PiStepMaps
  <2>4. AgyInv' /\ AgyStep BY <2>1, AgyInvKept, AgyStepMaps
  <2>5. OcInv' /\ OcStep BY <2>1, OcInvKept, OcStepMaps
  <2>6. QED BY <2>2, <2>3, <2>4, <2>5
<1>4. QED
  BY <1>1, <1>2, <1>3, PTL
  DEF SessionsSpec, AcpSafety, PiSafety, AgySafety, OcSafety, AcpStep, PiStep, AgyStep, OcStep

-----------------------------------------------------------------------------
(* The goal loop                                                           *)

ToldType == [goal : GoalType, gen : 0..MaxGoals, judged : 0..MaxGoals]

\* Of goal g the events s tell that it is active; and tell something more since.
AnnouncedIn(s, g) == \E k \in DOMAIN s : s[k].gen = g /\ ~Terminal(s[k].goal)
EndedIn(s, g) ==
    \E k, j \in DOMAIN s : k < j /\ s[k].gen = g /\ ~Terminal(s[k].goal) /\ s[j].gen = g

\* No event of s is about a goal after the n-th, none rests on a verdict about another.
TaggedIn(s, n) == \A i \in DOMAIN s : s[i].gen <= n /\ s[i].judged \in {0, s[i].gen}

OneEndingIn(s) ==
    \A i, j \in DOMAIN s :
        (/\ i < j /\ s[i].gen = s[j].gen /\ s[i].gen # 0
         /\ \E k \in 1..i : s[k].gen = s[i].gen /\ ~Terminal(s[k].goal))
        => ~Terminal(s[i].goal) /\ Terminal(s[j].goal)

\* The loop may judge the present goal: it is emulated, or a verdict on it is awaited.
Driven == (mode = "emulate" /\ sentinel # "none") \/ \E e \in evals : e.gen = generation

\* The guard of onTurnSettled is held by the one verdict that is awaited.
GuardInv ==
    /\ evaluating => \E e \in evals : evals = {e}
    /\ ~evaluating => evals = {}
    /\ \A e \in evals : e.gen <= generation
    /\ mode = "emulate" => generation > 0

\* A goal that may still be judged has budget left and has not been told to have ended.
DrivenInv ==
    /\ Driven => iterations < MaxIterations /\ ~EndedIn(told, generation)
    /\ \A g \in 1..MaxGoals : /\ nudges[g] < MaxIterations
                              /\ g = generation => nudges[g] <= iterations
                              /\ g > generation => nudges[g] = 0

\* The goal that is being armed is announced by its own call alone, and not judged.
ArmingInv ==
    /\ \A a \in arming : a.gen <= generation
    /\ \A a, b \in arming : a.gen = b.gen => a = b
    /\ \A a \in arming : a.gen = generation =>
           /\ ~AnnouncedIn(told, generation) /\ sentinel = "none" /\ iterations = 0
           /\ \A e \in evals : e.gen # generation
           /\ a.how = "advisory" => mode \in {"advisory", "idle"}

\* A goal on record that goes on has not been told to have ended; one that the provider
\* enforces was never announced by the controller.
RecordInv ==
    /\ TaggedIn(told, generation) /\ owner <= generation
    /\ goal = NoGoal => owner = 0
    /\ Live(goal) /\ owner # 0 => ~EndedIn(told, owner)
    /\ mode = "native" /\ Live(goal) /\ owner # 0 => ~AnnouncedIn(told, owner)
    /\ \A n \in DOMAIN wire : wire[n].status # "none"

\* A goal that is being cleared was never announced, and is over for the controller.
ClearingInv ==
    \A c \in clearing : /\ c.goal.status \in {"cleared", "blocked"} /\ c.gen < generation
                        /\ c.gen # 0 => ~AnnouncedIn(told, c.gen)

\* The loop stops for a reason: a skipped settle, or a verdict about another goal, has one.
LoopInv ==
    /\ suspendNext => excuse # {}
    /\ (mode = "emulate" /\ sentinel # "none" /\ \E e \in evals : e.gen # generation)
       => excuse # {}
    /\ LoopAlive

GoalInv ==
    /\ GoalTypeOK /\ GuardInv /\ DrivenInv /\ ArmingInv /\ RecordInv /\ ClearingInv
    /\ LoopInv /\ OneEndingIn(told)

-----------------------------------------------------------------------------
(* What the host is told.                                                  *)

\* One more event adds what it says of its own goal.
LEMMA TellAppends ==
    ASSUME NEW s \in Seq(ToldType), NEW x \in ToldType
    PROVE  /\ Append(s, x) \in Seq(ToldType)
           /\ \A g : AnnouncedIn(Append(s, x), g)
                     <=> AnnouncedIn(s, g) \/ (x.gen = g /\ ~Terminal(x.goal))
           /\ \A g : EndedIn(Append(s, x), g)
                     <=> EndedIn(s, g) \/ (x.gen = g /\ AnnouncedIn(s, g))
<1> DEFINE t == Append(s, x)
<1>1. /\ t \in Seq(ToldType) /\ DOMAIN t = 1..(Len(s) + 1) /\ DOMAIN s = 1..Len(s)
      /\ Len(s) \in Nat /\ t[Len(s) + 1] = x /\ \A i \in 1..Len(s) : t[i] = s[i]
  OBVIOUS
<1> HIDE DEF t
<1>2. ASSUME NEW g
      PROVE  AnnouncedIn(t, g) <=> AnnouncedIn(s, g) \/ (x.gen = g /\ ~Terminal(x.goal))
  BY <1>1 DEF AnnouncedIn
<1>3. ASSUME NEW g
      PROVE  EndedIn(t, g) <=> EndedIn(s, g) \/ (x.gen = g /\ AnnouncedIn(s, g))
  BY <1>1 DEF AnnouncedIn, EndedIn
<1>4. QED BY <1>1, <1>2, <1>3 DEF t

\* An end told of a goal that has none yet, or the news of a goal not announced yet,
\* leaves every goal with one ending.
LEMMA OneEndingKept ==
    ASSUME NEW s \in Seq(ToldType), NEW x \in ToldType, OneEndingIn(s),
           x.gen # 0 => IF Terminal(x.goal) THEN ~EndedIn(s, x.gen)
                                            ELSE ~AnnouncedIn(s, x.gen)
    PROVE  OneEndingIn(Append(s, x))
<1> DEFINE t == Append(s, x)
<1>1. /\ t \in Seq(ToldType) /\ DOMAIN t = 1..(Len(s) + 1) /\ DOMAIN s = 1..Len(s)
      /\ Len(s) \in Nat /\ t[Len(s) + 1] = x /\ \A i \in 1..Len(s) : t[i] = s[i]
  OBVIOUS
<1> HIDE DEF t
<1>2. SUFFICES ASSUME NEW i \in DOMAIN t, NEW j \in DOMAIN t, NEW k \in 1..i,
                      i < j, t[i].gen = t[j].gen, t[i].gen # 0,
                      t[k].gen = t[i].gen, ~Terminal(t[k].goal)
               PROVE  ~Terminal(t[i].goal) /\ Terminal(t[j].goal)
  BY DEF OneEndingIn, t
<1>3. i \in 1..Len(s) /\ k \in 1..Len(s) /\ t[i] = s[i] /\ t[k] = s[k] BY <1>1, <1>2
<1>4. CASE j \in 1..Len(s) BY <1>1, <1>4, <1>2, <1>3 DEF OneEndingIn
<1>5. CASE j = Len(s) + 1
  <2>1. t[j] = x /\ AnnouncedIn(s, x.gen) BY <1>1, <1>2, <1>3, <1>5 DEF AnnouncedIn
  <2>2. Terminal(x.goal) /\ ~EndedIn(s, x.gen) BY <1>2, <2>1
  <2>3. k = i BY <1>1, <1>2, <1>3, <2>1, <2>2 DEF EndedIn
  <2>4. QED BY <1>2, <2>1, <2>2, <2>3
<1>6. QED BY <1>1, <1>4, <1>5

\* The tags of one more event.
LEMMA TagsAppended ==
    ASSUME NEW s \in Seq(ToldType), NEW x \in ToldType, NEW n \in Nat, NEW m \in Nat,
           TaggedIn(s, n), n <= m, x.gen <= m, x.judged \in {0, x.gen}
    PROVE  TaggedIn(Append(s, x), m)
<1> DEFINE t == Append(s, x)
<1>1. /\ DOMAIN t = 1..(Len(s) + 1) /\ DOMAIN s = 1..Len(s)
      /\ Len(s) \in Nat /\ t[Len(s) + 1] = x /\ \A i \in 1..Len(s) : t[i] = s[i] /\ s[i] \in ToldType
  OBVIOUS
<1> HIDE DEF t
<1>2. \A i \in 1..Len(s) : s[i].gen \in Nat BY <1>1 DEF ToldType
<1>3. QED BY <1>1, <1>2 DEF TaggedIn, t

\* A goal after the n-th is not spoken of; tags last.
LEMMA TagsBound ==
    ASSUME NEW s \in Seq(ToldType), NEW n \in Nat, TaggedIn(s, n), NEW m \in Nat, n <= m
    PROVE  /\ TaggedIn(s, m)
           /\ \A g \in Nat : g > n => ~AnnouncedIn(s, g) /\ ~EndedIn(s, g)
<1> \A i \in DOMAIN s : s[i] \in ToldType OBVIOUS
<1>1. \A i \in DOMAIN s : s[i].gen \in Nat BY DEF ToldType
<1>2. TaggedIn(s, m) BY <1>1 DEF TaggedIn
<1>3. \A g \in Nat : g > n => ~AnnouncedIn(s, g) /\ ~EndedIn(s, g) BY <1>1 DEF TaggedIn, AnnouncedIn, EndedIn
<1>4. QED BY <1>2, <1>3

\* What is told to have ended was announced.
LEMMA EndedWasAnnounced == \A s, g : EndedIn(s, g) => AnnouncedIn(s, g)
  BY DEF EndedIn, AnnouncedIn

\* Members of the types, and what they are not.
LEMMA GoalFacts ==
    /\ NoGoal \in GoalType /\ ~Live(NoGoal) /\ ~Terminal(NoGoal)
    /\ \A o \in Objectives \cup {"none"}, st \in {"none", "active", "met", "blocked", "cleared"} :
          /\ Goal(o, st) \in GoalType /\ Goal(o, st).status = st /\ Goal(o, st).objective = o
          /\ st # "none" => Goal(o, st) # NoGoal
          /\ Terminal(Goal(o, st)) <=> st \in {"met", "blocked", "cleared"}
          /\ st \in {"met", "blocked", "cleared"} => ~Live(Goal(o, st))
    /\ \A g \in GoalType : /\ g.objective \in Objectives \cup {"none"}
                           /\ g.status \in {"none", "active", "met", "blocked", "cleared"}
                           /\ g.status # "none" => g # NoGoal
                           /\ Live(g) => ~Terminal(g) /\ g # NoGoal
  BY DEF GoalType, NoGoal, Goal, Live, Terminal

LEMMA ToldFacts ==
    ASSUME NEW g \in GoalType, NEW n \in 0..MaxGoals, NEW v \in 0..MaxGoals
    PROVE  [goal |-> g, gen |-> n, judged |-> v] \in ToldType
  BY DEF ToldType

\* Replacing a goal tells its end, which announces nothing.
LEMMA ReplacedFacts ==
    ASSUME GoalInv
    PROVE  /\ Replaced \in Seq(ToldType) /\ OneEndingIn(Replaced)
           /\ TaggedIn(Replaced, generation)
           /\ \A g : AnnouncedIn(Replaced, g) <=> AnnouncedIn(told, g)
<1>1. /\ told \in Seq(ToldType) /\ generation \in 0..MaxGoals /\ owner \in 0..MaxGoals
      /\ MaxGoals \in Nat /\ goal \in GoalType
  BY GoalAssumption DEF GoalInv, GoalTypeOK, ToldType
<1>2. CASE ~Live(goal) BY <1>2, <1>1 DEF Replaced, GoalInv, RecordInv
<1>3. CASE Live(goal)
  <2> DEFINE x == [goal |-> Goal(goal.objective, "cleared"), gen |-> owner, judged |-> 0]
  <2>1. Replaced = Append(told, x) BY <1>3 DEF Replaced, Tell
  <2>2. Goal(goal.objective, "cleared") \in GoalType /\ Terminal(Goal(goal.objective, "cleared"))
    BY <1>1, GoalFacts
  <2>3. /\ x \in ToldType /\ x.goal = Goal(goal.objective, "cleared") /\ x.gen = owner
        /\ x.judged = 0
    BY <1>1, <2>2, ToldFacts
  <2> HIDE DEF x
  <2>4. OneEndingIn(told) /\ TaggedIn(told, generation) /\ owner <= generation
        /\ (owner # 0 => ~EndedIn(told, owner))
    BY <1>3 DEF GoalInv, RecordInv
  <2>5. OneEndingIn(Replaced) BY <1>1, <2>1, <2>2, <2>3, <2>4, OneEndingKept
  <2>6. TaggedIn(Replaced, generation) BY <1>1, <2>1, <2>3, <2>4, TagsAppended
  <2>7. Replaced \in Seq(ToldType) /\ \A g : AnnouncedIn(Replaced, g) <=> AnnouncedIn(told, g)
    BY <1>1, <2>1, <2>2, <2>3, TellAppends
  <2>8. QED BY <2>5, <2>6, <2>7
<1>4. QED BY <1>2, <1>3
-----------------------------------------------------------------------------
(* Setting a goal.                                                         *)

\* What GoalTypeOK says of the variables the other parts speak of.
LEMMA Typed ==
    ASSUME GoalInv
    PROVE  /\ MaxGoals \in Nat /\ MaxIterations \in Nat /\ MaxIterations > 0
           /\ goal \in GoalType /\ generation \in 0..MaxGoals /\ owner \in 0..MaxGoals
           /\ iterations \in 0..MaxIterations /\ told \in Seq(ToldType)
           /\ nudges \in [1..MaxGoals -> Nat] /\ wire \in Seq(GoalType)
           /\ evaluating \in BOOLEAN /\ suspendNext \in BOOLEAN /\ accepting \in BOOLEAN
           /\ mode \in {"idle", "native", "emulate", "advisory"}
           /\ sentinel \in {"none", "default", "custom"}
           /\ excuse \subseteq {"failed", "interrupted", "overlap"}
           /\ \A a \in arming : a.gen \in 1..MaxGoals /\ a.objective \in Objectives
           /\ \A c \in clearing : c.gen \in 0..MaxGoals /\ c.goal \in GoalType
           /\ \A e \in evals : e.gen \in 1..MaxGoals /\ e.objective \in Objectives \cup {"none"}
  BY GoalAssumption DEF GoalInv, GoalTypeOK, ToldType

\* A send ends with a turn under way, or with a session that takes none.
LEMMA Sent ==
    ASSUME GoalInv, NEW sort \in {"kickoff", "nudge", "meta", "host"}, SendTurn(sort)
    PROVE  /\ turns' \in Seq({"kickoff", "nudge", "meta", "host"})
           /\ accepting => turns' # << >>
<1>1. turns \in Seq({"kickoff", "nudge", "meta", "host"}) BY DEF GoalInv, GoalTypeOK
<1>2. CASE CanSend BY <1>1, <1>2 DEF SendTurn
<1>3. CASE ~CanSend BY <1>1, <1>3 DEF SendTurn, CanSend
<1>4. QED BY <1>2, <1>3

LEMMA SetNativeKeeps ==
    ASSUME GoalInv, NEW o \in Objectives, NEW how \in {"native", "advisory"}, SetNative(o, how)
    PROVE  GoalInv'
<1> DEFINE a == [gen |-> generation + 1, objective |-> o, how |-> how]
<1>1. /\ generation < MaxGoals /\ generation' = generation + 1 /\ iterations' = 0
      /\ suspendNext' = FALSE /\ sentinel' = "none" /\ told' = Replaced
      /\ goal' = IF Live(goal) THEN Goal(goal.objective, "cleared") ELSE goal
      /\ mode' = IF how = "advisory" THEN "advisory" ELSE mode
      /\ arming' = arming \cup {a}
      /\ UNCHANGED <<evaluating, clearing, evals, turns, accepting, native, wire, hostTurns,
                     nudges, owner, excuse>>
  BY DEF SetNative, StartGoal, provider
<1>2. a.gen = generation + 1 /\ a.how = how
      /\ a \in [gen : 1..MaxGoals, objective : Objectives, how : {"native", "advisory"}]
  BY <1>1, Typed
<1> HIDE DEF a
<1>3. /\ ~Live(goal') /\ goal' \in GoalType /\ (goal' = NoGoal => goal = NoGoal) BY <1>1, Typed, GoalFacts
<1>4. /\ told' \in Seq(ToldType) /\ OneEndingIn(told') /\ TaggedIn(told', generation)
      /\ \A g : AnnouncedIn(told', g) <=> AnnouncedIn(told, g)
  BY <1>1, ReplacedFacts
<1>5. ~AnnouncedIn(told', generation') /\ ~EndedIn(told', generation')
      /\ TaggedIn(told', generation')
  BY <1>1, <1>4, Typed, TagsBound
<1>6. GoalTypeOK'
  <2>0. generation' \in 0..MaxGoals /\ iterations' \in 0..MaxIterations /\ owner' \in 0..MaxGoals BY <1>1, Typed
  <2>1. /\ suspendNext' \in BOOLEAN /\ sentinel' \in {"none", "default", "custom"}
        /\ mode' \in {"idle", "native", "emulate", "advisory"}
    BY <1>1, Typed
  <2>2. arming' \subseteq [gen : 1..MaxGoals, objective : Objectives,
                           how : {"native", "advisory"}]
    BY <1>1, <1>2 DEF GoalInv, GoalTypeOK
  <2>3. QED BY <1>1, <1>3, <1>4, <2>0, <2>1, <2>2 DEF GoalTypeOK, GoalInv, ToldType
<1>7. GuardInv' BY <1>1, Typed DEF GuardInv, GoalInv
<1>8. DrivenInv' BY <1>1, Typed DEF DrivenInv, Driven, GoalInv, GuardInv
<1>9. ArmingInv' BY <1>1, <1>2, <1>5, Typed DEF ArmingInv, GoalInv, GuardInv
<1>10. RecordInv' BY <1>1, <1>3, <1>5, Typed DEF RecordInv, GoalInv
<1>11. ClearingInv' BY <1>1, <1>4, Typed DEF ClearingInv, GoalInv
<1>12. LoopInv' BY <1>1 DEF LoopInv, LoopAlive, Enforced
<1>13. QED BY <1>4, <1>6, <1>7, <1>8, <1>9, <1>10, <1>11, <1>12 DEF GoalInv

LEMMA SetEmulatedKeeps ==
    ASSUME GoalInv, NEW o \in Objectives, NEW judge \in {"default", "custom"},
           SetEmulated(o, judge)
    PROVE  GoalInv'
<1> DEFINE x == [goal |-> Goal(o, "active"), gen |-> generation + 1, judged |-> 0]
<1>1. /\ generation < MaxGoals /\ generation' = generation + 1 /\ iterations' = 0
      /\ suspendNext' = FALSE /\ sentinel' = judge /\ told' = Append(Replaced, x)
      /\ goal' = Goal(o, "active") /\ mode' = "emulate" /\ owner' = generation + 1
      /\ SendTurn("kickoff")
      /\ excuse' = IF evals = {} THEN {} ELSE {"overlap"}
      /\ UNCHANGED <<evaluating, arming, clearing, evals, accepting, native, wire, hostTurns,
                     nudges>>
  BY DEF SetEmulated, StartGoal, Emulate, provider, awaits
<1>2. x \in ToldType /\ x.gen = generation + 1 /\ x.judged = 0 /\ x.goal = Goal(o, "active")
  <2>1. generation + 1 \in 0..MaxGoals /\ 0 \in 0..MaxGoals /\ Goal(o, "active") \in GoalType
    BY <1>1, Typed, GoalFacts
  <2>2. QED BY <2>1, ToldFacts
<1> HIDE DEF x
<1>3. /\ goal' \in GoalType /\ ~Terminal(goal') /\ goal' # NoGoal BY <1>1, GoalFacts
<1>4. /\ Replaced \in Seq(ToldType) /\ OneEndingIn(Replaced) /\ TaggedIn(Replaced, generation)
      /\ \A g : AnnouncedIn(Replaced, g) <=> AnnouncedIn(told, g)
  BY ReplacedFacts
<1>5. ~AnnouncedIn(Replaced, generation + 1) /\ ~EndedIn(Replaced, generation + 1)
  BY <1>1, <1>4, Typed, TagsBound
<1>6. /\ told' \in Seq(ToldType) /\ ~EndedIn(told', generation + 1)
      /\ \A g : g # generation + 1 => (AnnouncedIn(told', g) <=> AnnouncedIn(told, g))
  BY <1>1, <1>2, <1>4, <1>5, TellAppends
<1>7. OneEndingIn(told') BY <1>1, <1>2, <1>3, <1>4, <1>5, OneEndingKept
<1>8. TaggedIn(told', generation') BY <1>1, <1>2, <1>4, Typed, TagsAppended
<1>9. turns' \in Seq({"kickoff", "nudge", "meta", "host"}) /\ (accepting => turns' # << >>) BY <1>1, Sent
<1>10. GoalTypeOK'
  <2>0. generation' \in 0..MaxGoals /\ iterations' \in 0..MaxIterations /\ owner' \in 0..MaxGoals BY <1>1, Typed
  <2>1. /\ suspendNext' \in BOOLEAN /\ sentinel' \in {"none", "default", "custom"}
        /\ mode' \in {"idle", "native", "emulate", "advisory"}
        /\ excuse' \subseteq {"failed", "interrupted", "overlap"}
    BY <1>1, Typed
  <2>2. QED BY <1>1, <1>3, <1>6, <1>9, <2>0, <2>1 DEF GoalTypeOK, GoalInv, ToldType
<1>11. GuardInv' BY <1>1, Typed DEF GuardInv, GoalInv
<1>12. DrivenInv' BY <1>1, <1>6, Typed DEF DrivenInv, GoalInv
<1>13. ArmingInv' BY <1>1, Typed DEF ArmingInv, GoalInv
<1>14. RecordInv' BY <1>1, <1>3, <1>6, <1>8, Typed DEF RecordInv, GoalInv
<1>15. ClearingInv' BY <1>1, <1>6, Typed DEF ClearingInv, GoalInv
<1>16. LoopInv' BY <1>1, <1>9 DEF LoopInv, LoopAlive, Enforced, Working
<1>17. QED BY <1>7, <1>10, <1>11, <1>12, <1>13, <1>14, <1>15, <1>16 DEF GoalInv

LEMMA SetAdvisoryKeeps ==
    ASSUME GoalInv, NEW o \in Objectives, SetAdvisory(o)
    PROVE  GoalInv'
<1> DEFINE x == [goal |-> Goal(o, "active"), gen |-> generation + 1, judged |-> 0]
<1>1. /\ generation < MaxGoals /\ generation' = generation + 1 /\ iterations' = 0
      /\ suspendNext' = FALSE /\ sentinel' = "none" /\ told' = Append(Replaced, x)
      /\ goal' = Goal(o, "active") /\ mode' = "advisory" /\ owner' = generation + 1
      /\ UNCHANGED <<evaluating, arming, clearing, evals, turns, accepting, native, wire,
                     hostTurns, nudges, excuse>>
  BY DEF SetAdvisory, StartGoal, provider, awaits
<1>2. x \in ToldType /\ x.gen = generation + 1 /\ x.judged = 0 /\ x.goal = Goal(o, "active")
  <2>1. generation + 1 \in 0..MaxGoals /\ 0 \in 0..MaxGoals /\ Goal(o, "active") \in GoalType
    BY <1>1, Typed, GoalFacts
  <2>2. QED BY <2>1, ToldFacts
<1> HIDE DEF x
<1>3. /\ goal' \in GoalType /\ ~Terminal(goal') /\ goal' # NoGoal BY <1>1, GoalFacts
<1>4. /\ Replaced \in Seq(ToldType) /\ OneEndingIn(Replaced) /\ TaggedIn(Replaced, generation)
      /\ \A g : AnnouncedIn(Replaced, g) <=> AnnouncedIn(told, g)
  BY ReplacedFacts
<1>5. ~AnnouncedIn(Replaced, generation + 1) /\ ~EndedIn(Replaced, generation + 1)
  BY <1>1, <1>4, Typed, TagsBound
<1>6. /\ told' \in Seq(ToldType) /\ ~EndedIn(told', generation + 1)
      /\ \A g : g # generation + 1 => (AnnouncedIn(told', g) <=> AnnouncedIn(told, g))
  BY <1>1, <1>2, <1>4, <1>5, TellAppends
<1>7. OneEndingIn(told') BY <1>1, <1>2, <1>3, <1>4, <1>5, OneEndingKept
<1>8. TaggedIn(told', generation') BY <1>1, <1>2, <1>4, Typed, TagsAppended
<1>9. GoalTypeOK'
  <2>0. generation' \in 0..MaxGoals /\ iterations' \in 0..MaxIterations /\ owner' \in 0..MaxGoals BY <1>1, Typed
  <2>1. /\ suspendNext' \in BOOLEAN /\ sentinel' \in {"none", "default", "custom"}
        /\ mode' \in {"idle", "native", "emulate", "advisory"}
    BY <1>1, Typed
  <2>2. QED BY <1>1, <1>3, <1>6, <2>0, <2>1 DEF GoalTypeOK, GoalInv, ToldType
<1>10. GuardInv' BY <1>1, Typed DEF GuardInv, GoalInv
<1>11. DrivenInv' BY <1>1, <1>6, Typed DEF DrivenInv, GoalInv
<1>12. ArmingInv' BY <1>1, Typed DEF ArmingInv, GoalInv
<1>13. RecordInv' BY <1>1, <1>3, <1>6, <1>8, Typed DEF RecordInv, GoalInv
<1>14. ClearingInv' BY <1>1, <1>6, Typed DEF ClearingInv, GoalInv
<1>15. LoopInv' BY <1>1 DEF LoopInv, LoopAlive, Enforced
<1>16. QED BY <1>7, <1>9, <1>10, <1>11, <1>12, <1>13, <1>14, <1>15 DEF GoalInv

\* The provider tells one more status of a goal.
LEMMA WireAppends ==
    ASSUME GoalInv, NEW g \in GoalType, g.status # "none"
    PROVE  /\ Append(wire, g) \in Seq(GoalType)
           /\ \A n \in DOMAIN Append(wire, g) : Append(wire, g)[n].status # "none"
<1>1. wire \in Seq(GoalType) /\ \A n \in DOMAIN wire : wire[n].status # "none" BY Typed DEF GoalInv, RecordInv
<1>2. QED BY <1>1

LEMMA ArmReturnsKeeps ==
    ASSUME GoalInv, NEW a \in arming, NEW ok \in BOOLEAN, ArmReturns(a, ok)
    PROVE  GoalInv'
<1> DEFINE g == Goal(a.objective, "active")
           x == [goal |-> g, gen |-> a.gen, judged |-> 0]
<1>1. /\ arming' = arming \ {a}
      /\ UNCHANGED <<iterations, evaluating, suspendNext, generation, clearing, evals,
                     accepting, hostTurns, nudges>>
  BY DEF ArmReturns
<1>2. g \in GoalType /\ g.status = "active" /\ g # NoGoal /\ ~Terminal(g) BY Typed, GoalFacts
<1>3. x \in ToldType /\ x.gen = a.gen /\ x.judged = 0 /\ x.goal = g
  <2>1. a.gen \in 0..MaxGoals /\ 0 \in 0..MaxGoals BY Typed
  <2>2. QED BY <1>2, <2>1, ToldFacts
<1>4. /\ native' \in GoalType /\ wire' \in Seq(GoalType)
      /\ \A n \in DOMAIN wire' : wire'[n].status # "none"
  <2>1. CASE ok BY <2>1, <1>2, WireAppends DEF ArmReturns
  <2>2. CASE ~ok BY <2>2 DEF ArmReturns, provider, GoalInv, GoalTypeOK, RecordInv
  <2>3. QED BY <2>1, <2>2
<1>5. a.gen \in 1..MaxGoals /\ a.gen <= generation /\ arming' \subseteq arming
  BY <1>1, Typed DEF GoalInv, ArmingInv
<1> HIDE DEF x
<1>6. CASE a.gen # generation
  <2>1. UNCHANGED <<goal, mode, sentinel, told, turns, owner, excuse>> BY <1>6 DEF ArmReturns
  <2>2. GoalTypeOK' BY <1>1, <1>4, <1>5, <2>1 DEF GoalTypeOK, GoalInv
  <2>3. GuardInv' /\ DrivenInv' /\ ClearingInv' /\ LoopInv' /\ OneEndingIn(told')
    BY <1>1, <2>1 DEF GoalInv, GuardInv, DrivenInv, Driven, ClearingInv, LoopInv, LoopAlive,
                      Enforced, Working
  <2>4. ArmingInv' BY <1>1, <2>1 DEF GoalInv, ArmingInv
  <2>5. RecordInv' BY <1>1, <1>4, <2>1 DEF GoalInv, RecordInv
  <2>6. QED BY <2>2, <2>3, <2>4, <2>5 DEF GoalInv
<1>7. ASSUME a.gen = generation
      PROVE  GoalInv'
  <2>1. /\ ~AnnouncedIn(told, generation) /\ ~EndedIn(told, generation)
        /\ sentinel = "none" /\ iterations = 0 /\ \A e \in evals : e.gen # generation
        /\ a.how = "advisory" => mode \in {"advisory", "idle"}
    BY <1>7, EndedWasAnnounced DEF GoalInv, ArmingInv
  <2>2. \A b \in arming' : b.gen # generation BY <1>1, <1>7 DEF GoalInv, ArmingInv
  <2>3. ArmingInv' BY <1>1, <2>2 DEF GoalInv, ArmingInv
  <2>4. a.how \in {"native", "advisory"} BY DEF GoalInv, GoalTypeOK
  <2>5. /\ Append(told, x) \in Seq(ToldType) /\ OneEndingIn(Append(told, x))
        /\ TaggedIn(Append(told, x), generation) /\ ~EndedIn(Append(told, x), generation)
        /\ \A n : n # generation => (AnnouncedIn(Append(told, x), n) <=> AnnouncedIn(told, n))
    BY Typed, <1>2, <1>3, <1>7, <2>1, OneEndingKept, TagsAppended, TellAppends DEF GoalInv, RecordInv
  <2>6. CASE ok
    <3>1. /\ goal' = g /\ owner' = a.gen /\ mode' = IF a.how = "native" THEN "native" ELSE mode
          /\ UNCHANGED <<sentinel, told, turns, excuse>>
      BY <1>7, <2>6 DEF ArmReturns
    <3>2. owner' \in 0..MaxGoals /\ mode' \in {"idle", "native", "emulate", "advisory"} BY <1>5, <3>1, Typed
    <3>3. GoalTypeOK' BY <1>1, <1>2, <1>4, <1>5, <3>1, <3>2 DEF GoalTypeOK, GoalInv
    <3>4. GuardInv' BY <1>1, <1>5, <1>7, <3>1, Typed DEF GuardInv, GoalInv
    <3>5. DrivenInv' /\ ClearingInv' BY <1>1, <2>1, <3>1 DEF DrivenInv, Driven, ClearingInv, GoalInv
    <3>6. RecordInv' BY <1>1, <1>2, <1>4, <1>5, <1>7, <2>1, <3>1 DEF RecordInv, GoalInv
    <3>7. LoopInv' BY <1>1, <2>1, <3>1 DEF LoopInv, LoopAlive, Enforced, GoalInv
    <3>8. OneEndingIn(told') BY <3>1 DEF GoalInv
    <3>9. QED BY <2>3, <3>3, <3>4, <3>5, <3>6, <3>7, <3>8 DEF GoalInv
  <2>7. CASE ~ok /\ a.how = "native"
    <3>1. /\ goal' = g /\ owner' = a.gen /\ mode' = "emulate" /\ sentinel' = "default"
          /\ told' = Append(told, x) /\ SendTurn("kickoff")
          /\ excuse' = (IF evals = {} THEN {} ELSE {"overlap"})
                       \cup (IF suspendNext' THEN {"interrupted"} ELSE {})
      BY <1>7, <2>7 DEF ArmReturns, Emulate, x
    <3>2. owner' \in 0..MaxGoals /\ excuse' \subseteq {"failed", "interrupted", "overlap"} BY <1>5, <3>1, Typed
    <3>3. /\ turns' \in Seq({"kickoff", "nudge", "meta", "host"})
          /\ accepting => turns' # << >>
      BY <3>1, Sent
    <3>4. GoalTypeOK' BY <1>1, <1>2, <1>4, <1>5, <2>5, <3>1, <3>2, <3>3 DEF GoalTypeOK, GoalInv, ToldType
    <3>5. GuardInv' BY <1>1, <1>5, <1>7, <3>1, Typed DEF GuardInv, GoalInv
    <3>6. DrivenInv' BY <1>1, <2>1, <2>5, <3>1, Typed DEF DrivenInv, GoalInv
    <3>7. ClearingInv' BY <1>1, <2>5, <3>1, Typed DEF ClearingInv, GoalInv
    <3>8. RecordInv' BY <1>1, <1>2, <1>4, <1>5, <1>7, <2>5, <3>1 DEF RecordInv, GoalInv
    <3>9. LoopInv' BY <1>1, <3>1, <3>3 DEF LoopInv, LoopAlive, Enforced, Working
    <3>10. QED BY <2>3, <2>5, <3>1, <3>4, <3>5, <3>6, <3>7, <3>8, <3>9 DEF GoalInv
  <2>8. CASE ~ok /\ a.how = "advisory"
    <3>1. /\ goal' = g /\ owner' = a.gen /\ told' = Append(told, x)
          /\ UNCHANGED <<mode, sentinel, turns, excuse>>
      BY <1>7, <2>8 DEF ArmReturns, Tell, x
    <3>2. owner' \in 0..MaxGoals BY <1>5, <3>1, Typed
    <3>3. GoalTypeOK' BY <1>1, <1>2, <1>4, <1>5, <2>5, <3>1, <3>2 DEF GoalTypeOK, GoalInv, ToldType
    <3>4. GuardInv' BY <1>1, <3>1 DEF GuardInv, GoalInv
    <3>5. DrivenInv' BY <1>1, <2>1, <2>5, <3>1, Typed DEF DrivenInv, Driven, GoalInv
    <3>6. ClearingInv' BY <1>1, <2>5, <3>1, Typed DEF ClearingInv, GoalInv
    <3>7. RecordInv' BY <1>1, <1>2, <1>4, <1>5, <1>7, <2>1, <2>5, <2>8, <3>1 DEF RecordInv, GoalInv
    <3>8. LoopInv' BY <1>1, <2>1, <3>1 DEF LoopInv, LoopAlive, Enforced, GoalInv
    <3>9. QED BY <2>3, <2>5, <3>1, <3>3, <3>4, <3>5, <3>6, <3>7, <3>8 DEF GoalInv
  <2>9. QED BY <2>4, <2>6, <2>7, <2>8
<1>8. QED BY <1>6, <1>7

-----------------------------------------------------------------------------
(* Clearing a goal, and what the provider says of it.                      *)

LEMMA ClearGoalKeeps ==
    ASSUME GoalInv, NEW reason \in {"cleared", "blocked"}, ClearGoal(reason)
    PROVE  GoalInv'
<1> DEFINE g == Goal(goal.objective, reason)
           x == [goal |-> g, gen |-> owner, judged |-> 0]
           c == [gen |-> owner, goal |-> g]
<1>1. /\ Live(goal) /\ generation < MaxGoals /\ generation' = generation + 1
      /\ mode' = "idle" /\ sentinel' = "none"
      /\ UNCHANGED <<iterations, evaluating, suspendNext, arming, evals, turns, accepting,
                     native, wire, hostTurns, nudges, owner, excuse>>
  BY DEF ClearGoal, provider
<1>2. /\ g \in GoalType /\ Terminal(g) /\ ~Live(g) /\ g # NoGoal
      /\ g.status \in {"cleared", "blocked"}
  BY Typed, GoalFacts
<1>3. x \in ToldType /\ x.gen = owner /\ x.judged = 0 /\ x.goal = g BY Typed, <1>2, ToldFacts
<1>4. c \in [gen : 0..MaxGoals, goal : GoalType] /\ c.gen = owner /\ c.goal = g BY <1>2, Typed
<1> HIDE DEF x, c, g
<1>5. /\ told \in Seq(ToldType) /\ OneEndingIn(told) /\ TaggedIn(told, generation)
      /\ owner <= generation /\ (owner # 0 => ~EndedIn(told, owner))
  BY <1>1, Typed DEF GoalInv, RecordInv
<1>6. generation' \in 0..MaxGoals BY <1>1, Typed
<1>7. GuardInv' /\ DrivenInv' BY <1>1, Typed DEF GuardInv, DrivenInv, Driven, GoalInv
<1>8. ArmingInv' /\ LoopInv' BY <1>1, Typed DEF ArmingInv, LoopInv, LoopAlive, Enforced, GoalInv
<1>9. CASE mode = "native"
  <2>1. clearing' = clearing \cup {c} /\ UNCHANGED <<goal, told>> BY <1>9 DEF ClearGoal, c, g
  <2>2. GoalTypeOK' BY <1>1, <1>4, <1>6, <2>1 DEF GoalTypeOK, GoalInv
  <2>3. RecordInv' BY <1>1, <1>5, <1>6, Typed, TagsBound, <2>1 DEF RecordInv, GoalInv
  <2>4. ClearingInv' BY <1>1, <1>2, <1>4, <1>5, <1>9, <2>1, Typed DEF ClearingInv, RecordInv, GoalInv
  <2>5. QED BY <1>5, <1>7, <1>8, <2>1, <2>2, <2>3, <2>4 DEF GoalInv
<1>10. CASE mode # "native"
  <2>1. goal' = g /\ told' = Append(told, x) /\ clearing' = clearing BY <1>10 DEF ClearGoal, Tell, x, g
  <2>2. /\ told' \in Seq(ToldType) /\ OneEndingIn(told')
        /\ \A n : AnnouncedIn(told', n) <=> AnnouncedIn(told, n)
    BY <1>2, <1>3, <1>5, <2>1, OneEndingKept, TellAppends
  <2>3. TaggedIn(told', generation') BY <1>1, <1>3, <1>5, <1>6, <2>1, Typed, TagsAppended
  <2>4. GoalTypeOK' BY <1>1, <1>2, <1>6, <2>1, <2>2 DEF GoalTypeOK, GoalInv, ToldType
  <2>5. RecordInv' BY <1>1, <1>2, <1>5, <2>1, <2>3, Typed DEF RecordInv, GoalInv
  <2>6. ClearingInv' BY <1>1, <2>1, <2>2, Typed DEF ClearingInv, GoalInv
  <2>7. QED BY <1>7, <1>8, <2>2, <2>4, <2>5, <2>6 DEF GoalInv
<1>11. QED BY <1>9, <1>10

LEMMA ClearReturnsKeeps ==
    ASSUME GoalInv, NEW c \in clearing, NEW ok \in BOOLEAN, ClearReturns(c, ok)
    PROVE  GoalInv'
<1> DEFINE x == [goal |-> c.goal, gen |-> c.gen, judged |-> 0]
           g == Goal("none", "cleared")
<1>1. /\ clearing' = clearing \ {c} /\ goal' = c.goal /\ owner' = c.gen
      /\ told' = IF c.goal.status = "blocked" THEN Append(told, x) ELSE told
      /\ UNCHANGED <<mode, sentinel, iterations, evaluating, suspendNext, generation, arming,
                     evals, turns, accepting, hostTurns, nudges, excuse>>
  BY DEF ClearReturns, Tell
<1>2. /\ c.gen \in 0..MaxGoals /\ c.goal \in GoalType /\ c.gen < generation
      /\ c.goal.status \in {"cleared", "blocked"}
      /\ c.gen # 0 => ~AnnouncedIn(told, c.gen) /\ ~EndedIn(told, c.gen)
  BY Typed, EndedWasAnnounced DEF GoalInv, ClearingInv
<1>3. Terminal(c.goal) /\ ~Live(c.goal) /\ c.goal # NoGoal BY <1>2 DEF Terminal, Live, NoGoal
<1>4. x \in ToldType /\ x.gen = c.gen /\ x.judged = 0 /\ x.goal = c.goal BY Typed, <1>2, ToldFacts
<1> HIDE DEF x
<1>5. /\ native' \in GoalType /\ wire' \in Seq(GoalType)
      /\ \A n \in DOMAIN wire' : wire'[n].status # "none"
  <2>1. CASE ok /\ native # NoGoal BY <2>1, GoalFacts, WireAppends DEF ClearReturns
  <2>2. CASE ~(ok /\ native # NoGoal) BY <2>2 DEF ClearReturns, provider, GoalInv, GoalTypeOK, RecordInv
  <2>3. QED BY <2>1, <2>2
<1>6. /\ told' \in Seq(ToldType) /\ OneEndingIn(told') /\ TaggedIn(told', generation)
      /\ \A n : AnnouncedIn(told', n) <=> AnnouncedIn(told, n)
      /\ EndedIn(told', generation) => EndedIn(told, generation)
  BY Typed, <1>2, <1>3, <1>4, OneEndingKept, TagsAppended, <1>1, TellAppends DEF GoalInv, RecordInv
<1>7. GoalTypeOK' BY <1>1, <1>2, <1>5, <1>6 DEF GoalTypeOK, GoalInv, ToldType
<1>8. GuardInv' /\ LoopInv' BY <1>1, <1>3 DEF GuardInv, LoopInv, LoopAlive, Enforced, GoalInv
<1>9. DrivenInv' /\ ArmingInv' /\ ClearingInv'
  BY <1>1, <1>6 DEF DrivenInv, Driven, ArmingInv, ClearingInv, GoalInv
<1>10. RecordInv' BY <1>1, <1>2, Typed, <1>3, <1>5, <1>6 DEF RecordInv
<1>11. QED BY <1>6, <1>7, <1>8, <1>9, <1>10 DEF GoalInv

LEMMA ObserveKeeps ==
    ASSUME GoalInv, Observe
    PROVE  GoalInv'
<1> DEFINE e == Head(wire)
<1>1. /\ wire # << >> /\ wire' = Tail(wire)
      /\ UNCHANGED <<iterations, evaluating, suspendNext, generation, arming, clearing, evals,
                     turns, accepting, native, hostTurns, told, nudges, excuse>>
  BY DEF Observe, awaits
<1>2. /\ e \in GoalType /\ e.status # "none" /\ wire' \in Seq(GoalType)
      /\ \A n \in DOMAIN wire' : wire'[n].status # "none"
  BY Typed, <1>1 DEF GoalInv, RecordInv
<1>3. CASE Terminal(goal) /\ e.objective \in {"none", goal.objective}
  <2>1. UNCHANGED <<goal, mode, sentinel, owner>> BY <1>3 DEF Observe
  <2>2. QED
    BY <1>1, <1>2, <2>1 DEF GoalInv, GoalTypeOK, GuardInv, DrivenInv, Driven, ArmingInv,
       RecordInv, ClearingInv, LoopInv, LoopAlive, Enforced, Working
<1>4. CASE ~(Terminal(goal) /\ e.objective \in {"none", goal.objective})
  <2>1. /\ goal' = IF e.objective = "none" THEN Goal(goal.objective, e.status) ELSE e
        /\ owner' = IF goal'.objective = goal.objective THEN owner ELSE 0
        /\ IF Terminal(e) THEN mode' = "idle" /\ sentinel' = "none"
                          ELSE mode' = mode /\ sentinel' = sentinel
    BY <1>4 DEF Observe
  <2>2. /\ goal' \in GoalType /\ goal'.status = e.status /\ goal' # NoGoal
        /\ e.objective # "none" => goal'.objective = e.objective
    <3>1. /\ e.status \in {"none", "active", "met", "blocked", "cleared"}
          /\ goal.objective \in Objectives \cup {"none"}
      BY <1>2, Typed, GoalFacts
    <3>2. CASE e.objective = "none" BY <1>2, <2>1, <3>1, <3>2, GoalFacts
    <3>3. CASE e.objective # "none" BY <1>2, <2>1, <3>3, GoalFacts
    <3>4. QED BY <3>2, <3>3
  <2>3. Live(goal') <=> ~Terminal(e) BY <2>2 DEF Live, Terminal
  <2>4. ASSUME owner' # 0
        PROVE  owner' = owner /\ Live(goal)
    BY <2>1, <2>4, <1>4, <2>2 DEF GoalInv, RecordInv, Live
  <2>5. owner' \in 0..MaxGoals /\ owner' <= generation BY <2>1, Typed DEF GoalInv, RecordInv
  <2>6. GoalTypeOK' BY <1>1, <1>2, <2>1, <2>2, <2>5 DEF GoalTypeOK, GoalInv
  <2>7. GuardInv' /\ DrivenInv' /\ ClearingInv'
    BY <1>1, <2>1 DEF GoalInv, GuardInv, DrivenInv, Driven, ClearingInv
  <2>8. ArmingInv' BY <1>1, <2>1 DEF GoalInv, ArmingInv
  <2>9. RecordInv' BY <1>1, <2>4, <2>1, <1>2, <2>2, <2>5 DEF GoalInv, RecordInv
  <2>10. LoopInv'
    <3>1. Enforced' => Enforced
      <4>1. SUFFICES ASSUME Enforced'
                     PROVE  Enforced
        OBVIOUS
      <4>2. mode = "emulate" /\ sentinel # "none" /\ accepting /\ owner' = generation
        BY <1>1, <2>1, <4>1 DEF Enforced
      <4>3. generation # 0 BY <4>2, Typed DEF GoalInv, GuardInv
      <4>4. QED BY <2>4, <4>2, <4>3 DEF Enforced
    <3>2. Working' <=> Working BY <1>1 DEF Working
    <3>3. LoopAlive' BY <1>1, <3>1, <3>2 DEF LoopAlive, GoalInv, LoopInv
    <3>4. QED BY <1>1, <2>1, <3>3 DEF LoopInv, GoalInv
  <2>11. QED BY <1>1, <2>6, <2>7, <2>8, <2>9, <2>10 DEF GoalInv
<1>5. QED BY <1>3, <1>4

-----------------------------------------------------------------------------
(* The loop.                                                               *)

LEMMA TurnEndsKeeps ==
    ASSUME GoalInv, NEW ending \in {"completed", "failed"}, TurnEnds(ending)
    PROVE  GoalInv'
<1> DEFINE rest == Tail(turns)
           room == accepting /\ (OneAtATime => rest = << >>)
           asks == sentinel = "default" /\ room
           e == [gen |-> generation, objective |-> goal.objective,
                 meta |-> asks, refused |-> sentinel = "default" /\ ~room]
<1>1. /\ turns # << >>
      /\ suspendNext' = (suspendNext /\ ~(mode = "emulate" /\ ~evaluating))
      /\ excuse' = IF ending = "completed" THEN excuse ELSE excuse \cup {"failed"}
      /\ UNCHANGED <<goal, mode, sentinel, iterations, generation, arming, clearing,
                     accepting, native, wire, hostTurns, told, nudges, owner>>
  BY DEF TurnEnds, provider
<1>2. rest \in Seq({"kickoff", "nudge", "meta", "host"}) BY <1>1 DEF GoalInv, GoalTypeOK
<1>3. suspendNext' \in BOOLEAN /\ excuse' \subseteq {"failed", "interrupted", "overlap"}
      /\ (suspendNext' => suspendNext) /\ excuse \subseteq excuse'
  BY <1>1, Typed
<1>4. ArmingInv' /\ ClearingInv' /\ RecordInv' /\ OneEndingIn(told')
  <2>1. ClearingInv' /\ RecordInv' /\ OneEndingIn(told') BY <1>1 DEF GoalInv, ClearingInv, RecordInv
  <2>2. CASE Judges(ending) BY <2>2, <1>1, <2>1 DEF Judges, GoalInv, ArmingInv
  <2>3. CASE ~Judges(ending) BY <2>3, <1>1, <2>1 DEF TurnEnds, GoalInv, ArmingInv
  <2>4. QED BY <2>2, <2>3
<1>5. CASE Judges(ending)
  <2>1. /\ evaluating' = TRUE /\ evals' = evals \cup {e}
        /\ turns' = IF asks THEN Append(rest, "meta") ELSE rest
    BY <1>5 DEF TurnEnds
  <2>2. /\ e \in [gen : 1..MaxGoals, objective : Objectives \cup {"none"},
                  meta : BOOLEAN, refused : BOOLEAN]
        /\ e.gen = generation
    BY <1>5, Typed, GoalFacts DEF Judges, GoalInv, GuardInv
  <2>3. turns' \in Seq({"kickoff", "nudge", "meta", "host"}) BY <1>2, <2>1
  <2> HIDE DEF e, asks, rest, room
  <2>4. evals' = {e} BY <1>5, <2>1 DEF Judges, GoalInv, GuardInv
  <2>5. GoalTypeOK' BY <1>1, <1>3, <2>1, <2>2, <2>3, <2>4 DEF GoalTypeOK, GoalInv
  <2>6. GuardInv' BY <1>1, <2>2, <2>4, Typed, <2>1 DEF GoalInv, GuardInv
  <2>7. DrivenInv' BY <1>1, <1>5, <2>2, <2>4 DEF DrivenInv, Driven, GoalInv, Judges
  <2>8. LoopInv' BY <1>1, <1>3, <2>2, <2>4 DEF LoopInv, LoopAlive, Working, GoalInv
  <2>9. QED BY <1>4, <2>5, <2>6, <2>7, <2>8 DEF GoalInv
<1>6. CASE ~Judges(ending)
  <2>1. turns' = rest /\ UNCHANGED <<evaluating, evals>> BY <1>6 DEF TurnEnds
  <2>2. GoalTypeOK' BY <1>1, <1>2, <1>3, <2>1 DEF GoalTypeOK, GoalInv
  <2>3. GuardInv' /\ DrivenInv' BY <1>1, <2>1 DEF GuardInv, DrivenInv, Driven, GoalInv
  <2>4. LoopAlive'
    <3>1. SUFFICES ASSUME Enforced', excuse' = {}
                   PROVE  evals # {}
      BY <2>1 DEF LoopAlive, Working
    <3>2. Enforced /\ excuse = {} /\ ending = "completed" BY <1>1, <1>3, <3>1 DEF Enforced
    <3>3. ~suspendNext BY <3>2 DEF GoalInv, LoopInv
    <3>4. evaluating BY <1>6, <3>2, <3>3, Typed DEF Judges, Enforced
    <3>5. QED BY <3>4 DEF GoalInv, GuardInv
  <2>5. LoopInv' BY <1>1, <1>3, <2>1, <2>4 DEF LoopInv, GoalInv
  <2>6. QED BY <1>4, <2>2, <2>3, <2>5 DEF GoalInv
<1>7. QED BY <1>5, <1>6

LEMMA JudgeKeeps ==
    ASSUME GoalInv, NEW e \in evals, NEW verdict \in {"met", "unmet", "throws"},
           Judge(e, verdict)
    PROVE  GoalInv'
<1>1. /\ evals' = evals \ {e} /\ evaluating' = FALSE
      /\ UNCHANGED <<suspendNext, generation, arming, clearing, accepting, native, wire,
                     hostTurns, owner, excuse>>
  BY DEF Judge, Released, provider
<1>2. evals' = {} /\ evaluating' = FALSE BY <1>1, Typed DEF GoalInv, GuardInv
<1>3. e.gen \in 1..MaxGoals /\ e.objective \in Objectives \cup {"none"} /\ e.gen <= generation
  BY Typed DEF GoalInv, GuardInv
<1>4. CASE ~StillCurrent(e)
  <2>1. UNCHANGED <<goal, mode, sentinel, iterations, told, nudges, turns>> BY <1>4 DEF Judge
  <2>2. GoalTypeOK' BY <1>1, <1>2, <2>1 DEF GoalTypeOK, GoalInv
  <2>3. GuardInv' /\ DrivenInv' /\ ArmingInv' /\ RecordInv' /\ ClearingInv'
    BY <1>1, <1>2, <2>1 DEF GuardInv, DrivenInv, Driven, ArmingInv, RecordInv, ClearingInv, GoalInv
  <2>4. LoopInv' BY <1>1, <1>4, <2>1, <1>2 DEF Enforced, StillCurrent, GoalInv, LoopInv, LoopAlive
  <2>5. QED BY <2>1, <2>2, <2>3, <2>4 DEF GoalInv
<1>5. ASSUME StillCurrent(e)
      PROVE  GoalInv'
  <2>1. e.gen = generation /\ iterations < MaxIterations /\ ~EndedIn(told, generation)
    BY <1>5 DEF StillCurrent, GoalInv, DrivenInv, Driven
  <2>2. \A a \in arming' : a.gen # generation BY <1>1, <2>1 DEF GoalInv, ArmingInv
  <2>3. ArmingInv' BY <1>1, <2>2 DEF GoalInv, ArmingInv
  <2>4. iterations' \in 0..MaxIterations /\ iterations <= iterations'
    <3>1. iterations' = iterations \/ iterations' = iterations + 1 BY <1>5 DEF Judge
    <3>2. QED BY <2>1, <3>1, Typed
  <2>5. ASSUME NEW ending \in {"met", "blocked"}, EndGoal(e, ending)
        PROVE  GoalInv'
    <3> DEFINE g == Goal(e.objective, ending)
               x == [goal |-> g, gen |-> generation, judged |-> e.gen]
    <3>1. /\ goal' = g /\ told' = Append(told, x) /\ mode' = "idle" /\ sentinel' = "none"
          /\ UNCHANGED <<turns, nudges>>
      BY <2>5 DEF EndGoal, Tell
    <3>2. g \in GoalType /\ Terminal(g) /\ ~Live(g) /\ g # NoGoal BY <1>3, GoalFacts
    <3>3. x \in ToldType /\ x.gen = generation /\ x.judged = e.gen /\ x.goal = g BY <2>1, Typed, <3>2, ToldFacts
    <3> HIDE DEF g, x
    <3>4. /\ told' \in Seq(ToldType) /\ OneEndingIn(told') /\ TaggedIn(told', generation)
          /\ \A n : AnnouncedIn(told', n) <=> AnnouncedIn(told, n)
      BY Typed, <2>1, <3>2, <3>3, OneEndingKept, TagsAppended, <3>1, TellAppends DEF GoalInv, RecordInv
    <3>5. GoalTypeOK' BY <1>1, <1>2, <2>4, <3>1, <3>2, <3>4 DEF GoalTypeOK, GoalInv, ToldType
    <3>6. GuardInv' /\ ClearingInv' /\ LoopInv'
      BY <1>1, <1>2, <3>1, <3>4 DEF GuardInv, ClearingInv, LoopInv, LoopAlive, Enforced, GoalInv
    <3>7. DrivenInv'
      <4>1. ~Driven' BY <1>2, <3>1 DEF Driven
      <4>2. ASSUME NEW n \in 1..MaxGoals
            PROVE  /\ nudges'[n] < MaxIterations
                   /\ n = generation' => nudges'[n] <= iterations'
                   /\ n > generation' => nudges'[n] = 0
        <5>1. /\ nudges[n] \in Nat /\ nudges[n] < MaxIterations
              /\ n = generation => nudges[n] <= iterations
              /\ n > generation => nudges[n] = 0
          BY Typed DEF GoalInv, DrivenInv
        <5>2. QED BY <1>1, <2>4, <3>1, <5>1, Typed
      <4>3. QED BY <4>1, <4>2 DEF DrivenInv
    <3>8. RecordInv' BY <1>1, <3>1, <3>2, <3>4 DEF RecordInv, GoalInv
    <3>9. QED BY <2>3, <3>4, <3>5, <3>6, <3>7, <3>8 DEF GoalInv
  <2>6. ASSUME verdict = "unmet", ~Spent(iterations + 1)
        PROVE  GoalInv'
    <3>1. /\ iterations' = iterations + 1 /\ SendTurn("nudge")
          /\ nudges' = [nudges EXCEPT ![e.gen] = @ + 1]
          /\ UNCHANGED <<goal, mode, sentinel, told>>
      BY <1>5, <2>6 DEF Judge
    <3>2. iterations + 1 < MaxIterations BY <2>6, Typed DEF Spent
    <3>3. nudges' \in [1..MaxGoals -> Nat] BY <1>3, <3>1, Typed
    <3>4. \A n \in 1..MaxGoals : nudges'[n] = IF n = generation THEN nudges[n] + 1 ELSE nudges[n]
      BY <2>1, <3>1, Typed
    <3>5. /\ turns' \in Seq({"kickoff", "nudge", "meta", "host"})
          /\ accepting => turns' # << >>
      BY <3>1, Sent
    <3>6. GoalTypeOK' BY <1>1, <1>2, <2>4, <3>1, <3>3, <3>5 DEF GoalTypeOK, GoalInv
    <3>7. DrivenInv'
      <4>1. Driven' => iterations' < MaxIterations /\ ~EndedIn(told', generation') BY <1>1, <2>1, <3>1, <3>2
      <4>2. ASSUME NEW n \in 1..MaxGoals
            PROVE  /\ nudges'[n] < MaxIterations
                   /\ n = generation' => nudges'[n] <= iterations'
                   /\ n > generation' => nudges'[n] = 0
        BY Typed, <1>1, <3>1, <3>2, <3>4 DEF GoalInv, DrivenInv
      <4>3. QED BY <4>1, <4>2 DEF DrivenInv
    <3>8. GuardInv' /\ RecordInv' /\ ClearingInv' /\ OneEndingIn(told')
      BY <1>1, <1>2, <3>1 DEF GuardInv, RecordInv, ClearingInv, GoalInv
    <3>9. LoopInv' BY <1>1, <1>2, <3>1, <3>5 DEF LoopInv, LoopAlive, Enforced, Working, GoalInv
    <3>10. QED BY <2>3, <3>6, <3>7, <3>8, <3>9 DEF GoalInv
  <2>7. \/ \E ending \in {"met", "blocked"} : EndGoal(e, ending)
        \/ verdict = "unmet" /\ ~Spent(iterations + 1)
    BY <1>5 DEF Judge
  <2>8. QED BY <2>5, <2>6, <2>7
<1>6. QED BY <1>4, <1>5

-----------------------------------------------------------------------------
(* The host and the provider.                                              *)

LEMMA HostTurnKeeps ==
    ASSUME GoalInv, HostTurn
    PROVE  GoalInv'
<1>1. /\ hostTurns < MaxHostTurns /\ hostTurns' = hostTurns + 1 /\ SendTurn("host")
      /\ UNCHANGED <<goal, mode, sentinel, iterations, evaluating, suspendNext, generation,
                     arming, clearing, evals, accepting, native, wire, told, nudges, owner,
                     excuse>>
  BY DEF HostTurn, engine, awaits, provider, history
<1>2. /\ turns' \in Seq({"kickoff", "nudge", "meta", "host"})
      /\ accepting => turns' # << >>
  BY <1>1, Sent
<1>3. hostTurns' \in 0..MaxHostTurns BY <1>1, GoalAssumption DEF GoalInv, GoalTypeOK
<1>4. GoalTypeOK' BY <1>1, <1>2, <1>3 DEF GoalTypeOK, GoalInv
<1>5. GuardInv' /\ DrivenInv' /\ ArmingInv' /\ RecordInv' /\ ClearingInv' /\ OneEndingIn(told')
  BY <1>1 DEF GoalInv, GuardInv, DrivenInv, Driven, ArmingInv, RecordInv, ClearingInv
<1>6. LoopInv' BY <1>1, <1>2 DEF GoalInv, LoopInv, LoopAlive, Enforced, Working
<1>7. QED BY <1>4, <1>5, <1>6 DEF GoalInv

LEMMA NotifyInterruptedKeeps ==
    ASSUME GoalInv, NotifyInterrupted
    PROVE  GoalInv'
<1>1. /\ suspendNext' = (suspendNext \/ mode = "emulate")
      /\ excuse' = excuse \cup {"interrupted"}
      /\ UNCHANGED <<goal, mode, sentinel, iterations, evaluating, generation, arming, clearing,
                     evals, turns, accepting, native, wire, hostTurns, told, nudges, owner>>
  BY DEF NotifyInterrupted, awaits, provider
<1>2. suspendNext' \in BOOLEAN /\ excuse' \subseteq {"failed", "interrupted", "overlap"}
      /\ excuse' # {}
  BY <1>1, Typed
<1>3. GoalTypeOK' BY <1>1, <1>2 DEF GoalTypeOK, GoalInv
<1>4. GuardInv' /\ DrivenInv' /\ ArmingInv' /\ RecordInv' /\ ClearingInv' /\ OneEndingIn(told')
  BY <1>1 DEF GoalInv, GuardInv, DrivenInv, Driven, ArmingInv, RecordInv, ClearingInv
<1>5. LoopInv' BY <1>1, <1>2 DEF GoalInv, LoopInv, LoopAlive
<1>6. QED BY <1>3, <1>4, <1>5 DEF GoalInv

\* The provider's own steps: its goal ends, or its model makes one.
LEMMA ProviderKeeps ==
    ASSUME GoalInv,
           \/ \E ending \in {"met", "blocked"} : NativeEnds(ending)
           \/ \E o \in Objectives : ModelStarts(o)
    PROVE  GoalInv'
<1>1. /\ UNCHANGED <<goal, mode, sentinel, iterations, evaluating, suspendNext, generation,
                     arming, clearing, evals, turns, accepting, told, nudges, owner, excuse>>
      /\ wire' = Append(wire, native')
  BY DEF NativeEnds, ModelStarts, engine, awaits, history
<1>2. native' \in GoalType /\ native'.status # "none"
  BY GoalFacts DEF GoalInv, GoalTypeOK, NativeEnds, ModelStarts
<1>3. hostTurns' \in 0..MaxHostTurns BY GoalAssumption DEF NativeEnds, ModelStarts, GoalInv, GoalTypeOK
<1>4. wire' \in Seq(GoalType) /\ \A n \in DOMAIN wire' : wire'[n].status # "none" BY <1>1, <1>2, WireAppends
<1>5. GoalTypeOK' BY <1>1, <1>2, <1>3, <1>4 DEF GoalTypeOK, GoalInv
<1>6. GuardInv' /\ DrivenInv' /\ ArmingInv' /\ ClearingInv' /\ OneEndingIn(told')
  BY <1>1 DEF GoalInv, GuardInv, DrivenInv, Driven, ArmingInv, ClearingInv
<1>7. RecordInv' BY <1>1, <1>4 DEF GoalInv, RecordInv
<1>8. LoopInv' BY <1>1 DEF GoalInv, LoopInv, LoopAlive, Enforced, Working
<1>9. QED BY <1>5, <1>6, <1>7, <1>8 DEF GoalInv

-----------------------------------------------------------------------------
(* GoalInv is inductive.                                                   *)

LEMMA GoalInitGivesInv ==
    ASSUME GoalInit
    PROVE  GoalInv
<1>1. GoalTypeOK
  <2>1. NoGoal \in GoalType BY GoalFacts
  <2>2. /\ iterations \in 0..MaxIterations /\ generation \in 0..MaxGoals
        /\ owner \in 0..MaxGoals /\ hostTurns \in 0..MaxHostTurns
    BY GoalAssumption DEF GoalInit
  <2>3. nudges \in [1..MaxGoals -> Nat] BY DEF GoalInit
  <2>4. /\ mode \in {"idle", "native", "emulate", "advisory"}
        /\ sentinel \in {"none", "default", "custom"}
        /\ evaluating \in BOOLEAN /\ suspendNext \in BOOLEAN /\ accepting \in BOOLEAN
        /\ goal = NoGoal /\ native = NoGoal
    BY DEF GoalInit
  <2>5. /\ wire \in Seq(GoalType) /\ told \in Seq(ToldType)
        /\ turns \in Seq({"kickoff", "nudge", "meta", "host"})
    BY DEF GoalInit
  <2>6. arming = {} /\ clearing = {} /\ evals = {} /\ excuse = {} BY DEF GoalInit
  <2>7. QED BY <2>1, <2>2, <2>3, <2>4, <2>5, <2>6 DEF GoalTypeOK, ToldType
<1>2. GuardInv /\ ArmingInv /\ ClearingInv BY DEF GoalInit, GuardInv, ArmingInv, ClearingInv
<1>3. DrivenInv BY GoalAssumption DEF GoalInit, DrivenInv, Driven
<1>4. RecordInv /\ OneEndingIn(told) BY GoalFacts DEF GoalInit, RecordInv, TaggedIn, OneEndingIn
<1>5. LoopInv BY DEF GoalInit, LoopInv, LoopAlive, Enforced
<1>6. QED BY <1>1, <1>2, <1>3, <1>4, <1>5 DEF GoalInv

LEMMA GoalNextKeepsInv ==
    ASSUME GoalInv, [GoalNext]_goalVars
    PROVE  GoalInv'
<1>1. CASE \E o \in Objectives, how \in {"native", "advisory"} : SetNative(o, how) BY <1>1, SetNativeKeeps
<1>2. CASE \E o \in Objectives, judge \in {"default", "custom"} : SetEmulated(o, judge)
  BY <1>2, SetEmulatedKeeps
<1>3. CASE \E o \in Objectives : SetAdvisory(o) BY <1>3, SetAdvisoryKeeps
<1>4. CASE \E a \in arming, ok \in BOOLEAN : ArmReturns(a, ok) BY <1>4, ArmReturnsKeeps
<1>5. CASE \E reason \in {"cleared", "blocked"} : ClearGoal(reason) BY <1>5, ClearGoalKeeps
<1>6. CASE \E c \in clearing, ok \in BOOLEAN : ClearReturns(c, ok) BY <1>6, ClearReturnsKeeps
<1>7. CASE Observe BY <1>7, ObserveKeeps
<1>8. CASE \E ending \in {"completed", "failed"} : TurnEnds(ending) BY <1>8, TurnEndsKeeps
<1>9. CASE \E e \in evals, verdict \in {"met", "unmet", "throws"} : Judge(e, verdict) BY <1>9, JudgeKeeps
<1>10. CASE HostTurn BY <1>10, HostTurnKeeps
<1>11. CASE NotifyInterrupted BY <1>11, NotifyInterruptedKeeps
<1>12. CASE \/ \E ending \in {"met", "blocked"} : NativeEnds(ending)
            \/ \E o \in Objectives : ModelStarts(o)
  BY <1>12, ProviderKeeps
<1>13. CASE UNCHANGED goalVars
  <2>1. UNCHANGED <<goal, mode, sentinel, iterations, evaluating, suspendNext, generation,
                    arming, clearing, evals, turns, accepting, native, wire, hostTurns, told,
                    nudges, owner, excuse>>
    BY <1>13 DEF goalVars, engine, awaits, provider, history
  <2>2. QED
    BY <2>1 DEF GoalInv, GoalTypeOK, GuardInv, DrivenInv, Driven, ArmingInv, RecordInv,
       ClearingInv, LoopInv, LoopAlive, Enforced, Working
<1>14. QED
  BY <1>1, <1>2, <1>3, <1>4, <1>5, <1>6, <1>7, <1>8, <1>9, <1>10, <1>11, <1>12, <1>13
     DEF GoalNext

LEMMA GoalInvHolds == GoalSpec => []GoalInv
<1>1. GoalInit => GoalInv BY GoalInitGivesInv
<1>2. GoalInv /\ [GoalNext]_goalVars => GoalInv' BY GoalNextKeepsInv
<1>3. QED BY <1>1, <1>2, PTL DEF GoalSpec

-----------------------------------------------------------------------------
(* The theorems.                                                           *)

\* Every variable of the goal engine keeps its type; no goal is driven past its budget
\* of turns (controller.ts, onTurnSettled).
THEOREM GoalTypeCorrect == GoalSpec => []GoalTypeOK
<1>1. GoalInv => GoalTypeOK BY DEF GoalInv
<1>2. QED BY <1>1, GoalInvHolds, PTL

\* What the invariant says of the host's and the goal's affairs.
LEMMA GoalInvGives ==
    ASSUME GoalInv
    PROVE  VerdictsAreCurrent /\ EndsInTime
<1>1. NoStaleVerdict BY DEF GoalInv, RecordInv, TaggedIn, NoStaleVerdict
<1>2. OneJudge
  <2>1. CASE evaluating
    <3>1. PICK e \in evals : evals = {e} BY <2>1 DEF GoalInv, GuardInv
    <3>2. Cardinality({e}) = 1 BY FS_Singleton
    <3>3. QED BY <2>1, <3>1, <3>2 DEF OneJudge
  <2>2. CASE ~evaluating BY <2>2, FS_EmptySet DEF GoalInv, GuardInv, OneJudge
  <2>3. QED BY <2>1, <2>2
<1>3. WithinBudget /\ OneEnding BY DEF GoalInv, DrivenInv, OneEndingIn, WithinBudget, OneEnding
<1>4. QED BY <1>1, <1>2, <1>3 DEF VerdictsAreCurrent, EndsInTime

\* Whatever is set, replaced, cleared or interrupted while a verdict is awaited, one
\* verdict is awaited at a time, and the host reads none about the goal before.
THEOREM GoalVerdictsAreCurrent == GoalSpec => []VerdictsAreCurrent
<1>1. GoalInv => VerdictsAreCurrent BY GoalInvGives
<1>2. QED BY <1>1, GoalInvHolds, PTL

\* No goal costs more than maxIterations - 1 continuation turns, and of a goal it
\* announced the controller tells one end, the last thing it tells of it: whichever of
\* a replacement, a clear, a verdict and an event of the provider came first.
THEOREM GoalEndsInTime == GoalSpec => []EndsInTime
<1>1. GoalInv => EndsInTime BY GoalInvGives
<1>2. QED BY <1>1, GoalInvHolds, PTL

\* An emulated goal that no failure, interrupt, goal of the provider or overlapping
\* verdict has stopped is running a turn or awaiting a verdict: the loop never idles.
THEOREM GoalLoopAlive == GoalSpec => []LoopAlive
<1>1. GoalInv => LoopAlive BY DEF GoalInv, LoopInv
<1>2. QED BY <1>1, GoalInvHolds, PTL

-----------------------------------------------------------------------------
(* The session                                                             *)

\* Whoever awaits a turn awaits the last one: sends are refused until it is released.
AwaitInv ==
    \A w \in waiting : /\ w.turn = turnNo /\ ~accepting
                       /\ w.who = "drain" => draining
                       /\ w.who = "close" => status = "closed"

\* A closed session aborted its turn, and a released one has none.
ReleaseInv ==
    /\ InFlight => turnNo > 0
    /\ status = "closed" /\ InFlight => aborted
    /\ releases > 0 => ~InFlight /\ ~accepting

SessionInv == GoalInv /\ SessionTypeOK /\ AwaitInv /\ ReleaseInv /\ ~cut

-----------------------------------------------------------------------------

\* The goal engine does not mind that the session takes sends no longer, nor that it
\* takes them again while a turn runs.
LEMMA AcceptingKeepsGoal ==
    ASSUME GoalInv, accepting' \in BOOLEAN, accepting' => accepting \/ turns # << >>,
           UNCHANGED <<engine, awaits, turns, provider, hostTurns, history>>
    PROVE  GoalInv'
<1>1. UNCHANGED <<goal, mode, sentinel, iterations, evaluating, suspendNext, generation,
                  arming, clearing, evals, turns, native, wire, hostTurns, told, nudges,
                  owner, excuse>>
  BY DEF engine, awaits, provider, history
<1>2. /\ GuardInv' /\ DrivenInv' /\ ArmingInv' /\ RecordInv' /\ ClearingInv'
      /\ OneEndingIn(told')
  BY <1>1 DEF GoalInv, GuardInv, DrivenInv, Driven, ArmingInv, RecordInv, ClearingInv
<1>3. GoalTypeOK' BY <1>1 DEF GoalInv, GoalTypeOK
<1>4. LoopInv' BY <1>1 DEF GoalInv, LoopInv, LoopAlive, Enforced, Working
<1>5. QED BY <1>2, <1>3, <1>4 DEF GoalInv

\* What SessionInv says of the session's own variables.
LEMMA SessionTyped ==
    ASSUME SessionInv
    PROVE  /\ turnNo \in Nat /\ releases \in {0, 1} /\ aborted \in BOOLEAN
           /\ draining \in BOOLEAN /\ Len(turns) <= 1 /\ cut = FALSE
           /\ status \in {"idle", "thinking", "tool_executing", "closed"}
           /\ accepting = (status # "closed" /\ ~draining) /\ accepting \in BOOLEAN
           /\ turns \in Seq({"kickoff", "nudge", "meta", "host"})
           /\ turns # << >> => Tail(turns) = << >>
           /\ OneAtATime
<1>1. Len(turns) <= 1 /\ turns \in Seq({"kickoff", "nudge", "meta", "host"})
  BY DEF SessionInv, SessionTypeOK, GoalTypeOK
<1>2. turns # << >> => Tail(turns) = << >> BY <1>1
<1>3. QED BY <1>1, <1>2, ExecAssumption DEF SessionInv, SessionTypeOK

\* A turn that begins, or the step that sent nothing.
LEMMA BeginKeeps ==
    ASSUME SessionInv, GoalInv', accepting' = accepting,
           UNCHANGED <<draining, waiting, releases, cut>>,
           \/ Begin /\ accepting /\ Len(turns') = 1
           \/ turns' = turns /\ UNCHANGED <<status, aborted, turnNo>>
           \/ turns' = << >> /\ status # "closed" /\ status' = "idle"
              /\ aborted' = FALSE /\ turnNo' = turnNo
           \/ turns' = << >> /\ status = "closed" /\ status' = "closed"
              /\ aborted' = FALSE /\ turnNo' = turnNo
    PROVE  SessionInv'
<1>1. SessionTypeOK'
  <2>1. GoalTypeOK' BY DEF GoalInv
  <2>2. /\ status' \in {"idle", "thinking", "tool_executing", "closed"}
        /\ aborted' \in BOOLEAN
    BY SessionTyped DEF Begin
  <2>3. turnNo' \in Nat /\ turnNo <= turnNo' BY SessionTyped DEF Begin
  <2>4. Len(turns') <= 1
    <3>1. Len(<< >>) = 0 OBVIOUS
    <3>2. Len(turns') = 1 \/ turns' = turns \/ turns' = << >> OBVIOUS
    <3>3. Len(turns) <= 1 BY SessionTyped
    <3>4. CASE turns' = << >> BY <3>1, <3>4
    <3>5. CASE turns' = turns BY <3>3, <3>5
    <3>6. CASE Len(turns') = 1 BY <3>6
    <3>7. QED BY <3>2, <3>4, <3>5, <3>6
  <2>5. accepting' = (status' # "closed" /\ ~draining') BY SessionTyped DEF Begin
  <2>6. waiting' \subseteq [who : {"drain", "close"}, turn : 1..turnNo'] BY <2>3 DEF SessionInv, SessionTypeOK
  <2>7. QED BY <2>1, <2>2, <2>3, <2>4, <2>5, <2>6 DEF SessionTypeOK, SessionInv
<1>2. AwaitInv' BY SessionTyped DEF AwaitInv, SessionInv, Begin
<1>3. ReleaseInv'
  <2>1. CASE Begin /\ accepting
    <3>1. turnNo' > 0 /\ status' = "thinking" BY <2>1, SessionTyped DEF Begin
    <3>2. ~(releases > 0) BY <2>1 DEF ReleaseInv, SessionInv
    <3>3. QED BY <3>1, <3>2 DEF ReleaseInv
  <2>2. CASE turns' = turns /\ UNCHANGED <<status, aborted, turnNo>>
    BY <2>2 DEF ReleaseInv, SessionInv, InFlight
  <2>3. CASE turns' = << >> BY <2>3 DEF ReleaseInv, SessionInv, InFlight
  <2>4. QED BY <2>1, <2>2, <2>3
<1>4. QED BY <1>1, <1>2, <1>3 DEF SessionInv

\* What a send leaves.
LEMMA SendLeaves ==
    ASSUME SessionInv, NEW sort, SendTurn(sort)
    PROVE  turns' = turns \/ (accepting /\ Len(turns') = 1)
<1>1. CASE CanSend BY <1>1, SessionTyped DEF CanSend, SendTurn
<1>2. CASE ~CanSend BY <1>2 DEF SendTurn
<1>3. QED BY <1>1, <1>2

LEMMA SendsKeeps ==
    ASSUME SessionInv, GoalInv', accepting' = accepting,
           turns' = turns \/ (accepting /\ Len(turns') = 1),
           IF turns' # turns THEN Begin ELSE UNCHANGED <<status, aborted, turnNo>>,
           UNCHANGED <<draining, waiting, releases, cut>>
    PROVE  SessionInv'
  BY BeginKeeps

LEMMA GoalStepKeeps ==
    ASSUME SessionInv, GoalStep \/ HostSends
    PROVE  SessionInv'
<1>1. GoalInv BY DEF SessionInv
<1>2. ASSUME NEW o \in Objectives, NEW judge \in {"default", "custom"},
             Sends(SetEmulated(o, judge))
      PROVE  SessionInv'
  <2>1. SetEmulated(o, judge) BY <1>2 DEF Sends
  <2>2. accepting' = accepting /\ SendTurn("kickoff") BY <2>1 DEF SetEmulated, Emulate
  <2>3. GoalInv' BY <1>1, <2>1, SetEmulatedKeeps
  <2>4. turns' = turns \/ (accepting /\ Len(turns') = 1) BY <2>2, SendLeaves
  <2>5. QED BY <1>2, <2>2, <2>3, <2>4, SendsKeeps DEF Sends
<1>3. ASSUME NEW o \in Objectives, Sends(SetAdvisory(o))
      PROVE  SessionInv'
  BY <1>3, <1>1, SetAdvisoryKeeps, SendsKeeps DEF Sends, SetAdvisory
<1>4. ASSUME NEW reason \in {"cleared", "blocked"}, Sends(ClearGoal(reason))
      PROVE  SessionInv'
  BY <1>4, <1>1, ClearGoalKeeps, SendsKeeps DEF Sends, ClearGoal
<1>5. ASSUME NEW e \in evals, NEW verdict \in {"met", "unmet", "throws"},
             Sends(Judge(e, verdict))
      PROVE  SessionInv'
  <2>1. Judge(e, verdict) BY <1>5 DEF Sends
  <2>2. accepting' = accepting /\ (turns' = turns \/ SendTurn("nudge")) BY <2>1 DEF Judge, EndGoal
  <2>3. GoalInv' BY <1>1, <2>1, JudgeKeeps
  <2>4. turns' = turns \/ (accepting /\ Len(turns') = 1) BY <2>2, SendLeaves
  <2>5. QED BY <1>5, <2>2, <2>3, <2>4, SendsKeeps DEF Sends
<1>6. ASSUME Sends(HostTurn)
      PROVE  SessionInv'
  <2>1. HostTurn BY <1>6 DEF Sends
  <2>2. accepting' = accepting /\ SendTurn("host") BY <2>1 DEF HostTurn
  <2>3. GoalInv' BY <1>1, <2>1, HostTurnKeeps
  <2>4. turns' = turns \/ (accepting /\ Len(turns') = 1) BY <2>2, SendLeaves
  <2>5. QED BY <1>6, <2>2, <2>3, <2>4, SendsKeeps DEF Sends
<1>7. QED BY <1>2, <1>3, <1>4, <1>5, <1>6 DEF GoalStep, HostSends

\* The goal loop runs ahead of whoever awaits the turn, and begins one only when the
\* session still takes sends.
LEMMA TurnSettlesKeeps ==
    ASSUME SessionInv, NEW how \in {"completed", "failed"}, TurnSettles(how)
    PROVE  SessionInv'
<1>1. TurnEnds(how) /\ UNCHANGED <<draining, waiting, releases, cut>>
      /\ IF turns' # << >>
         THEN Begin
         ELSE /\ status' = IF status = "closed" THEN "closed" ELSE "idle"
              /\ aborted' = FALSE /\ turnNo' = turnNo
  BY DEF TurnSettles
<1>2. GoalInv' /\ accepting' = accepting BY <1>1, TurnEndsKeeps DEF SessionInv, TurnEnds
<1>3. turns' = << >> \/ (accepting /\ turns' = Append(<< >>, "meta")) BY <1>1, SessionTyped DEF TurnEnds
<1>4. CASE turns' # << >>
  <2>1. Begin /\ accepting /\ turns' = << "meta" >> BY <1>1, <1>3, <1>4
  <2>2. Len(turns') = 1 BY <2>1
  <2>3. QED BY <1>1, <1>2, <2>1, <2>2, BeginKeeps
<1>5. CASE turns' = << >> BY <1>1, <1>2, <1>5, BeginKeeps
<1>6. QED BY <1>4, <1>5

\* An event of a turn that is not aborted belongs to a session that is open.
LEMMA TurnEventKeeps ==
    ASSUME SessionInv, ~LateEvents, NEW next \in {"thinking", "tool_executing"},
           TurnEvent(next)
    PROVE  SessionInv'
<1>1. /\ InFlight /\ ~aborted /\ status' = next /\ accepting' = Accepts(next, draining)
      /\ UNCHANGED <<engine, awaits, turns, provider, hostTurns, history, draining, turnNo,
                     aborted, waiting, releases, cut>>
  BY DEF TurnEvent
<1>2. status # "closed" BY <1>1 DEF SessionInv, ReleaseInv
<1>3. accepting' = accepting BY <1>1, <1>2, SessionTyped DEF Accepts
<1>4. GoalInv' BY <1>1, <1>3, AcceptingKeepsGoal, SessionTyped DEF SessionInv
<1>5. SessionTypeOK' BY <1>4, <1>1 DEF GoalInv, SessionTypeOK, SessionInv, Accepts
<1>6. AwaitInv' BY <1>1, <1>2, <1>3 DEF SessionInv, AwaitInv
<1>7. ReleaseInv' BY <1>1, <1>3 DEF SessionInv, ReleaseInv, InFlight
<1>8. QED BY <1>1, <1>4, <1>5, <1>6, <1>7 DEF SessionInv

LEMMA InterruptKeeps ==
    ASSUME SessionInv, Interrupt
    PROVE  SessionInv'
<1>1. /\ aborted' = TRUE /\ accepting' = accepting
      /\ UNCHANGED <<engine, awaits, turns, provider, hostTurns, history, status, draining,
                     turnNo, waiting, releases, cut>>
  BY DEF Interrupt, goalVars
<1>2. GoalInv' BY <1>1, AcceptingKeepsGoal, SessionTyped DEF SessionInv
<1>3. SessionTypeOK' BY <1>2, <1>1 DEF GoalInv, SessionTypeOK, SessionInv
<1>4. AwaitInv' /\ ReleaseInv' BY <1>1 DEF SessionInv, AwaitInv, ReleaseInv, InFlight
<1>5. QED BY <1>1, <1>2, <1>3, <1>4 DEF SessionInv

\* A close, from wherever it comes: it awaits the turn that it aborts, or releases.
LEMMA DoCloseKeeps ==
    ASSUME SessionInv, NEW others \in SUBSET waiting, DoClose(others),
           draining' \in {draining, TRUE}, cut' = cut,
           UNCHANGED <<engine, awaits, turns, provider, hostTurns, history, turnNo>>
    PROVE  SessionInv'
<1>1. status' = "closed" /\ accepting' = FALSE /\ aborted' = InFlight BY DEF DoClose
<1>2. GoalInv' BY <1>1, AcceptingKeepsGoal DEF SessionInv
<1>3. turnNo \in Nat /\ (InFlight => turnNo > 0) /\ draining' \in BOOLEAN
  BY SessionTyped DEF SessionInv, ReleaseInv
<1>4. /\ waiting' \subseteq [who : {"drain", "close"}, turn : 1..turnNo]
      /\ \A w \in waiting' : w \in waiting \/ (w.who = "close" /\ w.turn = turnNo)
      /\ releases' \in {0, 1} /\ (releases' > 0 => ~InFlight)
  <2>1. waiting \subseteq [who : {"drain", "close"}, turn : 1..turnNo] /\ releases \in {0, 1}
    BY DEF SessionInv, SessionTypeOK
  <2>2. CASE InFlight BY <2>2, <1>3, <2>1 DEF DoClose, SessionInv, ReleaseInv
  <2>3. CASE ~InFlight BY <2>3, <2>1 DEF DoClose, Release
  <2>4. QED BY <2>2, <2>3
<1>5. SessionTypeOK' BY <1>2, <1>1, <1>3, <1>4 DEF GoalInv, InFlight, SessionTypeOK, SessionInv
<1>6. AwaitInv'
  <2>1. \A w \in waiting : w.turn = turnNo /\ (w.who = "drain" => draining) BY DEF SessionInv, AwaitInv
  <2>2. \A w \in waiting' : w.turn = turnNo /\ (w.who = "drain" => draining) BY <1>4, <2>1
  <2>3. draining => draining' OBVIOUS
  <2>4. QED BY <1>1, <2>2, <2>3 DEF AwaitInv
<1>7. ReleaseInv' BY <1>1, <1>4 DEF SessionInv, ReleaseInv, InFlight
<1>8. QED BY <1>2, <1>5, <1>6, <1>7 DEF SessionInv

LEMMA DrainKeeps ==
    ASSUME SessionInv, Drain
    PROVE  SessionInv'
<1>1. /\ draining' = TRUE
      /\ UNCHANGED <<engine, awaits, turns, provider, hostTurns, history, turnNo, cut>>
  BY DEF Drain
<1>2. CASE ~InFlight BY <1>2, <1>1, DoCloseKeeps DEF Drain
<1>3. CASE InFlight
  <2> DEFINE w == [who |-> "drain", turn |-> turnNo]
  <2>1. /\ waiting' = waiting \cup {w} /\ accepting' = FALSE
        /\ UNCHANGED <<status, aborted, releases>>
    BY <1>3 DEF Drain, Accepts
  <2>2. w \in [who : {"drain", "close"}, turn : 1..turnNo] /\ w.who = "drain" /\ w.turn = turnNo
    <3>1. turnNo \in 1..turnNo
      <4>1. turnNo \in Nat BY SessionTyped
      <4>2. turnNo > 0 BY <1>3 DEF SessionInv, ReleaseInv
      <4>3. QED BY <4>1, <4>2
    <3>2. QED BY <3>1
  <2> HIDE DEF w
  <2>3. GoalInv' BY <1>1, <2>1, AcceptingKeepsGoal DEF SessionInv
  <2>4. SessionTypeOK' BY <2>3, <2>1, <2>2, <1>1 DEF GoalInv, SessionInv, SessionTypeOK
  <2>5. AwaitInv' BY <1>1, <2>1, <2>2 DEF SessionInv, AwaitInv
  <2>6. ReleaseInv' BY <1>1, <2>1 DEF SessionInv, ReleaseInv, InFlight
  <2>7. QED BY <1>1, <2>3, <2>4, <2>5, <2>6 DEF SessionInv
<1>4. QED BY <1>2, <1>3

\* Whoever awaited the last turn resumes with none in flight.
LEMMA WakesKeeps ==
    ASSUME SessionInv, NEW w \in waiting, Wakes(w)
    PROVE  SessionInv'
<1>1. ~InFlight
  <2>1. w.turn = turnNo /\ (InFlight => turnNo > w.turn) BY DEF Wakes, SessionInv, AwaitInv
  <2>2. turnNo \in Nat BY SessionTyped
  <2>3. QED BY <2>1, <2>2
<1>2. /\ UNCHANGED <<engine, awaits, turns, provider, hostTurns, history, draining, turnNo>>
      /\ w.who \in {"drain", "close"}
  BY DEF Wakes, SessionInv, SessionTypeOK
<1>3. CASE w.who = "close"
  <2>1. /\ waiting' = waiting \ {w} /\ releases' = IF releases = 0 THEN 1 ELSE releases
        /\ UNCHANGED <<status, accepting, aborted, cut>>
    BY <1>3 DEF Wakes, Release
  <2>2. GoalInv' BY <1>2, <2>1, AcceptingKeepsGoal, SessionTyped DEF SessionInv
  <2>3. SessionTypeOK' BY <2>2, <2>1, SessionTyped, <1>2 DEF GoalInv, SessionTypeOK, SessionInv
  <2>4. AwaitInv' BY <1>2, <2>1 DEF SessionInv, AwaitInv
  <2>5. ReleaseInv' BY <1>1, <1>2, <2>1 DEF SessionInv, AwaitInv, ReleaseInv, InFlight
  <2>6. QED BY <2>1, <2>2, <2>3, <2>4, <2>5 DEF SessionInv
<1>4. CASE w.who = "drain" BY <1>1, <1>4, SessionTyped, <1>2, DoCloseKeeps DEF Wakes
<1>5. QED BY <1>2, <1>3, <1>4

-----------------------------------------------------------------------------

LEMMA SessionInitGivesInv ==
    ASSUME SessionInit
    PROVE  SessionInv
<1>1. GoalInv BY GoalInitGivesInv DEF SessionInit
<1>2. turns = << >> /\ accepting = TRUE BY DEF SessionInit, GoalInit
<1>3. SessionTypeOK
  <2>1. GoalTypeOK BY <1>1 DEF GoalInv
  <2>2. Len(turns) <= 1 BY <1>2
  <2>3. QED BY <1>2, <2>1, <2>2 DEF SessionTypeOK, SessionInit
<1>4. AwaitInv /\ ReleaseInv /\ ~cut BY <1>2 DEF AwaitInv, ReleaseInv, InFlight, SessionInit
<1>5. QED BY <1>1, <1>3, <1>4 DEF SessionInv

LEMMA SessionNextKeepsInv ==
    ASSUME SessionInv, ~LateEvents, [SessionNext]_sessionVars
    PROVE  SessionInv'
<1>1. CASE \E next \in {"thinking", "tool_executing"} : TurnEvent(next) BY <1>1, TurnEventKeeps
<1>2. CASE \E how \in {"completed", "failed"} : TurnSettles(how) BY <1>2, TurnSettlesKeeps
<1>3. CASE Close BY <1>3, DoCloseKeeps DEF Close
<1>4. CASE \E w \in waiting : Wakes(w) BY <1>4, WakesKeeps
<1>5. CASE UNCHANGED sessionVars
  <2>1. /\ accepting' = accepting
        /\ UNCHANGED <<engine, awaits, turns, provider, hostTurns, history, status, draining,
                       turnNo, aborted, waiting, releases, cut>>
    BY <1>5 DEF sessionVars, goalVars, execVars
  <2>2. GoalInv' BY <2>1, AcceptingKeepsGoal, SessionTyped DEF SessionInv
  <2>3. GoalTypeOK' BY <2>2 DEF GoalInv
  <2>4. SessionTypeOK' /\ AwaitInv' /\ ReleaseInv'
    BY <2>1, <2>3 DEF SessionInv, SessionTypeOK, AwaitInv, ReleaseInv, InFlight
  <2>5. QED BY <2>1, <2>2, <2>4 DEF SessionInv
<1>6. QED BY <1>1, <1>2, <1>3, <1>4, <1>5, GoalStepKeeps, InterruptKeeps, DrainKeeps DEF SessionNext

\* What a session holds is released once its last turn is over and none starts
\* afterwards, and no drain cuts a turn short, whatever the goal loop does when a turn
\* settles, when the executor forwards no event of a turn that was aborted
\* (exec-backed.ts: close, drain, run).
THEOREM SessionClosesQuietly ==
    ASSUME ~LateEvents
    PROVE  SessionSpec => []ClosesQuietly
<1>1. SessionInit => SessionInv BY SessionInitGivesInv
<1>2. SessionInv /\ [SessionNext]_sessionVars => SessionInv' BY SessionNextKeepsInv
<1>3. SessionInv => ClosesQuietly
  BY DEF SessionInv, ReleaseInv, InFlight, ClosesQuietly, ReleasedWhenQuiet, DrainCutsNothing
<1>4. QED BY <1>1, <1>2, <1>3, PTL DEF SessionSpec

\* The goal of a session that runs one turn at a time keeps its promises too: the
\* session's close, drain and interrupt leave its verdicts current and its end told once.
THEOREM SessionGoalIsTrue ==
    ASSUME ~LateEvents
    PROVE  SessionSpec => [](VerdictsAreCurrent /\ EndsInTime)
<1>1. SessionInit => SessionInv BY SessionInitGivesInv
<1>2. SessionInv /\ [SessionNext]_sessionVars => SessionInv' BY SessionNextKeepsInv
<1>3. SessionInv => VerdictsAreCurrent /\ EndsInTime BY GoalInvGives DEF SessionInv
<1>4. QED BY <1>1, <1>2, <1>3, PTL DEF SessionSpec

=============================================================================
