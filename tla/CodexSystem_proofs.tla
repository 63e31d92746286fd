-------------------------- MODULE CodexSystem_proofs --------------------------
(***************************************************************************)
(* Theorems about CodexSystem, for any number of sends and of turns.       *)
(*                                                                         *)
(* And about SavedHistories, where the sessions it leaves are found again, *)
(* for every finite set of sessions and every bound: a discovery that ends *)
(* without an error has told of every session that was there all the       *)
(* while, the newest of them if not all, and of none twice.                *)
(***************************************************************************)
EXTENDS CodexSystem, SavedHistories, SequenceTheorems, FiniteSetTheorems, TLAPS

Sent == {s \in Sends : result[s] # "unsent"}

Results == {"unsent", "pending", "early", "refused", "rejected", "delivered"}

\* The latch is that of the newest generation, or there is none.
LatchIsNewest ==
    /\ generation \in Nat /\ latch \in {0, generation} /\ terminal \in BOOLEAN
    /\ result \in [Sends -> Results]

\* A send has a generation once it is made, and knows the turns that were over by then.
SendsKnowTheirs ==
    /\ gen \in [Sends -> Nat] /\ before \in [Sends -> SUBSET Turns] /\ by \in [Sends -> Turns \cup {NoTurn}]
    /\ heard \subseteq Turns
    /\ \A s \in Sent : gen[s] \in 1..generation /\ before[s] \subseteq heard

\* What is written to the app-server.
Requests == [do : {"start"}, send : Sends] \cup [do : {"interrupt"}, gen : Nat, turn : Turns]

StdinIsSound ==
    /\ stdin \in Seq(Requests)
    /\ \A i \in DOMAIN stdin : stdin[i].do = "start" => stdin[i].send \in Sent

\* What the app-server writes.
Said ==
    UNION {[line : {"response"}, send : Sends, turn : Turns \cup {NoTurn}],
           [line : {"refused"}, send : Sends],
           [line : {"stopped"}, gen : Nat, ok : BOOLEAN],
           [line : {"started"}, turn : Turns],
           [line : {"ended"}, turn : Turns, scan : BOOLEAN],
           [line : Waits \cup {"item/started", "item/completed"}]}

StdoutIsSound ==
    /\ stdout \in Seq(Said)
    /\ owed \subseteq Sends /\ \A s \in owed : \E t \in Turns : s \in ran[t]

Ends == {i \in DOMAIN stdout : stdout[i].line = "ended"}

\* A turn runs sends that were made, and one that began runs one; a turn is over once, so
\* the end of a turn is heard once.
TurnsEndOnce ==
    /\ turn \in Turns \cup {NoTurn} /\ ran \in [Turns -> SUBSET Sent]
    /\ turn # NoTurn => ran[turn] # {}
    /\ \A i \in Ends : /\ stdout[i].turn \in Turns \ (heard \cup {turn})
                       /\ ran[stdout[i].turn] # {}
    /\ \A i, j \in Ends : stdout[i].turn = stdout[j].turn => i = j
    /\ \A t \in heard : t # turn /\ ran[t] # {}

\* A turn that was heard while a latch was held was new to every send of that latch, and
\* ran a send that is no younger.
IsNewTo(t, g) ==
    /\ \A s \in Sent : gen[s] = g => t \notin before[s]
    /\ \E r \in ran[t] : gen[r] <= g

Deliverable == [gen : Nat, turn : Turns, scan : BOOLEAN]

DeliveriesAreNew ==
    /\ deliveries \in Seq(Deliverable)
    /\ \A i \in DOMAIN deliveries :
          LET d == deliveries[i] IN
          /\ d.turn \in heard /\ d.gen <= generation
          /\ d.gen # 0 => (latch = d.gen => terminal) /\ IsNewTo(d.turn, d.gen)

SettledByNew ==
    \A s \in Sends : by[s] # NoTurn =>
        /\ result[s] = "delivered" /\ by[s] \in heard \ before[s]
        /\ \E r \in ran[by[s]] : gen[r] <= gen[s]

SessionInv == LatchIsNewest /\ SendsKnowTheirs /\ DeliveriesAreNew /\ SettledByNew

CodexInv == SessionInv /\ StdinIsSound /\ StdoutIsSound /\ TurnsEndOnce

-----------------------------------------------------------------------------
(* Facts about sequences.                                                  *)

LEMMA TailOf ==
    ASSUME NEW S, NEW q \in Seq(S), q # << >>
    PROVE  /\ Head(q) \in S /\ Head(q) = q[1] /\ Tail(q) \in Seq(S)
           /\ DOMAIN q = 1..Len(q) /\ DOMAIN Tail(q) = 1..(Len(q) - 1)
           /\ 1 \in DOMAIN q
           /\ \A i \in DOMAIN Tail(q) : i + 1 \in DOMAIN q /\ Tail(q)[i] = q[i + 1]
  OBVIOUS

LEMMA RemovedFrom ==
    ASSUME NEW S, NEW q \in Seq(S), NEW i \in DOMAIN q
    PROVE  /\ RemoveAt(q, i) \in Seq(S)
           /\ \A j \in DOMAIN RemoveAt(q, i) : \E k \in DOMAIN q : RemoveAt(q, i)[j] = q[k]
  <1> DEFINE l == SubSeq(q, 1, i - 1)
             r == SubSeq(q, i + 1, Len(q))
  <1>1. i \in 1..Len(q)  OBVIOUS
  <1>2. l \in Seq(S) /\ Len(l) = i - 1 /\ \A j \in 1..(i - 1) : l[j] = q[j]  BY <1>1
  <1>3. r \in Seq(S) /\ Len(r) = Len(q) - i /\ \A j \in 1..(Len(q) - i) : r[j] = q[i + j] BY <1>1
  <1>4. RemoveAt(q, i) = l \o r  BY DEF RemoveAt
  <1> HIDE DEF l, r
  <1>5. l \o r \in Seq(S) /\ DOMAIN (l \o r) = 1..(Len(q) - 1)  BY <1>1, <1>2, <1>3
  <1>6. ASSUME NEW j \in 1..(Len(q) - 1)  PROVE \E k \in DOMAIN q : (l \o r)[j] = q[k]
    <2>1. CASE j <= i - 1
      <3>1. (l \o r)[j] = q[j]  BY <1>1, <1>2, <1>3, <2>1
      <3> QED  BY <1>1, <2>1, <3>1
    <2>2. CASE j > i - 1
      <3>1. (l \o r)[j] = r[j - (i - 1)]  BY <1>1, <1>2, <1>3, <2>2
      <3>2. j - (i - 1) \in 1..(Len(q) - i)  BY <1>1, <2>2
      <3>3. r[j - (i - 1)] = q[i + (j - (i - 1))]  BY <1>3, <3>2
      <3> QED  BY <1>1, <2>2, <3>1, <3>2, <3>3
    <2> QED
      <3>1. j \in Int /\ i \in Int  BY <1>1
      <3>2. j <= i - 1 \/ j > i - 1  BY <3>1
      <3> QED  BY <2>1, <2>2, <3>2
  <1> QED  BY <1>4, <1>5, <1>6

-----------------------------------------------------------------------------
(* Steps of the session that leave the generations and the history alone.  *)

Quiet ==
    /\ UNCHANGED <<generation, gen, historyVars, deliveries>>
    /\ \/ UNCHANGED <<latch, terminal>>
       \/ latch' = 0 /\ terminal' = FALSE
    /\ result' \in [Sends -> Results]
    /\ \A s \in Sends : /\ result'[s] = "unsent" <=> result[s] = "unsent"
                        /\ result[s] = "delivered" => result'[s] = "delivered"

\* Turns are kept, with more sends in them perhaps.
RanGrows == \A t \in Turns : ran[t] \subseteq ran'[t]

LEMMA QuietKeeps == SessionInv /\ Quiet /\ RanGrows => SessionInv' /\ Sent' = Sent
  <1> SUFFICES ASSUME SessionInv, Quiet, RanGrows  PROVE SessionInv' /\ Sent' = Sent OBVIOUS
  <1> USE DEF SessionInv, Quiet
  <1>1. Sent' = Sent  BY DEF Sent
  <1>2. LatchIsNewest'  BY DEF LatchIsNewest
  <1>3. SendsKnowTheirs'  BY <1>1 DEF SendsKnowTheirs, historyVars
  <1>4. ASSUME NEW t \in Turns, NEW g \in Nat, IsNewTo(t, g)  PROVE IsNewTo(t, g)'
    BY <1>1, <1>4 DEF IsNewTo, RanGrows, historyVars
  <1>5. ASSUME NEW i \in DOMAIN deliveries, NEW t, NEW g,
               t = deliveries[i].turn, g = deliveries[i].gen
        PROVE  /\ t \in heard' /\ g <= generation'
               /\ g # 0 => (latch' = g => terminal') /\ IsNewTo(t, g)'
    <2>1. deliveries[i] \in Deliverable BY DEF DeliveriesAreNew
    <2>2. t \in Turns /\ g \in Nat  BY <1>5, <2>1 DEF Deliverable
    <2>3. /\ t \in heard /\ g <= generation
          /\ g # 0 => (latch = g => terminal) /\ IsNewTo(t, g)
      BY <1>5 DEF DeliveriesAreNew
    <2>4. g # 0 => (latch' = g => terminal')  BY <2>3
    <2>5. g # 0 => IsNewTo(t, g)'  BY <1>4, <2>2, <2>3
    <2> QED  BY <2>3, <2>4, <2>5 DEF historyVars
  <1>6. DeliveriesAreNew'  BY <1>5 DEF DeliveriesAreNew
  <1>7. SettledByNew'
    <2> SUFFICES ASSUME NEW s \in Sends, by[s] # NoTurn
                 PROVE  /\ result'[s] = "delivered" /\ by[s] \in heard \ before[s]
                        /\ \E r \in ran'[by[s]] : gen[r] <= gen[s]
      BY DEF SettledByNew, historyVars
    <2>1. by[s] \in Turns  BY DEF SendsKnowTheirs
    <2>2. PICK r \in ran[by[s]] : gen[r] <= gen[s]  BY DEF SettledByNew
    <2> QED  BY <2>1, <2>2 DEF SettledByNew, RanGrows
  <1> QED  BY <1>1, <1>2, <1>3, <1>6, <1>7

-----------------------------------------------------------------------------
(* send(), the end of a turn and its delivery.                             *)

RanIsSent == ran \in [Turns -> SUBSET Sent]

LEMMA SendKeeps ==
    ASSUME SessionInv, RanIsSent, NEW s \in Sends, Send(s), UNCHANGED ran
    PROVE  SessionInv' /\ Sent' = Sent \cup {s}
  <1> DEFINE g == IF CanJoin THEN latch ELSE generation + 1
  <1> USE DEF SessionInv
  <1>0. generation \in Nat /\ latch \in {0, generation} /\ terminal \in BOOLEAN
        /\ result \in [Sends -> Results]
    BY DEF LatchIsNewest
  <1>1. /\ result[s] = "unsent" /\ gen' = [gen EXCEPT ![s] = g]
        /\ before' = [before EXCEPT ![s] = heard]
        /\ heard' = heard /\ by' = by /\ deliveries' = deliveries
        /\ result' = [o \in Sends |-> IF o \in {s} THEN "pending" ELSE result[o]]
    BY DEF Send, Settled
  <1>2. \/ CanJoin /\ g = latch /\ UNCHANGED <<latch, generation, terminal>>
        \/ ~CanJoin /\ g = generation + 1 /\ latch' = g /\ generation' = g /\ terminal' = FALSE
    BY DEF Send
  <1>3. g \in 1..generation' /\ generation' \in Nat /\ generation <= generation' BY <1>0, <1>2 DEF CanJoin
  <1>4. Sent' = Sent \cup {s} /\ s \notin Sent  BY <1>1 DEF Sent
  <1>5. LatchIsNewest' BY <1>0, <1>1, <1>2, <1>3 DEF Results, LatchIsNewest
  <1> HIDE DEF g
  <1>6. /\ gen \in [Sends -> Nat] /\ before \in [Sends -> SUBSET Turns] /\ heard \subseteq Turns
        /\ by \in [Sends -> Turns \cup {NoTurn}]
        /\ \A o \in Sent : gen[o] \in 1..generation /\ before[o] \subseteq heard
    BY DEF SendsKnowTheirs
  <1>7. \A o \in Sent : gen'[o] = gen[o] /\ before'[o] = before[o] /\ result'[o] = result[o]
    BY <1>1, <1>4, <1>6 DEF Sent
  <1>8. gen'[s] = g /\ before'[s] = heard  BY <1>1, <1>6
  <1>9. SendsKnowTheirs'
    <2>1. gen' \in [Sends -> Nat] /\ before' \in [Sends -> SUBSET Turns] BY <1>1, <1>3, <1>6
    <2>2. ASSUME NEW o \in Sent'  PROVE gen'[o] \in 1..generation' /\ before'[o] \subseteq heard'
      <3>1. CASE o = s  BY <1>1, <1>3, <1>8, <3>1
      <3>2. CASE o \in Sent BY <1>6, <3>2, <1>0, <1>3, <1>1, <1>7
      <3> QED  BY <1>4, <2>2, <3>1, <3>2
    <2> QED  BY <1>1, <1>6, <2>1, <2>2 DEF SendsKnowTheirs
  <1>10. \A t \in Turns : ran[t] \subseteq Sent  BY DEF RanIsSent
  <1>11. ASSUME NEW i \in DOMAIN deliveries, NEW t, NEW h,
                t = deliveries[i].turn, h = deliveries[i].gen
         PROVE  /\ t \in heard' /\ h <= generation'
                /\ h # 0 => (latch' = h => terminal') /\ IsNewTo(t, h)'
    <2>1. deliveries[i] \in Deliverable BY DEF DeliveriesAreNew
    <2>2. t \in Turns /\ h \in Nat  BY <1>11, <2>1 DEF Deliverable
    <2>3. /\ t \in heard /\ h <= generation
          /\ h # 0 => (latch = h => terminal) /\ IsNewTo(t, h)
      BY <1>11 DEF DeliveriesAreNew
    <2>4. h <= generation'  BY <1>0, <1>3, <2>2, <2>3
    <2>5. h # 0 => h # g BY <1>0, <1>2, <2>2, <2>3 DEF CanJoin
    <2>6. h # 0 => (latch' = h => terminal')  BY <1>2, <2>3, <2>5
    <2>7. ASSUME h # 0  PROVE IsNewTo(t, h)'
      <3>1. \A o \in Sent : gen[o] = h => t \notin before[o]  BY <2>3, <2>7 DEF IsNewTo
      <3>2. PICK r \in ran[t] : gen[r] <= h  BY <2>3, <2>7 DEF IsNewTo
      <3>3. r \in Sent /\ r \in ran'[t] /\ gen'[r] <= h  BY <1>7, <1>10, <2>2, <3>2
      <3>4. \A o \in Sent' : gen'[o] = h => t \notin before'[o] BY <1>4, <1>7, <1>8, <2>5, <2>7, <3>1
      <3> QED  BY <3>3, <3>4 DEF IsNewTo
    <2> QED  BY <1>1, <2>3, <2>4, <2>6, <2>7
  <1>12. DeliveriesAreNew' BY <1>1, <1>11 DEF DeliveriesAreNew
  <1>13. SettledByNew'
    <2> SUFFICES ASSUME NEW o \in Sends, by'[o] # NoTurn
                 PROVE  /\ result'[o] = "delivered" /\ by'[o] \in heard' \ before'[o]
                        /\ \E r \in ran'[by'[o]] : gen'[r] <= gen'[o]
      BY DEF SettledByNew
    <2>1. result[o] = "delivered" /\ by[o] \in heard \ before[o] /\ by[o] \in Turns
      BY <1>1, <1>6 DEF SettledByNew
    <2>2. PICK r \in ran[by[o]] : gen[r] <= gen[o]  BY <1>1 DEF SettledByNew
    <2>3. o \in Sent /\ r \in Sent  BY <1>10, <2>1, <2>2 DEF Sent
    <2> QED  BY <1>1, <1>7, <2>1, <2>2, <2>3
  <1> QED  BY <1>4, <1>5, <1>9, <1>12, <1>13

LEMMA EndKeeps ==
    ASSUME SessionInv, RanIsSent, NEW t \in Turns \ heard, NEW behind \in BOOLEAN, ran[t] # {},
           TurnEnds(t, behind), state # "closed", UNCHANGED ran
    PROVE  SessionInv' /\ Sent' = Sent
  <1> USE DEF SessionInv
  <1> DEFINE d == [gen |-> latch, turn |-> t, scan |-> behind]
  <1>0. generation \in Nat /\ latch \in {0, generation} /\ result \in [Sends -> Results] BY DEF LatchIsNewest
  <1>1. /\ terminal' = TRUE /\ deliveries' = Append(deliveries, d) /\ heard' = heard \cup {t}
        /\ UNCHANGED <<latch, generation, gen, result, before, by>>
    BY DEF TurnEnds
  <1>2. Sent' = Sent  BY <1>1 DEF Sent
  <1>3. LatchIsNewest'  BY <1>0, <1>1 DEF LatchIsNewest
  <1>4. SendsKnowTheirs'  BY <1>1, <1>2 DEF SendsKnowTheirs
  <1>5. deliveries \in Seq(Deliverable)  BY DEF DeliveriesAreNew
  <1>6. d \in Deliverable  BY <1>0 DEF Deliverable
  <1>7. IsNewTo(t, latch)' \/ latch = 0
    <2> SUFFICES ASSUME latch # 0  PROVE IsNewTo(t, latch)'  OBVIOUS
    <2>1. \A o \in Sent : t \notin before[o]  BY DEF SendsKnowTheirs
    <2>2. PICK r \in ran[t] : TRUE  OBVIOUS
    <2>3. r \in Sent  BY <2>2 DEF RanIsSent
    <2>4. gen[r] <= latch  BY <1>0, <2>3 DEF SendsKnowTheirs
    <2> QED  BY <1>1, <1>2, <2>1, <2>2, <2>4 DEF IsNewTo
  <1>8. ASSUME NEW u, NEW g, IsNewTo(u, g)  PROVE IsNewTo(u, g)' BY <1>1, <1>2, <1>8 DEF IsNewTo
  <1>9. \A i \in DOMAIN deliveries :
           /\ deliveries[i].turn \in heard' /\ deliveries[i].gen <= generation'
           /\ deliveries[i].gen # 0 => /\ latch' = deliveries[i].gen => terminal'
                                       /\ IsNewTo(deliveries[i].turn, deliveries[i].gen)
    BY <1>1 DEF DeliveriesAreNew
  <1> HIDE DEF d
  <1>10. ASSUME NEW i \in DOMAIN deliveries', NEW u, NEW g,
                u = deliveries'[i].turn, g = deliveries'[i].gen
         PROVE  /\ u \in heard' /\ g <= generation'
                /\ g # 0 => (latch' = g => terminal') /\ IsNewTo(u, g)'
    <2>1. CASE i \in DOMAIN deliveries BY <1>1, <1>5, <1>6, <2>1, <1>8, <1>9, <1>10
    <2>2. CASE i \notin DOMAIN deliveries BY <1>1, <1>5, <1>6, <2>2, <1>10, <1>0, <1>7 DEF d
    <2> QED  BY <2>1, <2>2
  <1>11. DeliveriesAreNew' BY <1>1, <1>5, <1>6, <1>10 DEF DeliveriesAreNew
  <1>12. SettledByNew'  BY <1>1 DEF SettledByNew
  <1> QED  BY <1>2, <1>3, <1>4, <1>11, <1>12

LEMMA DeliverKeeps ==
    ASSUME SessionInv, NEW i \in DOMAIN deliveries, Deliver(i), UNCHANGED ran
    PROVE  SessionInv' /\ Sent' = Sent
  <1> USE DEF SessionInv
  <1> DEFINE d == deliveries[i]
  <1>0. generation \in Nat /\ latch \in {0, generation} /\ result \in [Sends -> Results]
        /\ terminal \in BOOLEAN
    BY DEF LatchIsNewest
  <1>1. deliveries \in Seq(Deliverable)  BY DEF DeliveriesAreNew
  <1>2. d \in Deliverable  BY <1>1
  <1>3. UNCHANGED <<generation, gen, heard, before>> /\ deliveries' = RemoveAt(deliveries, i) BY DEF Deliver
  <1>4. \/ UNCHANGED <<latch, terminal>>
        \/ latch' = 0 /\ terminal' = FALSE
    BY DEF Deliver, ClearLatch
  <1>5. \/ UNCHANGED <<result, by>>
        \/ /\ result' = [o \in Sends |-> IF o \in Taken(d) THEN "delivered" ELSE result[o]]
           /\ by' = [o \in Sends |-> IF o \in Taken(d) THEN d.turn ELSE by[o]]
    BY DEF Deliver, Settled
  <1>6. /\ d.turn \in heard /\ d.turn \in Turns
        /\ d.gen # 0 => IsNewTo(d.turn, d.gen)
    BY <1>2 DEF DeliveriesAreNew, Deliverable
  <1>7. \A o \in Taken(d) : o \in Sent /\ result[o] = "pending" /\ gen[o] = d.gen /\ gen[o] # 0
    BY <1>0 DEF Taken, Pending, Sent, SendsKnowTheirs
  <1> HIDE DEF d
  <1>8. /\ result' \in [Sends -> Results]
        /\ \A o \in Sends : result'[o] = "unsent" <=> result[o] = "unsent"
    BY <1>0, <1>5, <1>7 DEF Results
  <1>9. Sent' = Sent  BY <1>8 DEF Sent
  <1>10. LatchIsNewest'  BY <1>0, <1>3, <1>4, <1>8 DEF LatchIsNewest
  <1>11. SendsKnowTheirs' BY <1>5, <1>6, <1>3, <1>9 DEF SendsKnowTheirs
  <1>12. ASSUME NEW u, NEW g, IsNewTo(u, g)  PROVE IsNewTo(u, g)' BY <1>3, <1>9, <1>12 DEF IsNewTo
  <1>13. ASSUME NEW j \in DOMAIN deliveries', NEW u, NEW g,
                u = deliveries'[j].turn, g = deliveries'[j].gen
         PROVE  /\ u \in heard' /\ g <= generation'
                /\ g # 0 => (latch' = g => terminal') /\ IsNewTo(u, g)'
    <2>1. PICK k \in DOMAIN deliveries : deliveries'[j] = deliveries[k] BY <1>1, <1>3, RemovedFrom
    <2>2. /\ u \in heard /\ g <= generation
          /\ g # 0 => (latch = g => terminal) /\ IsNewTo(u, g)
      BY <1>13, <2>1 DEF DeliveriesAreNew
    <2> QED  BY <1>3, <1>4, <1>12, <2>2
  <1>14. DeliveriesAreNew' BY <1>1, <1>3, RemovedFrom, <1>13 DEF DeliveriesAreNew
  <1>15. ASSUME NEW o \in Sends, by'[o] # NoTurn
         PROVE  /\ result'[o] = "delivered" /\ by'[o] \in heard' \ before'[o]
                /\ \E r \in ran'[by'[o]] : gen'[r] <= gen'[o]
    <2>1. CASE by'[o] = by[o] /\ by[o] # NoTurn BY <2>1, <1>5, <1>3 DEF SettledByNew
    <2>2. CASE o \in Taken(d) /\ by'[o] = d.turn /\ result'[o] = "delivered"
      BY <1>6, <1>7, <2>2, <1>3 DEF IsNewTo
    <2> QED  BY <1>5, <1>15, <2>1, <2>2
  <1>16. SettledByNew'  BY <1>15 DEF SettledByNew
  <1> QED  BY <1>9, <1>10, <1>11, <1>14, <1>16

-----------------------------------------------------------------------------
(* The other steps of the session.                                         *)

\* Nothing is sent but the request to interrupt, and what was read goes.
StdinStep ==
    \/ stdin' = stdin
    \/ stdin # << >> /\ stdin' = Tail(stdin)
    \/ \E g \in Nat, t \in Turns : stdin' = Append(stdin, [do |-> "interrupt", gen |-> g, turn |-> t])

LEMMA StdinKeeps == StdinIsSound /\ StdinStep /\ Sent' = Sent => StdinIsSound'
  <1> SUFFICES ASSUME StdinIsSound, StdinStep, Sent' = Sent  PROVE StdinIsSound' OBVIOUS
  <1>0. /\ stdin \in Seq(Requests)
        /\ \A i \in DOMAIN stdin : stdin[i].do = "start" => stdin[i].send \in Sent
    BY DEF StdinIsSound
  <1>1. CASE stdin' = stdin  BY <1>0, <1>1 DEF StdinIsSound
  <1>2. CASE stdin # << >> /\ stdin' = Tail(stdin) BY <1>0, <1>2, TailOf DEF StdinIsSound
  <1>3. ASSUME NEW g \in Nat, NEW t \in Turns,
               stdin' = Append(stdin, [do |-> "interrupt", gen |-> g, turn |-> t])
        PROVE  StdinIsSound'
    <2> DEFINE r == [do |-> "interrupt", gen |-> g, turn |-> t]
    <2>1. r \in Requests /\ r.do = "interrupt"  BY DEF Requests
    <2> HIDE DEF r
    <2>2. stdin' = Append(stdin, r)  BY <1>3 DEF r
    <2>3. stdin' \in Seq(Requests)  BY <1>0, <2>1, <2>2
    <2>4. ASSUME NEW i \in DOMAIN stdin', stdin'[i].do = "start"  PROVE stdin'[i].send \in Sent
      BY <1>0, <2>1, <2>2, <2>4
    <2> QED  BY <2>3, <2>4 DEF StdinIsSound
  <1> QED  BY <1>1, <1>2, <1>3 DEF StdinStep

LEMMA SendWrites ==
    ASSUME StdinIsSound, NEW s \in Sends, Send(s), Sent' = Sent \cup {s}
    PROVE  StdinIsSound'
  <1> DEFINE r == [do |-> "start", send |-> s]
  <1>1. r \in Requests /\ r.send = s  BY DEF Requests
  <1>2. stdin' = Append(stdin, r)  BY DEF Send, Write
  <1> HIDE DEF r
  <1>3. /\ stdin \in Seq(Requests)
        /\ \A i \in DOMAIN stdin : stdin[i].do = "start" => stdin[i].send \in Sent
    BY DEF StdinIsSound
  <1>4. stdin' \in Seq(Requests)  BY <1>1, <1>2, <1>3
  <1>5. ASSUME NEW i \in DOMAIN stdin', stdin'[i].do = "start"  PROVE stdin'[i].send \in Sent'
    BY <1>1, <1>2, <1>3, <1>5
  <1> QED  BY <1>4, <1>5 DEF StdinIsSound

\* The sends that a step of the session settles were waiting, and it does not deliver them.
LEMMA SettledIsQuiet ==
    ASSUME LatchIsNewest, NEW ss \in SUBSET Pending,
           NEW how \in {"early", "refused", "rejected"}, result' = Settled(ss, how)
    PROVE  /\ result' \in [Sends -> Results]
           /\ \A s \in Sends : /\ result'[s] = "unsent" <=> result[s] = "unsent"
                               /\ result[s] = "delivered" => result'[s] = "delivered"
  BY DEF LatchIsNewest, Settled, Pending, Results

LEMMA RejectionIsQuiet ==
    ASSUME LatchIsNewest, RejectAllPending, UNCHANGED <<historyVars, deliveries>>
    PROVE  Quiet
  <1>1. /\ result' \in [Sends -> Results]
        /\ \A s \in Sends : /\ result'[s] = "unsent" <=> result[s] = "unsent"
                            /\ result[s] = "delivered" => result'[s] = "delivered"
    BY SettledIsQuiet DEF RejectAllPending, Rejected
  <1> QED  BY <1>1 DEF RejectAllPending, ClearLatch, Quiet

LEMMA InterruptWrites ==
    ASSUME LatchIsNewest, DoInterrupt
    PROVE  StdinStep
  BY DEF DoInterrupt, Write, StdinStep, LatchIsNewest

Tame == Quiet /\ StdinStep

LEMMA AnswersAreTame ==
    ASSUME LatchIsNewest, NEW s, NEW t, StartAnswered(s, t) \/ StartRefused(s)
    PROVE  Tame
  <1>0. result \in [Sends -> Results]  BY DEF LatchIsNewest
  <1>1. CASE StartAnswered(s, t)  BY <1>0, <1>1 DEF StartAnswered, Tame, Quiet, StdinStep
  <1>2. CASE StartRefused(s) BY <1>2, SettledIsQuiet DEF StartRefused, ClearLatch, Tame, Quiet, StdinStep
  <1> QED  BY <1>1, <1>2

LEMMA NoticesAreTame ==
    ASSUME LatchIsNewest, NEW t, NEW ok, NEW g, NEW now, NEW w,
           \/ StopAnswered(g, ok) \/ TurnStarted(t) \/ Item(now) \/ Asked(w)
    PROVE  Tame
  <1>0. result \in [Sends -> Results]  BY DEF LatchIsNewest
  <1>1. CASE StopAnswered(g, ok) BY <1>0, <1>1 DEF StopAnswered, turnVars, Tame, Quiet, StdinStep
  <1>2. CASE TurnStarted(t)  BY <1>0, <1>2 DEF TurnStarted, Tame, Quiet, StdinStep
  <1>3. CASE Item(now)  BY <1>0, <1>3 DEF Item, turnVars, Tame, Quiet, StdinStep
  <1>4. CASE Asked(w)  BY <1>0, <1>4 DEF Asked, turnVars, Tame, Quiet, StdinStep
  <1> QED  BY <1>1, <1>2, <1>3, <1>4

LEMMA CallsAreTame ==
    ASSUME LatchIsNewest, NEW s, NEW g, NEW w,
           \/ Interrupt \/ StopWakes(g) \/ SettleEarly(s) \/ Answered(w)
           \/ Close \/ Drain \/ DrainCloses \/ ProcessExit
    PROVE  Tame
  <1>0. result \in [Sends -> Results]  BY DEF LatchIsNewest
  <1>1. CASE Interrupt BY <1>0, <1>1, InterruptWrites DEF Interrupt, turnVars, Tame, Quiet
  <1>2. CASE StopWakes(g) BY <1>2, InterruptWrites, <1>0 DEF StopWakes, StdinStep, turnVars, Tame, Quiet
  <1>3. CASE SettleEarly(s)
    BY <1>3, InterruptWrites, SettledIsQuiet DEF SettleEarly, StdinStep, turnVars, Tame, Quiet
  <1>4. CASE Answered(w)  BY <1>0, <1>4 DEF Answered, turnVars, Tame, Quiet, StdinStep
  <1>5. CASE Close BY <1>5, RejectionIsQuiet DEF Close, DoClose, Tame, StdinStep
  <1>6. CASE Drain  BY <1>0, <1>6 DEF Drain, turnVars, Tame, Quiet, StdinStep
  <1>7. CASE DrainCloses BY <1>7, RejectionIsQuiet DEF DrainCloses, DoClose, Tame, StdinStep
  <1>8. CASE ProcessExit
    <2>1. CASE state = "closed" BY <1>0, <1>8, <2>1 DEF ProcessExit, turnVars, Tame, Quiet, StdinStep
    <2>2. CASE state # "closed" BY <1>8, <2>2, RejectionIsQuiet DEF ProcessExit, Tame, StdinStep
    <2> QED  BY <2>1, <2>2
  <1> QED  BY <1>1, <1>2, <1>3, <1>4, <1>5, <1>6, <1>7, <1>8

-----------------------------------------------------------------------------
(* The lines of the app-server.                                            *)

\* The ends that are to be heard were there before, k places later.
NoNewEnd(k) ==
    \A i \in Ends' : i + k \in Ends /\ stdout'[i].turn = stdout[i + k].turn

LEMMA TurnsKeep ==
    ASSUME TurnsEndOnce, StdoutIsSound, NEW k \in Nat, NoNewEnd(k), StdoutIsSound',
           UNCHANGED <<turn, ran, heard>>, Sent \subseteq Sent'
    PROVE  TurnsEndOnce'
  <1>1. ran' \in [Turns -> SUBSET Sent']  BY DEF TurnsEndOnce
  <1>2. \A i \in Ends' : /\ stdout'[i].turn \in Turns \ (heard' \cup {turn'})
                         /\ ran'[stdout'[i].turn] # {}
    BY DEF TurnsEndOnce, NoNewEnd
  <1>3. \A i, j \in Ends' : stdout'[i].turn = stdout'[j].turn => i = j
    <2> SUFFICES ASSUME NEW i \in Ends', NEW j \in Ends', stdout'[i].turn = stdout'[j].turn
                 PROVE i = j
      OBVIOUS
    <2>1. i + k = j + k  BY DEF TurnsEndOnce, NoNewEnd
    <2>2. i \in Nat /\ j \in Nat BY DEF StdoutIsSound, Ends
    <2> QED  BY <2>1, <2>2
  <1>4. /\ turn' \in Turns \cup {NoTurn} /\ (turn' # NoTurn => ran'[turn'] # {})
        /\ \A t \in heard' : t # turn' /\ ran'[t] # {}
    BY DEF TurnsEndOnce
  <1> QED  BY <1>1, <1>2, <1>3, <1>4 DEF TurnsEndOnce

\* A line is handled.
LEMMA LineGoes ==
    ASSUME StdoutIsSound, stdout # << >>, stdout' = Tail(stdout), UNCHANGED <<owed, ran>>
    PROVE  StdoutIsSound' /\ NoNewEnd(1) /\ Head(stdout) \in Said /\ Head(stdout) = stdout[1]
           /\ 1 \in DOMAIN stdout /\ Ends' \subseteq Nat \ {0}
  <1>0. stdout \in Seq(Said)  BY DEF StdoutIsSound
  <1>1. /\ Head(stdout) \in Said /\ Head(stdout) = stdout[1] /\ stdout' \in Seq(Said)
        /\ 1 \in DOMAIN stdout /\ DOMAIN (stdout') = 1..(Len(stdout) - 1)
        /\ \A i \in DOMAIN (stdout') : i + 1 \in DOMAIN stdout /\ stdout'[i] = stdout[i + 1]
    BY <1>0, TailOf
  <1>2. StdoutIsSound'  BY <1>1 DEF StdoutIsSound
  <1>3. NoNewEnd(1)  BY <1>1 DEF NoNewEnd, Ends
  <1>4. Ends' \subseteq Nat \ {0}  BY <1>1 DEF Ends
  <1> QED  BY <1>1, <1>2, <1>3, <1>4

\* Lines are written.
LEMMA LinesCome ==
    ASSUME StdoutIsSound, NEW lines \in Seq(Said), Say(lines),
           owed' \subseteq Sends, \A s \in owed' : \E t \in Turns : s \in ran'[t]
    PROVE  /\ StdoutIsSound'
           /\ \A i \in Ends' :
                 \/ i \in Ends /\ stdout'[i] = stdout[i]
                 \/ \E j \in DOMAIN lines : /\ i = Len(stdout) + j /\ stdout'[i] = lines[j]
                                            /\ lines[j].line = "ended"
           /\ Ends \subseteq 1..Len(stdout) /\ Len(stdout) \in Nat
  <1>0. stdout \in Seq(Said)  BY DEF StdoutIsSound
  <1>1. stdout' = stdout \o lines  BY DEF Say
  <1>2. stdout' \in Seq(Said)  BY <1>0, <1>1
  <1>3. StdoutIsSound'  BY <1>2 DEF StdoutIsSound
  <1>4. ASSUME NEW i \in Ends'
        PROVE  \/ i \in Ends /\ stdout'[i] = stdout[i]
               \/ \E j \in DOMAIN lines : /\ i = Len(stdout) + j /\ stdout'[i] = lines[j]
                                          /\ lines[j].line = "ended"
    <2>0. i \in DOMAIN (stdout') /\ stdout'[i].line = "ended"  BY DEF Ends
    <2>1. i \in 1..(Len(stdout) + Len(lines)) BY <1>0, <1>1, <2>0
    <2>2. CASE i <= Len(stdout) BY <1>0, <1>1, <2>1, <2>2, <2>0 DEF Ends
    <2>3. CASE i > Len(stdout)
      <3> DEFINE j == i - Len(stdout)
      <3>1. j \in DOMAIN lines /\ i = Len(stdout) + j  BY <1>0, <2>1, <2>3
      <3>2. stdout'[i] = lines[j]  BY <1>0, <1>1, <2>1, <2>3
      <3> QED  BY <2>0, <3>1, <3>2
    <2>4. i \in Int /\ Len(stdout) \in Int  BY <1>0, <2>1
    <2> QED  BY <2>2, <2>3, <2>4
  <1>5. Ends \subseteq 1..Len(stdout) /\ Len(stdout) \in Nat  BY <1>0 DEF Ends
  <1> QED  BY <1>3, <1>4, <1>5

\* What it writes while the turns stay as they are ends none.
LEMMA WordsKeep ==
    ASSUME TurnsEndOnce, StdoutIsSound, NEW lines \in Seq(Said), Say(lines),
           \A j \in DOMAIN lines : lines[j].line # "ended",
           owed' \subseteq owed, UNCHANGED <<turn, ran, heard>>, Sent \subseteq Sent'
    PROVE  TurnsEndOnce' /\ StdoutIsSound'
  <1>1. owed' \subseteq Sends /\ \A s \in owed' : \E t \in Turns : s \in ran'[t] BY DEF StdoutIsSound
  <1>2. /\ StdoutIsSound' /\ Ends \subseteq 1..Len(stdout) /\ Len(stdout) \in Nat
        /\ \A i \in Ends' : i \in Ends /\ stdout'[i] = stdout[i]
    BY <1>1, LinesCome
  <1>3. NoNewEnd(0) BY <1>2 DEF NoNewEnd
  <1> QED  BY <1>2, <1>3, TurnsKeep

\* The turn that runs ends, and is said to.
LEMMA EndComes ==
    ASSUME TurnsEndOnce, StdoutIsSound, NEW lines \in Seq(Said), Say(lines), turn # NoTurn,
           \A j \in DOMAIN lines : lines[j].line = "ended" => lines[j].turn = turn /\ j = Len(lines),
           turn' = NoTurn, heard \subseteq Turns, UNCHANGED <<owed, ran, heard>>, Sent \subseteq Sent'
    PROVE  TurnsEndOnce' /\ StdoutIsSound'
  <1>1. owed' \subseteq Sends /\ \A s \in owed' : \E t \in Turns : s \in ran'[t] BY DEF StdoutIsSound
  <1>2. /\ StdoutIsSound'
        /\ \A i \in Ends' : \/ i \in Ends /\ stdout'[i] = stdout[i]
                            \/ i = Len(stdout) + Len(lines) /\ stdout'[i].turn = turn
    <2>1. /\ StdoutIsSound'
          /\ \A i \in Ends' :
                \/ i \in Ends /\ stdout'[i] = stdout[i]
                \/ \E j \in DOMAIN lines : /\ i = Len(stdout) + j /\ stdout'[i] = lines[j]
                                           /\ lines[j].line = "ended"
      BY <1>1, LinesCome
    <2>2. ASSUME NEW i \in Ends'
          PROVE  \/ i \in Ends /\ stdout'[i] = stdout[i]
                 \/ i = Len(stdout) + Len(lines) /\ stdout'[i].turn = turn
      <3>1. CASE i \in Ends /\ stdout'[i] = stdout[i]  BY <3>1
      <3>2. ASSUME NEW j \in DOMAIN lines, i = Len(stdout) + j, stdout'[i] = lines[j],
                   lines[j].line = "ended"
            PROVE  i = Len(stdout) + Len(lines) /\ stdout'[i].turn = turn
        BY <3>2
      <3> QED  BY <2>1, <3>1, <3>2
    <2> QED  BY <2>1, <2>2
  <1>3. /\ ran \in [Turns -> SUBSET Sent] /\ turn \in Turns /\ ran[turn] # {}
        /\ \A i \in Ends : /\ stdout[i].turn \in Turns \ (heard \cup {turn})
                           /\ ran[stdout[i].turn] # {}
        /\ \A i, j \in Ends : stdout[i].turn = stdout[j].turn => i = j
        /\ \A t \in heard : t # turn /\ ran[t] # {}
    BY DEF TurnsEndOnce
  <1>4. NoTurn \notin Turns  BY SessionAssumption
  <1>5. turn \notin heard  BY <1>3
  <1>6. ASSUME NEW i \in Ends'
        PROVE  stdout'[i].turn \in Turns \ (heard' \cup {turn'}) /\ ran'[stdout'[i].turn] # {}
    BY <1>2, <1>3, <1>4, <1>5
  <1>7. ASSUME NEW i \in Ends', NEW j \in Ends', stdout'[i].turn = stdout'[j].turn  PROVE i = j
    BY <1>2, <1>3, <1>7
  <1>8. \A t \in heard' : t # turn' /\ ran'[t] # {}  BY <1>3, <1>4
  <1> QED  BY <1>2, <1>3, <1>6, <1>7, <1>8 DEF TurnsEndOnce

-----------------------------------------------------------------------------
(* Every step keeps the invariant.                                         *)

LEMMA TameKeeps ==
    ASSUME CodexInv, Tame, RanGrows
    PROVE  SessionInv' /\ StdinIsSound' /\ Sent' = Sent
  BY QuietKeeps, StdinKeeps DEF CodexInv, Tame

LEMMA SessionRests == LatchIsNewest /\ UNCHANGED vars => Tame
  BY DEF LatchIsNewest, vars, turnVars, Tame, Quiet, StdinStep

\* A line of stdin.
LEMMA ReadsFrom ==
    ASSUME LatchIsNewest, StdinIsSound, NEW do, Reads(do)
    PROVE  /\ Tame /\ UNCHANGED heard
           /\ Head(stdin) \in Requests /\ Head(stdin).do = do
           /\ do = "start" => Head(stdin).send \in Sent
  <1>1. stdin \in Seq(Requests) /\ stdin # << >>  BY DEF StdinIsSound, Reads
  <1>2. Head(stdin) \in Requests /\ Head(stdin) = stdin[1] /\ 1 \in DOMAIN stdin BY <1>1, TailOf
  <1>3. Tame /\ UNCHANGED heard BY DEF Reads, LatchIsNewest, turnVars, historyVars, Tame, Quiet, StdinStep
  <1>4. Head(stdin).do = do  BY DEF Reads
  <1>5. do = "start" => Head(stdin).send \in Sent  BY <1>2, <1>4 DEF StdinIsSound
  <1> QED  BY <1>2, <1>3, <1>4, <1>5

LEMMA StartsKeep ==
    ASSUME CodexInv, NEW told \in BOOLEAN, ServerStarts(told)
    PROVE  CodexInv'
  <1> DEFINE m == Head(stdin).send
             t == IF turn = NoTurn THEN CHOOSE u \in Turns : ran[u] = {} ELSE turn
             lines == IF told /\ turn = NoTurn THEN <<[line |-> "started", turn |-> t]>> ELSE << >>
  <1> USE DEF CodexInv
  <1>1. LatchIsNewest /\ heard \subseteq Turns  BY DEF SessionInv, SendsKnowTheirs
  <1>2. Tame /\ UNCHANGED heard /\ m \in Sent  BY <1>1, ReadsFrom DEF ServerStarts
  <1>3. /\ ran' = [ran EXCEPT ![t] = @ \cup {m}] /\ owed' = owed \cup {m} /\ turn' = t
        /\ Say(lines) /\ (turn = NoTurn => \E u \in Turns : ran[u] = {})
    BY DEF ServerStarts
  <1>4. ran \in [Turns -> SUBSET Sent]  BY DEF TurnsEndOnce
  <1>5. t \in Turns /\ (turn = NoTurn => ran[t] = {}) BY <1>3 DEF TurnsEndOnce
  <1>6. lines \in Seq(Said) /\ \A j \in DOMAIN lines : lines[j].line # "ended"
    <2>1. CASE told /\ turn = NoTurn
      <3> DEFINE l == [line |-> "started", turn |-> t]
      <3>1. l \in Said /\ l.line # "ended"  BY <1>5 DEF Said
      <3>2. lines = <<l>>  BY <2>1
      <3> HIDE DEF l, lines
      <3>3. lines \in Seq(Said) /\ DOMAIN lines = {1} /\ lines[1] = l  BY <3>1, <3>2
      <3> QED  BY <3>1, <3>3
    <2>2. CASE ~(told /\ turn = NoTurn)
      <3>1. lines = << >>  BY <2>2
      <3>2. << >> \in Seq(Said) /\ Len(<< >>) = 0  OBVIOUS
      <3> HIDE DEF lines
      <3>3. lines \in Seq(Said) /\ Len(lines) = 0  BY <3>1, <3>2
      <3>4. DOMAIN lines = 1..0  BY <3>3
      <3> QED  BY <3>3, <3>4
    <2> QED  BY <2>1, <2>2
  <1> HIDE DEF t, lines, m
  <1>7. RanGrows /\ m \in ran'[t]  BY <1>3, <1>4, <1>5 DEF RanGrows
  <1>8. SessionInv' /\ StdinIsSound' /\ Sent' = Sent  BY <1>2, <1>7, TameKeeps
  <1>9. owed' \subseteq Sends /\ \A o \in owed' : \E u \in Turns : o \in ran'[u]
    <2>1. m \in Sends  BY <1>2 DEF Sent
    <2>2. ASSUME NEW o \in owed'  PROVE \E u \in Turns : o \in ran'[u]
      <3>1. CASE o = m  BY <1>5, <1>7, <3>1
      <3>2. CASE o \in owed  BY <1>7, <3>2 DEF StdoutIsSound, RanGrows
      <3> QED  BY <1>3, <2>2, <3>1, <3>2
    <2> QED  BY <1>3, <2>1, <2>2 DEF StdoutIsSound
  <1>10. StdoutIsSound' /\ \A i \in Ends' : i \in Ends /\ stdout'[i] = stdout[i] BY <1>3, <1>6, <1>9, LinesCome
  <1>11. ran' \in [Turns -> SUBSET Sent']  BY <1>2, <1>3, <1>4, <1>5, <1>8
  <1>12. \A u \in Turns : ran[u] # {} => ran'[u] # {}  BY <1>7 DEF RanGrows
  <1>13. ASSUME NEW i \in Ends'
         PROVE  stdout'[i].turn \in Turns \ (heard' \cup {turn'}) /\ ran'[stdout'[i].turn] # {}
    <2>1. stdout[i].turn \in Turns \ (heard \cup {turn}) /\ ran[stdout[i].turn] # {} BY <1>10 DEF TurnsEndOnce
    <2>2. stdout[i].turn # t
      <3>1. CASE turn = NoTurn  BY <1>5, <2>1, <3>1
      <3>2. CASE turn # NoTurn  BY <2>1, <3>2 DEF t
      <3> QED  BY <3>1, <3>2
    <2> QED  BY <1>2, <1>3, <1>10, <1>12, <2>1, <2>2
  <1>14. \A i, j \in Ends' : stdout'[i].turn = stdout'[j].turn => i = j BY <1>10 DEF TurnsEndOnce
  <1>15. ASSUME NEW u \in heard'  PROVE u # turn' /\ ran'[u] # {}
    <2>1. u \in heard /\ u \in Turns /\ u # turn /\ ran[u] # {} BY <1>1, <1>2, <1>15 DEF TurnsEndOnce
    <2>2. u # t
      <3>1. CASE turn = NoTurn  BY <1>5, <2>1, <3>1
      <3>2. CASE turn # NoTurn  BY <2>1, <3>2 DEF t
      <3> QED  BY <3>1, <3>2
    <2> QED  BY <1>3, <1>12, <2>1, <2>2
  <1>16. turn' \in Turns /\ ran'[turn'] # {}  BY <1>3, <1>5, <1>7
  <1>17. TurnsEndOnce'  BY <1>11, <1>13, <1>14, <1>15, <1>16 DEF TurnsEndOnce
  <1> QED  BY <1>8, <1>10, <1>17

\* A step that says something, no end, and leaves the turns as they are.
LEMMA SaysKeep ==
    ASSUME CodexInv, Tame, UNCHANGED <<turn, ran, heard>>, owed' \subseteq owed,
           NEW l \in Said, l.line # "ended", Say(<<l>>)
    PROVE  CodexInv'
  <1> USE DEF CodexInv
  <1>1. SessionInv' /\ StdinIsSound' /\ Sent' = Sent BY TameKeeps DEF RanGrows
  <1>2. <<l>> \in Seq(Said) /\ \A j \in DOMAIN <<l>> : <<l>>[j].line # "ended" OBVIOUS
  <1>3. TurnsEndOnce' /\ StdoutIsSound'  BY <1>1, <1>2, WordsKeep
  <1> QED  BY <1>1, <1>3

LEMMA ServerKeeps ==
    ASSUME ~Repeats, CodexInv, ServerStep
    PROVE  CodexInv'
  <1> USE DEF CodexInv
  <1>0. LatchIsNewest /\ heard \subseteq Turns /\ turn \in Turns \cup {NoTurn}
    BY DEF SessionInv, SendsKnowTheirs, TurnsEndOnce
  <1>1. ASSUME NEW told \in BOOLEAN, ServerStarts(told)  PROVE CodexInv' BY <1>1, StartsKeep
  <1>2. CASE ServerRefuses
    <2> DEFINE l == [line |-> "refused", send |-> Head(stdin).send]
    <2>1. Tame /\ UNCHANGED heard /\ Head(stdin).send \in Sends BY <1>0, <1>2, ReadsFrom DEF ServerRefuses, Sent
    <2>2. l \in Said /\ l.line # "ended"  BY <2>1 DEF Said
    <2>3. Say(<<l>>) /\ UNCHANGED <<turn, ran, owed>>  BY <1>2 DEF ServerRefuses
    <2> QED  BY <2>1, <2>2, <2>3, SaysKeep
  <1>3. CASE ServerStops
    <2> DEFINE i == Head(stdin)
               reply == [line |-> "stopped", gen |-> i.gen, ok |-> i.turn = turn]
               e == [line |-> "ended", turn |-> turn, scan |-> FALSE]
    <2>1. Tame /\ UNCHANGED heard /\ i \in Requests /\ i.do = "interrupt"
      BY <1>0, <1>3, ReadsFrom DEF ServerStops
    <2>2. i.gen \in Nat /\ i.turn \in Turns  BY <2>1 DEF Requests
    <2>3. reply \in Said /\ reply.line # "ended"  BY <2>2 DEF Said
    <2>4. CASE i.turn = turn
      <3>1. turn \in Turns /\ turn # NoTurn  BY <2>2, <2>4, SessionAssumption
      <3>2. e \in Said /\ e.line = "ended" /\ e.turn = turn  BY <3>1 DEF Said
      <3>3. Say(<<reply>> \o <<e>>) /\ turn' = NoTurn /\ UNCHANGED <<ran, owed>>
        BY <1>3, <2>4 DEF ServerStops, End
      <3> HIDE DEF reply, e, i
      <3> DEFINE lines == <<reply>> \o <<e>>
      <3>4. lines \in Seq(Said) /\ Len(lines) = 2 /\ lines[1] = reply /\ lines[2] = e BY <2>3, <3>2
      <3> HIDE DEF lines
      <3>5. \A j \in DOMAIN lines :
               lines[j].line = "ended" => lines[j].turn = turn /\ j = Len(lines)
        BY <3>4, <2>3, <3>2
      <3>6. RanGrows  BY <3>3 DEF RanGrows
      <3>7. SessionInv' /\ StdinIsSound' /\ Sent' = Sent  BY <2>1, <3>6, TameKeeps
      <3>8. Sent \subseteq Sent' /\ UNCHANGED <<owed, ran, heard>>  BY <2>1, <3>3, <3>7
      <3>9. Say(lines)  BY <3>3 DEF lines
      <3>10. TurnsEndOnce' /\ StdoutIsSound' BY <1>0, <3>1, <3>3, <3>4, <3>5, <3>8, <3>9, EndComes
      <3> QED  BY <3>7, <3>10
    <2>5. CASE i.turn # turn BY <1>3, <2>5, <2>1, <2>3, SaysKeep DEF ServerStops
    <2> QED  BY <2>4, <2>5
  <1>4. ASSUME NEW s \in Sends, NEW named \in BOOLEAN, ServerAnswers(s, named)
        PROVE  CodexInv'
    <2> DEFINE t == IF named THEN CHOOSE u \in Turns : s \in ran[u] ELSE NoTurn
    <2>1. /\ s \in owed /\ owed' \subseteq owed /\ Say(<<Response(s, t)>>)
          /\ UNCHANGED vars /\ UNCHANGED <<turn, ran>>
      BY <1>4 DEF ServerAnswers
    <2>2. t \in Turns \cup {NoTurn}  BY <2>1 DEF StdoutIsSound
    <2> HIDE DEF t
    <2>3. Response(s, t) \in Said /\ Response(s, t).line # "ended"  BY <2>2 DEF Response, Said
    <2>4. Tame /\ UNCHANGED heard  BY <1>0, <2>1, SessionRests DEF vars, historyVars
    <2> QED  BY <2>1, <2>3, <2>4, SaysKeep
  <1>5. ASSUME NEW again \in BOOLEAN, NEW behind \in BOOLEAN, ServerEnds(again, behind)
        PROVE  CodexInv'
    <2> DEFINE e == [line |-> "ended", turn |-> turn, scan |-> behind]
    <2>1. /\ turn # NoTurn /\ turn' = NoTurn /\ ~again /\ UNCHANGED vars
          /\ UNCHANGED <<ran, owed>> /\ Say(<<e>>)
      BY <1>5 DEF ServerEnds, End
    <2>2. turn \in Turns  BY <1>0, <2>1
    <2>3. e \in Said /\ e.turn = turn  BY <2>2 DEF Said
    <2> HIDE DEF e
    <2>4. /\ <<e>> \in Seq(Said) /\ Len(<<e>>) = 1
          /\ \A j \in DOMAIN <<e>> : <<e>>[j].line = "ended" => <<e>>[j].turn = turn /\ j = 1
      BY <2>3
    <2>5. Tame /\ UNCHANGED heard  BY <1>0, <2>1, SessionRests DEF vars, historyVars
    <2>6. RanGrows  BY <2>1 DEF RanGrows
    <2>7. SessionInv' /\ StdinIsSound' /\ Sent' = Sent  BY <2>5, <2>6, TameKeeps
    <2>8. Sent \subseteq Sent' /\ UNCHANGED <<owed, ran, heard>>  BY <2>1, <2>5, <2>7
    <2>9. TurnsEndOnce' /\ StdoutIsSound'  BY <1>0, <2>1, <2>4, <2>8, EndComes
    <2> QED  BY <2>7, <2>9
  <1> QED  BY <1>1, <1>2, <1>3, <1>4, <1>5 DEF ServerStep

\* Steps that neither write a line nor handle one.
LEMMA SilentKeep ==
    ASSUME CodexInv, SessionInv', StdinIsSound', UNCHANGED <<stdout, turn, ran, owed, heard>>,
           Sent \subseteq Sent'
    PROVE  CodexInv'
  <1> USE DEF CodexInv
  <1>1. Ends' = Ends /\ Ends \subseteq Nat BY DEF StdoutIsSound, Ends
  <1>2. NoNewEnd(0) BY <1>1 DEF NoNewEnd
  <1>3. StdoutIsSound'  BY DEF StdoutIsSound
  <1>4. TurnsEndOnce'  BY <1>2, <1>3, TurnsKeep
  <1> QED  BY <1>3, <1>4

LEMMA LineKeeps ==
    ASSUME CodexInv, TakeLine
    PROVE  CodexInv'
  <1> DEFINE l == stdout[1]
  <1> USE DEF CodexInv
  <1>0. LatchIsNewest /\ heard \subseteq Turns  BY DEF SessionInv, SendsKnowTheirs
  <1>1. stdout # << >> /\ stdout' = Tail(stdout) /\ UNCHANGED <<turn, ran, owed>> BY DEF TakeLine
  <1>2. /\ StdoutIsSound' /\ NoNewEnd(1) /\ l \in Said /\ Head(stdout) = l
        /\ 1 \in DOMAIN stdout /\ Ends' \subseteq Nat \ {0}
    BY <1>1, LineGoes
  <1>3. RanGrows /\ RanIsSent  BY <1>1 DEF RanGrows, RanIsSent, TurnsEndOnce
  <1>4. ASSUME Tame  PROVE CodexInv'
    BY <1>3, <1>4, TameKeeps, <1>1, <1>2, TurnsKeep DEF Tame, Quiet, historyVars
  <1>5. CASE l.line = "ended"
    <2>1. TurnEnds(l.turn, l.scan)  BY <1>2, <1>5 DEF TakeLine, Waits
    <2>2. CASE state = "closed" BY <1>0, <2>1, <2>2, SessionRests, <1>4 DEF TurnEnds
    <2>3. CASE state # "closed"
      <3>1. 1 \in Ends  BY <1>2, <1>5 DEF Ends
      <3>2. l.turn \in Turns \ (heard \cup {turn}) /\ ran[l.turn] # {} BY <3>1 DEF TurnsEndOnce
      <3>3. l.scan \in BOOLEAN  BY <1>2, <1>5 DEF Said, Waits
      <3>4. SessionInv' /\ Sent' = Sent BY <1>1, <1>3, <2>3, EndKeeps, <2>1, <3>2, <3>3
      <3>5. UNCHANGED stdin /\ heard' = heard \cup {l.turn}  BY <2>1, <2>3 DEF TurnEnds
      <3>6. StdinIsSound'  BY <3>4, <3>5 DEF StdinIsSound
      <3>7. TurnsEndOnce'
        <4>1. ran' \in [Turns -> SUBSET Sent']  BY <1>1, <3>4 DEF TurnsEndOnce
        <4>2. turn' \in Turns \cup {NoTurn} /\ (turn' # NoTurn => ran'[turn'] # {}) BY <1>1 DEF TurnsEndOnce
        <4>3. ASSUME NEW i \in Ends'
              PROVE  stdout'[i].turn \in Turns \ (heard' \cup {turn'}) /\ ran'[stdout'[i].turn] # {}
          <5>1. i + 1 \in Ends /\ stdout'[i].turn = stdout[i + 1].turn  BY <1>2 DEF NoNewEnd
          <5>2. i + 1 # 1  BY <1>2
          <5>3. stdout[i + 1].turn # l.turn  BY <3>1, <5>1, <5>2 DEF TurnsEndOnce
          <5> QED  BY <1>1, <3>5, <5>1, <5>3 DEF TurnsEndOnce
        <4>4. ASSUME NEW i \in Ends', NEW j \in Ends', stdout'[i].turn = stdout'[j].turn
              PROVE  i = j
          BY <1>2, <4>4 DEF NoNewEnd, TurnsEndOnce
        <4>5. \A t \in heard' : t # turn' /\ ran'[t] # {}  BY <1>1, <3>2, <3>5 DEF TurnsEndOnce
        <4> QED  BY <4>1, <4>2, <4>3, <4>4, <4>5 DEF TurnsEndOnce
      <3> QED  BY <1>2, <3>4, <3>6, <3>7
    <2> QED  BY <2>2, <2>3
  <1>6. CASE l.line # "ended"
    <2>1. l.line \in {"response", "refused", "stopped", "started", "ended", "item/started",
                      "item/completed"} \cup Waits
      BY <1>2 DEF Said
    <2>2. CASE l.line = "response" \/ l.line = "refused"
      <3>1. StartAnswered(l.send, l.turn) \/ StartRefused(l.send) BY <1>2, <2>2 DEF TakeLine, Waits
      <3> HIDE DEF l
      <3> QED  BY <1>0, <1>4, <3>1, AnswersAreTame
    <2>3. CASE l.line \notin {"response", "refused"}
      <3>1. CASE l.line = "stopped"
        <4>1. StopAnswered(l.gen, l.ok)  BY <1>2, <3>1 DEF TakeLine, Waits
        <4> HIDE DEF l
        <4> QED  BY <1>0, <1>4, <4>1, NoticesAreTame
      <3>2. CASE l.line = "started"
        <4>1. TurnStarted(l.turn)  BY <1>2, <3>2 DEF TakeLine, Waits
        <4> HIDE DEF l
        <4> QED  BY <1>0, <1>4, <4>1, NoticesAreTame
      <3>3. CASE l.line \in Waits
        <4>1. Asked(l.line)  BY <1>2, <3>3 DEF TakeLine, Waits
        <4> HIDE DEF l
        <4> QED  BY <1>0, <1>4, <4>1, NoticesAreTame
      <3>4. CASE l.line \in {"item/started", "item/completed"}
        BY <1>2, <3>4, <1>0, <1>4, NoticesAreTame DEF TakeLine, Waits
      <3> QED  BY <1>6, <2>1, <2>3, <3>1, <3>2, <3>3, <3>4
    <2> QED  BY <2>2, <2>3
  <1> QED  BY <1>5, <1>6

LEMMA NextKeeps ==
    ASSUME ~Repeats, CodexInv, [Next]_systemVars
    PROVE  CodexInv'
  <1> USE DEF CodexInv
  <1>0. LatchIsNewest /\ heard \subseteq Turns  BY DEF SessionInv, SendsKnowTheirs
  <1>1. ASSUME Tame, UNCHANGED <<stdout, turn, ran, owed>>  PROVE CodexInv'
    BY <1>1, TameKeeps, SilentKeep DEF RanGrows, Tame, Quiet, historyVars
  <1>2. CASE ServerStep  BY <1>2, ServerKeeps
  <1>3. CASE ServerExits BY <1>0, <1>1, <1>3, CallsAreTame DEF ServerExits
  <1>4. ASSUME NEW what \in Waits \cup {"item/started", "item/completed"}, ServerWorks(what)
        PROVE  CodexInv'
    <2> DEFINE l == [line |-> what]
    <2>1. l \in Said /\ l.line # "ended"  BY DEF Said, Waits
    <2>2. Say(<<l>>) /\ UNCHANGED vars /\ UNCHANGED <<turn, ran, owed>>  BY <1>4 DEF ServerWorks
    <2> HIDE DEF l
    <2>3. Tame /\ UNCHANGED heard  BY <1>0, <2>2, SessionRests DEF vars, historyVars
    <2> QED  BY <2>1, <2>2, <2>3, SaysKeep
  <1>5. CASE TakeLine  BY <1>5, LineKeeps
  <1>6. ASSUME NEW i \in DOMAIN deliveries, Deliver(i), UNCHANGED serverVars
        PROVE  CodexInv'
    <2>1. UNCHANGED <<stdout, turn, ran, owed>>  BY <1>6 DEF serverVars
    <2>2. SessionInv' /\ Sent' = Sent  BY <1>6, <2>1, DeliverKeeps
    <2>3. UNCHANGED <<stdin, heard>>  BY <1>6 DEF Deliver
    <2>4. StdinIsSound'  BY <2>2, <2>3 DEF StdinIsSound
    <2> QED  BY <2>1, <2>2, <2>3, <2>4, SilentKeep
  <1>7. ASSUME NEW s \in Sends, StartRefused(s), UNCHANGED serverVars  PROVE CodexInv'
    BY <1>0, <1>1, <1>7, AnswersAreTame DEF serverVars
  <1>8. ASSUME NEW s \in Sends, Send(s), UNCHANGED serverVars  PROVE CodexInv'
    <2>1. UNCHANGED <<stdout, turn, ran, owed>>  BY <1>8 DEF serverVars
    <2>2. RanIsSent  BY DEF RanIsSent, TurnsEndOnce
    <2>3. SessionInv' /\ Sent' = Sent \cup {s}  BY <1>8, <2>1, <2>2, SendKeeps
    <2>4. StdinIsSound'  BY <1>8, <2>3, SendWrites
    <2>5. UNCHANGED heard  BY <1>8 DEF Send
    <2> QED  BY <2>1, <2>3, <2>4, <2>5, SilentKeep
  <1>9. ASSUME NEW s, NEW g, NEW w, UNCHANGED serverVars,
               \/ Interrupt \/ StopWakes(g) \/ SettleEarly(s) \/ Answered(w)
               \/ Close \/ Drain \/ DrainCloses
        PROVE  CodexInv'
    BY <1>0, <1>1, <1>9, CallsAreTame DEF serverVars
  <1>10. CASE HostActs  BY <1>8, <1>9, <1>10 DEF HostActs
  <1>11. CASE Delivers  BY <1>6, <1>11 DEF Delivers
  <1>12. CASE Releases  BY <1>7, <1>9, <1>12 DEF Releases, WriteFails
  <1>13. ASSUME NEW g \in DOMAIN stops, Wakes(g)  PROVE CodexInv' BY <1>9, <1>13 DEF Wakes
  <1>14. CASE UNCHANGED systemVars BY <1>0, <1>14, SessionRests, <1>1 DEF systemVars, serverVars
  <1> QED  BY <1>2, <1>3, <1>4, <1>5, <1>10, <1>11, <1>12, <1>13, <1>14 DEF Next

LEMMA InitIsSound == SystemInit => CodexInv
  <1> SUFFICES ASSUME SystemInit  PROVE CodexInv OBVIOUS
  <1> USE DEF SystemInit, Init
  <1>1. Sent = {} /\ Ends = {}  BY DEF Sent, Ends
  <1>2. LatchIsNewest  BY DEF LatchIsNewest, Results
  <1>3. SendsKnowTheirs  BY <1>1 DEF SendsKnowTheirs
  <1>4. DeliveriesAreNew  BY DEF DeliveriesAreNew
  <1>5. SettledByNew  BY DEF SettledByNew
  <1>6. StdinIsSound  BY DEF StdinIsSound
  <1>7. StdoutIsSound  BY DEF StdoutIsSound
  <1>8. TurnsEndOnce  BY <1>1 DEF TurnsEndOnce
  <1> QED  BY <1>2, <1>3, <1>4, <1>5, <1>6, <1>7, <1>8 DEF CodexInv, SessionInv

LEMMA InvIsEnough == CodexInv => OwnTurn
  <1> SUFFICES ASSUME CodexInv  PROVE OwnTurn OBVIOUS
  <1> USE DEF CodexInv, SessionInv
  <1>1. \A s \in Sends : by[s] # NoTurn => by[s] \in Turns BY DEF SendsKnowTheirs
  <1>2. NoStaleSettle
    <2>1. ASSUME NEW s \in Sends, by[s] \in before[s]  PROVE FALSE
      BY <2>1, SessionAssumption DEF SendsKnowTheirs, SettledByNew
    <2> QED  BY <2>1 DEF NoStaleSettle
  <1>3. ASSUME NEW s \in Sends, by[s] # NoTurn, s \notin ran[by[s]]  PROVE OutOfStep
    <2> DEFINE t == by[s]
    <2>1. /\ t \in Turns /\ t \notin before[s] /\ t \in heard /\ result[s] = "delivered"
      BY <1>1, <1>3 DEF SettledByNew
    <2>2. PICK r \in ran[t] : gen[r] <= gen[s]  BY <1>3 DEF SettledByNew
    <2>3. t # turn  BY <2>1 DEF TurnsEndOnce
    <2>4. r \in Sends  BY <2>1 DEF TurnsEndOnce, Sent
    <2>5. gen[r] = gen[s] \/ gen[r] < gen[s]  BY <2>2, <2>4 DEF SendsKnowTheirs
    <2> HIDE DEF t
    <2>6. CASE gen[r] = gen[s] BY <1>3, <2>1, <2>2, <2>3, <2>6 DEF OutOfStep, t
    <2>7. CASE gen[r] < gen[s]  BY <2>1, <2>2, <2>7 DEF OutOfStep
    <2> QED  BY <2>5, <2>6, <2>7
  <1> QED  BY <1>2, <1>3 DEF OwnTurn

-----------------------------------------------------------------------------

\* Theorem: where the app-server says once that a turn ended, no send is ever settled by a
\* turn that was over before it was made; and it is settled by a turn that ran it, unless
\* session and app-server grouped the sends differently.
THEOREM CodexOwnTurn ==
    ASSUME ~Repeats
    PROVE  Spec => []OwnTurn
  <1>1. SystemInit => CodexInv  BY InitIsSound
  <1>2. CodexInv /\ [Next]_systemVars => CodexInv'  BY NextKeeps
  <1>3. CodexInv => OwnTurn  BY InvIsEnough
  <1> QED  BY <1>1, <1>2, <1>3, PTL DEF Spec

-----------------------------------------------------------------------------
(* An interrupt stops the turn that runs.                                  *)

Unread == {i \in DOMAIN stdin : stdin[i].do = "start"}

\* A turn/start is read once, and by one turn.
ReadOnce ==
    /\ \A i, j \in Unread : stdin[i].send = stdin[j].send => i = j
    /\ \A i \in Unread, t \in Turns : stdin[i].send \notin ran[t]
    /\ \A t, u \in Turns : t # u => ran[t] \cap ran[u] = {}

\* A send that waits and whose turn is not over.
Live(s) == s \in Pending /\ \A t \in Turns : s \in ran[t] => t = turn

Held(s) == latch = gen[s] /\ ~terminal /\ state # "idle"

\* Session and app-server are out of step about a send.
Strayed(s) ==
    \E t \in Turns : t \notin before[s] /\ \E r \in ran[t] :
        \/ gen[r] = gen[s] /\ s \notin ran[t] /\ t # turn
        \/ gen[r] < gen[s]

LiveAreHeld == \A s \in Sends : Live(s) => Held(s) \/ Strayed(s)

\* A response names the turn of its send; a turn that is said to start runs a send, and its
\* end comes later.
LinesAreTrue ==
    /\ \A i \in DOMAIN stdout : stdout[i].line = "response" /\ stdout[i].turn # NoTurn =>
           stdout[i].send \in ran[stdout[i].turn]
    /\ \A i \in DOMAIN stdout : stdout[i].line = "started" =>
           /\ ran[stdout[i].turn] # {} /\ stdout[i].turn \notin heard
           /\ \A j \in Ends : stdout[j].turn = stdout[i].turn => i < j

\* Every generation was opened by a leader of its own.
GensAreLed ==
    /\ leaders \subseteq Sent /\ generation <= Cardinality(leaders)
    /\ \A g \in 1..generation : \E s \in Sent : gen[s] = g

\* A turn that some send does not know of ran a send of an earlier generation.
Crossed == \E s \in Sent, t \in Turns : t \notin before[s] /\ \E r \in ran[t] : gen[r] < gen[s]

IsTurnOf(t, g) == Crossed \/ \E s \in ran[t] : gen[s] = g

IdsAreTrue ==
    /\ ready \in [Gens -> Nameless \cup Turns]
    /\ latch # 0 /\ ready[latch] \in Turns => IsTurnOf(ready[latch], latch)

StopInv == ReadOnce /\ LiveAreHeld /\ LinesAreTrue /\ GensAreLed /\ IdsAreTrue

\* Turns that do not run stay as they are.
TurnsRest == RanGrows /\ \A t \in Turns : t # turn /\ ran[t] # {} => t # turn' /\ ran'[t] = ran[t]

\* What every step of the session but send() does.
Settles ==
    /\ UNCHANGED <<gen, before, leaders, generation>> /\ Sent' = Sent /\ Pending' \subseteq Pending
    /\ ready' \in [Gens -> Nameless \cup Turns]
    /\ latch' # 0 => latch' = latch /\ (ready'[latch] \in Turns => IsTurnOf(ready'[latch], latch))
    /\ \A s \in Pending' : Live(s) /\ Held(s) => Held(s)' \/ Strayed(s)

LEMMA CrossedStays ==
    ASSUME CodexInv, UNCHANGED <<gen, before>>, Sent \subseteq Sent', RanGrows
    PROVE  Crossed => Crossed'
  BY DEF Crossed, RanGrows

LEMMA SettlesKeep ==
    ASSUME CodexInv, StopInv, Settles, TurnsRest
    PROVE  LiveAreHeld' /\ GensAreLed' /\ IdsAreTrue'
  <1> USE DEF CodexInv, StopInv, SessionInv
  <1>1. GensAreLed'  BY DEF Settles, GensAreLed
  <1>2. IdsAreTrue'
    <2> SUFFICES ASSUME latch' # 0, ready'[latch'] \in Turns
                 PROVE  Crossed' \/ \E s \in ran'[ready'[latch']] : gen'[s] = latch'
      BY DEF IdsAreTrue, Settles, IsTurnOf
    <2>1. latch' = latch /\ latch \in Nat  BY DEF Settles, LatchIsNewest
    <2>2. PICK t \in Turns : t = ready'[latch']  OBVIOUS
    <2>3. IsTurnOf(t, latch)  BY <2>1, <2>2 DEF Settles
    <2>4. UNCHANGED <<gen, before>> /\ Sent' = Sent /\ RanGrows  BY DEF Settles, TurnsRest
    <2>5. Crossed => Crossed'  BY <2>4, CrossedStays
    <2> QED  BY <2>1, <2>2, <2>3, <2>4, <2>5 DEF IsTurnOf, RanGrows
  <1>3. LiveAreHeld'
    <2> SUFFICES ASSUME NEW s \in Sends, Live(s)'  PROVE Held(s)' \/ Strayed(s)' BY DEF LiveAreHeld
    <2>1. s \in Pending' /\ s \in Pending  BY DEF Live, Settles
    <2>2. Live(s)
      <3> SUFFICES ASSUME NEW t \in Turns, s \in ran[t], t # turn  PROVE FALSE BY <2>1 DEF Live
      <3>1. s \in ran'[t] /\ t # turn'  BY DEF TurnsRest
      <3> QED  BY <3>1 DEF Live
    <2>3. ASSUME Strayed(s)  PROVE Strayed(s)'
      <3>0. PICK t \in Turns :
               /\ t \notin before[s]
               /\ \E r \in ran[t] : \/ gen[r] = gen[s] /\ s \notin ran[t] /\ t # turn
                                    \/ gen[r] < gen[s]
        BY <2>3 DEF Strayed
      <3>1. PICK r \in ran[t] : \/ gen[r] = gen[s] /\ s \notin ran[t] /\ t # turn
                                \/ gen[r] < gen[s]
        BY <3>0
      <3>2. UNCHANGED <<gen, before>> /\ r \in ran'[t]  BY DEF Settles, TurnsRest, RanGrows
      <3>3. CASE gen[r] < gen[s]  BY <3>0, <3>2, <3>3 DEF Strayed
      <3>4. CASE gen[r] = gen[s] /\ s \notin ran[t] /\ t # turn BY <3>1, <3>4, <3>0, <3>2 DEF TurnsRest, Strayed
      <3> QED  BY <3>1, <3>3, <3>4
    <2>4. Held(s) => Held(s)' \/ Strayed(s)  BY <2>1, <2>2 DEF Settles
    <2> QED  BY <2>2, <2>3, <2>4 DEF LiveAreHeld
  <1> QED  BY <1>1, <1>2, <1>3

LEMMA LatchIsAGen ==
    ASSUME CodexInv, GensAreLed
    PROVE  /\ Cardinality(leaders) <= Cardinality(Sends) /\ Cardinality(Sends) \in Nat
           /\ Cardinality(leaders) \in Nat /\ IsFiniteSet(leaders)
           /\ latch # 0 => latch \in Gens
  <1>1. leaders \in SUBSET Sends /\ IsFiniteSet(Sends)  BY SessionAssumption DEF GensAreLed, Sent
  <1>2. IsFiniteSet(leaders) /\ Cardinality(leaders) <= Cardinality(Sends)  BY <1>1, FS_Subset
  <1>3. Cardinality(leaders) \in Nat /\ Cardinality(Sends) \in Nat BY <1>1, <1>2, FS_CardinalityType
  <1>4. generation \in Nat /\ latch \in {0, generation} /\ generation <= Cardinality(leaders)
    BY DEF CodexInv, SessionInv, LatchIsNewest, GensAreLed
  <1> QED  BY <1>2, <1>3, <1>4 DEF Gens

LEMMA ReadyIsSound ==
    ASSUME IdsAreTrue, NEW how \in Nameless \cup Turns
    PROVE  /\ Ready(how) \in [Gens -> Nameless \cup Turns]
           /\ \A g \in Gens : Ready(how)[g] \in {how, ready[g]}
           /\ \A g \in Gens : Ready(how)[g] # ready[g] => g = latch
  BY DEF IdsAreTrue, Ready

LEMMA TameSettles ==
    ASSUME CodexInv, StopInv, Tame, UNCHANGED leaders, Pending' \subseteq Pending,
           ready' \in [Gens -> Nameless \cup Turns],
           \/ latch' = 0 \/ ready'[latch] \notin Turns \/ ready'[latch] = ready[latch]
           \/ IsTurnOf(ready'[latch], latch),
           \A s \in Pending' : Held(s) => Held(s)'
    PROVE  Settles
  <1>1. UNCHANGED <<gen, before, generation>> /\ (latch' # 0 => latch' = latch) BY DEF Tame, Quiet, historyVars
  <1>2. Sent' = Sent  BY DEF Tame, Quiet, Sent
  <1>3. latch # 0 /\ ready[latch] \in Turns => IsTurnOf(ready[latch], latch) BY DEF StopInv, IdsAreTrue
  <1>4. ASSUME latch' # 0, ready'[latch] \in Turns  PROVE IsTurnOf(ready'[latch], latch)
    <2>1. CASE ready'[latch] = ready[latch] BY <1>1, <1>4, <2>1, <1>3 DEF IsTurnOf
    <2> QED  BY <1>4, <2>1
  <1> QED  BY <1>1, <1>2, <1>4 DEF Settles

LEMMA RestSettles ==
    ASSUME CodexInv, StopInv, Tame, UNCHANGED turnVars, Pending' \subseteq Pending,
           Pending' = {} \/ (state # "idle" => state' # "idle")
    PROVE  Settles
  <1>1. UNCHANGED <<latch, ready, terminal, leaders, gen>>  BY DEF turnVars
  <1>2. ready' \in [Gens -> Nameless \cup Turns]  BY <1>1 DEF StopInv, IdsAreTrue
  <1>3. \A s \in Pending' : Held(s) => Held(s)'  BY <1>1 DEF Held
  <1> QED  BY <1>1, <1>2, <1>3, TameSettles

LEMMA RejectionSettles ==
    ASSUME CodexInv, StopInv, Tame, RejectAllPending
    PROVE  Settles
  <1>0. result \in [Sends -> Results]  BY DEF CodexInv, SessionInv, LatchIsNewest
  <1>1. Pending' = {}  BY <1>0 DEF RejectAllPending, Rejected, Settled, Pending
  <1>2. latch' = 0 /\ UNCHANGED leaders /\ ready' = Ready("rejected") BY DEF RejectAllPending, ClearLatch
  <1>3. ready' \in [Gens -> Nameless \cup Turns] BY <1>2, ReadyIsSound DEF StopInv, Nameless
  <1> QED  BY <1>1, <1>2, <1>3, TameSettles

LEMMA CallsSettle ==
    ASSUME CodexInv, StopInv, NEW s, NEW g, NEW w,
           \/ Interrupt \/ StopWakes(g) \/ SettleEarly(s) \/ Answered(w)
           \/ Close \/ Drain \/ DrainCloses \/ ProcessExit
    PROVE  Settles
  <1>1. Tame  BY CallsAreTame DEF CodexInv, SessionInv
  <1>2. CASE Interrupt \/ StopWakes(g) \/ Drain
    BY <1>2, <1>1, RestSettles DEF Interrupt, StopWakes, Drain, Pending
  <1>3. CASE SettleEarly(s) BY <1>3, <1>1, RestSettles DEF SettleEarly, Pending, Settled
  <1>4. CASE Answered(w) BY <1>4, <1>1, RestSettles DEF Answered, Pending
  <1>5. CASE Close \/ DrainCloses BY <1>1, <1>5, RejectionSettles DEF Close, DrainCloses, DoClose
  <1>6. CASE ProcessExit
    <2>1. CASE state = "closed" BY <1>6, <2>1, <1>1, RestSettles DEF ProcessExit, Pending
    <2>2. CASE state # "closed" BY <1>1, <1>6, <2>2, RejectionSettles DEF ProcessExit
    <2> QED  BY <2>1, <2>2
  <1> QED  BY <1>2, <1>3, <1>4, <1>5, <1>6

\* The response names the turn of a send of the latch.
LEMMA AnswerSettles ==
    ASSUME CodexInv, StopInv, NEW s \in Sends, NEW t \in Turns \cup {NoTurn},
           t # NoTurn => s \in ran[t], StartAnswered(s, t)
    PROVE  Settles
  <1>1. Tame  BY AnswersAreTame DEF CodexInv, SessionInv
  <1>2. UNCHANGED <<leaders, latch, terminal, state, result, gen>>  BY DEF StartAnswered
  <1>3. Pending' = Pending /\ \A o \in Pending' : Held(o) => Held(o)' BY <1>2 DEF Pending, Held
  <1>4. CASE ready' = ready BY <1>4, <1>1, <1>2, <1>3, TameSettles DEF StopInv, IdsAreTrue
  <1>5. CASE ready' = Ready(t) /\ StillLatch(gen[s]) /\ t # NoTurn
    <2>1. t \in Turns /\ s \in ran[t] /\ gen[s] = latch  BY <1>5 DEF StillLatch
    <2>2. IdsAreTrue  BY DEF StopInv
    <2>3. ready' \in [Gens -> Nameless \cup Turns]  BY <1>5, <2>1, <2>2, ReadyIsSound
    <2>4. IsTurnOf(t, latch)  BY <2>1 DEF IsTurnOf
    <2>5. latch = 0 \/ ready'[latch] \in {t, ready[latch]}
      BY <1>5, <2>1, <2>2, LatchIsAGen, ReadyIsSound DEF StopInv
    <2>6. latch' = 0 \/ ready'[latch] = ready[latch] \/ IsTurnOf(ready'[latch], latch)
      BY <1>2, <2>4, <2>5 DEF IsTurnOf
    <2> QED  BY <1>1, <1>2, <1>3, <2>3, <2>6, TameSettles
  <1> QED  BY <1>4, <1>5 DEF StartAnswered

\* A turn that is said to start runs a send of the latch, the newest, or an older one.
LEMMA StartSettles ==
    ASSUME CodexInv, StopInv, NEW t \in Turns, ran[t] # {}, t \notin heard, TurnStarted(t)
    PROVE  Settles
  <1>1. Tame  BY NoticesAreTame DEF CodexInv, SessionInv
  <1>2. UNCHANGED <<leaders, latch, terminal, state, result, gen>>  BY DEF TurnStarted
  <1>3. Pending' = Pending /\ \A o \in Pending' : Held(o) => Held(o)' BY <1>2 DEF Pending, Held
  <1>4. CASE ready' = ready BY <1>4, <1>1, <1>2, <1>3, TameSettles DEF StopInv, IdsAreTrue
  <1>5. CASE ready' = Ready(t)
    <2>1. IdsAreTrue /\ GensAreLed  BY DEF StopInv
    <2>2. ready' \in [Gens -> Nameless \cup Turns]  BY <1>5, <2>1, ReadyIsSound
    <2>3. latch = 0 \/ ready'[latch] \in {t, ready[latch]} BY <1>5, <2>1, LatchIsAGen, ReadyIsSound
    <2>4. ASSUME latch # 0  PROVE IsTurnOf(t, latch)
      <3>0. generation \in Nat /\ latch = generation BY <2>4 DEF CodexInv, SessionInv, LatchIsNewest
      <3>1. PICK r \in ran[t] : TRUE  OBVIOUS
      <3>2. r \in Sent /\ gen[r] \in 1..latch
        BY <3>0, <3>1 DEF CodexInv, SessionInv, SendsKnowTheirs, TurnsEndOnce
      <3>3. CASE gen[r] = latch  BY <3>1, <3>3 DEF IsTurnOf
      <3>4. CASE gen[r] < latch
        <4>1. PICK s \in Sent : gen[s] = latch  BY <2>1, <2>4, <3>0 DEF GensAreLed
        <4>2. t \notin before[s] BY <4>1 DEF CodexInv, SessionInv, SendsKnowTheirs
        <4> QED  BY <3>1, <3>4, <4>1, <4>2 DEF IsTurnOf, Crossed
      <3> QED  BY <3>0, <3>2, <3>3, <3>4
    <2>5. latch' = 0 \/ ready'[latch] = ready[latch] \/ IsTurnOf(ready'[latch], latch)
      BY <1>2, <2>3, <2>4 DEF IsTurnOf
    <2> QED  BY <1>1, <1>2, <1>3, <2>2, <2>5, TameSettles
  <1> QED  BY <1>4, <1>5 DEF TurnStarted

\* Giving up a latch: nobody else waits under it.
LEMMA RefusalSettles ==
    ASSUME CodexInv, StopInv, NEW s \in Sends, StartRefused(s)
    PROVE  Settles
  <1>1. Tame  BY AnswersAreTame DEF CodexInv, SessionInv
  <1>2. UNCHANGED <<leaders, gen>> /\ result' = Settled({s} \cap Pending \cap rpc, "refused")
    BY DEF StartRefused
  <1>3. Pending' \subseteq Pending \ ({s} \cap rpc)  BY <1>2 DEF Pending, Settled
  <1>4. IdsAreTrue  BY DEF StopInv
  <1>5. /\ ready' \in [Gens -> Nameless \cup Turns]
        /\ latch' = 0 \/ ready'[latch] \notin Turns \/ ready'[latch] = ready[latch]
    <2>1. ready' = ready \/ ready' = Ready("rejected")  BY DEF StartRefused, ClearLatch
    <2>2. CASE ready' = ready  BY <1>4, <2>2 DEF IdsAreTrue
    <2>3. CASE ready' = Ready("rejected")
      <3>1. "rejected" \in Nameless /\ "rejected" \notin Turns BY SessionAssumption DEF Nameless
      <3>2. ready' \in [Gens -> Nameless \cup Turns]  BY <1>4, <2>3, <3>1, ReadyIsSound
      <3>3. latch = 0 \/ ready'[latch] \in {"rejected", ready[latch]}
        BY <1>4, <2>3, <3>1, LatchIsAGen, ReadyIsSound DEF StopInv
      <3>4. latch' = 0 \/ latch' = latch  BY <1>1 DEF Tame, Quiet
      <3> QED  BY <3>1, <3>2, <3>3, <3>4
    <2> QED  BY <2>1, <2>2, <2>3
  <1>6. ASSUME NEW o \in Pending', Held(o)  PROVE Held(o)'
    <2> DEFINE others == {p \in Pending \ {s} : gen[p] = gen[s]}
               over == /\ s \in rpc /\ s \in Pending /\ others = {}
                       /\ latch = gen[s] /\ ready[gen[s]] \notin Turns
    <2>1. CASE over BY <1>3, <2>1, <1>6 DEF Held
    <2>2. CASE ~over BY <2>2, <1>2, <1>6 DEF StartRefused, Held
    <2> QED  BY <2>1, <2>2
  <1> QED  BY <1>1, <1>2, <1>3, <1>5, <1>6, TameSettles

LEMMA NoticesSettle ==
    ASSUME CodexInv, StopInv, NEW g, NEW ok, NEW now \in {"tool_executing", "thinking"},
           NEW w \in Waits, StopAnswered(g, ok) \/ Item(now) \/ Asked(w)
    PROVE  Settles
  <1>1. Tame  BY NoticesAreTame DEF CodexInv, SessionInv
  <1>2. UNCHANGED <<turnVars, result>>  BY DEF StopAnswered, Item, Asked
  <1>3. state # "idle" => state' # "idle"  BY DEF StopAnswered, Item, Asked, Waits
  <1> QED  BY <1>1, <1>2, <1>3, RestSettles DEF Pending

\* The turn that ends is none that a live send was in.
LEMMA EndSettles ==
    ASSUME CodexInv, StopInv, NEW t \in Turns, NEW behind \in BOOLEAN, t \notin heard, t # turn,
           ran[t] # {}, state # "closed", TurnEnds(t, behind)
    PROVE  Settles
  <1>0. /\ generation \in Nat /\ latch \in {0, generation}
        /\ gen \in [Sends -> Nat] /\ \A s \in Sent : gen[s] \in 1..generation /\ before[s] \subseteq heard
        /\ ran[t] \subseteq Sent
    BY DEF CodexInv, SessionInv, LatchIsNewest, SendsKnowTheirs, TurnsEndOnce
  <1>1. UNCHANGED <<gen, before, leaders, generation, latch, result, state>> /\ ready' = Ready("ended")
    BY DEF TurnEnds, Ended
  <1>2. Sent' = Sent /\ Pending' = Pending  BY <1>1 DEF Sent, Pending
  <1>3. IdsAreTrue /\ "ended" \in Nameless /\ "ended" \notin Turns BY SessionAssumption DEF StopInv, Nameless
  <1>4. ready' \in [Gens -> Nameless \cup Turns]  BY <1>1, <1>3, ReadyIsSound
  <1>5. ASSUME latch # 0, ready'[latch] \in Turns  PROVE IsTurnOf(ready'[latch], latch)
    BY <1>1, <1>3, <1>5, LatchIsAGen, ReadyIsSound DEF StopInv, IdsAreTrue, IsTurnOf
  <1>6. ASSUME NEW s \in Pending', Live(s), Held(s)  PROVE Strayed(s)
    <2>1. s \in Sent /\ latch = gen[s]  BY <1>2, <1>6 DEF Pending, Sent, Held
    <2>2. PICK r \in ran[t] : TRUE  OBVIOUS
    <2>3. t \notin before[s]  BY <1>0, <2>1
    <2>4. latch = generation /\ gen[r] \in 1..generation  BY <1>0, <2>1, <2>2
    <2>5. s \notin ran[t]  BY <1>6 DEF Live
    <2>6. gen[r] = gen[s] \/ gen[r] < gen[s]  BY <1>0, <2>1, <2>4
    <2> QED  BY <2>2, <2>3, <2>5, <2>6 DEF Strayed
  <1> QED  BY <1>1, <1>2, <1>4, <1>5, <1>6 DEF Settles

\* A delivery that gives up the latch finds nobody under it whose turn runs.
LEMMA DeliverSettles ==
    ASSUME CodexInv, StopInv, NEW i \in DOMAIN deliveries, Deliver(i), Sent' = Sent
    PROVE  Settles
  <1> DEFINE d == deliveries[i]
  <1>0. /\ generation \in Nat /\ \A s \in Sent : gen[s] \in 1..generation
        /\ d.gen # 0 => (latch = d.gen => terminal)
    BY DEF CodexInv, SessionInv, LatchIsNewest, SendsKnowTheirs, DeliveriesAreNew
  <1>1. UNCHANGED <<gen, before, leaders, generation>>  BY DEF Deliver
  <1>2. result \in [Sends -> Results]  BY DEF CodexInv, SessionInv, LatchIsNewest
  <1>3. Pending' \subseteq Pending BY <1>2 DEF Deliver, Pending, Settled
  <1>4. IdsAreTrue /\ "ended" \in Nameless  BY DEF StopInv, Nameless
  <1>5. CASE UNCHANGED <<state, latch, ready, terminal>> BY <1>1, <1>5, <1>4, <1>3 DEF Held, IdsAreTrue, Settles
  <1>6. CASE ~Superseded(d) /\ ClearLatch("ended")
    <2>1. latch' = 0 /\ latch = d.gen /\ ready' = Ready("ended") BY <1>6 DEF ClearLatch, Superseded
    <2>2. ready' \in [Gens -> Nameless \cup Turns]  BY <1>4, <2>1, ReadyIsSound
    <2>3. ASSUME NEW s \in Pending', Held(s)  PROVE FALSE BY <1>3, <2>1, <2>3, <1>0 DEF Pending, Sent, Held
    <2> QED  BY <1>1, <1>3, <2>1, <2>2, <2>3 DEF Settles
  <1> QED  BY <1>5, <1>6 DEF Deliver

LEMMA SendIsHeld ==
    ASSUME CodexInv, StopInv, NEW s \in Sends, Send(s), UNCHANGED <<turn, ran>>,
           Sent' = Sent \cup {s}
    PROVE  LiveAreHeld' /\ GensAreLed' /\ IdsAreTrue'
  <1> DEFINE g == IF CanJoin THEN latch ELSE generation + 1
  <1>0. /\ generation \in Nat /\ latch \in {0, generation} /\ terminal \in BOOLEAN
        /\ result \in [Sends -> Results]
        /\ gen \in [Sends -> Nat] /\ before \in [Sends -> SUBSET Turns]
        /\ \A o \in Sent : gen[o] \in 1..generation
        /\ ran \in [Turns -> SUBSET Sent]
    BY DEF CodexInv, SessionInv, LatchIsNewest, SendsKnowTheirs, TurnsEndOnce
  <1>1. /\ result[s] = "unsent" /\ gen' = [gen EXCEPT ![s] = g]
        /\ before' = [before EXCEPT ![s] = heard]
        /\ result' = [o \in Sends |-> IF o \in {s} THEN "pending" ELSE result[o]]
        /\ state' = (IF state = "idle" THEN "thinking" ELSE state)
    BY DEF Send, Settled
  <1>2. \/ CanJoin /\ g = latch /\ UNCHANGED <<latch, ready, generation, terminal, leaders>>
        \/ /\ ~CanJoin /\ g = generation + 1 /\ latch' = g /\ generation' = g /\ terminal' = FALSE
           /\ leaders' = leaders \cup {s} /\ ready' = [ready EXCEPT ![g] = "waiting"]
    BY DEF Send
  <1> HIDE DEF g
  <1>3. s \notin Sent  BY <1>1 DEF Sent
  <1>4. \A o \in Sent : gen'[o] = gen[o] /\ before'[o] = before[o] /\ result'[o] = result[o]
    BY <1>0, <1>1, <1>3 DEF Sent
  <1>5. gen'[s] = g  BY <1>0, <1>1
  <1>6. /\ Cardinality(leaders) <= Cardinality(Sends) /\ Cardinality(Sends) \in Nat
        /\ Cardinality(leaders) \in Nat /\ IsFiniteSet(leaders)
        /\ leaders \subseteq Sent /\ generation <= Cardinality(leaders)
        /\ \A h \in 1..generation : \E o \in Sent : gen[o] = h
    BY LatchIsAGen DEF StopInv, GensAreLed
  <1>7. ~CanJoin => /\ Cardinality(leaders \cup {s}) = Cardinality(leaders) + 1
                    /\ Cardinality(leaders \cup {s}) <= Cardinality(Sends)
    <2>1. s \notin leaders  BY <1>3, <1>6
    <2>2. Cardinality(leaders \cup {s}) = Cardinality(leaders) + 1  BY <1>6, <2>1, FS_AddElement
    <2>3. leaders \cup {s} \in SUBSET Sends  BY <1>6 DEF Sent
    <2>4. Cardinality(leaders \cup {s}) <= Cardinality(Sends) BY <2>3, SessionAssumption, FS_Subset
    <2> QED  BY <2>2, <2>4
  <1>8. GensAreLed'
    <2>1. CASE CanJoin BY <1>2, <2>1, <1>4, <1>6 DEF GensAreLed
    <2>2. CASE ~CanJoin
      <3>1. leaders' = leaders \cup {s} /\ generation' = g /\ g = generation + 1  BY <1>2, <2>2
      <3>2. leaders' \subseteq Sent'  BY <1>6, <3>1
      <3>3. generation' <= Cardinality(leaders')  BY <1>0, <1>6, <1>7, <2>2, <3>1
      <3>4. ASSUME NEW h \in 1..generation'  PROVE \E o \in Sent' : gen'[o] = h
        <4>1. CASE h = g  BY <1>5, <4>1
        <4>2. CASE h # g BY <1>0, <3>1, <4>2, <1>4, <1>6
        <4> QED  BY <4>1, <4>2
      <3> QED  BY <3>2, <3>3, <3>4 DEF GensAreLed
    <2> QED  BY <2>1, <2>2
  <1>9. IdsAreTrue'
    <2>0. /\ ready \in [Gens -> Nameless \cup Turns]
          /\ latch # 0 /\ ready[latch] \in Turns => IsTurnOf(ready[latch], latch)
      BY DEF StopInv, IdsAreTrue
    <2>1. CASE CanJoin
      <3> SUFFICES ASSUME latch # 0, ready[latch] \in Turns
                   PROVE  Crossed' \/ \E o \in ran[ready[latch]] : gen'[o] = latch
        BY <1>2, <2>0, <2>1 DEF IdsAreTrue, IsTurnOf
      <3>1. CASE Crossed
        <4>1. PICK o \in Sent, u \in Turns : u \notin before[o] /\ \E r \in ran[u] : gen[r] < gen[o]
          BY <3>1 DEF Crossed
        <4>2. PICK r \in ran[u] : gen[r] < gen[o]  BY <4>1
        <4>3. r \in Sent  BY <1>0
        <4> QED  BY <1>4, <4>1, <4>2, <4>3 DEF Crossed
      <3>2. CASE \E o \in ran[ready[latch]] : gen[o] = latch
        <4>1. PICK o \in ran[ready[latch]] : gen[o] = latch  BY <3>2
        <4>2. o \in Sent  BY <1>0
        <4> QED  BY <1>4, <4>1, <4>2
      <3> QED  BY <2>0, <3>1, <3>2 DEF IsTurnOf
    <2>2. CASE ~CanJoin
      <3>1. g \in Gens  BY <1>0, <1>2, <1>6, <1>7, <2>2 DEF Gens
      <3>2. "waiting" \in Nameless /\ "waiting" \notin Turns  BY SessionAssumption DEF Nameless
      <3>3. latch' = g /\ ready' = [ready EXCEPT ![g] = "waiting"]  BY <1>2, <2>2
      <3>4. ready'[g] = "waiting" /\ ready' \in [Gens -> Nameless \cup Turns] BY <2>0, <3>1, <3>2, <3>3
      <3> QED  BY <3>2, <3>3, <3>4 DEF IdsAreTrue
    <2> QED  BY <2>1, <2>2
  <1>10. ASSUME NEW o \in Sends, Live(o)'  PROVE Held(o)' \/ Strayed(o)'
    <2>1. latch' = g /\ ~terminal' /\ state' # "idle"  BY <1>1, <1>2 DEF CanJoin
    <2>2. CASE o = s  BY <1>5, <2>1, <2>2 DEF Held
    <2>3. CASE o # s
      <3>1. o \in Pending /\ o \in Sent  BY <1>1, <1>10, <2>3 DEF Live, Pending, Sent
      <3>2. Live(o)  BY <1>10, <3>1 DEF Live
      <3>3. CASE Held(o) BY <1>0, <3>1, <3>3, <1>2, <1>4, <2>1 DEF Held, CanJoin
      <3>4. CASE Strayed(o)
        <4>1. PICK t \in Turns :
                 /\ t \notin before[o]
                 /\ \E r \in ran[t] : \/ gen[r] = gen[o] /\ o \notin ran[t] /\ t # turn
                                      \/ gen[r] < gen[o]
          BY <3>4 DEF Strayed
        <4>2. \A r \in ran[t] : gen'[r] = gen[r]  BY <1>0, <1>4
        <4> QED  BY <1>4, <3>1, <4>1, <4>2 DEF Strayed
      <3> QED  BY <3>2, <3>3, <3>4 DEF StopInv, LiveAreHeld
    <2> QED  BY <2>2, <2>3
  <1> QED  BY <1>8, <1>9, <1>10 DEF LiveAreHeld

\* The turn/starts that wait to be read were there before, k places later.
NoNewStart(k) ==
    Unread' \subseteq Nat /\ \A i \in Unread' : i + k \in Unread /\ stdin'[i].send = stdin[i + k].send

LEMMA StartsGo ==
    ASSUME StdinIsSound, StdinStep
    PROVE  NoNewStart(0) \/ (NoNewStart(1) /\ stdin # << >> /\ stdin' = Tail(stdin))
  <1>0. stdin \in Seq(Requests)  BY DEF StdinIsSound
  <1>1. CASE stdin' = stdin BY <1>0, <1>1 DEF Unread, NoNewStart
  <1>2. CASE stdin # << >> /\ stdin' = Tail(stdin) BY <1>0, <1>2, TailOf DEF NoNewStart, Unread
  <1>3. ASSUME NEW g \in Nat, NEW t \in Turns,
               stdin' = Append(stdin, [do |-> "interrupt", gen |-> g, turn |-> t])
        PROVE  NoNewStart(0)
    <2> DEFINE r == [do |-> "interrupt", gen |-> g, turn |-> t]
    <2>1. r \in Requests /\ r.do = "interrupt"  BY DEF Requests
    <2> HIDE DEF r
    <2>2. stdin' = Append(stdin, r)  BY <1>3 DEF r
    <2>3. \A i \in DOMAIN (stdin') : i \in Nat /\ i + 0 = i BY <1>0, <2>1, <2>2
    <2>4. ASSUME NEW i \in Unread'  PROVE i \in DOMAIN stdin /\ stdin'[i] = stdin[i]
      BY <1>0, <2>1, <2>2 DEF Unread
    <2> QED  BY <2>3, <2>4 DEF NoNewStart, Unread
  <1> QED  BY <1>1, <1>2, <1>3 DEF StdinStep

LEMMA ReadKeeps ==
    ASSUME ReadOnce, NEW k \in Nat, NoNewStart(k), UNCHANGED ran
    PROVE  ReadOnce'
  <1>1. ASSUME NEW i \in Unread', NEW j \in Unread', stdin'[i].send = stdin'[j].send
        PROVE  i = j
    BY <1>1 DEF NoNewStart, ReadOnce
  <1>2. \A i \in Unread', t \in Turns : stdin'[i].send \notin ran'[t] BY DEF NoNewStart, ReadOnce
  <1> QED  BY <1>1, <1>2 DEF ReadOnce

LEMMA TameReads ==
    ASSUME CodexInv, ReadOnce, StdinStep, UNCHANGED ran
    PROVE  ReadOnce'
  BY StartsGo, ReadKeeps DEF CodexInv

LEMMA SendIsReadOnce ==
    ASSUME CodexInv, ReadOnce, NEW s \in Sends, Send(s), UNCHANGED ran
    PROVE  ReadOnce'
  <1> DEFINE r == [do |-> "start", send |-> s]
  <1>0. /\ stdin \in Seq(Requests) /\ \A i \in Unread : stdin[i].send \in Sent
        /\ \A t \in Turns : ran[t] \subseteq Sent
    BY DEF CodexInv, StdinIsSound, TurnsEndOnce, Unread
  <1>1. stdin' = Append(stdin, r) /\ s \notin Sent  BY DEF Send, Write, Sent
  <1>2. r.send = s  OBVIOUS
  <1> HIDE DEF r
  <1>3. \A i \in Unread' : \/ i \in Unread /\ stdin'[i] = stdin[i]
                           \/ i = Len(stdin) + 1 /\ stdin'[i] = r
    BY <1>0, <1>1 DEF Unread
  <1>4. ASSUME NEW i \in Unread', NEW j \in Unread', stdin'[i].send = stdin'[j].send
        PROVE  i = j
    <2>1. CASE i \in Unread /\ stdin'[i] = stdin[i] BY <1>0, <1>1, <1>2, <1>3, <1>4, <2>1 DEF ReadOnce
    <2>2. CASE i = Len(stdin) + 1 /\ stdin'[i] = r BY <1>0, <1>1, <1>2, <1>3, <1>4, <2>2
    <2> QED  BY <1>3, <2>1, <2>2
  <1>5. \A i \in Unread', t \in Turns : stdin'[i].send \notin ran'[t] BY <1>0, <1>1, <1>2, <1>3 DEF ReadOnce
  <1> QED  BY <1>4, <1>5 DEF ReadOnce

\* The turn that reads a turn/start, alone.
LEMMA StartIsReadOnce ==
    ASSUME CodexInv, ReadOnce, NEW t \in Turns, Reads("start"),
           ran' = [ran EXCEPT ![t] = @ \cup {Head(stdin).send}]
    PROVE  ReadOnce'
  <1> DEFINE m == Head(stdin).send
  <1>0. stdin \in Seq(Requests) /\ stdin # << >> /\ stdin' = Tail(stdin) /\ Head(stdin).do = "start"
    BY DEF CodexInv, StdinIsSound, Reads
  <1>1. ran \in [Turns -> SUBSET Sent]  BY DEF CodexInv, TurnsEndOnce
  <1>2. Head(stdin) = stdin[1] /\ 1 \in DOMAIN stdin
        /\ DOMAIN (stdin') = 1..(Len(stdin) - 1)
        /\ \A i \in DOMAIN (stdin') : i + 1 \in DOMAIN stdin /\ stdin'[i] = stdin[i + 1]
    BY <1>0, TailOf
  <1>3. 1 \in Unread /\ stdin[1].send = m  BY <1>0, <1>2 DEF Unread
  <1>4. NoNewStart(1) /\ Unread' \subseteq Nat \ {0}  BY <1>2 DEF NoNewStart, Unread
  <1> HIDE DEF m
  <1>5. ran' = [ran EXCEPT ![t] = @ \cup {m}]  BY DEF m
  <1>6. \A u \in Turns : /\ \A o \in ran'[u] : o \in ran[u] \/ o = m
                         /\ u # t => ran'[u] = ran[u]
    BY <1>1, <1>5
  <1>7. ASSUME NEW i \in Unread', NEW j \in Unread', stdin'[i].send = stdin'[j].send
        PROVE  i = j
    BY <1>4, <1>7 DEF NoNewStart, ReadOnce
  <1>8. ASSUME NEW i \in Unread', NEW u \in Turns  PROVE stdin'[i].send \notin ran'[u]
    BY <1>4, <1>3, <1>6 DEF NoNewStart, ReadOnce
  <1>9. ASSUME NEW u \in Turns, NEW v \in Turns, u # v  PROVE ran'[u] \cap ran'[v] = {}
    <2>1. m \notin ran[u] /\ m \notin ran[v]  BY <1>3 DEF ReadOnce
    <2>2. ran[u] \cap ran[v] = {}  BY <1>9 DEF ReadOnce
    <2>3. ASSUME NEW o \in ran'[u], o \in ran'[v]  PROVE FALSE
      <3>1. CASE u # t BY <1>6, <2>3, <3>1, <2>1, <2>2
      <3>2. CASE v # t BY <1>6, <2>3, <3>2, <2>1, <2>2
      <3> QED  BY <1>9, <3>1, <3>2
    <2> QED  BY <2>3
  <1> QED  BY <1>7, <1>8, <1>9 DEF ReadOnce

LEMMA NamesATurn ==
    ASSUME NEW l \in Said
    PROVE  /\ l.line = "started" => l.turn \in Turns
           /\ l.line = "response" => l.send \in Sends /\ l.turn \in Turns \cup {NoTurn}
  BY DEF Said, Waits

LEMMA LineIsTaken ==
    ASSUME CodexInv, LinesAreTrue, stdout # << >>, stdout' = Tail(stdout), UNCHANGED ran,
           heard' = heard \/ (stdout[1].line = "ended" /\ heard' = heard \cup {stdout[1].turn})
    PROVE  LinesAreTrue'
  <1>0. stdout \in Seq(Said)  BY DEF CodexInv, StdoutIsSound
  <1>1. /\ 1 \in DOMAIN stdout /\ DOMAIN (stdout') = 1..(Len(stdout) - 1)
        /\ \A i \in DOMAIN (stdout') : i + 1 \in DOMAIN stdout /\ stdout'[i] = stdout[i + 1]
    BY <1>0, TailOf
  <1>2. \A i \in DOMAIN (stdout') : stdout'[i].line = "response" /\ stdout'[i].turn # NoTurn =>
           stdout'[i].send \in ran'[stdout'[i].turn]
    BY <1>1 DEF LinesAreTrue
  <1>3. ASSUME NEW i \in DOMAIN (stdout'), stdout'[i].line = "started"
        PROVE  /\ ran'[stdout'[i].turn] # {} /\ stdout'[i].turn \notin heard'
               /\ \A j \in Ends' : stdout'[j].turn = stdout'[i].turn => i < j
    <2>1. i + 1 \in DOMAIN stdout /\ stdout'[i] = stdout[i + 1] /\ i \in Nat \ {0}  BY <1>1
    <2> DEFINE t == stdout[i + 1].turn
    <2>2. /\ ran[t] # {} /\ t \notin heard
          /\ \A j \in Ends : stdout[j].turn = t => i + 1 < j
      BY <1>3, <2>1 DEF LinesAreTrue
    <2>3. stdout[1].line = "ended" => stdout[1].turn # t BY <1>1, <2>1, <2>2 DEF Ends
    <2>4. ASSUME NEW j \in Ends', stdout'[j].turn = t  PROVE i < j BY <1>1, <2>2, <2>4, <2>1 DEF Ends
    <2> QED  BY <2>1, <2>2, <2>3, <2>4
  <1> QED  BY <1>2, <1>3 DEF LinesAreTrue

LEMMA LinesAreSaid ==
    ASSUME CodexInv, LinesAreTrue, NEW lines \in Seq(Said), Say(lines), RanGrows, UNCHANGED heard,
           \A j \in DOMAIN lines : lines[j].line = "response" /\ lines[j].turn # NoTurn =>
               lines[j].send \in ran'[lines[j].turn],
           \A j \in DOMAIN lines : lines[j].line = "started" =>
               /\ Len(lines) = 1 /\ ran'[lines[j].turn] # {} /\ lines[j].turn \notin heard
               /\ \A i \in Ends : stdout[i].turn # lines[j].turn
    PROVE  LinesAreTrue'
  <1>0. stdout \in Seq(Said) /\ stdout' = stdout \o lines BY DEF CodexInv, StdoutIsSound, Say
  <1>1. /\ Len(stdout) \in Nat /\ DOMAIN stdout = 1..Len(stdout)
        /\ Len(lines) \in Nat /\ DOMAIN lines = 1..Len(lines)
        /\ DOMAIN (stdout') = 1..(Len(stdout) + Len(lines))
    BY <1>0
  <1>2. ASSUME NEW i \in DOMAIN (stdout')
        PROVE  \/ i \in DOMAIN stdout /\ stdout'[i] = stdout[i]
               \/ i - Len(stdout) \in DOMAIN lines /\ stdout'[i] = lines[i - Len(stdout)]
    <2>1. i \in 1..(Len(stdout) + Len(lines))  BY <1>1
    <2>2. CASE i <= Len(stdout)  BY <1>0, <1>1, <2>1, <2>2
    <2>3. CASE i > Len(stdout)  BY <1>0, <1>1, <2>1, <2>3
    <2> QED  BY <1>1, <2>1, <2>2, <2>3
  <1>3. ASSUME NEW i \in DOMAIN (stdout'), stdout'[i].line = "response", stdout'[i].turn # NoTurn
        PROVE  stdout'[i].send \in ran'[stdout'[i].turn]
    <2>1. CASE i \in DOMAIN stdout /\ stdout'[i] = stdout[i]
      <3>1. stdout[i] \in Said /\ stdout[i].send \in ran[stdout[i].turn] BY <1>0, <1>3, <2>1 DEF LinesAreTrue
      <3>2. stdout[i].turn \in Turns  BY <1>3, <2>1, <3>1, NamesATurn
      <3> QED  BY <2>1, <3>1, <3>2 DEF RanGrows
    <2>2. CASE i - Len(stdout) \in DOMAIN lines /\ stdout'[i] = lines[i - Len(stdout)] BY <1>3, <2>2
    <2> QED  BY <1>2, <2>1, <2>2
  <1>4. ASSUME NEW j \in Ends'
        PROVE  \/ j \in Ends /\ stdout'[j] = stdout[j]
               \/ /\ j - Len(stdout) \in DOMAIN lines /\ stdout'[j] = lines[j - Len(stdout)]
                  /\ lines[j - Len(stdout)].line = "ended" /\ j \in Nat
    BY <1>1, <1>2 DEF Ends
  <1>5. ASSUME NEW i \in DOMAIN (stdout'), stdout'[i].line = "started"
        PROVE  /\ ran'[stdout'[i].turn] # {} /\ stdout'[i].turn \notin heard'
               /\ \A j \in Ends' : stdout'[j].turn = stdout'[i].turn => i < j
    <2>1. CASE i \in DOMAIN stdout /\ stdout'[i] = stdout[i]
      <3> DEFINE t == stdout[i].turn
      <3>1. /\ ran[t] # {} /\ t \notin heard
            /\ \A j \in Ends : stdout[j].turn = t => i < j
        BY <1>5, <2>1 DEF LinesAreTrue
      <3>2. stdout[i] \in Said  BY <1>0, <2>1
      <3>3. t \in Turns  BY <1>5, <2>1, <3>2, NamesATurn
      <3>4. ran'[t] # {}  BY <3>1, <3>3 DEF RanGrows
      <3>5. ASSUME NEW j \in Ends', stdout'[j].turn = t  PROVE i < j
        <4>1. CASE j \in Ends /\ stdout'[j] = stdout[j]  BY <3>1, <3>5, <4>1
        <4>2. CASE j - Len(stdout) \in DOMAIN lines /\ j \in Nat BY <1>1, <2>1, <4>2
        <4> QED  BY <1>4, <4>1, <4>2
      <3> QED  BY <2>1, <3>1, <3>4, <3>5
    <2>2. CASE i - Len(stdout) \in DOMAIN lines /\ stdout'[i] = lines[i - Len(stdout)]
      <3> DEFINE k == i - Len(stdout)
      <3>1. /\ Len(lines) = 1 /\ ran'[lines[k].turn] # {} /\ lines[k].turn \notin heard
            /\ \A j \in Ends : stdout[j].turn # lines[k].turn
        BY <1>5, <2>2
      <3>2. ASSUME NEW j \in Ends', stdout'[j].turn = lines[k].turn  PROVE i < j
        <4>1. CASE j \in Ends /\ stdout'[j] = stdout[j]  BY <3>1, <3>2, <4>1
        <4>2. CASE /\ j - Len(stdout) \in DOMAIN lines
                   /\ lines[j - Len(stdout)].line = "ended"
          BY <1>1, <2>2, <3>1, <4>2, <1>5
        <4> QED  BY <1>4, <4>1, <4>2
      <3> QED  BY <2>2, <3>1, <3>2
    <2> QED  BY <1>2, <2>1, <2>2
  <1> QED  BY <1>3, <1>5 DEF LinesAreTrue

\* A step of the session that handles no line.
LEMMA SilentStops ==
    ASSUME CodexInv, StopInv, Settles, StdinStep, UNCHANGED <<stdout, turn, ran, heard>>
    PROVE  StopInv'
  <1>1. TurnsRest  BY DEF TurnsRest, RanGrows
  <1>2. LiveAreHeld' /\ GensAreLed' /\ IdsAreTrue'  BY <1>1, SettlesKeep
  <1>3. ReadOnce'  BY TameReads DEF StopInv
  <1>4. LinesAreTrue'  BY DEF StopInv, LinesAreTrue, Ends
  <1> QED  BY <1>2, <1>3, <1>4 DEF StopInv

LEMMA LineStops ==
    ASSUME CodexInv, StopInv, TakeLine
    PROVE  StopInv'
  <1> DEFINE l == stdout[1]
  <1>0. LatchIsNewest /\ TurnsEndOnce /\ LinesAreTrue BY DEF CodexInv, SessionInv, StopInv
  <1>1. stdout # << >> /\ stdout' = Tail(stdout) /\ UNCHANGED <<turn, ran, owed>> BY DEF TakeLine
  <1>2. l \in Said /\ Head(stdout) = l /\ 1 \in DOMAIN stdout BY <1>1, LineGoes DEF CodexInv
  <1>3. TurnsRest  BY <1>1 DEF TurnsRest, RanGrows
  <1>4. ASSUME Settles, StdinStep,
               heard' = heard \/ (l.line = "ended" /\ heard' = heard \cup {l.turn})
        PROVE  StopInv'
    BY <1>3, <1>4, SettlesKeep, <1>1, TameReads, <1>0, LineIsTaken DEF StopInv
  <1>5. ASSUME Settles, Tame  PROVE StopInv' BY <1>4, <1>5 DEF Tame, Quiet, historyVars
  <1>6. CASE l.line = "ended"
    <2>1. TurnEnds(l.turn, l.scan)  BY <1>2, <1>6 DEF TakeLine, Waits
    <2>2. CASE state = "closed"
      <3>1. UNCHANGED vars  BY <2>1, <2>2 DEF TurnEnds
      <3>2. Tame  BY <1>0, <3>1, SessionRests
      <3>3. UNCHANGED <<turnVars, state, result>>  BY <3>1 DEF vars
      <3>4. Settles  BY <3>2, <3>3, RestSettles DEF Pending
      <3> QED  BY <1>5, <3>2, <3>4
    <2>3. CASE state # "closed"
      <3>1. 1 \in Ends  BY <1>2, <1>6 DEF Ends
      <3>2. l.turn \in Turns \ (heard \cup {turn}) /\ ran[l.turn] # {} BY <1>0, <3>1 DEF TurnsEndOnce
      <3>3. l.scan \in BOOLEAN  BY <1>2, <1>6 DEF Said, Waits
      <3>4. Settles BY <2>3, EndSettles, <2>1, <3>2, <3>3
      <3>5. UNCHANGED stdin /\ heard' = heard \cup {l.turn}  BY <2>1, <2>3 DEF TurnEnds
      <3>6. StdinStep  BY <3>5 DEF StdinStep
      <3> QED  BY <1>4, <1>6, <3>4, <3>5, <3>6
    <2> QED  BY <2>2, <2>3
  <1>7. CASE l.line = "response"
    <2>1. StartAnswered(l.send, l.turn)  BY <1>2, <1>7 DEF TakeLine, Waits
    <2>2. l.send \in Sends /\ l.turn \in Turns \cup {NoTurn}  BY <1>2, <1>7, NamesATurn
    <2>3. l.turn # NoTurn => l.send \in ran[l.turn]  BY <1>0, <1>2, <1>7 DEF LinesAreTrue
    <2> HIDE DEF l
    <2>4. Tame  BY <1>0, <2>1, AnswersAreTame
    <2>5. Settles  BY <2>1, <2>2, <2>3, AnswerSettles
    <2> QED  BY <1>5, <2>4, <2>5
  <1>8. CASE l.line = "refused"
    <2>1. StartRefused(l.send)  BY <1>2, <1>8 DEF TakeLine, Waits
    <2>2. l.send \in Sends  BY <1>2, <1>8 DEF Said, Waits
    <2> HIDE DEF l
    <2>3. Tame  BY <1>0, <2>1, AnswersAreTame
    <2>4. Settles  BY <2>1, <2>2, RefusalSettles
    <2> QED  BY <1>5, <2>3, <2>4
  <1>9. CASE l.line = "started"
    <2>1. TurnStarted(l.turn)  BY <1>2, <1>9 DEF TakeLine, Waits
    <2>2. l.turn \in Turns  BY <1>2, <1>9, NamesATurn
    <2>3. ran[l.turn] # {} /\ l.turn \notin heard  BY <1>0, <1>2, <1>9 DEF LinesAreTrue
    <2> HIDE DEF l
    <2>4. Tame  BY <1>0, <2>1, NoticesAreTame
    <2>5. Settles  BY <2>1, <2>2, <2>3, StartSettles
    <2> QED  BY <1>5, <2>4, <2>5
  <1>10. ASSUME NEW g, NEW ok, NEW now \in {"tool_executing", "thinking"}, NEW w \in Waits,
                StopAnswered(g, ok) \/ Item(now) \/ Asked(w)
         PROVE  StopInv'
    BY <1>0, <1>10, NoticesAreTame, NoticesSettle, <1>5
  <1>11. "waiting_for_input" \in Waits  BY DEF Waits
  <1>12. CASE l.line = "stopped"
    <2>1. StopAnswered(l.gen, l.ok)  BY <1>2, <1>12 DEF TakeLine, Waits
    <2> HIDE DEF l
    <2> QED  BY <1>10, <1>11, <2>1
  <1>13. CASE l.line \in Waits
    <2>1. Asked(l.line)  BY <1>2, <1>13 DEF TakeLine, Waits
    <2> HIDE DEF l
    <2> QED  BY <1>10, <1>13, <2>1
  <1>14. CASE l.line \in {"item/started", "item/completed"} BY <1>2, <1>14, <1>10, <1>11 DEF TakeLine, Waits
  <1>15. l.line \in {"response", "refused", "stopped", "started", "ended", "item/started",
                     "item/completed"} \cup Waits
    BY <1>2 DEF Said
  <1> QED  BY <1>6, <1>7, <1>8, <1>9, <1>12, <1>13, <1>14, <1>15

\* A step of the app-server that starts no turn.
LEMMA WordsStop ==
    ASSUME CodexInv, StopInv, Tame, UNCHANGED <<turnVars, state, result, heard, ran>>,
           turn' \in {turn, NoTurn}, NEW lines \in Seq(Said), Say(lines),
           \A j \in DOMAIN lines : lines[j].line = "response" /\ lines[j].turn # NoTurn =>
               lines[j].send \in ran[lines[j].turn],
           \A j \in DOMAIN lines : lines[j].line # "started"
    PROVE  StopInv'
  <1>1. Settles  BY RestSettles DEF Pending
  <1>2. TurnsRest  BY SessionAssumption DEF TurnsRest, RanGrows
  <1>3. LiveAreHeld' /\ GensAreLed' /\ IdsAreTrue'  BY <1>1, <1>2, SettlesKeep
  <1>4. ReadOnce'  BY TameReads DEF StopInv, Tame
  <1>5. RanGrows  BY <1>2 DEF TurnsRest
  <1>6. LinesAreTrue'  BY <1>5, LinesAreSaid DEF StopInv
  <1> QED  BY <1>3, <1>4, <1>6 DEF StopInv

LEMMA StartStops ==
    ASSUME CodexInv, StopInv, NEW told \in BOOLEAN, ServerStarts(told)
    PROVE  StopInv'
  <1> DEFINE m == Head(stdin).send
             t == IF turn = NoTurn THEN CHOOSE u \in Turns : ran[u] = {} ELSE turn
             lines == IF told /\ turn = NoTurn THEN <<[line |-> "started", turn |-> t]>> ELSE << >>
  <1>0. LatchIsNewest /\ StdinIsSound /\ TurnsEndOnce  BY DEF CodexInv, SessionInv
  <1>1. Tame /\ UNCHANGED heard /\ m \in Sent  BY <1>0, ReadsFrom DEF ServerStarts
  <1>2. /\ ran' = [ran EXCEPT ![t] = @ \cup {m}] /\ turn' = t /\ Reads("start")
        /\ Say(lines) /\ (turn = NoTurn => \E u \in Turns : ran[u] = {})
    BY DEF ServerStarts
  <1>3. ran \in [Turns -> SUBSET Sent]  BY <1>0 DEF TurnsEndOnce
  <1>4. t \in Turns /\ (turn = NoTurn => ran[t] = {}) /\ (turn # NoTurn => t = turn)
    BY <1>0, <1>2 DEF TurnsEndOnce
  <1>5. lines \in Seq(Said) /\ \A j \in DOMAIN lines : /\ lines[j].line = "started"
                                                       /\ Len(lines) = 1 /\ lines[j].turn = t
                                                       /\ turn = NoTurn
    <2>1. CASE told /\ turn = NoTurn
      <3> DEFINE l == [line |-> "started", turn |-> t]
      <3>1. l \in Said /\ l.line = "started" /\ l.turn = t  BY <1>4 DEF Said
      <3>2. lines = <<l>>  BY <2>1
      <3> HIDE DEF l, lines
      <3>3. lines \in Seq(Said) /\ DOMAIN lines = {1} /\ lines[1] = l /\ Len(lines) = 1 BY <3>1, <3>2
      <3> QED  BY <2>1, <3>1, <3>3
    <2>2. CASE ~(told /\ turn = NoTurn)
      <3>1. lines = << >>  BY <2>2
      <3>2. << >> \in Seq(Said) /\ Len(<< >>) = 0  OBVIOUS
      <3> HIDE DEF lines
      <3>3. lines \in Seq(Said) /\ Len(lines) = 0  BY <3>1, <3>2
      <3>4. DOMAIN lines = 1..0  BY <3>3
      <3> QED  BY <3>3, <3>4
    <2> QED  BY <2>1, <2>2
  <1>6. ReadOnce' BY <1>2, StartIsReadOnce, <1>4 DEF StopInv
  <1> HIDE DEF t, lines, m
  <1>7. /\ \A u \in Turns : ran[u] \subseteq ran'[u] /\ (u # t => ran'[u] = ran[u])
        /\ ran'[t] # {}
    BY <1>2, <1>3, <1>4
  <1>8. TurnsRest
    <2>1. ASSUME NEW u \in Turns, u # turn, ran[u] # {}  PROVE u # t BY <1>4, <2>1
    <2> QED  BY <1>2, <1>7, <2>1 DEF TurnsRest, RanGrows
  <1>9. UNCHANGED <<turnVars, state, result>>  BY <1>2 DEF Reads
  <1>10. Settles  BY <1>1, <1>9, RestSettles DEF Pending
  <1>11. LiveAreHeld' /\ GensAreLed' /\ IdsAreTrue'  BY <1>8, <1>10, SettlesKeep
  <1>12. LinesAreTrue'
    <2>1. ASSUME turn = NoTurn  PROVE t \notin heard /\ \A i \in Ends : stdout[i].turn # t
      BY <1>0, <1>4, <2>1 DEF TurnsEndOnce
    <2>2. RanGrows  BY <1>8 DEF TurnsRest
    <2> QED  BY <1>1, <1>2, <1>5, <1>7, <2>1, <2>2, LinesAreSaid DEF StopInv
  <1> QED  BY <1>6, <1>11, <1>12 DEF StopInv

LEMMA ServerKeepsStops ==
    ASSUME ~Repeats, CodexInv, StopInv, ServerStep
    PROVE  StopInv'
  <1>0. LatchIsNewest /\ StdinIsSound /\ StdoutIsSound /\ TurnsEndOnce BY DEF CodexInv, SessionInv
  <1>1. ASSUME NEW told \in BOOLEAN, ServerStarts(told)  PROVE StopInv' BY <1>1, StartStops
  <1>2. CASE ServerRefuses
    <2> DEFINE l == [line |-> "refused", send |-> Head(stdin).send]
    <2>1. Reads("start") /\ Say(<<l>>) /\ UNCHANGED <<turn, ran>>  BY <1>2 DEF ServerRefuses
    <2>2. Tame /\ UNCHANGED heard /\ Head(stdin).send \in Sends BY <1>0, <2>1, ReadsFrom DEF Sent
    <2>3. l \in Said /\ l.line \notin {"started", "response"}  BY <2>2 DEF Said
    <2>4. UNCHANGED <<turnVars, state, result>>  BY <2>1 DEF Reads
    <2> HIDE DEF l
    <2>5. <<l>> \in Seq(Said) /\ \A j \in DOMAIN <<l>> : <<l>>[j] = l  BY <2>3
    <2> QED  BY <2>1, <2>2, <2>3, <2>4, <2>5, WordsStop
  <1>3. CASE ServerStops
    <2> DEFINE i == Head(stdin)
               reply == [line |-> "stopped", gen |-> i.gen, ok |-> i.turn = turn]
               e == [line |-> "ended", turn |-> turn, scan |-> FALSE]
               lines == IF i.turn = turn THEN <<reply>> \o <<e>> ELSE <<reply>>
    <2>1. Reads("interrupt") /\ UNCHANGED ran /\ turn' \in {turn, NoTurn} /\ Say(lines)
      BY <1>3 DEF ServerStops, End
    <2>2. Tame /\ UNCHANGED heard /\ i \in Requests /\ i.do = "interrupt" BY <1>0, <2>1, ReadsFrom
    <2>3. i.gen \in Nat /\ i.turn \in Turns  BY <2>2 DEF Requests
    <2>4. reply \in Said /\ reply.line = "stopped"  BY <2>3 DEF Said
    <2>5. i.turn = turn => e \in Said /\ e.line = "ended"  BY <2>3 DEF Said
    <2>6. UNCHANGED <<turnVars, state, result>>  BY <2>1 DEF Reads
    <2> HIDE DEF i, reply, e
    <2>7. lines \in Seq(Said) /\ \A j \in DOMAIN lines : lines[j].line \in {"stopped", "ended"}
      <3>1. CASE i.turn = turn
        <4>1. lines = <<reply>> \o <<e>>  BY <3>1
        <4> HIDE DEF lines
        <4>2. lines \in Seq(Said) /\ Len(lines) = 2 /\ lines[1] = reply /\ lines[2] = e
          BY <2>4, <2>5, <3>1, <4>1
        <4>3. DOMAIN lines = {1, 2}  BY <4>2
        <4> QED  BY <2>4, <2>5, <3>1, <4>2, <4>3
      <3>2. CASE i.turn # turn
        <4>1. lines = <<reply>>  BY <3>2
        <4> HIDE DEF lines
        <4>2. lines \in Seq(Said) /\ \A j \in DOMAIN lines : lines[j] = reply BY <2>4, <4>1
        <4> QED  BY <2>4, <4>2
      <3> QED  BY <3>1, <3>2
    <2> HIDE DEF lines
    <2> QED  BY <2>1, <2>2, <2>6, <2>7, WordsStop
  <1>4. ASSUME NEW s \in Sends, NEW named \in BOOLEAN, ServerAnswers(s, named)
        PROVE  StopInv'
    <2> DEFINE t == IF named THEN CHOOSE u \in Turns : s \in ran[u] ELSE NoTurn
               l == Response(s, t)
    <2>1. s \in owed /\ Say(<<l>>) /\ UNCHANGED vars /\ UNCHANGED <<turn, ran>> BY <1>4 DEF ServerAnswers
    <2>2. t \in Turns \cup {NoTurn} /\ (t # NoTurn => s \in ran[t]) BY <1>0, <2>1 DEF StdoutIsSound
    <2> HIDE DEF t
    <2>3. l \in Said /\ l.line = "response" /\ l.send = s /\ l.turn = t BY <2>2 DEF Response, Said
    <2> HIDE DEF l
    <2>4. Tame  BY <1>0, <2>1, SessionRests
    <2>5. UNCHANGED <<turnVars, state, result, heard>>  BY <2>1 DEF vars, historyVars
    <2>6. <<l>> \in Seq(Said) /\ \A j \in DOMAIN <<l>> : <<l>>[j] = l  BY <2>3
    <2> QED  BY <2>1, <2>2, <2>3, <2>4, <2>5, <2>6, WordsStop
  <1>5. ASSUME NEW again \in BOOLEAN, NEW behind \in BOOLEAN, ServerEnds(again, behind)
        PROVE  StopInv'
    <2> DEFINE e == [line |-> "ended", turn |-> turn, scan |-> behind]
    <2>1. /\ turn # NoTurn /\ turn' = NoTurn /\ ~again /\ UNCHANGED vars
          /\ UNCHANGED <<ran, owed>> /\ Say(<<e>>)
      BY <1>5 DEF ServerEnds, End
    <2>2. turn \in Turns  BY <1>0, <2>1 DEF TurnsEndOnce
    <2>3. e \in Said /\ e.line = "ended"  BY <2>2 DEF Said
    <2> HIDE DEF e
    <2>4. Tame  BY <1>0, <2>1, SessionRests
    <2>5. UNCHANGED <<turnVars, state, result, heard>>  BY <2>1 DEF vars, historyVars
    <2>6. <<e>> \in Seq(Said) /\ \A j \in DOMAIN <<e>> : <<e>>[j] = e  BY <2>3
    <2> QED  BY <2>1, <2>3, <2>4, <2>5, <2>6, WordsStop
  <1> QED  BY <1>1, <1>2, <1>3, <1>4, <1>5 DEF ServerStep

LEMMA NextKeepsStops ==
    ASSUME ~Repeats, CodexInv, StopInv, [Next]_systemVars
    PROVE  StopInv'
  <1>0. LatchIsNewest /\ heard \subseteq Turns BY DEF CodexInv, SessionInv, SendsKnowTheirs
  <1>1. ASSUME Settles, Tame, UNCHANGED serverVars  PROVE StopInv'
    BY <1>1, SilentStops DEF Tame, Quiet, historyVars, serverVars
  <1>2. CASE ServerStep  BY <1>2, ServerKeepsStops
  <1>3. CASE ServerExits
    BY <1>3, <1>0, CallsAreTame, CallsSettle, SilentStops DEF ServerExits, Tame, Quiet, historyVars
  <1>4. ASSUME NEW what \in Waits \cup {"item/started", "item/completed"}, ServerWorks(what)
        PROVE  StopInv'
    <2> DEFINE l == [line |-> what]
    <2>1. l \in Said /\ l.line \notin {"started", "response"}  BY DEF Said, Waits
    <2>2. Say(<<l>>) /\ UNCHANGED vars /\ UNCHANGED <<turn, ran>>  BY <1>4 DEF ServerWorks
    <2> HIDE DEF l
    <2>3. Tame  BY <1>0, <2>2, SessionRests
    <2>4. UNCHANGED <<turnVars, state, result, heard>>  BY <2>2 DEF vars, historyVars
    <2>5. <<l>> \in Seq(Said) /\ \A j \in DOMAIN <<l>> : <<l>>[j] = l  BY <2>1
    <2> QED  BY <2>1, <2>2, <2>3, <2>4, <2>5, WordsStop
  <1>5. CASE TakeLine  BY <1>5, LineStops
  <1>6. ASSUME NEW i \in DOMAIN deliveries, Deliver(i), UNCHANGED serverVars
        PROVE  StopInv'
    <2>1. UNCHANGED <<stdout, turn, ran, owed>>  BY <1>6 DEF serverVars
    <2>2. Sent' = Sent  BY <1>6, <2>1, DeliverKeeps DEF CodexInv
    <2>3. UNCHANGED <<stdin, heard>>  BY <1>6 DEF Deliver
    <2>4. Settles  BY <1>6, <2>2, DeliverSettles
    <2> QED  BY <2>1, <2>3, <2>4, SilentStops DEF StdinStep
  <1>7. ASSUME NEW s \in Sends, StartRefused(s), UNCHANGED serverVars  PROVE StopInv'
    BY <1>0, <1>1, <1>7, AnswersAreTame, RefusalSettles
  <1>8. ASSUME NEW s \in Sends, Send(s), UNCHANGED serverVars  PROVE StopInv'
    <2>1. UNCHANGED <<stdout, turn, ran, owed>>  BY <1>8 DEF serverVars
    <2>2. Sent' = Sent \cup {s} BY <1>8 DEF Send, Settled, Sent
    <2>3. LiveAreHeld' /\ GensAreLed' /\ IdsAreTrue'  BY <1>8, <2>1, <2>2, SendIsHeld
    <2>4. ReadOnce'  BY <1>8, <2>1, SendIsReadOnce DEF StopInv
    <2>5. UNCHANGED heard  BY <1>8 DEF Send
    <2>6. LinesAreTrue'  BY <2>1, <2>5 DEF StopInv, LinesAreTrue, Ends
    <2> QED  BY <2>3, <2>4, <2>6 DEF StopInv
  <1>9. ASSUME NEW s, NEW g, NEW w, UNCHANGED serverVars,
               \/ Interrupt \/ StopWakes(g) \/ SettleEarly(s) \/ Answered(w)
               \/ Close \/ Drain \/ DrainCloses
        PROVE  StopInv'
    BY <1>0, <1>1, <1>9, CallsAreTame, CallsSettle
  <1>10. CASE HostActs  BY <1>8, <1>9, <1>10 DEF HostActs
  <1>11. CASE Delivers  BY <1>6, <1>11 DEF Delivers
  <1>12. CASE Releases  BY <1>7, <1>9, <1>12 DEF Releases, WriteFails
  <1>13. ASSUME NEW g \in DOMAIN stops, Wakes(g)  PROVE StopInv' BY <1>9, <1>13 DEF Wakes
  <1>14. CASE UNCHANGED systemVars
    <2>1. UNCHANGED vars /\ UNCHANGED serverVars  BY <1>14 DEF systemVars
    <2>2. Tame  BY <1>0, <2>1, SessionRests
    <2>3. UNCHANGED <<turnVars, state, result>>  BY <2>1 DEF vars
    <2>4. Settles  BY <2>2, <2>3, RestSettles DEF Pending
    <2> QED  BY <1>1, <2>1, <2>2, <2>4
  <1> QED  BY <1>2, <1>3, <1>4, <1>5, <1>10, <1>11, <1>12, <1>13, <1>14 DEF Next

LEMMA InitStops == SystemInit => StopInv
  <1> SUFFICES ASSUME SystemInit  PROVE StopInv OBVIOUS
  <1> USE DEF SystemInit, Init
  <1>1. Sent = {} /\ Unread = {} /\ Ends = {} /\ Pending = {} /\ DOMAIN stdout = {}
    BY DEF Sent, Unread, Ends, Pending
  <1>2. ReadOnce  BY <1>1 DEF ReadOnce
  <1>3. LiveAreHeld  BY <1>1 DEF LiveAreHeld, Live
  <1>4. LinesAreTrue  BY <1>1 DEF LinesAreTrue
  <1>5. GensAreLed BY FS_EmptySet, <1>1 DEF GensAreLed
  <1>6. IdsAreTrue  BY DEF IdsAreTrue, Nameless
  <1> QED  BY <1>2, <1>3, <1>4, <1>5, <1>6 DEF StopInv

LEMMA StopsAreEnough == CodexInv /\ StopInv => Stoppable
  <1> SUFFICES ASSUME CodexInv, StopInv, ~OutOfStep  PROVE LatchHolds /\ CapturesOwnTurn BY DEF Stoppable
  <1>0. turn \in Turns \cup {NoTurn} /\ ran \in [Turns -> SUBSET Sent] BY DEF CodexInv, TurnsEndOnce
  <1>1. LatchHolds
    <2> SUFFICES ASSUME turn # NoTurn, NEW s \in ran[turn] \cap Pending
                 PROVE  latch = gen[s] /\ ~terminal /\ state # "idle"
      BY DEF LatchHolds
    <2>1. s \in Sends /\ result[s] = "pending"  BY DEF Pending
    <2>2. Live(s)  BY <1>0 DEF Live, StopInv, ReadOnce
    <2>3. ~Strayed(s)  BY <2>1 DEF Strayed, OutOfStep
    <2>4. Held(s)  BY <2>1, <2>2, <2>3 DEF StopInv, LiveAreHeld
    <2> QED  BY <2>4 DEF Held
  <1>2. ~Crossed  BY DEF Crossed, OutOfStep, Sent
  <1>3. CapturesOwnTurn  BY <1>2 DEF CapturesOwnTurn, StopInv, IdsAreTrue, IsTurnOf
  <1> QED  BY <1>1, <1>3

\* Theorem: where the app-server says once that a turn ended, and unless session and
\* app-server grouped the sends differently, the latch is that of the turn that runs a
\* waiting send until its end is handled, and the id an interrupt() names is that of a turn
\* that runs a send of the latch: it stops the turn that runs, and no other.
THEOREM CodexStopsItsTurn ==
    ASSUME ~Repeats
    PROVE  Spec => []Stoppable
  <1>1. SystemInit => CodexInv /\ StopInv  BY InitIsSound, InitStops
  <1>2. CodexInv /\ StopInv /\ [Next]_systemVars => CodexInv' /\ StopInv' BY NextKeeps, NextKeepsStops
  <1>3. CodexInv /\ StopInv => Stoppable  BY StopsAreEnough
  <1> QED  BY <1>1, <1>2, <1>3, PTL DEF Spec


-----------------------------------------------------------------------------
(* SavedHistories: a set in a row                                          *)

\* The set in some order, each of it once.
LEMMA InSomeOrder ==
    ASSUME NEW S, IsFiniteSet(S)
    PROVE  /\ SetToSeq(S) \in Seq(S) /\ IsInjective(SetToSeq(S))
           /\ \A x \in S : \E n \in DOMAIN SetToSeq(S) : SetToSeq(S)[n] = x
<1> DEFINE n == Cardinality(S)
           q == SetToSeq(S)
<1>1. n \in Nat /\ ExistsBijection(1 .. n, S) /\ IsFiniteSet(1 .. n) /\ Cardinality(1 .. n) = n
  BY FS_CardinalityType, FS_Interval
<1>2. \E f \in [1 .. n -> S] : IsInjective(f) BY <1>1 DEF ExistsBijection, Bijection, Injection
<1>3. q \in [1 .. n -> S] /\ IsInjective(q) BY <1>2 DEF SetToSeq
<1>4. q \in Injection(1 .. n, S) BY <1>3 DEF Injection
<1>5. q \in Surjection(1 .. n, S) BY <1>1, <1>4, FS_Injection
<1>6. q \in Seq(S) BY <1>1, <1>3
<1>7. QED BY <1>3, <1>5, <1>6 DEF Surjection

\* The set by its ages, which differ: the rank of an element is how many are not younger.
LEMMA InOrderOfAge ==
    ASSUME NEW S, IsFiniteSet(S), NEW age, \A x \in S : age[x] \in Nat,
           \A x, y \in S : age[x] = age[y] => x = y
    PROVE  /\ NewestFirst(S, age) \in Seq(S)
           /\ \A i, j \in DOMAIN NewestFirst(S, age) : i < j => age[NewestFirst(S, age)[i]] > age[NewestFirst(S, age)[j]]
           /\ \A x \in S : \E n \in DOMAIN NewestFirst(S, age) : NewestFirst(S, age)[n] = x
<1> DEFINE n == Cardinality(S)
           Upto(x) == {y \in S : age[y] >= age[x]}
           rank == [x \in S |-> Cardinality(Upto(x))]
           q == NewestFirst(S, age)
<1>1. n \in Nat /\ IsFiniteSet(1 .. n) /\ Cardinality(1 .. n) = n BY FS_CardinalityType, FS_Interval
<1>2. \A x \in S : IsFiniteSet(Upto(x)) /\ Cardinality(Upto(x)) \in 1 .. n
  <2>1. TAKE x \in S
  <2>2. Upto(x) \in SUBSET S /\ x \in Upto(x) OBVIOUS
  <2> HIDE DEF Upto
  <2>3. IsFiniteSet(Upto(x)) /\ Cardinality(Upto(x)) <= n /\ Cardinality(Upto(x)) \in Nat
    BY <2>2, FS_Subset, FS_CardinalityType
  <2>4. Cardinality(Upto(x)) # 0 BY <2>2, <2>3, FS_EmptySet
  <2>5. QED BY <1>1, <2>3, <2>4
<1>3. \A x, y \in S : age[x] > age[y] => Cardinality(Upto(x)) < Cardinality(Upto(y))
  <2>1. SUFFICES ASSUME NEW x \in S, NEW y \in S, age[x] > age[y] PROVE Cardinality(Upto(x)) < Cardinality(Upto(y))
    OBVIOUS
  <2>2. Upto(x) \in SUBSET Upto(y) /\ y \in Upto(y) /\ y \notin Upto(x) BY <2>1
  <2>3. IsFiniteSet(Upto(y)) /\ Cardinality(Upto(x)) \in Nat /\ Cardinality(Upto(y)) \in Nat BY <1>2
  <2> HIDE DEF Upto
  <2>4. Cardinality(Upto(x)) <= Cardinality(Upto(y)) /\ (Cardinality(Upto(y)) = Cardinality(Upto(x)) => Upto(x) = Upto(y))
    BY <2>2, <2>3, FS_Subset
  <2>5. QED BY <2>2, <2>3, <2>4
<1> HIDE DEF Upto
<1>4. rank \in Injection(S, 1 .. n)
  <2>1. rank \in [S -> 1 .. n] BY <1>2
  <2>2. ASSUME NEW x \in S, NEW y \in S, rank[x] = rank[y] PROVE x = y BY <1>2, <2>2, <1>3
  <2>3. QED BY <2>1, <2>2 DEF Injection, IsInjective
<1>5. rank \in Surjection(S, 1 .. n) BY <1>1, <1>4, FS_Injection
<1> DEFINE r == [i \in 1 .. n |-> CHOOSE x \in S : rank[x] = i]
<1>6. \A i \in 1 .. n : r[i] \in S /\ rank[r[i]] = i BY <1>5 DEF Surjection
<1>7. \A i, j \in 1 .. n : i < j => age[r[i]] > age[r[j]]
  <2>1. SUFFICES ASSUME NEW i \in 1 .. n, NEW j \in 1 .. n, i < j PROVE age[r[i]] > age[r[j]] OBVIOUS
  <2>2. r[i] \in S /\ r[j] \in S /\ Cardinality(Upto(r[i])) = i /\ Cardinality(Upto(r[j])) = j BY <1>6
  <2> HIDE DEF r, rank
  <2>3. age[r[i]] \in Nat /\ age[r[j]] \in Nat /\ i \in Nat /\ j \in Nat BY <1>1, <2>2
  <2>4. r[i] # r[j] /\ ~(age[r[j]] > age[r[i]]) BY <1>3, <2>1, <2>2, <2>3
  <2>5. QED BY <2>2, <2>3, <2>4
<1>8. r \in [1 .. n -> S] BY <1>6
<1> HIDE DEF r, rank
<1>9. /\ q \in [1 .. n -> S]
      /\ \A i, j \in DOMAIN q : i < j => age[q[i]] > age[q[j]]
  <2>1. \A i, j \in 1 .. n : i < j => r[i] # r[j] /\ age[r[i]] >= age[r[j]] BY <1>6, <1>7
  <2>2. \E list \in [1 .. n -> S] :
            \A i, j \in DOMAIN list : i < j => list[i] # list[j] /\ age[list[i]] >= age[list[j]]
    BY <1>8, <2>1
  <2>3. /\ q \in [1 .. n -> S]
        /\ \A i, j \in DOMAIN q : i < j => q[i] # q[j] /\ age[q[i]] >= age[q[j]]
    BY <2>2 DEF NewestFirst
  <2> HIDE DEF q
  <2>4. ASSUME NEW i \in 1 .. n, NEW j \in 1 .. n, i < j PROVE age[q[i]] > age[q[j]] BY <2>3, <2>4
  <2>5. QED BY <2>3, <2>4
<1>10. q \in Injection(1 .. n, S)
  <2>1. ASSUME NEW i \in 1 .. n, NEW j \in 1 .. n, q[i] = q[j] PROVE i = j BY <1>1, <1>9, <2>1
  <2>2. QED BY <1>9, <2>1 DEF Injection, IsInjective
<1>11. q \in Surjection(1 .. n, S) BY <1>1, <1>10, FS_Injection
<1>12. q \in Seq(S) BY <1>1, <1>9
<1>13. QED BY <1>9, <1>11, <1>12 DEF Surjection

\* Among some numbers there is a first: the last of them, the greatest first.
LEMMA FirstOfSome ==
    ASSUME NEW T, \A x \in T : x \in Nat, IsFiniteSet(T), T # {}
    PROVE  \E x \in T : \A y \in T : x <= y
<1> DEFINE age == [x \in T |-> x]
           q == NewestFirst(T, age)
<1>1. (\A x \in T : age[x] \in Nat) /\ \A x, y \in T : age[x] = age[y] => x = y OBVIOUS
<1> HIDE DEF age
<1>2. /\ q \in Seq(T) /\ \A i, j \in DOMAIN q : i < j => age[q[i]] > age[q[j]]
      /\ \A x \in T : \E n \in DOMAIN q : q[n] = x
  BY <1>1, InOrderOfAge
<1> HIDE DEF q
<1>3. Len(q) \in Nat /\ DOMAIN q = 1 .. Len(q) /\ \A i \in 1 .. Len(q) : q[i] \in T /\ age[q[i]] = q[i]
  BY <1>2 DEF age
<1>4. \A i, j \in 1 .. Len(q) : i < j => q[i] > q[j] BY <1>2, <1>3
<1>5. Len(q) \in 1 .. Len(q) BY <1>2, <1>3
<1>6. \A i \in 1 .. Len(q) : q[Len(q)] <= q[i]
  <2>1. TAKE i \in 1 .. Len(q)
  <2>2. CASE i < Len(q) BY <1>3, <1>4, <1>5, <2>2
  <2>3. CASE i = Len(q) BY <1>3, <1>5, <2>3
  <2>4. i \in Nat /\ i <= Len(q) /\ Len(q) \in Nat BY <1>3
  <2> HIDE DEF q
  <2>5. i < Len(q) \/ i = Len(q) BY <2>4
  <2>6. QED BY <2>2, <2>3, <2>5
<1>7. q[Len(q)] \in T BY <1>3, <1>5
<1> HIDE DEF q
<1>8. ASSUME NEW y \in T PROVE q[Len(q)] <= y
  <2>1. PICK n \in DOMAIN q : q[n] = y BY <1>2
  <2>2. n \in 1 .. Len(q) BY <1>3, <2>1
  <2>3. QED BY <1>6, <2>1, <2>2
<1>9. QED BY <1>7, <1>8

-----------------------------------------------------------------------------
(* SavedHistories: the invariant                                           *)

\* What a runtime keeps: no two sessions ever changed at once, none changes later than now,
\* and one to which nothing happened is where it was.
AgesApart ==
    /\ kept \in [Saved -> [child : BOOLEAN, spoken : BOOLEAN, at : [Places -> Nat]]]
    /\ events.count \in Nat
    /\ \A s \in Saved, p \in Places : kept[s].at[p] < Now
    /\ \A s, t \in Saved : s # t => \A p, q \in Places : kept[s].at[p] # 0 => kept[s].at[p] # kept[t].at[q]
    /\ \A s \in Saved : s \notin events.on =>
           /\ IsThere(s)
           /\ kept[s].at["active"] = 0 \/ kept[s].at["archived"] = 0

ScanOf(things) ==
    [at : {scan.at}, kind : {scan.kind}, legacy : BOOLEAN, limit : Nat, pages : Nat, list : Seq(things), cursor : Nat,
     next : Nat \ {0}, busy : SUBSET DOMAIN scan.list, results : {scan.results}, failed : BOOLEAN, inspected : Nat,
     told : Seq(things)]

Unmoved(s) == s \notin events.on

(* Pages of a server *)

\* What the server has not been asked for yet.
Left(s) == (scan.at \in {"idle", "page"} /\ scan.cursor = 0) \/ ChangedAt(s) < scan.cursor

\* An entry of the page that may still be told.
ToTell(n) == n \in DOMAIN scan.list /\ (scan.at = "inspecting" \/ (scan.at = "telling" /\ n >= scan.next))

PagesTyped ==
    /\ scan.at \in {"idle", "page", "inspecting", "telling", "done", "failed"}
    /\ scan \in ScanOf(Saved)
    /\ scan.results \in [DOMAIN scan.list -> {"none", "found"}]
    /\ scan.legacy => scan.cursor = 0
    /\ scan.at # "inspecting" => scan.busy = {}
    /\ Cardinality(scan.busy) <= INSPECTION_CONCURRENCY
    /\ \A i, j \in DOMAIN scan.told : scan.told[i] = scan.told[j] => i = j
    /\ \A i, j \in DOMAIN scan.list : scan.list[i] = scan.list[j] => i = j

\* What was told, or is about to be, is not asked for again.
PagesPass ==
    /\ \A s \in ToldIds : IsThere(s) /\ scan.at # "done" => ~Left(s)
    /\ \A n \in DOMAIN scan.list : scan.at \in {"inspecting", "telling"} /\ IsThere(scan.list[n]) => ~Left(scan.list[n])

\* Newest first, as far as nothing happened to them.
PagesInOrder ==
    /\ \A i, j \in DOMAIN scan.list :
           scan.at \in {"inspecting", "telling"} /\ i < j /\ Unmoved(scan.list[i]) /\ Unmoved(scan.list[j])
               => ChangedAt(scan.list[i]) > ChangedAt(scan.list[j])
    /\ \A n \in DOMAIN scan.list : ToTell(n) =>
           /\ scan.list[n] \notin ToldIds
           /\ \A t \in ToldIds : Unmoved(t) /\ Unmoved(scan.list[n]) => ChangedAt(t) > ChangedAt(scan.list[n])

PagesSeen ==
    \A n \in DOMAIN scan.list :
        scan.at = "inspecting" /\ ~scan.failed /\ n < scan.next /\ n \notin scan.busy /\ Sought(scan.list[n])
            => scan.results[n] = "found"

PagesCover ==
    \A s \in Saved : Sought(s) /\ scan.at \notin {"done", "failed"} =>
        \/ s \in ToldIds \/ Left(s)
        \/ \E n \in DOMAIN scan.list : /\ ToTell(n) /\ scan.list[n] = s
                                       /\ scan.at = "telling" => scan.results[n] = "found"

PagesAreRight == PagesTyped /\ PagesPass /\ PagesInOrder /\ PagesSeen /\ PagesCover /\ CatalogIsWhole

(* Files *)

FoundOnes == {n \in DOMAIN scan.list : scan.results[n] = "found"}

FilesTyped ==
    /\ scan.at \in {"idle", "page", "archive", "stats", "inspecting", "telling", "done", "failed"}
    /\ scan \in ScanOf(Saved \X Places)
    /\ ~scan.legacy
    /\ scan.at \in {"idle", "page", "archive", "telling", "done", "failed"} => scan.busy = {}
    /\ scan.at \notin {"telling", "done", "failed"} => scan.told = << >>
    /\ \A i, j \in DOMAIN scan.told : scan.told[i][1] = scan.told[j][1] => i = j
    /\ \A i, j \in DOMAIN scan.list : scan.list[i][1] = scan.list[j][1] => i = j
    /\ scan.at = "stats" => scan.results \in [DOMAIN scan.list -> Nat]
    /\ scan.at \in {"inspecting", "telling"} => scan.results \in [DOMAIN scan.list -> {"none", "found"}]
    /\ scan.at = "inspecting" => scan.next \in 1 .. Len(scan.list) + 1

\* A file that was listed is where it was found as long as there is one.
FilesStay ==
    \A n \in DOMAIN scan.list : IsThere(scan.list[n][1]) => kept[scan.list[n][1]].at[scan.list[n][2]] # 0

FilesListed ==
    \A s \in Saved : IsThere(s) =>
        \/ scan.at \in {"idle", "page", "done", "failed"}
        \/ scan.at = "archive" /\ kept[s].at["archived"] # 0
        \/ \E n \in DOMAIN scan.list : scan.list[n][1] = s

FilesDated ==
    scan.at = "stats" =>
        \A n \in DOMAIN scan.list :
            /\ IsThere(scan.list[n][1]) /\ n \notin scan.busy => scan.results[n] # 0
            /\ scan.results[n] # 0 =>
                   /\ scan.results[n] < Now
                   /\ Unmoved(scan.list[n][1]) => scan.results[n] = ChangedAt(scan.list[n][1])
                   /\ \A t \in Saved, p \in Places : t # scan.list[n][1] => kept[t].at[p] # scan.results[n]
                   /\ \A m \in DOMAIN scan.list : scan.results[m] = scan.results[n] => m = n

FilesInOrder ==
    \A i, j \in DOMAIN scan.list :
        scan.at \in {"inspecting", "telling"} /\ i < j /\ Unmoved(scan.list[i][1]) /\ Unmoved(scan.list[j][1])
            => ChangedAt(scan.list[i][1]) > ChangedAt(scan.list[j][1])

FilesSeen ==
    scan.at = "inspecting" =>
        /\ \A n \in DOMAIN scan.list :
               /\ n < scan.next /\ n \notin scan.busy /\ Sought(scan.list[n][1]) => scan.results[n] = "found"
               /\ n \in FoundOnes \cup scan.busy => n < scan.next
        /\ scan.limit # 0 => Cardinality(FoundOnes \cup scan.busy) <= scan.limit

FilesTold ==
    scan.at = "telling" =>
        /\ \A n \in DOMAIN scan.list : Sought(scan.list[n][1]) /\ n \notin FoundOnes =>
               scan.limit # 0 /\ Cardinality(FoundOnes) = scan.limit /\ \A m \in FoundOnes : m < n
        /\ Len(scan.told) = Cardinality({n \in FoundOnes : n < scan.next})
        /\ ToldIds = {scan.list[n][1] : n \in {m \in FoundOnes : m < scan.next}}

FilesAreRight ==
    /\ FilesTyped /\ FilesStay /\ FilesListed /\ FilesDated /\ FilesInOrder /\ FilesSeen /\ FilesTold /\ CatalogIsWhole

SavedInv ==
    /\ AgesApart
    /\ scan.kind \in {"server", "files"}
    /\ scan.kind = "server" => PagesAreRight
    /\ scan.kind = "files" => FilesAreRight

-----------------------------------------------------------------------------
(* What the runtimes do                                                    *)

\* When sessions changed.
LEMMA WhenTheyChanged ==
    ASSUME AgesApart
    PROVE  /\ Now \in Nat
           /\ \A s \in Saved :
                  /\ ChangedAt(s) \in Nat /\ ChangedAt(s) < Now
                  /\ IsThere(s) <=> ChangedAt(s) # 0
                  /\ Unmoved(s) => IsThere(s) /\ \A p \in Places : kept[s].at[p] # 0 => kept[s].at[p] = ChangedAt(s)
           /\ \A s, t \in Saved : IsThere(s) /\ ChangedAt(s) = ChangedAt(t) => s = t
<1>1. Now \in Nat BY SavedHistoriesAssumption, FS_CardinalityType DEF AgesApart, Now
<1>2. ASSUME NEW s \in Saved
      PROVE  /\ kept[s].at["active"] \in Nat /\ kept[s].at["archived"] \in Nat
             /\ kept[s].at["active"] < Now /\ kept[s].at["archived"] < Now
  BY DEF AgesApart, Places
<1>3. ASSUME NEW s \in Saved
      PROVE  /\ ChangedAt(s) \in Nat /\ ChangedAt(s) < Now
             /\ \E p \in Places : ChangedAt(s) = kept[s].at[p]
             /\ IsThere(s) <=> ChangedAt(s) # 0
  BY <1>1, <1>2 DEF ChangedAt, IsThere, NoFile, Places
<1>4. ASSUME NEW s \in Saved, Unmoved(s)
      PROVE  IsThere(s) /\ \A p \in Places : kept[s].at[p] # 0 => kept[s].at[p] = ChangedAt(s)
  BY <1>4, <1>2 DEF AgesApart, Unmoved, ChangedAt, Places
<1>5. ASSUME NEW s \in Saved, NEW t \in Saved, IsThere(s), ChangedAt(s) = ChangedAt(t) PROVE s = t
  <2>1. PICK p \in Places, q \in Places : ChangedAt(s) = kept[s].at[p] /\ ChangedAt(t) = kept[t].at[q] BY <1>3
  <2>2. QED BY <1>3, <1>5, <2>1 DEF AgesApart
<1>6. QED BY <1>1, <1>3, <1>4, <1>5

\* What may become of what is kept, while a discovery is under way.
Onwards ==
    /\ scan' = scan /\ scan.at \notin {"idle", "done", "failed"} /\ Now' = Now + 1
    /\ \A s \in Saved :
           /\ (IsThere(s))' => IsThere(s) /\ ChangedAt(s)' >= ChangedAt(s)
           /\ Unmoved(s)' => Unmoved(s) /\ kept'[s] = kept[s]
           /\ kept'[s].child = kept[s].child /\ kept'[s].spoken = kept[s].spoken
           /\ \A p \in Places : kept'[s].at[p] \in {0, Now, kept[s].at["active"], kept[s].at["archived"]}
           /\ scan.kind = "files" /\ ~FilesMove /\ (IsThere(s))' =>
                  \A p \in Places : kept[s].at[p] # 0 => kept'[s].at[p] # 0

\* Whatever is made of a session: no other has its ages, and it is as new as before or gone.
LEMMA ThingsHappen ==
    ASSUME AgesApart, NEW s \in Saved, NEW changed, Happens(s, changed),
           changed \in [child : BOOLEAN, spoken : BOOLEAN, at : [Places -> Nat]],
           changed.child = kept[s].child, changed.spoken = kept[s].spoken,
           \A p \in Places : changed.at[p] \in {0, Now, kept[s].at["active"], kept[s].at["archived"]},
           \/ \A p \in Places : changed.at[p] = 0
           \/ /\ \/ changed.at["active"] >= ChangedAt(s) \/ changed.at["archived"] >= ChangedAt(s)
              /\ scan.kind = "files" /\ ~FilesMove => \A p \in Places : kept[s].at[p] # 0 => changed.at[p] # 0
    PROVE  AgesApart' /\ Onwards
<1>1. /\ kept' = [kept EXCEPT ![s] = changed] /\ events'.count = events.count + 1 /\ events'.on = events.on \cup {s}
      /\ scan' = scan /\ scan.at \notin {"idle", "done", "failed"} /\ IsThere(s)
  BY DEF Happens
<1>2. Now \in Nat /\ Now' = Now + 1 /\ events'.count \in Nat
  <2>1. Now \in Nat /\ events.count \in Nat /\ Cardinality(Saved) \in Nat
    BY WhenTheyChanged, SavedHistoriesAssumption, FS_CardinalityType DEF AgesApart
  <2>2. QED BY <1>1, <2>1 DEF Now
<1>3. kept \in [Saved -> [child : BOOLEAN, spoken : BOOLEAN, at : [Places -> Nat]]] BY DEF AgesApart
<1>4. kept' \in [Saved -> [child : BOOLEAN, spoken : BOOLEAN, at : [Places -> Nat]]] BY <1>1, <1>3
<1>5. kept'[s] = changed /\ \A t \in Saved : t # s => kept'[t] = kept[t] BY <1>1, <1>3
<1>6. \A t \in Saved, p \in Places : /\ kept[t].at[p] \in Nat /\ kept[t].at[p] < Now
                                     /\ kept'[t].at[p] \in Nat /\ kept'[t].at[p] < Now'
  BY <1>3, <1>2, <1>5 DEF AgesApart, Places
<1>7. \A t \in Saved, p \in Places : kept'[t].at[p] \in {0, Now, kept[t].at["active"], kept[t].at["archived"]}
  BY <1>5 DEF Places
<1>8. ASSUME NEW t \in Saved, NEW u \in Saved, t # u, NEW p \in Places, NEW q \in Places, kept'[t].at[p] # 0
      PROVE  kept'[t].at[p] # kept'[u].at[q]
  <2>1. \A r, o \in Places : kept[t].at[r] # 0 => kept[t].at[r] # kept[u].at[o] BY <1>8 DEF AgesApart
  <2>2. \A r, o \in Places : kept[t].at[r] < Now /\ kept[u].at[o] < Now /\ kept[t].at[r] \in Nat /\ kept[u].at[o] \in Nat
    BY <1>6
  <2>3. CASE t # s BY <1>5, <2>3, <1>7, <1>2, <1>8, <2>1, <2>2 DEF Places
  <2>4. CASE t = s BY <1>5, <1>8, <2>4, <1>7, <1>2, <2>1, <2>2 DEF Places
  <2>5. QED BY <2>3, <2>4
<1>9. ASSUME NEW t \in Saved
      PROVE  /\ (IsThere(t))' => IsThere(t) /\ ChangedAt(t)' >= ChangedAt(t)
             /\ Unmoved(t)' => Unmoved(t) /\ kept'[t] = kept[t]
             /\ kept'[t].child = kept[t].child /\ kept'[t].spoken = kept[t].spoken
             /\ scan.kind = "files" /\ ~FilesMove /\ (IsThere(t))' =>
                    \A p \in Places : kept[t].at[p] # 0 => kept'[t].at[p] # 0
  <2>1. CASE t # s BY <1>1, <1>5, <2>1, WhenTheyChanged DEF IsThere, ChangedAt, Unmoved
  <2>2. CASE t = s
    <3>1. kept'[s] = changed /\ ~Unmoved(s)' BY <1>1, <1>5 DEF Unmoved
    <3>2. changed.at["active"] \in Nat /\ changed.at["archived"] \in Nat /\ ChangedAt(s) \in Nat
      BY WhenTheyChanged DEF Places
    <3>3. (IsThere(s))' => \E p \in Places : changed.at[p] # 0 BY <3>1 DEF IsThere, NoFile
    <3>4. ChangedAt(s)' >= changed.at["active"] /\ ChangedAt(s)' >= changed.at["archived"] /\ ChangedAt(s)' \in Nat
      BY <3>1, <3>2 DEF ChangedAt
    <3>5. (IsThere(s))' => ChangedAt(s)' >= ChangedAt(s) BY <3>2, <3>3, <3>4
    <3>6. QED BY <1>1, <2>2, <3>1, <3>3, <3>5
  <2>3. QED BY <2>1, <2>2
<1>10. \A t \in Saved : t \notin events'.on =>
           (IsThere(t))' /\ (kept'[t].at["active"] = 0 \/ kept'[t].at["archived"] = 0)
  BY <1>1, <1>5 DEF AgesApart, IsThere
<1>11. QED BY <1>1, <1>2, <1>4, <1>6, <1>7, <1>8, <1>9, <1>10 DEF AgesApart, Onwards

\* That holds of a message, a removal, a copy and a move.
LEMMA RuntimeGoesOn ==
    ASSUME AgesApart, NEW s \in Saved,
           \/ TouchesSession(s) \/ RemovesSession(s) \/ Copies(s)
           \/ \E from, to \in Places : Moves(s, from, to)
    PROVE  AgesApart' /\ Onwards
<1>1. /\ kept[s] \in [child : BOOLEAN, spoken : BOOLEAN, at : [Places -> Nat]]
      /\ Now \in Nat /\ \A p \in Places : kept[s].at[p] \in Nat /\ kept[s].at[p] < Now
      /\ ChangedAt(s) \in Nat /\ ChangedAt(s) < Now
  BY WhenTheyChanged DEF AgesApart
<1>2. CASE TouchesSession(s)
  <2>1. PICK p \in Places : kept[s].at[p] # NoFile /\ Happens(s, [kept[s] EXCEPT !.at[p] = Now])
    BY <1>2 DEF TouchesSession
  <2> DEFINE changed == [kept[s] EXCEPT !.at[p] = Now]
  <2>2. /\ changed \in [child : BOOLEAN, spoken : BOOLEAN, at : [Places -> Nat]]
        /\ changed.child = kept[s].child /\ changed.spoken = kept[s].spoken
        /\ changed.at[p] = Now /\ \A q \in Places : q # p => changed.at[q] = kept[s].at[q]
    BY <1>1
  <2> HIDE DEF changed
  <2>3. /\ \A q \in Places : changed.at[q] \in {0, Now, kept[s].at["active"], kept[s].at["archived"]}
        /\ changed.at["active"] >= ChangedAt(s) \/ changed.at["archived"] >= ChangedAt(s)
        /\ \A q \in Places : kept[s].at[q] # 0 => changed.at[q] # 0
    BY <1>1, <2>2 DEF Places
  <2>4. Happens(s, changed) BY <2>1 DEF changed
  <2>5. QED BY <2>2, <2>3, <2>4, ThingsHappen
<1>3. CASE RemovesSession(s)
  <2> DEFINE changed == [kept[s] EXCEPT !.at = [p \in Places |-> NoFile]]
  <2>1. /\ changed \in [child : BOOLEAN, spoken : BOOLEAN, at : [Places -> Nat]]
        /\ changed.child = kept[s].child /\ changed.spoken = kept[s].spoken
        /\ \A p \in Places : changed.at[p] = 0
    BY <1>1 DEF NoFile
  <2>2. Happens(s, changed) BY <1>3 DEF RemovesSession
  <2> HIDE DEF changed
  <2>3. \A q \in Places : changed.at[q] \in {0, Now, kept[s].at["active"], kept[s].at["archived"]} BY <2>1
  <2>4. QED BY <2>1, <2>2, <2>3, ThingsHappen
<1>4. CASE Copies(s)
  <2> DEFINE changed == [kept[s] EXCEPT !.at["archived"] = kept[s].at["active"]]
  <2>1. /\ changed \in [child : BOOLEAN, spoken : BOOLEAN, at : [Places -> Nat]]
        /\ changed.child = kept[s].child /\ changed.spoken = kept[s].spoken
        /\ changed.at["archived"] = kept[s].at["active"] /\ changed.at["active"] = kept[s].at["active"]
    BY <1>1 DEF Places
  <2>2. Happens(s, changed) /\ kept[s].at["active"] # 0 /\ kept[s].at["archived"] = 0 BY <1>4 DEF Copies, NoFile
  <2> HIDE DEF changed
  <2>3. ChangedAt(s) = kept[s].at["active"] BY <1>1, <2>2 DEF ChangedAt, Places
  <2>4. /\ \A q \in Places : changed.at[q] \in {0, Now, kept[s].at["active"], kept[s].at["archived"]}
        /\ changed.at["active"] >= ChangedAt(s)
        /\ \A q \in Places : kept[s].at[q] # 0 => changed.at[q] # 0
    BY <1>1, <2>1, <2>2, <2>3 DEF Places
  <2>5. QED BY <2>1, <2>2, <2>4, ThingsHappen
<1>5. CASE \E from, to \in Places : Moves(s, from, to)
  <2>1. PICK from \in Places, to \in Places : Moves(s, from, to) BY <1>5
  <2> DEFINE changed == [kept[s] EXCEPT !.at[to] = kept[s].at[from], !.at[from] = NoFile]
  <2>2. /\ from # to /\ kept[s].at[from] # 0 /\ kept[s].at[to] = 0
        /\ scan.kind = "files" => FilesMove
        /\ Happens(s, changed)
    BY <2>1 DEF Moves, NoFile
  <2>3. /\ changed \in [child : BOOLEAN, spoken : BOOLEAN, at : [Places -> Nat]]
        /\ changed.child = kept[s].child /\ changed.spoken = kept[s].spoken
        /\ changed.at[to] = kept[s].at[from] /\ changed.at[from] = 0
    BY <1>1, <2>2 DEF NoFile
  <2> HIDE DEF changed
  <2>4. ChangedAt(s) = kept[s].at[from] BY <1>1, <2>2 DEF ChangedAt, Places
  <2>5. /\ \A q \in Places : changed.at[q] \in {0, Now, kept[s].at["active"], kept[s].at["archived"]}
        /\ changed.at["active"] >= ChangedAt(s) \/ changed.at["archived"] >= ChangedAt(s)
    BY <1>1, <2>2, <2>3, <2>4 DEF Places
  <2>6. QED BY <2>2, <2>3, <2>5, ThingsHappen
<1>6. QED BY <1>2, <1>3, <1>4, <1>5

-----------------------------------------------------------------------------
(* Pages of a server: each step                                            *)

\* A step of the discovery leaves the sessions alone.
LEMMA NothingHappens ==
    ASSUME kept' = kept, events' = events, scan'.kind = scan.kind, scan'.legacy = scan.legacy
    PROVE  /\ \A s : /\ (IsThere(s))' <=> IsThere(s)
                     /\ ChangedAt(s)' = ChangedAt(s)
                     /\ Unmoved(s)' <=> Unmoved(s)
                     /\ Sought(s)' <=> Sought(s)
           /\ Now' = Now
           /\ AgesApart => AgesApart'
<1>1. /\ \A s : /\ (IsThere(s))' <=> IsThere(s)
                /\ ChangedAt(s)' = ChangedAt(s)
                /\ Unmoved(s)' <=> Unmoved(s)
      /\ Now' = Now
  BY DEF IsThere, ChangedAt, Unmoved, Now
<1>2. \A s : Sought(s)' <=> Sought(s) BY <1>1 DEF Sought
<1>3. AgesApart => AgesApart' BY <1>1 DEF AgesApart
<1>4. QED BY <1>1, <1>2, <1>3

\* A page of those that are ordered by age: the rest is older than where the cut is made.
LEMMA CutToSize ==
    ASSUME NEW m \in Nat, NEW size \in Nat, size = 0 => m = 0,
           NEW age \in [1 .. m -> Nat], \A i, j \in 1 .. m : i < j => age[i] > age[j],
           NEW k, k = IF m < size THEN m ELSE size,
           NEW next, next = IF m > size THEN age[size] ELSE 0
    PROVE  /\ next \in Nat /\ k \in 0 .. m
           /\ \A n \in 1 .. k : ~(age[n] < next)
           /\ \A n \in 1 .. m : n \in 1 .. k \/ age[n] < next
           /\ next # 0 => \E n \in 1 .. m : next = age[n]
           /\ size = m => next = 0
<1>1. CASE m > size
  <2>1. k = size /\ size \in 1 .. m /\ next = age[size] /\ next \in Nat BY <1>1
  <2>2. ASSUME NEW n \in 1 .. k PROVE ~(age[n] < next) BY <2>1
  <2>3. ASSUME NEW n \in 1 .. m, n \notin 1 .. k PROVE age[n] < next BY <2>1, <2>3
  <2>4. QED BY <1>1, <2>1, <2>2, <2>3
<1>2. CASE ~(m > size) BY <1>2
<1>3. QED BY <1>1, <1>2

\* The page is the newest of what the server was not asked for yet, and the rest is left.
LEMMA NextPage ==
    ASSUME AgesApart, PagesTyped, scan.at = "page", NEW list, NEW next,
           list = PageAfter(scan.cursor).list, next = PageAfter(scan.cursor).next
    PROVE  /\ list \in Seq(Saved) /\ next \in Nat
           /\ \A i, j \in DOMAIN list : i < j => ChangedAt(list[i]) > ChangedAt(list[j])
           /\ \A n \in DOMAIN list : IsThere(list[n]) /\ Left(list[n]) /\ ~(ChangedAt(list[n]) < next)
           /\ \A s \in Listed : Left(s) => ChangedAt(s) < next \/ \E n \in DOMAIN list : list[n] = s
           /\ scan.legacy => next = 0
           /\ \A s \in Saved : IsThere(s) /\ ~Left(s) => ~(ChangedAt(s) < next)
<1>1. PICK age : age = [s \in Saved |-> ChangedAt(s)] OBVIOUS
<1>2. PICK S : S = {s \in Listed : scan.cursor = 0 \/ ChangedAt(s) < scan.cursor} OBVIOUS
<1>3. PICK older : older = NewestFirst(S, age) OBVIOUS
<1>4. PICK size : size = IF scan.legacy THEN Len(older) ELSE SESSION_PAGE_SIZE OBVIOUS
<1>5. /\ list = SubSeq(older, 1, IF Len(older) < size THEN Len(older) ELSE size)
      /\ next = IF Len(older) > size THEN ChangedAt(older[size]) ELSE 0
  BY <1>1, <1>2, <1>3, <1>4, Zenon DEF PageAfter
<1>6. scan.cursor \in Nat /\ \A s \in Saved : age[s] = ChangedAt(s) /\ ChangedAt(s) \in Nat
  BY <1>1, WhenTheyChanged DEF PagesTyped, ScanOf
<1>7. /\ S \subseteq Saved /\ (\A s \in S : IsThere(s) /\ Left(s) /\ age[s] \in Nat) /\ IsFiniteSet(S)
      /\ \A s \in Listed : Left(s) => s \in S
      /\ \A s \in S : scan.cursor # 0 => ChangedAt(s) < scan.cursor
  BY <1>2, <1>6, SavedHistoriesAssumption, FS_Subset DEF Listed, Left
<1>8. \A s, t \in S : age[s] = age[t] => s = t BY <1>6, <1>7, WhenTheyChanged
<1>9. /\ older \in Seq(S) /\ \A i, j \in DOMAIN older : i < j => age[older[i]] > age[older[j]]
      /\ \A s \in S : \E n \in DOMAIN older : older[n] = s
  BY <1>3, <1>7, <1>8, InOrderOfAge
<1>10. size \in Nat /\ (size = 0 => size = Len(older)) /\ (scan.legacy => size = Len(older))
  BY <1>4, <1>9, SavedHistoriesAssumption DEF PagesTyped, ScanOf
<1>11. PICK m \in Nat : m = Len(older) /\ DOMAIN older = 1 .. m /\ \A n \in 1 .. m : older[n] \in S BY <1>9
<1>12. PICK young \in [1 .. m -> Nat] : \A n \in 1 .. m : young[n] = age[older[n]]
  <2>1. [n \in 1 .. m |-> age[older[n]]] \in [1 .. m -> Nat] BY <1>7, <1>11
  <2>2. QED BY <2>1
<1> DEFINE k == IF m < size THEN m ELSE size
<1>13. k \in 0 .. m /\ (m > size => size \in 1 .. m) BY <1>10, <1>11
<1>14. /\ list = SubSeq(older, 1, k)
       /\ next = IF m > size THEN young[size] ELSE 0
  BY <1>5, <1>6, <1>7, <1>11, <1>12, <1>13
<1> HIDE DEF k
<1>15. list \in Seq(S) /\ DOMAIN list = 1 .. k /\ \A n \in 1 .. k : list[n] = older[n] /\ n \in 1 .. m
  <2>1. \A n \in 1 .. k : older[n] \in S /\ n \in 1 .. m BY <1>11, <1>13
  <2>2. k \in Int /\ 1 \in Int /\ \A n \in 1 .. k : older[n] \in S BY <1>13, <2>1
  <2>3. /\ SubSeq(older, 1, k) \in Seq(S) /\ Len(SubSeq(older, 1, k)) = IF 1 <= k THEN k - 1 + 1 ELSE 0
        /\ \A n \in 1 .. k - 1 + 1 : SubSeq(older, 1, k)[n] = older[1 + n - 1]
    BY <2>2, SubSeqProperties
  <2>4. /\ list \in Seq(S) /\ Len(list) = IF 1 <= k THEN k - 1 + 1 ELSE 0
        /\ \A n \in 1 .. k - 1 + 1 : list[n] = older[1 + n - 1]
    BY <1>14, <2>3
  <2>5. Len(list) = k /\ DOMAIN list = 1 .. k BY <1>13, <2>4
  <2>6. \A n \in 1 .. k : list[n] = older[n] BY <1>13, <2>4
  <2>7. QED BY <2>1, <2>4, <2>5, <2>6
<1>16. \A i, j \in 1 .. m : i < j => young[i] > young[j]
  <2>1. TAKE i, j \in 1 .. m
  <2>2. young[i] = age[older[i]] /\ young[j] = age[older[j]] /\ i \in DOMAIN older /\ j \in DOMAIN older
    BY <1>11, <1>12
  <2>3. QED BY <1>9, <2>2
<1>17. /\ next \in Nat
       /\ \A n \in 1 .. k : ~(young[n] < next)
       /\ \A n \in 1 .. m : n \in 1 .. k \/ young[n] < next
       /\ next # 0 => \E n \in 1 .. m : next = young[n]
       /\ size = m => next = 0
  <2>1. size = 0 => m = 0 BY <1>10, <1>11
  <2>2. k = IF m < size THEN m ELSE size BY DEF k
  <2>3. next = IF m > size THEN young[size] ELSE 0 BY <1>14
  <2>4. QED BY <1>10, <1>16, <2>1, <2>2, <2>3, CutToSize
<1>18. list \in Seq(Saved) /\ \A n \in 1 .. k : list[n] \in Saved /\ list[n] \in S /\ young[n] = ChangedAt(list[n])
  <2>1. list \in Seq(Saved) BY <1>7, <1>15
  <2>2. ASSUME NEW n \in 1 .. k PROVE list[n] \in Saved /\ list[n] \in S /\ young[n] = ChangedAt(list[n])
    BY <1>11, <1>15, <1>6, <1>7, <1>12
  <2>3. QED BY <2>1, <2>2
<1>19. \A i, j \in DOMAIN list : i < j => ChangedAt(list[i]) > ChangedAt(list[j]) BY <1>15, <1>16, <1>18
<1>20. \A n \in DOMAIN list : IsThere(list[n]) /\ Left(list[n]) /\ ~(ChangedAt(list[n]) < next)
  BY <1>7, <1>15, <1>17, <1>18
<1>21. ASSUME NEW s \in Listed, Left(s)
       PROVE  ChangedAt(s) < next \/ \E n \in DOMAIN list : list[n] = s
  <2>1. PICK n \in 1 .. m : older[n] = s BY <1>7, <1>9, <1>11, <1>21
  <2>2. young[n] = ChangedAt(s) BY <1>6, <1>12, <2>1 DEF Listed
  <2>3. QED BY <1>15, <1>17, <2>1, <2>2
<1>22. ASSUME NEW s \in Saved, IsThere(s), ~Left(s) PROVE ~(ChangedAt(s) < next)
  <2>1. scan.cursor # 0 /\ ~(ChangedAt(s) < scan.cursor) /\ ChangedAt(s) \in Nat BY <1>6, <1>22 DEF Left
  <2>2. CASE next # 0
    <3>1. PICK n \in 1 .. m : next = young[n] BY <1>17, <2>2
    <3>2. older[n] \in S /\ next = ChangedAt(older[n]) /\ next < scan.cursor
      BY <1>6, <1>7, <1>11, <1>12, <2>1, <3>1
    <3>3. QED BY <1>6, <1>17, <2>1, <3>2
  <2>3. CASE next = 0 BY <2>1, <2>3
  <2>4. QED BY <2>2, <2>3
<1>23. QED BY <1>10, <1>11, <1>19, <1>20, <1>21, <1>22, <1>17, <1>18

\* Who was told, in what order the list is: a step that changes neither.
LEMMA SameAreTold ==
    ASSUME scan'.told = scan.told, scan'.kind = scan.kind
    PROVE  ToldIds' = ToldIds
BY DEF ToldIds, IdOf

\* Of a server, who was told of is what was told.
LEMMA ToldOfPages ==
    ASSUME scan.kind = "server"
    PROVE  ToldIds = {scan.told[n] : n \in DOMAIN scan.told}
BY DEF ToldIds, IdOf

\* What a step of the discovery of a server may rely on.
PagesStep == AgesApart /\ PagesAreRight /\ scan.kind = "server" /\ kept' = kept /\ events' = events

\* The first page is asked for: all is left.
LEMMA PagesStart ==
    ASSUME PagesStep, StartsScan
    PROVE  PagesAreRight'
<1>1. scan' = [scan EXCEPT !.at = "page"] /\ scan.at = "idle" /\ scan \in ScanOf(Saved)
  BY DEF StartsScan, Step, PagesStep, PagesAreRight, PagesTyped
<1>2. /\ scan'.at = "page" /\ scan'.kind = scan.kind /\ scan'.legacy = scan.legacy /\ scan'.list = scan.list
      /\ scan'.cursor = scan.cursor /\ scan'.next = scan.next /\ scan'.busy = scan.busy
      /\ scan'.results = scan.results /\ scan'.failed = scan.failed /\ scan'.told = scan.told
      /\ scan' \in ScanOf(Saved)'
  BY <1>1 DEF ScanOf
<1>3. PagesTyped' BY <1>1, <1>2 DEF PagesStep, PagesAreRight, PagesTyped
<1>4. ToldIds' = ToldIds /\ \A s : /\ (IsThere(s))' <=> IsThere(s)
                                   /\ Left(s)' <=> Left(s)
                                   /\ Sought(s)' <=> Sought(s)
  BY <1>2, NothingHappens, <1>1, SameAreTold DEF PagesStep, Left
<1>5. PagesPass' /\ PagesCover' BY <1>1, <1>2, <1>4 DEF PagesStep, PagesAreRight, PagesPass, PagesCover, ToTell
<1>6. PagesInOrder' /\ PagesSeen' /\ CatalogIsWhole' BY <1>2 DEF PagesInOrder, PagesSeen, ToTell, CatalogIsWhole
<1>7. QED BY <1>3, <1>5, <1>6 DEF PagesAreRight

\* Nothing more is told of a discovery that failed.
LEMMA PagesFail ==
    ASSUME PagesStep, scan.at \in {"page", "inspecting"}, scan.busy = {}, NEW next \in Nat \ {0},
           scan' = [scan EXCEPT !.at = "failed", !.next = next]
    PROVE  PagesAreRight'
<1>1. scan \in ScanOf(Saved) BY DEF PagesStep, PagesAreRight, PagesTyped
<1>2. /\ scan'.at = "failed" /\ scan'.kind = scan.kind /\ scan'.legacy = scan.legacy /\ scan'.list = scan.list
      /\ scan'.cursor = scan.cursor /\ scan'.busy = scan.busy
      /\ scan'.results = scan.results /\ scan'.told = scan.told
      /\ scan' \in ScanOf(Saved)'
  BY <1>1 DEF ScanOf
<1>3. PagesTyped' BY <1>1, <1>2 DEF PagesStep, PagesAreRight, PagesTyped
<1>4. ToldIds' = ToldIds /\ \A s : ((IsThere(s))' <=> IsThere(s)) /\ (Left(s)' => Left(s))
  BY <1>2, NothingHappens, <1>1, SameAreTold DEF PagesStep, Left
<1>5. PagesPass' BY <1>1, <1>2, <1>4 DEF PagesStep, PagesAreRight, PagesPass
<1>6. PagesInOrder' /\ PagesSeen' /\ PagesCover' /\ CatalogIsWhole'
  BY <1>2 DEF PagesInOrder, PagesSeen, PagesCover, ToTell, CatalogIsWhole
<1>7. QED BY <1>3, <1>5, <1>6 DEF PagesAreRight

\* A page comes: what it holds was told to nobody, and is newer than what is left.
LEMMA PagesAsked ==
    ASSUME PagesStep, AsksPage
    PROVE  PagesAreRight'
<1>1. scan \in ScanOf(Saved) /\ scan.at = "page" /\ scan.busy = {} /\ PagesTyped /\ AgesApart /\ scan.next \in Nat \ {0}
  BY DEF AsksPage, PagesStep, PagesAreRight, PagesTyped, ScanOf
<1>2. PICK list, next : list = PageAfter(scan.cursor).list /\ next = PageAfter(scan.cursor).next OBVIOUS
<1>3. /\ list \in Seq(Saved) /\ next \in Nat
      /\ \A i, j \in DOMAIN list : i < j => ChangedAt(list[i]) > ChangedAt(list[j])
      /\ \A n \in DOMAIN list : IsThere(list[n]) /\ Left(list[n]) /\ ~(ChangedAt(list[n]) < next)
      /\ \A s \in Listed : Left(s) => ChangedAt(s) < next \/ \E n \in DOMAIN list : list[n] = s
      /\ scan.legacy => next = 0
      /\ \A s \in Saved : IsThere(s) /\ ~Left(s) => ~(ChangedAt(s) < next)
  BY <1>1, <1>2, NextPage
<1>4. CASE scan.pages = MAX_SESSION_PAGES
  <2>1. scan' = [scan EXCEPT !.at = "failed", !.next = scan.next] BY <1>4, <1>1 DEF AsksPage, Step, ScanOf
  <2>2. QED BY <1>1, <2>1, PagesFail
<1>5. CASE scan.pages # MAX_SESSION_PAGES
  <2>1. scan' = [scan EXCEPT !.at = "inspecting", !.pages = @ + 1, !.list = list,
                             !.cursor = next, !.next = 1, !.results = Blank(list)]
    BY <1>2, <1>5 DEF AsksPage, Step
  <2>2. Blank(list) \in [DOMAIN list -> {"none", "found"}] BY DEF Blank
  <2>3. /\ scan'.at = "inspecting" /\ scan'.kind = scan.kind /\ scan'.legacy = scan.legacy /\ scan'.list = list
        /\ scan'.cursor = next /\ scan'.next = 1 /\ scan'.busy = {}
        /\ scan'.results = Blank(list) /\ scan'.told = scan.told
        /\ scan' \in ScanOf(Saved)'
    <3>1. /\ scan.pages + 1 \in Nat /\ 1 \in Nat \ {0} /\ scan.busy \in SUBSET DOMAIN list
          /\ scan.told \in Seq(Saved) /\ scan.inspected \in Nat /\ scan.limit \in Nat
          /\ scan.legacy \in BOOLEAN /\ scan.failed \in BOOLEAN
      BY <1>1 DEF ScanOf
    <3>2. scan' = [at |-> "inspecting", kind |-> scan.kind, legacy |-> scan.legacy, limit |-> scan.limit,
                   pages |-> scan.pages + 1, list |-> list, cursor |-> next, next |-> 1, busy |-> scan.busy,
                   results |-> Blank(list), failed |-> scan.failed, inspected |-> scan.inspected, told |-> scan.told]
      BY <1>1, <2>1 DEF ScanOf
    <3>3. QED BY <1>1, <1>3, <3>1, <3>2 DEF ScanOf
  <2>4. ToldIds' = ToldIds /\ ToldIds \subseteq Saved
    BY <1>1, <2>3, SameAreTold, ToldOfPages DEF ScanOf, PagesStep
  <2>5. /\ \A s : /\ (IsThere(s))' <=> IsThere(s)
                  /\ ChangedAt(s)' = ChangedAt(s)
                  /\ Unmoved(s)' <=> Unmoved(s)
                  /\ Sought(s)' <=> Sought(s)
    BY <2>3, NothingHappens DEF PagesStep
  <2>6. \A s : Left(s)' <=> ChangedAt(s) < next BY <2>3, <2>5 DEF Left
  <2>7. \A n \in DOMAIN list : list[n] \in Saved BY <1>3
  <2>8. PagesTyped'
    <3>1. \A i, j \in DOMAIN list : list[i] = list[j] => i = j
      <4>1. TAKE i, j \in DOMAIN list
      <4>2. i \in Nat /\ j \in Nat /\ ChangedAt(list[i]) \in Nat /\ ChangedAt(list[j]) \in Nat
        BY <1>1, <1>3, <2>7, WhenTheyChanged
      <4>3. QED BY <1>3, <4>2
    <3>2. Cardinality({}) = 0 /\ INSPECTION_CONCURRENCY \in Nat BY FS_EmptySet, SavedHistoriesAssumption
    <3>3. QED BY <1>1, <1>3, <2>2, <2>3, <3>1, <3>2 DEF PagesTyped
  <2>9. \A s \in ToldIds : IsThere(s) => ~Left(s) BY <1>1 DEF PagesStep, PagesAreRight, PagesPass
  <2>10. PagesPass' BY <1>3, <2>3, <2>4, <2>5, <2>6, <2>9 DEF PagesPass
  <2>11. ASSUME NEW n \in DOMAIN list
         PROVE  /\ list[n] \notin ToldIds
                /\ \A t \in ToldIds : Unmoved(t) => ChangedAt(t) > ChangedAt(list[n])
    <3>1. list[n] \notin ToldIds BY <1>3, <2>9
    <3>2. ASSUME NEW t \in ToldIds, Unmoved(t) PROVE ChangedAt(t) > ChangedAt(list[n])
      BY <1>1, <2>4, <2>7, <3>2, WhenTheyChanged, <1>3, <2>9 DEF ScanOf, Left
    <3>3. QED BY <3>1, <3>2
  <2>12. PagesInOrder' BY <1>3, <2>3, <2>4, <2>5, <2>11 DEF PagesInOrder, ToTell
  <2>13. PagesSeen' BY <1>3, <2>3 DEF PagesSeen
  <2>14. PagesCover'
    <3>1. ASSUME NEW s \in Saved, Sought(s), s \notin ToldIds, ~(ChangedAt(s) < next)
          PROVE  \E n \in DOMAIN list : list[n] = s
      <4>1. Left(s) BY <1>1, <3>1 DEF ToTell, PagesStep, PagesAreRight, PagesCover
      <4>2. s \in Listed BY <3>1 DEF Sought, Listed
      <4>3. QED BY <1>3, <3>1, <4>1, <4>2
    <3>2. ASSUME NEW s \in Saved, Sought(s)'
          PROVE  \/ s \in ToldIds' \/ Left(s)'
                 \/ \E n \in DOMAIN scan'.list : ToTell(n)' /\ scan'.list[n] = s
      BY <2>3, <2>4, <2>5, <2>6, <3>1, <3>2 DEF ToTell
    <3>3. QED BY <2>3, <3>2 DEF PagesCover
  <2>15. CatalogIsWhole' BY <2>3 DEF CatalogIsWhole
  <2>16. QED BY <2>8, <2>10, <2>12, <2>13, <2>14, <2>15 DEF PagesAreRight
<1>6. QED BY <1>4, <1>5

\* While a page is inspected, who is told and in which order stays.
LEMMA PagesInspected ==
    ASSUME PagesStep, scan.at = "inspecting", scan'.at = "inspecting", scan'.kind = scan.kind,
           scan'.legacy = scan.legacy, scan'.list = scan.list, scan'.cursor = scan.cursor,
           scan'.told = scan.told, PagesTyped', PagesSeen'
    PROVE  PagesAreRight'
<1>1. ToldIds' = ToldIds /\ \A s : /\ (IsThere(s))' <=> IsThere(s)
                                   /\ ChangedAt(s)' = ChangedAt(s)
                                   /\ Unmoved(s)' <=> Unmoved(s)
                                   /\ Left(s)' <=> Left(s)
                                   /\ Sought(s)' <=> Sought(s)
  BY NothingHappens, SameAreTold DEF PagesStep, Left
<1>2. \A n : ToTell(n)' <=> ToTell(n) BY DEF ToTell
<1>3. PagesPass' BY <1>1 DEF PagesStep, PagesAreRight, PagesPass
<1>4. PagesInOrder' BY <1>1, <1>2 DEF PagesStep, PagesAreRight, PagesInOrder
<1>5. PagesCover' BY <1>1, <1>2 DEF PagesStep, PagesAreRight, PagesCover
<1>6. CatalogIsWhole' BY DEF CatalogIsWhole
<1>7. QED BY <1>3, <1>4, <1>5, <1>6 DEF PagesAreRight

\* How many workers there are, with one more or one fewer.
LEMMA WorkersCounted ==
    ASSUME PagesTyped, NEW n
    PROVE  /\ Cardinality(scan.busy \ {n}) <= INSPECTION_CONCURRENCY
           /\ Cardinality(scan.busy) < INSPECTION_CONCURRENCY
                  => Cardinality(scan.busy \cup {n}) <= INSPECTION_CONCURRENCY
<1>1. IsFiniteSet(scan.busy)
  <2>1. scan.list \in Seq(Saved) /\ scan.busy \in SUBSET DOMAIN scan.list BY DEF PagesTyped, ScanOf
  <2>2. Len(scan.list) \in Nat /\ DOMAIN scan.list = 1 .. Len(scan.list) BY <2>1
  <2>3. IsFiniteSet(1 .. Len(scan.list)) BY <2>2, FS_Interval
  <2>4. QED BY <2>1, <2>2, <2>3, FS_Subset
<1>2. Cardinality(scan.busy) \in Nat /\ Cardinality(scan.busy) <= INSPECTION_CONCURRENCY /\ INSPECTION_CONCURRENCY \in Nat
  BY <1>1, FS_CardinalityType, SavedHistoriesAssumption DEF PagesTyped
<1>3. Cardinality(scan.busy \ {n}) <= Cardinality(scan.busy) /\ Cardinality(scan.busy \ {n}) \in Nat
  BY <1>1, FS_Subset, FS_CardinalityType
<1>4. Cardinality(scan.busy \cup {n}) \in {Cardinality(scan.busy), Cardinality(scan.busy) + 1}
  BY <1>1, FS_AddElement
<1>5. QED BY <1>2, <1>3, <1>4

\* A worker takes the next session of the page.
LEMMA PagesTaken ==
    ASSUME PagesStep, TakesNext
    PROVE  PagesAreRight'
<1>1. scan \in ScanOf(Saved) /\ PagesTyped /\ PagesSeen /\ scan.at = "inspecting"
  BY DEF TakesNext, PagesStep, PagesAreRight, PagesTyped
<1>2. PICK busy : busy = IF kept[scan.list[scan.next]].child THEN scan.busy ELSE scan.busy \cup {scan.next}
  OBVIOUS
<1>3. scan' = [scan EXCEPT !.next = @ + 1, !.busy = busy] BY <1>2 DEF TakesNext, Step
<1>4. /\ scan.next \in DOMAIN scan.list /\ Cardinality(scan.busy) < INSPECTION_CONCURRENCY
      /\ busy \in SUBSET DOMAIN scan.list /\ scan.next \in Nat
  BY <1>1, <1>2 DEF TakesNext, ScanOf
<1>5. /\ scan'.at = "inspecting" /\ scan'.kind = scan.kind /\ scan'.legacy = scan.legacy /\ scan'.list = scan.list
      /\ scan'.cursor = scan.cursor /\ scan'.next = scan.next + 1 /\ scan'.busy = busy
      /\ scan'.results = scan.results /\ scan'.failed = scan.failed /\ scan'.told = scan.told
      /\ scan' \in ScanOf(Saved)'
  <2>1. scan.next + 1 \in Nat \ {0} BY <1>4
  <2>2. QED BY <1>1, <1>3, <1>4, <2>1 DEF ScanOf
<1>6. Cardinality(busy) <= INSPECTION_CONCURRENCY BY <1>1, <1>2, <1>4, WorkersCounted DEF PagesTyped
<1>7. PagesTyped' BY <1>1, <1>5, <1>6 DEF PagesTyped
<1>8. PagesSeen'
  <2>1. ASSUME NEW n \in DOMAIN scan.list, ~scan.failed, n < scan.next + 1, n \notin busy, Sought(scan.list[n])
        PROVE  scan.results[n] = "found"
    <3>1. n # scan.next BY <1>2, <2>1 DEF Sought
    <3>2. n < scan.next /\ n \notin scan.busy BY <1>1, <1>2, <1>4, <2>1, <3>1 DEF ScanOf
    <3>3. QED BY <1>1, <2>1, <3>2 DEF PagesSeen
  <2>2. \A s : Sought(s)' <=> Sought(s) BY <1>5, NothingHappens DEF PagesStep
  <2>3. QED BY <1>5, <2>1, <2>2 DEF PagesSeen
<1>9. QED BY <1>1, <1>5, <1>7, <1>8, PagesInspected

\* A session is inspected, or cannot be.
LEMMA PagesLookedAt ==
    ASSUME PagesStep, NEW n \in DOMAIN scan.list, Inspects(n) \/ InspectionFails(n)
    PROVE  PagesAreRight'
<1>1. scan \in ScanOf(Saved) /\ PagesTyped /\ PagesSeen /\ n \in scan.busy /\ scan.at = "inspecting"
  BY DEF Inspects, InspectionFails, PagesStep, PagesAreRight, PagesTyped
<1>2. PICK verdict \in {"none", "found"}, failed \in BOOLEAN, count \in Nat :
          /\ scan' = [scan EXCEPT !.busy = @ \ {n}, !.inspected = count, !.failed = failed, !.results[n] = verdict]
          /\ scan.failed => failed
          /\ ~failed /\ Sought(scan.list[n]) => verdict = "found"
  <2>1. scan.inspected \in Nat /\ scan.results[n] \in {"none", "found"} BY <1>1 DEF PagesTyped, ScanOf
  <2>2. CASE Inspects(n)
    <3>1. PICK count : count = scan.inspected + (IF IsThere(scan.list[n]) THEN 1 ELSE 0) OBVIOUS
    <3>2. PICK verdict : verdict = IF IsThere(scan.list[n]) /\ kept[scan.list[n]].spoken THEN "found" ELSE "none"
      OBVIOUS
    <3>3. PICK failed : failed = (scan.failed \/ count > MAX_INSPECTIONS) OBVIOUS
    <3>4. scan' = [scan EXCEPT !.busy = @ \ {n}, !.inspected = count, !.failed = failed, !.results[n] = verdict]
      BY <2>2, <3>1, <3>2, <3>3 DEF Inspects, Step
    <3>5. count \in Nat BY <2>1, <3>1
    <3>6. QED BY <3>2, <3>3, <3>4, <3>5 DEF Sought
  <2>3. CASE InspectionFails(n)
    <3>1. scan' = [scan EXCEPT !.busy = @ \ {n}, !.failed = TRUE] BY <2>3 DEF InspectionFails, Step
    <3>2. scan' = [scan EXCEPT !.busy = @ \ {n}, !.inspected = scan.inspected, !.failed = TRUE, !.results[n] = scan.results[n]]
      BY <1>1, <3>1 DEF PagesTyped, ScanOf
    <3>3. QED BY <2>1, <3>2
  <2>4. QED BY <2>2, <2>3
<1>3. /\ scan'.at = "inspecting" /\ scan'.kind = scan.kind /\ scan'.legacy = scan.legacy /\ scan'.list = scan.list
      /\ scan'.cursor = scan.cursor /\ scan'.next = scan.next /\ scan'.busy = scan.busy \ {n}
      /\ scan'.results = [scan.results EXCEPT ![n] = verdict] /\ scan'.failed = failed /\ scan'.told = scan.told
      /\ scan' \in ScanOf(Saved)'
  BY <1>1, <1>2 DEF ScanOf
<1>4. PagesTyped' BY <1>1, <1>3, WorkersCounted DEF PagesTyped
<1>5. PagesSeen'
  <2>1. \A s : Sought(s)' <=> Sought(s) BY <1>3, NothingHappens DEF PagesStep
  <2>2. scan.results \in [DOMAIN scan.list -> {"none", "found"}] BY <1>1 DEF PagesTyped
  <2>3. ASSUME NEW m \in DOMAIN scan.list, ~failed, m < scan.next, m \notin scan.busy \ {n}, Sought(scan.list[m])
        PROVE  [scan.results EXCEPT ![n] = verdict][m] = "found"
    <3>1. CASE m = n BY <1>2, <2>2, <2>3, <3>1
    <3>2. CASE m # n BY <1>1, <1>2, <2>2, <2>3, <3>2 DEF PagesSeen
    <3>3. QED BY <3>1, <3>2
  <2>4. QED BY <1>3, <2>1, <2>3 DEF PagesSeen
<1>6. QED BY <1>1, <1>3, <1>4, <1>5, PagesInspected

\* The page is inspected: whatever is sought in it was found.
LEMMA PagesToTell ==
    ASSUME PagesStep, BatchEnds
    PROVE  PagesAreRight'
<1>1. /\ scan \in ScanOf(Saved) /\ PagesTyped /\ PagesSeen /\ PagesCover /\ PagesInOrder /\ PagesPass
      /\ scan.at = "inspecting" /\ scan.busy = {}
  BY DEF BatchEnds, PagesStep, PagesAreRight, PagesTyped
<1>2. CASE scan.failed
  <2>1. scan' = [scan EXCEPT !.at = "failed", !.next = 1] BY <1>2 DEF BatchEnds, Step
  <2>2. 1 \in Nat \ {0} OBVIOUS
  <2>3. QED BY <1>1, <2>1, <2>2, PagesFail
<1>3. CASE ~scan.failed
  <2>1. scan' = [scan EXCEPT !.at = "telling", !.next = 1] /\ scan.next > Len(scan.list)
    BY <1>3 DEF BatchEnds, Step
  <2>2. /\ scan'.at = "telling" /\ scan'.kind = scan.kind /\ scan'.legacy = scan.legacy /\ scan'.list = scan.list
        /\ scan'.cursor = scan.cursor /\ scan'.next = 1 /\ scan'.busy = scan.busy
        /\ scan'.results = scan.results /\ scan'.failed = scan.failed /\ scan'.told = scan.told
        /\ scan' \in ScanOf(Saved)'
    <3>1. 1 \in Nat \ {0} OBVIOUS
    <3>2. QED BY <1>1, <2>1, <3>1 DEF ScanOf
  <2>3. \A n \in DOMAIN scan.list : n \in Nat /\ n >= 1 /\ n < scan.next BY <1>1, <2>1 DEF ScanOf
  <2>4. ToldIds' = ToldIds /\ \A s : /\ (IsThere(s))' <=> IsThere(s)
                                     /\ ChangedAt(s)' = ChangedAt(s)
                                     /\ Unmoved(s)' <=> Unmoved(s)
                                     /\ Left(s)' <=> Left(s)
                                     /\ Sought(s)' <=> Sought(s)
    BY <2>2, NothingHappens, <1>1, SameAreTold DEF PagesStep, Left
  <2>5. \A n \in DOMAIN scan.list : ToTell(n)' /\ ToTell(n) BY <1>1, <2>2, <2>3 DEF ToTell
  <2>6. PagesTyped' BY <1>1, <2>2 DEF PagesTyped
  <2>7. PagesPass' BY <1>1, <2>2, <2>4 DEF PagesPass
  <2>8. PagesInOrder' BY <1>1, <2>2, <2>4, <2>5 DEF PagesInOrder
  <2>9. PagesCover' BY <1>1, <1>3, <2>3, <2>2, <2>4, <2>5 DEF PagesSeen, PagesCover
  <2>10. PagesSeen' /\ CatalogIsWhole' BY <2>2 DEF PagesSeen, CatalogIsWhole
  <2>11. QED BY <2>6, <2>7, <2>8, <2>9, <2>10 DEF PagesAreRight
<1>4. QED BY <1>2, <1>3

\* The first of what was found and not told yet.
LEMMA FirstFound ==
    ASSUME NEW things, scan \in ScanOf(things), NEW found, found # {},
           \A n \in found : n \in DOMAIN scan.list
    PROVE  /\ \E n \in found : \A m \in found : n <= m
           /\ \A n \in found : n + 1 \in Nat \ {0}
<1>1. scan.list \in Seq(things) BY DEF ScanOf
<1>2. Len(scan.list) \in Nat /\ DOMAIN scan.list = 1 .. Len(scan.list) BY <1>1
<1>3. IsFiniteSet(1 .. Len(scan.list)) BY <1>2, FS_Interval
<1>4. found \in SUBSET (1 .. Len(scan.list)) /\ \A n \in found : n \in Nat BY <1>2
<1>5. IsFiniteSet(found) BY <1>3, <1>4, FS_Subset
<1>6. \E n \in found : \A m \in found : n <= m BY <1>4, <1>5, FirstOfSome
<1>7. QED BY <1>4, <1>6

\* One more is told.
LEMMA OneMoreTold ==
    ASSUME NEW things, NEW told \in Seq(things), NEW x \in things
    PROVE  /\ Append(told, x) \in Seq(things) /\ DOMAIN Append(told, x) = DOMAIN told \cup {Len(told) + 1}
           /\ Len(told) + 1 \notin DOMAIN told
           /\ Append(told, x)[Len(told) + 1] = x /\ \A n \in DOMAIN told : Append(told, x)[n] = told[n]
<1>1. Len(told) \in Nat /\ DOMAIN told = 1 .. Len(told) OBVIOUS
<1>2. Append(told, x) \in Seq(things) /\ DOMAIN Append(told, x) = 1 .. Len(told) + 1 OBVIOUS
<1>3. 1 .. Len(told) + 1 = (1 .. Len(told)) \cup {Len(told) + 1} /\ Len(told) + 1 \notin 1 .. Len(told) BY <1>1
<1>4. Append(told, x)[Len(told) + 1] = x /\ \A n \in DOMAIN told : Append(told, x)[n] = told[n] OBVIOUS
<1>5. QED BY <1>1, <1>2, <1>3, <1>4

\* One of the page is told, or the page is over.
LEMMA PagesTold ==
    ASSUME PagesStep, TellsNext
    PROVE  PagesAreRight'
<1>1. /\ scan \in ScanOf(Saved) /\ PagesTyped /\ PagesCover /\ PagesInOrder /\ PagesPass /\ AgesApart
      /\ scan.at = "telling" /\ scan.busy = {} /\ scan.kind = "server"
  BY DEF TellsNext, PagesStep, PagesAreRight, PagesTyped
<1>2. /\ scan.list \in Seq(Saved) /\ scan.told \in Seq(Saved) /\ scan.next \in Nat \ {0} /\ scan.cursor \in Nat
      /\ \A n \in DOMAIN scan.list : n \in Nat /\ scan.list[n] \in Saved
  BY <1>1 DEF ScanOf
<1>3. ToldIds = {scan.told[n] : n \in DOMAIN scan.told} BY <1>1, ToldOfPages
<1>4. ToldIds \subseteq Saved BY <1>2, <1>3
<1>5. \A s : Left(s) <=> ChangedAt(s) < scan.cursor BY <1>1 DEF Left
<1>6. PICK found : found = {n \in DOMAIN scan.list : n >= scan.next /\ scan.results[n] = "found"} OBVIOUS
<1>7. CASE found # {}
  <2>1. PICK first : first = CHOOSE n \in found : \A m \in found : n <= m OBVIOUS
  <2>2. first \in found /\ first \in DOMAIN scan.list /\ first + 1 \in Nat \ {0} /\ \A m \in found : first <= m
    BY <1>6, <1>1, <1>7, FirstFound, <2>1
  <2>3. PICK told : told = Append(scan.told, scan.list[first]) OBVIOUS
  <2>4. PICK at : at = IF Enough(told) THEN "done" ELSE "telling" OBVIOUS
  <2>5. scan' = [scan EXCEPT !.told = told, !.next = first + 1, !.at = at]
    BY <1>1, <1>6, <1>7, <2>1, <2>3, <2>4, Zenon DEF TellsNext, Step
  <2>6. scan.list[first] \in Saved BY <1>2, <2>2
  <2>7. /\ told \in Seq(Saved) /\ DOMAIN told = DOMAIN scan.told \cup {Len(scan.told) + 1}
        /\ Len(scan.told) + 1 \notin DOMAIN scan.told
        /\ told[Len(scan.told) + 1] = scan.list[first] /\ \A n \in DOMAIN scan.told : told[n] = scan.told[n]
    BY <1>2, <2>3, <2>6, OneMoreTold
  <2>8. /\ scan'.at = at /\ scan'.kind = scan.kind /\ scan'.legacy = scan.legacy /\ scan'.list = scan.list
        /\ scan'.cursor = scan.cursor /\ scan'.next = first + 1 /\ scan'.busy = scan.busy
        /\ scan'.results = scan.results /\ scan'.failed = scan.failed /\ scan'.told = told
        /\ scan'.limit = scan.limit /\ scan' \in ScanOf(Saved)'
    BY <1>1, <2>2, <2>5, <2>7 DEF ScanOf
  <2>9. ToldIds' = ToldIds \cup {scan.list[first]} BY <1>1, <2>8, <1>3, <2>7 DEF ToldIds, IdOf
  <2>10. ToTell(first) /\ scan.list[first] \notin ToldIds BY <1>1, <1>6, <2>2 DEF ToTell, PagesInOrder
  <2>11. PagesTyped' BY <1>1, <1>3, <2>7, <2>10, <2>4, <2>8 DEF PagesTyped
  <2>12. \A s : /\ (IsThere(s))' <=> IsThere(s)
                /\ ChangedAt(s)' = ChangedAt(s)
                /\ Unmoved(s)' <=> Unmoved(s)
                /\ Sought(s)' <=> Sought(s)
                /\ Left(s)' <=> Left(s)
    BY <2>8, NothingHappens, <1>5, <2>4 DEF PagesStep, Left
  <2>13. PagesPass' BY <1>1, <2>2, <2>9, <2>4, <2>8, <2>12 DEF PagesPass
  <2>14. ASSUME NEW n \in DOMAIN scan.list, n >= first + 1
         PROVE  /\ scan.list[n] \notin ToldIds'
                /\ \A t \in ToldIds' : Unmoved(t) /\ Unmoved(scan.list[n]) => ChangedAt(t) > ChangedAt(scan.list[n])
    <3>1. first < n /\ ToTell(n) /\ n # first BY <1>1, <1>2, <1>6, <2>2, <2>14 DEF ToTell
    <3>2. scan.list[n] \notin ToldIds' BY <1>1, <2>2, <2>9, <3>1 DEF PagesInOrder, PagesTyped
    <3>3. \A t \in ToldIds : Unmoved(t) /\ Unmoved(scan.list[n]) => ChangedAt(t) > ChangedAt(scan.list[n])
      BY <1>1, <3>1 DEF PagesInOrder
    <3>4. Unmoved(scan.list[first]) /\ Unmoved(scan.list[n]) => ChangedAt(scan.list[first]) > ChangedAt(scan.list[n])
      BY <1>1, <2>2, <3>1 DEF PagesInOrder
    <3>5. QED BY <2>9, <3>2, <3>3, <3>4
  <2>15. PagesInOrder' BY <2>4, <2>8, <1>1, <2>12, <2>14 DEF ToTell, PagesInOrder
  <2>16. PagesSeen' BY <2>4, <2>8 DEF PagesSeen
  <2>17. ASSUME NEW s \in Saved, Sought(s), s \notin ToldIds', ~Left(s)
         PROVE  \E n \in DOMAIN scan.list : n >= first + 1 /\ scan.list[n] = s /\ scan.results[n] = "found"
    <3>1. PICK n \in DOMAIN scan.list : ToTell(n) /\ scan.list[n] = s /\ scan.results[n] = "found"
      BY <1>1, <2>9, <2>17 DEF PagesCover
    <3>2. n \in found /\ n # first BY <1>1, <1>6, <2>9, <2>17, <3>1 DEF ToTell
    <3>3. QED BY <1>2, <2>2, <3>1, <3>2
  <2>18. PagesCover' BY <2>4, <2>8, <2>12, <2>17 DEF PagesCover, ToTell
  <2>19. CatalogIsWhole'
    <3>1. ASSUME NEW s \in Saved, Sought(s), s \notin ToldIds', NEW t \in ToldIds', Unmoved(s), Unmoved(t)
          PROVE  ChangedAt(t) > ChangedAt(s)
      <4>1. CASE Left(s)
        <5>1. t \in Saved /\ IsThere(t) /\ ~Left(t)
          BY <1>1, <1>4, <2>2, <2>6, <2>9, <3>1, WhenTheyChanged DEF PagesPass
        <5>2. QED BY <1>1, <1>2, <1>5, <3>1, <4>1, <5>1, WhenTheyChanged
      <4>2. CASE ~Left(s) BY <2>14, <2>17, <3>1, <4>2
      <4>3. QED BY <4>1, <4>2
    <3>2. Enough(told) => Enough(scan.told)' BY <2>8 DEF Enough
    <3>3. \A s, t : {s, t} \cap events.on = {} <=> Unmoved(s) /\ Unmoved(t) BY DEF Unmoved
    <3>4. scan'.at = "done" => Enough(scan.told)' BY <2>4, <2>8, <3>2
    <3>5. events' = events BY DEF PagesStep
    <3>6. QED BY <2>12, <3>1, <3>3, <3>4, <3>5 DEF CatalogIsWhole
  <2>20. QED BY <2>11, <2>13, <2>15, <2>16, <2>18, <2>19 DEF PagesAreRight
<1>8. CASE found = {}
  <2>1. PICK at : at = IF scan.legacy \/ scan.cursor = 0 THEN "done" ELSE "page" OBVIOUS
  <2>2. scan' = [scan EXCEPT !.at = at] BY <1>1, <1>6, <1>8, <2>1 DEF TellsNext, Step
  <2>3. /\ scan'.at = at /\ scan'.kind = scan.kind /\ scan'.legacy = scan.legacy /\ scan'.list = scan.list
        /\ scan'.cursor = scan.cursor /\ scan'.next = scan.next /\ scan'.busy = scan.busy
        /\ scan'.results = scan.results /\ scan'.failed = scan.failed /\ scan'.told = scan.told
        /\ scan'.limit = scan.limit /\ scan' \in ScanOf(Saved)'
    BY <1>1, <2>2 DEF ScanOf
  <2>4. scan.legacy => scan.cursor = 0 BY <1>1 DEF PagesTyped
  <2>5. ToldIds' = ToldIds /\ \A s : /\ (IsThere(s))' <=> IsThere(s)
                                     /\ ChangedAt(s)' = ChangedAt(s)
                                     /\ Unmoved(s)' <=> Unmoved(s)
                                     /\ Sought(s)' <=> Sought(s)
                                     /\ Left(s)' <=> Left(s)
    BY <2>3, NothingHappens, <1>5, <2>1, <2>4, SameAreTold DEF PagesStep, Left
  <2>6. ASSUME NEW s \in Saved, Sought(s) PROVE s \in ToldIds \/ Left(s)
    BY <1>1, <1>6, <1>8, <2>6 DEF ToTell, PagesCover
  <2>7. PagesTyped' /\ PagesPass' BY <1>1, <2>1, <2>3, <2>5 DEF PagesTyped, PagesPass
  <2>8. PagesInOrder' /\ PagesSeen' BY <2>1, <2>3 DEF PagesInOrder, PagesSeen, ToTell
  <2>9. PagesCover' BY <2>5, <2>6 DEF PagesCover
  <2>10. CatalogIsWhole'
    <3>1. ASSUME scan'.at = "done", NEW s \in Saved, Sought(s) PROVE s \in ToldIds
      BY <1>1, <1>5, <2>1, <2>3, <2>4, <3>1, WhenTheyChanged, <2>6
    <3>2. QED BY <2>5, <3>1 DEF CatalogIsWhole
  <2>11. QED BY <2>7, <2>8, <2>9, <2>10 DEF PagesAreRight
<1>9. QED BY <1>7, <1>8

\* The runtime goes on meanwhile: what changes is newer than any page that is to come.
LEMMA PagesGoOn ==
    ASSUME AgesApart, AgesApart', PagesAreRight, scan.kind = "server", Onwards
    PROVE  PagesAreRight'
<1>1. /\ scan \in ScanOf(Saved) /\ PagesTyped /\ PagesSeen /\ PagesCover /\ PagesInOrder /\ PagesPass
      /\ scan' = scan /\ scan.at \notin {"idle", "done", "failed"}
  BY DEF Onwards, PagesAreRight, PagesTyped
<1>2. ToldIds' = ToldIds /\ ToldIds \subseteq Saved BY <1>1, SameAreTold, ToldOfPages DEF ScanOf
<1>3. \A n \in DOMAIN scan.list : scan.list[n] \in Saved BY <1>1 DEF ScanOf
<1>4. ASSUME NEW s \in Saved
      PROVE  /\ (IsThere(s))' => IsThere(s)
             /\ (IsThere(s))' /\ Left(s)' => Left(s)
             /\ Unmoved(s)' => Unmoved(s) /\ ChangedAt(s)' = ChangedAt(s) /\ (Left(s)' <=> Left(s))
             /\ Sought(s)' => Sought(s) /\ Unmoved(s)'
  <2>1. /\ (IsThere(s))' => IsThere(s) /\ ChangedAt(s)' >= ChangedAt(s)
        /\ Unmoved(s)' => Unmoved(s) /\ kept'[s] = kept[s]
    BY DEF Onwards
  <2>2. ChangedAt(s) \in Nat /\ ChangedAt(s)' \in Nat BY WhenTheyChanged DEF AgesApart, Places, ChangedAt
  <2>3. scan.cursor \in Nat BY <1>1 DEF ScanOf
  <2>4. kept'[s] = kept[s] => ChangedAt(s)' = ChangedAt(s) /\ ((IsThere(s))' <=> IsThere(s))
    BY DEF ChangedAt, IsThere
  <2>5. Sought(s)' => Unmoved(s)' BY <1>1 DEF Sought, Unmoved
  <2>6. Unmoved(s)' /\ Sought(s)' => Sought(s) BY <1>1, <2>1, <2>4 DEF Sought, Unmoved
  <2>7. (IsThere(s))' /\ Left(s)' => Left(s) BY <1>1, <2>1, <2>2, <2>3 DEF Left
  <2>8. Unmoved(s)' => (Left(s)' <=> Left(s)) BY <1>1, <2>1, <2>4 DEF Left
  <2>9. QED BY <2>1, <2>4, <2>5, <2>6, <2>7, <2>8
<1>5. \A n : ToTell(n)' <=> ToTell(n) BY <1>1 DEF ToTell
<1>6. PagesTyped' BY <1>1 DEF PagesTyped, ScanOf
<1>7. PagesPass' BY <1>1, <1>2, <1>3, <1>4 DEF PagesPass
<1>8. PagesInOrder' BY <1>1, <1>2, <1>3, <1>4, <1>5 DEF PagesInOrder
<1>9. PagesSeen' BY <1>1, <1>3, <1>4 DEF PagesSeen
<1>10. PagesCover' BY <1>1, <1>2, <1>4, <1>5 DEF PagesCover
<1>11. CatalogIsWhole' BY <1>1 DEF CatalogIsWhole
<1>12. QED BY <1>6, <1>7, <1>8, <1>9, <1>10, <1>11 DEF PagesAreRight

-----------------------------------------------------------------------------
(* Files: each step                                                        *)

FilesStep == AgesApart /\ FilesAreRight /\ scan.kind = "files" /\ kept' = kept /\ events' = events

\* The paths in a list.
LEMMA FilesOfList ==
    ASSUME scan \in ScanOf(Saved \X Places)
    PROVE  /\ Len(scan.list) \in Nat /\ DOMAIN scan.list = 1 .. Len(scan.list) /\ IsFiniteSet(DOMAIN scan.list)
           /\ scan.list \in Seq(Saved \X Places) /\ scan.busy \in SUBSET DOMAIN scan.list
           /\ \A n \in DOMAIN scan.list : /\ n \in Nat /\ scan.list[n] \in Saved \X Places
                                          /\ scan.list[n][1] \in Saved /\ scan.list[n][2] \in Places
<1>1. scan.list \in Seq(Saved \X Places) /\ scan.busy \in SUBSET DOMAIN scan.list BY DEF ScanOf
<1>2. Len(scan.list) \in Nat /\ DOMAIN scan.list = 1 .. Len(scan.list) BY <1>1
<1>3. IsFiniteSet(1 .. Len(scan.list)) BY <1>2, FS_Interval
<1>4. \A n \in DOMAIN scan.list : n \in Nat /\ scan.list[n] \in Saved \X Places BY <1>1, <1>2
<1>5. QED BY <1>1, <1>2, <1>3, <1>4

\* What is in a directory, in some order.
LEMMA PathsListed ==
    ASSUME AgesApart, NEW dir \in Places, NEW some \in SUBSET Paths(dir)
    PROVE  LET list == SetToSeq(some)
           IN  /\ list \in Seq(Saved \X Places)
               /\ \A n \in DOMAIN list : list[n] \in some
               /\ \A i, j \in DOMAIN list : list[i][1] = list[j][1] => i = j
               /\ \A path \in some : \E n \in DOMAIN list : list[n] = path
<1> DEFINE pathOf == [s \in FilesIn(dir) |-> <<s, dir>>]
           list == SetToSeq(some)
<1>1. FilesIn(dir) \in SUBSET Saved BY DEF FilesIn
<1>2. IsFiniteSet(FilesIn(dir)) BY <1>1, SavedHistoriesAssumption, FS_Subset
<1>3. pathOf \in Surjection(FilesIn(dir), Paths(dir)) BY DEF Surjection, Paths
<1>4. IsFiniteSet(Paths(dir)) BY <1>2, <1>3, FS_Surjection
<1>5. IsFiniteSet(some) BY <1>4, FS_Subset
<1> HIDE DEF list
<1>6. /\ list \in Seq(some) /\ IsInjective(list)
      /\ \A x \in some : \E n \in DOMAIN list : list[n] = x
  BY <1>5, InSomeOrder DEF list
<1>7. \A path \in some : path \in Saved \X Places /\ path[2] = dir /\ path = <<path[1], dir>> BY <1>1 DEF Paths
<1>8. list \in Seq(Saved \X Places) /\ \A n \in DOMAIN list : list[n] \in some BY <1>6, <1>7
<1>9. \A i, j \in DOMAIN list : list[i][1] = list[j][1] => list[i] = list[j] BY <1>7, <1>8
<1>10. \A i, j \in DOMAIN list : list[i] = list[j] => i = j BY <1>6 DEF IsInjective
<1>11. QED BY <1>6, <1>8, <1>9, <1>10 DEF list

\* The files are asked for.
LEMMA FilesStart ==
    ASSUME FilesStep, StartsScan
    PROVE  FilesAreRight'
<1>1. scan' = [scan EXCEPT !.at = "page"] /\ scan.at = "idle" /\ scan \in ScanOf(Saved \X Places) /\ FilesTyped /\ FilesStay
  BY DEF StartsScan, Step, FilesStep, FilesAreRight, FilesTyped
<1>2. /\ scan'.at = "page" /\ scan'.kind = scan.kind /\ scan'.legacy = scan.legacy /\ scan'.list = scan.list
      /\ scan'.busy = scan.busy /\ scan'.told = scan.told /\ scan' \in ScanOf(Saved \X Places)'
  BY <1>1 DEF ScanOf
<1>3. FilesTyped' BY <1>1, <1>2 DEF FilesTyped
<1>4. FilesStay' BY <1>1, <1>2, NothingHappens DEF FilesStay, FilesStep
<1>5. FilesListed' /\ FilesDated' /\ FilesInOrder' /\ FilesSeen' /\ FilesTold' /\ CatalogIsWhole'
  BY <1>2 DEF FilesListed, FilesDated, FilesInOrder, FilesSeen, FilesTold, CatalogIsWhole
<1>6. QED BY <1>3, <1>4, <1>5 DEF FilesAreRight

\* The active files are listed.
LEMMA FilesActive ==
    ASSUME FilesStep, ListsActive
    PROVE  FilesAreRight'
<1>1. /\ scan \in ScanOf(Saved \X Places) /\ FilesTyped /\ scan.at = "page" /\ scan.busy = {} /\ scan.told = << >>
  BY DEF ListsActive, FilesStep, FilesAreRight, FilesTyped
<1>2. PICK list : list = SetToSeq(Paths("active")) OBVIOUS
<1>3. /\ list \in Seq(Saved \X Places)
      /\ \A n \in DOMAIN list : list[n] \in Paths("active")
      /\ \A i, j \in DOMAIN list : list[i][1] = list[j][1] => i = j
      /\ \A path \in Paths("active") : \E n \in DOMAIN list : list[n] = path
  BY <1>2, PathsListed DEF FilesStep, Places
<1>4. scan' = [scan EXCEPT !.at = "archive", !.list = list] BY <1>2 DEF ListsActive, Step
<1>5. /\ scan'.at = "archive" /\ scan'.kind = scan.kind /\ scan'.legacy = scan.legacy /\ scan'.list = list
      /\ scan'.busy = {} /\ scan'.told = scan.told /\ scan' \in ScanOf(Saved \X Places)'
  BY <1>1, <1>3, <1>4 DEF ScanOf
<1>6. FilesTyped' BY <1>1, <1>3, <1>5 DEF FilesTyped
<1>7. \A path \in Paths("active") : kept[path[1]].at[path[2]] # 0 BY DEF Paths, FilesIn, NoFile
<1>8. FilesStay' BY <1>3, <1>5, <1>7 DEF FilesStay, FilesStep
<1>9. FilesListed'
  <2>1. ASSUME NEW s \in Saved, IsThere(s), kept[s].at["archived"] = 0
        PROVE  \E n \in DOMAIN list : list[n][1] = s
    <3>1. kept[s].at["active"] # 0 BY <2>1 DEF IsThere, Places, NoFile
    <3>2. <<s, "active">> \in Paths("active") BY <3>1 DEF Paths, FilesIn, NoFile
    <3>3. QED BY <1>3, <3>2
  <2>2. \A s : (IsThere(s))' <=> IsThere(s) BY <1>5, NothingHappens DEF FilesStep
  <2>3. QED BY <1>5, <2>1, <2>2 DEF FilesListed, FilesStep
<1>10. FilesDated' /\ FilesInOrder' /\ FilesSeen' /\ FilesTold' /\ CatalogIsWhole'
  BY <1>5 DEF FilesDated, FilesInOrder, FilesSeen, FilesTold, CatalogIsWhole
<1>11. QED BY <1>6, <1>8, <1>9, <1>10 DEF FilesAreRight

\* The archived files are listed: of a session that is in both lists, the active one.
LEMMA FilesArchived ==
    ASSUME FilesStep, ListsArchived
    PROVE  FilesAreRight'
<1>1. /\ scan \in ScanOf(Saved \X Places) /\ FilesTyped /\ FilesStay /\ FilesListed
      /\ scan.at = "archive" /\ scan.told = << >>
  BY DEF ListsArchived, FilesStep, FilesAreRight, FilesTyped
<1>2. PICK some : some = {path \in Paths("archived") : \A n \in DOMAIN scan.list : scan.list[n][1] # path[1]}
  OBVIOUS
<1>3. PICK more : more = SetToSeq(some) OBVIOUS
<1>4. PICK list : list = scan.list \o more OBVIOUS
<1>5. /\ more \in Seq(Saved \X Places)
      /\ \A n \in DOMAIN more : more[n] \in some
      /\ \A i, j \in DOMAIN more : more[i][1] = more[j][1] => i = j
      /\ \A path \in some : \E n \in DOMAIN more : more[n] = path
  <2>1. some \in SUBSET Paths("archived") /\ "archived" \in Places /\ AgesApart BY <1>2 DEF FilesStep, Places
  <2>2. QED BY <1>3, <2>1, PathsListed
<1>6. PICK a \in Nat, b \in Nat : a = Len(scan.list) /\ b = Len(more) /\ DOMAIN scan.list = 1 .. a /\ DOMAIN more = 1 .. b
  BY <1>1, <1>5, FilesOfList
<1>7. /\ list \in Seq(Saved \X Places) /\ DOMAIN list = 1 .. a + b
      /\ \A n \in 1 .. a + b : list[n] = IF n <= a THEN scan.list[n] ELSE more[n - a]
  BY <1>1, <1>4, <1>5, <1>6, FilesOfList
<1>8. PICK none : none = [n \in DOMAIN list |-> 0] OBVIOUS
<1>9. scan' = [scan EXCEPT !.at = "stats", !.list = list, !.results = none, !.busy = DOMAIN list]
  BY <1>2, <1>3, <1>4, <1>8 DEF ListsArchived, Step, Deduped
<1>10. /\ scan'.at = "stats" /\ scan'.kind = scan.kind /\ scan'.legacy = scan.legacy /\ scan'.list = list
       /\ scan'.busy = DOMAIN list /\ scan'.results = none /\ scan'.told = scan.told
       /\ scan' \in ScanOf(Saved \X Places)'
  BY <1>1, <1>7, <1>9 DEF ScanOf
<1>11. \A n \in 1 .. a + b : (n \in 1 .. a /\ list[n] = scan.list[n]) \/ (n - a \in 1 .. b /\ list[n] = more[n - a] /\ n \notin 1 .. a)
  BY <1>7
<1>12. \A n \in 1 .. b : \A m \in 1 .. a : more[n][1] # scan.list[m][1] BY <1>2, <1>5, <1>6
<1>13. \A i, j \in DOMAIN list : list[i][1] = list[j][1] => i = j
  <2>1. SUFFICES ASSUME NEW i \in 1 .. a + b, NEW j \in 1 .. a + b, list[i][1] = list[j][1] PROVE i = j BY <1>7
  <2>2. CASE i \in 1 .. a /\ j \in 1 .. a BY <1>1, <1>6, <1>11, <2>1, <2>2 DEF FilesTyped
  <2>3. CASE i \notin 1 .. a /\ j \notin 1 .. a
    <3>1. i - a \in 1 .. b /\ j - a \in 1 .. b /\ more[i - a][1] = more[j - a][1] BY <1>11, <2>1, <2>3
    <3>2. i - a = j - a BY <1>5, <1>6, <3>1
    <3>3. QED BY <3>2
  <2>4. QED BY <1>11, <1>12, <2>1, <2>2, <2>3
<1>14. FilesTyped' BY <1>1, <1>7, <1>8, <1>10, <1>13 DEF FilesTyped
<1>15. FilesStay'
  <2>1. \A path \in some : kept[path[1]].at[path[2]] # 0 BY <1>2 DEF Paths, FilesIn, NoFile
  <2>2. ASSUME NEW n \in 1 .. a + b, IsThere(list[n][1]) PROVE kept[list[n][1]].at[list[n][2]] # 0
    BY <1>1, <1>5, <1>6, <1>11, <2>1, <2>2 DEF FilesStay
  <2>3. QED BY <1>7, <1>10, <2>2, NothingHappens DEF FilesStay, FilesStep
<1>16. FilesListed'
  <2>1. ASSUME NEW s \in Saved, IsThere(s) PROVE \E n \in DOMAIN list : list[n][1] = s
    <3>1. CASE \E n \in 1 .. a : scan.list[n][1] = s
      <4>1. PICK n \in 1 .. a : scan.list[n][1] = s BY <3>1
      <4>2. n \in 1 .. a + b /\ list[n] = scan.list[n] BY <1>7, <4>1
      <4>3. QED BY <1>7, <4>1, <4>2
    <3>2. CASE ~\E n \in 1 .. a : scan.list[n][1] = s
      <4>1. kept[s].at["archived"] # 0 BY <1>1, <1>6, <2>1, <3>2 DEF FilesListed
      <4>2. <<s, "archived">> \in some BY <1>2, <1>6, <3>2, <4>1 DEF Paths, FilesIn, NoFile
      <4>3. PICK n \in 1 .. b : more[n] = <<s, "archived">> BY <1>5, <1>6, <4>2
      <4>4. n + a \in 1 .. a + b /\ list[n + a] = more[n] BY <1>7, <4>3
      <4>5. QED BY <1>7, <4>3, <4>4
    <3>3. QED BY <3>1, <3>2
  <2>2. \A s : (IsThere(s))' <=> IsThere(s) BY <1>10, NothingHappens DEF FilesStep
  <2>3. QED BY <1>10, <2>1, <2>2 DEF FilesListed
<1>17. FilesDated' BY <1>8, <1>10 DEF FilesDated
<1>18. FilesInOrder' /\ FilesSeen' /\ FilesTold' /\ CatalogIsWhole'
  BY <1>10 DEF FilesInOrder, FilesSeen, FilesTold, CatalogIsWhole
<1>19. QED BY <1>14, <1>15, <1>16, <1>17, <1>18 DEF FilesAreRight

\* The age of a file, as of when it is looked at.
LEMMA FilesLookedAt ==
    ASSUME FilesStep, NEW n \in DOMAIN scan.list, Stats(n)
    PROVE  FilesAreRight'
<1>1. /\ scan \in ScanOf(Saved \X Places) /\ FilesTyped /\ FilesStay /\ FilesListed /\ FilesDated /\ AgesApart
      /\ scan.at = "stats" /\ n \in scan.busy /\ scan.results \in [DOMAIN scan.list -> Nat]
  BY DEF Stats, FilesStep, FilesAreRight, FilesTyped
<1>2. PICK s, dir, age : s = scan.list[n][1] /\ dir = scan.list[n][2] /\ age = kept[s].at[dir] OBVIOUS
<1>3. s \in Saved /\ dir \in Places /\ age \in Nat /\ age < Now BY <1>1, <1>2, FilesOfList DEF AgesApart
<1>4. scan' = [scan EXCEPT !.busy = @ \ {n}, !.results[n] = age] BY <1>2 DEF Stats, Step
<1>5. PICK results : results = [scan.results EXCEPT ![n] = age] OBVIOUS
<1>6. /\ scan'.at = "stats" /\ scan'.kind = scan.kind /\ scan'.legacy = scan.legacy /\ scan'.list = scan.list
      /\ scan'.busy = scan.busy \ {n} /\ scan'.results = results /\ scan'.told = scan.told
      /\ scan' \in ScanOf(Saved \X Places)'
  BY <1>1, <1>4, <1>5 DEF ScanOf
<1>7. results \in [DOMAIN scan.list -> Nat] /\ results[n] = age /\ \A m \in DOMAIN scan.list : m # n => results[m] = scan.results[m]
  BY <1>1, <1>3, <1>5
<1>8. FilesTyped' BY <1>1, <1>6, <1>7 DEF FilesTyped
<1>9. \A t : /\ (IsThere(t))' <=> IsThere(t)
             /\ ChangedAt(t)' = ChangedAt(t)
             /\ Unmoved(t)' <=> Unmoved(t)
  BY <1>6, NothingHappens DEF FilesStep
<1>10. FilesStay' /\ FilesListed' BY <1>1, <1>6, <1>9 DEF FilesStay, FilesListed, FilesStep
<1>11. FilesDated'
  <2>1. \A m \in DOMAIN scan.list : IsThere(scan.list[m][1]) /\ m \notin scan.busy \ {n} => results[m] # 0
    BY <1>1, <1>2, <1>7 DEF FilesDated, FilesStay
  <2>2. \A m \in DOMAIN scan.list : scan.list[m][1] \in Saved /\ (m # n => scan.list[m][1] # s)
    BY <1>1, <1>2, FilesOfList DEF FilesTyped
  <2>3. \A m \in DOMAIN scan.list : m # n /\ results[m] # 0 => results[m] # age
    BY <1>1, <1>2, <1>3, <1>7, <2>2 DEF FilesDated
  <2>4. ASSUME age # 0
        PROVE  /\ Unmoved(s) => age = ChangedAt(s)
               /\ \A t \in Saved, p \in Places : t # s => kept[t].at[p] # age
    BY <1>1, <1>2, <1>3, <2>4, WhenTheyChanged DEF AgesApart
  <2>5. ASSUME NEW m \in DOMAIN scan.list, results[m] # 0
        PROVE  /\ results[m] < Now
               /\ Unmoved(scan.list[m][1]) => results[m] = ChangedAt(scan.list[m][1])
               /\ \A t \in Saved, p \in Places : t # scan.list[m][1] => kept[t].at[p] # results[m]
               /\ \A k \in DOMAIN scan.list : results[k] = results[m] => k = m
    <3>1. CASE m = n BY <1>2, <1>3, <1>7, <2>3, <2>4, <2>5, <3>1
    <3>2. CASE m # n BY <1>7, <2>3, <2>5, <3>2, <1>1 DEF FilesDated
    <3>3. QED BY <3>1, <3>2
  <2>6. kept' = kept /\ Now' = Now BY <1>6, NothingHappens DEF FilesStep
  <2>7. QED BY <1>6, <1>9, <2>1, <2>5, <2>6 DEF FilesDated
<1>12. FilesInOrder' /\ FilesSeen' /\ FilesTold' /\ CatalogIsWhole'
  BY <1>6 DEF FilesInOrder, FilesSeen, FilesTold, CatalogIsWhole
<1>13. QED BY <1>8, <1>10, <1>11, <1>12 DEF FilesAreRight

\* The files are put in order: those that are gone go.
LEMMA FilesOrdered ==
    ASSUME FilesStep, Orders
    PROVE  FilesAreRight'
<1>1. /\ scan \in ScanOf(Saved \X Places) /\ FilesTyped /\ FilesStay /\ FilesListed /\ FilesDated
      /\ scan.at = "stats" /\ scan.busy = {} /\ scan.results \in [DOMAIN scan.list -> Nat] /\ scan.told = << >>
  BY DEF Orders, FilesStep, FilesAreRight, FilesTyped
<1>2. PICK T : T = {n \in DOMAIN scan.list : scan.results[n] # NoFile} OBVIOUS
<1>3. PICK order : order = NewestFirst(T, scan.results) OBVIOUS
<1>4. PICK list : list = [k \in DOMAIN order |-> scan.list[order[k]]] OBVIOUS
<1>5. scan' = [scan EXCEPT !.at = "inspecting", !.list = list, !.results = Blank(list), !.next = 1]
  BY <1>2, <1>3, <1>4 DEF Orders, Step, ByAge
<1>6. T \in SUBSET DOMAIN scan.list /\ IsFiniteSet(T) /\ \A n \in T : scan.results[n] \in Nat /\ scan.results[n] # 0
  BY <1>1, <1>2, FilesOfList, FS_Subset DEF NoFile
<1>7. \A n, m \in T : scan.results[n] = scan.results[m] => n = m BY <1>1, <1>6 DEF FilesDated
<1>8. /\ order \in Seq(T)
      /\ \A i, j \in DOMAIN order : i < j => scan.results[order[i]] > scan.results[order[j]]
      /\ \A n \in T : \E k \in DOMAIN order : order[k] = n
  BY <1>3, <1>6, <1>7, InOrderOfAge
<1>9. PICK m \in Nat : DOMAIN order = 1 .. m /\ \A k \in 1 .. m : order[k] \in T /\ order[k] \in DOMAIN scan.list
  BY <1>6, <1>8
<1>10. /\ list \in Seq(Saved \X Places) /\ DOMAIN list = 1 .. m /\ Len(list) = m
       /\ \A k \in 1 .. m : list[k] = scan.list[order[k]] /\ list[k][1] \in Saved
  <2>1. \A k \in 1 .. m : scan.list[order[k]] \in Saved \X Places /\ scan.list[order[k]][1] \in Saved
    BY <1>1, <1>9, FilesOfList
  <2>2. list \in [1 .. m -> Saved \X Places] BY <1>4, <1>9, <2>1
  <2>3. list \in Seq(Saved \X Places) /\ DOMAIN list = 1 .. m BY <1>9, <2>2
  <2>4. Len(list) = m BY <1>9, <2>3
  <2>5. \A k \in 1 .. m : list[k] = scan.list[order[k]] BY <1>4, <1>9
  <2>6. QED BY <2>1, <2>3, <2>4, <2>5
<1>11. Blank(list) \in [1 .. m -> {"none", "found"}] /\ \A k \in 1 .. m : Blank(list)[k] = "none"
  BY <1>10 DEF Blank
<1>12. /\ scan'.at = "inspecting" /\ scan'.kind = scan.kind /\ scan'.legacy = scan.legacy /\ scan'.list = list
       /\ scan'.busy = {} /\ scan'.results = Blank(list) /\ scan'.told = scan.told /\ scan'.next = 1
       /\ scan'.limit = scan.limit /\ scan' \in ScanOf(Saved \X Places)'
  <2>1. 1 \in Nat \ {0} OBVIOUS
  <2>2. QED BY <1>1, <1>5, <1>10, <2>1 DEF ScanOf
<1>13. \A i, j \in 1 .. m : i < j => scan.results[order[i]] > scan.results[order[j]] BY <1>8, <1>9
<1>14. \A i, j \in 1 .. m : list[i][1] = list[j][1] => i = j
  <2>1. TAKE i, j \in 1 .. m
  <2>2. list[i][1] = list[j][1] => order[i] = order[j] BY <1>1, <1>9, <1>10 DEF FilesTyped
  <2>3. i \in Nat /\ j \in Nat /\ scan.results[order[i]] \in Nat /\ scan.results[order[j]] \in Nat BY <1>6, <1>9
  <2>4. order[i] = order[j] => i = j BY <1>13, <2>3
  <2>5. QED BY <2>2, <2>4
<1>15. FilesTyped' BY <1>9, <1>1, <1>10, <1>11, <1>12, <1>14 DEF FilesTyped
<1>16. \A t : /\ (IsThere(t))' <=> IsThere(t)
              /\ ChangedAt(t)' = ChangedAt(t)
              /\ Unmoved(t)' <=> Unmoved(t)
  BY <1>12, NothingHappens DEF FilesStep
<1>17. FilesStay'
  <2>1. \A k \in 1 .. m : IsThere(list[k][1]) => kept[list[k][1]].at[list[k][2]] # 0
    <3>1. TAKE k \in 1 .. m
    <3>2. list[k] = scan.list[order[k]] /\ order[k] \in DOMAIN scan.list BY <1>9, <1>10
    <3>3. QED BY <1>1, <3>2 DEF FilesStay
  <2>2. QED BY <1>10, <1>12, <1>16, <2>1 DEF FilesStay, FilesStep
<1>18. FilesListed'
  <2>1. ASSUME NEW s \in Saved, IsThere(s) PROVE \E k \in 1 .. m : list[k][1] = s
    <3>1. PICK n \in DOMAIN scan.list : scan.list[n][1] = s BY <1>1, <2>1 DEF FilesListed
    <3>2. n \in T BY <1>1, <1>2, <2>1, <3>1 DEF FilesDated, NoFile
    <3>3. PICK k \in 1 .. m : order[k] = n BY <1>8, <1>9, <3>2
    <3>4. QED BY <1>10, <3>1, <3>3
  <2>2. QED BY <1>10, <1>12, <1>16, <2>1 DEF FilesListed
<1>19. FilesInOrder'
  <2>1. ASSUME NEW i \in 1 .. m, NEW j \in 1 .. m, i < j, Unmoved(list[i][1]), Unmoved(list[j][1])
        PROVE  ChangedAt(list[i][1]) > ChangedAt(list[j][1])
    <3>1. /\ scan.results[order[i]] = ChangedAt(list[i][1])
          /\ scan.results[order[j]] = ChangedAt(list[j][1])
      <4>1. /\ order[i] \in DOMAIN scan.list /\ scan.results[order[i]] # 0 /\ list[i] = scan.list[order[i]]
            /\ order[j] \in DOMAIN scan.list /\ scan.results[order[j]] # 0 /\ list[j] = scan.list[order[j]]
        BY <1>6, <1>9, <1>10
      <4>2. QED BY <1>1, <2>1, <4>1 DEF FilesDated
    <3>2. QED BY <1>13, <2>1, <3>1
  <2>2. QED BY <1>10, <1>12, <1>16, <2>1 DEF FilesInOrder
<1>20. FilesSeen'
  <2>1. FoundOnes' = {} BY <1>10, <1>11, <1>12 DEF FoundOnes
  <2>2. Cardinality({}) = 0 /\ scan.limit \in Nat /\ \A n \in 1 .. m : ~(n < 1) BY <1>1, FS_EmptySet DEF ScanOf
  <2>3. FoundOnes' \cup scan'.busy = {} BY <1>12, <2>1
  <2>4. QED BY <1>10, <1>12, <2>1, <2>2, <2>3 DEF FilesSeen
<1>21. FilesDated' /\ FilesTold' /\ CatalogIsWhole' BY <1>12 DEF FilesDated, FilesTold, CatalogIsWhole
<1>22. QED BY <1>15, <1>17, <1>18, <1>19, <1>20, <1>21 DEF FilesAreRight

\* How many a batch takes.
LEMMA BatchSize ==
    ASSUME NEW left \in Nat, NEW wanted \in Nat, NEW size,
           size = CHOOSE k \in 0 .. left : k = IF wanted < left THEN wanted ELSE left
    PROVE  size \in Nat /\ size <= left /\ size <= wanted /\ (size = 0 => left = 0 \/ wanted = 0)
<1>1. PICK least : least = IF wanted < left THEN wanted ELSE left OBVIOUS
<1>2. least \in 0 .. left /\ least <= wanted /\ (least = 0 => left = 0 \/ wanted = 0) BY <1>1
<1>3. size = CHOOSE k \in 0 .. left : k = least BY <1>1
<1>4. size = least BY <1>2, <1>3
<1>5. QED BY <1>2, <1>4

\* A batch is taken, or there is no need of one.
LEMMA FilesBatched ==
    ASSUME FilesStep, TakesBatch
    PROVE  FilesAreRight'
<1>1. /\ scan \in ScanOf(Saved \X Places) /\ FilesTyped /\ FilesStay /\ FilesListed /\ FilesInOrder /\ FilesSeen
      /\ scan.at = "inspecting" /\ scan.busy = {} /\ scan.told = << >> /\ scan.kind = "files"
      /\ scan.next \in 1 .. Len(scan.list) + 1
  BY DEF TakesBatch, FilesStep, FilesAreRight, FilesTyped
<1>2. PICK len \in Nat : len = Len(scan.list) /\ DOMAIN scan.list = 1 .. len /\ IsFiniteSet(1 .. len)
  BY <1>1, FilesOfList
<1>3. scan.next \in Nat /\ scan.next >= 1 /\ scan.next <= len + 1 /\ scan.limit \in Nat BY <1>1, <1>2 DEF ScanOf
<1>4. IsFiniteSet(FoundOnes) /\ Cardinality(FoundOnes) \in Nat /\ Found = Cardinality(FoundOnes)
  BY <1>2, FS_Subset, FS_CardinalityType DEF FoundOnes, Found
<1>5. FoundOnes \cup scan.busy = FoundOnes BY <1>1
<1>6. scan.limit # 0 => Cardinality(FoundOnes) <= scan.limit BY <1>1, <1>5 DEF FilesSeen
<1>7. PICK left : left = Len(scan.list) - scan.next + 1 OBVIOUS
<1>8. PICK wanted : wanted = IF scan.limit = 0 THEN left ELSE scan.limit - Found OBVIOUS
<1>9. PICK size : size = CHOOSE k \in 0 .. left : k = IF wanted < left THEN wanted ELSE left OBVIOUS
<1>10. /\ left \in Nat /\ left = len - scan.next + 1
       /\ wanted \in Nat /\ wanted = IF scan.limit = 0 THEN left ELSE scan.limit - Cardinality(FoundOnes)
  BY <1>2, <1>3, <1>4, <1>6, <1>7, <1>8
<1>11. size \in Nat /\ size <= left /\ size <= wanted /\ (size = 0 => left = 0 \/ wanted = 0)
  BY <1>9, <1>10, BatchSize
<1>12. scan' = IF size = 0 THEN [scan EXCEPT !.at = "telling", !.next = 1]
               ELSE [scan EXCEPT !.busy = scan.next..(scan.next + size - 1), !.next = @ + size]
  BY <1>7, <1>8, <1>9, SMT DEF TakesBatch, Step
<1>13. CASE size = 0
  <2>1. /\ scan'.at = "telling" /\ scan'.kind = scan.kind /\ scan'.legacy = scan.legacy /\ scan'.list = scan.list
        /\ scan'.busy = {} /\ scan'.results = scan.results /\ scan'.told = scan.told /\ scan'.next = 1
        /\ scan'.limit = scan.limit /\ scan' \in ScanOf(Saved \X Places)'
    <3>1. 1 \in Nat \ {0} OBVIOUS
    <3>2. QED BY <1>1, <1>12, <1>13, <3>1 DEF ScanOf
  <2>2. FilesTyped' BY <1>1, <2>1 DEF FilesTyped
  <2>3. \A t : /\ (IsThere(t))' <=> IsThere(t)
               /\ ChangedAt(t)' = ChangedAt(t)
               /\ Unmoved(t)' <=> Unmoved(t)
               /\ Sought(t)' <=> Sought(t)
    BY <2>1, NothingHappens DEF FilesStep
  <2>4. FilesStay' /\ FilesListed' /\ FilesInOrder'
    BY <1>1, <2>1, <2>3 DEF FilesStay, FilesListed, FilesInOrder, FilesStep
  <2>5. FoundOnes' = FoundOnes BY <2>1 DEF FoundOnes
  <2>6. ASSUME NEW n \in DOMAIN scan.list, Sought(scan.list[n][1]), n \notin FoundOnes
        PROVE  scan.limit # 0 /\ Cardinality(FoundOnes) = scan.limit /\ \A m \in FoundOnes : m < n
    <3>1. n \in Nat /\ n <= len BY <1>2
    <3>2. n >= scan.next BY <1>1, <1>3, <2>6, <3>1 DEF FilesSeen, FoundOnes
    <3>3. left # 0 /\ wanted = 0 /\ scan.limit # 0 BY <1>3, <1>10, <1>11, <1>13, <3>1, <3>2
    <3>4. Cardinality(FoundOnes) = scan.limit BY <1>3, <1>4, <1>10, <3>3
    <3>5. \A m \in FoundOnes : m \in Nat /\ m < scan.next BY <1>1, <1>2 DEF FilesSeen, FoundOnes
    <3>6. \A m \in FoundOnes : m < n BY <1>3, <3>1, <3>2, <3>5
    <3>7. QED BY <3>3, <3>4, <3>6
  <2>7. FilesTold'
    <3>1. {n \in FoundOnes : n < 1} = {} BY <1>2 DEF FoundOnes
    <3>2. Len(scan.told) = 0 /\ Cardinality({}) = 0 BY <1>1, FS_EmptySet
    <3>3. ToldIds' = {} BY <1>1, <2>1 DEF ToldIds
    <3>4. Len(scan'.told) = Cardinality({n \in FoundOnes' : n < scan'.next}) BY <2>1, <2>5, <3>1, <3>2
    <3>5. ToldIds' = {scan'.list[n][1] : n \in {m \in FoundOnes' : m < scan'.next}} BY <2>1, <2>5, <3>1, <3>3
    <3>6. QED BY <2>1, <2>3, <2>5, <2>6, <3>4, <3>5 DEF FilesTold
  <2>8. FilesDated' /\ FilesSeen' /\ CatalogIsWhole' BY <2>1 DEF FilesDated, FilesSeen, CatalogIsWhole
  <2>9. QED BY <2>2, <2>4, <2>7, <2>8 DEF FilesAreRight
<1>14. CASE size # 0
  <2> DEFINE batch == scan.next..(scan.next + size - 1)
  <2>1. /\ batch \in SUBSET (1 .. len) /\ scan.next + size \in 1 .. len + 1 /\ scan.next + size \in Nat \ {0}
        /\ \A n \in Nat : n < scan.next + size => n < scan.next \/ n \in batch
        /\ \A n \in batch : n < scan.next + size
        /\ IsFiniteSet(batch) /\ Cardinality(batch) = size
    <3>1. /\ batch \in SUBSET (1 .. len) /\ scan.next + size \in 1 .. len + 1 /\ scan.next + size \in Nat \ {0}
          /\ \A n \in Nat : n < scan.next + size => n < scan.next \/ n \in batch
          /\ \A n \in batch : n < scan.next + size
      BY <1>3, <1>11, <1>14, <1>10
    <3>2. scan.next \in Int /\ scan.next + size - 1 \in Int /\ scan.next <= scan.next + size - 1
      BY <1>3, <1>11, <1>14
    <3>3. IsFiniteSet(batch) /\ Cardinality(batch) = (scan.next + size - 1) - scan.next + 1 BY <3>2, FS_Interval
    <3>4. (scan.next + size - 1) - scan.next + 1 = size BY <1>3, <1>11
    <3>5. QED BY <3>1, <3>3, <3>4
  <2>2. scan' = [scan EXCEPT !.busy = batch, !.next = @ + size] BY <1>12, <1>14
  <2> HIDE DEF batch
  <2>3. /\ scan'.at = "inspecting" /\ scan'.kind = scan.kind /\ scan'.legacy = scan.legacy /\ scan'.list = scan.list
        /\ scan'.busy = batch /\ scan'.results = scan.results /\ scan'.told = scan.told
        /\ scan'.next = scan.next + size /\ scan'.limit = scan.limit /\ scan' \in ScanOf(Saved \X Places)'
    BY <1>1, <1>2, <2>1, <2>2 DEF ScanOf
  <2>4. FilesTyped' BY <1>1, <1>2, <2>1, <2>3 DEF FilesTyped
  <2>5. \A t : /\ (IsThere(t))' <=> IsThere(t)
               /\ ChangedAt(t)' = ChangedAt(t)
               /\ Unmoved(t)' <=> Unmoved(t)
               /\ Sought(t)' <=> Sought(t)
    BY <2>3, NothingHappens DEF FilesStep
  <2>6. FilesStay' /\ FilesListed' /\ FilesInOrder'
    BY <1>1, <2>3, <2>5 DEF FilesStay, FilesListed, FilesInOrder, FilesStep
  <2>7. FoundOnes' = FoundOnes BY <2>3 DEF FoundOnes
  <2>8. FilesSeen'
    <3>1. ASSUME NEW n \in 1 .. len, n < scan.next + size, n \notin batch, Sought(scan.list[n][1])
          PROVE  scan.results[n] = "found"
      BY <1>1, <1>2, <2>1, <3>1 DEF FilesSeen
    <3>2. ASSUME NEW n \in 1 .. len, n \in FoundOnes \cup batch
          PROVE  n < scan.next + size
      BY <1>1, <1>2, <1>3, <1>11, <2>1, <3>2 DEF FilesSeen
    <3>3. scan.limit # 0 => Cardinality(FoundOnes \cup batch) <= scan.limit
      <4>1. IsFiniteSet(FoundOnes \cap batch) /\ Cardinality(FoundOnes \cap batch) \in Nat
        BY <1>4, FS_Subset, FS_CardinalityType
      <4>2. Cardinality(FoundOnes \cup batch) = Cardinality(FoundOnes) + Cardinality(batch) - Cardinality(FoundOnes \cap batch)
        BY <1>4, <2>1, FS_Union
      <4>3. QED BY <1>3, <1>4, <1>11, <1>10, <2>1, <4>1, <4>2
    <3>4. QED BY <1>2, <2>3, <2>5, <2>7, <3>1, <3>2, <3>3 DEF FilesSeen
  <2>9. FilesDated' /\ FilesTold' /\ CatalogIsWhole' BY <2>3 DEF FilesDated, FilesTold, CatalogIsWhole
  <2>10. QED BY <2>4, <2>6, <2>8, <2>9 DEF FilesAreRight
<1>15. QED BY <1>13, <1>14

\* A file of the batch is inspected.
LEMMA FilesInspected ==
    ASSUME FilesStep, NEW n \in DOMAIN scan.list, InspectsFile(n)
    PROVE  FilesAreRight'
<1>1. /\ scan \in ScanOf(Saved \X Places) /\ FilesTyped /\ FilesStay /\ FilesListed /\ FilesInOrder /\ FilesSeen
      /\ scan.at = "inspecting" /\ n \in scan.busy /\ scan.kind = "files"
      /\ scan.results \in [DOMAIN scan.list -> {"none", "found"}]
  BY DEF InspectsFile, FilesStep, FilesAreRight, FilesTyped
<1>2. PICK s : s = scan.list[n][1] OBVIOUS
<1>3. PICK verdict : verdict = IF kept[s].at[scan.list[n][2]] # NoFile /\ kept[s].spoken /\ ~kept[s].child
                             THEN "found" ELSE "none"
  OBVIOUS
<1>4. scan' = [scan EXCEPT !.busy = @ \ {n}, !.results[n] = verdict] BY <1>2, <1>3, Zenon DEF InspectsFile, Step
<1>5. PICK results : results = [scan.results EXCEPT ![n] = verdict] OBVIOUS
<1>6. /\ scan'.at = "inspecting" /\ scan'.kind = scan.kind /\ scan'.legacy = scan.legacy /\ scan'.list = scan.list
      /\ scan'.busy = scan.busy \ {n} /\ scan'.results = results /\ scan'.told = scan.told
      /\ scan'.next = scan.next /\ scan'.limit = scan.limit /\ scan' \in ScanOf(Saved \X Places)'
  BY <1>1, <1>4, <1>5 DEF ScanOf
<1>7. /\ results \in [DOMAIN scan.list -> {"none", "found"}] /\ results[n] = verdict
      /\ \A m \in DOMAIN scan.list : m # n => results[m] = scan.results[m]
  BY <1>1, <1>3, <1>5
<1>8. FilesTyped' BY <1>1, <1>6, <1>7 DEF FilesTyped
<1>9. \A t : /\ (IsThere(t))' <=> IsThere(t)
             /\ ChangedAt(t)' = ChangedAt(t)
             /\ Unmoved(t)' <=> Unmoved(t)
             /\ Sought(t)' <=> Sought(t)
  BY <1>6, NothingHappens DEF FilesStep
<1>10. FilesStay' /\ FilesListed' /\ FilesInOrder'
  BY <1>1, <1>6, <1>9 DEF FilesStay, FilesListed, FilesInOrder, FilesStep
<1>11. FoundOnes' \cup scan'.busy \in SUBSET (FoundOnes \cup scan.busy) BY <1>1, <1>6, <1>7 DEF FoundOnes
<1>12. FilesSeen'
  <2>1. Sought(s) => verdict = "found" BY <1>1, <1>2, <1>3 DEF Sought, FilesStay, NoFile
  <2>2. ASSUME NEW m \in DOMAIN scan.list, m < scan.next, m \notin scan.busy \ {n}, Sought(scan.list[m][1])
        PROVE  results[m] = "found"
    <3>1. CASE m = n BY <1>2, <1>7, <2>1, <2>2, <3>1
    <3>2. CASE m # n BY <1>1, <1>7, <2>2, <3>2 DEF FilesSeen
    <3>3. QED BY <3>1, <3>2
  <2>3. \A m \in DOMAIN scan.list : m \in FoundOnes' \cup scan'.busy => m < scan.next
    BY <1>1, <1>11 DEF FilesSeen
  <2>4. scan.limit # 0 => Cardinality(FoundOnes' \cup scan'.busy) <= scan.limit
    <3>1. FoundOnes \cup scan.busy \in SUBSET DOMAIN scan.list BY <1>1, FilesOfList DEF FoundOnes
    <3>2. IsFiniteSet(FoundOnes \cup scan.busy) BY <1>1, <3>1, FilesOfList, FS_Subset
    <3>3. /\ Cardinality(FoundOnes' \cup scan'.busy) \in Nat /\ Cardinality(FoundOnes \cup scan.busy) \in Nat
          /\ Cardinality(FoundOnes' \cup scan'.busy) <= Cardinality(FoundOnes \cup scan.busy)
      BY <1>11, <3>2, FS_Subset, FS_CardinalityType
    <3>4. scan.limit \in Nat BY <1>1 DEF ScanOf
    <3>5. QED BY <1>1, <3>3, <3>4 DEF FilesSeen
  <2>5. QED BY <1>6, <1>9, <2>2, <2>3, <2>4 DEF FilesSeen
<1>13. FilesDated' /\ FilesTold' /\ CatalogIsWhole' BY <1>6 DEF FilesDated, FilesTold, CatalogIsWhole
<1>14. QED BY <1>8, <1>10, <1>12, <1>13 DEF FilesAreRight

\* One of those found is told, or all were.
LEMMA FilesToldOf ==
    ASSUME FilesStep, TellsNext
    PROVE  FilesAreRight'
<1>1. /\ scan \in ScanOf(Saved \X Places) /\ FilesTyped /\ FilesStay /\ FilesListed /\ FilesInOrder /\ FilesTold
      /\ scan.at = "telling" /\ scan.busy = {} /\ scan.kind = "files"
      /\ scan.results \in [DOMAIN scan.list -> {"none", "found"}]
  BY DEF TellsNext, FilesStep, FilesAreRight, FilesTyped
<1>2. /\ scan.told \in Seq(Saved \X Places) /\ scan.next \in Nat \ {0} /\ scan.limit \in Nat
      /\ IsFiniteSet(DOMAIN scan.list)
      /\ \A n \in DOMAIN scan.list : n \in Nat /\ scan.list[n] \in Saved \X Places /\ scan.list[n][1] \in Saved
  BY <1>1, FilesOfList DEF ScanOf
<1>3. PICK found : found = {n \in DOMAIN scan.list : n >= scan.next /\ scan.results[n] = "found"} OBVIOUS
<1>4. PICK past : past = {n \in FoundOnes : n < scan.next} OBVIOUS
<1>5. /\ past \in SUBSET DOMAIN scan.list /\ IsFiniteSet(past) /\ Cardinality(past) \in Nat
      /\ Len(scan.told) = Cardinality(past) /\ ToldIds = {scan.list[n][1] : n \in past}
      /\ FoundOnes = past \cup found
  BY <1>2, <1>3, <1>4, FS_Subset, FS_CardinalityType, <1>1 DEF FoundOnes, FilesTold
<1>6. ToldIds = {scan.told[n][1] : n \in DOMAIN scan.told} BY <1>1 DEF ToldIds, IdOf
<1>7. ASSUME NEW i \in DOMAIN scan.list, NEW j \in DOMAIN scan.list, i < j,
             {scan.list[i][1], scan.list[j][1]} \cap events.on = {}
      PROVE  ChangedAt(scan.list[i][1]) > ChangedAt(scan.list[j][1])
  BY <1>1, <1>7 DEF FilesInOrder, Unmoved
<1>8. ASSUME NEW s \in Saved, Sought(s)
      PROVE  \E n \in DOMAIN scan.list : scan.list[n][1] = s
  BY <1>1, <1>8 DEF FilesListed, Sought
<1>9. CASE found # {}
  <2>1. PICK first : first = CHOOSE n \in found : \A m \in found : n <= m OBVIOUS
  <2>2. first \in found /\ first \in DOMAIN scan.list /\ first + 1 \in Nat \ {0} /\ \A m \in found : first <= m
    BY <1>3, <1>1, <1>9, FirstFound, <2>1
  <2>3. PICK told : told = Append(scan.told, scan.list[first]) OBVIOUS
  <2>4. PICK at : at = IF Enough(told) THEN "done" ELSE "telling" OBVIOUS
  <2>5. scan' = [scan EXCEPT !.told = told, !.next = first + 1, !.at = at]
    BY <1>1, <1>3, <1>9, <2>1, <2>3, <2>4, Zenon DEF TellsNext, Step
  <2>6. scan.list[first] \in Saved \X Places BY <1>2, <2>2
  <2>7. /\ told \in Seq(Saved \X Places) /\ DOMAIN told = DOMAIN scan.told \cup {Len(scan.told) + 1}
        /\ Len(scan.told) + 1 \notin DOMAIN scan.told
        /\ told[Len(scan.told) + 1] = scan.list[first] /\ \A n \in DOMAIN scan.told : told[n] = scan.told[n]
    BY <1>2, <2>3, <2>6, OneMoreTold
  <2>8. /\ scan'.at = at /\ scan'.kind = scan.kind /\ scan'.legacy = scan.legacy /\ scan'.list = scan.list
        /\ scan'.next = first + 1 /\ scan'.busy = scan.busy /\ scan'.results = scan.results /\ scan'.told = told
        /\ scan'.limit = scan.limit /\ scan' \in ScanOf(Saved \X Places)'
    BY <1>1, <2>2, <2>5, <2>7 DEF ScanOf
  <2>9. PICK now : now = {n \in FoundOnes : n < first + 1} OBVIOUS
  <2>10. now = past \cup {first} /\ first \notin past
    <3>1. first >= scan.next /\ first \in Nat /\ first \in FoundOnes BY <1>2, <1>3, <1>5, <2>2
    <3>2. \A n \in past : n \in Nat /\ n \in FoundOnes /\ n < scan.next BY <1>2, <1>4, <1>5
    <3>3. \A n \in found : n \in Nat /\ (n < first + 1 <=> n = first) BY <1>2, <1>3, <2>2, <3>1
    <3>4. \A n \in past : n < first + 1 /\ n # first BY <1>2, <3>1, <3>2
    <3>5. QED BY <1>5, <2>9, <3>1, <3>2, <3>3, <3>4
  <2>11. ToldIds' = ToldIds \cup {scan.list[first][1]} /\ ToldIds' = {scan.list[n][1] : n \in now}
    <3>1. ToldIds' = {told[n][1] : n \in DOMAIN told} BY <1>1, <2>8 DEF ToldIds, IdOf
    <3>2. ToldIds' = ToldIds \cup {scan.list[first][1]} BY <1>6, <2>7, <3>1
    <3>3. QED BY <1>5, <2>10, <3>2
  <2>12. scan.list[first][1] \notin ToldIds BY <1>1, <1>5, <2>2, <2>10 DEF FilesTyped
  <2>13. Len(told) = Cardinality(now)
    <3>1. Len(told) = Len(scan.told) + 1 BY <1>2, <2>3, <2>6
    <3>2. Cardinality(now) = Cardinality(past) + 1 BY <1>5, <2>10, FS_AddElement
    <3>3. QED BY <1>5, <3>1, <3>2
  <2>14. FilesTyped' BY <1>1, <1>6, <2>7, <2>12, <2>4, <2>8 DEF FilesTyped
  <2>15. \A s : /\ (IsThere(s))' <=> IsThere(s)
                /\ ChangedAt(s)' = ChangedAt(s)
                /\ Unmoved(s)' <=> Unmoved(s)
                /\ Sought(s)' <=> Sought(s)
    BY <2>8, NothingHappens DEF FilesStep
  <2>16. FoundOnes' = FoundOnes BY <2>8 DEF FoundOnes
  <2>17. FilesStay' /\ FilesListed' /\ FilesInOrder'
    BY <1>1, <2>4, <2>8, <2>15 DEF FilesStay, FilesListed, FilesInOrder, FilesStep
  <2>18. FilesTold' BY <2>8, <2>9, <2>13, <2>16, <2>11, <1>1, <2>15 DEF FilesTold
  <2>19. FilesDated' /\ FilesSeen' BY <2>4, <2>8 DEF FilesDated, FilesSeen
  <2>20. CatalogIsWhole'
    <3>1. ASSUME NEW s \in Saved, Sought(s), s \notin ToldIds', NEW t \in ToldIds', {s, t} \cap events.on = {}
          PROVE  ChangedAt(t) > ChangedAt(s)
      <4>1. PICK n \in DOMAIN scan.list : scan.list[n][1] = s BY <1>8, <3>1
      <4>2. PICK m \in now : scan.list[m][1] = t BY <2>11, <3>1
      <4>3. n \notin now /\ m \in FoundOnes /\ m \in DOMAIN scan.list /\ m < first + 1
        BY <2>9, <2>11, <3>1, <4>1, <4>2 DEF FoundOnes
      <4>4. m < n
        <5>1. CASE n \in FoundOnes BY <1>2, <2>2, <2>9, <4>3, <5>1
        <5>2. CASE n \notin FoundOnes BY <1>1, <3>1, <4>1, <4>3, <5>2 DEF FilesTold
        <5>3. QED BY <5>1, <5>2
      <4>5. QED BY <1>7, <3>1, <4>1, <4>2, <4>3, <4>4
    <3>2. scan'.at = "done" => Enough(scan.told)' BY <2>4, <2>8 DEF Enough
    <3>3. events' = events BY DEF FilesStep
    <3>4. QED BY <2>15, <3>1, <3>2, <3>3 DEF CatalogIsWhole
  <2>21. QED BY <2>14, <2>17, <2>18, <2>19, <2>20 DEF FilesAreRight
<1>10. CASE found = {}
  <2>1. scan' = [scan EXCEPT !.at = "done"] BY <1>1, <1>3, <1>10 DEF TellsNext, Step
  <2>2. /\ scan'.at = "done" /\ scan'.kind = scan.kind /\ scan'.legacy = scan.legacy /\ scan'.list = scan.list
        /\ scan'.next = scan.next /\ scan'.busy = scan.busy /\ scan'.results = scan.results /\ scan'.told = scan.told
        /\ scan'.limit = scan.limit /\ scan' \in ScanOf(Saved \X Places)'
    BY <1>1, <2>1 DEF ScanOf
  <2>3. ToldIds' = ToldIds /\ \A s : /\ (IsThere(s))' <=> IsThere(s)
                                     /\ ChangedAt(s)' = ChangedAt(s)
                                     /\ Sought(s)' <=> Sought(s)
    BY <2>2, NothingHappens, SameAreTold DEF FilesStep
  <2>4. FilesTyped' BY <1>1, <2>2 DEF FilesTyped
  <2>5. FilesStay' BY <1>1, <2>2, <2>3 DEF FilesStay, FilesStep
  <2>6. ASSUME NEW s \in Saved, Sought(s), s \notin ToldIds
        PROVE  /\ Enough(scan.told)
               /\ \A t \in ToldIds : {s, t} \cap events.on = {} => ChangedAt(t) > ChangedAt(s)
    <3>1. PICK n \in DOMAIN scan.list : scan.list[n][1] = s BY <1>8, <2>6
    <3>2. n \notin FoundOnes /\ past = FoundOnes BY <1>5, <1>10, <2>6, <3>1
    <3>3. scan.limit # 0 /\ Cardinality(FoundOnes) = scan.limit /\ \A m \in FoundOnes : m < n
      BY <1>1, <2>6, <3>1, <3>2 DEF FilesTold
    <3>4. Enough(scan.told)
      <4>1. Len(scan.told) = scan.limit BY <1>5, <3>2, <3>3
      <4>2. QED BY <1>2, <3>3, <4>1 DEF Enough
    <3>5. ASSUME NEW t \in ToldIds, {s, t} \cap events.on = {} PROVE ChangedAt(t) > ChangedAt(s)
      <4>1. PICK m \in past : scan.list[m][1] = t BY <1>5, <3>5
      <4>2. QED BY <1>5, <1>7, <3>1, <3>2, <3>3, <3>5, <4>1
    <3>6. QED BY <3>4, <3>5
  <2>7. CatalogIsWhole' BY <2>2, <2>3, <2>6 DEF Enough, CatalogIsWhole, FilesStep
  <2>8. FilesListed' /\ FilesDated' /\ FilesInOrder' /\ FilesSeen' /\ FilesTold'
    BY <2>2 DEF FilesListed, FilesDated, FilesInOrder, FilesSeen, FilesTold
  <2>9. QED BY <2>4, <2>5, <2>7, <2>8 DEF FilesAreRight
<1>11. QED BY <1>9, <1>10

\* The runtime goes on meanwhile: a file stays where it was listed.
LEMMA FilesGoOn ==
    ASSUME AgesApart, FilesAreRight, scan.kind = "files", ~FilesMove, Onwards
    PROVE  FilesAreRight'
<1>1. /\ scan \in ScanOf(Saved \X Places) /\ FilesTyped /\ FilesStay /\ FilesListed /\ FilesDated /\ FilesInOrder
      /\ FilesSeen /\ FilesTold /\ scan' = scan /\ scan.at \notin {"idle", "done", "failed"} /\ ~scan.legacy
  BY DEF Onwards, FilesAreRight, FilesTyped
<1>2. \A n \in DOMAIN scan.list : scan.list[n][1] \in Saved /\ scan.list[n][2] \in Places BY <1>1, FilesOfList
<1>3. ASSUME NEW s \in Saved
      PROVE  /\ (IsThere(s))' => IsThere(s)
             /\ (IsThere(s))' => \A p \in Places : kept[s].at[p] # 0 => kept'[s].at[p] # 0
             /\ Unmoved(s)' => Unmoved(s) /\ ChangedAt(s)' = ChangedAt(s)
             /\ Sought(s)' => Sought(s)
  BY <1>1 DEF Onwards, ChangedAt, Sought
<1>4. FilesTyped' BY <1>1 DEF FilesTyped, ScanOf
<1>5. FilesStay' BY <1>1, <1>2, <1>3 DEF FilesStay
<1>6. FilesListed' BY <1>1, <1>3 DEF FilesListed, Places
<1>7. FilesDated'
  <2>1. ASSUME scan.at = "stats", NEW n \in DOMAIN scan.list, scan.results[n] # 0
        PROVE  /\ scan.results[n] < Now'
               /\ Unmoved(scan.list[n][1])' => scan.results[n] = ChangedAt(scan.list[n][1])'
               /\ \A t \in Saved, p \in Places : t # scan.list[n][1] => kept'[t].at[p] # scan.results[n]
               /\ \A m \in DOMAIN scan.list : scan.results[m] = scan.results[n] => m = n
    <3>1. scan.results[n] \in Nat /\ scan.results[n] < Now /\ Now \in Nat /\ Now' = Now + 1
      BY <1>1, <2>1, WhenTheyChanged DEF FilesTyped, FilesDated, Onwards
    <3>2. ASSUME NEW t \in Saved, NEW p \in Places, t # scan.list[n][1]
          PROVE  kept'[t].at[p] # scan.results[n]
      BY <1>1, <2>1, <3>2, <3>1 DEF Onwards, FilesDated, Places
    <3>3. QED BY <1>1, <1>2, <1>3, <2>1, <3>1, <3>2 DEF FilesDated
  <2>2. QED BY <1>1, <1>2, <1>3, <2>1 DEF FilesDated
<1>8. FilesInOrder' BY <1>1, <1>2, <1>3 DEF FilesInOrder
<1>9. FoundOnes' = FoundOnes /\ ToldIds' = ToldIds BY <1>1 DEF FoundOnes, ToldIds, IdOf
<1>10. FilesSeen' BY <1>1, <1>2, <1>3, <1>9 DEF FilesSeen
<1>11. FilesTold' BY <1>1, <1>2, <1>3, <1>9 DEF FilesTold
<1>12. CatalogIsWhole' BY <1>1 DEF CatalogIsWhole
<1>13. QED BY <1>4, <1>5, <1>6, <1>7, <1>8, <1>10, <1>11, <1>12 DEF FilesAreRight

-----------------------------------------------------------------------------
(* SavedHistories: the theorem                                             *)

\* The ages that sessions begin with differ: there are as many as there are sessions.
LEMMA AgesDiffer ==
    Ages \in [Saved -> 1..Cardinality(Saved)] /\ \A s, t \in Saved : s # t => Ages[s] # Ages[t]
<1>1. \E ages \in [Saved -> 1 .. Cardinality(Saved)] : \A s, t \in Saved : s # t => ages[s] # ages[t]
  <2>1. PICK n \in Nat : n = Cardinality(Saved) /\ ExistsBijection(1 .. n, Saved)
    BY SavedHistoriesAssumption, FS_CardinalityType
  <2>2. PICK f : f \in Bijection(1 .. n, Saved) BY <2>1 DEF ExistsBijection
  <2> DEFINE ages == [s \in Saved |-> CHOOSE i \in 1 .. n : f[i] = s]
  <2>3. \A s \in Saved : ages[s] \in 1 .. n /\ f[ages[s]] = s BY <2>2 DEF Bijection, Surjection
  <2>4. ages \in [Saved -> 1 .. n] /\ \A s, t \in Saved : s # t => ages[s] # ages[t] BY <2>3
  <2>5. QED BY <2>1, <2>4
<1>2. QED BY <1>1 DEF Ages

\* It holds at the start.
LEMMA SavedStarts ==
    ASSUME SavedInit
    PROVE  SavedInv
<1>1. PICK children \in SUBSET Saved, silent \in SUBSET Saved, moved \in SUBSET Saved :
          kept = [s \in Saved |->
               [child |-> s \in children, spoken |-> s \notin silent,
                at |-> [p \in Places |-> IF (s \in moved) = (p = "archived") THEN Ages[s] ELSE NoFile]]]
  BY DEF SavedInit
<1>2. PICK kind \in {"server", "files"}, legacy \in BOOLEAN, limit \in Limits :
          /\ legacy => kind = "server"
          /\ scan = [NewScan EXCEPT !.kind = kind, !.legacy = legacy, !.limit = limit]
  BY DEF SavedInit
<1>3. events = [count |-> 0, on |-> {}] BY DEF SavedInit
<1>4. PICK n \in Nat : n = Cardinality(Saved) BY SavedHistoriesAssumption, FS_CardinalityType
<1>5. /\ Now = 1 + n /\ \A s \in Saved : Ages[s] \in Nat /\ Ages[s] # 0 /\ Ages[s] < 1 + n
      /\ \A s, t \in Saved : s # t => Ages[s] # Ages[t]
  BY <1>3, <1>4, AgesDiffer DEF Now
<1>6. ASSUME NEW s \in Saved
      PROVE  /\ kept[s] \in [child : BOOLEAN, spoken : BOOLEAN, at : [Places -> Nat]]
             /\ \A p \in Places : kept[s].at[p] \in {0, Ages[s]}
             /\ \/ kept[s].at["active"] = Ages[s] /\ kept[s].at["archived"] = 0
                \/ kept[s].at["archived"] = Ages[s] /\ kept[s].at["active"] = 0
  BY <1>1, <1>5 DEF Places, NoFile
<1>7. AgesApart
  <2>1. kept \in [Saved -> [child : BOOLEAN, spoken : BOOLEAN, at : [Places -> Nat]]] BY <1>1, <1>6
  <2>2. events.count \in Nat BY <1>3
  <2>3. \A s \in Saved, p \in Places : kept[s].at[p] < Now BY <1>5, <1>6
  <2>4. \A s, t \in Saved : s # t => \A p, q \in Places : kept[s].at[p] # 0 => kept[s].at[p] # kept[t].at[q]
    BY <1>5, <1>6
  <2>5. \A s \in Saved : IsThere(s) /\ (kept[s].at["active"] = 0 \/ kept[s].at["archived"] = 0)
    BY <1>5, <1>6 DEF IsThere, Places, NoFile
  <2>6. QED BY <2>1, <2>2, <2>3, <2>4, <2>5 DEF AgesApart
<1>8. /\ scan.at = "idle" /\ scan.kind = kind /\ scan.legacy = legacy /\ scan.limit = limit /\ scan.pages = 0
      /\ scan.list = << >> /\ scan.cursor = 0 /\ scan.next = 1 /\ scan.busy = {} /\ scan.results = << >>
      /\ scan.failed = FALSE /\ scan.inspected = 0 /\ scan.told = << >>
  BY <1>2 DEF NewScan
<1>9. \A things : scan \in ScanOf(things)
  <2>1. limit \in Nat /\ 1 \in Nat \ {0} BY SavedHistoriesAssumption
  <2>2. scan = [at |-> "idle", kind |-> kind, legacy |-> legacy, limit |-> limit, pages |-> 0,
                list |-> << >>, cursor |-> 0, next |-> 1, busy |-> {}, results |-> << >>,
                failed |-> FALSE, inspected |-> 0, told |-> << >>]
    BY <1>2 DEF NewScan
  <2>3. TAKE things
  <2>4. << >> \in Seq(things) /\ {} \in SUBSET DOMAIN << >> OBVIOUS
  <2>5. QED BY <2>1, <2>2, <2>4 DEF ScanOf
<1>10. DOMAIN scan.list = {} /\ DOMAIN scan.told = {} /\ ToldIds = {} BY <1>8 DEF ToldIds
<1>11. PagesAreRight
  BY FS_EmptySet, SavedHistoriesAssumption, <1>8, <1>9, <1>10 DEF PagesTyped, Left, PagesAreRight, PagesPass,
     PagesInOrder, PagesSeen, PagesCover, CatalogIsWhole
<1>12. FilesAreRight \/ scan.kind = "server"
  BY <1>2, <1>8, <1>9, <1>10 DEF FilesTyped, FilesStay, FilesListed, FilesDated, FilesInOrder, FilesSeen,
     FilesTold, CatalogIsWhole, FilesAreRight
<1>13. QED BY <1>7, <1>8, <1>11, <1>12 DEF SavedInv

\* Nothing at all happens.
LEMMA SavedStays ==
    ASSUME SavedInv, UNCHANGED savedVars
    PROVE  SavedInv'
<1>1. kept' = kept /\ events' = events /\ scan' = scan BY DEF savedVars
<1>2. /\ ToldIds' = ToldIds /\ FoundOnes' = FoundOnes /\ Now' = Now
      /\ \A s : /\ (IsThere(s))' <=> IsThere(s)
                /\ ChangedAt(s)' = ChangedAt(s)
                /\ Unmoved(s)' <=> Unmoved(s)
                /\ Sought(s)' <=> Sought(s)
                /\ Left(s)' <=> Left(s)
      /\ \A n : ToTell(n)' <=> ToTell(n)
      /\ (AgesApart => AgesApart') /\ \A told : Enough(told)' <=> Enough(told)
  BY <1>1, NothingHappens, SameAreTold DEF FoundOnes, Left, ToTell, Enough
<1>3. CatalogIsWhole => CatalogIsWhole' BY <1>1, <1>2 DEF CatalogIsWhole
<1>4. PagesAreRight => PagesAreRight'
  BY <1>1, <1>2, <1>3 DEF PagesTyped, ScanOf, PagesPass, PagesInOrder, PagesSeen, PagesCover, PagesAreRight
<1>5. FilesAreRight => FilesAreRight'
  <2>1. FilesTyped => FilesTyped' BY <1>1 DEF FilesTyped, ScanOf
  <2>2. (FilesStay => FilesStay') /\ (FilesListed => FilesListed') BY <1>1, <1>2 DEF FilesStay, FilesListed
  <2>3. FilesDated => FilesDated' BY <1>1, <1>2 DEF FilesDated
  <2>4. FilesInOrder => FilesInOrder' BY <1>1, <1>2 DEF FilesInOrder
  <2>5. (FilesSeen => FilesSeen') /\ (FilesTold => FilesTold') BY <1>1, <1>2 DEF FilesSeen, FilesTold
  <2>6. QED BY <1>3, <2>1, <2>2, <2>3, <2>4, <2>5 DEF FilesAreRight
<1>6. QED BY <1>1, <1>2, <1>4, <1>5 DEF SavedInv

\* A step of the discovery leaves the sessions alone, and asks the same runtime.
LEMMA TheSameIsAsked ==
    ASSUME NEW things, scan \in ScanOf(things),
           \/ StartsScan \/ AsksPage \/ PageFails \/ TakesNext \/ BatchEnds \/ TellsNext
           \/ \E n \in DOMAIN scan.list : Inspects(n) \/ InspectionFails(n) \/ Stats(n) \/ InspectsFile(n)
           \/ ListsActive \/ ListsArchived \/ Orders \/ TakesBatch
    PROVE  kept' = kept /\ events' = events /\ scan'.kind = scan.kind /\ scan'.legacy = scan.legacy
<1>1. CASE StartsScan \/ PageFails \/ TakesNext \/ BatchEnds
  BY <1>1 DEF StartsScan, PageFails, TakesNext, BatchEnds, Step, ScanOf
<1>2. CASE AsksPage BY <1>2 DEF AsksPage, Step, ScanOf
<1>3. CASE TellsNext BY <1>3 DEF TellsNext, Step, ScanOf
<1>4. CASE \E n \in DOMAIN scan.list : Inspects(n) \/ InspectionFails(n) \/ Stats(n) \/ InspectsFile(n)
  BY <1>4 DEF Inspects, InspectionFails, Stats, InspectsFile, Step, ScanOf
<1>5. CASE ListsActive \/ ListsArchived \/ Orders BY <1>5 DEF ListsActive, ListsArchived, Orders, Step, ScanOf
<1>6. CASE TakesBatch BY <1>6 DEF TakesBatch, Step, ScanOf
<1>7. QED BY <1>1, <1>2, <1>3, <1>4, <1>5, <1>6

\* Every step keeps it.
LEMMA SavedStep ==
    ASSUME SavedInv, ~FilesMove, SavedNext
    PROVE  SavedInv'
<1>1. /\ AgesApart /\ scan.kind \in {"server", "files"}
      /\ scan.kind = "server" => PagesAreRight
      /\ scan.kind = "files" => FilesAreRight
  BY DEF SavedInv
<1>2. scan \in ScanOf(Saved) \/ scan \in ScanOf(Saved \X Places)
  BY <1>1 DEF PagesAreRight, PagesTyped, FilesAreRight, FilesTyped
<1>3. CASE \E s \in Saved : \/ TouchesSession(s) \/ RemovesSession(s) \/ Copies(s)
                            \/ \E from, to \in Places : Moves(s, from, to)
  <2>1. AgesApart' /\ Onwards BY <1>1, <1>3, RuntimeGoesOn
  <2>2. scan' = scan BY <2>1 DEF Onwards
  <2>3. scan.kind = "server" => PagesAreRight' BY <1>1, <2>1, PagesGoOn
  <2>4. scan.kind = "files" => FilesAreRight' BY <1>1, <2>1, FilesGoOn
  <2>5. QED BY <1>1, <2>1, <2>2, <2>3, <2>4 DEF SavedInv
<1>4. CASE \/ StartsScan \/ AsksPage \/ PageFails \/ TakesNext \/ BatchEnds \/ TellsNext
           \/ \E n \in DOMAIN scan.list : Inspects(n) \/ InspectionFails(n) \/ Stats(n) \/ InspectsFile(n)
           \/ ListsActive \/ ListsArchived \/ Orders \/ TakesBatch
  <2>1. kept' = kept /\ events' = events /\ scan'.kind = scan.kind /\ scan'.legacy = scan.legacy
    BY <1>2, <1>4, TheSameIsAsked
  <2>2. AgesApart' BY <1>1, <2>1, NothingHappens
  <2>3. ASSUME scan.kind = "server" PROVE PagesAreRight'
    <3>1. PagesStep /\ scan.at \in {"idle", "page", "inspecting", "telling", "done", "failed"}
      BY <1>1, <2>1, <2>3 DEF PagesStep, PagesAreRight, PagesTyped
    <3>2. ~ListsActive /\ ~ListsArchived /\ ~Orders /\ ~TakesBatch
          /\ \A n \in DOMAIN scan.list : ~Stats(n) /\ ~InspectsFile(n)
      BY <2>3, <3>1 DEF ListsActive, ListsArchived, Orders, TakesBatch, Stats, InspectsFile
    <3>3. CASE PageFails
      <4>1. /\ scan.at = "page" /\ scan.busy = {} /\ scan.next \in Nat \ {0} /\ scan \in ScanOf(Saved)
            /\ scan' = [scan EXCEPT !.at = "failed"]
        BY <1>1, <2>3, <3>3 DEF PageFails, Step, PagesAreRight, PagesTyped, ScanOf
      <4>2. scan' = [scan EXCEPT !.at = "failed", !.next = scan.next] BY <4>1 DEF ScanOf
      <4>3. QED BY <3>1, <4>1, <4>2, PagesFail
    <3>4. CASE StartsScan \/ AsksPage \/ TakesNext BY <3>1, <3>4, PagesStart, PagesAsked, PagesTaken
    <3>5. CASE BatchEnds \/ TellsNext BY <3>1, <3>5, PagesToTell, PagesTold
    <3>6. CASE \E n \in DOMAIN scan.list : Inspects(n) \/ InspectionFails(n) BY <3>1, <3>6, PagesLookedAt
    <3>7. QED BY <1>4, <3>2, <3>3, <3>4, <3>5, <3>6
  <2>4. ASSUME scan.kind = "files" PROVE FilesAreRight'
    <3>1. FilesStep BY <1>1, <2>1, <2>4 DEF FilesStep
    <3>2. ~AsksPage /\ ~PageFails /\ ~TakesNext /\ ~BatchEnds
          /\ \A n \in DOMAIN scan.list : ~Inspects(n) /\ ~InspectionFails(n)
      BY <2>4 DEF AsksPage, PageFails, TakesNext, BatchEnds, Inspects, InspectionFails
    <3>3. CASE StartsScan \/ ListsActive \/ ListsArchived BY <3>1, <3>3, FilesStart, FilesActive, FilesArchived
    <3>4. CASE Orders \/ TakesBatch \/ TellsNext BY <3>1, <3>4, FilesOrdered, FilesBatched, FilesToldOf
    <3>5. CASE \E n \in DOMAIN scan.list : Stats(n) \/ InspectsFile(n)
      BY <3>1, <3>5, FilesLookedAt, FilesInspected
    <3>6. QED BY <1>4, <3>2, <3>3, <3>4, <3>5
  <2>5. QED BY <1>1, <2>1, <2>2, <2>3, <2>4 DEF SavedInv
<1>5. QED BY <1>3, <1>4 DEF SavedNext

\* As many are told of as were told.
LEMMA ToldApart ==
    ASSUME NEW things, scan.told \in Seq(things),
           \A i, j \in DOMAIN scan.told : IdOf(scan.told[i]) = IdOf(scan.told[j]) => i = j
    PROVE  ToldOfOnce
<1> DEFINE id == [n \in DOMAIN scan.told |-> IdOf(scan.told[n])]
<1>1. Len(scan.told) \in Nat /\ DOMAIN scan.told = 1 .. Len(scan.told) OBVIOUS
<1>2. ToldIds = {id[n] : n \in DOMAIN scan.told} BY DEF ToldIds
<1>3. id \in Bijection(1 .. Len(scan.told), ToldIds)
  BY <1>1, <1>2 DEF Bijection, Injection, Surjection, IsInjective
<1>4. IsFiniteSet(1 .. Len(scan.told)) /\ Cardinality(1 .. Len(scan.told)) = Len(scan.told) BY <1>1, FS_Interval
<1> HIDE DEF id
<1>5. Cardinality(ToldIds) = Cardinality(1 .. Len(scan.told)) BY <1>3, <1>4, FS_Bijection DEF ExistsBijection
<1>6. QED BY <1>4, <1>5 DEF ToldOfOnce

\* The property follows.
LEMMA SavedSound ==
    ASSUME SavedInv
    PROVE  DiscoveryIsSound
<1>1. CASE scan.kind = "server"
  BY <1>1, ToldApart DEF SavedInv, PagesAreRight, PagesTyped, SavedTypeOK, ScanOf, IdOf, DiscoveryIsSound
<1>2. CASE scan.kind = "files"
  BY <1>2, ToldApart DEF SavedInv, FilesAreRight, FilesTyped, SavedTypeOK, ScanOf, IdOf, DiscoveryIsSound
<1>3. QED BY <1>1, <1>2 DEF SavedInv

\* A discovery that ends without an error has told of every session that was there all the
\* while and is asked for, or of those that changed last if not of all, and of none twice;
\* no more workers inspect a page than there may be.  For every finite set of sessions, every
\* size of a page, number of pages, of workers, of messages to inspect and of things that
\* happen meanwhile, as long as no file is moved while it is looked for.
THEOREM DiscoveryStaysSound ==
    ASSUME ~FilesMove
    PROVE  SavedSpec => []DiscoveryIsSound
<1>1. SavedInit => SavedInv BY SavedStarts
<1>2. SavedInv /\ [SavedNext]_savedVars => SavedInv' BY SavedStep, SavedStays
<1>3. SavedInv => DiscoveryIsSound BY SavedSound
<1>4. QED BY <1>1, <1>2, <1>3, PTL DEF SavedSpec

=============================================================================
