------------------------------ MODULE Shared_proofs ------------------------------
(***************************************************************************)
(* Theorems about what several users share.  OpenCodeRuntime: a server is   *)
(* up as long as somebody uses it, for every finite set of keys and users   *)
(* and every number of servers.  TelemetryFlights: a read goes on as long   *)
(* as somebody waits for it, for every set of keys and every finite set of  *)
(* callers.  Telemetry: what a snapshot says is so, for every number of     *)
(* updates, changes, reads and timeouts.  CodexApprovals, GatewayAccess and *)
(* GatewayLifecycle: a question is asked once and about what it names, a    *)
(* sender waits in one request and talks in its own conversation, a gateway *)
(* starts and stops whole.  They share no state: each has a specification   *)
(* of its own, and the last three are put together as MCShared has them.    *)
(***************************************************************************)
EXTENDS MCShared, Telemetry, SequenceTheorems, FiniteSetTheorems, TLAPS

-----------------------------------------------------------------------------
(* TelemetryFlights: the invariant                                         *)

\* Whoever waits for a read, or for the end of one, has one; the table names reads that
\* go on, each under its own key.
HasItsRead ==
    /\ \A c \in Callers : callers[c].at \in {"waiting", "leaving"} => callers[c].flight \in DOMAIN flights
    /\ \A k \in ReadKeys : table[k] # 0 => flights[table[k]].ended = "no" /\ flights[table[k]].key = k

CallerStates == [at : {"none", "waiting", "leaving", "done"}, flight : Nat,
                 how : {"none", "aborted", "timeout", "value", "error"}]

FlightStates == [key : ReadKeys, users : 0..Cardinality(Callers), aborted : {"no", "left", "overdue"},
                 ended : {"no", "value", "error", "timeout"}]

\* FlightsFair, of one read.
Fair(f) ==
    /\ flights[f].users = Cardinality(Joined(f, {"waiting"}))
    /\ flights[f].ended = "no" =>
           /\ Joined(f, {"waiting", "leaving"}) # {}
           /\ flights[f].users > 0 => flights[f].aborted # "left"
           /\ flights[f].users = 0 => flights[f].aborted # "no"
           /\ (table[flights[f].key] = f) = (flights[f].users > 0)

FlightsInv == FlightsTypeOK /\ HasItsRead /\ FlightsFair

-----------------------------------------------------------------------------
(* Who waits for a read                                                    *)

\* The callers of a read are finitely many.
LEMMA JoinedFinite ==
    ASSUME NEW f, NEW places
    PROVE  IsFiniteSet(Joined(f, places)) /\ Cardinality(Joined(f, places)) \in 0..Cardinality(Callers)
<1>1. Joined(f, places) \in SUBSET Callers BY DEF Joined
<1> QED BY <1>1, FlightsAssumption, FS_Subset, FS_CardinalityType

\* Somebody waits for a read whose users are not zero, and nobody for one whose are.
LEMMA UsersWait ==
    ASSUME FlightsInv, NEW f \in DOMAIN flights
    PROVE  flights[f].users > 0 <=> \E c \in Callers : callers[c].flight = f /\ callers[c].at = "waiting"
<1>1. flights[f].users = Cardinality(Joined(f, {"waiting"})) BY DEF FlightsInv, FlightsFair
<1>2. Cardinality(Joined(f, {"waiting"})) = 0 <=> Joined(f, {"waiting"}) = {} BY JoinedFinite, FS_EmptySet
<1>3. Joined(f, {"waiting"}) = {} <=> ~ \E c \in Callers : callers[c].flight = f /\ callers[c].at = "waiting"
  BY DEF Joined
<1>4. flights[f].users \in Nat BY <1>1, JoinedFinite
<1> QED BY <1>1, <1>2, <1>3, <1>4

\* One more waits for a read.
LEMMA OneMoreWaits ==
    ASSUME NEW c \in Callers, NEW f, callers \in [Callers -> CallerStates],
           callers[c].at # "waiting",
           callers' = [callers EXCEPT ![c] = [at |-> "waiting", how |-> "none", flight |-> f]],
           NEW g
    PROVE  /\ Joined(g, {"waiting"})' = IF g = f THEN Joined(g, {"waiting"}) \cup {c} ELSE Joined(g, {"waiting"})
           /\ Cardinality(Joined(g, {"waiting"})') =
                  IF g = f THEN Cardinality(Joined(g, {"waiting"})) + 1 ELSE Cardinality(Joined(g, {"waiting"}))
<1>1. Joined(g, {"waiting"})' = IF g = f THEN Joined(g, {"waiting"}) \cup {c} ELSE Joined(g, {"waiting"})
  BY DEF Joined
<1>2. c \notin Joined(g, {"waiting"}) BY DEF Joined
<1> QED BY <1>1, <1>2, JoinedFinite, FS_AddElement

\* One of those who wait for a read leaves it.
LEMMA OneLessWaits ==
    ASSUME NEW c \in Callers, callers \in [Callers -> CallerStates],
           callers[c].at = "waiting", callers'[c].at # "waiting",
           callers' \in [Callers -> CallerStates],
           \A d \in Callers : d # c => callers'[d] = callers[d],
           NEW g
    PROVE  /\ Joined(g, {"waiting"})' =
                  IF g = callers[c].flight THEN Joined(g, {"waiting"}) \ {c} ELSE Joined(g, {"waiting"})
           /\ Cardinality(Joined(g, {"waiting"})') =
                  IF g = callers[c].flight THEN Cardinality(Joined(g, {"waiting"})) - 1
                                           ELSE Cardinality(Joined(g, {"waiting"}))
<1>1. Joined(g, {"waiting"})' = IF g = callers[c].flight THEN Joined(g, {"waiting"}) \ {c} ELSE Joined(g, {"waiting"})
  BY DEF Joined
<1>2. c \in Joined(g, {"waiting"}) <=> g = callers[c].flight BY DEF Joined
<1> QED BY <1>1, <1>2, JoinedFinite, FS_RemoveElement

\* What the type invariant says of the parts.
LEMMA CallersAreTyped ==
    ASSUME FlightsTypeOK
    PROVE  /\ callers \in [Callers -> CallerStates] /\ Len(flights) \in Nat /\ DOMAIN flights = 1..Len(flights)
           /\ \A f \in DOMAIN flights : flights[f] \in FlightStates
           /\ flights \in Seq(FlightStates) /\ Cardinality(Callers) \in Nat
<1>1. Len(flights) \in Nat /\ 0..Len(flights) \subseteq Nat BY DEF FlightsTypeOK
<1>2. flights \in Seq(FlightStates) BY DEF FlightsTypeOK, FlightStates
<1>3. \A c \in Callers : callers[c] \in CallerStates BY <1>1 DEF FlightsTypeOK, CallerStates
<1>4. callers \in [Callers -> CallerStates] BY <1>3 DEF FlightsTypeOK
<1>5. Cardinality(Callers) \in Nat BY FlightsAssumption, FS_CardinalityType
<1> QED BY <1>1, <1>2, <1>4, <1>5

\* A sequence in which one element is replaced.
LEMMA ReplacedInSequence ==
    ASSUME NEW S, NEW s \in Seq(S), NEW n \in DOMAIN s, NEW v \in S
    PROVE  /\ [s EXCEPT ![n] = v] \in Seq(S) /\ Len([s EXCEPT ![n] = v]) = Len(s)
           /\ DOMAIN [s EXCEPT ![n] = v] = DOMAIN s /\ [s EXCEPT ![n] = v][n] = v
           /\ \A m \in DOMAIN s : m # n => [s EXCEPT ![n] = v][m] = s[m]
OBVIOUS

-----------------------------------------------------------------------------
(* Each step keeps the invariant                                           *)

\* A call joins a read that somebody waits for.
LEMMA CallJoins ==
    ASSUME FlightsInv, NEW c \in Callers, NEW k \in ReadKeys, CallRead(c, k), table[k] # 0
    PROVE  FlightsInv'
<1> PICK f \in Nat : f = table[k] BY CallersAreTyped DEF FlightsInv, FlightsTypeOK
<1>1. /\ f \in DOMAIN flights /\ flights[f].ended = "no" /\ flights[f].key = k
      /\ callers[c].at = "none"
      /\ flights' = [flights EXCEPT ![f].users = @ + 1] /\ table' = table
      /\ callers' = [callers EXCEPT ![c] = [at |-> "waiting", how |-> "none", flight |-> f]]
  BY CallersAreTyped DEF CallRead, FlightsInv, HasItsRead, FlightsTypeOK
<1>2. /\ callers \in [Callers -> CallerStates] /\ Len(flights) \in Nat /\ DOMAIN flights = 1..Len(flights)
      /\ flights \in Seq(FlightStates) /\ \A g \in DOMAIN flights : flights[g] \in FlightStates
  BY CallersAreTyped DEF FlightsInv
<1>3. \A g \in DOMAIN flights :
         Cardinality(Joined(g, {"waiting"})') =
             IF g = f THEN Cardinality(Joined(g, {"waiting"})) + 1 ELSE Cardinality(Joined(g, {"waiting"}))
  BY <1>1, <1>2, OneMoreWaits
<1>4. \A g \in DOMAIN flights : /\ Cardinality(Joined(g, {"waiting"})') \in 0..Cardinality(Callers)
                                /\ Cardinality(Joined(g, {"waiting"})) \in Nat
  BY FlightsAssumption, FS_Subset, FS_CardinalityType, JoinedFinite DEF Joined
<1>5. \A g \in DOMAIN flights : flights[g].users = Cardinality(Joined(g, {"waiting"}))
  BY DEF FlightsInv, FlightsFair
<1>6. /\ DOMAIN flights' = DOMAIN flights /\ Len(flights') = Len(flights)
      /\ flights' = [flights EXCEPT ![f] = [flights[f] EXCEPT !.users = Cardinality(Joined(f, {"waiting"})')]]
  <2>1. flights[f].users + 1 = Cardinality(Joined(f, {"waiting"})') BY <1>1, <1>3, <1>5
  <2>2. flights' = [flights EXCEPT ![f] = [flights[f] EXCEPT !.users = flights[f].users + 1]] BY <1>1
  <2>3. flights' = [flights EXCEPT ![f] = [flights[f] EXCEPT !.users = Cardinality(Joined(f, {"waiting"})')]]
    BY <2>1, <2>2, Zenon
  <2>4. DOMAIN flights' = DOMAIN flights /\ Len(flights') = Len(flights) BY <1>1, <1>2
  <2> QED BY <2>3, <2>4
<1>7. FlightsTypeOK'
  <2>1. [flights[f] EXCEPT !.users = Cardinality(Joined(f, {"waiting"})')] \in FlightStates
    BY <1>1, <1>2, <1>4 DEF FlightStates
  <2>2. flights' \in Seq(FlightStates) BY <1>1, <1>2, <1>6, <2>1
  <2>3. callers'[c] = [at |-> "waiting", how |-> "none", flight |-> f] BY <1>1, <1>2
  <2> QED BY <1>1, <1>2, <1>6, <2>2, <2>3 DEF FlightsInv, FlightsTypeOK, FlightStates
<1>8. HasItsRead' BY <1>1, <1>2, <1>6 DEF FlightsInv, HasItsRead, FlightStates
<1>9. FlightsFair'
  <2> SUFFICES ASSUME NEW g \in DOMAIN flights PROVE Fair(g)' BY <1>6 DEF FlightsFair, Fair
  <2>1. Fair(g) BY DEF FlightsInv, FlightsFair, Fair
  <2>2. CASE g = f BY <1>1, <2>1, <2>2, <1>2, <1>3, <1>4, <1>5, <1>6 DEF Fair, FlightStates, Joined
  <2>3. CASE g # f BY <1>2, <1>3, <1>5, <1>6, <2>3, <1>1, <2>1 DEF Joined, Fair
  <2> QED BY <2>2, <2>3
<1> QED BY <1>7, <1>8, <1>9 DEF FlightsInv

\* A call starts a read.
LEMMA AcquireStarts ==
    ASSUME FlightsInv, NEW c \in Callers, NEW k \in ReadKeys, CallRead(c, k), table[k] = 0
    PROVE  FlightsInv'
<1> PICK f \in Nat : f = Len(flights) + 1 BY CallersAreTyped DEF FlightsInv
<1> DEFINE new == [key |-> k, users |-> 1, aborted |-> "no", ended |-> "no"]
<1>1. /\ callers[c].at = "none" /\ flights' = Append(flights, new) /\ table' = [table EXCEPT ![k] = f]
      /\ callers' = [callers EXCEPT ![c] = [at |-> "waiting", how |-> "none", flight |-> f]]
  BY DEF CallRead
<1>2. /\ callers \in [Callers -> CallerStates] /\ Len(flights) \in Nat /\ DOMAIN flights = 1..Len(flights)
      /\ flights \in Seq(FlightStates) /\ \A g \in DOMAIN flights : flights[g] \in FlightStates
  BY CallersAreTyped DEF FlightsInv
<1>3. \A g : Cardinality(Joined(g, {"waiting"})') =
             IF g = f THEN Cardinality(Joined(g, {"waiting"})) + 1 ELSE Cardinality(Joined(g, {"waiting"}))
  BY <1>1, <1>2, OneMoreWaits
<1>4. Cardinality(Joined(f, {"waiting"})') = 1 /\ 1 \in 0..Cardinality(Callers)
  <2>1. Joined(f, {"waiting"}) = {} BY <1>2 DEF FlightsInv, HasItsRead, Joined
  <2>2. Cardinality(Joined(f, {"waiting"})') = 1 BY <2>1, FS_EmptySet, <1>3
  <2>3. Joined(f, {"waiting"})' \in SUBSET Callers BY DEF Joined
  <2> QED BY <2>2, <2>3, FlightsAssumption, FS_Subset, FS_CardinalityType
<1>5. /\ Len(flights') = f /\ DOMAIN flights' = 1..f /\ flights'[f] = new
      /\ \A g \in DOMAIN flights : flights'[g] = flights[g]
  BY <1>1, <1>2
<1>6. FlightsTypeOK' BY <1>4, <1>1, <1>2, <1>5 DEF FlightStates, FlightsInv, FlightsTypeOK
<1>7. HasItsRead' BY <1>1, <1>2, <1>5 DEF FlightsInv, HasItsRead, FlightsTypeOK
<1>8. FlightsFair'
  <2> SUFFICES ASSUME NEW g \in 1..f PROVE Fair(g)' BY <1>5 DEF FlightsFair, Fair
  <2>1. CASE g = f BY <1>1, <1>2, <1>5, <2>1, <1>4 DEF Joined, FlightsInv, FlightsTypeOK, Fair
  <2>2. CASE g # f
    <3>1. g \in DOMAIN flights /\ flights'[g] = flights[g] /\ Fair(g)
      BY <1>2, <1>5, <2>2 DEF FlightsInv, FlightsFair, Fair
    <3>2. flights[g].users = Cardinality(Joined(g, {"waiting"})') BY <1>3, <2>2, <3>1 DEF Fair
    <3>3. Joined(g, {"waiting", "leaving"}) \subseteq Joined(g, {"waiting", "leaving"})'
      BY <1>1, <1>2 DEF Joined
    <3>4. flights[g].key \in ReadKeys /\ g # 0 BY <1>2, <3>1 DEF FlightStates
    <3>5. (table'[flights[g].key] = g) = (table[flights[g].key] = g)
      BY <1>1, <2>2, <3>1, <3>4 DEF FlightsInv, FlightsTypeOK
    <3> QED BY <3>1, <3>2, <3>3, <3>5 DEF Fair
  <2> QED BY <2>1, <2>2
<1> QED BY <1>6, <1>7, <1>8 DEF FlightsInv

\* A step that leaves every flight's users, and those who wait, as they are.
LEMMA NobodyJoinsOrLeaves ==
    ASSUME FlightsInv, FlightsTypeOK', HasItsRead', DOMAIN flights' = DOMAIN flights,
           \A c \in Callers : /\ callers'[c].at = "waiting" <=> callers[c].at = "waiting"
                              /\ callers[c].at = "waiting" => callers'[c] = callers[c],
           \A f \in DOMAIN flights :
               /\ flights'[f].users = flights[f].users /\ flights'[f].key = flights[f].key
               /\ flights'[f].ended = "no" =>
                      /\ flights[f].ended = "no"
                      /\ flights'[f].aborted \in {flights[f].aborted, "overdue"}
                      /\ (table'[flights[f].key] = f) = (table[flights[f].key] = f)
                      /\ \A c \in Callers : callers[c].at = "leaving" /\ callers[c].flight = f
                                              => callers'[c] = callers[c]
    PROVE  FlightsInv'
<1> SUFFICES ASSUME NEW f \in DOMAIN flights PROVE Fair(f)' BY DEF FlightsInv, FlightsFair, Fair
<1>1. Fair(f) BY DEF FlightsInv, FlightsFair, Fair
<1>2. Joined(f, {"waiting"})' = Joined(f, {"waiting"})
  <2>1. \A c \in Callers : (callers'[c].flight = f /\ callers'[c].at = "waiting")
                              <=> (callers[c].flight = f /\ callers[c].at = "waiting")
    OBVIOUS
  <2>2. \A c \in Callers : (callers'[c].flight = f /\ callers'[c].at \in {"waiting"})
                              <=> (callers[c].flight = f /\ callers[c].at \in {"waiting"})
    BY <2>1
  <2> QED BY <2>2, Zenon DEF Joined
<1>3. flights'[f].ended = "no" => Joined(f, {"waiting", "leaving"}) \subseteq Joined(f, {"waiting", "leaving"})'
  <2> SUFFICES ASSUME flights'[f].ended = "no", NEW c \in Callers, callers[c].flight = f,
                      callers[c].at \in {"waiting", "leaving"}
               PROVE  callers'[c].flight = f /\ callers'[c].at \in {"waiting", "leaving"}
    BY Zenon DEF Joined
  <2>1. callers'[c] = callers[c] OBVIOUS
  <2> QED BY <2>1
<1> QED BY <1>1, <1>2, <1>3 DEF Fair

\* A call is made with a signal that is aborted.
LEMMA CallAbortedStep ==
    ASSUME FlightsInv, NEW c \in Callers, CallAborted(c)
    PROVE  FlightsInv'
<1>1. callers \in [Callers -> CallerStates] /\ \A d \in Callers : d # c => callers'[d] = callers[d]
  BY CallersAreTyped DEF CallAborted, FlightsInv
<1>2. /\ callers[c].at = "none" /\ callers'[c].at = "done" /\ callers'[c].how = "aborted"
      /\ callers'[c].flight = callers[c].flight
  BY <1>1 DEF CallAborted, CallerStates
<1>3. FlightsTypeOK' BY DEF CallAborted, FlightsInv, FlightsTypeOK
<1>4. HasItsRead' BY <1>1, <1>2 DEF CallAborted, FlightsInv, HasItsRead
<1> QED BY <1>1, <1>2, <1>3, <1>4, NobodyJoinsOrLeaves DEF CallAborted

\* A read runs into its ceiling.
LEMMA OverdueStep ==
    ASSUME FlightsInv, NEW f \in DOMAIN flights, Overdue(f)
    PROVE  FlightsInv'
<1>1. /\ flights \in Seq(FlightStates) /\ flights[f] \in FlightStates /\ DOMAIN flights = 1..Len(flights)
      /\ Len(flights) \in Nat
  BY CallersAreTyped DEF FlightsInv
<1>2. [flights[f] EXCEPT !.aborted = "overdue"] \in FlightStates BY <1>1 DEF FlightStates
<1>3. flights' = [flights EXCEPT ![f] = [flights[f] EXCEPT !.aborted = "overdue"]] BY DEF Overdue
<1>4. /\ flights' \in Seq(FlightStates) /\ Len(flights') = Len(flights) /\ DOMAIN flights' = DOMAIN flights
      /\ \A g \in DOMAIN flights : g # f => flights'[g] = flights[g]
  BY <1>1, <1>2, <1>3
<1>5. /\ flights'[f].users = flights[f].users /\ flights'[f].key = flights[f].key
      /\ flights'[f].ended = flights[f].ended /\ flights'[f].aborted = "overdue"
  BY <1>1, <1>3 DEF FlightStates
<1>6. FlightsTypeOK' BY <1>4 DEF Overdue, FlightsInv, FlightsTypeOK, FlightStates
<1>7. HasItsRead' BY <1>4, <1>5 DEF Overdue, FlightsInv, HasItsRead, FlightsTypeOK
<1> QED BY <1>4, <1>5, <1>6, <1>7, NobodyJoinsOrLeaves DEF Overdue

\* A read ends.
LEMMA ReadEndsStep ==
    ASSUME FlightsInv, NEW f \in DOMAIN flights, NEW how \in {"value", "error"}, ReadEnds(f, how)
    PROVE  FlightsInv'
<1>1. /\ flights \in Seq(FlightStates) /\ flights[f] \in FlightStates /\ DOMAIN flights = 1..Len(flights)
      /\ Len(flights) \in Nat
  BY CallersAreTyped DEF FlightsInv
<1> DEFINE to == IF how = "value" /\ flights[f].aborted # "no" THEN "timeout" ELSE how
<1>2. [flights[f] EXCEPT !.ended = to] \in FlightStates /\ to # "no" BY <1>1 DEF FlightStates
<1>3. flights' = [flights EXCEPT ![f] = [flights[f] EXCEPT !.ended = to]] BY DEF ReadEnds
<1>4. /\ flights' \in Seq(FlightStates) /\ Len(flights') = Len(flights) /\ DOMAIN flights' = DOMAIN flights
      /\ \A g \in DOMAIN flights : g # f => flights'[g] = flights[g]
  BY <1>1, <1>2, <1>3
<1>5. /\ flights'[f].users = flights[f].users /\ flights'[f].key = flights[f].key
      /\ flights'[f].ended # "no" /\ flights'[f].aborted = flights[f].aborted
  BY <1>1, <1>2, <1>3 DEF FlightStates
<1>6. table' \in [ReadKeys -> 0..Len(flights)] /\ \A k \in ReadKeys : table'[k] = IF table[k] = f THEN 0 ELSE table[k]
  BY <1>1 DEF ReadEnds, Leaves, FlightsInv, FlightsTypeOK
<1>7. FlightsTypeOK' BY <1>4, <1>6 DEF ReadEnds, FlightsInv, FlightsTypeOK, FlightStates
<1>8. HasItsRead' BY <1>1, <1>4, <1>5, <1>6 DEF ReadEnds, FlightsInv, HasItsRead, FlightsTypeOK
<1>9. \A g \in DOMAIN flights : g # f => (table'[flights[g].key] = g) = (table[flights[g].key] = g)
  <2> SUFFICES ASSUME NEW g \in DOMAIN flights, g # f
               PROVE  (table'[flights[g].key] = g) = (table[flights[g].key] = g)
    OBVIOUS
  <2>1. flights[g].key \in ReadKeys /\ g # 0 BY CallersAreTyped DEF FlightsInv, FlightStates
  <2> QED BY <1>6, <2>1
<1> QED BY <1>4, <1>5, <1>7, <1>8, <1>9, NobodyJoinsOrLeaves DEF ReadEnds

\* A call that waits leaves its read, which goes on for others, is given up by the last of
\* them, or has ended.
LEMMA WaiterLeaves ==
    ASSUME FlightsInv, NEW c \in Callers, callers[c].at = "waiting",
           NEW f \in DOMAIN flights, f = callers[c].flight,
           NEW next \in CallerStates, next.flight = f, next.at \in {"leaving", "done"},
           callers' = [callers EXCEPT ![c] = next],
           NEW aborted \in {"no", "left", "overdue"},
           flights' = [flights EXCEPT ![f] = [flights[f] EXCEPT !.users = @ - 1, !.aborted = aborted]],
           IF flights[f].users = 1 /\ flights[f].ended = "no"
           THEN next.at = "leaving" /\ aborted # "no" /\ table' = Leaves(f, table)
           ELSE aborted = flights[f].aborted /\ table' = table
    PROVE  FlightsInv'
<1>1. /\ callers \in [Callers -> CallerStates] /\ Len(flights) \in Nat /\ DOMAIN flights = 1..Len(flights)
      /\ flights \in Seq(FlightStates) /\ \A g \in DOMAIN flights : flights[g] \in FlightStates
  BY CallersAreTyped DEF FlightsInv
<1>2. /\ callers' \in [Callers -> CallerStates] /\ callers'[c] = next
      /\ \A d \in Callers : d # c => callers'[d] = callers[d]
  BY <1>1
<1>3. \A g : Cardinality(Joined(g, {"waiting"})') =
             IF g = f THEN Cardinality(Joined(g, {"waiting"})) - 1 ELSE Cardinality(Joined(g, {"waiting"}))
  BY <1>1, <1>2, OneLessWaits
<1>4. /\ flights[f].users \in 1..Cardinality(Callers)
      /\ flights[f].users - 1 = Cardinality(Joined(f, {"waiting"})')
  <2>1. flights[f].users > 0 BY UsersWait
  <2>2. flights[f].users = Cardinality(Joined(f, {"waiting"})) BY DEF FlightsInv, FlightsFair
  <2>3. flights[f].users \in 0..Cardinality(Callers) BY <1>1 DEF FlightStates
  <2> QED BY <1>3, <2>1, <2>2, <2>3, CallersAreTyped DEF FlightsInv
<1> DEFINE new == [flights[f] EXCEPT !.users = flights[f].users - 1, !.aborted = aborted]
<1>5. /\ new \in FlightStates /\ new.users = flights[f].users - 1 /\ new.aborted = aborted
      /\ new.key = flights[f].key /\ new.ended = flights[f].ended
  <2>1. flights[f].users - 1 \in 0..Cardinality(Callers) BY <1>4, CallersAreTyped DEF FlightsInv
  <2> QED BY <1>1, <2>1 DEF FlightStates
<1>6. /\ flights' \in Seq(FlightStates) /\ Len(flights') = Len(flights) /\ DOMAIN flights' = DOMAIN flights
      /\ flights'[f] = new /\ \A g \in DOMAIN flights : g # f => flights'[g] = flights[g]
  <2>1. flights' = [flights EXCEPT ![f] = new] OBVIOUS
  <2> HIDE DEF new
  <2>2. new \in FlightStates /\ flights \in Seq(FlightStates) BY <1>1, <1>5
  <2> DEFINE after == [flights EXCEPT ![f] = new]
  <2>3. /\ after \in Seq(FlightStates) /\ Len(after) = Len(flights) /\ DOMAIN after = DOMAIN flights
        /\ after[f] = new /\ \A g \in DOMAIN flights : g # f => after[g] = flights[g]
    BY <2>2, ReplacedInSequence
  <2> HIDE DEF after
  <2> QED BY <2>1, <2>3, Zenon DEF after
<1> HIDE DEF new
<1>7. /\ table' \in [ReadKeys -> 0..Len(flights)]
      /\ \A k \in ReadKeys : table'[k] \in {table[k], 0}
      /\ \A k \in ReadKeys : table[k] # f => table'[k] = table[k]
  BY <1>1 DEF Leaves, FlightsInv, FlightsTypeOK
<1>8. FlightsTypeOK'
  <2>1. \A d \in Callers : callers'[d].flight \in 0..Len(flights) BY <1>1, <1>2 DEF FlightsInv, FlightsTypeOK
  <2>2. callers' \in [Callers -> [at : {"none", "waiting", "leaving", "done"}, flight : 0..Len(flights'),
                                  how : {"none", "aborted", "timeout", "value", "error"}]]
    BY <1>2, <1>6, <2>1 DEF CallerStates
  <2> QED BY <1>6, <1>7, <2>2 DEF FlightsTypeOK, FlightStates
<1>9. HasItsRead'
  <2>1. \A d \in Callers : callers'[d].at \in {"waiting", "leaving"} => callers'[d].flight \in DOMAIN flights'
    BY <1>2, <1>6 DEF FlightsInv, HasItsRead
  <2>2. \A k \in ReadKeys : table'[k] # 0 => flights'[table'[k]].ended = "no" /\ flights'[table'[k]].key = k
    BY <1>1, <1>5, <1>6, <1>7 DEF FlightsInv, HasItsRead, FlightsTypeOK
  <2> QED BY <2>1, <2>2 DEF HasItsRead
<1>10. FlightsFair'
  <2> SUFFICES ASSUME NEW g \in DOMAIN flights PROVE Fair(g)' BY <1>6 DEF FlightsFair, Fair
  <2>1. Fair(g) /\ flights[g].key \in ReadKeys /\ g # 0 BY <1>1 DEF FlightsInv, FlightsFair, Fair, FlightStates
  <2>2. CASE g # f
    <3>1. flights'[g] = flights[g] /\ flights[g].users = Cardinality(Joined(g, {"waiting"})')
      BY <1>3, <1>6, <2>1, <2>2 DEF Fair
    <3>2. Joined(g, {"waiting", "leaving"}) \subseteq Joined(g, {"waiting", "leaving"})'
      BY <1>2, <2>2 DEF Joined
    <3>3. (table'[flights[g].key] = g) = (table[flights[g].key] = g)
      <4>1. CASE table[flights[g].key] = f BY <1>7, <2>1, <2>2, <4>1
      <4>2. CASE table[flights[g].key] # f BY <1>7, <2>1, <4>2
      <4> QED BY <4>1, <4>2
    <3> QED BY <2>1, <3>1, <3>2, <3>3 DEF Fair
  <2>3. CASE g = f /\ flights[f].ended # "no" BY <1>4, <1>5, <1>6, <2>3 DEF Fair
  <2>4. CASE g = f /\ flights[f].ended = "no" /\ flights[f].users = 1
    BY <1>2, <2>4, <1>1, <2>1, <1>5, <1>6, <1>4 DEF Joined, Leaves, Fair
  <2>5. CASE g = f /\ flights[f].ended = "no" /\ flights[f].users # 1
    <3>1. flights[f].users > 1 /\ flights'[f].users > 0 /\ flights'[f].aborted = flights[f].aborted
      BY <1>4, <1>5, <1>6, <2>5, CallersAreTyped DEF FlightsInv
    <3>2. Joined(f, {"waiting", "leaving"})' # {}
      <4>1. Joined(f, {"waiting"})' # {} BY <1>4, <2>5, <3>1, FS_EmptySet
      <4> QED BY <4>1 DEF Joined
    <3>3. /\ flights'[f].key = flights[f].key /\ flights'[f].users = Cardinality(Joined(f, {"waiting"})')
          /\ flights[f].aborted # "left" /\ table' = table /\ table[flights[f].key] = f
      BY <1>4, <1>5, <1>6, <2>1, <2>5, <3>1 DEF Fair
    <3> QED BY <2>5, <3>1, <3>2, <3>3 DEF Fair
  <2> QED BY <2>2, <2>3, <2>4, <2>5
<1> QED BY <1>8, <1>9, <1>10 DEF FlightsInv

\* The signal or the timeout of a call.
LEMMA CancelStep ==
    ASSUME FlightsInv, NEW c \in Callers, NEW how \in {"aborted", "timeout"}, Cancel(c, how)
    PROVE  FlightsInv'
<1>1. /\ callers \in [Callers -> CallerStates] /\ callers[c] \in CallerStates /\ callers[c].at = "waiting"
      /\ \A g \in DOMAIN flights : flights[g] \in FlightStates
  BY CallersAreTyped DEF FlightsInv, Cancel
<1> PICK f \in DOMAIN flights : f = callers[c].flight BY <1>1 DEF FlightsInv, HasItsRead
<1> DEFINE last == flights[f].users = 1 /\ flights[f].ended = "no"
           next == [callers[c] EXCEPT !.at = IF last THEN "leaving" ELSE "done", !.how = how]
           to == IF last /\ flights[f].aborted = "no" THEN "left" ELSE flights[f].aborted
<1>2. /\ next \in CallerStates /\ next.flight = f /\ next.at = IF last THEN "leaving" ELSE "done"
  BY <1>1 DEF CallerStates
<1>3. to \in {"no", "left", "overdue"} BY <1>1 DEF FlightStates
<1>4. callers' = [callers EXCEPT ![c] = next] BY DEF Cancel
<1>5. flights' = [flights EXCEPT ![f] = [flights[f] EXCEPT !.users = @ - 1, !.aborted = to]] BY DEF Cancel
<1>6. table' = IF last THEN Leaves(f, table) ELSE table BY DEF Cancel
<1>7. IF last THEN next.at = "leaving" /\ to # "no" /\ table' = Leaves(f, table)
             ELSE to = flights[f].aborted /\ table' = table
  BY <1>2, <1>6
<1> HIDE DEF next, to
<1>8. next.at \in {"leaving", "done"} BY <1>2
<1> QED BY <1>1, <1>2, <1>3, <1>4, <1>5, <1>7, <1>8, WaiterLeaves

\* A read has ended, and a call hears of it.
LEMMA ReadSettlesStep ==
    ASSUME FlightsInv, NEW c \in Callers, ReadSettles(c)
    PROVE  FlightsInv'
<1>1. /\ callers \in [Callers -> CallerStates] /\ callers[c] \in CallerStates
      /\ callers[c].at \in {"waiting", "leaving"}
      /\ \A g \in DOMAIN flights : flights[g] \in FlightStates
  BY CallersAreTyped DEF FlightsInv, ReadSettles
<1> PICK f \in DOMAIN flights : f = callers[c].flight BY <1>1 DEF FlightsInv, HasItsRead
<1>2. flights[f].ended # "no" /\ table' = table BY DEF ReadSettles
<1>3. CASE callers[c].at = "waiting"
  <2> DEFINE next == [callers[c] EXCEPT !.at = "done", !.how = flights[f].ended]
  <2>1. next \in CallerStates /\ next.flight = f /\ next.at = "done"
    BY <1>1, <1>2 DEF CallerStates, FlightStates
  <2>2. callers' = [callers EXCEPT ![c] = next] BY <1>3 DEF ReadSettles
  <2>3. flights' = [flights EXCEPT ![f] = [flights[f] EXCEPT !.users = @ - 1, !.aborted = flights[f].aborted]]
    BY <1>3, <1>1 DEF ReadSettles, FlightStates
  <2>4. flights[f].aborted \in {"no", "left", "overdue"} BY <1>1 DEF FlightStates
  <2> QED BY <1>2, <1>3, <2>1, <2>2, <2>3, <2>4, WaiterLeaves
<1>4. CASE callers[c].at = "leaving"
  <2>1. /\ callers' = [callers EXCEPT ![c] = [callers[c] EXCEPT !.at = "done"]] /\ flights' = flights
    BY <1>1, <1>4 DEF ReadSettles, CallerStates
  <2>2. /\ callers'[c].at = "done" /\ callers'[c].flight = callers[c].flight
        /\ callers'[c] \in CallerStates /\ \A d \in Callers : d # c => callers'[d] = callers[d]
    BY <1>1, <2>1 DEF CallerStates
  <2>3. FlightsTypeOK' BY <1>2, <2>1 DEF FlightsInv, FlightsTypeOK
  <2>4. HasItsRead' BY <1>2, <2>1, <2>2 DEF FlightsInv, HasItsRead
  <2> QED BY <1>2, <1>4, <2>1, <2>2, <2>3, <2>4, NobodyJoinsOrLeaves
<1> QED BY <1>1, <1>3, <1>4

-----------------------------------------------------------------------------
(* TelemetryFlights: the theorems                                          *)

\* The invariant holds in every behaviour.
LEMMA FlightsInvHolds == FlightsSpec => []FlightsInv
<1>1. FlightsInit => FlightsInv
  <2> SUFFICES ASSUME FlightsInit PROVE FlightsInv OBVIOUS
  <2>1. FlightsTypeOK BY DEF FlightsInit, FlightsTypeOK
  <2>2. HasItsRead /\ FlightsFair BY DEF FlightsInit, HasItsRead, FlightsFair
  <2> QED BY <2>1, <2>2 DEF FlightsInv
<1>2. FlightsInv /\ [FlightsNext]_flightsVars => FlightsInv'
  <2> SUFFICES ASSUME FlightsInv, [FlightsNext]_flightsVars PROVE FlightsInv' OBVIOUS
  <2>1. ASSUME NEW c \in Callers, NEW k \in ReadKeys, CallRead(c, k) PROVE FlightsInv'
    BY <2>1, CallJoins, AcquireStarts
  <2>2. CASE UNCHANGED flightsVars
    BY <2>2, NobodyJoinsOrLeaves DEF flightsVars, FlightsInv, FlightsTypeOK, HasItsRead
  <2> QED BY <2>1, <2>2, CallAbortedStep, ReadSettlesStep, CancelStep, OverdueStep, ReadEndsStep
         DEF FlightsNext
<1> QED BY <1>1, <1>2, PTL DEF FlightsSpec

\* Every variable of the reads keeps its type.
THEOREM FlightsTypeCorrect == FlightsSpec => []FlightsTypeOK
<1>1. FlightsInv => FlightsTypeOK BY DEF FlightsInv
<1> QED BY <1>1, FlightsInvHolds, PTL

\* A caller's abort or timeout affects that caller only, and a read goes on for somebody.
THEOREM FlightsAreFair == FlightsSpec => []FlightsFair
<1>1. FlightsInv => FlightsFair BY DEF FlightsInv
<1> QED BY <1>1, FlightsInvHolds, PTL

-----------------------------------------------------------------------------
(* OpenCodeRuntime: the invariant                                          *)

\* A server, and where a user of the runtime can be.
Server == [key : Keys, generation : Nat, phase : {"starting", "ready", "failed"}, refs : Nat,
           retired : BOOLEAN, forced : BOOLEAN, killed : BOOLEAN]

UserStates == [at : {"none", "acquiring", "using", "flow", "done", "lost"},
               what : {"none", "session", "write", "wrote", "flow"}, server : Nat]

\* Whoever came for a server has the number of one.
PoolTypes ==
    /\ servers \in Seq(Server) /\ generations \in [Keys -> Nat]
    /\ pool \in [Keys -> {0} \cup DOMAIN servers]
    /\ users \in [Users -> UserStates]
    /\ \A u \in Users : IF users[u].at = "none" THEN users[u].server = 0
                        ELSE users[u].server \in DOMAIN servers
    /\ \A r \in retirals : r.server \in DOMAIN servers /\ r.force \in BOOLEAN

\* Those whose handle on s is not given back, the lost ones among them.
Counted(s) == {u \in Users : users[u].at \in {"using", "flow", "lost"} /\ users[u].server = s}

\* A server counts the handles that were given out when it was ready; one that starts is
\* awaited, and has not been touched; one that failed was killed.
CountsHold ==
    \A s \in DOMAIN servers :
        /\ servers[s].refs = Cardinality(Counted(s))
        /\ Counted(s) # {} => servers[s].phase = "ready"
        /\ servers[s].phase = "starting" =>
               /\ ~servers[s].killed /\ ~servers[s].retired /\ ~servers[s].forced
               /\ \E u \in Users : users[u].at = "acquiring" /\ users[u].server = s
        /\ servers[s].phase = "failed" => servers[s].killed

\* The server of a key is its own, of its generation, and fit to be given out.
PoolIsFresh ==
    /\ \A k \in Keys : pool[k] # 0 =>
          /\ servers[pool[k]].key = k /\ servers[pool[k]].generation = generations[k]
          /\ ~servers[pool[k]].killed /\ ~servers[pool[k]].retired
    /\ \A r \in retirals, k \in Keys : pool[k] # r.server

\* One that was killed is nobody's, unless by force, and nobody is about to take it.
KilledIsFree ==
    /\ \A s \in DOMAIN servers : servers[s].killed /\ ~servers[s].forced => Counted(s) = {}
    /\ \A u \in Resuming : servers[users[u].server].phase = "ready" => ~servers[users[u].server].killed

\* One that is up has somebody: who awaits it, has its handle, or lost it.
UpIsKept ==
    \A s \in DOMAIN servers :
        \/ servers[s].killed \/ servers[s].phase = "starting" \/ Counted(s) # {}
        \/ \E u \in Users : users[u].at = "acquiring" /\ users[u].server = s

PoolInv == PoolTypes /\ CountsHold /\ PoolIsFresh /\ KilledIsFree /\ UpIsKept

-----------------------------------------------------------------------------
\* One server changes, and no other.
LEMMA ServerChanges ==
    ASSUME PoolTypes, NEW s \in DOMAIN servers, NEW e \in Server,
           servers' = [servers EXCEPT ![s] = e]
    PROVE  /\ servers' \in Seq(Server) /\ DOMAIN (servers') = DOMAIN servers
           /\ servers'[s] = e /\ \A o \in DOMAIN servers : o # s => servers'[o] = servers[o]
  <1>1. servers \in Seq(Server)  BY DEF PoolTypes
  <1> QED  BY <1>1

\* One user changes, and no other.
LEMMA UserChanges ==
    ASSUME PoolTypes, NEW u \in Users, NEW e \in UserStates,
           users' = [users EXCEPT ![u] = e]
    PROVE  /\ users' \in [Users -> UserStates]
           /\ users'[u] = e /\ \A o \in Users : o # u => users'[o] = users[o]
  BY DEF PoolTypes

\* What the types say of each server and each user.
LEMMA Fields ==
    ASSUME PoolTypes
    PROVE  /\ \A s \in DOMAIN servers : servers[s] \in Server
           /\ \A u \in Users : users[u] \in UserStates
           /\ DOMAIN servers = 1..Len(servers) /\ Len(servers) \in Nat
  <1>1. servers \in Seq(Server)  BY DEF PoolTypes
  <1>2. \A s \in DOMAIN servers : servers[s] \in Server  BY <1>1
  <1>3. DOMAIN servers = 1..Len(servers) /\ Len(servers) \in Nat  BY <1>1
  <1> QED  BY <1>2, <1>3 DEF PoolTypes

\* Those who are counted are finitely many.
LEMMA CountedIsFinite ==
    ASSUME NEW s
    PROVE  IsFiniteSet(Counted(s)) /\ Cardinality(Counted(s)) \in Nat
           /\ (Cardinality(Counted(s)) = 0 <=> Counted(s) = {})
  <1>1. Counted(s) \subseteq Users  BY DEF Counted
  <1>2. IsFiniteSet(Counted(s))  BY <1>1, FS_Subset, RuntimeAssumption
  <1> QED  BY <1>2, FS_CardinalityType, FS_EmptySet

\* The invariant is stronger than the property.
LEMMA PoolInvGives == PoolInv => LivesWhileUsed
  <1> SUFFICES ASSUME PoolInv  PROVE LivesWhileUsed OBVIOUS
  <1> USE DEF PoolInv
  <1>1. \A s : Holders(s) \subseteq Counted(s)  BY DEF Holders, Counted
  <1>2. HeldIsAlive BY <1>1 DEF KilledIsFree, HeldIsAlive, PoolIsFresh
  <1>3. ASSUME NEW s \in DOMAIN servers, ~servers[s].killed, servers[s].phase # "starting",
               Holders(s) = {}, ~ \E u \in Users : users[u].server = s /\ users[u].at = "lost"
        PROVE  \E u \in Resuming : users[u].server = s
    <2>1. Counted(s) = {}  BY <1>3 DEF Holders, Counted
    <2>2. PICK u \in Users : users[u].at = "acquiring" /\ users[u].server = s BY <1>3, <2>1 DEF UpIsKept
    <2> QED  BY <1>3, <2>2 DEF Resuming
  <1>4. NoServerLeaks
    <2> SUFFICES ASSUME NEW s \in DOMAIN servers
                 PROVE  \/ servers[s].killed \/ servers[s].phase = "starting" \/ Holders(s) # {}
                        \/ \E u \in Users : users[u].server = s /\ users[u].at = "lost"
                        \/ \E u \in Resuming : users[u].server = s
      BY DEF NoServerLeaks
    <2> QED  BY <1>3
  <1> QED  BY <1>2, <1>4 DEF LivesWhileUsed

-----------------------------------------------------------------------------
(* OpenCodeRuntime: a server is asked for, starts, and is given out        *)

\* Somebody demands for a server, the one that is shared or a new one.
LEMMA BeginsKeeps ==
    ASSUME PoolInv, Resuming = {}, NEW u \in Users, NEW what \in {"session", "write", "flow"},
           NEW k \in Keys, Begins(u, what, k)
    PROVE  PoolInv'
  <1> USE DEF PoolInv
  <1> DEFINE n == IF pool[k] # 0 THEN pool[k] ELSE Len(servers) + 1
             e == [at |-> "acquiring", what |-> what, server |-> n]
  <1>0. /\ \A s \in DOMAIN servers : servers[s] \in Server
        /\ \A o \in Users : users[o] \in UserStates
        /\ DOMAIN servers = 1..Len(servers) /\ Len(servers) \in Nat
        /\ servers \in Seq(Server) /\ generations \in [Keys -> Nat]
        /\ pool \in [Keys -> {0} \cup DOMAIN servers]
    BY Fields DEF PoolTypes
  <1>1. /\ users[u].at = "none" /\ users' = [users EXCEPT ![u] = e]
        /\ UNCHANGED <<generations, retirals>>
    BY DEF Begins, Acquire
  <1>2. n \in Nat  BY <1>0
  <1>3. e \in UserStates  BY <1>2 DEF UserStates
  <1>4. /\ \A s \in DOMAIN servers : s \in DOMAIN (servers') /\ servers'[s] = servers[s]
        /\ servers' \in Seq(Server) /\ n \in DOMAIN (servers')
        /\ \/ servers' = servers /\ pool' = pool /\ n = pool[k] /\ pool[k] # 0
           \/ /\ n = Len(servers) + 1 /\ DOMAIN (servers') = DOMAIN servers \cup {n}
              /\ servers'[n] = NewServer(k) /\ pool[k] = 0 /\ pool' = [pool EXCEPT ![k] = n]
    <2>1. CASE pool[k] # 0 BY <2>1, <1>0 DEF Begins, Acquire
    <2>2. CASE pool[k] = 0
      <3>1. servers' = Append(servers, NewServer(k)) /\ pool' = [pool EXCEPT ![k] = n]
        BY <2>2 DEF Begins, Acquire
      <3>2. NewServer(k) \in Server  BY <1>0 DEF NewServer, Server
      <3>3. n = Len(servers) + 1  BY <2>2
      <3> HIDE DEF n
      <3>4. /\ servers' \in Seq(Server) /\ Len(servers') = Len(servers) + 1
            /\ servers'[n] = NewServer(k) /\ \A s \in 1..Len(servers) : servers'[s] = servers[s]
        BY <1>0, <3>1, <3>2, <3>3
      <3>5. DOMAIN (servers') = 1..(Len(servers) + 1)  BY <3>4
      <3> QED  BY <1>0, <2>2, <3>1, <3>3, <3>4, <3>5
    <2> QED  BY <2>1, <2>2
  <1> HIDE DEF n
  <1>5. /\ users' \in [Users -> UserStates] /\ users'[u] = e
        /\ \A o \in Users : o # u => users'[o] = users[o]
    BY <1>1, <1>3, UserChanges
  <1>6. e.at = "acquiring" /\ e.server = n  OBVIOUS
  <1> HIDE DEF e
  <1>7. \A s : Counted(s)' = Counted(s)  BY <1>1, <1>5, <1>6 DEF Counted
  <1>8. n \notin DOMAIN servers => Counted(n) = {} BY DEF Counted, PoolTypes
  <1>9. PoolTypes' BY <1>0, <1>4, <1>5, <1>6, <1>1 DEF PoolTypes
  <1>10. ASSUME NEW s \in DOMAIN servers
         PROVE  s \in DOMAIN (servers') /\ servers'[s] = servers[s] /\ Counted(s)' = Counted(s)
    BY <1>4, <1>7
  <1>11. ASSUME NEW s \in DOMAIN servers', s \notin DOMAIN servers
         PROVE  s = n /\ servers'[s] = NewServer(k) /\ Counted(s)' = {}
    BY <1>4, <1>7, <1>8, <1>11
  <1>12. CountsHold'
    <2> SUFFICES ASSUME NEW s \in DOMAIN servers'
                 PROVE  /\ servers'[s].refs = Cardinality(Counted(s)')
                        /\ Counted(s)' # {} => servers'[s].phase = "ready"
                        /\ servers'[s].phase = "starting" =>
                               /\ ~servers'[s].killed /\ ~servers'[s].retired /\ ~servers'[s].forced
                               /\ \E o \in Users : users'[o].at = "acquiring" /\ users'[o].server = s
                        /\ servers'[s].phase = "failed" => servers'[s].killed
      BY DEF CountsHold
    <2>1. CASE s \in DOMAIN servers BY <1>1, <1>5, <1>10, <2>1 DEF CountsHold
    <2>2. CASE s \notin DOMAIN servers
      <3>1. s = n /\ servers'[s] = NewServer(k) /\ Counted(s)' = {}  BY <1>11, <2>2
      <3>2. Cardinality(Counted(s)') = 0  BY <3>1, FS_EmptySet
      <3>3. users'[u].at = "acquiring" /\ users'[u].server = s  BY <1>5, <1>6, <3>1
      <3> QED  BY <3>1, <3>2, <3>3 DEF NewServer
    <2> QED  BY <2>1, <2>2
  <1>13. PoolIsFresh'
    <2>1. ASSUME NEW l \in Keys, pool'[l] # 0
          PROVE  /\ servers'[pool'[l]].key = l /\ servers'[pool'[l]].generation = generations'[l]
                 /\ ~servers'[pool'[l]].killed /\ ~servers'[pool'[l]].retired
      <3>1. CASE pool'[l] = pool[l] BY <1>0, <2>1, <3>1, <1>1, <1>4 DEF PoolIsFresh
      <3>2. CASE pool'[l] # pool[l] BY <1>0, <1>4, <3>2, <1>1 DEF NewServer
      <3> QED  BY <3>1, <3>2
    <2>2. ASSUME NEW r \in retirals', NEW l \in Keys  PROVE pool'[l] # r.server
      <3>1. r \in retirals /\ r.server \in DOMAIN servers  BY <1>1 DEF PoolTypes
      <3>2. CASE pool'[l] = pool[l]  BY <3>1, <3>2 DEF PoolIsFresh
      <3>3. CASE pool'[l] # pool[l] BY <1>0, <1>4, <3>3, <3>1
      <3> QED  BY <3>2, <3>3
    <2> QED  BY <2>1, <2>2 DEF PoolIsFresh
  <1>14. KilledIsFree'
    <2>1. ASSUME NEW s \in DOMAIN servers', servers'[s].killed, ~servers'[s].forced
          PROVE  Counted(s)' = {}
      BY <1>10, <1>11, <2>1 DEF KilledIsFree
    <2>2. ASSUME NEW o \in Resuming', servers'[users'[o].server].phase = "ready"
          PROVE  ~servers'[users'[o].server].killed
      <3>1. CASE o = u
        <4>1. users'[o].server = n  BY <1>5, <1>6, <3>1
        <4>2. CASE pool[k] # 0 /\ n = pool[k] /\ servers' = servers BY <4>1, <4>2 DEF PoolIsFresh
        <4>3. CASE servers'[n] = NewServer(k)  BY <4>1, <4>3 DEF NewServer
        <4> QED  BY <1>4, <4>2, <4>3
      <3>2. CASE o # u BY <1>5, <3>2, <1>10 DEF Resuming, PoolTypes
      <3> QED  BY <3>1, <3>2
    <2> QED  BY <2>1, <2>2 DEF KilledIsFree
  <1>15. UpIsKept'
    <2> SUFFICES ASSUME NEW s \in DOMAIN servers'
                 PROVE  \/ servers'[s].killed \/ servers'[s].phase = "starting" \/ Counted(s)' # {}
                        \/ \E o \in Users : users'[o].at = "acquiring" /\ users'[o].server = s
      BY DEF UpIsKept
    <2>1. CASE s \in DOMAIN servers BY <1>1, <1>5, <1>10, <2>1 DEF UpIsKept
    <2>2. CASE s \notin DOMAIN servers  BY <1>11, <2>2 DEF NewServer
    <2> QED  BY <2>1, <2>2
  <1> QED  BY <1>9, <1>12, <1>13, <1>14, <1>15

\* A server is there, or failed.
LEMMA StartedKeeps ==
    ASSUME PoolInv, Resuming = {}, NEW s \in DOMAIN servers, NEW ok \in BOOLEAN, Started(s, ok)
    PROVE  PoolInv'
  <1> USE DEF PoolInv
  <1> DEFINE e == [servers[s] EXCEPT !.phase = IF ok THEN "ready" ELSE "failed", !.killed = ~ok]
  <1>0. /\ \A o \in DOMAIN servers : servers[o] \in Server
        /\ pool \in [Keys -> {0} \cup DOMAIN servers]
    BY Fields DEF PoolTypes
  <1>1. /\ servers[s].phase = "starting" /\ servers' = [servers EXCEPT ![s] = e]
        /\ pool' = IF ok THEN pool ELSE [k \in Keys |-> IF pool[k] = s THEN 0 ELSE pool[k]]
        /\ UNCHANGED <<generations, users, retirals>>
    BY DEF Started
  <1>2. /\ e \in Server /\ e.phase = (IF ok THEN "ready" ELSE "failed") /\ e.killed = ~ok
        /\ e.key = servers[s].key /\ e.generation = servers[s].generation
        /\ e.refs = servers[s].refs /\ e.retired = servers[s].retired
    BY <1>0 DEF Server
  <1> HIDE DEF e
  <1>3. /\ servers' \in Seq(Server) /\ DOMAIN (servers') = DOMAIN servers
        /\ servers'[s] = e /\ \A o \in DOMAIN servers : o # s => servers'[o] = servers[o]
    BY <1>1, <1>2, ServerChanges
  <1>4. \A o : Counted(o)' = Counted(o)  BY <1>1 DEF Counted
  <1>5. /\ Counted(s) = {} /\ ~servers[s].retired
        /\ \E u \in Users : users[u].at = "acquiring" /\ users[u].server = s
    BY <1>1 DEF CountsHold
  <1>6. \A k \in Keys : pool'[k] # 0 => pool'[k] = pool[k] /\ (pool[k] = s => ok) BY <1>0, <1>1
  <1>7. PoolTypes' BY <1>0, <1>1, <1>3 DEF PoolTypes
  <1>8. CountsHold'
    <2> SUFFICES ASSUME NEW o \in DOMAIN servers
                 PROVE  /\ servers'[o].refs = Cardinality(Counted(o))
                        /\ Counted(o) # {} => servers'[o].phase = "ready"
                        /\ servers'[o].phase = "starting" =>
                               /\ ~servers'[o].killed /\ ~servers'[o].retired /\ ~servers'[o].forced
                               /\ \E u \in Users : users[u].at = "acquiring" /\ users[u].server = o
                        /\ servers'[o].phase = "failed" => servers'[o].killed
      BY <1>1, <1>3, <1>4 DEF CountsHold
    <2>1. CASE o = s  BY <1>2, <1>3, <1>5, <2>1 DEF CountsHold
    <2>2. CASE o # s  BY <1>3, <2>2 DEF CountsHold
    <2> QED  BY <2>1, <2>2
  <1>9. PoolIsFresh'
    <2>1. ASSUME NEW k \in Keys, pool'[k] # 0
          PROVE  /\ servers'[pool'[k]].key = k /\ servers'[pool'[k]].generation = generations'[k]
                 /\ ~servers'[pool'[k]].killed /\ ~servers'[pool'[k]].retired
      <3>1. pool'[k] = pool[k] /\ pool[k] \in DOMAIN servers /\ (pool[k] = s => ok) BY <1>0, <1>6, <2>1
      <3>2. CASE pool[k] = s  BY <1>1, <1>2, <1>3, <1>5, <2>1, <3>1, <3>2 DEF PoolIsFresh
      <3>3. CASE pool[k] # s  BY <1>1, <1>3, <2>1, <3>1, <3>3 DEF PoolIsFresh
      <3> QED  BY <3>2, <3>3
    <2>2. ASSUME NEW r \in retirals', NEW k \in Keys  PROVE pool'[k] # r.server
      <3>1. r \in retirals /\ r.server \in DOMAIN servers  BY <1>1 DEF PoolTypes
      <3>2. CASE pool'[k] = 0  BY <3>1, <3>2, Fields
      <3>3. CASE pool'[k] # 0  BY <1>6, <3>1, <3>3 DEF PoolIsFresh
      <3> QED  BY <3>2, <3>3
    <2> QED  BY <2>1, <2>2 DEF PoolIsFresh
  <1>10. KilledIsFree'
    <2>1. ASSUME NEW o \in DOMAIN servers', servers'[o].killed, ~servers'[o].forced
          PROVE  Counted(o)' = {}
      <3>1. CASE o = s  BY <1>4, <1>5, <3>1
      <3>2. CASE o # s  BY <1>3, <1>4, <2>1, <3>2 DEF KilledIsFree
      <3> QED  BY <3>1, <3>2
    <2>2. ASSUME NEW u \in Resuming', servers'[users'[u].server].phase = "ready"
          PROVE  ~servers'[users'[u].server].killed
      <3>1. u \in Users /\ users[u].at = "acquiring" /\ users' = users  BY <1>1 DEF Resuming
      <3>2. users[u].server \in DOMAIN servers  BY <3>1 DEF PoolTypes
      <3>3. CASE users[u].server = s  BY <1>2, <1>3, <2>2, <3>1, <3>3
      <3>4. CASE users[u].server # s BY <1>3, <3>2, <3>4, <3>1 DEF Resuming
      <3> QED  BY <3>3, <3>4
    <2> QED  BY <2>1, <2>2 DEF KilledIsFree
  <1>11. UpIsKept'
    <2> SUFFICES ASSUME NEW o \in DOMAIN servers
                 PROVE  \/ servers'[o].killed \/ servers'[o].phase = "starting" \/ Counted(o) # {}
                        \/ \E u \in Users : users[u].at = "acquiring" /\ users[u].server = o
      BY <1>1, <1>3, <1>4 DEF UpIsKept
    <2>1. CASE o = s  BY <1>5, <2>1
    <2>2. CASE o # s  BY <1>3, <2>2 DEF UpIsKept
    <2> QED  BY <2>1, <2>2
  <1> QED  BY <1>7, <1>8, <1>9, <1>10, <1>11

\* One who awaited a server has it, or its failure.
LEMMA AcquiredKeeps ==
    ASSUME PoolInv, NEW u \in Users, Acquired(u)
    PROVE  PoolInv'
  <1> USE DEF PoolInv
  <1> PICK s \in DOMAIN servers : s = users[u].server BY DEF PoolTypes, Acquired
  <1> DEFINE e == [servers[s] EXCEPT !.refs = @ + 1]
             to == [users[u] EXCEPT !.at = IF servers[s].phase = "ready" THEN "using" ELSE "done"]
  <1>0. /\ \A o \in DOMAIN servers : servers[o] \in Server
        /\ \A o \in Users : users[o] \in UserStates
        /\ servers \in Seq(Server) /\ s \in DOMAIN servers
    BY Fields DEF PoolTypes, Acquired
  <1>1. /\ users[u].at = "acquiring" /\ servers[s].phase # "starting"
        /\ users' = [users EXCEPT ![u] = to]
        /\ servers' = IF servers[s].phase = "ready" THEN [servers EXCEPT ![s] = e] ELSE servers
        /\ UNCHANGED <<pool, generations, retirals>>
    BY DEF Acquired
  <1>2. /\ e \in Server /\ e.refs = servers[s].refs + 1 /\ e.phase = servers[s].phase
        /\ e.key = servers[s].key /\ e.generation = servers[s].generation
        /\ e.killed = servers[s].killed /\ e.retired = servers[s].retired /\ e.forced = servers[s].forced
    <2>1. servers[s] \in Server  BY <1>0
    <2> QED  BY <2>1 DEF Server
  <1>3. /\ to \in UserStates /\ to.server = s
        /\ to.at = IF servers[s].phase = "ready" THEN "using" ELSE "done"
    BY <1>0 DEF UserStates
  <1> HIDE DEF e, to
  <1>4. /\ users' \in [Users -> UserStates] /\ users'[u] = to
        /\ \A o \in Users : o # u => users'[o] = users[o]
    BY <1>1, <1>3, UserChanges
  <1>5. /\ servers' \in Seq(Server) /\ DOMAIN (servers') = DOMAIN servers
        /\ \A o \in DOMAIN servers : o # s => servers'[o] = servers[o]
        /\ servers'[s] = IF servers[s].phase = "ready" THEN e ELSE servers[s]
    <2>1. CASE servers[s].phase = "ready" BY <1>1, <2>1, <1>0, <1>2, ServerChanges
    <2>2. CASE servers[s].phase # "ready"  BY <1>0, <1>1, <2>2
    <2> QED  BY <2>1, <2>2
  <1>6. /\ u \notin Counted(s) /\ \A o : o # s => Counted(o)' = Counted(o)
        /\ Counted(s)' = IF servers[s].phase = "ready" THEN Counted(s) \cup {u} ELSE Counted(s)
    <2>1. \A o : o \in Users => (o # u => users'[o] = users[o])  BY <1>4
    <2>2. users[u].at = "acquiring" /\ users[u].server = s  BY <1>1
    <2>3. CASE servers[s].phase = "ready" BY <1>3, <1>4, <2>3, <2>1, <2>2 DEF Counted
    <2>4. CASE servers[s].phase # "ready" BY <1>3, <1>4, <2>4, <2>1, <2>2 DEF Counted
    <2> QED  BY <2>3, <2>4
  <1>7. servers'[s].refs = Cardinality(Counted(s)')
    <2>1. servers[s].refs = Cardinality(Counted(s))  BY <1>0 DEF CountsHold
    <2>2. CASE servers[s].phase = "ready"
      <3>1. Cardinality(Counted(s) \cup {u}) = Cardinality(Counted(s)) + 1
        BY <1>6, CountedIsFinite, FS_AddElement
      <3> QED  BY <1>2, <1>5, <1>6, <2>1, <2>2, <3>1
    <2>3. CASE servers[s].phase # "ready"  BY <1>5, <1>6, <2>1, <2>3
    <2> QED  BY <2>2, <2>3
  <1>8. \A o \in DOMAIN servers :
           /\ servers'[o].phase = servers[o].phase /\ servers'[o].killed = servers[o].killed
           /\ servers'[o].key = servers[o].key /\ servers'[o].generation = servers[o].generation
           /\ servers'[o].retired = servers[o].retired /\ servers'[o].forced = servers[o].forced
    BY <1>2, <1>5
  <1>9. \A o \in Users : users'[o].at = "acquiring" <=> users[o].at = "acquiring" /\ o # u BY <1>3, <1>4
  <1>10. PoolTypes'
    <2>1. \A o \in Users : IF users'[o].at = "none" THEN users'[o].server = 0
                           ELSE users'[o].server \in DOMAIN (servers')
      BY <1>0, <1>3, <1>4, <1>5 DEF PoolTypes
    <2> QED  BY <1>1, <1>4, <1>5, <2>1 DEF PoolTypes
  <1>11. CountsHold'
    <2> SUFFICES ASSUME NEW o \in DOMAIN servers
                 PROVE  /\ servers'[o].refs = Cardinality(Counted(o)')
                        /\ Counted(o)' # {} => servers'[o].phase = "ready"
                        /\ servers'[o].phase = "starting" =>
                               /\ ~servers'[o].killed /\ ~servers'[o].retired /\ ~servers'[o].forced
                               /\ \E v \in Users : users'[v].at = "acquiring" /\ users'[v].server = o
                        /\ servers'[o].phase = "failed" => servers'[o].killed
      BY <1>5 DEF CountsHold
    <2>1. CASE o = s BY <1>1, <1>6, <1>7, <1>8, <2>1 DEF CountsHold
    <2>2. CASE o # s BY <1>4, <2>2, <1>5, <1>6 DEF CountsHold
    <2> QED  BY <2>1, <2>2
  <1>12. PoolIsFresh' BY <1>1, <1>8 DEF PoolTypes, PoolIsFresh
  <1>13. KilledIsFree'
    <2>1. ASSUME NEW o \in DOMAIN servers', servers'[o].killed, ~servers'[o].forced
          PROVE  Counted(o)' = {}
      <3>1. servers[o].killed /\ ~servers[o].forced /\ o \in DOMAIN servers  BY <1>5, <1>8, <2>1
      <3>2. Counted(o) = {}  BY <3>1 DEF KilledIsFree
      <3>3. u \in Resuming  BY <1>1 DEF Resuming
      <3>4. servers[s].phase = "ready" => ~servers[s].killed  BY <3>3 DEF KilledIsFree
      <3> QED  BY <1>6, <3>1, <3>2, <3>4
    <2>2. ASSUME NEW o \in Resuming', servers'[users'[o].server].phase = "ready"
          PROVE  ~servers'[users'[o].server].killed
      <3>1. o \in Users /\ users[o].at = "acquiring" /\ users'[o] = users[o] BY <1>4, <1>9 DEF Resuming
      <3>2. users[o].server \in DOMAIN servers  BY <3>1 DEF PoolTypes
      <3>3. servers[users[o].server].phase = "ready"  BY <1>8, <2>2, <3>1, <3>2
      <3>4. o \in Resuming  BY <3>1, <3>3 DEF Resuming
      <3> QED  BY <1>8, <3>1, <3>2, <3>3, <3>4 DEF KilledIsFree
    <2> QED  BY <2>1, <2>2 DEF KilledIsFree
  <1>14. UpIsKept'
    <2> SUFFICES ASSUME NEW o \in DOMAIN servers
                 PROVE  \/ servers'[o].killed \/ servers'[o].phase = "starting" \/ Counted(o)' # {}
                        \/ \E v \in Users : users'[v].at = "acquiring" /\ users'[v].server = o
      BY <1>1, <1>5 DEF UpIsKept
    <2>1. CASE o = s
      <3>1. CASE servers[s].phase = "ready"  BY <1>6, <2>1, <3>1
      <3>2. CASE servers[s].phase # "ready"
        <4>1. servers[s].phase = "failed" BY <1>0, <2>1, <1>1, <3>2 DEF Server
        <4> QED  BY <1>8, <2>1, <4>1 DEF CountsHold
      <3> QED  BY <3>1, <3>2
    <2>2. CASE o # s BY <1>4, <2>2, <1>6, <1>8 DEF UpIsKept
    <2> QED  BY <2>1, <2>2
  <1> QED  BY <1>10, <1>11, <1>12, <1>13, <1>14

-----------------------------------------------------------------------------
(* OpenCodeRuntime: servers are released, retired and killed               *)

\* A step that adds no handle and lets nobody resume: what is left to show.
LEMMA NobodyIsWoken ==
    ASSUME PoolInv, Resuming = {}, PoolTypes', PoolIsFresh', DOMAIN (servers') = DOMAIN servers,
           \A u \in Users : /\ users'[u].at = "acquiring" <=> users[u].at = "acquiring"
                            /\ users[u].at = "acquiring" => users'[u] = users[u],
           \A s \in DOMAIN servers :
               /\ servers'[s].phase = servers[s].phase
               /\ servers[s].phase = "starting" => servers'[s] = servers[s]
               /\ servers[s].killed => servers'[s].killed
               /\ Counted(s)' \subseteq Counted(s)
               /\ servers'[s].refs = Cardinality(Counted(s)')
               /\ servers'[s].killed /\ ~servers'[s].forced => Counted(s)' = {}
               /\ servers'[s].killed \/ Counted(s)' # {} \/ Counted(s) = {}
    PROVE  PoolInv'
  <1> USE DEF PoolInv
  <1>1. \A s \in DOMAIN servers, u \in Users :
           users[u].at = "acquiring" /\ users[u].server = s
               => users'[u].at = "acquiring" /\ users'[u].server = s
    OBVIOUS
  <1>2. CountsHold'
    <2> SUFFICES ASSUME NEW s \in DOMAIN servers
                 PROVE  /\ servers'[s].refs = Cardinality(Counted(s)')
                        /\ Counted(s)' # {} => servers'[s].phase = "ready"
                        /\ servers'[s].phase = "starting" =>
                               /\ ~servers'[s].killed /\ ~servers'[s].retired /\ ~servers'[s].forced
                               /\ \E u \in Users : users'[u].at = "acquiring" /\ users'[u].server = s
                        /\ servers'[s].phase = "failed" => servers'[s].killed
      BY DEF CountsHold
    <2> QED  BY <1>1 DEF CountsHold
  <1>3. Resuming' = {}
    <2> SUFFICES ASSUME NEW u \in Resuming'  PROVE FALSE OBVIOUS
    <2>1. u \in Users /\ users[u].at = "acquiring" /\ users'[u] = users[u]
          /\ servers'[users'[u].server].phase # "starting"
      BY DEF Resuming
    <2>2. users[u].server \in DOMAIN servers  BY <2>1 DEF PoolTypes
    <2>3. u \in Resuming  BY <2>1, <2>2 DEF Resuming
    <2> QED  BY <2>3
  <1>4. KilledIsFree'  BY <1>3 DEF KilledIsFree
  <1>5. UpIsKept'
    <2> SUFFICES ASSUME NEW s \in DOMAIN servers
                 PROVE  \/ servers'[s].killed \/ servers'[s].phase = "starting" \/ Counted(s)' # {}
                        \/ \E u \in Users : users'[u].at = "acquiring" /\ users'[u].server = s
      BY DEF UpIsKept
    <2> QED  BY <1>1 DEF UpIsKept
  <1> QED  BY <1>2, <1>4, <1>5

\* A handle is given back: the last one takes the server with it.
LEMMA ReleasedKeeps ==
    ASSUME PoolInv, Resuming = {}, NEW u \in Users, users[u].at \in {"using", "flow"},
           users' = [users EXCEPT ![u].at = "done"], Released(users[u].server),
           UNCHANGED <<generations, retirals>>
    PROVE  PoolInv'
  <1> USE DEF PoolInv
  <1>0. /\ \A o \in DOMAIN servers : servers[o] \in Server
        /\ \A o \in Users : users[o] \in UserStates
        /\ pool \in [Keys -> {0} \cup DOMAIN servers]
    BY Fields DEF PoolTypes
  <1> PICK s \in DOMAIN servers : s = users[u].server BY DEF PoolTypes
  <1> DEFINE e == [servers[s] EXCEPT !.refs = servers[s].refs - 1,
                                     !.killed = servers[s].killed \/ servers[s].refs - 1 = 0]
             to == [users[u] EXCEPT !.at = "done"]
  <1>1. u \in Counted(s)  BY DEF Counted
  <1>2. /\ servers[s].refs = Cardinality(Counted(s)) /\ servers[s].refs \in Nat /\ servers[s].refs # 0
        /\ servers[s].phase = "ready"
    BY <1>1, CountedIsFinite DEF CountsHold
  <1>3. /\ e \in Server /\ e.refs = servers[s].refs - 1 /\ e.phase = "ready" /\ e.key = servers[s].key
        /\ e.generation = servers[s].generation /\ e.retired = servers[s].retired
        /\ e.forced = servers[s].forced /\ e.killed = (servers[s].killed \/ servers[s].refs - 1 = 0)
    <2>1. servers[s] \in Server  BY <1>0
    <2>2. servers[s].refs - 1 \in Nat  BY <1>2
    <2> QED  BY <1>2, <2>1, <2>2 DEF Server
  <1>4. to \in UserStates /\ to.at = "done" /\ to.server = s  BY <1>0 DEF UserStates
  <1>5. /\ servers' = [servers EXCEPT ![s] = e] /\ users' = [users EXCEPT ![u] = to]
        /\ pool' = IF servers[s].refs - 1 = 0 THEN [k \in Keys |-> IF pool[k] = s THEN 0 ELSE pool[k]]
                                              ELSE pool
    <2> DEFINE fewer == [servers EXCEPT ![s].refs = @ - 1]
    <2>1. servers[s] \in Server /\ servers \in Seq(Server)  BY <1>0 DEF PoolTypes
    <2>2. fewer[s] = [servers[s] EXCEPT !.refs = servers[s].refs - 1]  BY <2>1
    <2>3. fewer[s].refs = servers[s].refs - 1 /\ fewer[s].killed = servers[s].killed BY <2>1, <2>2 DEF Server
    <2>4. servers' = [fewer EXCEPT ![s].killed = @ \/ fewer[s].refs = 0] /\ pool' = Unpool(s, fewer)
      BY DEF Released
    <2>5. servers' = [fewer EXCEPT ![s] = [fewer[s] EXCEPT !.killed = fewer[s].killed \/ fewer[s].refs = 0]]
      BY <2>4
    <2>6. [fewer[s] EXCEPT !.killed = fewer[s].killed \/ fewer[s].refs = 0] = e BY <2>1, <2>2, <2>3 DEF Server
    <2>7. servers' = [fewer EXCEPT ![s] = e]  BY <2>5, <2>6
    <2> HIDE DEF e
    <2>8. servers' = [servers EXCEPT ![s] = e]  BY <2>1, <2>7
    <2> QED  BY <2>3, <2>4, <2>8 DEF Unpool
  <1> HIDE DEF e, to
  <1>6. /\ servers' \in Seq(Server) /\ DOMAIN (servers') = DOMAIN servers
        /\ servers'[s] = e /\ \A o \in DOMAIN servers : o # s => servers'[o] = servers[o]
    BY <1>3, <1>5, ServerChanges
  <1>7. /\ users' \in [Users -> UserStates] /\ users'[u] = to
        /\ \A o \in Users : o # u => users'[o] = users[o]
    BY <1>4, <1>5, UserChanges
  <1>8. /\ \A o \in DOMAIN servers : o # s => Counted(o)' = Counted(o)
        /\ Counted(s)' = Counted(s) \ {u}
    BY <1>4, <1>7 DEF Counted
  <1>9. servers'[s].refs = Cardinality(Counted(s)')
    <2>1. Cardinality(Counted(s) \ {u}) = Cardinality(Counted(s)) - 1 BY <1>1, CountedIsFinite, FS_RemoveElement
    <2> QED  BY <1>2, <1>3, <1>6, <1>8, <2>1
  <1>10. servers'[s].refs = 0 <=> Counted(s)' = {} BY CountedIsFinite, FS_Subset, <1>8, <1>9, FS_EmptySet
  <1>11. servers'[s].killed = (servers[s].killed \/ Counted(s)' = {}) BY <1>3, <1>6, <1>10
  <1>12. servers[s].killed => servers[s].forced  BY <1>1 DEF KilledIsFree
  <1>13. PoolTypes' BY <1>0, <1>5, <1>6, <1>4, <1>7 DEF PoolTypes
  <1>14. PoolIsFresh'
    <2>1. \A k \in Keys : pool'[k] # 0 => /\ pool'[k] = pool[k]
                                          /\ pool[k] = s => Counted(s)' # {}
      BY <1>0, <1>3, <1>5, <1>6, <1>10
    <2>2. ASSUME NEW k \in Keys, pool'[k] # 0
          PROVE  /\ servers'[pool'[k]].key = k /\ servers'[pool'[k]].generation = generations'[k]
                 /\ ~servers'[pool'[k]].killed /\ ~servers'[pool'[k]].retired
      <3>1. pool'[k] = pool[k] /\ pool[k] \in DOMAIN servers /\ (pool[k] = s => Counted(s)' # {})
        BY <1>0, <2>1, <2>2
      <3>2. CASE pool[k] = s
        <4>1. /\ ~servers[s].killed /\ ~servers[s].retired /\ servers[s].key = k
              /\ servers[s].generation = generations[k]
          BY <2>2, <3>1, <3>2 DEF PoolIsFresh
        <4>2. ~servers'[s].killed  BY <1>11, <3>1, <3>2, <4>1, Zenon
        <4> QED  BY <1>3, <1>6, <3>1, <3>2, <4>1, <4>2
      <3>3. CASE pool[k] # s  BY <1>6, <2>2, <3>1, <3>3 DEF PoolIsFresh
      <3> QED  BY <3>2, <3>3
    <2>3. ASSUME NEW r \in retirals', NEW k \in Keys  PROVE pool'[k] # r.server
      <3>1. r \in retirals /\ r.server \in DOMAIN servers  BY DEF PoolTypes
      <3>2. CASE pool'[k] = 0  BY <3>1, <3>2, Fields
      <3>3. CASE pool'[k] # 0  BY <2>1, <3>1, <3>3 DEF PoolIsFresh
      <3> QED  BY <3>2, <3>3
    <2> QED  BY <2>2, <2>3 DEF PoolIsFresh
  <1>15. \A o \in Users : /\ users'[o].at = "acquiring" <=> users[o].at = "acquiring"
                          /\ users[o].at = "acquiring" => users'[o] = users[o]
    BY <1>4, <1>7
  <1>16. \A o \in DOMAIN servers :
            /\ servers'[o].phase = servers[o].phase
            /\ servers[o].phase = "starting" => servers'[o] = servers[o]
            /\ servers[o].killed => servers'[o].killed
            /\ Counted(o)' \subseteq Counted(o)
            /\ servers'[o].refs = Cardinality(Counted(o)')
            /\ servers'[o].killed /\ ~servers'[o].forced => Counted(o)' = {}
            /\ servers'[o].killed \/ Counted(o)' # {} \/ Counted(o) = {}
    <2> SUFFICES ASSUME NEW o \in DOMAIN servers
                 PROVE  /\ servers'[o].phase = servers[o].phase
                        /\ servers[o].phase = "starting" => servers'[o] = servers[o]
                        /\ servers[o].killed => servers'[o].killed
                        /\ Counted(o)' \subseteq Counted(o)
                        /\ servers'[o].refs = Cardinality(Counted(o)')
                        /\ servers'[o].killed /\ ~servers'[o].forced => Counted(o)' = {}
                        /\ servers'[o].killed \/ Counted(o)' # {} \/ Counted(o) = {}
      OBVIOUS
    <2>1. CASE o = s  BY <1>2, <1>3, <1>6, <1>8, <1>9, <1>11, <1>12, <2>1
    <2>2. CASE o # s  BY <1>6, <1>8, <2>2 DEF CountsHold, KilledIsFree
    <2> QED  BY <2>1, <2>2
  <1> QED  BY <1>6, <1>13, <1>14, <1>15, <1>16, NobodyIsWoken

\* Who holds a server goes on holding it, in another place.
LEMMA HandleIsKept ==
    ASSUME PoolInv, Resuming = {}, NEW u \in Users, users[u].at \in {"using", "flow"},
           NEW e \in UserStates, e.server = users[u].server, e.at \in {"using", "flow", "lost"},
           users' = [users EXCEPT ![u] = e], UNCHANGED <<servers, pool, generations, retirals>>
    PROVE  PoolInv'
  <1> USE DEF PoolInv
  <1>1. /\ users' \in [Users -> UserStates] /\ users'[u] = e
        /\ \A o \in Users : o # u => users'[o] = users[o]
    BY UserChanges
  <1>2. \A s : Counted(s)' = Counted(s) BY <1>1 DEF Counted
  <1>3. PoolTypes' BY <1>1 DEF PoolTypes
  <1>4. PoolIsFresh'  BY DEF PoolIsFresh
  <1>5. \A o \in Users : /\ users'[o].at = "acquiring" <=> users[o].at = "acquiring"
                         /\ users[o].at = "acquiring" => users'[o] = users[o]
    BY <1>1
  <1>6. \A s \in DOMAIN servers : /\ servers[s].refs = Cardinality(Counted(s)')
                                  /\ servers[s].killed /\ ~servers[s].forced => Counted(s)' = {}
    BY <1>2 DEF CountsHold, KilledIsFree
  <1> QED  BY <1>2, <1>3, <1>4, <1>5, <1>6, NobodyIsWoken

\* The writer's servers are retired: those that are ready at once, the others later.
LEMMA WroteKeeps ==
    ASSUME PoolInv, Resuming = {}, NEW u \in Users, NEW force \in BOOLEAN, Wrote(u, force)
    PROVE  PoolInv'
  <1> USE DEF PoolInv
  <1> PICK old, ready : /\ old = {pool[k] : k \in {x \in {y \in Keys : pool[y] # 0} : pool[x] # 0}}
                        /\ ready = {s \in old : servers[s].phase = "ready"}
    OBVIOUS
  <1> DEFINE e == [users[u] EXCEPT !.what = "wrote"]
  <1>0. /\ \A s \in DOMAIN servers : servers[s] \in Server
        /\ \A o \in Users : users[o] \in UserStates
        /\ pool \in [Keys -> {0} \cup DOMAIN servers]
        /\ DOMAIN servers = 1..Len(servers) /\ Len(servers) \in Nat
    BY Fields DEF PoolTypes
  <1>1. /\ users[u].at = "using" /\ users' = [users EXCEPT ![u] = e]
        /\ generations' = [k \in Keys |-> IF k \in {x \in Keys : pool[x] # 0} THEN generations[k] + 1
                                                                             ELSE generations[k]]
        /\ pool' = [k \in Keys |-> IF k \in {x \in Keys : pool[x] # 0} THEN 0 ELSE pool[k]]
        /\ servers' = [s \in DOMAIN servers |->
               IF s \in ready
               THEN [servers[s] EXCEPT !.retired = TRUE, !.forced = @ \/ force,
                                       !.killed = @ \/ RetirementKills(servers[s], force)]
               ELSE servers[s]]
        /\ retirals' = retirals \cup {[server |-> s, force |-> force, by |-> u] : s \in old \ ready}
    BY DEF Wrote, Retire
  <1>2. old \subseteq DOMAIN servers  BY <1>0
  <1>3. e \in UserStates /\ e.at = "using" /\ e.server = users[u].server BY <1>0, <1>1 DEF UserStates
  <1> HIDE DEF e
  <1>4. /\ users' \in [Users -> UserStates] /\ users'[u] = e
        /\ \A o \in Users : o # u => users'[o] = users[o]
    BY <1>1, <1>3, UserChanges
  <1>5. \A s : Counted(s)' = Counted(s)
    <2>1. \A s : \A v \in Users :
             (users'[v].at \in {"using", "flow", "lost"} /\ users'[v].server = s)
                 <=> (users[v].at \in {"using", "flow", "lost"} /\ users[v].server = s)
      BY <1>1, <1>3, <1>4
    <2> QED  BY <2>1 DEF Counted
  <1>6. pool' = [k \in Keys |-> 0]  BY <1>0, <1>1
  <1>7. ASSUME NEW s \in DOMAIN servers, s \in ready
        PROVE  /\ servers'[s] \in Server /\ servers'[s].phase = servers[s].phase
               /\ servers'[s].refs = servers[s].refs /\ servers[s].phase = "ready"
               /\ servers'[s].forced = (servers[s].forced \/ force)
               /\ servers'[s].killed = (servers[s].killed \/ force \/ servers[s].refs = 0)
    <2>1. servers[s] \in Server  BY <1>0
    <2>2. servers'[s] = [servers[s] EXCEPT !.retired = TRUE, !.forced = @ \/ force,
                                           !.killed = @ \/ RetirementKills(servers[s], force)]
      BY <1>1, <1>7
    <2>3. RetirementKills(servers[s], force) = (force \/ servers[s].refs = 0) BY DEF RetirementKills
    <2> QED  BY <1>7, <2>1, <2>2, <2>3 DEF Server
  <1>8. ASSUME NEW s \in DOMAIN servers, s \notin ready  PROVE servers'[s] = servers[s] BY <1>1, <1>8
  <1>9. DOMAIN (servers') = DOMAIN servers /\ servers' \in Seq(Server)
    <2>1. DOMAIN (servers') = 1..Len(servers)  BY <1>0, <1>1
    <2>2. \A s \in 1..Len(servers) : servers'[s] \in Server  BY <1>0, <1>7, <1>8
    <2>3. servers' = [s \in 1..Len(servers) |-> servers'[s]]  BY <1>0, <1>1
    <2> QED  BY <1>0, <2>1, <2>2, <2>3
  <1>10. PoolTypes'
    <2>1. generations' \in [Keys -> Nat]
      <3>1. \A k \in Keys : generations[k] \in Nat /\ generations[k] + 1 \in Nat  BY DEF PoolTypes
      <3> QED  BY <1>1, <3>1
    <2>2. pool' \in [Keys -> {0} \cup DOMAIN (servers')]  BY <1>6
    <2>3. \A o \in Users : IF users'[o].at = "none" THEN users'[o].server = 0
                           ELSE users'[o].server \in DOMAIN (servers')
      BY <1>1, <1>3, <1>4, <1>9 DEF PoolTypes
    <2>4. \A r \in retirals' : r.server \in DOMAIN (servers') /\ r.force \in BOOLEAN
      <3>1. \A r \in retirals : r.server \in DOMAIN servers /\ r.force \in BOOLEAN  BY DEF PoolTypes
      <3>2. \A r \in {[server |-> s, force |-> force, by |-> u] : s \in old \ ready} :
               r.server \in DOMAIN servers /\ r.force \in BOOLEAN
        BY <1>2
      <3> QED  BY <1>1, <1>9, <3>1, <3>2
    <2> QED  BY <1>4, <1>9, <2>1, <2>2, <2>3, <2>4 DEF PoolTypes
  <1>11. PoolIsFresh' BY <1>0, <1>6, <1>9, <1>10 DEF PoolTypes, PoolIsFresh
  <1>12. \A o \in Users : /\ users'[o].at = "acquiring" <=> users[o].at = "acquiring"
                          /\ users[o].at = "acquiring" => users'[o] = users[o]
    BY <1>1, <1>3, <1>4
  <1>13. ASSUME NEW s \in DOMAIN servers
         PROVE  /\ servers'[s].phase = servers[s].phase
                /\ servers[s].phase = "starting" => servers'[s] = servers[s]
                /\ servers[s].killed => servers'[s].killed
                /\ Counted(s)' \subseteq Counted(s)
                /\ servers'[s].refs = Cardinality(Counted(s)')
                /\ servers'[s].killed /\ ~servers'[s].forced => Counted(s)' = {}
                /\ servers'[s].killed \/ Counted(s)' # {} \/ Counted(s) = {}
    <2>1. /\ servers[s].refs = Cardinality(Counted(s)) /\ (servers[s].refs = 0 <=> Counted(s) = {})
          /\ servers[s].killed /\ ~servers[s].forced => Counted(s) = {}
      BY CountedIsFinite DEF CountsHold, KilledIsFree
    <2>2. CASE s \in ready BY <1>7, <2>1, <2>2, Zenon, <1>5
    <2>3. CASE s \notin ready  BY <1>5, <1>8, <2>1, <2>3
    <2> QED  BY <2>2, <2>3
  <1> QED  BY <1>9, <1>10, <1>11, <1>12, <1>13, NobodyIsWoken

\* A server that has started meanwhile is retired.
LEMMA RetiresKeeps ==
    ASSUME PoolInv, Resuming = {}, NEW r \in retirals, Retires(r)
    PROVE  PoolInv'
  <1> USE DEF PoolInv
  <1> PICK s \in DOMAIN servers : s = r.server BY DEF PoolTypes
  <1> DEFINE kills == r.force \/ servers[s].refs = 0
             e == [servers[s] EXCEPT !.retired = TRUE, !.forced = servers[s].forced \/ r.force,
                                     !.killed = servers[s].killed \/ kills]
  <1>0. servers[s] \in Server /\ r.force \in BOOLEAN  BY Fields DEF PoolTypes
  <1>1. /\ servers[s].phase # "starting" /\ retirals' = retirals \ {r}
        /\ servers' = IF servers[s].phase = "failed" THEN servers ELSE [servers EXCEPT ![s] = e]
        /\ UNCHANGED <<pool, generations, users>>
    BY DEF Retires, RetirementKills
  <1>2. /\ e \in Server /\ e.phase = servers[s].phase /\ e.refs = servers[s].refs
        /\ e.forced = (servers[s].forced \/ r.force) /\ e.killed = (servers[s].killed \/ kills)
    BY <1>0 DEF Server
  <1> HIDE DEF e
  <1>3. \A o : Counted(o)' = Counted(o)  BY <1>1 DEF Counted
  <1>4. /\ servers' \in Seq(Server) /\ DOMAIN (servers') = DOMAIN servers
        /\ servers'[s] = (IF servers[s].phase = "failed" THEN servers[s] ELSE e)
        /\ \A o \in DOMAIN servers : o # s => servers'[o] = servers[o]
    <2>1. CASE servers[s].phase = "failed"  BY <1>1, <2>1 DEF PoolTypes
    <2>2. CASE servers[s].phase # "failed" BY <1>1, <2>2, <1>2, ServerChanges
    <2> QED  BY <2>1, <2>2
  <1>5. PoolTypes' BY <1>1, <1>4 DEF PoolTypes
  <1>6. PoolIsFresh' BY <1>4, <1>1 DEF PoolIsFresh, PoolTypes
  <1>7. \A o \in Users : /\ users'[o].at = "acquiring" <=> users[o].at = "acquiring"
                         /\ users[o].at = "acquiring" => users'[o] = users[o]
    BY <1>1
  <1>8. ASSUME NEW o \in DOMAIN servers
        PROVE  /\ servers'[o].phase = servers[o].phase
               /\ servers[o].phase = "starting" => servers'[o] = servers[o]
               /\ servers[o].killed => servers'[o].killed
               /\ Counted(o)' \subseteq Counted(o)
               /\ servers'[o].refs = Cardinality(Counted(o)')
               /\ servers'[o].killed /\ ~servers'[o].forced => Counted(o)' = {}
               /\ servers'[o].killed \/ Counted(o)' # {} \/ Counted(o) = {}
    <2>1. /\ servers[o].refs = Cardinality(Counted(o)) /\ (servers[o].refs = 0 <=> Counted(o) = {})
          /\ servers[o].killed /\ ~servers[o].forced => Counted(o) = {}
      BY CountedIsFinite DEF CountsHold, KilledIsFree
    <2>2. CASE o = s /\ servers[s].phase # "failed" BY <1>4, <2>2, <1>2, <2>1, Zenon, <1>1, <1>3
    <2>3. CASE ~(o = s /\ servers[s].phase # "failed")  BY <1>3, <1>4, <2>1, <2>3
    <2> QED  BY <2>2, <2>3
  <1> QED  BY <1>4, <1>5, <1>6, <1>7, <1>8, NobodyIsWoken

-----------------------------------------------------------------------------
(* OpenCodeRuntime: the theorem                                            *)

\* The invariant holds in every behaviour.
LEMMA PoolInvHolds ==
    ASSUME ~LastTickRelease
    PROVE  RuntimeSpec => []PoolInv
  <1>1. RuntimeInit => PoolInv
    <2> SUFFICES ASSUME RuntimeInit  PROVE PoolInv OBVIOUS
    <2>1. servers = << >> /\ retirals = {} /\ \A u \in Users : users[u].at = "none" BY DEF RuntimeInit
    <2>2. PoolTypes  BY DEF RuntimeInit, PoolTypes, UserStates
    <2>3. CountsHold /\ UpIsKept  BY <2>1 DEF CountsHold, UpIsKept
    <2>4. PoolIsFresh  BY <2>1 DEF RuntimeInit, PoolIsFresh
    <2>5. KilledIsFree  BY <2>1 DEF KilledIsFree, Resuming
    <2> QED  BY <2>2, <2>3, <2>4, <2>5 DEF PoolInv
  <1>2. PoolInv /\ [RuntimeNext]_runtimeVars => PoolInv'
    <2> SUFFICES ASSUME PoolInv, [RuntimeNext]_runtimeVars  PROVE PoolInv' OBVIOUS
    <2>1. ASSUME NEW u \in Users, Acquired(u)  PROVE PoolInv'  BY <2>1, AcquiredKeeps
    <2>2. ASSUME NEW s \in DOMAIN servers, NEW ok \in BOOLEAN, Started(s, ok), Resuming = {}
          PROVE  PoolInv'
      BY <2>2, StartedKeeps
    <2>3. ASSUME NEW r \in retirals, Retires(r), Resuming = {}  PROVE PoolInv' BY <2>3, RetiresKeeps
    <2>4. ASSUME NEW u \in Users, NEW what \in {"session", "write", "flow"}, NEW k \in Keys,
                 Begins(u, what, k), Resuming = {}
          PROVE  PoolInv'
      BY <2>4, BeginsKeeps
    <2>5. ASSUME NEW u \in Users, Ends(u) \/ Evicts(u), Resuming = {}  PROVE PoolInv'
      BY <2>5, ReleasedKeeps DEF Ends, Evicts
    <2>6. ASSUME NEW u \in Users, AuthReadFails(u) \/ Completes(u), Resuming = {}  PROVE PoolInv'
      <3>1. users[u] \in UserStates  BY Fields DEF PoolInv
      <3>2. CASE AuthReadFails(u) BY <3>1, <2>6, <3>2, HandleIsKept DEF UserStates, AuthReadFails
      <3>3. CASE Completes(u) BY <3>1, <2>6, <3>3, HandleIsKept DEF UserStates, Completes
      <3> QED  BY <2>6, <3>2, <3>3
    <2>7. ASSUME NEW u \in Users, FlowBegun(u), Resuming = {}  PROVE PoolInv'
      <3>1. users[u] \in UserStates /\ users[u].at = "using" /\ UNCHANGED <<generations, retirals>>
        BY <2>7, Fields DEF PoolInv, FlowBegun
      <3>2. CASE users' = [users EXCEPT ![u].at = "flow"] /\ UNCHANGED <<servers, pool>>
        BY <3>1, <2>7, <3>2, HandleIsKept DEF UserStates
      <3>3. CASE users' = [users EXCEPT ![u].at = "done"] /\ Released(users[u].server)
        BY <2>7, <3>1, <3>3, ReleasedKeeps
      <3> QED  BY <2>7, <3>2, <3>3 DEF FlowBegun
    <2>8. ASSUME NEW u \in Users, NEW force \in BOOLEAN, Wrote(u, force), Resuming = {}  PROVE PoolInv'
      BY <2>8, WroteKeeps
    <2>9. CASE UNCHANGED runtimeVars
      <3>1. UNCHANGED <<servers, pool, generations, users, retirals>>  BY <2>9 DEF runtimeVars
      <3>2. /\ \A s : Counted(s)' = Counted(s)
            /\ Resuming' = Resuming
        BY <3>1 DEF Counted, Resuming
      <3>3. PoolTypes' /\ PoolIsFresh'  BY <3>1 DEF PoolInv, PoolTypes, PoolIsFresh
      <3>4. CountsHold'  BY <3>1, <3>2 DEF PoolInv, CountsHold
      <3>5. KilledIsFree'  BY <3>1, <3>2 DEF PoolInv, KilledIsFree
      <3>6. UpIsKept'  BY <3>1, <3>2 DEF PoolInv, UpIsKept
      <3> QED  BY <3>3, <3>4, <3>5, <3>6 DEF PoolInv
    <2> QED  BY <2>1, <2>2, <2>3, <2>4, <2>5, <2>6, <2>7, <2>8, <2>9 DEF RuntimeNext
  <1> QED  BY <1>1, <1>2, PTL DEF RuntimeSpec

\* Every variable of the pool keeps its type.
THEOREM RuntimeTypeCorrect ==
    ASSUME ~LastTickRelease
    PROVE  RuntimeSpec => []RuntimeTypeOK
  <1>1. PoolInv => RuntimeTypeOK
    <2> SUFFICES ASSUME PoolInv  PROVE RuntimeTypeOK OBVIOUS
    <2>1. /\ \A s \in DOMAIN servers : servers[s] \in Server
          /\ \A u \in Users : users[u] \in UserStates
          /\ DOMAIN servers = 1..Len(servers) /\ Len(servers) \in Nat
      BY Fields DEF PoolInv
    <2>2. \A s \in DOMAIN servers : servers[s].refs \in Nat  BY <2>1 DEF Server
    <2>3. pool \in [Keys -> 0..Len(servers)] /\ generations \in [Keys -> Nat] BY <2>1 DEF PoolInv, PoolTypes
    <2>4. \A u \in Users : users[u].server \in 0..Len(servers) BY <2>1 DEF PoolInv, PoolTypes
    <2> QED  BY <2>2, <2>3, <2>4 DEF RuntimeTypeOK
  <1> QED  BY <1>1, PoolInvHolds, PTL

\* A server of the pool lives exactly as long as somebody uses it, for every set of keys
\* and every number of users and servers, if a server is not released in the tick in which
\* acquire() resumes.
THEOREM ServersLiveWhileUsed ==
    ASSUME ~LastTickRelease
    PROVE  RuntimeSpec => []LivesWhileUsed
  BY PoolInvHolds, PoolInvGives, PTL

-----------------------------------------------------------------------------
(* Telemetry: the invariant                                                *)

Updates == [mode : {"merge", "replace"}, at : Nat \ {0}, id : Nat, of : Nat, has : SUBSET Buckets,
            removed : SUBSET Buckets, lists : SUBSET Collections]

RateSnapshots == [there : BOOLEAN, id : Nat, at : Nat, buckets : [Buckets -> [at : Nat, of : Nat]]]
Supports == {"unknown", "supported", "unsupported"}
Stores == [rates : RateSnapshots, replacedAt : Nat, listAt : [Collections -> Nat], removedAt : [Buckets -> Nat],
           rateSupport : Supports, unavailable : BOOLEAN, context : [at : Nat, changes : Nat],
           invalid : BOOLEAN, contextSupport : Supports, closed : BOOLEAN]

Whats == {"account", "rates", "context"}
Demands == [what : Whats, id : Nat, of : Nat, changes : Nat]
AnswerLines == [kind : {"answer"}, what : Whats, id : Nat, of : Nat, changes : Nat, how : Outcomes]
RuntimeLines == [kind : {"auth", "compacted", "model", "result"}] \cup [kind : {"rates"}, update : Updates]
                \cup AnswerLines
Heard == [kind : {"none", "answer"}, what : Whats \cup {"none", "claude", "codex"}, id : Nat, of : Nat,
          changes : Nat, how : Outcomes \cup {"none", "timeout"}]
ReadRecord == [at : {"none", "asked", "answered"}, id : Nat, moved : BOOLEAN, answer : Heard]
Flags == [observed : BOOLEAN, running : BOOLEAN, requested : BOOLEAN, timer : BOOLEAN]
Knowledge == [updates : SUBSET Updates, account : Nat, changes : Nat, lastRead : {"none", "told", "failed"},
              rateReads : Nat, ctxReads : Nat, timeouts : Nat]
Runtimes == [account : Nat \ {0}, changes : Nat, others : Nat, asked : SUBSET Demands]

TeleTypes ==
    /\ tele \in Stores /\ source \in {"claude", "codex", "rows"}
    /\ runtime \in Runtimes /\ IsFiniteSet(runtime.asked)
    /\ stdout \in Seq(RuntimeLines) /\ rateRead \in ReadRecord /\ ctxRead \in ReadRecord
    /\ auto \in Flags /\ rows \in Seq(Updates) /\ known \in Knowledge

\* A transcript is of one account, and nothing runs; what a runtime tells is as new as
\* can be.
SourceInv ==
    /\ source = "rows" => /\ stdout = << >> /\ runtime.asked = {} /\ known.account = 1 /\ ~tele.closed
                          /\ rateRead.at = "none" /\ ctxRead.at = "none"
                          /\ \A n \in DOMAIN rows : rows[n].id = 0 /\ rows[n].of = 1
    /\ source # "rows" => /\ rows = << >> /\ \A u \in known.updates : u.at = 1
                          /\ tele.rates.at <= 1
                          /\ \A i \in DOMAIN stdout : stdout[i].kind = "rates" =>
                                 stdout[i].update.at = 1 /\ stdout[i].update.mode = "merge"
    /\ source # "claude" => /\ runtime.changes = 0 /\ known.changes = 0 /\ ctxRead.at = "none"
                            /\ ~auto.observed /\ ~auto.timer

\* f counts the lines of some sorts in s, up to `last` when all are read.
Counts(s, f, sorts, last) ==
    /\ f \in [0..Len(s) -> Nat] /\ f[Len(s)] = last
    /\ \A i \in 0..Len(s) : f[i] <= last
    /\ \A i \in 1..Len(s) : f[i] = f[i - 1] + (IF s[i].kind \in sorts THEN 1 ELSE 0)

\* The session learns in the order of the stream that the account changed: what it then
\* hears of was read for this account, or a later one.
AccountsInv ==
    \E f \in [0..Len(stdout) -> Nat] :
        /\ Counts(stdout, f, {"auth"}, runtime.account) /\ known.account <= f[0]
        /\ \A i \in DOMAIN stdout : stdout[i].kind = "rates" => stdout[i].update.of >= f[i]

ChangesInv ==
    \E f \in [0..Len(stdout) -> Nat] :
        /\ Counts(stdout, f, {"compacted", "model"}, runtime.changes) /\ known.changes <= f[0]
        /\ ~tele.closed => known.changes = f[0]

\* What a read was answered with, or will be, is no older than what the session knows,
\* unless that changed under it.
RateReadInv ==
    /\ rateRead.at = "asked" /\ ~rateRead.moved =>
           /\ \A r \in runtime.asked : r.id = rateRead.id /\ r.of > 0 => r.of >= known.account
           /\ \A i \in DOMAIN stdout :
                  stdout[i].kind = "answer" /\ stdout[i].id = rateRead.id => stdout[i].of >= known.account
    /\ rateRead.at = "answered" /\ ~rateRead.moved /\ rateRead.answer.how = "ok" =>
           rateRead.answer.of >= known.account

CtxReadInv ==
    /\ ctxRead.at = "asked" /\ ~ctxRead.moved =>
           /\ \A r \in runtime.asked : r.id = ctxRead.id /\ r.of > 0 => r.changes >= known.changes
           /\ \A i \in DOMAIN stdout :
                  stdout[i].kind = "answer" /\ stdout[i].id = ctxRead.id => stdout[i].changes >= known.changes
    /\ ctxRead.at = "answered" /\ ~ctxRead.moved /\ ctxRead.answer.how = "ok" =>
           ctxRead.answer.changes >= known.changes

\* Nothing is answered that was not so yet.
AnswersInv ==
    /\ \A r \in runtime.asked : r.changes <= runtime.changes
    /\ \A i \in DOMAIN stdout : stdout[i].kind = "answer" => stdout[i].changes <= runtime.changes
    /\ ctxRead.answer.changes <= runtime.changes

\* What is known of a bucket: nothing is newer than what is shown or than what removed
\* it; what is shown was told, what is not was told to be gone by the newest of all.
Bounded(s, U, b) ==
    \A v \in U : TellsOf(v, b) \/ TellsGone(v, b) =>
        \/ v.at <= s.replacedAt \/ v.at <= s.removedAt[b]
        \/ \E c \in CollectionsOf(b) : v.at <= s.listAt[c]
        \/ b \in Shown(s) /\ v.at <= s.rates.buckets[b].at
Floors(s, b, at) ==
    /\ s.replacedAt <= at /\ s.removedAt[b] <= at
    /\ \A c \in CollectionsOf(b) : s.listAt[c] <= at
BucketTrue(s, U, b) ==
    /\ Bounded(s, U, b)
    /\ b \in Shown(s) => /\ Floors(s, b, s.rates.buckets[b].at)
                         /\ \E v \in U : TellsOf(v, b) /\ v.at = s.rates.buckets[b].at
    /\ b \notin Shown(s) => \/ Floors(s, b, 0)
                            \/ \E v \in U : TellsGone(v, b) /\ Floors(s, b, v.at)
StoreTrue(s, U) ==
    /\ ~s.rates.there => U = {} /\ Shown(s) = {}
    /\ s.rates.there => /\ \A v \in U : v.at <= s.rates.at
                        /\ \A b \in Buckets : BucketTrue(s, U, b)

\* The context: what was told, and what the session and its loop still have to ask.
ContextInv ==
    /\ tele.closed => tele.invalid
    /\ tele.contextSupport = "unsupported" => ctxRead.at = "none"
    /\ tele.contextSupport = "supported" => tele.context.at > 0
    /\ tele.context.at <= 1
    /\ auto.running => ctxRead.at # "none"
    /\ ~FirstReadCrossed => \A i \in DOMAIN stdout : stdout[i].kind = "model" =>
           tele.context.at > 0 \/ tele.contextSupport = "unsupported"
ForgetInv ==
    source = "claude" /\ auto.observed /\ ~tele.closed /\ tele.contextSupport = "supported"
    => \/ known.changes # runtime.changes \/ ctxRead.at # "none" \/ auto.timer
       \/ known.lastRead = "failed"
       \/ ContextFresh(tele) /\ tele.context.changes = runtime.changes

TeleInv == /\ TeleTypes /\ SourceInv /\ AccountsInv /\ ChangesInv /\ RateReadInv /\ CtxReadInv /\ AnswersInv
           /\ StoreTrue(tele, known.updates) /\ OfThisAccount
           /\ ContextInv /\ ContextIsCurrent /\ ForgetInv

-----------------------------------------------------------------------------
(* Telemetry: the store                                                    *)

\* The parts of a snapshot.
LEMMA StoreFields ==
    ASSUME NEW s \in Stores
    PROVE  /\ s.rates \in RateSnapshots /\ s.replacedAt \in Nat /\ s.listAt \in [Collections -> Nat]
           /\ s.removedAt \in [Buckets -> Nat] /\ s.rates.at \in Nat /\ s.rates.id \in Nat
           /\ s.rates.there \in BOOLEAN /\ s.rates.buckets \in [Buckets -> [at : Nat, of : Nat]]
           /\ \A b \in Buckets : s.rates.buckets[b].at \in Nat /\ s.rates.buckets[b].of \in Nat
BY DEF Stores, RateSnapshots

LEMMA UpdateFields ==
    ASSUME NEW u \in Updates
    PROVE  /\ u.at \in Nat /\ u.at > 0 /\ u.of \in Nat /\ u.id \in Nat /\ u.mode \in {"merge", "replace"}
           /\ u.has \subseteq Buckets /\ u.removed \subseteq Buckets /\ u.lists \subseteq Collections
BY DEF Updates

\* An update of everything, or the first.
LEMMA TakesWholeIsTrue ==
    ASSUME NEW s \in Stores, NEW u \in Updates, NEW U \in SUBSET Updates, NEW V, u \in V, V \subseteq U \cup {u},
           \A v \in V : v.at <= u.at, u.mode # "replace" => V = {u}
    PROVE  /\ StoreTrue(TakesWhole(s, u), V)
           /\ \A b \in Shown(TakesWhole(s, u)) : TakesWhole(s, u).rates.buckets[b].of = u.of
<1> DEFINE t == TakesWhole(s, u)
<1>1. /\ t.rates.there = TRUE /\ t.rates.at = u.at
      /\ t.replacedAt = (IF u.mode = "replace" THEN u.at ELSE 0)
      /\ t.rates.buckets = [b \in Buckets |-> IF b \in u.has THEN [at |-> u.at, of |-> u.of] ELSE NoBucket]
      /\ t.listAt = [c \in Collections |-> IF c \in u.lists THEN u.at ELSE 0]
      /\ t.removedAt = [b \in Buckets |-> IF b \in u.removed THEN u.at ELSE 0]
  BY DEF TakesWhole, Stores
<1> HIDE DEF t
<1>2. Shown(t) = u.has BY <1>1, UpdateFields DEF Shown, NoBucket
<1>3. \A b \in u.has : t.rates.buckets[b].at = u.at /\ t.rates.buckets[b].of = u.of BY <1>1, UpdateFields
<1>4. \A b \in Buckets : CollectionsOf(b) \subseteq Collections BY DEF CollectionsOf
<1>5. ASSUME NEW b \in Buckets
      PROVE  BucketTrue(t, V, b)
  <2>1. Floors(t, b, u.at) BY <1>1, <1>4, UpdateFields DEF Floors
  <2>2. CASE b \in u.has BY <1>2, <1>3, <2>2, <2>1 DEF Bounded, TellsOf, BucketTrue
  <2>3. CASE b \notin u.has /\ (u.mode = "replace" \/ b \in u.removed \/ CollectionsOf(b) \cap u.lists # {})
    BY <1>1, <1>4, <2>3, <1>2, <2>1 DEF Bounded, TellsGone, BucketTrue
  <2>4. CASE b \notin u.has /\ ~(u.mode = "replace" \/ b \in u.removed \/ CollectionsOf(b) \cap u.lists # {})
    BY <2>4, <1>1, <1>4, <1>2 DEF TellsOf, TellsGone, Bounded, Floors, BucketTrue
  <2> QED BY <2>2, <2>3, <2>4
<1> QED BY <1>1, <1>2, <1>3, <1>5 DEF StoreTrue, t

\* A part of the buckets.
LEMMA MergedIsTrue ==
    ASSUME NEW s \in Stores, NEW u \in Updates, NEW U \in SUBSET Updates, StoreTrue(s, U), s.rates.there,
           u.mode = "merge"
    PROVE  /\ StoreTrue(Merged(s, u), U \cup {u})
           /\ \A b \in Shown(Merged(s, u)) :
                  \/ Merged(s, u).rates.buckets[b].of = u.of
                  \/ b \in Shown(s) /\ Merged(s, u).rates.buckets[b].of = s.rates.buckets[b].of
<1> DEFINE t == Merged(s, u)
           bucket == s.rates.buckets
           lists == {c \in u.lists : u.at >= s.replacedAt /\ u.at >= s.listAt[c]}
           listAt == [c \in Collections |-> IF c \in lists THEN u.at ELSE s.listAt[c]]
           left == {b \in Shown(s) : CollectionsOf(b) \cap lists # {} => bucket[b].at > u.at}
           removed == {b \in u.removed : /\ u.at >= s.replacedAt /\ u.at >= s.removedAt[b]
                                         /\ b \in left => u.at >= bucket[b].at}
           removedAt == [b \in Buckets |-> IF b \in removed THEN u.at ELSE s.removedAt[b]]
           taken == {b \in u.has : /\ u.at >= s.replacedAt /\ u.at >= removedAt[b]
                                   /\ \A c \in CollectionsOf(b) : u.at >= listAt[c]
                                   /\ b \in left \ removed => u.at >= bucket[b].at}
<1>1. /\ t.rates.there = TRUE /\ t.rates.at = (IF u.at >= s.rates.at THEN u.at ELSE s.rates.at)
      /\ t.replacedAt = s.replacedAt /\ t.listAt = listAt
      /\ t.removedAt = [b \in Buckets |-> IF b \in taken THEN 0 ELSE removedAt[b]]
      /\ t.rates.buckets = [b \in Buckets |-> IF b \in taken THEN [at |-> u.at, of |-> u.of]
                                              ELSE IF b \in left \ removed THEN bucket[b] ELSE NoBucket]
  BY DEF Merged, Stores
<1> HIDE DEF t
<1>2. /\ u.at \in Nat /\ u.at > 0 /\ u.has \subseteq Buckets /\ u.removed \subseteq Buckets
      /\ u.lists \subseteq Collections /\ \A v \in U : v.at \in Nat
      /\ s.replacedAt \in Nat /\ s.rates.at \in Nat
      /\ \A b \in Buckets : s.removedAt[b] \in Nat /\ bucket[b].at \in Nat
      /\ \A c \in Collections : s.listAt[c] \in Nat
  BY StoreFields, UpdateFields
<1>3. \A b \in Buckets : CollectionsOf(b) \subseteq Collections BY DEF CollectionsOf
<1>4. left \subseteq Shown(s) /\ Shown(s) \subseteq Buckets /\ \A b \in Shown(s) : bucket[b].at > 0 BY DEF Shown
<1>5. ASSUME NEW b \in Buckets
      PROVE  /\ b \in taken => b \in Shown(t) /\ t.rates.buckets[b].at = u.at /\ t.rates.buckets[b].of = u.of
                               /\ t.removedAt[b] = 0
             /\ b \notin taken => t.removedAt[b] = removedAt[b]
             /\ b \notin taken /\ b \in left \ removed => b \in Shown(t) /\ t.rates.buckets[b] = bucket[b]
             /\ b \notin taken /\ b \notin left \ removed => b \notin Shown(t)
             /\ \A c \in CollectionsOf(b) : t.listAt[c] = IF c \in lists THEN u.at ELSE s.listAt[c]
             /\ removedAt[b] = IF b \in removed THEN u.at ELSE s.removedAt[b]
             /\ b \in removed <=> /\ b \in u.removed /\ u.at >= s.replacedAt /\ u.at >= s.removedAt[b]
                                  /\ b \in left => u.at >= bucket[b].at
             /\ b \in left <=> b \in Shown(s) /\ (CollectionsOf(b) \cap lists # {} => bucket[b].at > u.at)
             /\ b \in taken <=> /\ b \in u.has /\ u.at >= s.replacedAt /\ u.at >= removedAt[b]
                                /\ \A c \in CollectionsOf(b) : u.at >= t.listAt[c]
                                /\ b \in left \ removed => u.at >= bucket[b].at
  <2> HIDE DEF taken, removed, left, lists
  <2>1. b \in taken => b \in Shown(t) /\ t.rates.buckets[b].at = u.at /\ t.rates.buckets[b].of = u.of
                       /\ t.removedAt[b] = 0
    BY <1>1, <1>2 DEF Shown
  <2>2. b \notin taken => t.removedAt[b] = removedAt[b] BY <1>1
  <2>3. b \notin taken /\ b \in left \ removed => b \in Shown(t) /\ t.rates.buckets[b] = bucket[b]
    BY <1>1, <1>4 DEF Shown
  <2>4. b \notin taken /\ b \notin left \ removed => b \notin Shown(t) BY <1>1 DEF Shown, NoBucket
  <2>5. \A c \in CollectionsOf(b) : t.listAt[c] = IF c \in lists THEN u.at ELSE s.listAt[c] BY <1>1, <1>3
  <2>6. removedAt[b] = IF b \in removed THEN u.at ELSE s.removedAt[b] OBVIOUS
  <2>7. b \in removed <=> /\ b \in u.removed /\ u.at >= s.replacedAt /\ u.at >= s.removedAt[b]
                          /\ b \in left => u.at >= bucket[b].at
    BY DEF removed
  <2>8. b \in left <=> b \in Shown(s) /\ (CollectionsOf(b) \cap lists # {} => bucket[b].at > u.at) BY DEF left
  <2>9. b \in taken <=> /\ b \in u.has /\ u.at >= s.replacedAt /\ u.at >= removedAt[b]
                        /\ \A c \in CollectionsOf(b) : u.at >= t.listAt[c]
                        /\ b \in left \ removed => u.at >= bucket[b].at
    BY <1>1 DEF taken
  <2> QED BY <2>1, <2>2, <2>3, <2>4, <2>5, <2>6, <2>7, <2>8, <2>9
<1>6. \A c \in lists : c \in u.lists /\ u.at >= s.replacedAt /\ u.at >= s.listAt[c] OBVIOUS
<1>7. \A c \in u.lists : c \in lists \/ u.at < s.replacedAt \/ u.at < s.listAt[c] BY <1>2
<1> HIDE DEF taken, removed, removedAt, left, listAt, lists, bucket
<1>8. ASSUME NEW b \in Buckets
      PROVE  BucketTrue(t, U \cup {u}, b)
  <2> DEFINE at == u.at
             acts == b \in removed \/ CollectionsOf(b) \cap lists # {}
  <2>1. BucketTrue(s, U, b) /\ b \in Buckets /\ CollectionsOf(b) \subseteq Collections BY <1>3 DEF StoreTrue
  <2>2. /\ t.removedAt[b] \in Nat /\ removedAt[b] \in Nat /\ removedAt[b] >= s.removedAt[b]
        /\ \A c \in CollectionsOf(b) : s.listAt[c] \in Nat /\ t.listAt[c] \in Nat /\ t.listAt[c] >= s.listAt[c]
    BY <1>2, <1>3, <1>5, <1>6
  <2>3. CASE b \in taken
    <3>1. b \in Shown(t) /\ t.rates.buckets[b].at = at /\ t.removedAt[b] = 0 /\ b \in u.has
          /\ at >= s.replacedAt /\ at >= removedAt[b] /\ \A c \in CollectionsOf(b) : at >= t.listAt[c]
      BY <1>5, <2>3
    <3>2. Floors(t, b, at) BY <1>1, <1>2, <3>1 DEF Floors
    <3>3. b \in Shown(s) => s.rates.buckets[b].at <= at BY <1>2, <1>5, <2>3 DEF bucket
    <3>4. Bounded(t, U \cup {u}, b)
      <4> SUFFICES ASSUME NEW v \in U, TellsOf(v, b) \/ TellsGone(v, b)
                   PROVE  v.at <= at
        BY <1>2, <3>1 DEF Bounded
      <4>1. \/ v.at <= s.replacedAt \/ v.at <= s.removedAt[b]
            \/ \E c \in CollectionsOf(b) : v.at <= s.listAt[c]
            \/ b \in Shown(s) /\ v.at <= s.rates.buckets[b].at
        BY <2>1 DEF BucketTrue, Bounded
      <4> QED BY <1>2, <2>2, <3>1, <3>3, <4>1 DEF bucket
    <3> QED BY <3>1, <3>2, <3>4 DEF BucketTrue, TellsOf
  <2>4. CASE b \notin taken /\ b \in left \ removed
    <3>1. /\ b \in Shown(t) /\ t.rates.buckets[b] = s.rates.buckets[b] /\ t.removedAt[b] = s.removedAt[b]
          /\ b \in Shown(s) /\ removedAt[b] = s.removedAt[b]
      BY <1>5, <2>4 DEF bucket
    <3>2. Floors(s, b, s.rates.buckets[b].at) /\ \E v \in U : TellsOf(v, b) /\ v.at = s.rates.buckets[b].at
      BY <2>1, <3>1 DEF BucketTrue
    <3>3. \A c \in CollectionsOf(b) : c \in lists => s.rates.buckets[b].at > at BY <1>5, <2>4 DEF bucket
    <3>4. Floors(t, b, s.rates.buckets[b].at) BY <1>1, <1>2, <1>5, <3>1, <3>2, <3>3 DEF Floors, bucket
    <3>5. \A v \in U : TellsOf(v, b) \/ TellsGone(v, b) =>
              \/ v.at <= t.replacedAt \/ v.at <= t.removedAt[b]
              \/ \E c \in CollectionsOf(b) : v.at <= t.listAt[c]
              \/ b \in Shown(t) /\ v.at <= t.rates.buckets[b].at
      <4> SUFFICES ASSUME NEW v \in U, TellsOf(v, b) \/ TellsGone(v, b)
                   PROVE  \/ v.at <= t.replacedAt \/ v.at <= t.removedAt[b]
                          \/ \E c \in CollectionsOf(b) : v.at <= t.listAt[c]
                          \/ v.at <= t.rates.buckets[b].at
        BY <3>1
      <4>1. \/ v.at <= s.replacedAt \/ v.at <= s.removedAt[b]
            \/ \E c \in CollectionsOf(b) : v.at <= s.listAt[c]
            \/ b \in Shown(s) /\ v.at <= s.rates.buckets[b].at
        BY <2>1 DEF BucketTrue, Bounded
      <4> QED BY <1>1, <1>2, <2>2, <3>1, <4>1
    <3>6. TellsOf(u, b) => \/ at <= t.replacedAt \/ at <= t.removedAt[b]
                           \/ \E c \in CollectionsOf(b) : at <= t.listAt[c]
                           \/ at <= t.rates.buckets[b].at
      BY <1>1, <1>2, <1>5, <2>2, <2>4, <3>1 DEF TellsOf, bucket
    <3>7. TellsGone(u, b) => \/ at <= t.replacedAt \/ at <= t.removedAt[b]
                             \/ \E c \in CollectionsOf(b) : at <= t.listAt[c]
                             \/ at <= t.rates.buckets[b].at
      <4>1. CASE b \in u.removed BY <1>1, <1>2, <1>5, <2>4, <3>1, <4>1 DEF bucket
      <4>2. ASSUME NEW c \in CollectionsOf(b), c \in u.lists
            PROVE  \/ at <= t.replacedAt \/ at <= t.listAt[c] \/ at <= t.rates.buckets[b].at
        BY <1>1, <1>2, <1>7, <2>2, <3>1, <3>3, <4>2 DEF bucket
      <4> QED BY <4>1, <4>2 DEF TellsGone
    <3>8. Bounded(t, U \cup {u}, b) BY <3>1, <3>5, <3>6, <3>7 DEF Bounded
    <3> QED BY <3>1, <3>2, <3>4, <3>8 DEF BucketTrue
  <2>5. CASE b \notin taken /\ b \notin left \ removed
    <3>1. b \notin Shown(t) /\ t.removedAt[b] = removedAt[b] BY <1>5, <2>5
    <3>2. \A v \in U : TellsOf(v, b) \/ TellsGone(v, b) =>
              \/ v.at <= t.replacedAt \/ v.at <= t.removedAt[b]
              \/ \E c \in CollectionsOf(b) : v.at <= t.listAt[c]
      <4> SUFFICES ASSUME NEW v \in U, TellsOf(v, b) \/ TellsGone(v, b)
                   PROVE  \/ v.at <= t.replacedAt \/ v.at <= t.removedAt[b]
                          \/ \E c \in CollectionsOf(b) : v.at <= t.listAt[c]
        OBVIOUS
      <4>1. \/ v.at <= s.replacedAt \/ v.at <= s.removedAt[b]
            \/ \E c \in CollectionsOf(b) : v.at <= s.listAt[c]
            \/ b \in Shown(s) /\ v.at <= s.rates.buckets[b].at
        BY <2>1 DEF BucketTrue, Bounded
      <4>2. CASE b \in Shown(s) /\ v.at <= s.rates.buckets[b].at
        <5>1. CASE b \in removed /\ b \in left BY <1>2, <1>5, <3>1, <4>2, <5>1 DEF bucket
        <5>2. CASE b \notin left
          <6>1. PICK c \in CollectionsOf(b) : c \in lists /\ s.rates.buckets[b].at <= at
            BY <1>2, <1>5, <4>2, <5>2 DEF bucket
          <6> QED BY <1>2, <1>5, <4>2, <6>1 DEF bucket
        <5> QED BY <2>5, <5>1, <5>2
      <4> QED BY <1>1, <1>2, <2>2, <3>1, <4>1, <4>2
    <3>3. TellsOf(u, b) => \/ at <= t.replacedAt \/ at <= t.removedAt[b]
                           \/ \E c \in CollectionsOf(b) : at <= t.listAt[c]
      BY <1>1, <1>2, <1>5, <2>2, <2>5, <3>1 DEF TellsOf
    <3>4. TellsGone(u, b) => \/ at <= t.replacedAt \/ at <= t.removedAt[b]
                             \/ \E c \in CollectionsOf(b) : at <= t.listAt[c]
      <4>1. CASE b \in u.removed BY <1>1, <1>2, <1>5, <2>5, <3>1, <4>1
      <4>2. ASSUME NEW c \in CollectionsOf(b), c \in u.lists
            PROVE  at <= t.replacedAt \/ at <= t.listAt[c]
        BY <1>1, <1>2, <1>5, <1>7, <2>2, <4>2
      <4> QED BY <4>1, <4>2 DEF TellsGone
    <3>5. Bounded(t, U \cup {u}, b) BY <3>2, <3>3, <3>4 DEF Bounded
    <3>6. CASE acts /\ Floors(t, b, at)
      BY <1>1, <1>2, <1>5, <2>5, <3>1, <3>6, <1>6, <3>5 DEF Floors, TellsGone, BucketTrue
    <3>7. CASE ~(acts /\ Floors(t, b, at))
      <4>1. CASE acts
        <5>1. at >= s.replacedAt BY <1>5, <1>6, <4>1
        <5>2. \/ s.removedAt[b] > at
              \/ \E c \in CollectionsOf(b) : s.listAt[c] > at
          BY <1>1, <1>2, <1>5, <2>2, <3>1, <3>7, <4>1, <5>1 DEF Floors
        <5>3. b \notin Shown(s)
          <6> SUFFICES ASSUME b \in Shown(s)
                       PROVE  FALSE
            OBVIOUS
          <6>1. Floors(s, b, s.rates.buckets[b].at) BY <2>1 DEF BucketTrue
          <6>2. s.rates.buckets[b].at > at BY <1>2, <2>2, <5>2, <6>1 DEF Floors, bucket
          <6> QED BY <1>2, <1>5, <2>5, <6>2 DEF bucket
        <5>4. PICK v \in U : TellsGone(v, b) /\ Floors(s, b, v.at)
          BY <1>2, <2>1, <2>2, <5>2, <5>3 DEF BucketTrue, Floors
        <5>5. v.at > at BY <1>2, <2>2, <5>2, <5>4 DEF Floors
        <5>6. Floors(t, b, v.at) BY <1>1, <1>2, <1>5, <3>1, <5>4, <5>5 DEF Floors
        <5> QED BY <3>1, <3>5, <5>4, <5>6 DEF BucketTrue
      <4>2. CASE ~acts BY <1>5, <3>1, <4>2, <2>5, <1>1, <1>2, <2>1, <3>5 DEF Floors, BucketTrue
      <4> QED BY <4>1, <4>2
    <3> QED BY <3>6, <3>7
  <2> QED BY <2>3, <2>4, <2>5
<1>9. \A v \in U \cup {u} : v.at <= t.rates.at BY <1>1, <1>2 DEF StoreTrue
<1>10. StoreTrue(t, U \cup {u}) BY <1>1, <1>8, <1>9 DEF StoreTrue
<1>11. \A b \in Shown(t) : \/ t.rates.buckets[b].of = u.of
                           \/ b \in Shown(s) /\ t.rates.buckets[b].of = s.rates.buckets[b].of
  <2> SUFFICES ASSUME NEW b \in Shown(t)
               PROVE  \/ t.rates.buckets[b].of = u.of
                      \/ b \in Shown(s) /\ t.rates.buckets[b].of = s.rates.buckets[b].of
    OBVIOUS
  <2>1. b \in Buckets BY DEF Shown
  <2> QED BY <1>5, <2>1 DEF bucket
<1> QED BY <1>10, <1>11 DEF t

\* What a snapshot of the capacity is made of.
LEMMA StoreAlike ==
    ASSUME NEW s, NEW t, NEW U, t.rates = s.rates, t.replacedAt = s.replacedAt, t.listAt = s.listAt,
           t.removedAt = s.removedAt
    PROVE  /\ StoreTrue(s, U) => StoreTrue(t, U)
           /\ Shown(t) = Shown(s)
BY DEF StoreTrue, BucketTrue, Bounded, Floors, Shown

LEMMA MergedTypes ==
    ASSUME NEW s \in Stores, NEW u \in Updates
    PROVE  Merged(s, u) \in Stores /\ Merged(s, u).closed = s.closed /\ Merged(s, u).context = s.context
           /\ Merged(s, u).invalid = s.invalid /\ Merged(s, u).contextSupport = s.contextSupport
           /\ Merged(s, u).rates.there = TRUE
           /\ (u.at <= 1 /\ s.rates.at <= 1 => Merged(s, u).rates.at <= 1)
<1> DEFINE bucket == s.rates.buckets
           lists == {c \in u.lists : u.at >= s.replacedAt /\ u.at >= s.listAt[c]}
           listAt == [c \in Collections |-> IF c \in lists THEN u.at ELSE s.listAt[c]]
           left == {b \in Shown(s) : CollectionsOf(b) \cap lists # {} => bucket[b].at > u.at}
           removed == {b \in u.removed : /\ u.at >= s.replacedAt /\ u.at >= s.removedAt[b]
                                         /\ b \in left => u.at >= bucket[b].at}
           removedAt == [b \in Buckets |-> IF b \in removed THEN u.at ELSE s.removedAt[b]]
           taken == {b \in u.has : /\ u.at >= s.replacedAt /\ u.at >= removedAt[b]
                                   /\ \A c \in CollectionsOf(b) : u.at >= listAt[c]
                                   /\ b \in left \ removed => u.at >= bucket[b].at}
           newer == u.at >= s.rates.at
           forgets == [b \in Buckets |-> IF b \in taken THEN 0 ELSE removedAt[b]]
           rates == [there |-> TRUE,
                     id |-> IF newer /\ u.id # 0 THEN u.id ELSE s.rates.id,
                     at |-> IF newer THEN u.at ELSE s.rates.at,
                     buckets |-> [b \in Buckets |-> IF b \in taken THEN [at |-> u.at, of |-> u.of]
                                                    ELSE IF b \in left \ removed THEN bucket[b] ELSE NoBucket]]
<1>1. Merged(s, u) = [s EXCEPT !.listAt = listAt, !.removedAt = forgets, !.rates = rates] BY DEF Merged
<1> HIDE DEF left, removed, taken, lists, newer
<1>2. listAt \in [Collections -> Nat] /\ removedAt \in [Buckets -> Nat] BY StoreFields, UpdateFields
<1>3. forgets \in [Buckets -> Nat] BY <1>2
<1>4. rates \in RateSnapshots BY StoreFields, UpdateFields DEF NoBucket, RateSnapshots
<1>5. rates.there = TRUE /\ (u.at <= 1 /\ s.rates.at <= 1 => rates.at <= 1) OBVIOUS
<1> HIDE DEF listAt, forgets, rates, removedAt
<1> QED BY <1>1, <1>2, <1>3, <1>4, <1>5 DEF Stores

LEMMA TakesWholeTypes ==
    ASSUME NEW s \in Stores, NEW u \in Updates
    PROVE  TakesWhole(s, u) \in Stores /\ TakesWhole(s, u).closed = s.closed
           /\ TakesWhole(s, u).context = s.context
           /\ TakesWhole(s, u).invalid = s.invalid /\ TakesWhole(s, u).contextSupport = s.contextSupport
           /\ TakesWhole(s, u).rates.there = TRUE
           /\ (u.at <= 1 /\ s.rates.at <= 1 => TakesWhole(s, u).rates.at <= 1)
<1> DEFINE rates == [there |-> TRUE, id |-> u.id, at |-> u.at,
                     buckets |-> [b \in Buckets |-> IF b \in u.has THEN [at |-> u.at, of |-> u.of] ELSE NoBucket]]
           replacedAt == IF u.mode = "replace" THEN u.at ELSE 0
           listAt == [c \in Collections |-> IF c \in u.lists THEN u.at ELSE 0]
           removedAt == [b \in Buckets |-> IF b \in u.removed THEN u.at ELSE 0]
<1>1. TakesWhole(s, u) = [s EXCEPT !.rates = rates, !.replacedAt = replacedAt, !.listAt = listAt,
                                   !.removedAt = removedAt]
  BY DEF TakesWhole
<1>2. listAt \in [Collections -> Nat] /\ removedAt \in [Buckets -> Nat] /\ replacedAt \in Nat BY UpdateFields
<1>3. rates \in RateSnapshots BY UpdateFields DEF NoBucket, RateSnapshots
<1>4. rates.there = TRUE /\ rates.at = u.at OBVIOUS
<1> HIDE DEF listAt, replacedAt, rates, removedAt
<1> QED BY <1>1, <1>2, <1>3, <1>4 DEF Stores

LEMMA UpdateRatesTypes ==
    ASSUME NEW s \in Stores, NEW u \in Updates
    PROVE  /\ UpdateRates(s, u) \in Stores /\ UpdateRates(s, u).closed = s.closed
           /\ UpdateRates(s, u).context = s.context /\ UpdateRates(s, u).invalid = s.invalid
           /\ UpdateRates(s, u).contextSupport = s.contextSupport
           /\ (u.at <= 1 /\ s.rates.at <= 1 => UpdateRates(s, u).rates.at <= 1)
<1>1. CASE s.closed \/ Outdated(s, u) BY <1>1 DEF UpdateRates
<1>2. CASE ~(s.closed \/ Outdated(s, u))
  <2> DEFINE t == IF u.mode = "merge" /\ s.rates.there /\ ~ScopeChanged(s, u)
                  THEN Merged(s, u) ELSE TakesWhole(s, u)
  <2>1. /\ t \in Stores /\ t.closed = s.closed /\ t.context = s.context /\ t.invalid = s.invalid
        /\ t.contextSupport = s.contextSupport /\ (u.at <= 1 /\ s.rates.at <= 1 => t.rates.at <= 1)
    BY MergedTypes, TakesWholeTypes
  <2>2. UpdateRates(s, u) = [t EXCEPT !.rateSupport = "supported", !.unavailable = FALSE]
    BY <1>2 DEF UpdateRates
  <2> HIDE DEF t
  <2> QED BY <2>1, <2>2 DEF Stores, Supports
<1> QED BY <1>1, <1>2

\* updateRates(): what is shown is true of one more update, or of this one alone if it is
\* of another account.
LEMMA UpdateRatesIsTrue ==
    ASSUME NEW s \in Stores, NEW u \in Updates, NEW U \in SUBSET Updates, StoreTrue(s, U),
           ~s.closed, ~Outdated(s, u)
    PROVE  /\ StoreTrue(UpdateRates(s, u), IF ScopeChanged(s, u) THEN {u} ELSE U \cup {u})
           /\ \A b \in Shown(UpdateRates(s, u)) :
                  \/ UpdateRates(s, u).rates.buckets[b].of = u.of
                  \/ b \in Shown(s) /\ UpdateRates(s, u).rates.buckets[b].of = s.rates.buckets[b].of
<1> DEFINE t == IF u.mode = "merge" /\ s.rates.there /\ ~ScopeChanged(s, u)
                THEN Merged(s, u) ELSE TakesWhole(s, u)
           V == IF ScopeChanged(s, u) THEN {u} ELSE U \cup {u}
<1>1. UpdateRates(s, u) = [t EXCEPT !.rateSupport = "supported", !.unavailable = FALSE] /\ t \in Stores
  BY MergedTypes, TakesWholeTypes DEF UpdateRates
<1>2. /\ StoreTrue(t, V)
      /\ \A b \in Shown(t) : \/ t.rates.buckets[b].of = u.of
                             \/ b \in Shown(s) /\ t.rates.buckets[b].of = s.rates.buckets[b].of
  <2>1. CASE u.mode = "merge" /\ s.rates.there /\ ~ScopeChanged(s, u) BY <2>1, MergedIsTrue
  <2>2. CASE ScopeChanged(s, u) \/ ~s.rates.there
    <3>1. V = {u} BY <2>2 DEF StoreTrue, ScopeChanged
    <3>2. /\ StoreTrue(TakesWhole(s, u), V)
          /\ \A b \in Shown(TakesWhole(s, u)) : TakesWhole(s, u).rates.buckets[b].of = u.of
      BY <3>1, TakesWholeIsTrue, UpdateFields
    <3> QED BY <2>2, <3>2
  <2>3. CASE u.mode = "replace" /\ ~ScopeChanged(s, u) /\ s.rates.there
    <3>1. s.rates.at <= u.at BY <2>3, StoreFields, UpdateFields DEF Outdated
    <3>2. V = U \cup {u} /\ \A v \in V : v.at <= u.at BY <2>3, <3>1, StoreFields, UpdateFields DEF StoreTrue
    <3>3. /\ StoreTrue(TakesWhole(s, u), V)
          /\ \A b \in Shown(TakesWhole(s, u)) : TakesWhole(s, u).rates.buckets[b].of = u.of
      BY <2>3, <3>2, TakesWholeIsTrue
    <3> QED BY <2>3, <3>3
  <2> QED BY <2>1, <2>2, <2>3, UpdateFields
<1> HIDE DEF t, V
<1>3. /\ UpdateRates(s, u).rates = t.rates /\ UpdateRates(s, u).replacedAt = t.replacedAt
      /\ UpdateRates(s, u).listAt = t.listAt /\ UpdateRates(s, u).removedAt = t.removedAt
  BY <1>1 DEF Stores
<1>4. StoreTrue(UpdateRates(s, u), V) /\ Shown(UpdateRates(s, u)) = Shown(t) BY <1>2, <1>3, StoreAlike
<1> QED BY <1>2, <1>3, <1>4 DEF V

\* What the invariant of the store is for.
LEMMA StoreTrueGives == TeleTypes /\ StoreTrue(tele, known.updates) => NewestWins
<1> SUFFICES ASSUME TeleTypes, StoreTrue(tele, known.updates), tele.rates.there, NEW b \in Buckets
             PROVE  LET times == {u.at : u \in {v \in known.updates : TellsOf(v, b) \/ TellsGone(v, b)}}
                        newest == {u \in known.updates : u.at = Max(times)}
                    IN  IF times = {} THEN b \notin Shown(tele)
                        ELSE IF b \in Shown(tele)
                        THEN tele.rates.buckets[b].at = Max(times) /\ \E u \in newest : TellsOf(u, b)
                        ELSE \E u \in newest : TellsGone(u, b)
  BY DEF NewestWins
<1> DEFINE times == {u.at : u \in {v \in known.updates : TellsOf(v, b) \/ TellsGone(v, b)}}
           newest == {u \in known.updates : u.at = Max(times)}
<1>1. /\ tele \in Stores /\ known.updates \subseteq Updates
      /\ \A v \in known.updates : v.at \in Nat /\ v.at > 0
  BY UpdateFields DEF TeleTypes, Knowledge
<1>2. times \subseteq Nat /\ \A n \in times : n > 0 BY <1>1
<1>3. ASSUME NEW m \in times, \A n \in times : n <= m
      PROVE  Max(times) = m
  BY <1>2, <1>3 DEF Max
<1>4. BucketTrue(tele, known.updates, b) BY DEF StoreTrue
<1>5. /\ tele.replacedAt \in Nat /\ tele.removedAt[b] \in Nat /\ tele.rates.buckets[b].at \in Nat
      /\ \A c \in CollectionsOf(b) : tele.listAt[c] \in Nat
  BY <1>1, StoreFields DEF CollectionsOf
<1>6. \A n \in times : \/ n <= tele.replacedAt \/ n <= tele.removedAt[b]
                       \/ \E c \in CollectionsOf(b) : n <= tele.listAt[c]
                       \/ b \in Shown(tele) /\ n <= tele.rates.buckets[b].at
  BY <1>4 DEF BucketTrue, Bounded
<1>7. \A v \in known.updates : TellsOf(v, b) \/ TellsGone(v, b) => v.at \in times OBVIOUS
<1>8. CASE b \in Shown(tele)
  <2>1. PICK v \in known.updates : TellsOf(v, b) /\ v.at = tele.rates.buckets[b].at BY <1>4, <1>8 DEF BucketTrue
  <2>2. Floors(tele, b, v.at) BY <1>4, <1>8, <2>1 DEF BucketTrue
  <2>3. v.at \in times BY <1>7, <2>1
  <2>4. \A n \in times : n <= v.at
    <3> HIDE DEF times
    <3> QED BY <1>1, <1>2, <1>5, <1>6, <2>1, <2>2 DEF Floors
  <2>5. Max(times) = v.at BY <1>3, <2>3, <2>4
  <2> QED BY <1>8, <2>1, <2>3, <2>5
<1>9. CASE b \notin Shown(tele)
  <2>1. CASE Floors(tele, b, 0)
    <3>1. times = {}
      <4> HIDE DEF times
      <4>1. ASSUME NEW n \in times
            PROVE  n <= 0
        BY <1>6, <1>9, <2>1, <1>2, <1>5 DEF Floors
      <4> QED BY <1>2, <4>1
    <3> QED BY <1>9, <3>1
  <2>2. CASE ~Floors(tele, b, 0)
    <3>1. PICK v \in known.updates : TellsGone(v, b) /\ Floors(tele, b, v.at) BY <1>4, <1>9, <2>2 DEF BucketTrue
    <3>2. v.at \in times BY <1>7, <3>1
    <3>3. \A n \in times : n <= v.at
      <4> HIDE DEF times
      <4> QED BY <1>1, <1>2, <1>5, <1>6, <1>9, <3>1 DEF Floors
    <3>4. Max(times) = v.at BY <1>3, <3>2, <3>3
    <3> QED BY <1>9, <3>1, <3>2, <3>4
  <2> QED BY <2>1, <2>2
<1> QED BY <1>8, <1>9

-----------------------------------------------------------------------------
(* Telemetry: lines                                                        *)

LEMMA RuntimeLineFields ==
    ASSUME NEW l \in RuntimeLines
    PROVE  /\ l.kind \in {"auth", "compacted", "model", "result", "rates", "answer"}
           /\ l.kind = "rates" => l.update \in Updates
           /\ l.kind = "answer" => l \in AnswerLines
BY DEF RuntimeLines, AnswerLines

LEMMA AnswerFields ==
    ASSUME NEW l \in AnswerLines
    PROVE  /\ l.kind = "answer" /\ l.what \in Whats /\ l.id \in Nat /\ l.of \in Nat /\ l.changes \in Nat
           /\ l.how \in Outcomes /\ l \in Heard
BY DEF AnswerLines, Heard

LEMMA CountsMore ==
    ASSUME NEW s \in Seq(RuntimeLines), NEW l \in RuntimeLines, NEW sorts, NEW last \in Nat, NEW f,
           Counts(s, f, sorts, last), NEW more \in Nat,
           l.kind \in sorts => more = last + 1, l.kind \notin sorts => more = last
    PROVE  \E g \in [0..Len(Append(s, l)) -> Nat] :
               /\ Counts(Append(s, l), g, sorts, more)
               /\ \A i \in 0..Len(s) : g[i] = f[i]
<1> DEFINE t == Append(s, l)
           g == [i \in 0..Len(t) |-> IF i <= Len(s) THEN f[i] ELSE more]
<1>1. /\ Len(s) \in Nat /\ Len(t) = Len(s) + 1 /\ t[Len(s) + 1] = l /\ more \in Nat /\ last <= more
      /\ \A i \in 1..Len(s) : t[i] = s[i]
  OBVIOUS
<1>2. /\ f \in [0..Len(s) -> Nat] /\ f[Len(s)] = last
      /\ \A i \in 0..Len(s) : f[i] <= last
      /\ \A i \in 1..Len(s) : f[i] = f[i - 1] + (IF s[i].kind \in sorts THEN 1 ELSE 0)
  BY DEF Counts
<1> HIDE DEF t
<1>3. g \in [0..Len(t) -> Nat] /\ g[Len(t)] = more /\ \A i \in 0..Len(s) : g[i] = f[i] BY <1>1, <1>2
<1>4. \A i \in 0..Len(t) : g[i] <= more BY <1>1, <1>2
<1>5. ASSUME NEW i \in 1..Len(t)
      PROVE  g[i] = g[i - 1] + (IF t[i].kind \in sorts THEN 1 ELSE 0)
  <2>1. CASE i <= Len(s)
    <3>1. i \in 1..Len(s) /\ i - 1 \in 0..Len(s) /\ i \in 0..Len(s) BY <1>1, <2>1
    <3> HIDE DEF g
    <3> QED BY <1>1, <1>2, <1>3, <3>1
  <2>2. CASE i = Len(s) + 1
    <3>1. g[i] = more /\ g[i - 1] = last /\ t[i] = l BY <1>1, <1>2, <2>2
    <3> HIDE DEF g
    <3> QED BY <1>1, <3>1
  <2> QED BY <1>1, <2>1, <2>2
<1> HIDE DEF g
<1>6. Counts(t, g, sorts, more) BY <1>3, <1>4, <1>5 DEF Counts
<1> QED BY <1>1, <1>3, <1>6 DEF t

LEMMA CountsLess ==
    ASSUME NEW s \in Seq(RuntimeLines), s # << >>, NEW sorts, NEW last \in Nat, NEW f, Counts(s, f, sorts, last)
    PROVE  \E g \in [0..Len(Tail(s)) -> Nat] :
               /\ Counts(Tail(s), g, sorts, last)
               /\ g[0] = f[0] + (IF Head(s).kind \in sorts THEN 1 ELSE 0)
               /\ \A i \in 0..Len(Tail(s)) : g[i] = f[i + 1]
<1> DEFINE t == Tail(s)
           g == [i \in 0..Len(t) |-> f[i + 1]]
<1>1. /\ Len(s) \in Nat \ {0} /\ Len(t) = Len(s) - 1 /\ s[1] = Head(s) /\ \A i \in 1..Len(t) : t[i] = s[i + 1]
  OBVIOUS
<1>2. /\ f \in [0..Len(s) -> Nat] /\ f[Len(s)] = last
      /\ \A i \in 0..Len(s) : f[i] <= last
      /\ \A i \in 1..Len(s) : f[i] = f[i - 1] + (IF s[i].kind \in sorts THEN 1 ELSE 0)
  BY DEF Counts
<1> HIDE DEF t
<1>3. g \in [0..Len(t) -> Nat] /\ g[Len(t)] = last /\ \A j \in 0..Len(t) : g[j] <= last /\ g[j] = f[j + 1]
  BY <1>1, <1>2
<1>4. ASSUME NEW i \in 1..Len(t)
      PROVE  g[i] = g[i - 1] + (IF t[i].kind \in sorts THEN 1 ELSE 0)
  <2>1. g[i] = f[i + 1] /\ g[i - 1] = f[i] /\ i + 1 \in 1..Len(s) /\ (i + 1) - 1 = i BY <1>1, <1>3
  <2>2. f[i + 1] = f[(i + 1) - 1] + (IF s[i + 1].kind \in sorts THEN 1 ELSE 0) BY <1>2, <2>1
  <2> QED BY <1>1, <2>1, <2>2
<1>5. g[0] = f[0] + (IF Head(s).kind \in sorts THEN 1 ELSE 0) BY <1>1, <1>3, <1>2
<1> HIDE DEF g
<1>6. Counts(t, g, sorts, last) BY <1>3, <1>4 DEF Counts
<1> QED BY <1>3, <1>5, <1>6 DEF t

\* The runtime is ahead of what the session knows.
LEMMA RuntimeAhead ==
    ASSUME TeleTypes, AccountsInv, ChangesInv
    PROVE  known.account <= runtime.account /\ known.changes <= runtime.changes
<1>1. PICK f \in [0..Len(stdout) -> Nat] : Counts(stdout, f, {"auth"}, runtime.account) /\ known.account <= f[0]
  BY DEF AccountsInv
<1>2. PICK g \in [0..Len(stdout) -> Nat] :
          Counts(stdout, g, {"compacted", "model"}, runtime.changes) /\ known.changes <= g[0]
  BY DEF ChangesInv
<1>3. 0 \in 0..Len(stdout) /\ known.account \in Nat /\ known.changes \in Nat
      /\ runtime.account \in Nat /\ runtime.changes \in Nat
  BY DEF TeleTypes, Knowledge, Runtimes
<1>4. f[0] <= runtime.account /\ f[0] \in Nat BY <1>1, <1>3 DEF Counts
<1>5. g[0] <= runtime.changes /\ g[0] \in Nat BY <1>2, <1>3 DEF Counts
<1> QED BY <1>1, <1>2, <1>3, <1>4, <1>5

\* An id that is free.
LEMMA FreshIdIsFresh ==
    ASSUME TeleTypes
    PROVE  FreshId \in Nat /\ FreshId \notin InUse
<1> DEFINE A == {r.id : r \in runtime.asked}
           D == {m \in DOMAIN stdout : stdout[m].kind = "answer"}
           B == {stdout[n].id : n \in D}
           n == Cardinality(InUse)
<1>1. IsFiniteSet(A)
  <2>1. IsFiniteSet(runtime.asked) BY DEF TeleTypes
  <2>2. [r \in runtime.asked |-> r.id] \in Surjection(runtime.asked, A) BY DEF Surjection
  <2> HIDE DEF A
  <2> QED BY <2>1, <2>2, FS_Surjection
<1>2. IsFiniteSet(B)
  <2>1. Len(stdout) \in Nat /\ DOMAIN stdout = 1..Len(stdout) /\ 1 \in Int BY DEF TeleTypes
  <2>2. IsFiniteSet(DOMAIN stdout) BY <2>1, FS_Interval
  <2>3. IsFiniteSet(D) BY <2>2, FS_Subset
  <2>4. [m \in D |-> stdout[m].id] \in Surjection(D, B)
    <3> HIDE DEF D
    <3> QED BY DEF Surjection
  <2> HIDE DEF D, B
  <2> QED BY <2>3, <2>4, FS_Surjection
<1>3. IsFiniteSet(InUse)
  <2>1. InUse = A \cup B BY DEF InUse
  <2> HIDE DEF A, B
  <2> QED BY <1>1, <1>2, <2>1, FS_Union
<1>4. n \in Nat BY <1>3, FS_CardinalityType
<1>5. \E i \in 1..(n + 1) : i \notin InUse
  <2> SUFFICES ASSUME 1..(n + 1) \subseteq InUse
               PROVE  FALSE
    OBVIOUS
  <2>1. Cardinality(1..(n + 1)) <= n BY <1>3, FS_Subset
  <2>2. 1 \in Int /\ n + 1 \in Int BY <1>4
  <2>3. Cardinality(1..(n + 1)) = n + 1
    <3> HIDE DEF n
    <3> QED BY <1>4, <2>2, FS_Interval
  <2> QED BY <1>4, <2>1, <2>3
<1>6. FreshId \in 1..(n + 1) /\ FreshId \notin InUse BY <1>5 DEF FreshId
<1> QED BY <1>4, <1>6

-----------------------------------------------------------------------------
(* Telemetry: the runtime's steps                                          *)

\* The counts go on.
LEMMA AccountsTold ==
    ASSUME AccountsInv, stdout \in Seq(RuntimeLines), runtime.account \in Nat, NEW l \in RuntimeLines,
           stdout' = Append(stdout, l), UNCHANGED known,
           (runtime.account)' = runtime.account + (IF l.kind \in {"auth"} THEN 1 ELSE 0),
           l.kind = "rates" => l.update.of = runtime.account
    PROVE  AccountsInv'
<1>1. /\ Len(stdout) \in Nat /\ Len(stdout') = Len(stdout) + 1
      /\ DOMAIN stdout = 1..Len(stdout) /\ DOMAIN stdout' = 1..(Len(stdout) + 1)
      /\ stdout'[Len(stdout) + 1] = l
      /\ \A i \in DOMAIN stdout : stdout'[i] = stdout[i]
  OBVIOUS
<1>2. PICK f \in [0..Len(stdout) -> Nat] :
          /\ Counts(stdout, f, {"auth"}, runtime.account) /\ known.account <= f[0]
          /\ \A i \in DOMAIN stdout : stdout[i].kind = "rates" => stdout[i].update.of >= f[i]
  BY DEF AccountsInv
<1> DEFINE signedIn == {"auth"}
           last == runtime.account
           more == (runtime.account)'
<1>3. /\ (l.kind \in signedIn => more = last + 1) /\ (l.kind \notin signedIn => more = last) /\ last \in Nat /\ more \in Nat
      /\ Counts(stdout, f, signedIn, last)
  BY <1>2
<1> HIDE DEF signedIn, last, more
<1>4. PICK g \in [0..Len(Append(stdout, l)) -> Nat] :
          /\ Counts(Append(stdout, l), g, signedIn, more)
          /\ \A i \in 0..Len(stdout) : g[i] = f[i]
  BY <1>3, CountsMore
<1>5. g[0] = f[0] /\ g[Len(stdout) + 1] = more BY <1>1, <1>4 DEF Counts
<1>6. ASSUME NEW i \in DOMAIN stdout', stdout'[i].kind = "rates"
      PROVE  stdout'[i].update.of >= g[i]
  <2>1. CASE i \in DOMAIN stdout BY <1>1, <1>2, <1>4, <1>6, <2>1
  <2>2. CASE i = Len(stdout) + 1 BY <1>1, <1>3, <1>6, <2>2, <1>5 DEF signedIn, last
  <2> QED BY <1>1, <2>1, <2>2
<1>7. Counts(stdout', g, {"auth"}, (runtime.account)') /\ g \in [0..Len(stdout') -> Nat]
  BY <1>4 DEF signedIn, more
<1> QED BY <1>2, <1>5, <1>6, <1>7 DEF AccountsInv

LEMMA ChangesTold ==
    ASSUME ChangesInv, stdout \in Seq(RuntimeLines), runtime.changes \in Nat, NEW l \in RuntimeLines,
           stdout' = Append(stdout, l), UNCHANGED <<known, tele>>,
           (runtime.changes)' = runtime.changes + (IF l.kind \in {"compacted", "model"} THEN 1 ELSE 0)
    PROVE  ChangesInv'
<1>1. PICK f \in [0..Len(stdout) -> Nat] :
          /\ Counts(stdout, f, {"compacted", "model"}, runtime.changes) /\ known.changes <= f[0]
          /\ ~tele.closed => known.changes = f[0]
  BY DEF ChangesInv
<1> DEFINE sorts == {"compacted", "model"}
           last == runtime.changes
           more == (runtime.changes)'
<1>2. /\ (l.kind \in sorts => more = last + 1) /\ (l.kind \notin sorts => more = last) /\ last \in Nat /\ more \in Nat
      /\ Counts(stdout, f, sorts, last)
  BY <1>1
<1> HIDE DEF sorts, last, more
<1>3. PICK g \in [0..Len(Append(stdout, l)) -> Nat] :
          /\ Counts(Append(stdout, l), g, sorts, more)
          /\ \A i \in 0..Len(stdout) : g[i] = f[i]
  BY <1>2, CountsMore
<1>4. g[0] = f[0] BY <1>3
<1>5. Counts(stdout', g, {"compacted", "model"}, (runtime.changes)') /\ g \in [0..Len(stdout') -> Nat]
  BY <1>3 DEF sorts, more
<1> QED BY <1>1, <1>4, <1>5 DEF ChangesInv

\* The runtime tells something.
LEMMA LineTold ==
    ASSUME TeleInv, NEW l \in RuntimeLines, source # "rows", stdout' = Append(stdout, l),
           UNCHANGED <<tele, source, rateRead, ctxRead, auto, rows, known>>,
           runtime' \in Runtimes, (runtime.asked)' \subseteq runtime.asked,
           (runtime.account)' = runtime.account + (IF l.kind \in {"auth"} THEN 1 ELSE 0),
           (runtime.changes)' = runtime.changes + (IF l.kind \in {"compacted", "model"} THEN 1 ELSE 0),
           l.kind \in {"compacted", "model"} => source = "claude",
           l.kind = "rates" => l.update.of = runtime.account /\ l.update.at = 1 /\ l.update.mode = "merge",
           l.kind = "model" /\ ~FirstReadCrossed => tele.context.at > 0,
           l.kind = "answer" => \E r \in runtime.asked :
                                    r.id = l.id /\ r.of = l.of /\ r.of > 0 /\ r.changes = l.changes
    PROVE  TeleInv'
<1> USE DEF TeleInv
<1>1. /\ Len(stdout) \in Nat /\ Len(stdout') = Len(stdout) + 1 /\ stdout' \in Seq(RuntimeLines)
      /\ DOMAIN stdout = 1..Len(stdout) /\ DOMAIN stdout' = 1..(Len(stdout) + 1)
      /\ stdout'[Len(stdout) + 1] = l
      /\ \A i \in DOMAIN stdout : stdout'[i] = stdout[i]
  BY DEF TeleTypes
<1>2. /\ runtime.account \in Nat /\ runtime.changes \in Nat /\ known.account \in Nat /\ known.changes \in Nat
      /\ (runtime.changes)' \in Nat /\ (runtime.account)' \in Nat
  BY DEF TeleTypes, Runtimes, Knowledge
<1>3. IsFiniteSet((runtime.asked)') BY FS_Subset DEF TeleTypes
<1>4. TeleTypes' BY <1>1, <1>3 DEF TeleTypes
<1>5. SourceInv' BY <1>1 DEF SourceInv
<1>6. AccountsInv' BY <1>2, AccountsTold DEF TeleTypes
<1>7. ChangesInv' BY <1>2, ChangesTold DEF TeleTypes
<1>8. RateReadInv' BY <1>1 DEF RateReadInv
<1>9. CtxReadInv' BY <1>1 DEF CtxReadInv
<1>10. AnswersInv'
  <2>1. runtime.changes <= (runtime.changes)' BY <1>2
  <2>2. /\ \A r \in runtime.asked : r.changes \in Nat
        /\ \A i \in DOMAIN stdout : stdout[i].kind = "answer" => stdout[i].changes \in Nat
        /\ ctxRead.answer.changes \in Nat
    BY RuntimeLineFields, AnswerFields DEF TeleTypes, Runtimes, Demands, ReadRecord, Heard
  <2> QED BY <1>1, <1>2, <2>1, <2>2 DEF AnswersInv
<1>11. StoreTrue(tele, known.updates)' /\ OfThisAccount' /\ ContextIsCurrent'
  BY DEF OfThisAccount, ContextIsCurrent, Shown, ContextFresh
<1>12. ContextInv' BY <1>1 DEF ContextInv
<1>13. ForgetInv'
  <2>1. known.changes <= runtime.changes BY RuntimeAhead
  <2>2. CASE (runtime.changes)' = runtime.changes BY <2>2 DEF ForgetInv, ContextFresh
  <2>3. CASE (runtime.changes)' # runtime.changes BY <1>2, <2>1, <2>3 DEF ForgetInv
  <2> QED BY <2>2, <2>3
<1> QED BY <1>4, <1>5, <1>6, <1>7, <1>8, <1>9, <1>10, <1>11, <1>12, <1>13

LEMMA RuntimeTells ==
    ASSUME TeleInv,
           \/ Switches \/ ResultTold
           \/ \E kind \in {"compacted", "model"} : ContextChanges(kind)
           \/ \E id \in 0..(MaxChanges + 1) : Pushes(id)
           \/ \E r \in runtime.asked, how \in Outcomes : Answers(r, how)
    PROVE  TeleInv'
<1>1. /\ runtime \in Runtimes /\ runtime.account \in Nat \ {0} /\ runtime.changes \in Nat
      /\ runtime.others \in Nat /\ runtime.asked \in SUBSET Demands /\ stdout \in Seq(RuntimeLines)
  BY DEF TeleInv, TeleTypes, Runtimes
<1>2. CASE Switches
  <2>1. Line("auth") \in RuntimeLines /\ Line("auth").kind = "auth" BY DEF Line, RuntimeLines
  <2>2. /\ runtime' \in Runtimes /\ (runtime.asked)' = runtime.asked
        /\ (runtime.account)' = runtime.account + 1 /\ (runtime.changes)' = runtime.changes + 0
    BY <1>1, <1>2 DEF Switches, Runtimes
  <2>3. /\ source # "rows" /\ stdout' = Append(stdout, Line("auth"))
        /\ UNCHANGED <<tele, source, rateRead, ctxRead, auto, rows, known>>
    BY <1>2 DEF Switches, Tells
  <2> QED BY <2>1, <2>2, <2>3, LineTold
<1>3. CASE ResultTold
  <2>1. Line("result") \in RuntimeLines /\ Line("result").kind = "result" BY DEF Line, RuntimeLines
  <2>2. /\ runtime' \in Runtimes /\ (runtime.asked)' = runtime.asked
        /\ (runtime.account)' = runtime.account + 0 /\ (runtime.changes)' = runtime.changes + 0
    <3>1. runtime' = [runtime EXCEPT !.others = @ + 1] BY <1>3 DEF ResultTold
    <3> QED BY <1>1, <3>1 DEF Runtimes
  <2>3. /\ source # "rows" /\ stdout' = Append(stdout, Line("result"))
        /\ UNCHANGED <<tele, source, rateRead, ctxRead, auto, rows, known>>
    BY <1>3 DEF ResultTold, Tells
  <2> QED BY <2>1, <2>2, <2>3, LineTold
<1>4. ASSUME NEW kind \in {"compacted", "model"}, ContextChanges(kind)
      PROVE  TeleInv'
  <2>1. Line(kind) \in RuntimeLines /\ Line(kind).kind = kind BY DEF Line, RuntimeLines
  <2>2. /\ runtime' \in Runtimes /\ (runtime.asked)' = runtime.asked
        /\ (runtime.account)' = runtime.account + 0 /\ (runtime.changes)' = runtime.changes + 1
    BY <1>1, <1>4 DEF ContextChanges, Runtimes
  <2>3. /\ source = "claude" /\ stdout' = Append(stdout, Line(kind))
        /\ kind = "model" /\ ~FirstReadCrossed => tele.context.at > 0
    BY <1>4 DEF ContextChanges, Tells
  <2>4. UNCHANGED <<tele, source, rateRead, ctxRead, auto, rows, known>> BY <1>4 DEF ContextChanges
  <2> QED BY <2>1, <2>2, <2>3, <2>4, LineTold
<1>5. ASSUME NEW id \in 0..(MaxChanges + 1), Pushes(id)
      PROVE  TeleInv'
  <2> DEFINE u == IF source = "claude" THEN ClaudeEvent(1, runtime.account)
                  ELSE CodexRates("told", "merge", 1, id, runtime.account)
             l == [kind |-> "rates", update |-> u]
  <2>1. id \in Nat BY TelemetryAssumption DEF TelemetryAssumption
  <2>2. u \in Updates /\ u.of = runtime.account /\ u.at = 1 /\ u.mode = "merge"
    BY <1>1, <2>1 DEF Updates, ClaudeEvent, CodexRates, Update, Buckets
  <2> HIDE DEF u
  <2>3. l \in RuntimeLines /\ l.kind = "rates" /\ l.update = u BY <2>2 DEF RuntimeLines
  <2>4. /\ runtime' \in Runtimes /\ (runtime.asked)' = runtime.asked
        /\ (runtime.account)' = runtime.account + 0 /\ (runtime.changes)' = runtime.changes + 0
    BY <1>1, <1>5 DEF Pushes, Runtimes
  <2>5. /\ source # "rows" /\ stdout' = Append(stdout, l)
        /\ UNCHANGED <<tele, source, rateRead, ctxRead, auto, rows, known>>
    BY <1>5 DEF Pushes, Tells, u
  <2> HIDE DEF l
  <2> QED BY <2>2, <2>3, <2>4, <2>5, LineTold
<1>6. ASSUME NEW r \in runtime.asked, NEW how \in Outcomes, Answers(r, how)
      PROVE  TeleInv'
  <2> DEFINE l == [kind |-> "answer", what |-> r.what, id |-> r.id, of |-> r.of, changes |-> r.changes, how |-> how]
  <2>1. r \in Demands /\ l \in RuntimeLines /\ l.kind = "answer" BY <1>1 DEF Demands, RuntimeLines, AnswerLines
  <2>2. l.id = r.id /\ l.of = r.of /\ l.changes = r.changes OBVIOUS
  <2>3. /\ runtime' \in Runtimes /\ (runtime.asked)' \subseteq runtime.asked
        /\ (runtime.account)' = runtime.account + 0 /\ (runtime.changes)' = runtime.changes + 0
    BY <1>1, <1>6 DEF Answers, Runtimes
  <2>4. /\ r.of > 0 /\ stdout' = Append(stdout, l)
        /\ UNCHANGED <<tele, source, rateRead, ctxRead, auto, rows, known>>
    BY <1>6 DEF Answers, Tells
  <2>5. source # "rows" BY DEF TeleInv, SourceInv
  <2> HIDE DEF l
  <2> QED BY <2>1, <2>2, <2>3, <2>4, <2>5, LineTold
<1> QED BY <1>2, <1>3, <1>4, <1>5, <1>6

\* A request is taken up, with what is so by then.
LEMMA TakesUpKeeps ==
    ASSUME TeleInv, NEW r \in runtime.asked, TakesUp(r)
    PROVE  TeleInv'
<1> USE DEF TeleInv
<1> DEFINE q == [r EXCEPT !.of = runtime.account, !.changes = runtime.changes]
<1>1. /\ runtime.account \in Nat \ {0} /\ runtime.changes \in Nat /\ runtime.asked \subseteq Demands
      /\ r \in Demands /\ IsFiniteSet(runtime.asked)
  BY DEF TeleTypes, Runtimes
<1>2. q \in Demands /\ q.id = r.id /\ q.of = runtime.account /\ q.changes = runtime.changes BY <1>1 DEF Demands
<1>3. runtime' = [runtime EXCEPT !.asked = (@ \ {r}) \cup {q}]
      /\ UNCHANGED <<tele, source, stdout, rateRead, ctxRead, auto, rows, known>>
  BY DEF TakesUp
<1> HIDE DEF q
<1>4. /\ runtime' \in Runtimes /\ (runtime.asked)' = (runtime.asked \ {r}) \cup {q}
      /\ (runtime.account)' = runtime.account /\ (runtime.changes)' = runtime.changes
  BY <1>1, <1>2, <1>3 DEF TeleTypes, Runtimes
<1>5. IsFiniteSet((runtime.asked)')
  <2>1. IsFiniteSet(runtime.asked \ {r}) BY <1>1, FS_Subset
  <2> QED BY <1>4, <2>1, FS_AddElement
<1>6. TeleTypes' BY <1>3, <1>4, <1>5 DEF TeleTypes
<1>7. known.account <= runtime.account /\ known.changes <= runtime.changes BY RuntimeAhead
<1>8. known.account \in Nat /\ known.changes \in Nat BY DEF TeleTypes, Knowledge
<1>9. SourceInv' BY <1>3, <1>4 DEF SourceInv
<1>10. AccountsInv' /\ ChangesInv' BY <1>3, <1>4 DEF AccountsInv, ChangesInv
<1>11. RateReadInv' /\ CtxReadInv' BY <1>1, <1>2, <1>3, <1>4, <1>7, <1>8 DEF RateReadInv, CtxReadInv
<1>12. AnswersInv' BY <1>1, <1>2, <1>3, <1>4 DEF AnswersInv
<1>13. StoreTrue(tele, known.updates)' /\ OfThisAccount' /\ ContextIsCurrent' /\ ContextInv' /\ ForgetInv'
  BY <1>3, <1>4 DEF OfThisAccount, ContextIsCurrent, Shown, ContextFresh, ContextInv, ForgetInv
<1> QED BY <1>6, <1>9, <1>10, <1>11, <1>12, <1>13

-----------------------------------------------------------------------------
(* Telemetry: the session's steps                                          *)

LEMMA ReadTypes ==
    ASSUME TeleTypes
    PROVE  /\ Idle \in ReadRecord /\ Idle.at = "none" /\ Idle.answer.changes = 0
           /\ Awaiting \in ReadRecord /\ Awaiting.at = "asked" /\ Awaiting.id = FreshId /\ Awaiting.answer.changes = 0
           /\ Nothing \in Heard
           /\ \A read \in ReadRecord :
                  /\ TimesOut(read) \in ReadRecord /\ TimesOut(read).at = "answered"
                  /\ TimesOut(read).answer.how = "timeout" /\ TimesOut(read).answer.changes = 0
                  /\ TimesOut(read).answer \in Heard
                  /\ Moved(read) \in ReadRecord /\ Moved(read).at = read.at /\ Moved(read).id = read.id
                  /\ Moved(read).answer = read.answer /\ (read.at # "none" => Moved(read).moved)
<1>1. FreshId \in Nat BY FreshIdIsFresh
<1>2. Nothing \in Heard /\ Nothing.changes = 0 BY DEF Nothing, Heard
<1>3. Idle \in ReadRecord /\ Idle.at = "none" /\ Idle.answer = Nothing /\ Idle.answer.changes = 0
  BY <1>2 DEF Idle, ReadRecord
<1>4. Awaiting \in ReadRecord /\ Awaiting.at = "asked" /\ Awaiting.id = FreshId /\ Awaiting.answer.changes = 0
  BY <1>1, <1>3 DEF Awaiting, ReadRecord
<1>5. ASSUME NEW read \in ReadRecord
      PROVE  /\ TimesOut(read) \in ReadRecord /\ TimesOut(read).at = "answered"
             /\ TimesOut(read).answer.how = "timeout" /\ TimesOut(read).answer.changes = 0
             /\ TimesOut(read).answer \in Heard
  <2> DEFINE e == [Nothing EXCEPT !.kind = "answer", !.how = "timeout"]
  <2>1. e \in Heard /\ e.how = "timeout" /\ e.changes = 0 BY DEF Nothing, Heard
  <2>2. TimesOut(read) = [read EXCEPT !.at = "answered", !.answer = e] BY DEF TimesOut, Settled
  <2> HIDE DEF e
  <2> QED BY <2>1, <2>2 DEF ReadRecord
<1>6. ASSUME NEW read \in ReadRecord
      PROVE  /\ Moved(read) \in ReadRecord /\ Moved(read).at = read.at /\ Moved(read).id = read.id
             /\ Moved(read).answer = read.answer /\ (read.at # "none" => Moved(read).moved)
  BY DEF Moved, ReadRecord
<1> QED BY <1>2, <1>3, <1>4, <1>5, <1>6

\* What is asked for is asked under an id of its own.
LEMMA AsksKeep ==
    ASSUME TeleTypes, UNCHANGED runtime \/ \E what \in Whats : AsksFor(what)
    PROVE  /\ runtime' \in Runtimes /\ IsFiniteSet((runtime.asked)')
           /\ (runtime.account)' = runtime.account /\ (runtime.changes)' = runtime.changes
           /\ runtime.asked \subseteq (runtime.asked)'
           /\ \A r \in (runtime.asked)' : r \in runtime.asked \/ (r.of = 0 /\ r.changes = 0)
           /\ \A r \in runtime.asked : r.id # FreshId
           /\ \A i \in DOMAIN stdout : stdout[i].kind = "answer" => stdout[i].id # FreshId
<1>1. /\ runtime \in Runtimes /\ IsFiniteSet(runtime.asked) /\ runtime.asked \subseteq Demands
      /\ runtime.changes \in Nat
  BY DEF TeleTypes, Runtimes
<1>2. FreshId \in Nat /\ FreshId \notin InUse BY FreshIdIsFresh
<1>3. /\ runtime' \in Runtimes /\ IsFiniteSet((runtime.asked)')
      /\ (runtime.account)' = runtime.account /\ (runtime.changes)' = runtime.changes
      /\ runtime.asked \subseteq (runtime.asked)'
      /\ \A r \in (runtime.asked)' : r \in runtime.asked \/ (r.of = 0 /\ r.changes = 0)
  <2>1. CASE UNCHANGED runtime BY <1>1, <2>1
  <2>2. ASSUME NEW what \in Whats, AsksFor(what)
        PROVE  /\ runtime' \in Runtimes /\ IsFiniteSet((runtime.asked)')
               /\ (runtime.account)' = runtime.account /\ (runtime.changes)' = runtime.changes
               /\ runtime.asked \subseteq (runtime.asked)'
               /\ \A r \in (runtime.asked)' : r \in runtime.asked \/ (r.of = 0 /\ r.changes = 0)
    <3> DEFINE q == [what |-> what, id |-> FreshId, of |-> 0, changes |-> 0]
    <3>1. q \in Demands /\ q.of = 0 /\ q.changes = 0 BY <1>2 DEF Demands
    <3>2. runtime' = [runtime EXCEPT !.asked = @ \cup {q}] BY <2>2 DEF AsksFor
    <3> HIDE DEF q
    <3>3. (runtime.asked)' = runtime.asked \cup {q} BY <1>1, <3>2 DEF Runtimes
    <3>4. IsFiniteSet((runtime.asked)') BY <1>1, <3>3, FS_AddElement
    <3> QED BY <1>1, <3>1, <3>2, <3>3, <3>4 DEF Runtimes
  <2> QED BY <2>1, <2>2
<1>4. /\ \A r \in runtime.asked : r.id # FreshId
      /\ \A i \in DOMAIN stdout : stdout[i].kind = "answer" => stdout[i].id # FreshId
  BY <1>2 DEF InUse
<1> QED BY <1>3, <1>4

\* What the handlers ask, and what they await, is no older than what is known.
LEMMA HandlersKeepReads ==
    ASSUME TeleInv, UNCHANGED <<source, stdout>>,
           UNCHANGED runtime \/ \E what \in Whats : AsksFor(what),
           (known.account)' = known.account, (known.changes)' = known.changes,
           ~(tele.closed)' => ~tele.closed,
           \/ UNCHANGED rateRead \/ (rateRead.at)' = "none"
           \/ (rateRead.at)' = "asked" /\ (rateRead.id)' = FreshId
           \/ (rateRead.at)' = "answered" /\ (rateRead.answer.how)' = "timeout",
           \/ UNCHANGED ctxRead
           \/ (ctxRead.at)' = "none" /\ (ctxRead.answer.changes)' = 0
           \/ (ctxRead.at)' = "asked" /\ (ctxRead.id)' = FreshId /\ (ctxRead.answer.changes)' = 0
           \/ /\ (ctxRead.at)' = "answered" /\ (ctxRead.answer.how)' = "timeout"
              /\ (ctxRead.answer.changes)' = 0
    PROVE  /\ runtime' \in Runtimes /\ IsFiniteSet((runtime.asked)')
           /\ (runtime.account)' = runtime.account /\ (runtime.changes)' = runtime.changes
           /\ runtime.asked \subseteq (runtime.asked)'
           /\ AccountsInv' /\ ChangesInv' /\ RateReadInv' /\ CtxReadInv' /\ AnswersInv'
<1> USE DEF TeleInv
<1>1. runtime.changes \in Nat BY DEF TeleTypes, Runtimes
<1>2. UNCHANGED runtime \/ \E what \in Whats : AsksFor(what) OBVIOUS
<1>3. /\ runtime' \in Runtimes /\ IsFiniteSet((runtime.asked)')
      /\ (runtime.account)' = runtime.account /\ (runtime.changes)' = runtime.changes
      /\ runtime.asked \subseteq (runtime.asked)'
      /\ \A r \in (runtime.asked)' : r \in runtime.asked \/ (r.of = 0 /\ r.changes = 0)
      /\ \A r \in runtime.asked : r.id # FreshId
      /\ \A i \in DOMAIN stdout : stdout[i].kind = "answer" => stdout[i].id # FreshId
  BY <1>2, AsksKeep
<1>4. AccountsInv' /\ ChangesInv' BY <1>3 DEF AccountsInv, ChangesInv
<1>5. RateReadInv' BY <1>3 DEF RateReadInv
<1>6. CtxReadInv' BY <1>3 DEF CtxReadInv
<1>7. AnswersInv' BY <1>1, <1>3 DEF AnswersInv
<1> QED BY <1>3, <1>4, <1>5, <1>6, <1>7

\* The context is left alone.
LEMMA ContextKept ==
    ASSUME TeleInv, UNCHANGED <<source, stdout, ctxRead, auto>>,
           (tele.context)' = tele.context, (tele.contextSupport)' = tele.contextSupport,
           (tele.invalid)' = tele.invalid, (tele.closed)' = tele.closed,
           (known.changes)' = known.changes, (known.lastRead)' = known.lastRead,
           (runtime.changes)' = runtime.changes
    PROVE  ContextInv' /\ ContextIsCurrent' /\ ForgetInv'
BY DEF TeleInv, ContextInv, ContextIsCurrent, ForgetInv, ContextFresh

\* The capacity is left alone.
LEMMA CapacityKept ==
    ASSUME TeleInv, (tele.rates)' = tele.rates, (tele.replacedAt)' = tele.replacedAt,
           (tele.listAt)' = tele.listAt, (tele.removedAt)' = tele.removedAt,
           (known.updates)' = known.updates, (known.account)' = known.account
    PROVE  StoreTrue(tele, known.updates)' /\ OfThisAccount'
<1>1. StoreTrue(tele', known.updates) /\ Shown(tele') = Shown(tele) BY StoreAlike DEF TeleInv
<1> QED BY <1>1 DEF TeleInv, OfThisAccount

LEMMA KnownFields ==
    ASSUME TeleTypes
    PROVE  /\ known \in Knowledge /\ known.updates \subseteq Updates /\ known.account \in Nat
           /\ known.changes \in Nat /\ known.rateReads \in Nat /\ known.ctxReads \in Nat
           /\ known.timeouts \in Nat /\ known.lastRead \in {"none", "told", "failed"}
BY DEF TeleTypes, Knowledge

LEMMA RefreshesKeep ==
    ASSUME TeleInv, RefreshRates \/ RefreshContext
    PROVE  TeleInv'
<1> USE DEF TeleInv
<1>1. CASE RefreshRates
  <2>1. /\ source # "rows" /\ rateRead' = Awaiting
        /\ UNCHANGED <<tele, source, stdout, ctxRead, auto, rows>>
        /\ \E what \in Whats : AsksFor(what)
    BY <1>1 DEF RefreshRates, Whats
  <2>2. known' = [known EXCEPT !.rateReads = @ + 1] BY <1>1 DEF RefreshRates
  <2>3. /\ known' \in Knowledge /\ (known.account)' = known.account /\ (known.changes)' = known.changes
        /\ (known.updates)' = known.updates /\ (known.lastRead)' = known.lastRead
    BY <2>2, KnownFields DEF Knowledge
  <2>4. Awaiting \in ReadRecord /\ (rateRead.at)' = "asked" /\ (rateRead.id)' = FreshId BY <2>1, ReadTypes
  <2>5. /\ runtime' \in Runtimes /\ IsFiniteSet((runtime.asked)')
        /\ (runtime.account)' = runtime.account /\ (runtime.changes)' = runtime.changes
        /\ AccountsInv' /\ ChangesInv' /\ RateReadInv' /\ CtxReadInv' /\ AnswersInv'
    BY <2>1, <2>3, <2>4, HandlersKeepReads
  <2>6. TeleTypes' BY <2>1, <2>3, <2>4, <2>5 DEF TeleTypes
  <2>7. SourceInv' BY <2>1, <2>3, <2>5 DEF SourceInv
  <2>8. ContextInv' /\ ContextIsCurrent' /\ ForgetInv' BY <2>1, <2>3, <2>5, ContextKept
  <2>9. StoreTrue(tele, known.updates)' /\ OfThisAccount' BY <2>1, <2>3, CapacityKept
  <2> QED BY <2>5, <2>6, <2>7, <2>8, <2>9
<1>2. CASE RefreshContext
  <2>1. /\ source = "claude" /\ ctxRead' = Awaiting /\ ~tele.closed /\ tele.contextSupport # "unsupported"
        /\ UNCHANGED <<tele, source, stdout, rateRead, auto, rows>>
        /\ \E what \in Whats : AsksFor(what)
    BY <1>2 DEF RefreshContext, Whats
  <2>2. known' = [known EXCEPT !.ctxReads = @ + 1] BY <1>2 DEF RefreshContext
  <2>3. /\ known' \in Knowledge /\ (known.account)' = known.account /\ (known.changes)' = known.changes
        /\ (known.updates)' = known.updates /\ (known.lastRead)' = known.lastRead
    BY <2>2, KnownFields DEF Knowledge
  <2>4. /\ Awaiting \in ReadRecord /\ (ctxRead.at)' = "asked" /\ (ctxRead.id)' = FreshId
        /\ (ctxRead.answer.changes)' = 0
    BY <2>1, ReadTypes
  <2>5. /\ runtime' \in Runtimes /\ IsFiniteSet((runtime.asked)')
        /\ (runtime.account)' = runtime.account /\ (runtime.changes)' = runtime.changes
        /\ AccountsInv' /\ ChangesInv' /\ RateReadInv' /\ CtxReadInv' /\ AnswersInv'
    BY <2>1, <2>3, <2>4, HandlersKeepReads
  <2>6. TeleTypes' BY <2>1, <2>3, <2>4, <2>5 DEF TeleTypes
  <2>7. SourceInv' BY <2>1, <2>3, <2>5 DEF SourceInv
  <2>8. ContextInv' /\ ContextIsCurrent' /\ ForgetInv'
    BY <2>1, <2>3, <2>4, <2>5 DEF ContextInv, ContextIsCurrent, ForgetInv, ContextFresh
  <2>9. StoreTrue(tele, known.updates)' /\ OfThisAccount' BY <2>1, <2>3, CapacityKept
  <2> QED BY <2>5, <2>6, <2>7, <2>8, <2>9
<1> QED BY <1>1, <1>2

LEMMA TimeOutsKeep ==
    ASSUME TeleInv, RatesTimeOut \/ ContextTimesOut
    PROVE  TeleInv'
<1> USE DEF TeleInv
<1>0. rateRead \in ReadRecord /\ ctxRead \in ReadRecord BY DEF TeleTypes
<1>1. /\ known' = [known EXCEPT !.timeouts = @ + 1]
      /\ UNCHANGED <<tele, source, runtime, stdout, auto, rows>>
  BY DEF RatesTimeOut, ContextTimesOut
<1>2. /\ known' \in Knowledge /\ (known.account)' = known.account /\ (known.changes)' = known.changes
      /\ (known.updates)' = known.updates /\ (known.lastRead)' = known.lastRead
  BY <1>1, KnownFields DEF Knowledge
<1>3. StoreTrue(tele, known.updates)' /\ OfThisAccount' BY <1>1, <1>2, CapacityKept
<1>4. CASE RatesTimeOut
  <2> DEFINE t == TimesOut(rateRead)
  <2>1. rateRead' = [t EXCEPT !.answer.what = source] /\ rateRead.at = "asked" /\ UNCHANGED ctxRead
    BY <1>4 DEF RatesTimeOut
  <2>2. t \in ReadRecord /\ t.at = "answered" /\ t.answer.how = "timeout" /\ t.answer \in Heard
    BY <1>0, ReadTypes
  <2>3. source \in {"claude", "codex"} BY <2>1 DEF SourceInv, TeleTypes
  <2> HIDE DEF t
  <2> DEFINE e == [t.answer EXCEPT !.what = source]
  <2>4. e \in Heard /\ e.how = "timeout" BY <2>2, <2>3 DEF Heard
  <2>5. rateRead' = [t EXCEPT !.answer = e] BY <2>1, <2>2 DEF ReadRecord
  <2> HIDE DEF e
  <2>6. rateRead' \in ReadRecord /\ (rateRead.at)' = "answered" /\ (rateRead.answer)' = e
    BY <2>2, <2>4, <2>5 DEF ReadRecord
  <2>7. (rateRead.answer.how)' = "timeout" BY <2>4, <2>6
  <2>8. AccountsInv' /\ ChangesInv' /\ RateReadInv' /\ CtxReadInv' /\ AnswersInv'
    BY <1>1, <1>2, <2>1, <2>6, <2>7, HandlersKeepReads
  <2>9. TeleTypes' /\ SourceInv' BY <1>1, <1>2, <2>1, <2>3, <2>6 DEF TeleTypes, SourceInv
  <2>10. ContextInv' /\ ContextIsCurrent' /\ ForgetInv' BY <1>1, <1>2, <2>1, ContextKept
  <2> QED BY <1>3, <2>8, <2>9, <2>10
<1>5. CASE ContextTimesOut
  <2>1. ctxRead' = TimesOut(ctxRead) /\ ctxRead.at = "asked" /\ UNCHANGED rateRead BY <1>5 DEF ContextTimesOut
  <2>2. /\ ctxRead' \in ReadRecord /\ (ctxRead.at)' = "answered" /\ (ctxRead.answer.how)' = "timeout"
        /\ (ctxRead.answer.changes)' = 0
    BY <1>0, <2>1, ReadTypes
  <2>3. AccountsInv' /\ ChangesInv' /\ RateReadInv' /\ CtxReadInv' /\ AnswersInv'
    BY <1>1, <1>2, <2>1, <2>2, HandlersKeepReads
  <2>4. TeleTypes' /\ SourceInv' BY <1>1, <1>2, <2>1, <2>2 DEF TeleTypes, SourceInv
  <2>5. ContextInv' /\ ContextIsCurrent' /\ ForgetInv'
    BY <1>1, <1>2, <2>1, <2>2 DEF ContextInv, ContextIsCurrent, ForgetInv, ContextFresh
  <2> QED BY <1>3, <2>3, <2>4, <2>5
<1> QED BY <1>4, <1>5

\* What the store's other operations leave alone.
SameContext(s, t) == /\ t.context = s.context /\ t.contextSupport = s.contextSupport
                     /\ t.invalid = s.invalid /\ t.closed = s.closed
SameRates(s, t) == /\ t.rates = s.rates /\ t.replacedAt = s.replacedAt
                   /\ t.listAt = s.listAt /\ t.removedAt = s.removedAt

LEMMA StoreSteps ==
    ASSUME NEW s \in Stores
    PROVE  /\ UnavailableRates(s) \in Stores /\ SameContext(s, UnavailableRates(s))
           /\ SameRates(s, UnavailableRates(s))
           /\ NoRateSupport(s) \in Stores /\ SameContext(s, NoRateSupport(s)) /\ NoRateSupport(s).rates = NoRates
           /\ ResetRates(s) \in Stores /\ SameContext(s, ResetRates(s)) /\ ResetRates(s).rates = NoRates
           /\ InvalidateContext(s) \in Stores /\ SameRates(s, InvalidateContext(s))
           /\ InvalidateContext(s).context = s.context /\ InvalidateContext(s).closed = s.closed
           /\ InvalidateContext(s).contextSupport = s.contextSupport /\ InvalidateContext(s).invalid = TRUE
           /\ CloseStore(s) \in Stores /\ SameRates(s, CloseStore(s))
           /\ CloseStore(s).context = s.context /\ CloseStore(s).closed = TRUE
           /\ CloseStore(s).contextSupport = s.contextSupport /\ CloseStore(s).invalid = TRUE
           /\ NoContextSupport(s) \in Stores /\ SameRates(s, NoContextSupport(s))
           /\ NoContextSupport(s).context = NoContext /\ NoContextSupport(s).closed = s.closed
           /\ NoContextSupport(s).contextSupport = "unsupported" /\ NoContextSupport(s).invalid = s.invalid
<1>1. NoRates \in RateSnapshots BY DEF NoRates, NoBucket, RateSnapshots
<1>2. NoContext \in [at : Nat, changes : Nat] BY DEF NoContext
<1>3. [c \in Collections |-> 0] \in [Collections -> Nat] /\ [b \in Buckets |-> 0] \in [Buckets -> Nat] OBVIOUS
<1>4. /\ UnavailableRates(s) \in Stores /\ SameContext(s, UnavailableRates(s))
      /\ SameRates(s, UnavailableRates(s))
  BY DEF UnavailableRates, Stores, SameContext, SameRates
<1>5. NoRateSupport(s) \in Stores /\ SameContext(s, NoRateSupport(s)) /\ NoRateSupport(s).rates = NoRates
  BY <1>1 DEF NoRateSupport, Stores, Supports, SameContext
<1>6. ResetRates(s) \in Stores /\ SameContext(s, ResetRates(s)) /\ ResetRates(s).rates = NoRates
  BY <1>1, <1>3 DEF ResetRates, Stores, Supports, SameContext
<1>7. /\ InvalidateContext(s) \in Stores /\ SameRates(s, InvalidateContext(s))
      /\ InvalidateContext(s).context = s.context /\ InvalidateContext(s).closed = s.closed
      /\ InvalidateContext(s).contextSupport = s.contextSupport /\ InvalidateContext(s).invalid = TRUE
  BY DEF InvalidateContext, Stores, SameRates
<1>8. /\ CloseStore(s) \in Stores /\ SameRates(s, CloseStore(s))
      /\ CloseStore(s).context = s.context /\ CloseStore(s).closed = TRUE
      /\ CloseStore(s).contextSupport = s.contextSupport /\ CloseStore(s).invalid = TRUE
  BY DEF CloseStore, Stores, SameRates
<1>9. /\ NoContextSupport(s) \in Stores /\ SameRates(s, NoContextSupport(s))
      /\ NoContextSupport(s).context = NoContext /\ NoContextSupport(s).closed = s.closed
      /\ NoContextSupport(s).contextSupport = "unsupported" /\ NoContextSupport(s).invalid = s.invalid
  BY <1>2 DEF NoContextSupport, Stores, Supports, SameRates
<1> QED BY <1>4, <1>5, <1>6, <1>7, <1>8, <1>9

LEMMA NothingShown ==
    ASSUME NEW s \in Stores, s.rates = NoRates
    PROVE  StoreTrue(s, {}) /\ Shown(s) = {} /\ s.rates.at = 0 /\ s.rates.id = 0 /\ ~s.rates.there
<1>1. NoRates.there = FALSE /\ NoRates.at = 0 /\ NoRates.id = 0 /\ \A b \in Buckets : NoRates.buckets[b].at = 0
  BY DEF NoRates, NoBucket
<1> QED BY <1>1 DEF StoreTrue, Shown

\* What a read is answered with.
LEMMA ReadUpdates ==
    ASSUME NEW of \in Nat
    PROVE  \A u \in {ClaudeUsage("told", "row", "replace", 1, of), CodexRates("told", "replace", 1, 0, of)} :
               u \in Updates /\ u.at = 1 /\ u.id = 0 /\ u.of = of /\ u.mode = "replace"
<1>1. {"five_hour"} \subseteq Buckets /\ {"limits:row"} \subseteq Buckets /\ {"limits"} \subseteq Collections
  BY DEF Buckets, Collections
<1> QED BY <1>1 DEF ClaudeUsage, CodexRates, Update, Updates

\* The handler of the rate limits goes on.
LEMMA RatesAnsweredKeeps ==
    ASSUME TeleInv, RatesAnswered
    PROVE  TeleInv'
<1> USE DEF TeleInv
<1> DEFINE answer == rateRead.answer
           crossed == Crossed(rateRead)
           first == answer.what = "account"
           update == IF source = "claude" THEN ClaudeUsage("told", "row", "replace", 1, answer.of)
                     ELSE CodexRates("told", "replace", 1, 0, answer.of)
           failed == answer.how \in {"error", "timeout", "nothing"}
           taken == ~first /\ answer.how = "ok" /\ ~crossed
           goesOn == first /\ answer.how = "ok" /\ ~crossed /\ ServiceBacked(answer.of) /\ ~tele.closed
           unsupported == ~crossed /\ \/ answer.how = "unsupported"
                                      \/ first /\ answer.how = "ok" /\ ~ServiceBacked(answer.of)
<1>1. /\ rateRead.at = "answered" /\ UNCHANGED <<source, stdout, ctxRead, auto, rows>>
      /\ tele' = (IF failed /\ (first \/ ~crossed) THEN UnavailableRates(tele)
                  ELSE IF unsupported THEN NoRateSupport(tele)
                  ELSE IF taken THEN UpdateRates(tele, update) ELSE tele)
      /\ (IF goesOn THEN rateRead' = Awaiting /\ AsksFor("rates") ELSE rateRead' = Idle /\ UNCHANGED runtime)
      /\ known' = [known EXCEPT !.updates = IF unsupported THEN {}
                                            ELSE IF taken /\ ~tele.closed THEN @ \cup {update} ELSE @]
  BY DEF RatesAnswered
<1>2. /\ tele \in Stores /\ rateRead \in ReadRecord /\ answer \in Heard /\ answer.of \in Nat
      /\ known.updates \subseteq Updates
  BY KnownFields DEF TeleTypes, ReadRecord, Heard
<1>3. update \in Updates /\ update.at = 1 /\ update.id = 0 /\ update.of = answer.of /\ update.mode = "replace"
  BY <1>2, ReadUpdates
<1>4. taken => answer.of >= known.account BY <1>1 DEF RateReadInv, Crossed
<1>5. source # "rows" /\ tele.rates.at <= 1 /\ \A u \in known.updates : u.at = 1 BY <1>1 DEF SourceInv
<1>6. failed => ~unsupported /\ ~taken OBVIOUS
<1>7. unsupported => ~taken OBVIOUS
<1> HIDE DEF update, failed, taken, goesOn, unsupported, crossed, first, answer
<1>8. /\ known' \in Knowledge /\ (known.account)' = known.account /\ (known.changes)' = known.changes
      /\ (known.lastRead)' = known.lastRead
      /\ (known.updates)' = (IF unsupported THEN {}
                             ELSE IF taken /\ ~tele.closed THEN known.updates \cup {update} ELSE known.updates)
  BY <1>1, <1>2, <1>3, KnownFields DEF Knowledge
<1>9. /\ tele' \in Stores /\ SameContext(tele, tele') /\ (tele.rates.at)' <= 1
      /\ StoreTrue(tele, known.updates)' /\ OfThisAccount'
  <2>1. CASE failed /\ (first \/ ~crossed)
    BY <1>1, <1>6, <1>8, <2>1, <1>2, StoreSteps, <1>5, CapacityKept DEF SameRates
  <2>2. CASE unsupported /\ ~failed
    <3>1. tele' = NoRateSupport(tele) /\ (known.updates)' = {} BY <1>1, <1>8, <2>2
    <3>2. tele' \in Stores /\ SameContext(tele, tele') /\ (tele.rates)' = NoRates BY <1>2, <3>1, StoreSteps
    <3>3. StoreTrue(tele', {}) /\ Shown(tele') = {} /\ (tele.rates.at)' = 0 BY <3>2, NothingShown
    <3> QED BY <3>1, <3>2, <3>3 DEF OfThisAccount
  <2>3. CASE taken /\ ~failed /\ ~unsupported
    <3>1. tele' = UpdateRates(tele, update) BY <1>1, <2>3
    <3>2. tele' \in Stores /\ SameContext(tele, tele') /\ (tele.rates.at)' <= 1
      BY <1>2, <1>3, <1>5, <3>1, UpdateRatesTypes DEF SameContext
    <3>3. CASE tele.closed BY <1>8, <2>3, <3>1, <3>3, <3>2, CapacityKept DEF UpdateRates
    <3>4. CASE ~tele.closed
      <4>1. (known.updates)' = known.updates \cup {update} BY <1>8, <2>3, <3>4
      <4>2. ~Outdated(tele, update) /\ ~ScopeChanged(tele, update)
        BY <1>2, <1>3, <1>5, StoreFields DEF Outdated, ScopeChanged
      <4>3. /\ StoreTrue(tele', (known.updates)')
            /\ \A b \in Shown(tele') : \/ (tele.rates.buckets[b].of)' = update.of
                                       \/ /\ b \in Shown(tele)
                                          /\ (tele.rates.buckets[b].of)' = tele.rates.buckets[b].of
        BY <1>2, <1>3, <3>1, <3>4, <4>1, <4>2, UpdateRatesIsTrue
      <4>4. OfThisAccount' BY <1>3, <1>4, <1>8, <2>3, <4>3 DEF OfThisAccount
      <4> QED BY <3>2, <4>3, <4>4
    <3> QED BY <3>3, <3>4
  <2>4. CASE ~unsupported /\ ~taken /\ ~(failed /\ (first \/ ~crossed))
    BY <1>1, <1>8, <2>4, <1>2, <1>5, CapacityKept DEF SameContext
  <2> QED BY <1>6, <1>7, <2>1, <2>2, <2>3, <2>4
<1>10. /\ rateRead' \in ReadRecord
       /\ UNCHANGED runtime \/ \E what \in Whats : AsksFor(what)
       /\ (rateRead.at)' = "none" \/ ((rateRead.at)' = "asked" /\ (rateRead.id)' = FreshId)
  BY <1>1, ReadTypes DEF Whats
<1>11. /\ runtime' \in Runtimes /\ IsFiniteSet((runtime.asked)')
       /\ (runtime.account)' = runtime.account /\ (runtime.changes)' = runtime.changes
       /\ AccountsInv' /\ ChangesInv' /\ RateReadInv' /\ CtxReadInv' /\ AnswersInv'
  BY <1>1, <1>8, <1>9, <1>10, HandlersKeepReads DEF SameContext
<1>12. ContextInv' /\ ContextIsCurrent' /\ ForgetInv' BY <1>1, <1>8, <1>9, <1>11, ContextKept DEF SameContext
<1>13. TeleTypes' BY <1>1, <1>8, <1>9, <1>10, <1>11 DEF TeleTypes
<1>14. SourceInv' BY <1>3, <1>5, <1>8, <1>1, <1>9, <1>11 DEF SourceInv
<1> QED BY <1>9, <1>11, <1>12, <1>13, <1>14

\* close(): a read that waits is given up.
LEMMA ClosesKeeps ==
    ASSUME TeleInv, TelemetryCloses
    PROVE  TeleInv'
<1> USE DEF TeleInv
<1>1. /\ source # "rows" /\ tele' = CloseStore(tele) /\ rateRead' = Rejected(rateRead)
      /\ ctxRead' = Rejected(ctxRead) /\ UNCHANGED <<source, runtime, stdout, auto, rows, known>>
  BY DEF TelemetryCloses
<1>2. /\ tele \in Stores /\ rateRead \in ReadRecord /\ ctxRead \in ReadRecord BY DEF TeleTypes
<1>3. /\ tele' \in Stores /\ SameRates(tele, tele') /\ (tele.closed)' = TRUE /\ (tele.invalid)' = TRUE
      /\ (tele.context)' = tele.context /\ (tele.contextSupport)' = tele.contextSupport
  BY <1>1, <1>2, StoreSteps
<1>4. /\ rateRead' \in ReadRecord
      /\ \/ UNCHANGED rateRead
         \/ (rateRead.at)' = "answered" /\ (rateRead.answer.how)' = "timeout"
  BY <1>1, <1>2, ReadTypes DEF Rejected
<1>5. /\ ctxRead' \in ReadRecord /\ ((ctxRead.at)' = "none" <=> ctxRead.at = "none")
      /\ \/ UNCHANGED ctxRead
         \/ (ctxRead.at)' = "answered" /\ (ctxRead.answer.how)' = "timeout" /\ (ctxRead.answer.changes)' = 0
  <2>1. CASE ctxRead.at = "asked" BY <1>1, <1>2, <2>1, ReadTypes DEF Rejected
  <2>2. CASE ctxRead.at # "asked" BY <1>1, <1>2, <2>2 DEF Rejected
  <2> QED BY <2>1, <2>2
<1>6. AccountsInv' /\ ChangesInv' /\ RateReadInv' /\ CtxReadInv' /\ AnswersInv'
  BY <1>1, <1>3, <1>4, <1>5, HandlersKeepReads
<1>7. StoreTrue(tele, known.updates)' /\ OfThisAccount' BY <1>1, <1>3, CapacityKept DEF SameRates
<1>8. ContextInv' /\ ContextIsCurrent' /\ ForgetInv'
  BY <1>1, <1>3, <1>5 DEF ContextInv, ContextIsCurrent, ForgetInv, ContextFresh
<1>9. TeleTypes' BY <1>1, <1>3, <1>4, <1>5 DEF TeleTypes
<1>10. SourceInv' BY <1>1, <1>3, <1>5 DEF SourceInv, SameRates
<1> QED BY <1>6, <1>7, <1>8, <1>9, <1>10

\* A row of a transcript.
LEMMA RowIsUpdate ==
    ASSUME NEW at \in Nat \ {0}, NEW u \in RowUpdates(at)
    PROVE  u \in Updates /\ u.id = 0 /\ u.of = 1
<1>1. {"five_hour"} \subseteq Buckets /\ {"limits:row"} \subseteq Buckets /\ {"limits"} \subseteq Collections
  BY DEF Buckets, Collections
<1>2. ClaudeEvent(at, 1) \in Updates /\ ClaudeEvent(at, 1).id = 0 /\ ClaudeEvent(at, 1).of = 1
  BY <1>1 DEF ClaudeEvent, Update, Updates
<1>3. ASSUME NEW w \in Windows
      PROVE  CodexRates(w, "merge", at, 0, 1) \in Updates /\ CodexRates(w, "merge", at, 0, 1).id = 0
             /\ CodexRates(w, "merge", at, 0, 1).of = 1
  BY <1>1 DEF CodexRates, Update, Updates
<1>4. ASSUME u \in {ClaudeUsage(w, l, "none", at, 1) : w \in Windows, l \in Lists}
      PROVE  u \in Updates /\ u.id = 0 /\ u.of = 1
  <2>1. PICK w \in Windows, l \in Lists : u = ClaudeUsage(w, l, "none", at, 1) BY <1>4
  <2>2. ClaudeUsage(w, l, "none", at, 1) \in Updates /\ ClaudeUsage(w, l, "none", at, 1).id = 0
        /\ ClaudeUsage(w, l, "none", at, 1).of = 1
    BY <1>1 DEF ClaudeUsage, Update, Updates
  <2> QED BY <2>1, <2>2
<1>5. ASSUME u \in {CodexRates(w, "merge", at, 0, 1) : w \in Windows}
      PROVE  u \in Updates /\ u.id = 0 /\ u.of = 1
  <2>1. PICK w \in Windows : u = CodexRates(w, "merge", at, 0, 1) BY <1>5
  <2> QED BY <1>3, <2>1
<1> QED BY <1>2, <1>4, <1>5 DEF RowUpdates

LEMMA RowsKeep ==
    ASSUME TeleInv, Row \/ \E n \in 1..MaxRows : ObservesRow(n)
    PROVE  TeleInv'
<1> USE DEF TeleInv
<1>1. source = "rows" /\ UNCHANGED <<source, runtime, stdout, rateRead, ctxRead, auto>> BY DEF Row, ObservesRow
<1>2. tele \in Stores /\ rows \in Seq(Updates) /\ MaxRows \in Nat BY TelemetryAssumption DEF TeleTypes
<1>3. ~tele.closed /\ known.account = 1 /\ \A n \in DOMAIN rows : rows[n].id = 0 /\ rows[n].of = 1
  BY <1>1 DEF SourceInv
<1>4. ASSUME Row
      PROVE  TeleInv'
  <2>0. PICK at \in LastRowAt..MaxRows : \E u \in RowUpdates(at) : rows' = Append(rows, u) BY <1>4 DEF Row
  <2>1. PICK u \in RowUpdates(at) : rows' = Append(rows, u) BY <2>0
  <2>2. UNCHANGED <<tele, known>> BY <1>4 DEF Row
  <2>3. LastRowAt \in Nat /\ LastRowAt > 0 BY <1>2, UpdateFields DEF LastRowAt
  <2>4. at \in Nat \ {0} BY <1>2, <2>3
  <2>5. u \in Updates /\ u.id = 0 /\ u.of = 1 BY <2>1, <2>4, RowIsUpdate
  <2>6. rows' \in Seq(Updates) /\ \A n \in DOMAIN rows' : rows'[n].id = 0 /\ rows'[n].of = 1
    BY <1>2, <1>3, <2>1, <2>5
  <2>7. TeleTypes' /\ SourceInv' BY <1>1, <2>2, <2>6 DEF TeleTypes, SourceInv
  <2>8. AccountsInv' /\ ChangesInv' /\ RateReadInv' /\ CtxReadInv' /\ AnswersInv'
    BY <1>1, <2>2, HandlersKeepReads
  <2>9. StoreTrue(tele, known.updates)' /\ OfThisAccount' BY <2>2, CapacityKept
  <2>10. ContextInv' /\ ContextIsCurrent' /\ ForgetInv' BY <1>1, <2>2, ContextKept
  <2> QED BY <2>7, <2>8, <2>9, <2>10
<1>5. ASSUME NEW n \in 1..MaxRows, ObservesRow(n)
      PROVE  TeleInv'
  <2> DEFINE u == rows[n]
  <2>1. /\ n \in DOMAIN rows /\ tele' = UpdateRates(tele, u) /\ UNCHANGED rows
        /\ known' = IF Outdated(tele, u) THEN known ELSE [known EXCEPT !.updates = @ \cup {u}]
    BY <1>5 DEF ObservesRow
  <2>2. u \in Updates /\ u.id = 0 /\ u.of = 1 BY <1>2, <1>3, <2>1
  <2> HIDE DEF u
  <2>3. tele' \in Stores /\ SameContext(tele, tele') BY <1>2, <2>1, <2>2, UpdateRatesTypes DEF SameContext
  <2>4. /\ known' \in Knowledge /\ (known.account)' = known.account /\ (known.changes)' = known.changes
        /\ (known.lastRead)' = known.lastRead
        /\ Outdated(tele, u) => (known.updates)' = known.updates
        /\ ~Outdated(tele, u) => (known.updates)' = known.updates \cup {u}
    BY <2>2, KnownFields, <2>1 DEF Knowledge
  <2>5. StoreTrue(tele, known.updates)' /\ OfThisAccount'
    <3>1. CASE Outdated(tele, u) BY <2>1, <3>1, <2>4, CapacityKept DEF UpdateRates
    <3>2. CASE ~Outdated(tele, u)
      <4>1. ~ScopeChanged(tele, u) BY <2>2 DEF ScopeChanged
      <4>2. known.updates \subseteq Updates BY KnownFields
      <4>3. /\ StoreTrue(UpdateRates(tele, u), known.updates \cup {u})
            /\ \A b \in Shown(UpdateRates(tele, u)) :
                   \/ UpdateRates(tele, u).rates.buckets[b].of = u.of
                   \/ b \in Shown(tele) /\ UpdateRates(tele, u).rates.buckets[b].of = tele.rates.buckets[b].of
        BY <1>2, <1>3, <2>2, <3>2, <4>1, <4>2, UpdateRatesIsTrue
      <4>4. OfThisAccount' BY <1>3, <2>1, <2>2, <2>4, <4>3 DEF OfThisAccount
      <4> QED BY <2>1, <2>4, <3>2, <4>3, <4>4
    <3> QED BY <3>1, <3>2
  <2>6. TeleTypes' /\ SourceInv' BY <1>1, <2>1, <2>3, <2>4 DEF TeleTypes, SourceInv, SameContext
  <2>7. AccountsInv' /\ ChangesInv' /\ RateReadInv' /\ CtxReadInv' /\ AnswersInv'
    BY <1>1, <2>3, <2>4, HandlersKeepReads DEF SameContext
  <2>8. ContextInv' /\ ContextIsCurrent' /\ ForgetInv' BY <1>1, <2>3, <2>4, ContextKept DEF SameContext
  <2> QED BY <2>5, <2>6, <2>7, <2>8
<1> QED BY <1>4, <1>5

\* A refresh of the context is asked for.
LEMMA RequestsGive ==
    ASSUME TeleTypes, NEW flags \in Flags, NEW read \in ReadRecord, Requests(flags, read),
           flags.running => read.at # "none"
    PROVE  /\ auto' \in Flags /\ (auto.observed)' = flags.observed /\ (auto.timer)' = flags.timer
           /\ \/ ctxRead' = read /\ UNCHANGED runtime
              \/ ctxRead' = Awaiting /\ AsksFor("context") /\ tele.contextSupport # "unsupported"
           /\ tele.contextSupport # "unsupported" => (ctxRead.at)' # "none"
           /\ (auto.running)' => (ctxRead.at)' # "none"
<1>1. Awaiting.at = "asked" BY ReadTypes
<1>2. auto' \in Flags /\ (auto.observed)' = flags.observed /\ (auto.timer)' = flags.timer
      /\ (auto.running)' = (flags.running \/ tele.contextSupport # "unsupported")
  BY DEF Requests, Flags
<1>3. \/ /\ ctxRead' = read /\ UNCHANGED runtime
         /\ flags.running \/ tele.contextSupport = "unsupported" \/ read.at # "none"
      \/ ctxRead' = Awaiting /\ AsksFor("context") /\ tele.contextSupport # "unsupported"
  BY DEF Requests
<1> QED BY <1>1, <1>2, <1>3

\* The moment is over after which the context is asked for again.
LEMMA TimerFiresKeeps ==
    ASSUME TeleInv, TimerFires
    PROVE  TeleInv'
<1> USE DEF TeleInv
<1> DEFINE flags == [auto EXCEPT !.timer = FALSE]
<1>1. /\ auto.timer /\ UNCHANGED <<tele, source, stdout, rateRead, rows, known>>
      /\ tele.closed => Quietly(flags, ctxRead)
      /\ ~tele.closed => Requests(flags, ctxRead)
  BY DEF TimerFires
<1>2. /\ flags \in Flags /\ flags.running = auto.running /\ flags.observed = auto.observed
      /\ ctxRead \in ReadRecord
  BY DEF TeleTypes, Flags
<1> HIDE DEF flags
<1>3. source = "claude" /\ (auto.running => ctxRead.at # "none") BY <1>1 DEF SourceInv, ContextInv
<1>4. /\ auto' \in Flags /\ (auto.observed)' = auto.observed
      /\ \/ UNCHANGED <<ctxRead, runtime>>
         \/ ctxRead' = Awaiting /\ AsksFor("context") /\ tele.contextSupport # "unsupported"
      /\ ~tele.closed /\ tele.contextSupport # "unsupported" => (ctxRead.at)' # "none"
      /\ (auto.running)' => (ctxRead.at)' # "none"
  <2>1. CASE tele.closed BY <1>1, <1>2, <1>3, <2>1 DEF Quietly
  <2>2. CASE ~tele.closed BY <1>1, <1>2, <1>3, <2>2, RequestsGive
  <2> QED BY <2>1, <2>2
<1>5. /\ ctxRead' \in ReadRecord
      /\ UNCHANGED runtime \/ \E what \in Whats : AsksFor(what)
      /\ \/ UNCHANGED ctxRead
         \/ (ctxRead.at)' = "asked" /\ (ctxRead.id)' = FreshId /\ (ctxRead.answer.changes)' = 0
  BY <1>2, <1>4, ReadTypes DEF Whats
<1>6. /\ runtime' \in Runtimes /\ IsFiniteSet((runtime.asked)')
      /\ (runtime.account)' = runtime.account /\ (runtime.changes)' = runtime.changes
      /\ AccountsInv' /\ ChangesInv' /\ RateReadInv' /\ CtxReadInv' /\ AnswersInv'
  BY <1>1, <1>5, HandlersKeepReads
<1>7. TeleTypes' /\ SourceInv' BY <1>1, <1>3, <1>4, <1>5, <1>6 DEF TeleTypes, SourceInv
<1>8. StoreTrue(tele, known.updates)' /\ OfThisAccount' BY <1>1, CapacityKept
<1>9. ContextInv' /\ ContextIsCurrent' /\ ForgetInv'
  BY <1>1, <1>4, <1>5, <1>6 DEF ContextInv, ContextIsCurrent, ForgetInv, ContextFresh
<1> QED BY <1>6, <1>7, <1>8, <1>9

\* The handler of the context goes on.
LEMMA ContextAnsweredKeeps ==
    ASSUME TeleInv, ContextAnswered
    PROVE  TeleInv'
<1> USE DEF TeleInv
<1> DEFINE answer == ctxRead.answer
           tells == answer.how = "ok"
           again == tells /\ Crossed(ctxRead)
           after == [auto EXCEPT !.observed = @ \/ tells, !.requested = @ \/ again,
                                 !.timer = @ \/ (again /\ ~auto.running)]
           v == [at |-> 1, changes |-> answer.changes]
           goesOn == after.running /\ after.requested /\ ~tele.closed /\ answer.how # "unsupported"
<1>1. /\ ctxRead.at = "answered" /\ UNCHANGED <<source, stdout, rateRead, rows>>
      /\ tele' = (IF again THEN tele ELSE IF tells THEN SetContext(tele, v)
                  ELSE IF answer.how = "unsupported" THEN NoContextSupport(tele)
                  ELSE InvalidateContext(tele))
      /\ goesOn => auto' = [after EXCEPT !.requested = FALSE] /\ ctxRead' = Awaiting /\ AsksFor("context")
      /\ ~goesOn => auto' = [after EXCEPT !.running = FALSE] /\ ctxRead' = Idle /\ UNCHANGED runtime
      /\ known' = [known EXCEPT !.lastRead = IF tells THEN "told" ELSE "failed"]
  BY DEF ContextAnswered, Quietly
<1>2. /\ tele \in Stores /\ answer \in Heard /\ answer.changes \in Nat /\ source = "claude"
      /\ auto \in Flags /\ tele.contextSupport # "unsupported"
  BY <1>1 DEF TeleTypes, ReadRecord, Heard, SourceInv, ContextInv
<1>3. /\ after \in Flags /\ after.running = auto.running
      /\ again => after.requested /\ (after.timer \/ after.running)
  BY <1>2 DEF Flags
<1>4. /\ tells /\ ~again => answer.changes >= known.changes
      /\ answer.changes <= runtime.changes
  BY <1>1 DEF CtxReadInv, AnswersInv, Crossed
<1>5. v \in [at : Nat, changes : Nat] /\ v.at = 1 /\ v.changes = answer.changes BY <1>2
<1>6. tells => answer.how # "unsupported" OBVIOUS
<1>7. again => tells OBVIOUS
<1> HIDE DEF after, again, v
<1>8. /\ auto' \in Flags /\ (auto.timer)' = after.timer
      /\ goesOn => (auto.running)' = auto.running /\ ctxRead' = Awaiting
      /\ ~goesOn => (auto.running)' = FALSE /\ ctxRead' = Idle
  BY <1>1, <1>3 DEF Flags
<1>9. /\ known' \in Knowledge /\ (known.account)' = known.account /\ (known.changes)' = known.changes
      /\ (known.updates)' = known.updates
      /\ (known.lastRead)' = (IF tells THEN "told" ELSE "failed")
  BY <1>1, KnownFields DEF Knowledge
<1>10. /\ ctxRead' \in ReadRecord
       /\ UNCHANGED runtime \/ \E what \in Whats : AsksFor(what)
       /\ goesOn => /\ (ctxRead.at)' = "asked" /\ (ctxRead.id)' = FreshId /\ (ctxRead.answer.changes)' = 0
       /\ ~goesOn => (ctxRead.at)' = "none" /\ (ctxRead.answer.changes)' = 0
  BY <1>1, <1>8, ReadTypes DEF Whats
<1>11. /\ tele' \in Stores /\ SameRates(tele, tele') /\ (tele.closed)' = tele.closed
       /\ again => tele' = tele
       /\ tells /\ ~again /\ ~tele.closed =>
              /\ (tele.context)' = v /\ (tele.contextSupport)' = "supported" /\ (tele.invalid)' = FALSE
       /\ tells /\ tele.closed => tele' = tele
       /\ ~tells /\ answer.how = "unsupported" =>
              /\ (tele.context)' = NoContext /\ (tele.contextSupport)' = "unsupported"
              /\ (tele.invalid)' = tele.invalid
       /\ ~tells /\ answer.how # "unsupported" =>
              /\ (tele.context)' = tele.context /\ (tele.contextSupport)' = tele.contextSupport
              /\ (tele.invalid)' = TRUE
  <2>1. CASE again BY <1>1, <1>2, <1>7, <2>1 DEF SameRates
  <2>2. CASE tells /\ ~again
    <3>1. tele' = SetContext(tele, v) BY <1>1, <2>2
    <3>2. tele.context.at <= 1 /\ tele.context.at \in Nat BY <1>2 DEF ContextInv, Stores
    <3>3. CASE tele.closed BY <1>2, <2>2, <3>1, <3>3 DEF SetContext, SameRates
    <3>4. CASE ~tele.closed
      <4>1. tele' = [tele EXCEPT !.context = v, !.contextSupport = "supported", !.invalid = FALSE]
        BY <1>5, <3>1, <3>2, <3>4 DEF SetContext
      <4> QED BY <1>2, <1>5, <2>2, <3>4, <4>1 DEF Stores, Supports, SameRates
    <3> QED BY <3>3, <3>4
  <2>3. CASE ~tells /\ answer.how = "unsupported" BY <1>1, <1>2, <1>7, <2>3, StoreSteps
  <2>4. CASE ~tells /\ answer.how # "unsupported" BY <1>1, <1>2, <1>7, <2>4, StoreSteps
  <2> QED BY <1>6, <1>7, <2>1, <2>2, <2>3, <2>4
<1>12. /\ runtime' \in Runtimes /\ IsFiniteSet((runtime.asked)')
       /\ (runtime.account)' = runtime.account /\ (runtime.changes)' = runtime.changes
       /\ AccountsInv' /\ ChangesInv' /\ RateReadInv' /\ CtxReadInv' /\ AnswersInv'
  BY <1>1, <1>9, <1>10, <1>11, HandlersKeepReads
<1>13. TeleTypes' /\ SourceInv'
  BY <1>1, <1>2, <1>8, <1>9, <1>10, <1>11, <1>12 DEF TeleTypes, SourceInv, SameRates
<1>14. StoreTrue(tele, known.updates)' /\ OfThisAccount' BY <1>9, <1>11, CapacityKept DEF SameRates
<1>15. ContextInv'
  <2>1. (tele.closed)' => (tele.invalid)' BY <1>6, <1>11 DEF ContextInv
  <2>2. (tele.contextSupport)' = "unsupported" => (ctxRead.at)' = "none" BY <1>2, <1>10, <1>11
  <2>3. /\ (tele.contextSupport)' = "supported" => (tele.context.at)' > 0
        /\ (tele.context.at)' <= 1
    BY <1>2, <1>5, <1>11 DEF ContextInv, NoContext
  <2>4. (auto.running)' => (ctxRead.at)' # "none" BY <1>8, <1>10
  <2>5. ~FirstReadCrossed => \A i \in DOMAIN stdout' : stdout'[i].kind = "model" =>
            (tele.context.at)' > 0 \/ (tele.contextSupport)' = "unsupported"
    BY <1>1, <1>2, <1>5, <1>11 DEF ContextInv
  <2> QED BY <2>1, <2>2, <2>3, <2>4, <2>5 DEF ContextInv
<1>16. ContextIsCurrent' BY <1>4, <1>5, <1>9, <1>11 DEF ContextIsCurrent, ContextFresh
<1>17. ForgetInv'
  <2> SUFFICES ASSUME ~(tele.closed)', (tele.contextSupport)' = "supported",
                      (known.changes)' = (runtime.changes)', (ctxRead.at)' = "none",
                      ~(auto.timer)', (known.lastRead)' # "failed"
               PROVE  ContextFresh(tele)' /\ (tele.context.changes)' = (runtime.changes)'
    BY DEF ForgetInv
  <2>1. tells /\ ~goesOn /\ ~tele.closed BY <1>9, <1>10, <1>11
  <2>2. ~again BY <1>3, <1>8, <2>1
  <2>3. (tele.context)' = v /\ (tele.invalid)' = FALSE BY <1>11, <2>1, <2>2
  <2>4. answer.changes = runtime.changes
    <3>1. runtime.changes \in Nat /\ known.changes = runtime.changes BY <1>9, <1>12 DEF TeleTypes, Runtimes
    <3> QED BY <1>2, <1>4, <2>1, <2>2, <3>1
  <2> QED BY <1>5, <1>12, <2>3, <2>4 DEF ContextFresh
<1> QED BY <1>12, <1>13, <1>14, <1>15, <1>16, <1>17

-----------------------------------------------------------------------------
(* Telemetry: a line is read                                               *)

LEMMA HeadOf ==
    ASSUME TeleInv, stdout # << >>
    PROVE  /\ Head(stdout) \in RuntimeLines /\ Head(stdout) = stdout[1] /\ 1 \in DOMAIN stdout
           /\ Tail(stdout) \in Seq(RuntimeLines) /\ source # "rows" /\ rows = << >>
           /\ Len(stdout) \in Nat /\ Len(Tail(stdout)) = Len(stdout) - 1
           /\ \A i \in DOMAIN Tail(stdout) : i + 1 \in DOMAIN stdout /\ Tail(stdout)[i] = stdout[i + 1]
           /\ \A i \in DOMAIN Tail(stdout) : \E j \in DOMAIN stdout : Tail(stdout)[i] = stdout[j]
<1>1. stdout \in Seq(RuntimeLines) /\ source # "rows" /\ rows = << >> BY DEF TeleInv, TeleTypes, SourceInv
<1>2. /\ Head(stdout) \in RuntimeLines /\ Head(stdout) = stdout[1] /\ 1 \in DOMAIN stdout
      /\ Tail(stdout) \in Seq(RuntimeLines)
      /\ Len(stdout) \in Nat /\ Len(Tail(stdout)) = Len(stdout) - 1
      /\ \A i \in DOMAIN Tail(stdout) : i + 1 \in DOMAIN stdout /\ Tail(stdout)[i] = stdout[i + 1]
  BY <1>1
<1> QED BY <1>1, <1>2

\* What the session learns of the account and of the context.
LEMMA LearnsFrom ==
    ASSUME TeleInv, ReadsLine, NEW line, line = Head(stdout), NEW deaf \in BOOLEAN, deaf <=> Deaf(line)
    PROVE  /\ known' \in Knowledge /\ (known.lastRead)' = known.lastRead
           /\ ~deaf /\ line.kind = "auth" => (known.account)' = known.account + 1
           /\ deaf \/ line.kind # "auth" => (known.account)' = known.account
           /\ ~deaf /\ line.kind \in {"compacted", "model"} => (known.changes)' = known.changes + 1
           /\ deaf \/ line.kind \notin {"compacted", "model"} => (known.changes)' = known.changes
           /\ deaf => (known.updates)' = known.updates
           /\ ~deaf => (known.updates)' = (IF NewScope(line) THEN {} ELSE known.updates)
                                          \cup (IF line.kind = "rates" THEN {line.update} ELSE {})
<1>1. /\ stdout # << >>
      /\ known' = IF deaf THEN known
                  ELSE [known EXCEPT
                      !.account = IF line.kind = "auth" THEN @ + 1 ELSE @,
                      !.changes = IF line.kind \in {"compacted", "model"} THEN @ + 1 ELSE @,
                      !.updates = (IF NewScope(line) THEN {} ELSE @)
                                  \cup (IF line.kind = "rates" THEN {line.update} ELSE {})]
  BY DEF ReadsLine
<1>2. line.kind = "rates" => line.update \in Updates BY <1>1, HeadOf, RuntimeLineFields
<1> DEFINE account == IF line.kind = "auth" THEN known.account + 1 ELSE known.account
           changes == IF line.kind \in {"compacted", "model"} THEN known.changes + 1 ELSE known.changes
           updates == (IF NewScope(line) THEN {} ELSE known.updates)
                      \cup (IF line.kind = "rates" THEN {line.update} ELSE {})
<1>3. known \in Knowledge /\ account \in Nat /\ changes \in Nat BY KnownFields DEF TeleInv
<1>4. updates \in SUBSET Updates BY <1>2, KnownFields DEF TeleInv
<1>5. ~deaf => known' = [known EXCEPT !.account = account, !.changes = changes, !.updates = updates] BY <1>1
<1>6. deaf => known' = known BY <1>1
<1>7. /\ line.kind = "auth" => account = known.account + 1
      /\ line.kind # "auth" => account = known.account
      /\ line.kind \in {"compacted", "model"} => changes = known.changes + 1
      /\ line.kind \notin {"compacted", "model"} => changes = known.changes
  OBVIOUS
<1>8. updates = (IF NewScope(line) THEN {} ELSE known.updates)
                \cup (IF line.kind = "rates" THEN {line.update} ELSE {})
  OBVIOUS
<1> HIDE DEF account, changes, updates
<1>9. ~deaf => /\ known' \in Knowledge /\ (known.lastRead)' = known.lastRead
               /\ (known.account)' = account /\ (known.changes)' = changes /\ (known.updates)' = updates
  BY <1>3, <1>4, <1>5 DEF Knowledge
<1> QED BY <1>3, <1>6, <1>7, <1>8, <1>9

\* What the store is told.
LEMMA StoreTold ==
    ASSUME TeleInv, ReadsLine, NEW line, line = Head(stdout), NEW deaf \in BOOLEAN, deaf <=> Deaf(line)
    PROVE  /\ tele' \in Stores /\ (tele.closed)' = tele.closed /\ (tele.context)' = tele.context
           /\ (tele.contextSupport)' = tele.contextSupport /\ (tele.rates.at)' <= 1
           /\ \A u \in (known.updates)' : u.at = 1
           /\ ~deaf /\ NewContext(line) => (tele.invalid)' = TRUE
           /\ deaf \/ ~NewContext(line) => (tele.invalid)' = tele.invalid
           /\ StoreTrue(tele, known.updates)' /\ OfThisAccount'
<1> USE DEF TeleInv
<1>1. /\ stdout # << >> /\ tele' = IF deaf THEN tele ELSE Told(line) BY DEF ReadsLine
<1>2. /\ line \in RuntimeLines /\ source # "rows" /\ line = stdout[1] /\ 1 \in DOMAIN stdout BY <1>1, HeadOf
<1>3. /\ line.kind \in {"auth", "compacted", "model", "result", "rates", "answer"}
      /\ line.kind = "rates" => line.update \in Updates
  BY <1>2, RuntimeLineFields
<1>4. /\ tele \in Stores /\ tele.rates.at <= 1 /\ known.updates \in SUBSET Updates
      /\ \A u \in known.updates : u.at = 1
  BY <1>2, KnownFields DEF TeleTypes, SourceInv
<1>5. /\ ~deaf /\ line.kind = "auth" => (known.account)' = known.account + 1
      /\ deaf \/ line.kind # "auth" => (known.account)' = known.account
      /\ deaf => (known.updates)' = known.updates
      /\ ~deaf => (known.updates)' = (IF NewScope(line) THEN {} ELSE known.updates)
                                     \cup (IF line.kind = "rates" THEN {line.update} ELSE {})
  BY LearnsFrom
<1>6. CASE deaf BY <1>1, <1>5, <1>6, <1>4, CapacityKept
<1>7. CASE ~deaf /\ line.kind = "auth"
  <2>1. tele' = ResetRates(tele) /\ NewScope(line) /\ ~NewContext(line)
    BY <1>1, <1>7 DEF Told, NewScope, NewContext
  <2>2. (known.updates)' = {} BY <1>5, <1>7, <2>1
  <2>3. tele' \in Stores /\ SameContext(tele, tele') /\ (tele.rates)' = NoRates BY <1>4, <2>1, StoreSteps
  <2>4. StoreTrue(tele', {}) /\ Shown(tele') = {} /\ (tele.rates.at)' = 0 BY <2>3, NothingShown
  <2> QED BY <2>1, <2>2, <2>3, <2>4 DEF SameContext, OfThisAccount
<1>8. CASE ~deaf /\ line.kind = "rates"
  <2> DEFINE u == line.update
  <2>1. u \in Updates /\ u.at = 1 /\ u.mode = "merge" BY <1>2, <1>3, <1>8 DEF SourceInv
  <2>2. ~tele.closed BY <1>8 DEF Deaf
  <2>3. tele' = UpdateRates(tele, u) /\ ~NewContext(line) /\ (NewScope(line) <=> ScopeChanged(tele, u))
    BY <1>1, <1>8 DEF Told, NewScope, NewContext
  <2>4. u.of >= known.account
    <3>1. PICK f \in [0..Len(stdout) -> Nat] :
              /\ Counts(stdout, f, {"auth"}, runtime.account) /\ known.account <= f[0]
              /\ \A i \in DOMAIN stdout : stdout[i].kind = "rates" => stdout[i].update.of >= f[i]
      BY DEF AccountsInv
    <3>2. Len(stdout) \in Nat /\ DOMAIN stdout = 1..Len(stdout) BY DEF TeleTypes
    <3>3. 1 \in 1..Len(stdout) /\ 1 - 1 = 0 /\ 0 \in 0..Len(stdout) BY <1>2, <3>2
    <3>4. f[1] = f[0] BY <3>1, <3>3, <1>2, <1>8 DEF Counts
    <3>5. u.of >= f[1] BY <1>2, <1>8, <3>1
    <3> QED BY <2>1, <3>1, <3>3, <3>4, <3>5, KnownFields, UpdateFields
  <2> HIDE DEF u
  <2>5. (known.updates)' = IF ScopeChanged(tele, u) THEN {u} ELSE known.updates \cup {u}
    BY <1>5, <1>8, <2>3 DEF u
  <2>6. /\ tele' \in Stores /\ SameContext(tele, tele') /\ (tele.rates.at)' <= 1
    BY <1>4, <2>1, <2>3, UpdateRatesTypes DEF SameContext
  <2>7. ~Outdated(tele, u) BY <2>1 DEF Outdated
  <2>8. /\ StoreTrue(UpdateRates(tele, u), IF ScopeChanged(tele, u) THEN {u} ELSE known.updates \cup {u})
        /\ \A b \in Shown(UpdateRates(tele, u)) :
               \/ UpdateRates(tele, u).rates.buckets[b].of = u.of
               \/ b \in Shown(tele) /\ UpdateRates(tele, u).rates.buckets[b].of = tele.rates.buckets[b].of
    BY <1>4, <2>1, <2>2, <2>7, UpdateRatesIsTrue
  <2>9. OfThisAccount' BY <1>5, <1>8, <2>3, <2>4, <2>8 DEF OfThisAccount
  <2>10. \A w \in (known.updates)' : w.at = 1 BY <1>4, <2>1, <2>5
  <2> QED BY <2>3, <2>5, <2>6, <2>8, <2>9, <2>10 DEF SameContext
<1>9. CASE ~deaf /\ line.kind \notin {"auth", "rates"}
  <2>1. /\ (known.updates)' = known.updates /\ (known.account)' = known.account BY <1>5, <1>9 DEF NewScope
  <2>2. tele' = IF NewContext(line) THEN InvalidateContext(tele) ELSE tele BY <1>1, <1>9 DEF Told, NewContext
  <2>3. /\ tele' \in Stores /\ SameRates(tele, tele') /\ (tele.closed)' = tele.closed
        /\ (tele.context)' = tele.context /\ (tele.contextSupport)' = tele.contextSupport
        /\ NewContext(line) => (tele.invalid)' = TRUE
        /\ ~NewContext(line) => (tele.invalid)' = tele.invalid
    BY <1>4, <2>2, StoreSteps DEF SameRates
  <2>4. StoreTrue(tele, known.updates)' /\ OfThisAccount' BY <2>1, <2>3, CapacityKept DEF SameRates
  <2> QED BY <1>4, <1>9, <2>1, <2>3, <2>4 DEF SameRates
<1> QED BY <1>6, <1>7, <1>8, <1>9

\* The reads: what is settled, and what a change goes under.
LEMMA ReadsTold ==
    ASSUME TeleInv, ReadsLine, NEW line, line = Head(stdout), NEW deaf \in BOOLEAN, deaf <=> Deaf(line)
    PROVE  /\ rateRead' \in ReadRecord /\ ctxRead' \in ReadRecord /\ auto' \in Flags
           /\ UNCHANGED runtime \/ \E what \in Whats : AsksFor(what)
           /\ \/ /\ line.kind = "answer" /\ rateRead.at = "asked" /\ rateRead.id = line.id
                 /\ (rateRead.at)' = "answered" /\ (rateRead.answer)' = line
                 /\ (rateRead.moved)' = rateRead.moved
              \/ ~deaf /\ NewScope(line) /\ ((rateRead.at)' = "none" \/ (rateRead.moved)')
              \/ (deaf \/ ~NewScope(line)) /\ UNCHANGED rateRead
           /\ \/ /\ line.kind = "answer" /\ ctxRead.at = "asked" /\ ctxRead.id = line.id
                 /\ (ctxRead.at)' = "answered" /\ (ctxRead.answer)' = line
                 /\ (ctxRead.moved)' = ctxRead.moved
              \/ /\ (ctxRead.at)' = "asked" /\ (ctxRead.id)' = FreshId /\ (ctxRead.answer.changes)' = 0
                 /\ tele.contextSupport # "unsupported" /\ auto.observed
              \/ /\ ~deaf /\ NewContext(line) /\ (ctxRead.answer)' = ctxRead.answer
                 /\ (ctxRead.at)' = ctxRead.at /\ (ctxRead.at = "none" \/ (ctxRead.moved)')
              \/ (deaf \/ ~NewContext(line)) /\ UNCHANGED ctxRead
           /\ ctxRead.at # "none" => (ctxRead.at)' # "none"
           /\ (auto.running)' => (ctxRead.at)' # "none"
           /\ (auto.timer)' = auto.timer /\ (auto.observed)' = auto.observed
           /\ ~deaf /\ auto.observed /\ line.kind \in {"compacted", "model", "result"}
              /\ tele.contextSupport # "unsupported" => (ctxRead.at)' # "none"
<1> DEFINE read == IF Settles(line, ctxRead) THEN Settled(ctxRead, line)
                   ELSE IF ~deaf /\ NewContext(line) THEN Moved(ctxRead) ELSE ctxRead
           demands == ~deaf /\ auto.observed /\ line.kind \in {"compacted", "model", "result"}
<1>1. /\ stdout # << >>
      /\ rateRead' = (IF Settles(line, rateRead) THEN Settled(rateRead, line)
                      ELSE IF ~deaf /\ NewScope(line) THEN Moved(rateRead) ELSE rateRead)
      /\ demands => Requests(auto, read)
      /\ ~demands => auto' = auto /\ ctxRead' = read /\ UNCHANGED runtime
  BY DEF ReadsLine, Quietly
<1>2. /\ line \in RuntimeLines /\ rateRead \in ReadRecord /\ ctxRead \in ReadRecord /\ auto \in Flags /\ TeleTypes
  BY <1>1, HeadOf DEF TeleInv, TeleTypes
<1>3. line.kind = "answer" => line \in Heard BY <1>2, RuntimeLineFields, AnswerFields
<1>4. ASSUME NEW old \in ReadRecord
      PROVE  /\ Settles(line, old) => /\ line.kind = "answer" /\ old.at = "asked" /\ old.id = line.id
                                      /\ Settled(old, line) \in ReadRecord /\ Settled(old, line).at = "answered"
                                      /\ Settled(old, line).answer = line /\ Settled(old, line).moved = old.moved
             /\ Moved(old) \in ReadRecord /\ Moved(old).at = old.at /\ Moved(old).answer = old.answer
             /\ (old.at # "none" => Moved(old).moved)
  BY <1>2, <1>3, ReadTypes DEF Settles, Settled, ReadRecord
<1>5. /\ rateRead' \in ReadRecord
      /\ \/ /\ line.kind = "answer" /\ rateRead.at = "asked" /\ rateRead.id = line.id
            /\ (rateRead.at)' = "answered" /\ (rateRead.answer)' = line
            /\ (rateRead.moved)' = rateRead.moved
         \/ ~deaf /\ NewScope(line) /\ ((rateRead.at)' = "none" \/ (rateRead.moved)')
         \/ (deaf \/ ~NewScope(line)) /\ UNCHANGED rateRead
  BY <1>1, <1>2, <1>4
<1>6. /\ read \in ReadRecord
      /\ \/ /\ line.kind = "answer" /\ ctxRead.at = "asked" /\ ctxRead.id = line.id
            /\ read.at = "answered" /\ read.answer = line /\ read.moved = ctxRead.moved
         \/ /\ ~deaf /\ NewContext(line) /\ read.answer = ctxRead.answer
            /\ read.at = ctxRead.at /\ (ctxRead.at = "none" \/ read.moved)
         \/ (deaf \/ ~NewContext(line)) /\ read = ctxRead
  BY <1>2, <1>4
<1>7. /\ ctxRead.at # "none" => read.at # "none"
      /\ auto.running => read.at # "none"
  BY <1>6 DEF TeleInv, ContextInv
<1> HIDE DEF read
<1>8. CASE demands
  <2>1. /\ auto' \in Flags /\ (auto.observed)' = auto.observed /\ (auto.timer)' = auto.timer
        /\ \/ ctxRead' = read /\ UNCHANGED runtime
           \/ ctxRead' = Awaiting /\ AsksFor("context") /\ tele.contextSupport # "unsupported"
        /\ tele.contextSupport # "unsupported" => (ctxRead.at)' # "none"
        /\ (auto.running)' => (ctxRead.at)' # "none"
    BY <1>1, <1>2, <1>6, <1>7, <1>8, RequestsGive
  <2>2. /\ Awaiting \in ReadRecord /\ Awaiting.at = "asked" /\ Awaiting.id = FreshId
        /\ Awaiting.answer.changes = 0
    BY <1>2, ReadTypes
  <2>3. CASE ctxRead' = read /\ UNCHANGED runtime BY <1>5, <1>6, <1>7, <2>1, <2>3
  <2>4. CASE ctxRead' = Awaiting /\ AsksFor("context") /\ tele.contextSupport # "unsupported"
    BY <1>5, <1>8, <2>1, <2>2, <2>4 DEF Whats
  <2> QED BY <2>1, <2>3, <2>4
<1>9. CASE ~demands BY <1>1, <1>2, <1>5, <1>6, <1>7, <1>9
<1> QED BY <1>8, <1>9

LEMMA ReadsLineKeeps ==
    ASSUME TeleInv, ReadsLine, ~FirstReadCrossed
    PROVE  TeleInv'
<1> USE DEF TeleInv
<1> DEFINE line == Head(stdout)
           deaf == Deaf(line)
<1>1. stdout # << >> /\ stdout' = Tail(stdout) /\ UNCHANGED <<source, rows>> BY DEF ReadsLine
<1>2. /\ line \in RuntimeLines /\ line = stdout[1] /\ 1 \in DOMAIN stdout /\ stdout' \in Seq(RuntimeLines)
      /\ source # "rows" /\ rows = << >> /\ Len(stdout) \in Nat
      /\ Len(Tail(stdout)) = Len(stdout) - 1
      /\ \A i \in DOMAIN stdout' : i + 1 \in DOMAIN stdout /\ stdout'[i] = stdout[i + 1]
      /\ \A i \in DOMAIN stdout' : \E j \in DOMAIN stdout : stdout'[i] = stdout[j]
  BY <1>1, HeadOf
<1>3. deaf \in BOOLEAN BY DEF Deaf
<1>4. deaf => tele.closed BY DEF Deaf
<1>5. /\ known' \in Knowledge /\ (known.lastRead)' = known.lastRead
      /\ ~deaf /\ line.kind = "auth" => (known.account)' = known.account + 1
      /\ deaf \/ line.kind # "auth" => (known.account)' = known.account
      /\ ~deaf /\ line.kind \in {"compacted", "model"} => (known.changes)' = known.changes + 1
      /\ deaf \/ line.kind \notin {"compacted", "model"} => (known.changes)' = known.changes
  BY <1>3, LearnsFrom
<1>6. /\ tele' \in Stores /\ (tele.closed)' = tele.closed /\ (tele.context)' = tele.context
      /\ (tele.contextSupport)' = tele.contextSupport /\ (tele.rates.at)' <= 1
      /\ \A u \in (known.updates)' : u.at = 1
      /\ ~deaf /\ NewContext(line) => (tele.invalid)' = TRUE
      /\ deaf \/ ~NewContext(line) => (tele.invalid)' = tele.invalid
      /\ StoreTrue(tele, known.updates)' /\ OfThisAccount'
  BY <1>3, StoreTold
<1>7. /\ rateRead' \in ReadRecord /\ ctxRead' \in ReadRecord /\ auto' \in Flags
      /\ UNCHANGED runtime \/ \E what \in Whats : AsksFor(what)
      /\ \/ /\ line.kind = "answer" /\ rateRead.at = "asked" /\ rateRead.id = line.id
            /\ (rateRead.at)' = "answered" /\ (rateRead.answer)' = line
            /\ (rateRead.moved)' = rateRead.moved
         \/ ~deaf /\ NewScope(line) /\ ((rateRead.at)' = "none" \/ (rateRead.moved)')
         \/ (deaf \/ ~NewScope(line)) /\ UNCHANGED rateRead
      /\ \/ /\ line.kind = "answer" /\ ctxRead.at = "asked" /\ ctxRead.id = line.id
            /\ (ctxRead.at)' = "answered" /\ (ctxRead.answer)' = line
            /\ (ctxRead.moved)' = ctxRead.moved
         \/ /\ (ctxRead.at)' = "asked" /\ (ctxRead.id)' = FreshId /\ (ctxRead.answer.changes)' = 0
            /\ tele.contextSupport # "unsupported" /\ auto.observed
         \/ /\ ~deaf /\ NewContext(line) /\ (ctxRead.answer)' = ctxRead.answer
            /\ (ctxRead.at)' = ctxRead.at /\ (ctxRead.at = "none" \/ (ctxRead.moved)')
         \/ (deaf \/ ~NewContext(line)) /\ UNCHANGED ctxRead
      /\ ctxRead.at # "none" => (ctxRead.at)' # "none"
      /\ (auto.running)' => (ctxRead.at)' # "none"
      /\ (auto.timer)' = auto.timer /\ (auto.observed)' = auto.observed
      /\ ~deaf /\ auto.observed /\ line.kind \in {"compacted", "model", "result"}
         /\ tele.contextSupport # "unsupported" => (ctxRead.at)' # "none"
  BY <1>3, ReadsTold
<1>8. /\ NewScope(line) <=> (line.kind = "auth" \/ (line.kind = "rates" /\ ScopeChanged(tele, line.update)))
      /\ NewContext(line) <=> (line.kind = "compacted" \/ (line.kind = "model" /\ tele.context.at > 0))
  BY DEF NewScope, NewContext
<1> HIDE DEF line, deaf
<1>9. /\ runtime' \in Runtimes /\ IsFiniteSet((runtime.asked)')
      /\ (runtime.account)' = runtime.account /\ (runtime.changes)' = runtime.changes
      /\ \A r \in (runtime.asked)' : r \in runtime.asked \/ (r.of = 0 /\ r.changes = 0)
      /\ \A r \in runtime.asked : r.id # FreshId
      /\ \A i \in DOMAIN stdout : stdout[i].kind = "answer" => stdout[i].id # FreshId
      /\ runtime.asked \subseteq (runtime.asked)'
  BY <1>7, AsksKeep
<1>10. TeleTypes' BY <1>1, <1>2, <1>5, <1>6, <1>7, <1>9 DEF TeleTypes
<1>11. /\ known.account \in Nat /\ known.changes \in Nat /\ runtime.changes \in Nat /\ runtime.account \in Nat
       /\ stdout \in Seq(RuntimeLines)
  BY KnownFields DEF TeleTypes, Runtimes
<1> DEFINE signedIn == {"auth"}
           changed == {"compacted", "model"}
           account == runtime.account
           changes == runtime.changes
<1>12. AccountsInv'
  <2>1. PICK f \in [0..Len(stdout) -> Nat] :
            /\ Counts(stdout, f, signedIn, account) /\ known.account <= f[0]
            /\ \A i \in DOMAIN stdout : stdout[i].kind = "rates" => stdout[i].update.of >= f[i]
    BY DEF AccountsInv
  <2>2. account \in Nat BY <1>11
  <2> HIDE DEF signedIn, account
  <2>3. PICK g \in [0..Len(Tail(stdout)) -> Nat] :
            /\ Counts(Tail(stdout), g, signedIn, account)
            /\ g[0] = f[0] + (IF Head(stdout).kind \in signedIn THEN 1 ELSE 0)
            /\ \A i \in 0..Len(Tail(stdout)) : g[i] = f[i + 1]
    BY <1>1, <1>11, <2>1, <2>2, CountsLess
  <2>4. f[0] \in Nat BY <1>2
  <2>5. (known.account)' <= g[0] BY <1>5, <1>11, <2>1, <2>3, <2>4 DEF line, signedIn
  <2>6. \A i \in DOMAIN stdout' : i \in 0..Len(Tail(stdout)) BY <1>1, <1>2
  <2>7. \A i \in DOMAIN stdout' : stdout'[i].kind = "rates" => stdout'[i].update.of >= g[i]
    BY <1>2, <2>1, <2>3, <2>6
  <2>8. Counts(stdout', g, {"auth"}, (runtime.account)') /\ g \in [0..Len(stdout') -> Nat]
    BY <1>1, <1>9, <2>3 DEF signedIn, account
  <2> QED BY <2>5, <2>7, <2>8 DEF AccountsInv
<1>13. ChangesInv' /\ (known.changes)' <= runtime.changes
  <2>1. PICK f \in [0..Len(stdout) -> Nat] :
            /\ Counts(stdout, f, changed, changes) /\ known.changes <= f[0]
            /\ ~tele.closed => known.changes = f[0]
    BY DEF ChangesInv
  <2>2. /\ changes \in Nat /\ Counts(stdout, f, changed, changes)
        /\ stdout \in Seq(RuntimeLines) /\ stdout # << >>
    BY <1>1, <1>11, <2>1
  <2> HIDE DEF changed, changes
  <2>3. PICK g \in [0..Len(Tail(stdout)) -> Nat] :
            /\ Counts(Tail(stdout), g, changed, changes)
            /\ g[0] = f[0] + (IF Head(stdout).kind \in changed THEN 1 ELSE 0)
            /\ \A i \in 0..Len(Tail(stdout)) : g[i] = f[i + 1]
    BY <2>2, CountsLess
  <2>4. f[0] \in Nat BY <1>2
  <2>5. (known.changes)' <= g[0] /\ (~tele.closed => (known.changes)' = g[0])
    BY <1>4, <1>5, <1>11, <2>1, <2>3, <2>4 DEF line, changed
  <2>6. g[0] \in Nat /\ g[0] <= changes
    <3>1. Len(Tail(stdout)) \in Nat /\ 0 \in 0..Len(Tail(stdout)) BY <1>1, <1>2
    <3>2. \A i \in 0..Len(Tail(stdout)) : g[i] <= changes BY <2>3 DEF Counts
    <3> QED BY <2>3, <3>1, <3>2
  <2>7. (known.changes)' \in Nat BY <1>5, <1>11
  <2>8. Counts(stdout', g, {"compacted", "model"}, (runtime.changes)') /\ g \in [0..Len(stdout') -> Nat]
    BY <1>1, <1>9, <2>3 DEF changed, changes
  <2>9. ChangesInv' BY <1>6, <2>5, <2>8 DEF ChangesInv
  <2> QED BY <2>2, <2>5, <2>6, <2>7, <2>9 DEF changes
<1>14. RateReadInv'
  <2>1. CASE /\ line.kind = "answer" /\ rateRead.at = "asked" /\ rateRead.id = line.id
             /\ (rateRead.at)' = "answered" /\ (rateRead.answer)' = line
             /\ (rateRead.moved)' = rateRead.moved
    BY <1>2, <1>5, <2>1 DEF RateReadInv
  <2>2. CASE (rateRead.at)' = "none" \/ (rateRead.moved)' BY <2>2 DEF RateReadInv
  <2>3. CASE (deaf \/ ~NewScope(line)) /\ UNCHANGED rateRead BY <1>5, <1>8, <2>3, <1>2, <1>9 DEF RateReadInv
  <2> QED BY <1>7, <2>1, <2>2, <2>3
<1>15. CtxReadInv'
  <2>1. CASE /\ line.kind = "answer" /\ ctxRead.at = "asked" /\ ctxRead.id = line.id
             /\ (ctxRead.at)' = "answered" /\ (ctxRead.answer)' = line
             /\ (ctxRead.moved)' = ctxRead.moved
    BY <1>2, <1>5, <2>1 DEF CtxReadInv
  <2>2. CASE (ctxRead.at)' = "asked" /\ (ctxRead.id)' = FreshId BY <1>2, <1>9, <2>2 DEF CtxReadInv
  <2>3. CASE (ctxRead.at)' = ctxRead.at /\ (ctxRead.at = "none" \/ (ctxRead.moved)') BY <2>3 DEF CtxReadInv
  <2>4. CASE (deaf \/ ~NewContext(line)) /\ UNCHANGED ctxRead
    <3>1. (known.changes)' = known.changes \/ ctxRead.at = "none"
      <4>1. CASE ~deaf /\ line.kind = "model" BY <1>2, <1>8, <2>4, <4>1 DEF ContextInv
      <4> QED BY <1>5, <1>8, <2>4, <4>1
    <3> QED BY <1>2, <1>9, <2>4, <3>1 DEF CtxReadInv
  <2> QED BY <1>7, <2>1, <2>2, <2>3, <2>4
<1>16. AnswersInv' BY <1>2, <1>7, <1>11, <1>9 DEF AnswersInv
<1>17. SourceInv'
  <2>1. (known.changes)' \in Nat BY <1>5, <1>11
  <2>2. source # "claude" => (known.changes)' = 0 /\ (runtime.changes)' = 0 BY <1>9, <1>13, <2>1 DEF SourceInv
  <2>3. source # "claude" => (ctxRead.at)' = "none" /\ ~(auto.observed)' /\ ~(auto.timer)' BY <1>7 DEF SourceInv
  <2>4. \A i \in DOMAIN stdout' : stdout'[i].kind = "rates" =>
            stdout'[i].update.at = 1 /\ stdout'[i].update.mode = "merge"
    BY <1>2 DEF SourceInv
  <2> QED BY <1>1, <1>2, <1>6, <2>2, <2>3, <2>4 DEF SourceInv
<1>18. ContextInv' BY <1>6, <1>7, <1>2 DEF ContextInv
<1>19. ContextIsCurrent'
  <2> SUFFICES ASSUME ContextFresh(tele)'
               PROVE  (tele.context.changes)' >= (known.changes)'
    BY DEF ContextIsCurrent
  <2>1. ContextFresh(tele) /\ tele.context.at > 0 /\ (deaf \/ ~NewContext(line)) BY <1>6 DEF ContextFresh
  <2>2. (known.changes)' = known.changes BY <1>5, <1>8, <2>1
  <2> QED BY <1>6, <2>1, <2>2 DEF ContextIsCurrent
<1>20. ForgetInv'
  <2> SUFFICES ASSUME source = "claude", auto.observed, ~tele.closed, tele.contextSupport = "supported",
                      (known.changes)' = (runtime.changes)', (ctxRead.at)' = "none",
                      ~auto.timer, known.lastRead # "failed"
               PROVE  ContextFresh(tele)' /\ (tele.context.changes)' = (runtime.changes)'
    BY <1>1, <1>5, <1>6, <1>7 DEF ForgetInv
  <2>1. ~deaf /\ line.kind \notin {"compacted", "model", "result"} /\ ctxRead.at = "none" BY <1>4, <1>7
  <2>2. (known.changes)' = known.changes /\ (tele.invalid)' = tele.invalid BY <1>5, <1>6, <1>8, <2>1
  <2>3. ContextFresh(tele) /\ tele.context.changes = runtime.changes BY <1>9, <2>1, <2>2 DEF ForgetInv
  <2> QED BY <1>6, <1>9, <2>2, <2>3 DEF ContextFresh
<1> QED BY <1>6, <1>10, <1>12, <1>13, <1>14, <1>15, <1>16, <1>17, <1>18, <1>19, <1>20

LEMMA TeleStarts == TeleInit => TeleInv
<1> SUFFICES ASSUME TeleInit
             PROVE  TeleInv
  OBVIOUS
<1> USE DEF TeleInit
<1>1. /\ NewStore \in Stores /\ NewStore.rates = NoRates /\ NewStore.context = NoContext
      /\ NewStore.contextSupport = "unknown" /\ ~NewStore.closed
  BY DEF NoRates, NoBucket, RateSnapshots, NoContext, NewStore, Stores, Supports
<1>2. /\ tele = NewStore /\ stdout = << >> /\ rows = << >> /\ rateRead = Idle /\ ctxRead = Idle
      /\ runtime.account = 1 /\ runtime.changes = 0 /\ runtime.asked = {}
      /\ known.updates = {} /\ known.account = 1 /\ known.changes = 0 /\ known.lastRead = "none"
      /\ ~auto.observed /\ ~auto.running /\ ~auto.timer
  OBVIOUS
<1>3. Idle \in ReadRecord /\ Idle.at = "none" /\ Idle.answer.changes = 0 BY DEF Idle, Nothing, ReadRecord, Heard
<1>4. runtime \in Runtimes /\ IsFiniteSet(runtime.asked) BY FS_EmptySet DEF Runtimes
<1>5. auto \in Flags BY DEF Flags
<1>6. known \in Knowledge BY DEF Knowledge
<1>7. TeleTypes BY <1>1, <1>2, <1>3, <1>4, <1>5, <1>6 DEF TeleTypes
<1>8. StoreTrue(tele, {}) /\ Shown(tele) = {} /\ tele.rates.at = 0 BY <1>1, <1>2, NothingShown
<1>9. SourceInv BY <1>1, <1>2, <1>3, <1>8 DEF SourceInv
<1>10. AccountsInv
  <2> DEFINE f == [i \in 0..0 |-> 1]
  <2>1. Len(stdout) = 0 /\ f \in [0..0 -> Nat] /\ f[0] = 1 /\ f[0] <= 1 /\ DOMAIN stdout = {} BY <1>2
  <2> HIDE DEF f
  <2>2. Counts(stdout, f, {"auth"}, 1) BY <2>1 DEF Counts
  <2> QED BY <1>2, <2>1, <2>2 DEF AccountsInv
<1>11. ChangesInv
  <2> DEFINE f == [i \in 0..0 |-> 0]
  <2>1. Len(stdout) = 0 /\ f \in [0..0 -> Nat] /\ f[0] = 0 /\ DOMAIN stdout = {} BY <1>2
  <2> HIDE DEF f
  <2>2. Counts(stdout, f, {"compacted", "model"}, 0) BY <2>1 DEF Counts
  <2> QED BY <1>2, <2>1, <2>2 DEF ChangesInv
<1>12. DOMAIN stdout = {} BY <1>2
<1>13. RateReadInv /\ CtxReadInv /\ AnswersInv BY <1>2, <1>3, <1>12 DEF RateReadInv, CtxReadInv, AnswersInv
<1>14. OfThisAccount BY <1>8 DEF OfThisAccount
<1>15. ContextInv /\ ContextIsCurrent /\ ForgetInv
  BY <1>1, <1>2, <1>3, <1>12 DEF ContextInv, ContextIsCurrent, ForgetInv, ContextFresh, NoContext
<1> QED BY <1>2, <1>7, <1>8, <1>9, <1>10, <1>11, <1>13, <1>14, <1>15 DEF TeleInv

\* What the snapshots of a session or an attachment say is so, however updates, reads,
\* changes of account and of context, timeouts and close() are interleaved: a bucket is
\* the newest told, of the account the session knows of; a context that is not said to be
\* stale is of after the last change; no change is forgotten.  The one exception is
\* named: the model must not change before a context was ever observed.
THEOREM SnapshotsHold == ASSUME ~FirstReadCrossed
                         PROVE  TeleSpec => []SnapshotsAreTrue
<1>1. TeleInit => TeleInv BY TeleStarts
<1>2. ASSUME TeleInv, [TeleNext]_teleVars
      PROVE  TeleInv'
  <2>1. CASE \/ Switches \/ ResultTold
             \/ \E kind \in {"compacted", "model"} : ContextChanges(kind)
             \/ \E id \in 0..(MaxChanges + 1) : Pushes(id)
             \/ \E r \in runtime.asked, how \in Outcomes : Answers(r, how)
    BY <1>2, <2>1, RuntimeTells
  <2>2. CASE \E r \in runtime.asked : TakesUp(r) BY <1>2, <2>2, TakesUpKeeps
  <2>3. CASE RefreshRates \/ RefreshContext BY <1>2, <2>3, RefreshesKeep
  <2>4. CASE ReadsLine BY <1>2, <2>4, ReadsLineKeeps
  <2>5. CASE RatesTimeOut \/ ContextTimesOut BY <1>2, <2>5, TimeOutsKeep
  <2>6. CASE RatesAnswered BY <1>2, <2>6, RatesAnsweredKeeps
  <2>7. CASE ContextAnswered BY <1>2, <2>7, ContextAnsweredKeeps
  <2>8. CASE TimerFires BY <1>2, <2>8, TimerFiresKeeps
  <2>9. CASE TelemetryCloses BY <1>2, <2>9, ClosesKeeps
  <2>10. CASE Row \/ \E n \in 1..MaxRows : ObservesRow(n) BY <1>2, <2>10, RowsKeep
  <2>11. CASE UNCHANGED teleVars
    <3>1. UNCHANGED <<tele, source, runtime, stdout, rateRead, ctxRead, auto, rows, known>>
      BY <2>11 DEF teleVars
    <3>2. TeleTypes' /\ SourceInv' BY <1>2, <3>1 DEF TeleInv, TeleTypes, SourceInv
    <3>3. AccountsInv' /\ ChangesInv' /\ RateReadInv' /\ CtxReadInv' /\ AnswersInv'
      BY <1>2, <3>1, HandlersKeepReads
    <3>4. StoreTrue(tele, known.updates)' /\ OfThisAccount' BY <1>2, <3>1, CapacityKept
    <3>5. ContextInv' /\ ContextIsCurrent' /\ ForgetInv' BY <1>2, <3>1, ContextKept
    <3> QED BY <3>2, <3>3, <3>4, <3>5 DEF TeleInv
  <2> QED BY <1>2, <2>1, <2>2, <2>3, <2>4, <2>5, <2>6, <2>7, <2>8, <2>9, <2>10, <2>11 DEF TeleNext
<1>3. TeleInv => SnapshotsAreTrue
  <2> SUFFICES ASSUME TeleInv
               PROVE  SnapshotsAreTrue
    OBVIOUS
  <2>1. known.account <= runtime.account /\ known.changes <= runtime.changes BY RuntimeAhead DEF TeleInv
  <2>2. TeleTypeOK BY <2>1 DEF TeleInv, TeleTypes, TeleTypeOK, Stores, Supports, ReadRecord
  <2>3. NewestWins BY StoreTrueGives DEF TeleInv
  <2>4. NoChangeForgotten
    <3> SUFFICES ASSUME stdout = << >>, ~tele.closed
                 PROVE  known.changes = runtime.changes
      BY DEF TeleInv, ForgetInv, NoChangeForgotten
    <3>1. Len(stdout) = 0 OBVIOUS
    <3> QED BY <3>1 DEF TeleInv, ChangesInv, Counts
  <2> QED BY <2>2, <2>3, <2>4 DEF TeleInv, SnapshotsAreTrue
<1> QED BY <1>1, <1>2, <1>3, PTL DEF TeleSpec

-----------------------------------------------------------------------------
(* CodexApprovals                                                          *)

McpCall == [thread : Threads, args : Args]
HostAsk == [kind : AskKinds \cup {"tool"}, thread : Threads, gates : Nat, names : Nat,
            answer : {"none", "granted", "refused"}]

ApprovalTypes ==
    /\ handled \in BOOLEAN /\ turnOpen \in BOOLEAN
    /\ calls \in Seq(McpCall) /\ inFlight \in SUBSET (1 .. Len(calls)) /\ asks \in Seq(HostAsk)

\* A call is asked about once, and no two in flight on a thread have the same arguments.
AskedOnce == \A j, k \in DOMAIN asks : asks[j].gates = asks[k].gates /\ asks[j].gates # NoCall => j = k
CallsDiffer == \A i, j \in inFlight : calls[i] = calls[j] => i = j

ApprovalsInv == ApprovalTypes /\ AskedOnce /\ CallsDiffer /\ NamesItsCall /\ WaitsForSomebody

LEMMA ApprovalsInitially == ASSUME ApprovalsInit PROVE ApprovalsInv
<1>1. << >> \in Seq(McpCall) /\ << >> \in Seq(HostAsk) /\ DOMAIN << >> = {} OBVIOUS
<1>2. QED
  BY <1>1 DEF ApprovalsInit, ApprovalsInv, ApprovalTypes, AskedOnce, CallsDiffer, NamesItsCall, WaitsForSomebody

\* Of a call in flight the request is about that call.
LEMMA CallForIsTheCall ==
    ASSUME ApprovalTypes, CallsDiffer, NEW i \in inFlight, NEW given \in BOOLEAN,
           given \/ i = CallFor(calls[i].thread, FALSE, calls[i].args)
    PROVE  CallFor(calls[i].thread, given, calls[i].args) = i
<1>1. CASE ~given BY <1>1
<1>2. CASE given
  <2> DEFINE candidates == {j \in inFlight : calls[j].thread = calls[i].thread}
             exact == {j \in candidates : given /\ calls[j].args = calls[i].args}
  <2>1. \A j \in inFlight : calls[j] \in McpCall BY DEF ApprovalTypes
  <2>2. \A j \in exact : calls[j] = calls[i] BY <2>1 DEF McpCall
  <2>3. exact = {i} BY <1>2, <2>2 DEF CallsDiffer
  <2>4. i \in Nat BY DEF ApprovalTypes
  <2>5. Min({i}) = i BY <2>4 DEF Min
  <2> HIDE DEF candidates, exact
  <2>6. QED BY <2>3, <2>5 DEF CallFor, candidates, exact
<1>3. QED BY <1>1, <1>2

LEMMA AskedKeeps ==
    ASSUME ApprovalsInv, NEW kind \in AskKinds \cup {"tool"}, NEW thread \in Threads, NEW gates \in Nat,
           Asked(kind, thread, gates, gates), gates = NoCall \/ AsksOf(gates) = {}
    PROVE  ApprovalsInv'
<1> DEFINE answer == IF handled THEN "none" ELSE Default(kind)
           ask == [kind |-> kind, thread |-> thread, gates |-> gates, names |-> gates, answer |-> answer]
           n == Len(asks)
<1>1. asks' = Append(asks, ask) /\ UNCHANGED <<handled, turnOpen, calls, inFlight>> BY DEF Asked
<1>2. ask \in HostAsk BY DEF HostAsk, Default
<1>3. asks \in Seq(HostAsk) /\ n \in Nat BY DEF ApprovalsInv, ApprovalTypes
<1> HIDE DEF ask
<1>4. /\ asks' \in Seq(HostAsk) /\ DOMAIN asks = 1 .. n /\ DOMAIN asks' = 1 .. n + 1
      /\ (\A k \in 1 .. n : asks'[k] = asks[k]) /\ asks'[n + 1] = ask
  BY <1>1, <1>2, <1>3
<1>5. ApprovalTypes' /\ CallsDiffer' BY <1>1, <1>4 DEF ApprovalsInv, ApprovalTypes, CallsDiffer
<1>6. ask.gates = gates /\ ask.names = gates /\ ask.kind = kind /\ ask.thread = thread /\ ask.answer = answer
  BY DEF ask
<1>7. AskedOnce' BY <1>4, <1>3, <1>6 DEF AsksOf, ApprovalsInv, AskedOnce
<1>8. NamesItsCall' BY <1>3, <1>4, <1>6 DEF ApprovalsInv, NamesItsCall
<1>9. WaitsForSomebody'
  <2>1. CASE rootState' = rootState BY <1>3, <1>4, <2>1 DEF ApprovalsInv, WaitsForSomebody, Open
  <2>2. CASE OfRoot(thread) /\ handled /\ rootState' = WaitFor(kind)
    BY <1>3, <1>4, <1>6, <2>2 DEF Open, WaitsForSomebody, OfRoot, WaitFor
  <2>3. CASE rootState' \in {"thinking", "idle"} BY <2>3 DEF WaitsForSomebody
  <2>4. QED BY <2>1, <2>2, <2>3 DEF Asked
<1>10. QED BY <1>5, <1>7, <1>8, <1>9 DEF ApprovalsInv

LEMMA HostAnswersKeeps ==
    ASSUME ApprovalsInv, NEW k \in DOMAIN asks, NEW how, HostAnswers(k, how)
    PROVE  ApprovalsInv'
<1> DEFINE answer == IF how = "allows" THEN "granted" ELSE "refused"
<1>1. /\ asks[k].answer = "none" /\ asks' = [asks EXCEPT ![k].answer = answer]
      /\ UNCHANGED <<handled, turnOpen, calls, inFlight>>
  BY DEF HostAnswers
<1>2. asks \in Seq(HostAsk) /\ DOMAIN asks = 1 .. Len(asks) /\ k \in 1 .. Len(asks)
  BY DEF ApprovalsInv, ApprovalTypes
<1>3. asks[k] \in HostAsk BY <1>2
<1>4. [asks[k] EXCEPT !.answer = answer] \in HostAsk BY <1>3 DEF HostAsk
<1>5. /\ asks' \in Seq(HostAsk) /\ DOMAIN asks' = DOMAIN asks
      /\ \A j \in DOMAIN asks : j # k => asks'[j] = asks[j]
      /\ asks'[k] = [asks[k] EXCEPT !.answer = answer]
  BY <1>1, <1>2, <1>4
<1>6. \A j \in DOMAIN asks : /\ asks'[j].gates = asks[j].gates /\ asks'[j].names = asks[j].names
                             /\ asks'[j].kind = asks[j].kind /\ asks'[j].thread = asks[j].thread
  BY <1>3, <1>5 DEF HostAsk
<1>7. ApprovalTypes' /\ CallsDiffer' BY <1>1, <1>5 DEF ApprovalsInv, ApprovalTypes, CallsDiffer
<1>8. AskedOnce' /\ NamesItsCall' BY <1>5, <1>6 DEF ApprovalsInv, AskedOnce, NamesItsCall
<1>9. WaitsForSomebody'
  <2>1. CASE rootState' \in {"thinking", "idle"} BY <2>1 DEF WaitsForSomebody
  <2>2. CASE rootState' = rootState /\ ~(OfRoot(asks[k].thread) /\ rootState = WaitFor(asks[k].kind))
    <3>1. SUFFICES ASSUME rootState \in {"waiting_for_approval", "waiting_for_input"}
                   PROVE  \E j \in Open' : OfRoot(asks'[j].thread) /\ WaitFor(asks'[j].kind) = rootState
      BY <2>2 DEF WaitsForSomebody, OfRoot, WaitFor
    <3>2. PICK j \in Open : OfRoot(asks[j].thread) /\ WaitFor(asks[j].kind) = rootState
      BY <3>1 DEF ApprovalsInv, WaitsForSomebody
    <3>3. j # k /\ j \in Open' BY <1>5, <2>2, <3>2 DEF Open
    <3>4. QED BY <1>5, <3>2, <3>3 DEF Open
  <2>3. QED BY <2>1, <2>2 DEF HostAnswers, AnsweredState, RestoredFrom
<1>10. QED BY <1>7, <1>8, <1>9 DEF ApprovalsInv

LEMMA CallStartsKeeps ==
    ASSUME ~IdenticalCalls, ApprovalsInv, NEW thread \in Threads, NEW args \in Args, CallStarts(thread, args)
    PROVE  ApprovalsInv'
<1> DEFINE call == [thread |-> thread, args |-> args]
           n == Len(calls)
<1>1. calls' = Append(calls, call) /\ inFlight' = inFlight \cup {n + 1} /\ UNCHANGED <<handled, turnOpen, asks>>
  BY DEF CallStarts
<1>2. calls \in Seq(McpCall) /\ n \in Nat /\ call \in McpCall /\ inFlight \subseteq 1 .. n
  BY DEF ApprovalsInv, ApprovalTypes, McpCall
<1>3. \A i \in inFlight : calls[i] # call BY <1>2 DEF CallStarts, McpCall
<1> HIDE DEF call
<1>4. calls' \in Seq(McpCall) /\ Len(calls') = n + 1 /\ (\A i \in 1 .. n : calls'[i] = calls[i]) /\ calls'[n + 1] = call
  BY <1>1, <1>2
<1>5. ApprovalTypes' /\ CallsDiffer'
  <2>1. ApprovalTypes' BY <1>1, <1>2, <1>4 DEF ApprovalsInv, ApprovalTypes
  <2>2. \A i \in inFlight : calls'[i] = calls[i] /\ calls'[i] # calls'[n + 1] BY <1>2, <1>3, <1>4
  <2>3. CallsDiffer'
    <3>1. SUFFICES ASSUME NEW i \in inFlight \cup {n + 1}, NEW j \in inFlight \cup {n + 1}, calls'[i] = calls'[j]
                   PROVE  i = j
      BY <1>1 DEF CallsDiffer
    <3>2. CASE i = n + 1 \/ j = n + 1 BY <2>2, <3>1, <3>2
    <3>3. CASE i \in inFlight /\ j \in inFlight BY <2>2, <3>1, <3>3 DEF ApprovalsInv, CallsDiffer
    <3>4. QED BY <3>2, <3>3
  <2>4. QED BY <2>1, <2>3
<1>6. rootState' \in {rootState, "tool_executing"} BY DEF CallStarts
<1>7. QED BY <1>1, <1>5, <1>6 DEF ApprovalsInv, AskedOnce, NamesItsCall, WaitsForSomebody, Open

LEMMA ApprovalsKeep == ASSUME ~IdenticalCalls, ApprovalsInv, ApprovalsNext PROVE ApprovalsInv'
<1>1. CASE TurnOpens \/ TurnSettles
  BY <1>1 DEF TurnOpens, TurnSettles, ApprovalsInv, ApprovalTypes, AskedOnce, CallsDiffer, NamesItsCall, WaitsForSomebody, Open
<1>2. ASSUME NEW thread \in Threads, NEW kind \in AskKinds, Asks(kind, thread) PROVE ApprovalsInv'
  BY <1>2, AskedKeeps DEF Asks, NoCall
<1>3. ASSUME NEW i \in DOMAIN calls, CallEnds(i) PROVE ApprovalsInv'
  BY <1>3 DEF CallEnds, ApprovalsInv, ApprovalTypes, AskedOnce, CallsDiffer, NamesItsCall, WaitsForSomebody,
     Open
<1>4. ASSUME NEW i \in DOMAIN calls, NEW given \in BOOLEAN, AsksForTool(i, given) PROVE ApprovalsInv'
  <2>1. CallFor(calls[i].thread, given, calls[i].args) = i
    BY <1>4, CallForIsTheCall DEF AsksForTool, ApprovalsInv
  <2>2. i \in Nat /\ calls[i].thread \in Threads
    <3>1. calls \in Seq(McpCall) /\ i \in 1 .. Len(calls) BY DEF ApprovalsInv, ApprovalTypes
    <3>2. calls[i] \in McpCall BY <3>1
    <3>3. QED BY <3>1, <3>2 DEF McpCall
  <2>3. QED BY <1>4, <2>1, <2>2, AskedKeeps DEF AsksForTool
<1>5. QED BY <1>1, <1>2, <1>3, <1>4, CallStartsKeeps, HostAnswersKeeps DEF ApprovalsNext

LEMMA ApprovalsInvGives == ASSUME ApprovalsInv PROVE AsksAreTrue
BY DEF ApprovalsInv, AskedOnce, NamesItsCall, AsksAreTrue, ToolUsesDiffer, Open

LEMMA ApprovalsStutter == ASSUME ApprovalsInv, UNCHANGED approvalVars PROVE ApprovalsInv'
BY DEF approvalVars, ApprovalsInv, ApprovalTypes, AskedOnce, CallsDiffer, NamesItsCall, WaitsForSomebody, Open

\* What a thread of Codex asks of the host names the call it is about and is asked once, and a
\* session that waits for an answer has a request open to wait for: for every set of threads,
\* of arguments and of kinds, when no two calls in flight on a thread have the same arguments.
THEOREM AsksStayTrue == ASSUME ~IdenticalCalls PROVE ApprovalsSpec => []AsksAreTrue
<1>1. ApprovalsInv /\ [ApprovalsNext]_approvalVars => ApprovalsInv' BY ApprovalsKeep, ApprovalsStutter
<1>2. QED BY <1>1, ApprovalsInitially, ApprovalsInvGives, PTL DEF ApprovalsSpec

-----------------------------------------------------------------------------
(* GatewayAccess                                                           *)

\* No name that senders are linked to is the id of a sender.
NamesApart == \A l, m \in Letters, c \in AccessConfigs : Name(l, c.links) # <<m.sender>>

Hows == {"in", "held", "refused", "released", "denied"}
Scopes == {c.scope : c \in AccessConfigs}
Links == {c.links : c \in AccessConfigs}

\* A message with what became of it, when keys are of K and agents of A.
Entry(K, A) == [letter : Letters, how : Hows, key : K, agent : A, scope : Scopes, links : Links]
Request == [id : Nat, channel : {l.channel : l \in Letters}, sender : {l.sender : l \in Letters}, held : Seq(Nat)]

AccessTypes ==
    /\ config \in AccessConfigs /\ made \in Nat
    /\ \E K, A : came \in Seq(Entry(K, A))
    /\ pairings \in Seq(Request)
    /\ released \in Seq(Nat)

\* The key that a message was given, of what is kept with it.
KeyOf(e) ==
    CASE ~Direct(e.letter) -> <<e.agent, e.letter.channel, "group", e.letter.target>>
      [] Direct(e.letter) /\ e.scope = "per-peer" ->
            <<e.agent, "direct",
              IF Name(e.letter, e.links) = << >> THEN e.letter.sender ELSE Name(e.letter, e.links)[1]>>
      [] Direct(e.letter) /\ e.scope = "per-channel-peer" ->
            <<e.agent, e.letter.channel, "direct", e.letter.sender>>
      [] OTHER -> <<e.agent, "main">>

Keyed == \A n \in DOMAIN came : came[n].how = "in" => came[n].key = KeyOf(came[n])

OneRequestEach ==
    \A p, q \in DOMAIN pairings :
        (pairings[p].channel = pairings[q].channel /\ pairings[p].sender = pairings[q].sender) => p = q

InOrder == \A p \in DOMAIN pairings : \A i, j \in DOMAIN pairings[p].held :
               i < j => pairings[p].held[i] < pairings[p].held[j]

\* What a request has of messages is what its sender has held.
HoldsItsOwn ==
    \A p \in DOMAIN pairings : \A n \in WaitingIn(p) :
        /\ n \in DOMAIN came /\ came[n].how = "held"
        /\ came[n].letter.sender = pairings[p].sender /\ came[n].letter.channel = pairings[p].channel

HeldSomewhere == \A n \in DOMAIN came : came[n].how = "held" => \E p \in DOMAIN pairings : n \in WaitingIn(p)

ReleasedOnce ==
    /\ IsInjective(released)
    /\ \A i \in DOMAIN released : released[i] \in DOMAIN came /\ came[released[i]].how = "released"

AccessInv ==
    AccessTypes /\ Keyed /\ OneRequestEach /\ InOrder /\ HoldsItsOwn /\ HeldSomewhere /\ ReleasedOnce

LEMMA AccessInitially == ASSUME AccessInit PROVE AccessInv
<1>1. \A S : << >> \in Seq(S) OBVIOUS
<1>2. DOMAIN << >> = {} OBVIOUS
<1>3. came = << >> /\ pairings = << >> /\ released = << >> /\ made = 0 /\ config \in AccessConfigs
  BY DEF AccessInit, AccessBegins
<1>4. came \in Seq(Entry({}, {})) BY <1>1, <1>3
<1>5. AccessTypes BY <1>1, <1>3, <1>4 DEF AccessTypes
<1>6. QED
  BY <1>2, <1>3, <1>5 DEF AccessInv, Keyed, OneRequestEach, InOrder, HoldsItsOwn, HeldSomewhere, ReleasedOnce, IsInjective

\* A sequence without its p-th element.
LEMMA WithoutOne ==
    ASSUME NEW S, NEW s \in Seq(S), NEW p \in DOMAIN s
    PROVE  /\ RemoveAt(s, p) \in Seq(S)
           /\ Len(RemoveAt(s, p)) = Len(s) - 1
           /\ \A k \in 1 .. Len(s) - 1 : RemoveAt(s, p)[k] = IF k < p THEN s[k] ELSE s[k + 1]
<1> DEFINE l == SubSeq(s, 1, p - 1)
           r == SubSeq(s, p + 1, Len(s))
<1>1. p \in 1 .. Len(s) /\ Len(s) \in Nat /\ \A i \in 1 .. Len(s) : s[i] \in S OBVIOUS
<1>2. /\ l \in Seq(S) /\ Len(l) = p - 1
      /\ \A i \in 1 .. p - 1 : l[i] = s[i]
  BY <1>1, SubSeqProperties
<1>3. /\ r \in Seq(S) /\ Len(r) = Len(s) - p
      /\ \A i \in 1 .. Len(s) - p : r[i] = s[p + i]
  BY <1>1, SubSeqProperties
<1>4. RemoveAt(s, p) = l \o r BY DEF RemoveAt
<1> HIDE DEF l, r
<1>5. /\ l \o r \in Seq(S) /\ Len(l \o r) = Len(l) + Len(r)
      /\ \A i \in 1 .. Len(l) + Len(r) : (l \o r)[i] = IF i <= Len(l) THEN l[i] ELSE r[i - Len(l)]
  BY <1>2, <1>3, ConcatProperties
<1>6. ASSUME NEW k \in 1 .. Len(s) - 1 PROVE (l \o r)[k] = IF k < p THEN s[k] ELSE s[k + 1]
  <2>1. (l \o r)[k] = IF k <= p - 1 THEN l[k] ELSE r[k - (p - 1)]
    <3>1. k \in 1 .. Len(l) + Len(r) /\ Len(l) = p - 1 BY <1>1, <1>2, <1>3
    <3>2. (l \o r)[k] = IF k <= Len(l) THEN l[k] ELSE r[k - Len(l)] BY <1>5, <3>1
    <3>3. QED BY <3>1, <3>2
  <2>2. CASE k < p BY <1>1, <1>2, <2>1, <2>2
  <2>3. CASE ~(k < p) BY <1>1, <2>3, <1>3, <2>1
  <2>4. QED BY <2>2, <2>3
<1>7. Len(l \o r) = Len(s) - 1 BY <1>1, <1>2, <1>3, <1>5
<1>8. QED BY <1>4, <1>5, <1>6, <1>7

LEMMA NameIsOneOrNone == \A l, links : Name(l, links) = << >> \/ \E x : Name(l, links) = <<x>>
BY Zenon DEF Name

\* What came in was given the key of its letter.
LEMMA SessionKeyIsKeyOf ==
    ASSUME NEW l, NEW agent, NEW e, e.letter = l, e.agent = agent, e.scope = config.scope, e.links = config.links
    PROVE  SessionKey(l, agent) = KeyOf(e)
BY DEF SessionKey, KeyOf, PeerId

LEMMA KeysMeanTogether ==
    ASSUME NamesApart, NEW K, NEW A, NEW a \in Entry(K, A), NEW b \in Entry(K, A)
    PROVE  KeyOf(a) = KeyOf(b) <=> Together(a, b)
<1>1. a.letter \in Letters /\ b.letter \in Letters /\ a.links \in Links /\ b.links \in Links BY DEF Entry
<1>2. Name(a.letter, a.links) # <<b.letter.sender>> /\ Name(b.letter, b.links) # <<a.letter.sender>>
  BY <1>1 DEF NamesApart, Links
<1>3. PICK x, y : /\ Name(a.letter, a.links) = << >> \/ Name(a.letter, a.links) = <<x>>
                  /\ Name(b.letter, b.links) = << >> \/ Name(b.letter, b.links) = <<y>>
  BY NameIsOneOrNone
<1> DEFINE P(e) == IF Name(e.letter, e.links) = << >> THEN e.letter.sender ELSE Name(e.letter, e.links)[1]
<1>4. P(a) = P(b) <=> (IF Name(a.letter, a.links) = << >> /\ Name(b.letter, b.links) = << >>
                       THEN a.letter.sender = b.letter.sender
                       ELSE Name(a.letter, a.links) = Name(b.letter, b.links))
  <2>1. CASE Name(a.letter, a.links) = << >> /\ Name(b.letter, b.links) = << >> BY <2>1
  <2>2. CASE Name(a.letter, a.links) = <<x>> /\ Name(b.letter, b.links) = << >> BY <1>2, <2>2
  <2>3. CASE Name(a.letter, a.links) = << >> /\ Name(b.letter, b.links) = <<y>> BY <1>2, <2>3
  <2>4. CASE Name(a.letter, a.links) = <<x>> /\ Name(b.letter, b.links) = <<y>> BY <2>4
  <2>5. QED BY <1>3, <2>1, <2>2, <2>3, <2>4
<1> DEFINE G(e) == <<e.agent, e.letter.channel, "group", e.letter.target>>
           D(e) == <<e.agent, "direct", P(e)>>
           C(e) == <<e.agent, e.letter.channel, "direct", e.letter.sender>>
           M(e) == <<e.agent, "main">>
           k(e) == IF ~Direct(e.letter) THEN "group" ELSE IF e.scope \in {"per-peer", "per-channel-peer"} THEN e.scope ELSE "main"
<1>5. \A e \in {a, b} :
         /\ k(e) = "group" => KeyOf(e) = G(e)
         /\ k(e) = "per-peer" => KeyOf(e) = D(e)
         /\ k(e) = "per-channel-peer" => KeyOf(e) = C(e)
         /\ k(e) = "main" => KeyOf(e) = M(e)
  BY DEF KeyOf
<1>6. /\ G(a) # D(b) /\ G(a) # C(b) /\ G(a) # M(b) /\ D(a) # G(b) /\ D(a) # C(b) /\ D(a) # M(b)
      /\ C(a) # G(b) /\ C(a) # D(b) /\ C(a) # M(b) /\ M(a) # G(b) /\ M(a) # D(b) /\ M(a) # C(b)
  OBVIOUS
<1>7. /\ G(a) = G(b) <=> a.agent = b.agent /\ a.letter.channel = b.letter.channel /\ a.letter.target = b.letter.target
      /\ D(a) = D(b) <=> a.agent = b.agent /\ P(a) = P(b)
      /\ C(a) = C(b) <=> a.agent = b.agent /\ a.letter.channel = b.letter.channel /\ a.letter.sender = b.letter.sender
      /\ M(a) = M(b) <=> a.agent = b.agent
  OBVIOUS
<1> HIDE DEF P, G, D, C, M
<1>8. CASE k(a) = "group" BY <1>5, <1>6, <1>7, <1>8 DEF Together
<1>9. CASE k(a) = "per-peer"
  <2>1. CASE k(b) = "per-peer" BY <1>4, <1>5, <1>7, <1>9, <2>1 DEF Together
  <2>2. CASE k(b) # "per-peer" BY <1>5, <1>6, <1>9, <2>2 DEF Together
  <2>3. QED BY <2>1, <2>2
<1>10. CASE k(a) = "per-channel-peer" BY <1>5, <1>6, <1>7, <1>10 DEF Together
<1>11. CASE k(a) = "main" BY <1>5, <1>6, <1>7, <1>11 DEF Together
<1>12. QED BY <1>8, <1>9, <1>10, <1>11

LEMMA AccessInvGives == ASSUME NamesApart, AccessInv PROVE AccessIsSound
<1>1. PICK K, A : came \in Seq(Entry(K, A)) BY DEF AccessInv, AccessTypes
<1>2. KeptApart
  <2>1. SUFFICES ASSUME NEW a \in ToSet(came), NEW b \in ToSet(came), a.how = "in", b.how = "in"
                 PROVE  a.key = b.key <=> Together(a, b)
    BY DEF KeptApart
  <2>2. a \in Entry(K, A) /\ b \in Entry(K, A) BY <1>1, <2>1 DEF ToSet
  <2>3. a.key = KeyOf(a) /\ b.key = KeyOf(b) BY <1>1, <2>1 DEF ToSet, AccessInv, Keyed
  <2>4. QED BY <2>2, <2>3, KeysMeanTogether
<1>3. HeldOnce
  BY DEF AccessInv, ReleasedOnce, AccessTypes, ToSet, HeldOnce, OneRequestEach, InOrder, HoldsItsOwn,
     HeldSomewhere
<1>4. QED BY <1>2, <1>3 DEF AccessIsSound

-----------------------------------------------------------------------------
(* Each step keeps it.                                                     *)

\* Another message: what is known of the ones before is known of them still.
LEMMA CameKeeps ==
    ASSUME AccessInv, NEW l \in Letters, NEW how \in Hows, NEW key, NEW agent, Came(l, how, key, agent),
           how = "in" => key = SessionKey(l, agent)
    PROVE  /\ \E K, A : came' \in Seq(Entry(K, A))
           /\ DOMAIN came' = DOMAIN came \cup {Len(came) + 1}
           /\ Len(came) \in Nat /\ DOMAIN came = 1 .. Len(came)
           /\ \A n \in DOMAIN came : came'[n] = came[n]
           /\ came'[Len(came) + 1].letter = l /\ came'[Len(came) + 1].how = how
           /\ Keyed'
<1> DEFINE e == [letter |-> l, how |-> how, key |-> key, agent |-> agent,
                 scope |-> config.scope, links |-> config.links]
<1>1. came' = Append(came, e) BY DEF Came
<1>2. PICK K, A : came \in Seq(Entry(K, A)) BY DEF AccessInv, AccessTypes
<1>3. e \in Entry(K \cup {key}, A \cup {agent}) BY DEF AccessInv, AccessTypes, Entry, Scopes, Links
<1>4. came \in Seq(Entry(K \cup {key}, A \cup {agent})) BY <1>2, SeqMonotonic DEF Entry
<1>5. e.how = "in" => e.key = KeyOf(e)
  <2>1. e.letter = l /\ e.agent = agent /\ e.scope = config.scope /\ e.links = config.links /\ e.how = how /\ e.key = key
    OBVIOUS
  <2> HIDE DEF e
  <2>2. QED BY <2>1, SessionKeyIsKeyOf
<1>6. e.letter = l /\ e.how = how OBVIOUS
<1> HIDE DEF e
<1>7. came' \in Seq(Entry(K \cup {key}, A \cup {agent})) BY <1>1, <1>3, <1>4
<1>8. /\ Len(came) \in Nat /\ DOMAIN came = 1 .. Len(came) /\ DOMAIN came' = 1 .. Len(came) + 1
      /\ (\A n \in 1 .. Len(came) : came'[n] = came[n]) /\ came'[Len(came) + 1] = e
  BY <1>1, <1>3, <1>4
<1>9. Keyed'
  <2>1. SUFFICES ASSUME NEW n \in DOMAIN came', came'[n].how = "in" PROVE came'[n].key = KeyOf(came'[n])
    BY DEF Keyed, KeyOf, Direct
  <2>2. CASE n \in DOMAIN came BY <1>8, <2>1, <2>2 DEF AccessInv, Keyed
  <2>3. CASE n = Len(came) + 1 BY <1>5, <1>8, <2>1, <2>3
  <2>4. QED BY <1>8, <2>2, <2>3
<1>10. QED BY <1>6, <1>7, <1>8, <1>9

\* A message that is not held changes nothing of what is.
LEMMA PassedKeeps ==
    ASSUME AccessInv, NEW l \in Letters, NEW how \in {"in", "refused"}, NEW key, NEW agent, Came(l, how, key, agent),
           how = "in" => key = SessionKey(l, agent), UNCHANGED <<config, pairings, made, released>>
    PROVE  AccessInv'
<1>1. /\ \E K, A : came' \in Seq(Entry(K, A))
      /\ DOMAIN came' = DOMAIN came \cup {Len(came) + 1}
      /\ Len(came) \in Nat /\ DOMAIN came = 1 .. Len(came)
      /\ \A n \in DOMAIN came : came'[n] = came[n]
      /\ came'[Len(came) + 1].letter = l /\ came'[Len(came) + 1].how = how
      /\ Keyed'
  BY CameKeeps DEF Hows
<1>2. AccessTypes' BY <1>1 DEF AccessInv, AccessTypes
<1>3. OneRequestEach' /\ InOrder' BY DEF AccessInv, OneRequestEach, InOrder
<1>4. HoldsItsOwn' BY <1>1 DEF AccessInv, HoldsItsOwn, WaitingIn
<1>5. HeldSomewhere' BY <1>1 DEF AccessInv, HeldSomewhere, WaitingIn
<1>6. ReleasedOnce' BY <1>1 DEF AccessInv, ReleasedOnce
<1>7. QED BY <1>1, <1>2, <1>3, <1>4, <1>5, <1>6 DEF AccessInv

\* A message that is held joins the request of its sender, or makes the one it has.
LEMMA HeldKeeps ==
    ASSUME AccessInv, NEW l \in Letters, Came(l, "held", << >>, "none"), Held(l, Len(came) + 1),
           UNCHANGED <<config, released>>
    PROVE  AccessInv'
<1> DEFINE n == Len(came) + 1
<1>0. PICK w \in Nat : w = Len(pairings) BY DEF AccessInv, AccessTypes
<1>1. /\ \E K, A : came' \in Seq(Entry(K, A))
      /\ DOMAIN came' = DOMAIN came \cup {n}
      /\ Len(came) \in Nat /\ DOMAIN came = 1 .. Len(came)
      /\ \A m \in DOMAIN came : came'[m] = came[m]
      /\ came'[n].letter = l /\ came'[n].how = "held"
      /\ Keyed'
  BY CameKeeps DEF Hows
<1>2. pairings \in Seq(Request) /\ w = Len(pairings) /\ DOMAIN pairings = 1 .. w
  BY <1>0 DEF AccessInv, AccessTypes
<1>3. \A p \in DOMAIN pairings : /\ pairings[p] \in Request /\ pairings[p].held \in Seq(Nat)
                                 /\ Len(pairings[p].held) \in Nat
                                 /\ DOMAIN pairings[p].held = 1 .. Len(pairings[p].held)
                                 /\ \A i \in 1 .. Len(pairings[p].held) : pairings[p].held[i] \in Nat
  <2>1. \A p \in DOMAIN pairings : pairings[p] \in Request BY <1>2
  <2>2. QED BY <2>1 DEF Request
<1>4. ReleasedOnce' BY <1>1 DEF AccessInv, ReleasedOnce
<1>5. \A p \in DOMAIN pairings : \A i \in 1 .. Len(pairings[p].held) : pairings[p].held[i] \in DOMAIN came /\ pairings[p].held[i] < n
  BY <1>1, <1>3 DEF AccessInv, HoldsItsOwn, WaitingIn
<1> HIDE DEF n
<1>6. CASE FindBySender(l) # {}
  <2>1. FindBySender(l) \subseteq 1 .. w BY <1>2 DEF FindBySender
  <2>2. \A q, r \in FindBySender(l) : q = r BY DEF AccessInv, OneRequestEach, FindBySender
  <2>3. PICK p \in FindBySender(l) : p = CHOOSE r \in FindBySender(l) : \A q \in FindBySender(l) : r <= q
    <3>1. PICK r \in FindBySender(l) : TRUE BY <1>6
    <3>2. \A q \in FindBySender(l) : r <= q BY <2>1, <2>2, <3>1
    <3>3. QED BY <3>1, <3>2
  <2>4. pairings' = [pairings EXCEPT ![p].held = Append(@, n)] /\ made' = made BY <1>6, <2>3 DEF Held, n
  <2>5. p \in 1 .. w /\ pairings[p].channel = l.channel /\ pairings[p].sender = l.sender
    BY <1>2, <2>3 DEF FindBySender
  <2> DEFINE held == Append(pairings[p].held, n)
             one == [pairings[p] EXCEPT !.held = held]
             h == Len(pairings[p].held)
  <2>6. /\ held \in Seq(Nat) /\ Len(held) = h + 1 /\ h \in Nat /\ DOMAIN held = 1 .. h + 1 /\ held[h + 1] = n
        /\ \A i \in 1 .. h : held[i] = pairings[p].held[i]
    BY <1>1, <1>2, <1>3, <2>5 DEF n
  <2>7. one \in Request /\ one.held = held /\ one.channel = l.channel /\ one.sender = l.sender
    BY <1>2, <1>3, <2>5, <2>6 DEF Request
  <2>8. /\ pairings' \in Seq(Request) /\ DOMAIN pairings' = 1 .. w /\ pairings'[p] = one
        /\ \A q \in 1 .. w : q # p => pairings'[q] = pairings[q]
    <3>1. pairings' = [pairings EXCEPT ![p] = one] BY <1>2, <2>4, <2>5
    <3>2. one \in Request BY <2>7
    <3> HIDE DEF one
    <3>3. QED BY <1>2, <2>5, <3>1, <3>2
  <2> HIDE DEF one, held, h
  <2>9. AccessTypes' BY <1>1, <2>4, <2>8 DEF AccessInv, AccessTypes
  <2>10. OneRequestEach' BY <2>5, <2>7, <2>8, <1>2 DEF AccessInv, OneRequestEach
  <2>11. InOrder'
    <3>1. SUFFICES ASSUME NEW q \in 1 .. w, NEW i \in DOMAIN pairings'[q].held, NEW j \in DOMAIN pairings'[q].held, i < j
                   PROVE  pairings'[q].held[i] < pairings'[q].held[j]
      BY <2>8 DEF InOrder
    <3>2. CASE q # p BY <1>2, <2>8, <3>1, <3>2 DEF AccessInv, InOrder
    <3>3. CASE q = p
      <4>1. i \in 1 .. h /\ j \in 1 .. h + 1 BY <2>6, <2>7, <2>8, <3>1, <3>3
      <4>2. CASE j = h + 1 BY <1>2, <1>5, <2>5, <4>1, <2>6, <2>7, <2>8, <3>3, <4>2 DEF h
      <4>3. CASE j \in 1 .. h
        <5>1. pairings[p].held[i] < pairings[p].held[j]
          BY <1>2, <1>3, <2>5, <3>1, <4>1, <4>3 DEF AccessInv, InOrder, h
        <5>2. QED BY <2>6, <2>7, <2>8, <3>3, <4>1, <4>3, <5>1
      <4>4. QED BY <2>6, <4>1, <4>2, <4>3
    <3>4. QED BY <3>2, <3>3
  <2>12. WaitingIn(p)' = WaitingIn(p) \cup {n} /\ \A q \in 1 .. w : q # p => WaitingIn(q)' = WaitingIn(q)
    <3>1. DOMAIN pairings[p].held = 1 .. h BY <1>2, <1>3, <2>5 DEF h
    <3>2. WaitingIn(p)' = {held[i] : i \in 1 .. h + 1} BY <2>6, <2>7, <2>8 DEF WaitingIn
    <3>3. {held[i] : i \in 1 .. h + 1} = {pairings[p].held[i] : i \in 1 .. h} \cup {n} BY <2>6
    <3>4. QED BY <2>8, <3>1, <3>2, <3>3 DEF WaitingIn
  <2>13. HoldsItsOwn'
    <3>1. SUFFICES ASSUME NEW q \in 1 .. w, NEW m \in WaitingIn(q)'
                   PROVE  /\ m \in DOMAIN came' /\ came'[m].how = "held"
                          /\ came'[m].letter.sender = pairings'[q].sender /\ came'[m].letter.channel = pairings'[q].channel
      BY <2>8 DEF HoldsItsOwn
    <3>2. CASE m \in WaitingIn(q) BY <1>2, <3>2, <1>1, <2>5, <2>7, <2>8 DEF AccessInv, HoldsItsOwn
    <3>3. CASE q = p /\ m = n BY <1>1, <2>7, <2>8, <3>3
    <3>4. QED BY <2>12, <3>1, <3>2, <3>3
  <2>14. HeldSomewhere'
    <3>1. SUFFICES ASSUME NEW m \in DOMAIN came', came'[m].how = "held" PROVE \E q \in 1 .. w : m \in WaitingIn(q)'
      BY <2>8 DEF HeldSomewhere
    <3>2. CASE m \in DOMAIN came
      <4>1. PICK q \in 1 .. w : m \in WaitingIn(q) BY <1>1, <1>2, <3>1, <3>2 DEF AccessInv, HeldSomewhere
      <4>2. QED BY <2>12, <4>1
    <3>3. CASE m = n BY <2>5, <2>12, <3>3
    <3>4. QED BY <1>1, <3>2, <3>3
  <2>15. QED BY <1>1, <1>4, <2>9, <2>10, <2>11, <2>13, <2>14 DEF AccessInv
<1>7. CASE FindBySender(l) = {}
  <2> DEFINE one == [id |-> made + 1, channel |-> l.channel, sender |-> l.sender, held |-> <<n>>]
  <2>1. pairings' = Append(pairings, one) /\ made' = made + 1 BY <1>7 DEF Held, n
  <2>2. one \in Request /\ one.channel = l.channel /\ one.sender = l.sender /\ one.held = <<n>>
    BY <1>1 DEF n, AccessInv, AccessTypes, Request
  <2> HIDE DEF one
  <2>3. /\ pairings' \in Seq(Request) /\ DOMAIN pairings' = 1 .. w + 1 /\ pairings'[w + 1] = one
        /\ \A q \in 1 .. w : pairings'[q] = pairings[q]
    BY <1>2, <2>1, <2>2
  <2>4. AccessTypes' BY <1>1, <2>1, <2>3 DEF AccessInv, AccessTypes
  <2>5. \A q \in 1 .. w : ~(pairings[q].channel = l.channel /\ pairings[q].sender = l.sender)
    BY <1>2, <1>7 DEF FindBySender
  <2>6. OneRequestEach'
    <3>1. SUFFICES ASSUME NEW q \in 1 .. w + 1, NEW r \in 1 .. w + 1,
                          pairings'[q].channel = pairings'[r].channel, pairings'[q].sender = pairings'[r].sender
                   PROVE  q = r
      BY <2>3 DEF OneRequestEach
    <3>2. CASE q \in 1 .. w /\ r \in 1 .. w BY <1>2, <2>3, <3>1, <3>2 DEF AccessInv, OneRequestEach
    <3>3. CASE q = w + 1 \/ r = w + 1 BY <1>2, <2>2, <2>3, <2>5, <3>1, <3>3
    <3>4. QED BY <1>2, <3>2, <3>3
  <2>7. InOrder'
    <3>1. SUFFICES ASSUME NEW q \in 1 .. w + 1 PROVE
                   \A i, j \in DOMAIN pairings'[q].held : i < j => pairings'[q].held[i] < pairings'[q].held[j]
      BY <2>3 DEF InOrder
    <3>2. CASE q \in 1 .. w BY <1>2, <2>3, <3>2 DEF AccessInv, InOrder
    <3>3. CASE q = w + 1 BY <2>2, <2>3, <3>3
    <3>4. QED BY <1>2, <3>2, <3>3
  <2>8. WaitingIn(w + 1)' = {n} /\ \A q \in 1 .. w : WaitingIn(q)' = WaitingIn(q) BY <2>2, <2>3 DEF WaitingIn
  <2>9. HoldsItsOwn'
    <3>1. SUFFICES ASSUME NEW q \in 1 .. w + 1, NEW m \in WaitingIn(q)'
                   PROVE  /\ m \in DOMAIN came' /\ came'[m].how = "held"
                          /\ came'[m].letter.sender = pairings'[q].sender /\ came'[m].letter.channel = pairings'[q].channel
      BY <2>3 DEF HoldsItsOwn
    <3>2. CASE q \in 1 .. w
      <4>1. /\ m \in DOMAIN came /\ came[m].how = "held"
            /\ came[m].letter.sender = pairings[q].sender /\ came[m].letter.channel = pairings[q].channel
        BY <1>2, <2>8, <3>1, <3>2 DEF AccessInv, HoldsItsOwn
      <4>2. QED BY <1>1, <2>3, <3>2, <4>1
    <3>3. CASE q = w + 1 BY <1>1, <2>2, <2>3, <2>8, <3>1, <3>3
    <3>4. QED BY <1>2, <3>2, <3>3
  <2>10. HeldSomewhere'
    <3>1. SUFFICES ASSUME NEW m \in DOMAIN came', came'[m].how = "held" PROVE \E q \in 1 .. w + 1 : m \in WaitingIn(q)'
      BY <2>3 DEF HeldSomewhere
    <3>2. CASE m \in DOMAIN came
      <4>1. PICK q \in 1 .. w : m \in WaitingIn(q) BY <1>1, <1>2, <3>1, <3>2 DEF AccessInv, HeldSomewhere
      <4>2. q \in 1 .. w + 1 BY <1>2
      <4>3. QED BY <2>8, <4>1, <4>2
    <3>3. CASE m = n BY <1>2, <2>8, <3>3
    <3>4. QED BY <1>1, <3>2, <3>3
  <2>11. QED BY <1>1, <1>4, <2>4, <2>6, <2>7, <2>9, <2>10 DEF AccessInv
<1>8. QED BY <1>6, <1>7

LEMMA ProcessMessageKeeps ==
    ASSUME AccessInv, NEW l \in Letters, ProcessMessage(l)
    PROVE  AccessInv'
<1>1. CASE CheckAccess(l) = "allowed" BY <1>1, PassedKeeps DEF ProcessMessage
<1>2. CASE CheckAccess(l) = "pairing" BY <1>2, HeldKeeps DEF ProcessMessage
<1>3. CASE CheckAccess(l) = "refused" BY <1>3, PassedKeeps DEF ProcessMessage
<1>4. QED BY <1>1, <1>2, <1>3 DEF CheckAccess, DmAccess, GroupAccess

\* A decision marks the messages of the request: none comes in by it.
LEMMA MarkedKeeps ==
    ASSUME AccessInv, NEW held \in Seq(Nat), NEW how \in Hows \ {"in"}, Marked(held, how)
    PROVE  /\ \E K, A : came' \in Seq(Entry(K, A))
           /\ DOMAIN came' = DOMAIN came
           /\ \A n \in DOMAIN came :
                 /\ came'[n].letter = came[n].letter
                 /\ came'[n].how = IF n \in {held[i] : i \in DOMAIN held} THEN how ELSE came[n].how
           /\ Keyed'
<1> DEFINE these == {held[i] : i \in DOMAIN held}
<1>1. PICK K, A : came \in Seq(Entry(K, A)) BY DEF AccessInv, AccessTypes
<1>2. came' = [n \in DOMAIN came |-> IF n \in these THEN [came[n] EXCEPT !.how = how] ELSE came[n]]
  BY DEF Marked
<1> HIDE DEF these
<1>3. Len(came) \in Nat /\ DOMAIN came = 1 .. Len(came) /\ \A n \in 1 .. Len(came) : came[n] \in Entry(K, A)
  BY <1>1
<1>4. \A n \in 1 .. Len(came) : /\ [came[n] EXCEPT !.how = how] \in Entry(K, A)
                                /\ [came[n] EXCEPT !.how = how].how = how
                                /\ [came[n] EXCEPT !.how = how].letter = came[n].letter
  BY <1>3 DEF Entry
<1>5. DOMAIN came' = 1 .. Len(came) /\ \A n \in 1 .. Len(came) : came'[n] \in Entry(K, A) BY <1>2, <1>3, <1>4
<1>6. came' \in Seq(Entry(K, A)) BY <1>2, <1>3, <1>5
<1>7. \A n \in DOMAIN came : came'[n].letter = came[n].letter /\ came'[n].how = IF n \in these THEN how ELSE came[n].how
  BY <1>2, <1>3, <1>4
<1>8. Keyed'
  <2>1. SUFFICES ASSUME NEW n \in DOMAIN came, came'[n].how = "in" PROVE came'[n].key = KeyOf(came'[n])
    BY <1>3, <1>5 DEF Keyed, KeyOf, Direct
  <2>2. n \notin these BY <1>7, <2>1
  <2>3. came'[n] = came[n] BY <1>2, <2>2
  <2>4. QED BY <2>1, <2>3 DEF AccessInv, Keyed
<1>9. QED BY <1>3, <1>5, <1>6, <1>7, <1>8 DEF these

\* A decided request is gone with its messages, and with nothing else.
LEMMA DecisionKeeps ==
    ASSUME AccessInv, NEW p \in DOMAIN pairings, NEW how \in {"released", "denied"},
           Decided(p), Marked(pairings[p].held, how),
           released' = (IF how = "released" THEN released \o pairings[p].held ELSE released),
           UNCHANGED <<config, made>>
    PROVE  AccessInv'
<1>1. PICK held \in Seq(Nat) : held = pairings[p].held
  <2>1. pairings \in Seq(Request) /\ p \in 1 .. Len(pairings) BY DEF AccessInv, AccessTypes
  <2>2. pairings[p] \in Request BY <2>1
  <2>3. QED BY <2>2 DEF Request
<1>2. PICK w \in Nat : w = Len(pairings) BY DEF AccessInv, AccessTypes
<1> DEFINE these == {held[i] : i \in DOMAIN held}
           Was(q) == IF q < p THEN q ELSE q + 1
<1>3. pairings \in Seq(Request) /\ DOMAIN pairings = 1 .. w /\ p \in 1 .. w /\ these = WaitingIn(p)
  BY <1>1, <1>2 DEF AccessInv, AccessTypes, WaitingIn
<1>4. /\ \E K, A : came' \in Seq(Entry(K, A))
      /\ DOMAIN came' = DOMAIN came
      /\ \A n \in DOMAIN came : /\ came'[n].letter = came[n].letter
                                /\ came'[n].how = IF n \in these THEN how ELSE came[n].how
      /\ Keyed'
  BY <1>1, MarkedKeeps DEF Hows
<1>5. /\ pairings' \in Seq(Request) /\ DOMAIN pairings' = 1 .. w - 1
      /\ \A q \in 1 .. w - 1 : pairings'[q] = pairings[Was(q)]
  <2>1. /\ pairings' \in Seq(Request) /\ Len(pairings') = w - 1
        /\ \A q \in 1 .. w - 1 : pairings'[q] = IF q < p THEN pairings[q] ELSE pairings[q + 1]
    BY <1>2, <1>3, WithoutOne DEF Decided
  <2>2. QED BY <2>1
<1>6. \A q \in 1 .. w - 1 : Was(q) \in 1 .. w /\ Was(q) # p BY <1>3
<1>7. \A q, r \in 1 .. w - 1 : Was(q) = Was(r) => q = r BY <1>3
<1>8. \A r \in 1 .. w : r # p => \E q \in 1 .. w - 1 : Was(q) = r
  <2>1. SUFFICES ASSUME NEW r \in 1 .. w, r # p PROVE \E q \in 1 .. w - 1 : Was(q) = r OBVIOUS
  <2>2. CASE r < p BY <1>3, <2>2
  <2>3. CASE r > p
    <3>1. r - 1 \in 1 .. w - 1 /\ Was(r - 1) = r BY <1>3, <2>3
    <3>2. QED BY <3>1
  <2>4. QED BY <1>3, <2>1, <2>2, <2>3
<1>9. \A q \in 1 .. w - 1 : WaitingIn(q)' = WaitingIn(Was(q)) BY <1>5 DEF WaitingIn
\* What waits elsewhere is of another sender.
<1>10. \A r \in 1 .. w : r # p => WaitingIn(r) \cap these = {}
  <2>1. SUFFICES ASSUME NEW r \in 1 .. w, NEW n \in WaitingIn(r), n \in these PROVE r = p OBVIOUS
  <2>2. pairings[r].channel = pairings[p].channel /\ pairings[r].sender = pairings[p].sender
    BY <1>3, <2>1 DEF AccessInv, HoldsItsOwn
  <2>3. QED BY <1>3, <2>2 DEF AccessInv, OneRequestEach
<1>11. /\ these \subseteq DOMAIN came /\ \A n \in these : came[n].how = "held"
  BY <1>3 DEF AccessInv, HoldsItsOwn
<1>12. /\ Len(held) \in Nat /\ DOMAIN held = 1 .. Len(held) /\ (\A i \in 1 .. Len(held) : held[i] \in Nat)
       /\ \A i, j \in 1 .. Len(held) : i < j => held[i] < held[j]
  BY <1>1, <1>3 DEF AccessInv, InOrder
<1>13. released \in Seq(Nat) /\ released' \in Seq(Nat) BY <1>1 DEF AccessInv, AccessTypes
<1> HIDE DEF Was
<1>14. AccessTypes' BY <1>4, <1>5, <1>13 DEF AccessInv, AccessTypes
<1>15. OneRequestEach'
  <2>1. SUFFICES ASSUME NEW q \in 1 .. w - 1, NEW r \in 1 .. w - 1,
                        pairings'[q].channel = pairings'[r].channel, pairings'[q].sender = pairings'[r].sender
                 PROVE  q = r
    BY <1>5 DEF OneRequestEach
  <2>2. /\ pairings[Was(q)].channel = pairings[Was(r)].channel /\ pairings[Was(q)].sender = pairings[Was(r)].sender
        /\ Was(q) \in DOMAIN pairings /\ Was(r) \in DOMAIN pairings
    BY <1>3, <1>5, <1>6, <2>1
  <2>3. Was(q) = Was(r) BY <2>2 DEF AccessInv, OneRequestEach
  <2>4. QED BY <1>7, <2>3
<1>16. InOrder' BY <1>3, <1>5, <1>6 DEF AccessInv, InOrder
<1>17. HoldsItsOwn'
  <2>1. SUFFICES ASSUME NEW q \in 1 .. w - 1, NEW n \in WaitingIn(Was(q))
                 PROVE  /\ n \in DOMAIN came' /\ came'[n].how = "held"
                        /\ came'[n].letter.sender = pairings'[q].sender /\ came'[n].letter.channel = pairings'[q].channel
    BY <1>5, <1>9 DEF HoldsItsOwn
  <2>2. Was(q) \in 1 .. w /\ n \notin these BY <1>6, <1>10
  <2>3. /\ n \in DOMAIN came /\ came[n].how = "held"
        /\ came[n].letter.sender = pairings[Was(q)].sender /\ came[n].letter.channel = pairings[Was(q)].channel
    BY <1>3, <2>2 DEF AccessInv, HoldsItsOwn
  <2>4. came'[n].letter = came[n].letter /\ came'[n].how = "held" BY <1>4, <2>2, <2>3
  <2>5. QED BY <1>4, <1>5, <2>3, <2>4
<1>18. HeldSomewhere'
  <2>1. SUFFICES ASSUME NEW n \in DOMAIN came, came'[n].how = "held" PROVE \E q \in 1 .. w - 1 : n \in WaitingIn(q)'
    BY <1>4, <1>5 DEF HeldSomewhere
  <2>2. n \notin these /\ came[n].how = "held" BY <1>4, <2>1
  <2>3. PICK r \in 1 .. w : n \in WaitingIn(r) BY <1>3, <2>2 DEF AccessInv, HeldSomewhere
  <2>4. PICK q \in 1 .. w - 1 : Was(q) = r BY <1>3, <1>8, <2>2, <2>3
  <2>5. QED BY <1>9, <2>3, <2>4
<1>19. ReleasedOnce'
  <2>1. /\ Len(released) \in Nat /\ DOMAIN released = 1 .. Len(released)
        /\ \A i \in 1 .. Len(released) : released[i] \in DOMAIN came /\ came[released[i]].how = "released"
    BY <1>13 DEF AccessInv, ReleasedOnce
  <2>2. \A i \in 1 .. Len(released) : released[i] \notin these /\ came'[released[i]].how = "released"
    BY <1>4, <1>11, <2>1
  <2>3. \A i, j \in 1 .. Len(released) : released[i] = released[j] => i = j
    BY <2>1 DEF AccessInv, ReleasedOnce, IsInjective
  <2>4. CASE how = "denied" BY <1>4, <2>1, <2>2, <2>4 DEF AccessInv, ReleasedOnce
  <2>5. CASE how = "released"
    <3>1. released' = released \o held BY <1>1, <2>5
    <3>2. /\ Len(released') = Len(released) + Len(held) /\ DOMAIN released' = 1 .. Len(released) + Len(held)
          /\ \A i \in 1 .. Len(released) + Len(held) :
                released'[i] = IF i <= Len(released) THEN released[i] ELSE held[i - Len(released)]
      BY <1>1, <1>13, <3>1, ConcatProperties
    <3>3. \A i \in 1 .. Len(released) + Len(held) : i > Len(released) =>
             i - Len(released) \in 1 .. Len(held) /\ released'[i] = held[i - Len(released)]
      BY <1>12, <2>1, <3>2
    <3>4. \A i \in 1 .. Len(held) : held[i] \in these /\ held[i] \in DOMAIN came /\ came'[held[i]].how = "released"
      BY <1>4, <1>11, <1>12, <2>5
    <3>5. \A i, j \in 1 .. Len(held) : held[i] = held[j] => i = j
      <4>1. SUFFICES ASSUME NEW i \in 1 .. Len(held), NEW j \in 1 .. Len(held), i # j PROVE held[i] # held[j]
        OBVIOUS
      <4>2. held[i] \in Nat /\ held[j] \in Nat /\ (i < j \/ j < i) BY <1>12, <4>1
      <4>3. QED BY <1>12, <4>2
    <3>6. \A i \in 1 .. Len(released) + Len(held) : i <= Len(released) => i \in 1 .. Len(released) /\ released'[i] = released[i]
      BY <2>1, <3>2
    <3> HIDE DEF these
    <3>7. IsInjective(released')
      <4>1. SUFFICES ASSUME NEW i \in 1 .. Len(released) + Len(held), NEW j \in 1 .. Len(released) + Len(held),
                            released'[i] = released'[j]
                     PROVE  i = j
        BY <3>2 DEF IsInjective
      <4>2. CASE i <= Len(released) /\ j <= Len(released) BY <2>3, <3>6, <4>1, <4>2
      <4>3. CASE i > Len(released) /\ j > Len(released)
        <5>1. i - Len(released) = j - Len(released) BY <3>3, <3>5, <4>1, <4>3
        <5>2. QED BY <1>12, <2>1, <5>1
      <4>4. CASE i <= Len(released) /\ j > Len(released)
        <5>1. released'[i] \notin these BY <2>2, <3>6, <4>1, <4>4
        <5>2. released'[j] \in these BY <3>3, <3>4, <4>1, <4>4
        <5>3. QED BY <4>1, <5>1, <5>2
      <4>5. CASE i > Len(released) /\ j <= Len(released)
        <5>1. released'[j] \notin these BY <2>2, <3>6, <4>1, <4>5
        <5>2. released'[i] \in these BY <3>3, <3>4, <4>1, <4>5
        <5>3. QED BY <4>1, <5>1, <5>2
      <4>6. QED BY <1>12, <2>1, <4>2, <4>3, <4>4, <4>5
    <3>8. \A i \in 1 .. Len(released) + Len(held) : released'[i] \in DOMAIN came' /\ came'[released'[i]].how = "released"
      <4>1. TAKE i \in 1 .. Len(released) + Len(held)
      <4>2. CASE i <= Len(released) BY <1>4, <2>1, <2>2, <3>6, <4>2
      <4>3. CASE i > Len(released) BY <3>3, <4>1, <4>3, <1>4, <3>4
      <4>4. i <= Len(released) \/ i > Len(released) BY <1>12, <2>1, <4>1
      <4>5. QED BY <4>2, <4>3, <4>4
    <3>9. QED BY <3>2, <3>7, <3>8 DEF ReleasedOnce
  <2>6. QED BY <2>4, <2>5
<1>20. QED BY <1>4, <1>14, <1>15, <1>16, <1>17, <1>18, <1>19 DEF AccessInv

LEMMA AccessKeeps == ASSUME AccessInv, AccessNext PROVE AccessInv'
<1>1. ASSUME NEW p \in DOMAIN pairings, Approve(p) PROVE AccessInv' BY <1>1, DecisionKeeps DEF Approve
<1>2. ASSUME NEW p \in DOMAIN pairings, Deny(p) PROVE AccessInv' BY <1>2, DecisionKeeps DEF Deny
<1>3. ASSUME NEW c \in AccessConfigs, NEW trusted \in BOOLEAN, Patch(c, trusted) PROVE AccessInv'
  <2>1. config' \in AccessConfigs /\ UNCHANGED <<came, pairings, made, released>> BY <1>3 DEF Patch
  <2>2. AccessTypes' BY <2>1 DEF AccessInv, AccessTypes
  <2>3. Keyed' BY <2>1 DEF AccessInv, Keyed, KeyOf, Direct
  <2>4. QED
    BY <2>1, <2>2, <2>3 DEF AccessInv, OneRequestEach, InOrder, HoldsItsOwn, HeldSomewhere, ReleasedOnce, WaitingIn
<1>4. QED BY <1>1, <1>2, <1>3, ProcessMessageKeeps DEF AccessNext, Receives, Webhook, Decision

LEMMA AccessStutters == ASSUME AccessInv, UNCHANGED accessVars PROVE AccessInv'
<1>1. UNCHANGED <<config, came, pairings, made, released>> BY DEF accessVars
<1>2. AccessTypes' BY <1>1 DEF AccessInv, AccessTypes
<1>3. Keyed' BY <1>1 DEF AccessInv, Keyed, KeyOf, Direct
<1>4. QED
  BY <1>1, <1>2, <1>3 DEF AccessInv, OneRequestEach, InOrder, HoldsItsOwn, HeldSomewhere, ReleasedOnce, WaitingIn

\* A sender that is not paired waits in one request, whose messages are its own, in order and
\* handed back once; two messages meet in a session exactly when they belong together: for every
\* set of letters and of configurations, and any number of messages, decisions and patches.
THEOREM AccessStaysSound == ASSUME NamesApart PROVE AccessSpec => []AccessIsSound
<1>1. AccessInv /\ [AccessNext]_accessVars => AccessInv' BY AccessKeeps, AccessStutters
<1>2. QED BY <1>1, AccessInitially, AccessInvGives, PTL DEF AccessSpec

-----------------------------------------------------------------------------
(* GatewayLifecycle                                                        *)

StopStages == {"none", "channels", "closing", "saving"}
LifecycleTypes ==
    /\ started \in BOOLEAN /\ starts \in Nat /\ socket \in BOOLEAN /\ reaper \in BOOLEAN /\ exited \in BOOLEAN
    /\ starting \in {"no", "loading", "binding", "registering", "channels"}
    /\ stops \in [Stoppers -> [at : StopStages, waits : SUBSET Channels]]
    /\ server \in {"none", "idle", "bound", "closing"} /\ open \in Nat /\ audience \in Nat
    /\ socket => audience > 0
    /\ registered \in SUBSET Channels /\ chan \in [Channels -> {"down", "starting", "up", "stuck"}]
    /\ handlers \in SUBSET Signals
    /\ mishaps \in [binds : Nat, stuck : SUBSET Channels, half : BOOLEAN]

\* A signal's stop() ends the process: what it does to the gateway matters no more.
Ending == exited \/ \E s \in Signals : stops[s].at # "none"

HostStop == stops[Host].at
Gone(c) == chan[c] = "down" \/ c \in mishaps.stuck

\* One call of the host at a time: start() of what is not started, stop() of what is.
CallsHold ==
    /\ starting # "no" => ~started /\ HostStop = "none"
    /\ HostStop # "none" => started
    /\ mishaps.half => started

\* What a gateway has of the HTTP server and of its event sockets.
ServerHolds ==
    /\ IF ~started /\ starting \in {"no", "loading"}
       THEN server \in {"none", "idle"} /\ audience = mishaps.binds
       ELSE audience = mishaps.binds + (IF socket THEN 1 ELSE 0)
    /\ starting = "binding" => server = "idle" /\ socket
    /\ starting \in {"registering", "channels"} \/ (started /\ HostStop = "none" /\ ~mishaps.half) => server = "bound" /\ socket
    /\ started /\ HostStop = "channels" => (IF mishaps.half THEN server = "none" ELSE server = "bound")
    /\ HostStop = "closing" => server = "closing" /\ ~socket
    /\ HostStop = "saving" \/ (mishaps.half /\ HostStop = "none") => server = "none" /\ ~socket

\* What it has beside them.
RestHolds ==
    /\ handlers = (IF started THEN Signals ELSE {})
    /\ reaper <=> started /\ HostStop = "none" /\ ~mishaps.half
    /\ started \/ starting # "channels" => \A c \in Channels : chan[c] # "starting"
    /\ \A c \in Channels \ registered : Gone(c) /\ chan[c] # "starting"
    /\ ~started /\ starting # "channels" => \A c \in Channels : Gone(c)
    /\ HostStop # "none" => \A c \in Channels \ stops[Host].waits : Gone(c)
    /\ HostStop \in {"closing", "saving"} => stops[Host].waits = {}
    /\ mishaps.half /\ HostStop = "none" => \A c \in Channels : Gone(c)

LifecycleInv == LifecycleTypes /\ (~Ending => CallsHold /\ ServerHolds /\ RestHolds)

LEMMA StoppersAre == Host \in Stoppers /\ Signals \subseteq Stoppers /\ Host \notin Signals
BY LifecycleAssumption DEF Stoppers, Host

LEMMA LifecycleInitially == ASSUME LifecycleInit PROVE LifecycleInv
<1>1. HostStop = "none" /\ \A s \in Signals : stops[s].at = "none"
  BY StoppersAre DEF LifecycleInit, NoStop, HostStop
<1>2. LifecycleTypes BY DEF LifecycleInit, LifecycleTypes, NoStop, StopStages
<1>3. CallsHold /\ ServerHolds /\ RestHolds BY <1>1 DEF LifecycleInit, CallsHold, ServerHolds, RestHolds, Gone
<1>4. QED BY <1>2, <1>3 DEF LifecycleInv

\* A gateway whose process ends keeps ending.
LEMMA EndsForGood ==
    ASSUME LifecycleTypes, LifecycleNext, Ending
    PROVE  Ending'
<1>1. CASE \E s \in Stoppers, ok \in BOOLEAN : Saves(s, ok)
  <2>1. PICK s \in Stoppers, ok \in BOOLEAN : Saves(s, ok) BY <1>1
  <2>2. stops[s].at = "saving" /\ ~exited /\ stops' = [stops EXCEPT ![s] = NoStop] /\ exited' = (s # Host)
    BY <2>1 DEF Saves
  <2>3. CASE s = Host
    <3>1. PICK g \in Signals : stops[g].at # "none" BY <2>2 DEF Ending
    <3>2. stops'[g] = stops[g] BY <2>2, <2>3, <3>1, StoppersAre DEF LifecycleTypes
    <3>3. QED BY <3>1, <3>2 DEF Ending
  <2>4. QED BY <2>2, <2>3 DEF Ending
<1>2. CASE \E s \in Stoppers : Stop(s) \/ Closes(s) \/ ServerCloses(s) \/ \E ok \in BOOLEAN, c \in Channels : ChannelStops(s, c, ok)
  <2>1. PICK s \in Stoppers : Stop(s) \/ Closes(s) \/ ServerCloses(s) \/ \E ok \in BOOLEAN, c \in Channels : ChannelStops(s, c, ok)
    BY <1>2
  <2>2. exited' = exited /\ \A g \in Stoppers \ {s} : stops'[g] = stops[g]
    BY <2>1 DEF Stop, Closes, ServerCloses, ChannelStops, marks, LifecycleTypes
  <2>3. stops'[s].at # "none" BY <2>1 DEF Stop, Closes, ServerCloses, ChannelStops, LifecycleTypes
  <2>4. QED BY <2>2, <2>3, StoppersAre DEF Ending
<1>3. CASE UNCHANGED <<stops, exited>> BY <1>3 DEF Ending
<1>4. QED
  BY <1>1, <1>2, <1>3 DEF LifecycleNext, Start, Connects, Disconnects, SessionsLoad, Binds, Ready, Registers, ChannelStarts, marks

LEMMA LifecycleTypesStay == ASSUME LifecycleTypes, LifecycleNext PROVE LifecycleTypes'
<1>1. CASE Start \/ Connects \/ Disconnects
  BY <1>1 DEF LifecycleTypes, Start, Connects, Disconnects, HostIsFree, serving, marks, StopStages
<1>2. ASSUME NEW ok \in BOOLEAN, SessionsLoad(ok) \/ Binds(ok) \/ Ready(ok) PROVE LifecycleTypes'
  <2>1. CASE SessionsLoad(ok)
    <3>1. socket' \in BOOLEAN /\ audience' \in Nat /\ (socket' => audience' > 0) /\ server' \in {"none", "idle", "bound", "closing"}
      <4>1. CASE ok BY <2>1, <4>1 DEF LifecycleTypes, SessionsLoad, SocketsMounted
      <4>2. CASE ~ok BY <2>1, <4>2 DEF LifecycleTypes, SessionsLoad
      <4>3. QED BY <4>1, <4>2
    <3>2. QED BY <2>1, <3>1 DEF LifecycleTypes, SessionsLoad, marks
  <2>2. CASE Binds(ok) BY <2>2 DEF LifecycleTypes, Binds, marks
  <2>3. CASE Ready(ok) BY <2>3 DEF LifecycleTypes, Ready, serving
  <2>4. QED BY <1>2, <2>1, <2>2, <2>3
<1>3. CASE \E loaded \in SUBSET Channels : Registers(loaded)
  BY <1>3 DEF LifecycleTypes, Registers, serving, marks, StopStages
<1>4. CASE \E c \in Channels, how \in {"up", "down", "stuck"} : ChannelStarts(c, how)
  BY <1>4 DEF LifecycleTypes, ChannelStarts, serving, marks, StopStages
<1>5. ASSUME NEW s \in Stoppers, Stop(s) PROVE LifecycleTypes'
  BY <1>5 DEF LifecycleTypes, Stop, Calls, serving, marks, StopStages
<1>6. ASSUME NEW s \in Stoppers, Closes(s) PROVE LifecycleTypes'
  <2>1. socket' = FALSE /\ audience' \in Nat BY <1>6 DEF LifecycleTypes, Closes, SocketsClose
  <2>2. server' \in {"none", "closing"} /\ stops' \in [Stoppers -> [at : StopStages, waits : SUBSET Channels]]
    BY <1>6 DEF LifecycleTypes, Closes, StopStages
  <2>3. QED BY <1>6, <2>1, <2>2 DEF LifecycleTypes, Closes, marks
<1>7. ASSUME NEW s \in Stoppers, ServerCloses(s) PROVE LifecycleTypes'
  BY <1>7 DEF LifecycleTypes, ServerCloses, marks, StopStages
<1>8. ASSUME NEW s \in Stoppers, NEW ok \in BOOLEAN, Saves(s, ok) PROVE LifecycleTypes'
  BY <1>8 DEF LifecycleTypes, Saves, NoStop, serving, marks, StopStages
<1>9. ASSUME NEW s \in Stoppers, NEW ok \in BOOLEAN, NEW c \in Channels, ChannelStops(s, c, ok) PROVE LifecycleTypes'
  BY <1>9 DEF LifecycleTypes, ChannelStops, serving, marks, StopStages
<1>10. QED BY <1>1, <1>2, <1>3, <1>4, <1>5, <1>6, <1>7, <1>8, <1>9 DEF LifecycleNext

-----------------------------------------------------------------------------
(* The steps of a gateway that does not end: all but a signal's stop().      *)

LEMMA StartKeeps == ASSUME LifecycleInv, ~Ending, Start PROVE CallsHold' /\ ServerHolds' /\ RestHolds'
BY DEF LifecycleInv, Start, HostIsFree, HostStop, CallsHold, ServerHolds, RestHolds, Gone, serving

LEMMA ConnectionsKeep ==
    ASSUME LifecycleInv, ~Ending, Connects \/ Disconnects
    PROVE  CallsHold' /\ ServerHolds' /\ RestHolds'
BY DEF LifecycleInv, Connects, Disconnects, HostStop, CallsHold, ServerHolds, RestHolds, Gone, marks

LEMMA SessionsLoadKeeps ==
    ASSUME LifecycleInv, ~Ending, NEW ok \in BOOLEAN, SessionsLoad(ok)
    PROVE  CallsHold' /\ ServerHolds' /\ RestHolds'
<1>1. CallsHold' /\ RestHolds' BY DEF LifecycleInv, SessionsLoad, HostStop, CallsHold, RestHolds, Gone, marks
<1>2. ServerHolds'
  BY DEF LifecycleInv, LifecycleTypes, SessionsLoad, SocketsMounted, HostStop, CallsHold, ServerHolds, marks
<1>3. QED BY <1>1, <1>2

LEMMA BindsKeeps ==
    ASSUME LifecycleInv, ~Ending, NEW ok \in BOOLEAN, Binds(ok)
    PROVE  CallsHold' /\ ServerHolds' /\ RestHolds'
<1>1. CallsHold' /\ RestHolds'
  BY DEF LifecycleInv, LifecycleTypes, Binds, HostStop, CallsHold, RestHolds, Gone, marks
<1>2. ServerHolds' BY DEF LifecycleInv, LifecycleTypes, Binds, HostStop, CallsHold, ServerHolds, marks
<1>3. QED BY <1>1, <1>2

LEMMA RegistersKeeps ==
    ASSUME LifecycleInv, ~Ending, NEW loaded \in SUBSET Channels, Registers(loaded)
    PROVE  CallsHold' /\ ServerHolds' /\ RestHolds'
<1>1. CallsHold' /\ ServerHolds'
  BY DEF LifecycleInv, Registers, HostStop, CallsHold, ServerHolds, marks, serving
<1>2. RestHolds' BY DEF LifecycleInv, LifecycleTypes, Registers, HostStop, CallsHold, RestHolds, Gone, marks
<1>3. QED BY <1>1, <1>2

LEMMA ChannelStartsKeeps ==
    ASSUME LifecycleInv, ~Ending, NEW c \in Channels, NEW how \in {"up", "down", "stuck"}, ChannelStarts(c, how)
    PROVE  CallsHold' /\ ServerHolds' /\ RestHolds'
<1>1. CallsHold' /\ ServerHolds'
  BY DEF LifecycleInv, ChannelStarts, HostStop, CallsHold, ServerHolds, marks, serving
<1>2. starting = "channels" /\ ~started BY DEF LifecycleInv, LifecycleTypes, ChannelStarts, CallsHold, RestHolds
<1>3. RestHolds'
  BY <1>2 DEF LifecycleInv, LifecycleTypes, ChannelStarts, HostStop, CallsHold, RestHolds, Gone, marks
<1>4. QED BY <1>1, <1>3

LEMMA ReadyKeeps ==
    ASSUME LifecycleInv, ~Ending, ~IdleIsWrong, NEW ok \in BOOLEAN, Ready(ok)
    PROVE  CallsHold' /\ ServerHolds' /\ RestHolds'
<1>1. /\ starting = "channels" /\ AllSettled /\ starting' = "no" /\ reaper' = TRUE /\ handlers' = Signals /\ started' = TRUE
      /\ UNCHANGED <<starts, stops, serving, registered, chan, exited, mishaps>>
  BY DEF Ready
<1>2. CallsHold' /\ ServerHolds' BY <1>1 DEF LifecycleInv, HostStop, CallsHold, ServerHolds, serving
<1>3. \A c \in Channels : chan[c] # "starting" BY <1>1 DEF AllSettled, LifecycleInv, RestHolds, Gone
<1>4. RestHolds' BY <1>1, <1>3 DEF LifecycleInv, HostStop, CallsHold, RestHolds, Gone
<1>5. QED BY <1>2, <1>4

LEMMA StopKeeps ==
    ASSUME LifecycleInv, ~Ending, Stop(Host)
    PROVE  CallsHold' /\ ServerHolds' /\ RestHolds'
<1>1. /\ started /\ HostStop = "none" /\ starting = "no" /\ handlers' = handlers /\ reaper' = FALSE
      /\ stops'[Host] = [at |-> "channels", waits |-> registered]
      /\ UNCHANGED <<started, starts, starting, serving, registered, chan, exited, mishaps>>
  BY StoppersAre DEF LifecycleInv, LifecycleTypes, Stop, Calls, HostIsFree, HostStop
<1>2. CallsHold' /\ ServerHolds' BY <1>1 DEF LifecycleInv, HostStop, CallsHold, ServerHolds, serving
<1>3. RestHolds' BY <1>1 DEF LifecycleInv, HostStop, CallsHold, RestHolds, Gone
<1>4. QED BY <1>2, <1>3

LEMMA ChannelStopsKeeps ==
    ASSUME LifecycleInv, ~Ending, NEW c \in Channels, NEW ok \in BOOLEAN, ChannelStops(Host, c, ok)
    PROVE  CallsHold' /\ ServerHolds' /\ RestHolds'
<1> DEFINE waits == stops[Host].waits
<1>1. /\ HostStop = "channels" /\ stops'[Host] = [at |-> "channels", waits |-> waits \ {c}]
      /\ UNCHANGED <<marks, starting, serving, registered, reaper>> /\ mishaps'.half = mishaps.half /\ mishaps'.binds = mishaps.binds
  BY StoppersAre DEF LifecycleInv, LifecycleTypes, ChannelStops, HostStop
<1>2. CallsHold' /\ ServerHolds' BY <1>1 DEF LifecycleInv, HostStop, CallsHold, ServerHolds, serving, marks
<1>3. started /\ \A d \in Channels : chan[d] # "starting" BY <1>1 DEF LifecycleInv, CallsHold, RestHolds
<1>4. \A d \in Channels : chan'[d] # "starting" /\ (d = c \/ Gone(d) => Gone(d)')
  BY <1>3 DEF LifecycleInv, LifecycleTypes, ChannelStops, Gone
<1>5. RestHolds' BY <1>1, <1>3, <1>4 DEF LifecycleInv, HostStop, CallsHold, RestHolds, marks
<1>6. QED BY <1>2, <1>5

LEMMA StopClosesKeeps == ASSUME LifecycleInv, ~Ending, Closes(Host) PROVE CallsHold' /\ ServerHolds' /\ RestHolds'
<1>1. /\ HostStop = "channels" /\ stops[Host].waits = {} /\ stops'[Host].waits = {}
      /\ socket' = FALSE /\ audience' = (IF socket THEN audience - 1 ELSE audience)
      /\ UNCHANGED <<marks, starting, open, registered, chan, reaper, mishaps>>
      /\ IF server = "bound" THEN server' = "closing" /\ stops'[Host].at = "closing"
         ELSE server' = "none" /\ stops'[Host].at = "saving"
  BY StoppersAre DEF LifecycleInv, LifecycleTypes, Closes, SocketsClose, HostStop
<1>2. started /\ starting = "no" /\ audience = mishaps.binds + (IF socket THEN 1 ELSE 0) /\ mishaps.binds \in Nat
  BY <1>1 DEF LifecycleInv, LifecycleTypes, CallsHold, ServerHolds
<1>3. audience' = mishaps.binds BY <1>1, <1>2
<1>4. CallsHold' /\ ServerHolds' BY <1>1, <1>2, <1>3 DEF LifecycleInv, HostStop, CallsHold, ServerHolds, marks
<1>5. RestHolds' BY <1>1, <1>2 DEF LifecycleInv, HostStop, CallsHold, RestHolds, Gone, marks
<1>6. QED BY <1>4, <1>5

LEMMA ServerClosesKeeps == ASSUME LifecycleInv, ~Ending, ServerCloses(Host) PROVE CallsHold' /\ ServerHolds' /\ RestHolds'
<1>1. /\ HostStop = "closing" /\ stops'[Host] = [stops[Host] EXCEPT !.at = "saving"] /\ server' = "none"
      /\ UNCHANGED <<marks, starting, open, socket, audience, registered, chan, reaper, mishaps>>
  BY StoppersAre DEF LifecycleInv, LifecycleTypes, ServerCloses, HostStop
<1>2. CallsHold' /\ ServerHolds'
  BY <1>1 DEF LifecycleInv, LifecycleTypes, HostStop, CallsHold, ServerHolds, marks
<1>3. RestHolds' BY <1>1 DEF LifecycleInv, LifecycleTypes, HostStop, CallsHold, RestHolds, Gone, marks
<1>4. QED BY <1>2, <1>3

LEMMA SavesKeeps ==
    ASSUME LifecycleInv, ~Ending, NEW ok \in BOOLEAN, Saves(Host, ok)
    PROVE  CallsHold' /\ ServerHolds' /\ RestHolds'
<1>1. /\ HostStop = "saving" /\ stops'[Host] = NoStop /\ mishaps' = [mishaps EXCEPT !.half = ~ok]
      /\ IF ok THEN started' = FALSE /\ handlers' = {} ELSE UNCHANGED <<started, handlers>>
      /\ UNCHANGED <<starts, starting, serving, registered, chan, reaper>>
  BY StoppersAre DEF LifecycleInv, LifecycleTypes, Saves, HostStop
<1>2. started /\ starting = "no" /\ server = "none" /\ ~socket /\ ~reaper /\ stops[Host].waits = {}
  BY <1>1 DEF LifecycleInv, CallsHold, ServerHolds, RestHolds
<1>3. (mishaps'.half <=> ~ok) /\ mishaps'.binds = mishaps.binds /\ mishaps'.stuck = mishaps.stuck
  BY <1>1 DEF LifecycleInv, LifecycleTypes
<1>4. stops'[Host].at = "none" /\ (ok => ~started' /\ handlers' = {} /\ ~mishaps'.half)
      /\ (~ok => started' /\ handlers' = Signals /\ mishaps'.half)
  <2>1. CASE ok BY <1>1, <1>3, <2>1 DEF NoStop
  <2>2. CASE ~ok BY <1>1, <1>2, <1>3, <2>2 DEF LifecycleInv, RestHolds, NoStop
  <2>3. QED BY <2>1, <2>2
<1>5. CallsHold' /\ ServerHolds'
  BY <1>1, <1>2, <1>3, <1>4 DEF LifecycleInv, LifecycleTypes, HostStop, CallsHold, ServerHolds, serving
<1>6. \A c \in Channels : Gone(c) /\ Gone(c)' /\ chan'[c] # "starting"
  BY <1>1, <1>2, <1>3 DEF LifecycleInv, RestHolds, Gone
<1>7. RestHolds' BY <1>1, <1>2, <1>3, <1>4, <1>6 DEF LifecycleInv, HostStop, RestHolds
<1>8. QED BY <1>5, <1>7

LEMMA LifecycleKeeps == ASSUME ~IdleIsWrong, LifecycleInv, LifecycleNext PROVE LifecycleInv'
<1>1. LifecycleTypes' BY LifecycleTypesStay DEF LifecycleInv
<1>2. SUFFICES ASSUME ~Ending' PROVE CallsHold' /\ ServerHolds' /\ RestHolds' BY <1>1 DEF LifecycleInv
<1>3. ~Ending BY <1>2, EndsForGood DEF LifecycleInv
<1>4. ASSUME NEW s \in Stoppers,
             \/ Stop(s) \/ Closes(s) \/ ServerCloses(s)
             \/ \E ok \in BOOLEAN : Saves(s, ok) \/ \E c \in Channels : ChannelStops(s, c, ok)
      PROVE  s = Host
  <2>1. CASE Stop(s) BY <1>2, <2>1 DEF Stop, Ending, Stoppers, LifecycleInv, LifecycleTypes
  <2>2. CASE ~Stop(s) BY <1>4, <2>2, <1>3 DEF Closes, ServerCloses, Saves, ChannelStops, Ending, Stoppers
  <2>3. QED BY <2>1, <2>2
<1>5. CASE \E s \in Stoppers :
             \/ Stop(s) \/ Closes(s) \/ ServerCloses(s)
             \/ \E ok \in BOOLEAN : Saves(s, ok) \/ \E c \in Channels : ChannelStops(s, c, ok)
  BY <1>3, <1>4, <1>5, StopKeeps, StopClosesKeeps, ServerClosesKeeps, SavesKeeps, ChannelStopsKeeps
<1>6. QED
  BY <1>3, <1>5, StartKeeps, ConnectionsKeep, SessionsLoadKeeps, BindsKeeps, ReadyKeeps, RegistersKeeps, ChannelStartsKeeps
  DEF LifecycleNext

LEMMA LifecycleInvGives == ASSUME LifecycleInv PROVE StartsAndStops
<1>1. CASE ~AtRest BY <1>1 DEF StartsAndStops, QuietWhenStopped, ServesWhenStarted, HalfStopped
<1>2. CASE AtRest
  <2>1. ~Ending /\ starting = "no" /\ HostStop = "none" BY <1>2, StoppersAre DEF AtRest, Ending, HostStop
  <2>2. CallsHold /\ ServerHolds /\ RestHolds /\ LifecycleTypes BY <2>1 DEF LifecycleInv
  <2>3. QuietWhenStopped BY <2>1, <2>2 DEF QuietWhenStopped, CallsHold, ServerHolds, RestHolds, Gone
  <2>4. ServesWhenStarted BY <2>1, <2>2 DEF ServesWhenStarted, LifecycleTypes, CallsHold, ServerHolds, RestHolds
  <2>5. HalfStopped BY <2>1, <2>2 DEF HalfStopped, CallsHold, ServerHolds, RestHolds
  <2>6. QED BY <2>3, <2>4, <2>5 DEF StartsAndStops
<1>3. QED BY <1>1, <1>2

LEMMA LifecycleStutters == ASSUME LifecycleInv, UNCHANGED lifecycleVars PROVE LifecycleInv'
BY DEF lifecycleVars, LifecycleInv, LifecycleTypes, Ending, HostStop, Gone, CallsHold, ServerHolds, RestHolds

\* A gateway at rest holds nothing when it is stopped, serves when it is started, and after half
\* a stop keeps no more than its signal handlers: for every set of channels and of signals, and
\* whichever calls of start(), stop() and the signals meet.
THEOREM GatewayStartsAndStops == ASSUME ~IdleIsWrong PROVE LifecycleSpec => []StartsAndStops
<1>1. LifecycleInv /\ [LifecycleNext]_lifecycleVars => LifecycleInv' BY LifecycleKeeps, LifecycleStutters
<1>2. QED BY <1>1, LifecycleInitially, LifecycleInvGives, PTL DEF LifecycleSpec

-----------------------------------------------------------------------------
(* The three of them in the composition                                    *)

\* Outside of its part nothing comes through to an agent.
AccessRests == part # "access" /\ AccessBegins

RequestsInv == ApprovalsInv /\ (AccessRests \/ AccessInv) /\ LifecycleInv

LEMMA NothingCameIsSound == ASSUME AccessBegins PROVE AccessIsSound
<1>1. came = << >> /\ pairings = << >> /\ released = << >> /\ DOMAIN << >> = {} BY DEF AccessBegins
<1>2. QED BY <1>1 DEF AccessIsSound, HeldOnce, KeptApart, IsInjective, ToSet

\* What is asked of the host and by the gateway is answered once and about what it names, and a
\* gateway starts and stops whole, in whichever of the compositions they are.
THEOREM RequestsStayTrue ==
    ASSUME ~IdenticalCalls, ~IdleIsWrong, NamesApart
    PROVE  SharedSpec => []RequestsAreTrue
<1>1. SharedInit => RequestsInv
  <2>1. ASSUME SharedInit PROVE AccessRests \/ AccessInv
    <3>1. CASE part = "access" BY <2>1, <3>1, AccessInitially DEF SharedInit
    <3>2. CASE part # "access" BY <2>1, <3>2 DEF SharedInit, AccessRests
    <3>3. QED BY <3>1, <3>2
  <2>2. QED BY <2>1, ApprovalsInitially, LifecycleInitially DEF SharedInit, RequestsInv
<1>2. RequestsInv /\ [SharedNext]_sharedVars => RequestsInv'
  <2>1. SUFFICES ASSUME RequestsInv, [SharedNext]_sharedVars PROVE RequestsInv' OBVIOUS
  <2>2. part' = part BY <2>1 DEF SharedNext, sharedVars
  <2>3. ASSUME UNCHANGED approvalVars PROVE ApprovalsInv' BY <2>1, <2>3, ApprovalsStutter DEF RequestsInv
  <2>4. ASSUME UNCHANGED accessVars PROVE (AccessRests \/ AccessInv)'
    BY <2>1, <2>2, <2>4, AccessStutters DEF RequestsInv, AccessRests, AccessBegins, accessVars
  <2>5. ASSUME UNCHANGED lifecycleVars PROVE LifecycleInv' BY <2>1, <2>5, LifecycleStutters DEF RequestsInv
  <2>6. CASE UNCHANGED <<approvalVars, accessVars, lifecycleVars>> BY <2>3, <2>4, <2>5, <2>6 DEF RequestsInv
  <2>7. CASE part = "asks" /\ ApprovalsNext /\ UNCHANGED <<accessVars, lifecycleVars>>
    BY <2>1, <2>4, <2>5, <2>7, ApprovalsKeep DEF RequestsInv
  <2>8. CASE part = "access" /\ AccessNext /\ UNCHANGED <<approvalVars, lifecycleVars>>
    BY <2>1, <2>3, <2>5, <2>8, AccessKeeps DEF RequestsInv, AccessRests
  <2>9. CASE part = "gateway" /\ LifecycleNext /\ UNCHANGED <<approvalVars, accessVars>>
    BY <2>1, <2>3, <2>4, <2>9, LifecycleKeeps DEF RequestsInv
  <2>10. QED BY <2>1, <2>6, <2>7, <2>8, <2>9 DEF SharedNext, sharedVars, codexVars, gatewayVars
<1>3. RequestsInv => RequestsAreTrue
  BY ApprovalsInvGives, AccessInvGives, LifecycleInvGives, NothingCameIsSound
  DEF RequestsInv, AccessRests, RequestsAreTrue
<1>4. QED BY <1>1, <1>2, <1>3, PTL DEF SharedSpec
=============================================================================
