--------------------------- MODULE TelemetryFlights ---------------------------
(***************************************************************************)
(* TelemetryFlights (packages/agent/src/telemetry/single-flight.ts): callers *)
(* of the same read share one process, each with an abort signal and a     *)
(* timeout of its own; the last one to leave ends the read and waits for   *)
(* its cleanup.  No result is kept.                                        *)
(*                                                                         *)
(* External: the read (`start`) ends, with a value or an error, and soon   *)
(* after its signal is aborted.                                            *)
(***************************************************************************)
EXTENDS Naturals, Sequences, FiniteSets

CONSTANTS
    ReadKeys,     \* what is read
    Callers,      \* calls of run()
    MaxFlights    \* bound: reads started

ASSUME FlightsAssumption == IsFiniteSet(Callers) /\ MaxFlights \in Nat

VARIABLES
    flights,  \* the reads started, in order
    table,    \* this.flights: per key, the read to join, 0: none
    callers   \* per call, the read it shares, where it is and how it was settled

flightsVars == <<flights, table, callers>>

FlightsInit ==
    /\ flights = << >> /\ table = [k \in ReadKeys |-> 0]
    /\ callers = [c \in Callers |-> [at |-> "none", flight |-> 0, how |-> "none"]]

\* Mutant: the read stays to be joined when its last caller has left.
Stays(f, keys) == keys

\* A read that ended or that nobody waits for is not joined any more.
Leaves(f, keys) == [k \in ReadKeys |-> IF keys[k] = f THEN 0 ELSE keys[k]]

\* run(): the read in flight is joined, aborted or not, or one is started.
CallRead(c, k) ==
    /\ callers[c].at = "none"
    /\ IF table[k] # 0
       THEN /\ flights' = [flights EXCEPT ![table[k]].users = @ + 1]
            /\ UNCHANGED table
       ELSE /\ Len(flights) < MaxFlights
            /\ flights' = Append(flights, [key |-> k, users |-> 1, aborted |-> "no", ended |-> "no"])
            /\ table' = [table EXCEPT ![k] = Len(flights) + 1]
    /\ callers' = [callers EXCEPT ![c] =
           [at |-> "waiting", how |-> "none",
            flight |-> IF table[k] # 0 THEN table[k] ELSE Len(flights) + 1]]

\* run() with a signal that is aborted already.
CallAborted(c) ==
    /\ callers[c].at = "none"
    /\ callers' = [callers EXCEPT ![c].at = "done", ![c].how = "aborted"]
    /\ UNCHANGED <<flights, table>>

\* cancel(): the signal or the timeout of one call.  The last one out of a read that
\* goes on aborts it, and is not settled before it has ended.
Cancel(c, how) ==
    LET f == callers[c].flight
        last == flights[f].users = 1 /\ flights[f].ended = "no"
    IN  /\ callers[c].at = "waiting"
        /\ flights' = [flights EXCEPT ![f].users = @ - 1,
                                      ![f].aborted = IF last /\ @ = "no" THEN "left" ELSE @]
        /\ table' = IF last THEN Leaves(f, table) ELSE table
        /\ callers' = [callers EXCEPT ![c].at = IF last THEN "leaving" ELSE "done", ![c].how = how]

\* The ceiling of the read: aborted, and still there to be joined until it has ended.
Overdue(f) ==
    /\ flights[f].ended = "no" /\ flights[f].aborted = "no"
    /\ flights' = [flights EXCEPT ![f].aborted = "overdue"]
    /\ UNCHANGED <<table, callers>>

\* The read ends; a value that comes after the abort is a timeout.
ReadEnds(f, how) ==
    /\ flights[f].ended = "no"
    /\ flights' = [flights EXCEPT ![f].ended =
           IF how = "value" /\ flights[f].aborted # "no" THEN "timeout" ELSE how]
    /\ table' = Leaves(f, table)
    /\ UNCHANGED callers

\* shared.promise settles: whoever waits has a clone of the value or the error, and the
\* last one out its own.
ReadSettles(c) ==
    LET f == callers[c].flight
    IN  /\ callers[c].at \in {"waiting", "leaving"} /\ flights[f].ended # "no"
        /\ flights' = IF callers[c].at = "waiting" THEN [flights EXCEPT ![f].users = @ - 1] ELSE flights
        /\ callers' = [callers EXCEPT ![c].at = "done",
                                      ![c].how = IF callers[c].at = "waiting" THEN flights[f].ended ELSE @]
        /\ UNCHANGED table

FlightsNext ==
    \/ \E c \in Callers :
           \/ CallAborted(c) \/ ReadSettles(c)
           \/ \E k \in ReadKeys : CallRead(c, k)
           \/ \E how \in {"aborted", "timeout"} : Cancel(c, how)
    \/ \E f \in DOMAIN flights : Overdue(f) \/ \E how \in {"value", "error"} : ReadEnds(f, how)

FlightsSpec == FlightsInit /\ [][FlightsNext]_flightsVars

-----------------------------------------------------------------------------
(* Properties                                                              *)

Joined(f, places) == {c \in Callers : callers[c].flight = f /\ callers[c].at \in places}

\* Every variable keeps its type.
FlightsTypeOK ==
    /\ flights \in Seq([key : ReadKeys, users : 0..Cardinality(Callers),
                        aborted : {"no", "left", "overdue"}, ended : {"no", "value", "error", "timeout"}])
    /\ table \in [ReadKeys -> 0..Len(flights)]
    /\ callers \in [Callers -> [at : {"none", "waiting", "leaving", "done"}, flight : 0..Len(flights),
                                how : {"none", "aborted", "timeout", "value", "error"}]]

\* A caller's abort or timeout affects that caller only: a read somebody waits for is
\* aborted by its own ceiling alone; a read that goes on has somebody who waits for it
\* or for its end; the count of users is the number of those who wait; and a key has
\* one read at most that is not being given up, the one that is joined.
FlightsFair ==
    \A f \in DOMAIN flights :
        /\ flights[f].users = Cardinality(Joined(f, {"waiting"}))
        /\ flights[f].ended = "no" =>
               /\ Joined(f, {"waiting", "leaving"}) # {}
               /\ flights[f].users > 0 => flights[f].aborted # "left"
               /\ flights[f].users = 0 => flights[f].aborted # "no"
               /\ (table[flights[f].key] = f) = (flights[f].users > 0)

=============================================================================
