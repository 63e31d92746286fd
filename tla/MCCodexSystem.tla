---------------------------- MODULE MCCodexSystem ----------------------------
(* CodexSystem for TLC.  Sends are made in order.  Each behaviour has a      *)
(* scope, drawn at the start:                                                *)
(*   turns: three sends, up to three turns, deliveries that overtake or are  *)
(*          overtaken, while session and app-server stay in step;            *)
(*   stops: two sends, refused, timed out and interrupted, with turn ids     *)
(*          that come late or never, in step or not;                         *)
(*   works: two sends, items and requests, drain, close and exit.            *)
EXTENDS CodexSystem, TLC

CONSTANTS a, b, c, t1, t2, t3

VARIABLE scope

Works == Waits \cup {"item/started", "item/completed"}
Lines(what) == {i \in DOMAIN stdout : stdout[i].line \in what}
Open == ~draining.on /\ closing = "open" /\ alive
NoStops == (\A g \in Gens : stops[g] = "none") /\ \A s \in Sends : result[s] # "early"
NoScan == \A i \in Lines({"ended"}) : ~stdout[i].scan
Named == \A i \in Lines({"response"}) : stdout[i].turn # NoTurn

InScope ==
    /\ result[b] # "unsent" => result[a] # "unsent"
    /\ result[c] # "unsent" => result[b] # "unsent"
    /\ CASE scope = "turns" -> /\ Open /\ NoStops /\ ~OutOfStep /\ Named
                               /\ Lines(Works \cup {"refused"}) = {}
         [] scope = "stops" -> Open /\ result[c] = "unsent" /\ NoScan /\ Lines(Works) = {}
         [] scope = "works" -> /\ result[c] = "unsent" /\ NoStops /\ NoScan /\ ~OutOfStep /\ Named
                               /\ Lines({"refused"}) = {} /\ (Lines(Works) # {} => Len(stdout) = 1)
                               /\ Cardinality(Lines(Waits)) + asking["waiting_for_approval"]
                                  + asking["waiting_for_input"] <= 1

Told == turn = NoTurn /\ turn' # NoTurn => stdout' # stdout

MCInit == SystemInit /\ scope \in {"turns", "stops", "works"} /\ InScope
MCNext == Next /\ UNCHANGED scope /\ InScope' /\ (scope = "stops" \/ Told)
MCSpec == MCInit /\ [][MCNext]_<<systemVars, scope>> /\ Fairness
=============================================================================
