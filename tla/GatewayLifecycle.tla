--------------------------- MODULE GatewayLifecycle ---------------------------
(***************************************************************************)
(* start() and stop() of a gateway, and what they bring up and take down:  *)
(* the HTTP server with its event sockets, the channels of the registry,   *)
(* the reaper, the signal handlers.  A step may fail half way, the host    *)
(* may start the gateway again, a signal calls stop() while the host does. *)
(*                                                                         *)
(* The host awaits each of its calls.  The clients of the channels, the    *)
(* file system and the port are external.                                  *)
(***************************************************************************)
EXTENDS Naturals, FiniteSets

CONSTANTS
    Channels,     \* the channels configured
    Clients,      \* the ones whose start may reject once their client is made: Slack's,
                  \* Discord's and the jobs of cron
    Signals,      \* SIGINT, SIGTERM
    MaxStarts,    \* bound: calls of start() that pass its checks
    MaxOpen,      \* bound: connections open at once
    IdleIsWrong   \* whether resetOnIdle may be no duration

ASSUME LifecycleAssumption ==
    /\ Clients \subseteq Channels /\ "host" \notin Signals
    /\ MaxStarts \in Nat /\ MaxOpen \in Nat /\ IdleIsWrong \in BOOLEAN

Host == "host"
Stoppers == {Host} \cup Signals

VARIABLES
    started, starts,
    starting,   \* where start() is
    stops,      \* per caller of stop(): where it is, the channels it waits for
    server,     \* the HTTP server
    open,       \* connections that it has open
    socket,     \* wsHandle is there
    audience,   \* the "*" listeners that event sockets left on the emitter
    registered, \* ChannelRegistry: the plugins
    chan,       \* per channel, its client
    reaper, handlers, exited,
    mishaps     \* history: binds that failed, channels that would not stop, whether
                \* a stop() rejected after it had taken everything down

lifecycleVars == <<started, starts, starting, stops, server, open, socket, audience, registered,
                   chan, reaper, handlers, exited, mishaps>>
serving == <<server, open, socket, audience>>
marks == <<started, starts, handlers, exited>>

NoStop == [at |-> "none", waits |-> {}]

LifecycleInit ==
    /\ started = FALSE /\ starts = 0 /\ starting = "no"
    /\ stops = [s \in Stoppers |-> NoStop]
    /\ server = "none" /\ open = 0 /\ socket = FALSE /\ audience = 0
    /\ registered = {} /\ chan = [c \in Channels |-> "down"]
    /\ reaper = FALSE /\ handlers = {} /\ exited = FALSE
    /\ mishaps = [binds |-> 0, stuck |-> {}, half |-> FALSE]

HostIsFree == starting = "no" /\ stops[Host].at = "none" /\ ~exited

-----------------------------------------------------------------------------
(* start()                                                                 *)

\* Past the checks: not started, and an authentication that is there.
Start ==
    /\ HostIsFree /\ ~started /\ starts < MaxStarts
    /\ starts' = starts + 1 /\ starting' = "loading"
    /\ UNCHANGED <<started, stops, serving, registered, chan, reaper, handlers, exited, mishaps>>

\* mountWebSocket: a listener of all events, whatever listened before.
SocketsMounted == socket' = TRUE /\ audience' = audience + 1

\* The directories are there and the sessions loaded, or start() rejects.
SessionsLoad(ok) ==
    /\ starting = "loading"
    /\ IF ok THEN server' = "idle" /\ SocketsMounted /\ starting' = "binding"
             ELSE starting' = "no" /\ UNCHANGED <<server, socket, audience>>
    /\ UNCHANGED <<marks, stops, open, registered, chan, reaper, mishaps>>

\* listen(): when the port is taken start() rejects, and what it made is left where it is.
Binds(ok) ==
    /\ starting = "binding"
    /\ IF ok THEN server' = "bound" /\ starting' = "registering" /\ UNCHANGED mishaps
             ELSE /\ starting' = "no" /\ UNCHANGED server
                  /\ mishaps' = [mishaps EXCEPT !.binds = @ + 1]
    /\ UNCHANGED <<marks, stops, open, socket, audience, registered, chan, reaper>>

\* The built-in channels whose module loads are registered, and every plugin is started.
Registers(loaded) ==
    /\ starting = "registering"
    /\ starting' = "channels" /\ registered' = registered \cup loaded
    /\ chan' = [c \in Channels |-> IF c \in registered' THEN "starting" ELSE chan[c]]
    /\ UNCHANGED <<marks, stops, serving, reaper, mishaps>>

\* A plugin's start(): it is up, or rejects, which is logged; a client made before stays.
ChannelStarts(c, how) ==
    /\ chan[c] = "starting" /\ (how = "stuck" => c \in Clients)
    /\ chan' = [chan EXCEPT ![c] = how]
    /\ UNCHANGED <<marks, starting, stops, serving, registered, reaper, mishaps>>

\* Mutant: the gateway is ready once its channels are being started.
NoWait == TRUE

\* startAll() resolves once each of them settled.
AllSettled == \A c \in registered : chan[c] # "starting"

\* The reaper, the hooks and the signal handlers; a duration that is none throws after
\* everything else is up.
Ready(ok) ==
    /\ starting = "channels" /\ AllSettled /\ (ok \/ IdleIsWrong)
    /\ starting' = "no"
    /\ IF ok THEN reaper' = TRUE /\ handlers' = Signals /\ started' = TRUE
             ELSE UNCHANGED <<reaper, handlers, started>>
    /\ UNCHANGED <<starts, stops, serving, registered, chan, exited, mishaps>>

-----------------------------------------------------------------------------
(* stop()                                                                  *)

\* The host's call, or a signal's, whose handler is there once.
Calls(s) == IF s = Host THEN HostIsFree /\ UNCHANGED handlers
            ELSE s \in handlers /\ ~exited /\ handlers' = handlers \ {s}

\* Started: the reaper stops, and every plugin is told to.
Stop(s) ==
    /\ started /\ stops[s].at = "none" /\ Calls(s)
    /\ reaper' = FALSE
    /\ stops' = [stops EXCEPT ![s] = [at |-> "channels", waits |-> registered]]
    /\ UNCHANGED <<started, starts, starting, serving, registered, chan, exited, mishaps>>

\* A plugin's stop(): nothing without a client; a client that will not is logged.
ChannelStops(s, c, ok) ==
    /\ stops[s].at = "channels" /\ c \in stops[s].waits /\ ~exited
    /\ stops' = [stops EXCEPT ![s].waits = @ \ {c}]
    /\ chan' = IF ok /\ chan[c] # "starting" THEN [chan EXCEPT ![c] = "down"] ELSE chan
    /\ mishaps' = IF ok THEN [mishaps EXCEPT !.stuck = @ \ {c}] ELSE [mishaps EXCEPT !.stuck = @ \cup {c}]
    /\ ok \/ chan[c] \in {"up", "stuck"}
    /\ UNCHANGED <<marks, starting, serving, registered, reaper>>

\* Mutant: the event sockets' listener stays.
SocketsStay == UNCHANGED <<socket, audience>>

\* closeAll() takes the listener off the emitter.
SocketsClose ==
    /\ socket' = FALSE
    /\ audience' = IF socket THEN audience - 1 ELSE audience

\* The queues are drained, the sockets closed, the server too; to one that is closing
\* already close() answers at once.
Closes(s) ==
    /\ stops[s].at = "channels" /\ stops[s].waits = {} /\ ~exited
    /\ SocketsClose
    /\ LET waits == server = "bound" IN
       /\ server' = IF waits THEN "closing" ELSE "none"
       /\ stops' = [stops EXCEPT ![s].at = IF waits THEN "closing" ELSE "saving"]
    /\ UNCHANGED <<marks, starting, open, registered, chan, reaper, mishaps>>

\* The last connection has ended.
ServerCloses(s) ==
    /\ stops[s].at = "closing" /\ open = 0 /\ ~exited
    /\ server' = "none" /\ stops' = [stops EXCEPT ![s].at = "saving"]
    /\ UNCHANGED <<marks, starting, open, socket, audience, registered, chan, reaper, mishaps>>

\* The sessions are saved and the handlers taken off; a signal's stop() ends the process.
\* When the save rejects, the gateway counts as started.
Saves(s, ok) ==
    /\ stops[s].at = "saving" /\ ~exited
    /\ stops' = [stops EXCEPT ![s] = NoStop]
    /\ IF ok THEN started' = FALSE /\ handlers' = {} ELSE UNCHANGED <<started, handlers>>
    /\ mishaps' = [mishaps EXCEPT !.half = ~ok]
    /\ exited' = (s # Host)
    /\ UNCHANGED <<starts, starting, serving, registered, chan, reaper>>

-----------------------------------------------------------------------------

\* A host or an event socket connects; connections end, sockets that were closed too.
Connects ==
    /\ server = "bound" /\ open < MaxOpen /\ open' = open + 1 /\ ~exited
    /\ UNCHANGED <<marks, starting, stops, server, socket, audience, registered, chan, reaper, mishaps>>

Disconnects ==
    /\ open > 0 /\ open' = open - 1 /\ ~exited
    /\ UNCHANGED <<marks, starting, stops, server, socket, audience, registered, chan, reaper, mishaps>>

LifecycleNext ==
    \/ Start \/ Connects \/ Disconnects
    \/ \E ok \in BOOLEAN : SessionsLoad(ok) \/ Binds(ok) \/ Ready(ok)
    \/ \E loaded \in SUBSET Channels : Registers(loaded)
    \/ \E c \in Channels, how \in {"up", "down", "stuck"} : ChannelStarts(c, how)
    \/ \E s \in Stoppers :
          \/ Stop(s) \/ Closes(s) \/ ServerCloses(s)
          \/ \E ok \in BOOLEAN : Saves(s, ok) \/ \E c \in Channels : ChannelStops(s, c, ok)

LifecycleSpec == LifecycleInit /\ [][LifecycleNext]_lifecycleVars

-----------------------------------------------------------------------------
(* Properties.                                                             *)

AtRest == starting = "no" /\ ~exited /\ \A s \in Stoppers : stops[s].at = "none"

\* A gateway that is not started holds nothing, whatever failed on the way: no port, no
\* reaper, no handler of a signal, no channel but one that would not stop, and its events go
\* to no socket but those of a start() that got no port.
QuietWhenStopped ==
    (AtRest /\ ~started) =>
        /\ server \in {"none", "idle"} /\ ~reaper /\ handlers = {}
        /\ \A c \in Channels : chan[c] = "down" \/ c \in mishaps.stuck
        /\ audience = mishaps.binds

\* One that is started serves, unless its stop() rejected: it has the port, its events go to
\* its sockets once, every channel has come up or said why not, signals stop it.
ServesWhenStarted ==
    (AtRest /\ started /\ ~mishaps.half) =>
        /\ server = "bound" /\ socket /\ audience = mishaps.binds + 1
        /\ reaper /\ handlers = Signals
        /\ \A c \in registered : chan[c] # "starting"

\* What has gone half down can be stopped again, and is gone then.
HalfStopped == (AtRest /\ mishaps.half) => started /\ server = "none" /\ ~reaper

StartsAndStops == QuietWhenStopped /\ ServesWhenStarted /\ HalfStopped

=============================================================================
