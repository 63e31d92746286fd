--------------------------- MODULE OpenCodeRuntime ---------------------------
(***************************************************************************)
(* The pool of `opencode serve` processes (packages/agent/src/providers/   *)
(* opencode/server.ts) and the sign-in flows that hold one (manager.ts).   *)
(* A server is shared by everything that uses the same binary, directory   *)
(* and environment: its key.  It is killed with its last reference, and    *)
(* replaced, not killed, when its configuration or credentials change.     *)
(*                                                                         *)
(* External: a server starts, or fails to within its deadline; its         *)
(* requests return or fail.                                                *)
(***************************************************************************)
EXTENDS Naturals, Sequences, FiniteSets

CONSTANTS
    Keys,            \* runtime keys; all use one credential store
    Users,           \* who uses the runtime: a session, or one call of the manager
    MAX_FLOWS,       \* flows that are kept
    MaxServers,      \* bound: processes spawned
    LastTickRelease  \* whether the last reference may go while acquire() resumes

ASSUME RuntimeAssumption ==
    /\ IsFiniteSet(Keys) /\ IsFiniteSet(Users)
    /\ MAX_FLOWS \in Nat \ {0} /\ MaxServers \in Nat
    /\ LastTickRelease \in BOOLEAN

VARIABLES
    servers,     \* the servers started, in order
    pool,        \* per key, the server to share, 0: none
    generations, \* per key
    users,       \* where each user is, and the server it acquired
    flows,       \* the sign-in flows begun, oldest first, each the user that began it
    retirals     \* retirements that wait for a server to start

runtimeVars == <<servers, pool, generations, users, flows, retirals>>

RuntimeInit ==
    /\ servers = << >> /\ pool = [k \in Keys |-> 0] /\ generations = [k \in Keys |-> 0]
    /\ users = [u \in Users |-> [at |-> "none", what |-> "none", server |-> 0]]
    /\ flows = << >> /\ retirals = {}

-----------------------------------------------------------------------------
(* The pool                                                                *)

\* startServer(), spawned.
NewServer(k) == [key |-> k, generation |-> generations[k], phase |-> "starting", refs |-> 0,
                 retired |-> FALSE, forced |-> FALSE, killed |-> FALSE]

\* acquireOpenCodeServer() up to its await: the pooled server, or one that is started.
Acquire(u, what, k) ==
    /\ IF pool[k] # 0
       THEN UNCHANGED <<servers, pool>>
       ELSE /\ Len(servers) < MaxServers
            /\ servers' = Append(servers, NewServer(k))
            /\ pool' = [pool EXCEPT ![k] = Len(servers) + 1]
    /\ users' = [users EXCEPT ![u] =
           [at |-> "acquiring", what |-> what,
            server |-> IF pool[k] # 0 THEN pool[k] ELSE Len(servers) + 1]]

\* The server reports its URL and is healthy, or does not: whoever awaited it fails.
Started(s, ok) ==
    /\ servers[s].phase = "starting"
    /\ servers' = [servers EXCEPT ![s].phase = IF ok THEN "ready" ELSE "failed",
                                  ![s].killed = ~ok]
    /\ pool' = IF ok THEN pool ELSE [k \in Keys |-> IF pool[k] = s THEN 0 ELSE pool[k]]
    /\ UNCHANGED <<generations, users, flows, retirals>>

\* acquire() resumes: a reference is taken.
Acquired(u) ==
    LET s == users[u].server
    IN  /\ users[u].at = "acquiring" /\ servers[s].phase # "starting"
        /\ IF servers[s].phase = "ready"
           THEN /\ servers' = [servers EXCEPT ![s].refs = @ + 1]
                /\ users' = [users EXCEPT ![u].at = "using"]
           ELSE /\ users' = [users EXCEPT ![u].at = "done"]
                /\ UNCHANGED servers
        /\ UNCHANGED <<pool, generations, flows, retirals>>

\* Those whose server is there: they resume before anything else runs.
Resuming == {u \in Users : users[u].at = "acquiring" /\ servers[users[u].server].phase # "starting"}

Unpool(s, all) ==
    IF all[s].refs = 0 THEN [k \in Keys |-> IF pool[k] = s THEN 0 ELSE pool[k]] ELSE pool

\* release() of a handle on s.
Released(s) ==
    LET fewer == [servers EXCEPT ![s].refs = @ - 1]
    IN  /\ servers' = [fewer EXCEPT ![s].killed = @ \/ fewer[s].refs = 0]
        /\ pool' = Unpool(s, fewer)

\* Mutant: a retired server is killed under its users.
KillsRetired(entry, force) == TRUE

\* Whether a retirement kills: forced, or nobody holds the server.
RetirementKills(entry, force) == force \/ entry.refs = 0

\* retireRuntimeKey() for every key of the store (retireOpenCodeAuthStore): the next
\* acquire starts afresh; a server that is ready is retired at once, one that starts
\* when it is ready.
Retire(u, keys, force) ==
    LET old == {pool[k] : k \in {x \in keys : pool[x] # 0}}
        ready == {s \in old : servers[s].phase = "ready"}
    IN  /\ generations' = [k \in Keys |-> IF k \in keys THEN generations[k] + 1 ELSE generations[k]]
        /\ pool' = [k \in Keys |-> IF k \in keys THEN 0 ELSE pool[k]]
        /\ servers' = [s \in DOMAIN servers |->
               IF s \in ready
               THEN [servers[s] EXCEPT !.retired = TRUE, !.forced = @ \/ force,
                                       !.killed = @ \/ RetirementKills(servers[s], force)]
               ELSE servers[s]]
        /\ retirals' = retirals \cup {[server |-> s, force |-> force, by |-> u] : s \in old \ ready}

\* The server a retirement waited for has started.
Retires(r) ==
    /\ r \in retirals /\ servers[r.server].phase # "starting"
    /\ retirals' = retirals \ {r}
    /\ servers' = IF servers[r.server].phase = "failed" THEN servers
                  ELSE [servers EXCEPT ![r.server].retired = TRUE, ![r.server].forced = @ \/ r.force,
                                       ![r.server].killed = @ \/ RetirementKills(servers[r.server], r.force)]
    /\ UNCHANGED <<pool, generations, users, flows>>

-----------------------------------------------------------------------------
(* The users                                                               *)

\* A session connects, a call of the manager begins, or a flow does: the flow table is
\* brought below its limit first, its oldest flows released.
Evicted == IF Len(flows) >= MAX_FLOWS THEN {flows[1]} ELSE {}

Begins(u, what, k) ==
    /\ users[u].at = "none"
    /\ what = "flow" => Evicted = {}
    /\ Acquire(u, what, k)
    /\ UNCHANGED <<generations, flows, retirals>>

\* Mutant: the flow that is evicted keeps its server.
EvictsOnly(u) ==
    /\ users[u].at = "flow" /\ u \in Evicted
    /\ flows' = Tail(flows) /\ users' = [users EXCEPT ![u].at = "done"]
    /\ UNCHANGED <<servers, pool, generations, retirals>>

\* cleanupFlows() of a call that begins or completes a flow, or a flow's expiry.
Evicts(u) ==
    /\ users[u].at = "flow"
    /\ flows' = SelectSeq(flows, LAMBDA f : f # u)
    /\ users' = [users EXCEPT ![u].at = "done"]
    /\ Released(users[u].server)
    /\ UNCHANGED <<generations, retirals>>

\* A session closes, or the requests of a call return (a read; a write, done or failed):
\* the server is released, when the retirements of the call are done.
Ends(u) ==
    /\ users[u].at = "using" /\ users[u].what # "flow"
    /\ ~ \E r \in retirals : r.by = u
    /\ users' = [users EXCEPT ![u].at = "done"]
    /\ Released(users[u].server)
    /\ UNCHANGED <<generations, flows, retirals>>

\* The read of the sign-in methods fails: nothing releases the server.
AuthReadFails(u) ==
    /\ users[u].at = "using" /\ users[u].what = "flow"
    /\ users' = [users EXCEPT ![u].at = "lost"]
    /\ UNCHANGED <<servers, pool, generations, flows, retirals>>

\* The authorize request of beginOAuth() returns: the flow is in the table; it failed,
\* or the method is unknown, and the server is released.
FlowBegun(u) ==
    /\ users[u].at = "using" /\ users[u].what = "flow"
    /\ \/ /\ flows' = Append(flows, u)
          /\ users' = [users EXCEPT ![u].at = "flow"]
          /\ UNCHANGED <<servers, pool>>
       \/ /\ users' = [users EXCEPT ![u].at = "done"]
          /\ Released(users[u].server) /\ UNCHANGED flows
    /\ UNCHANGED <<generations, retirals>>

\* completeOAuth(), not evicted by its own clean-up: the flow leaves the table and its
\* callback is posted.
Completes(u) ==
    /\ users[u].at = "flow" /\ Evicted = {}
    /\ flows' = SelectSeq(flows, LAMBDA f : f # u)
    /\ users' = [users EXCEPT ![u] = [@ EXCEPT !.at = "using", !.what = "write"]]
    /\ UNCHANGED <<servers, pool, generations, retirals>>

\* An API key is set, a sign-in is completed, a provider is disconnected: the servers of
\* the store are retired, by force for a disconnect.
Wrote(u, force) ==
    /\ users[u].at = "using" /\ users[u].what = "write"
    /\ Retire(u, {k \in Keys : pool[k] # 0}, force)
    /\ users' = [users EXCEPT ![u].what = "wrote"]
    /\ UNCHANGED flows

RuntimeNext ==
    \/ \E u \in Users : Acquired(u)
    \/ /\ Resuming = {} \/ LastTickRelease
       /\ \/ \E s \in DOMAIN servers, ok \in BOOLEAN : Started(s, ok)
          \/ \E r \in retirals : Retires(r)
          \/ \E u \in Users :
                \/ \E what \in {"session", "write", "flow"}, k \in Keys : Begins(u, what, k)
                \/ Ends(u) \/ Evicts(u) \/ AuthReadFails(u) \/ FlowBegun(u) \/ Completes(u)
                \/ \E force \in BOOLEAN : Wrote(u, force)

RuntimeSpec == RuntimeInit /\ [][RuntimeNext]_runtimeVars

-----------------------------------------------------------------------------
(* Properties                                                              *)

\* The users that hold a handle on s.
Holders(s) == {u \in Users : users[u].at \in {"using", "flow"} /\ users[u].server = s}

RuntimeTypeOK ==
    /\ \A s \in DOMAIN servers : servers[s].refs \in Nat
    /\ pool \in [Keys -> 0..Len(servers)] /\ generations \in [Keys -> Nat]
    /\ \A u \in Users : users[u].server \in 0..Len(servers)

\* A server is up as long as it is used, whatever others retire, evict, let expire or
\* release: one that was killed has no holder, unless a disconnect forced it; and who
\* comes next is never given one that was killed or retired.
HeldIsAlive ==
    /\ \A s \in DOMAIN servers :
          servers[s].killed /\ ~servers[s].forced => Holders(s) = {}
    /\ \A k \in Keys : pool[k] # 0 =>
          /\ ~servers[pool[k]].killed /\ ~servers[pool[k]].retired
          /\ servers[pool[k]].generation = generations[k]

\* No server outlives its users: one that is up starts, is awaited, is held, or was lost
\* by a sign-in whose first read failed (AuthReadFails, the one step without a release).
NoServerLeaks ==
    \A s \in DOMAIN servers :
        servers[s].killed \/ servers[s].phase = "starting" \/ Holders(s) # {}
        \/ (\E u \in Users : users[u].server = s /\ users[u].at = "lost")
        \/ \E u \in Resuming : users[u].server = s

\* A server of the pool lives exactly as long as somebody uses it.
LivesWhileUsed == HeldIsAlive /\ NoServerLeaks

=============================================================================
