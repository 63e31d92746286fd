---------------------------- MODULE GatewayPipeline ----------------------------
(***************************************************************************)
(* The gateway's message pipeline (packages/gateway/src/gateway.ts with    *)
(* its MessageQueue, SessionStore, reply router and streamer): a message   *)
(* finds its session, is logged and saved, waits in the session's queue,   *)
(* is run by the agent and answered.  Every await lets other messages in.  *)
(*                                                                         *)
(* Channels and agents are external: a send, a run may fail, and ends.     *)
(***************************************************************************)
EXTENDS SessionStore, Sequences

CONSTANTS
    Messages,   \* messages that pass access control
    Sessions,   \* session keys
    Routes,     \* reply routes: a channel, a target
    SessionOf,  \* resolveSessionKey
    RouteOf,    \* where a message came from
    Provided,   \* sessions whose agent names a known provider
    Streams,    \* routes whose channel streams
    Configs,    \* config.queue, as it may be patched: whether a message replaces the
                \* ones that wait (steer, interrupt) or joins them (queue, collect),
                \* and maxQueueDepth, 0 for none
    Stopper     \* stop(), as a caller of persist()

ASSUME PipelineAssumption ==
    /\ SessionOf \in [Messages -> Sessions] /\ RouteOf \in [Messages -> Routes]
    /\ Provided \subseteq Sessions /\ Streams \subseteq Routes
    /\ Configs \subseteq [replaces : BOOLEAN, depth : Nat]
    /\ Stopper \notin Messages /\ Messages \cup {Stopper} \subseteq Writers

VARIABLES
    config,    \* config.queue
    stage,     \* how far each message has come
    route,     \* lastRoute of each session
    queue,     \* the messages of each session that wait
    running,   \* the running flag of each session
    runs,      \* calls of dispatchNext past their first check
    stopped,   \* stop() has stopped the channels
    ticket,    \* history: the order in which messages were enqueued
    tickets,   \* history: how many were
    ran        \* history: the messages given to an agent, in order

pipeVars == <<config, stage, route, queue, running, runs, stopped, ticket, tickets, ran>>
places == <<stage, queue, running, ran>>
enqueued == <<ticket, tickets>>
vars == <<storeVars, pipeVars>>

Ended == {"answered", "failed", "dropped", "lost"}

PipelineInit ==
    /\ StoreInit /\ config \in Configs
    /\ stage = [m \in Messages |-> "new"]
    /\ route = [s \in Sessions |-> "none"]
    /\ queue = [s \in Sessions |-> << >>]
    /\ running = [s \in Sessions |-> FALSE]
    /\ runs = {} /\ stopped = FALSE
    /\ ticket = [m \in Messages |-> 0] /\ tickets = 0
    /\ ran = << >>

\* The messages of a sequence.
In(q) == {q[i] : i \in DOMAIN q}

\* The stages once the messages ms are at `what`.
Marked(ms, what) == [m \in Messages |-> IF m \in ms THEN what ELSE stage[m]]
Mark(ms, what) == stage' = Marked(ms, what)

-----------------------------------------------------------------------------
(* The queue of a session.                                                 *)

\* Mutant: the newest message is the one to go.
NewestDropped(q) ==
    IF config.depth > 0 /\ Len(q) > config.depth THEN SubSeq(q, 1, config.depth) ELSE q

\* enforceDepth: the oldest go.
EnforceDepth(q) ==
    IF config.depth > 0 /\ Len(q) > config.depth
    THEN SubSeq(q, Len(q) - config.depth + 1, Len(q)) ELSE q

\* MessageQueue.enqueue.
Enqueued(q, m) == IF config.replaces THEN <<m>> ELSE EnforceDepth(Append(q, m))

\* Mutant: what was taken out is put back the other way round.
PutBackReversed(q) == EnforceDepth([i \in DOMAIN q |-> q[Len(q) + 1 - i]])

\* What dispatchNext puts back, after it looked for more: one enqueue each, in order,
\* into a queue that is empty.  Of messages that replace the last one stays, of others
\* as many as the queue takes.
Requeued(q) ==
    IF config.replaces /\ q # << >> THEN <<q[Len(q)]>> ELSE EnforceDepth(q)

\* dequeue() and the start of dispatchNext for session s, whose queue holds q, when
\* the calls in `others` are what is in flight and `stages` where the messages are.
\* An unknown provider ends it at once.
DispatchNext(s, q, others, stages) ==
    LET known == s \in Provided IN
    /\ queue' = [queue EXCEPT ![s] = << >>]
    /\ running' = [running EXCEPT ![s] = known]
    /\ stage' = [m \in Messages |->
         IF m \in In(q) THEN IF known THEN "running" ELSE "failed" ELSE stages[m]]
    /\ runs' = IF ~known THEN others
               ELSE others \cup {[s |-> s, batch |-> q, via |-> "none", named |-> FALSE,
                      text |-> FALSE, step |-> IF route[s] \in Streams THEN "starting" ELSE "agent"]}
    /\ ran' = ran \o q

-----------------------------------------------------------------------------
(* processMessage.                                                         *)

\* Up to the first await: the session is found or made, and follows the message.
Receive(m) ==
    /\ stage[m] = "new" /\ ~stopped
    /\ Mark({m}, "logging")
    /\ route' = [route EXCEPT ![SessionOf[m]] = RouteOf[m]]
    /\ version' = version + 1
    /\ UNCHANGED <<disk, tmp, save, overlapped, faulty, config, queue, running, runs, stopped,
                   enqueued, ran>>

\* transcript.append settles.
Logged(m, ok) ==
    /\ stage[m] = "logging" /\ (ok \/ IoFails)
    /\ IF ok THEN Mark({m}, "saving") /\ Persist(m) /\ UNCHANGED faulty
             ELSE Mark({m}, "lost") /\ faulty' = TRUE /\ UNCHANGED <<save, overlapped>>
    /\ UNCHANGED <<version, disk, tmp, config, route, queue, running, runs, stopped,
                   enqueued, ran>>

\* Mutant: a running session is not left alone.
FreeAnyway(s) == TRUE

\* Whether a message that was enqueued starts the dispatch itself.
Free(s) == ~running[s]

\* enqueue, and dispatchNext when the session is not running.
EnqueueStep(m) ==
    LET s == SessionOf[m]
        q == Enqueued(queue[s], m)
        stages == Marked(In(queue[s]) \ In(q), "dropped")
    IN
    /\ ticket' = [ticket EXCEPT ![m] = tickets + 1] /\ tickets' = tickets + 1
    /\ IF Free(s)
       THEN DispatchNext(s, q, runs, stages)
       ELSE /\ queue' = [queue EXCEPT ![s] = q]
            /\ stage' = [stages EXCEPT ![m] = "queued"]
            /\ UNCHANGED <<running, runs, ran>>

\* persist() settles for a message: it is enqueued, or the pipeline gives it up.
Saved(m) ==
    /\ stage[m] = "saving"
    /\ Rename(m) \/ IoError(m)
    /\ CASE save'[m].step = "saved" -> EnqueueStep(m)
         [] save'[m].step = "failed" ->
              /\ Mark({m}, "lost")
              /\ UNCHANGED <<queue, running, runs, enqueued, ran>>
    /\ UNCHANGED <<config, route, stopped>>

-----------------------------------------------------------------------------
(* dispatchNext after its start.  The first message of the batch names it. *)

First(d) == d.batch[1]

Advance(d, e) == runs' = (runs \ {d}) \cup {e}

\* Mutant: the session is released without a look at its queue.
LeaveQueue(s) == FALSE

\* Whether more is waiting when a dispatch ends.
MoreWaits(s) == queue[s] # << >>

\* The end of dispatchNext, after an answer or an error.
Finish(d, what) ==
    LET next == Requeued(queue[d.s])
        left == Marked(In(d.batch), what)
    IN
    /\ d \in runs
    /\ IF MoreWaits(d.s)
       THEN DispatchNext(d.s, next, runs \ {d},
                [m \in Messages |-> IF m \in In(queue[d.s]) \ In(next) THEN "dropped" ELSE left[m]])
       ELSE /\ running' = [running EXCEPT ![d.s] = FALSE]
            /\ runs' = runs \ {d}
            /\ Mark(In(d.batch), what)
            /\ UNCHANGED <<queue, ran>>
    /\ UNCHANGED <<config, route, stopped, enqueued>>

\* streamer.start() settles.  When it throws the reply is not streamed; a placeholder
\* that the channel refused leaves a streamer with nothing to edit.
StreamerStarts(d, how) ==
    /\ d.step = "starting"
    /\ Advance(d, [d EXCEPT !.step = "agent", !.via = CASE how = "sent" -> route[d.s]
                                                        [] how = "refused" -> "nowhere"
                                                        [] how = "throws" -> "none"])
    /\ UNCHANGED <<storeVars, config, places, route, stopped, enqueued>>

\* The agent names its conversation: the session is changed, and not yet saved.
AgentNames(d) ==
    /\ d.step = "agent" /\ ~d.named
    /\ Advance(d, [d EXCEPT !.named = TRUE])
    /\ version' = version + 1
    /\ UNCHANGED <<disk, tmp, save, overlapped, faulty, config, places, route, stopped,
                   enqueued>>

\* The agent's run ends, with a summary or without, and the session is saved.
AgentEnds(d, text) ==
    /\ d.step = "agent"
    /\ Advance(d, [d EXCEPT !.step = "saving", !.text = text])
    /\ version' = version + 1
    /\ Persist(First(d))
    /\ UNCHANGED <<disk, tmp, faulty, config, places, route, stopped, enqueued>>

\* execute() rejects, or a later step of the dispatch does: the channel is told.
Fails(d) == Advance(d, [d EXCEPT !.step = "erring"])

AgentThrows(d) ==
    /\ d.step = "agent" /\ Fails(d)
    /\ faulty' = (faulty \/ d.named)
    /\ UNCHANGED <<version, disk, tmp, save, overlapped, config, places, route, stopped,
                   enqueued>>

\* persist() settles for a dispatch; a run without a summary is over.
RunSaved(d) ==
    LET w == First(d) IN
    /\ d.step = "saving"
    /\ Rename(w) \/ IoError(w)
    /\ CASE save'[w].step = "failed" ->
              Fails(d) /\ UNCHANGED <<config, places, route, stopped, enqueued>>
         [] save'[w].step = "saved" /\ d.text ->
              /\ Advance(d, [d EXCEPT !.step = "logging"])
              /\ UNCHANGED <<config, places, route, stopped, enqueued>>
         [] save'[w].step = "saved" /\ ~d.text -> Finish(d, "answered")

\* transcript.append settles; an answer that is not streamed leaves for lastRoute.
ReplyLogged(d, ok) ==
    /\ d.step = "logging" /\ (ok \/ IoFails)
    /\ faulty' = (faulty \/ ~ok)
    /\ IF ok THEN Advance(d, [d EXCEPT !.step = "replying",
                                !.via = IF @ = "none" THEN route[d.s] ELSE @])
             ELSE Fails(d)
    /\ UNCHANGED <<version, disk, tmp, save, overlapped, config, places, route, stopped,
                   enqueued>>

\* The channel took the answer.
ReplySent(d) ==
    /\ d.step = "replying"
    /\ Finish(d, "answered")
    /\ UNCHANGED storeVars

\* The channel's send rejects.
ReplyThrows(d) ==
    /\ d.step = "replying" /\ Fails(d)
    /\ UNCHANGED <<storeVars, config, places, route, stopped, enqueued>>

\* The error message was sent, or could not be.
ErrorTold(d) ==
    /\ d.step = "erring"
    /\ Finish(d, "failed")
    /\ UNCHANGED storeVars

-----------------------------------------------------------------------------
(* stop(), and whatever else saves the sessions.                           *)

\* stop(), once the channels have stopped: drainAll() forgets every queue and every
\* running flag, and the sessions are saved.
Stop ==
    /\ ~stopped
    /\ stopped' = TRUE
    /\ Mark({m \in Messages : stage[m] = "queued"}, "dropped")
    /\ queue' = [s \in Sessions |-> << >>]
    /\ running' = [s \in Sessions |-> FALSE]
    /\ Persist(Stopper)
    /\ UNCHANGED <<version, disk, tmp, faulty, config, route, runs, enqueued, ran>>

StopSaved ==
    /\ stopped
    /\ Rename(Stopper) \/ IoError(Stopper)
    /\ UNCHANGED pipeVars

\* A reset of a session, by request or by the reaper: it is changed, and saved.
Reset(w) ==
    /\ save[w] = NoSave /\ ~stopped
    /\ version' = version + 1
    /\ Persist(w)
    /\ UNCHANGED <<disk, tmp, faulty, pipeVars>>

ResetSaved(w) ==
    /\ Rename(w) \/ IoError(w)
    /\ UNCHANGED pipeVars

\* PATCH /api/config replaces the queue's configuration.
PatchConfig(c) ==
    /\ ~stopped /\ config' = c
    /\ UNCHANGED <<storeVars, places, route, runs, stopped, enqueued>>

\* The steps of persist() that nobody awaits by name.
FileStep(w) == (Snapshot(w) \/ Open(w) \/ Write(w)) /\ UNCHANGED pipeVars

Resets == Writers \ (Messages \cup {Stopper})

DispatchStep(d) ==
    \/ \E how \in {"sent", "refused", "throws"} : StreamerStarts(d, how)
    \/ \E ok \in BOOLEAN : AgentEnds(d, ok) \/ ReplyLogged(d, ok)
    \/ AgentNames(d) \/ AgentThrows(d) \/ RunSaved(d)
    \/ ReplySent(d) \/ ReplyThrows(d) \/ ErrorTold(d)

Next ==
    \/ \E m \in Messages :
          Receive(m) \/ Logged(m, TRUE) \/ Logged(m, FALSE) \/ Saved(m)
    \/ \E d \in runs : DispatchStep(d)
    \/ \E w \in Writers : FileStep(w)
    \/ \E w \in Resets : Reset(w) \/ ResetSaved(w)
    \/ \E c \in Configs : PatchConfig(c)
    \/ Stop \/ StopSaved

\* File operations settle, agents end (the provider's timeout), channels answer.
Fairness ==
    /\ \A m \in Messages : WF_vars(Logged(m, TRUE)) /\ WF_vars(Saved(m))
    /\ WF_vars(\E d \in runs : DispatchStep(d))
    /\ \A w \in Writers : WF_vars(FileStep(w))

Spec == PipelineInit /\ [][Next]_vars /\ Fairness

-----------------------------------------------------------------------------
(* Properties.                                                             *)

Run == [s : Sessions, batch : Seq(Messages), via : Routes \cup {"none", "nowhere"}, named : BOOLEAN,
        text : BOOLEAN, step : {"starting", "agent", "saving", "logging", "replying", "erring"}]

\* Every variable keeps its type; what waits is in its session's queue.
PipelineTypeOK ==
    /\ StoreTypeOK
    /\ config \in Configs /\ stopped \in BOOLEAN
    /\ stage \in [Messages -> {"new", "logging", "saving", "queued", "running"} \cup Ended]
    /\ route \in [Sessions -> Routes \cup {"none"}]
    /\ queue \in [Sessions -> Seq(Messages)]
    /\ \A s \in Sessions :
          In(queue[s]) = {m \in Messages : SessionOf[m] = s /\ stage[m] = "queued"}
    /\ running \in [Sessions -> BOOLEAN] /\ runs \subseteq Run
    /\ ticket \in [Messages -> Nat] /\ tickets \in Nat /\ ran \in Seq(Messages)

RunsOf(s) == {d \in runs : d.s = s}

\* Until stop() forgets the flags, a session's agent works on one batch at a time,
\* and the flag says so: a second run would resume the same conversation.
OneRunPerSession ==
    ~stopped =>
        \A s \in Sessions :
            /\ running[s] = (RunsOf(s) # {})
            /\ \A d, e \in RunsOf(s) : d = e

\* A message in a queue is not forgotten: a run of its session is in flight, which
\* looks at the queue when it ends, stop() or not.
NobodyForgotten == \A s \in Sessions : queue[s] # << >> => RunsOf(s) # {}

\* The messages of a session reach the agent in the order in which they were
\* enqueued, and once each, whatever was queued, put back or dropped between them.
RunInOrder ==
    \A i, j \in DOMAIN ran :
        (i < j /\ SessionOf[ran[i]] = SessionOf[ran[j]]) => ticket[ran[i]] < ticket[ran[j]]

\* The bound and the replacing modes cost old messages, never the newest: the last
\* message of a session is dropped only by stop().
NewestSurvives ==
    ~stopped =>
        \A m \in Messages : stage[m] = "dropped" =>
            \E n \in Messages : SessionOf[n] = SessionOf[m] /\ ticket[n] > ticket[m]

\* What a session's messages may expect of the queue, whatever is taken out and put back while
\* its configuration is patched (message-queue.ts 34-120, gateway.ts 343-355).
QueueIsFair == RunInOrder /\ NewestSurvives

\* At rest the file holds what memory holds, when no two saves overlapped, nothing
\* failed, and no run threw after it had changed the session.
DiskCurrent ==
    (/\ ~overlapped /\ ~faulty /\ version > 0
     /\ \A m \in Messages : stage[m] \in {"new"} \cup Ended
     /\ \A w \in Writers : ~Saving(w))
    => disk = Whole(version)

\* The session file under the pipeline, whatever files fail and whenever the gateway is
\* killed: it always loads, never goes back to older sessions, and is current at rest.
Durable == [](CrashSafe /\ DiskCurrent) /\ SavesAdvance

\* Every message that came in is answered, fails, is dropped or lost: none waits for
\* ever in a pipeline that other messages, errors and stop() run through, so the
\* pipeline comes to rest again and again.
ComesToRest == []<>(\A m \in Messages : stage[m] \in {"new"} \cup Ended)

=============================================================================
