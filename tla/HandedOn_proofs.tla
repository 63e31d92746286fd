--------------------------- MODULE HandedOn_proofs ---------------------------
(***************************************************************************)
(* Theorems about what is handed on and is to come to rest.                *)
(* GatewayPipeline for all messages, sessions, routes and configurations:  *)
(* one run at a time per session, messages in order and the newest kept,   *)
(* and a session file that always loads and is current at rest.            *)
(* CodexSubagents for every set of children and every bound: a child is    *)
(* not taken for ended while it runs, and each of its turns is reported    *)
(* once, in order.  They share no state: each has a specification of its   *)
(* own.                                                                    *)
(***************************************************************************)
EXTENDS GatewayPipeline, CodexSubagents, FiniteSetTheorems, SequenceTheorems, TLAPS

-----------------------------------------------------------------------------
(* GatewayPipeline: the invariant                                          *)

Stages == {"new", "logging", "saving", "queued", "running"} \cup Ended
Before == {"new", "logging", "saving"}

PipeTypes ==
    /\ config \in Configs /\ stopped \in BOOLEAN
    /\ stage \in [Messages -> Stages]
    /\ route \in [Sessions -> Routes \cup {"none"}]
    /\ queue \in [Sessions -> Seq(Messages)]
    /\ running \in [Sessions -> BOOLEAN] /\ runs \subseteq Run
    /\ ticket \in [Messages -> Nat] /\ tickets \in Nat /\ ran \in Seq(Messages)

\* What waits is in its session's queue, and nothing else is.
QueueHolds ==
    \A s \in Sessions :
        In(queue[s]) = {m \in Messages : SessionOf[m] = s /\ stage[m] = "queued"}

\* A run works on messages of its session that are nobody else's.
BatchInv ==
    /\ \A d \in runs : /\ d.batch # << >>
                       /\ \A m \in In(d.batch) : SessionOf[m] = d.s /\ stage[m] = "running"
    /\ \A d, e \in runs : d # e => In(d.batch) \cap In(e.batch) = {}

\* A session that has a queue or a flag has a run, whether or not stop() came.
AttendedInv ==
    \A s \in Sessions : queue[s] # << >> \/ running[s] => RunsOf(s) # {}

\* Tickets are given out once, in order.
TicketInv ==
    \A m \in Messages : /\ ticket[m] <= tickets
                        /\ stage[m] \in Before => ticket[m] = 0

\* The messages of q come in the order of the tickets t.
InTurn(t, q) == \A i, j \in DOMAIN q : i < j => t[q[i]] < t[q[j]]

\* The messages of each session come so in r.
SessionsInTurn(t, r) ==
    \A i, j \in DOMAIN r :
        (i < j /\ SessionOf[r[i]] = SessionOf[r[j]]) => t[r[i]] < t[r[j]]

\* Those of session s in r come before those of q.
ComesBefore(t, s, r, q) ==
    \A i \in DOMAIN r, k \in DOMAIN q : SessionOf[r[i]] = s => t[r[i]] < t[q[k]]

\* What has run came before what waits.
OrderInv ==
    /\ RunInOrder
    /\ \A i \in DOMAIN ran : stage[ran[i]] \notin Before
    /\ \A s \in Sessions :
          /\ InTurn(ticket, queue[s])
          /\ \A i \in DOMAIN ran, k \in DOMAIN queue[s] :
                SessionOf[ran[i]] = s => ticket[ran[i]] < ticket[queue[s][k]]

PipePart ==
    /\ PipeTypes /\ QueueHolds /\ OneRunPerSession /\ BatchInv /\ AttendedInv /\ TicketInv
    /\ OrderInv /\ NewestSurvives

\* The calls of persist(): a message saves before it is enqueued, then for its run.
SaveInv ==
    /\ \A m \in Messages :
          Saving(m) => \/ stage[m] = "saving"
                       \/ \E d \in runs : d.step = "saving" /\ First(d) = m
    /\ ~stopped => ~Saving(Stopper)

\* As long as no two calls overlapped: who writes is alone, and the files are as it left
\* them.
FileInv ==
    ~overlapped =>
        /\ Loads(disk) /\ disk.v <= version
        /\ \A v, w \in Writers : Saving(v) /\ Saving(w) => v = w
        /\ \A w \in Writers :
              /\ save[w].step = "write" => save[w].file = "tmp" /\ tmp = Empty
              /\ save[w].step = "rename" => tmp = Whole(save[w].snap)
              /\ save[w].step \in {"open", "write", "rename"}
                 => disk.v <= save[w].snap /\ save[w].snap <= version

\* The file holds the sessions, or a call is about to serialise or is writing them.
Fresh ==
    \/ disk = Whole(version)
    \/ \E w \in Writers : \/ save[w].step = "mkdir"
                          \/ save[w].step \in {"open", "write", "rename"} /\ save[w].snap = version

\* Somebody has changed the sessions and will save them.
Owed ==
    \/ \E m \in Messages : stage[m] = "logging"
    \/ \E d \in runs : d.named /\ d.step = "agent"

CurrentInv == ~overlapped /\ ~faulty => version = 0 \/ Fresh \/ Owed

StorePart == StoreTypeOK /\ FileInv

PipeInv == PipePart /\ StorePart /\ SaveInv /\ CurrentInv

-----------------------------------------------------------------------------
(* The queue of a session.                                                 *)

LEMMA ConfigTyped ==
    ASSUME config \in Configs
    PROVE  config.replaces \in BOOLEAN /\ config.depth \in Nat
  BY PipelineAssumption

\* The last c elements of a sequence.
LEMMA SuffixFacts ==
    ASSUME NEW S, NEW q \in Seq(S), NEW c \in Nat, c > 0, c < Len(q)
    PROVE  LET e == SubSeq(q, Len(q) - c + 1, Len(q)) IN
           /\ e \in Seq(S) /\ Len(e) = c /\ DOMAIN e = 1..c
           /\ \A i \in 1..c : e[i] = q[Len(q) - c + i] /\ Len(q) - c + i \in DOMAIN q
<1>1. PICK k \in Nat : k + c = Len(q) OBVIOUS
<1>2. Len(q) - c + 1 = k + 1 /\ \A i \in 1..c : Len(q) - c + i = k + i /\ k + i \in 1..Len(q) BY <1>1
<1>3. k + 1 \in 1..(Len(q) + 1) /\ Len(q) \in k..Len(q) BY <1>1
<1>4. /\ SubSeq(q, k + 1, Len(q)) \in Seq(S)
      /\ Len(SubSeq(q, k + 1, Len(q))) = c
      /\ \A i \in 1..c : SubSeq(q, k + 1, Len(q))[i] = q[k + i]
  BY <1>1, <1>3, SubSeqProperties
<1>5. QED BY <1>2, <1>4

\* The bound keeps the newest, in their order.
LEMMA EnforceDepthFacts ==
    ASSUME config \in Configs, NEW q \in Seq(Messages), q # << >>, NEW t
    PROVE  /\ EnforceDepth(q) \in Seq(Messages) /\ EnforceDepth(q) # << >>
           /\ In(EnforceDepth(q)) \subseteq In(q) /\ q[Len(q)] \in In(EnforceDepth(q))
           /\ InTurn(t, q) => InTurn(t, EnforceDepth(q))
<1>1. config.depth \in Nat /\ Len(q) \in Nat /\ Len(q) > 0 /\ DOMAIN q = 1..Len(q) BY ConfigTyped
<1>2. CASE ~(config.depth > 0 /\ Len(q) > config.depth) BY <1>2, <1>1 DEF EnforceDepth, In
<1>3. CASE config.depth > 0 /\ Len(q) > config.depth
  <2> DEFINE n == Len(q) - config.depth
             e == SubSeq(q, n + 1, Len(q))
  <2>0. EnforceDepth(q) = e BY <1>3 DEF EnforceDepth
  <2>1. EnforceDepth(q) = e /\ n \in Nat /\ n + config.depth = Len(q) BY <1>1, <1>3, <2>0
  <2>2. /\ e \in Seq(Messages) /\ Len(e) = config.depth /\ DOMAIN e = 1..config.depth
        /\ \A i \in 1..config.depth : e[i] = q[n + i] /\ n + i \in DOMAIN q
    BY <1>1, <1>3, <2>1, SuffixFacts
  <2> HIDE DEF e, n
  <2>3. e # << >> /\ In(e) \subseteq In(q) BY <1>3, <2>2 DEF In
  <2>4. e[config.depth] = q[Len(q)] /\ config.depth \in DOMAIN e BY <1>1, <1>3, <2>1, <2>2
  <2>5. InTurn(t, q) => InTurn(t, e)
    <3>1. SUFFICES ASSUME InTurn(t, q), NEW i \in DOMAIN e, NEW j \in DOMAIN e, i < j
                   PROVE  t[e[i]] < t[e[j]]
      BY DEF InTurn
    <3>2. n + i < n + j /\ n + i \in DOMAIN q /\ n + j \in DOMAIN q BY <1>1, <2>1, <2>2, <3>1
    <3>3. t[q[n + i]] < t[q[n + j]] BY <3>1, <3>2 DEF InTurn
    <3>4. QED BY <2>2, <3>3
  <2>6. q[Len(q)] \in In(e) BY <2>4 DEF In
  <2>7. QED BY <2>1, <2>2, <2>3, <2>5, <2>6
<1>4. QED BY <1>2, <1>3

\* A message that joins the queue is its last; what goes was there before it.
LEMMA EnqueuedFacts ==
    ASSUME config \in Configs, NEW q \in Seq(Messages), NEW m \in Messages, NEW t,
           InTurn(t, q), \A n \in In(q) : t[n] < t[m]
    PROVE  /\ Enqueued(q, m) \in Seq(Messages) /\ Enqueued(q, m) # << >>
           /\ m \in In(Enqueued(q, m)) /\ In(Enqueued(q, m)) \subseteq In(q) \cup {m}
           /\ InTurn(t, Enqueued(q, m))
<1> DEFINE a == Append(q, m)
<1>1. CASE config.replaces BY <1>1 DEF Enqueued, In, InTurn
<1>2. CASE ~config.replaces
  <2>1. /\ Len(q) \in Nat /\ a \in Seq(Messages) /\ Len(a) = Len(q) + 1 /\ a # << >>
        /\ a[Len(q) + 1] = m /\ \A i \in 1..Len(q) : a[i] = q[i]
        /\ DOMAIN a = 1..(Len(q) + 1) /\ DOMAIN q = 1..Len(q)
    OBVIOUS
  <2>2. Enqueued(q, m) = EnforceDepth(a) BY <1>2 DEF Enqueued
  <2> HIDE DEF a
  <2>3. In(a) \subseteq In(q) \cup {m} BY <2>1 DEF In
  <2>4. InTurn(t, a)
    <3>1. SUFFICES ASSUME NEW i \in DOMAIN a, NEW j \in DOMAIN a, i < j
                   PROVE  t[a[i]] < t[a[j]]
      BY DEF InTurn
    <3>2. i \in DOMAIN q /\ a[i] = q[i] /\ q[i] \in In(q) BY <2>1, <3>1 DEF In
    <3>3. CASE j \in DOMAIN q BY <2>1, <3>1, <3>2, <3>3 DEF InTurn
    <3>4. CASE j = Len(q) + 1 BY <2>1, <3>2, <3>4
    <3>5. QED BY <2>1, <3>3, <3>4
  <2>5. QED BY <2>1, <2>2, <2>3, <2>4, EnforceDepthFacts
<1>3. QED BY <1>1, <1>2

\* What is put back holds the newest.
LEMMA RequeuedFacts ==
    ASSUME config \in Configs, NEW q \in Seq(Messages), q # << >>, NEW t, InTurn(t, q)
    PROVE  /\ Requeued(q) \in Seq(Messages) /\ Requeued(q) # << >>
           /\ In(Requeued(q)) \subseteq In(q) /\ q[Len(q)] \in In(Requeued(q))
           /\ InTurn(t, Requeued(q))
<1>1. CASE config.replaces BY <1>1 DEF Requeued, In, InTurn
<1>2. CASE ~config.replaces BY <1>2, EnforceDepthFacts DEF Requeued
<1>3. QED BY <1>1, <1>2

\* A batch that is given to an agent comes after what ran in its session.
LEMMA RanAppends ==
    ASSUME NEW r \in Seq(Messages), NEW q \in Seq(Messages), NEW s, NEW t,
           SessionsInTurn(t, r), InTurn(t, q), ComesBefore(t, s, r, q),
           \A k \in DOMAIN q : SessionOf[q[k]] = s
    PROVE  /\ SessionsInTurn(t, r \o q)
           /\ \A i \in DOMAIN (r \o q) : (r \o q)[i] \in In(r) \cup In(q)
<1> DEFINE c == r \o q
<1>1. /\ c \in Seq(Messages) /\ Len(r) \in Nat /\ Len(q) \in Nat
      /\ DOMAIN c = 1..(Len(r) + Len(q)) /\ DOMAIN r = 1..Len(r) /\ DOMAIN q = 1..Len(q)
      /\ \A i \in 1..Len(r) : c[i] = r[i]
      /\ \A k \in DOMAIN c : k > Len(r) => c[k] = q[k - Len(r)] /\ k - Len(r) \in DOMAIN q
  OBVIOUS
<1> HIDE DEF c
<1>2. ASSUME NEW i \in DOMAIN c, NEW j \in DOMAIN c, i < j, SessionOf[c[i]] = SessionOf[c[j]]
      PROVE  t[c[i]] < t[c[j]]
  <2>1. CASE j \in DOMAIN r
    <3>1. i \in DOMAIN r /\ c[i] = r[i] /\ c[j] = r[j] BY <1>1, <1>2, <2>1
    <3>2. QED BY <1>2, <2>1, <3>1 DEF SessionsInTurn
  <2>2. CASE i \in DOMAIN r /\ j \notin DOMAIN r BY <1>1, <2>2, <1>2 DEF ComesBefore
  <2>3. CASE i \notin DOMAIN r
    <3>1. /\ c[i] = q[i - Len(r)] /\ i - Len(r) \in DOMAIN q
          /\ c[j] = q[j - Len(r)] /\ j - Len(r) \in DOMAIN q /\ i - Len(r) < j - Len(r)
      BY <1>1, <1>2, <2>3
    <3>2. QED BY <3>1 DEF InTurn
  <2>4. QED BY <1>1, <1>2, <2>1, <2>2, <2>3
<1>3. ASSUME NEW i \in DOMAIN c
      PROVE  c[i] \in In(r) \cup In(q)
  <2>1. CASE i \in DOMAIN r BY <1>1, <2>1 DEF In
  <2>2. CASE i \notin DOMAIN r BY <1>1, <2>2 DEF In
  <2>3. QED BY <2>1, <2>2
<1>4. SessionsInTurn(t, c) BY <1>2 DEF SessionsInTurn
<1>5. QED BY <1>3, <1>4 DEF c

-----------------------------------------------------------------------------
(* A dispatch starts.                                                      *)

LEMMA PipeTyped ==
    ASSUME PipePart
    PROVE  /\ config \in Configs /\ stopped \in BOOLEAN
           /\ stage \in [Messages -> Stages] /\ queue \in [Sessions -> Seq(Messages)]
           /\ running \in [Sessions -> BOOLEAN]
           /\ \A d \in runs : d \in Run /\ d.s \in Sessions /\ d.batch \in Seq(Messages)
           /\ ticket \in [Messages -> Nat] /\ tickets \in Nat /\ ran \in Seq(Messages)
           /\ \A m \in Messages : SessionOf[m] \in Sessions
  BY PipelineAssumption DEF PipePart, PipeTypes, Run

LEMMA InMessages == \A q \in Seq(Messages) : In(q) \subseteq Messages /\ (q # << >> => In(q) # {})
<1>1. ASSUME NEW q \in Seq(Messages)
      PROVE  In(q) \subseteq Messages
  BY DEF In
<1>2. ASSUME NEW q \in Seq(Messages), q # << >>
      PROVE  In(q) # {}
  BY <1>2 DEF In
<1>3. QED BY <1>1, <1>2

\* The messages of q, of session s alone, go to its agent beside the calls in `others`;
\* `stages` says where everybody else is.
LEMMA DispatchKeeps ==
    ASSUME PipePart, NEW s \in Sessions, NEW q \in Seq(Messages), NEW others, NEW stages,
           q # << >>, \A m \in In(q) : SessionOf[m] = s,
           others \subseteq runs, \A d \in runs \ others : d.s = s,
           ~stopped => \A d \in others : d.s # s,
           stages \in [Messages -> Stages],
           \A d \in others : \A m \in In(d.batch) : m \notin In(q) /\ stages[m] = "running",
           \A m \in Messages \ In(q) :
              stages[m] = "queued" <=> stage[m] = "queued" /\ SessionOf[m] # s,
           ticket' \in [Messages -> Nat], tickets' \in Nat,
           \A m \in Messages : /\ ticket'[m] <= tickets'
                               /\ m \notin In(q) /\ stages[m] \in Before => ticket'[m] = 0
                               /\ stage[m] \notin Before
                                  => /\ ticket'[m] = ticket[m]
                                     /\ m \notin In(q) => stages[m] \notin Before,
           InTurn(ticket', q),
           \A i \in DOMAIN ran, k \in DOMAIN q :
              SessionOf[ran[i]] = s => ticket'[ran[i]] < ticket'[q[k]],
           ~stopped => \A m \in Messages :
              m \notin In(q) /\ stages[m] = "dropped" =>
                 \E n \in Messages : SessionOf[n] = SessionOf[m] /\ ticket'[n] > ticket'[m],
           DispatchNext(s, q, others, stages), UNCHANGED <<config, route, stopped>>
    PROVE  PipePart'
<1> DEFINE known == s \in Provided
           e == [s |-> s, batch |-> q, via |-> "none", named |-> FALSE, text |-> FALSE,
                 step |-> IF route[s] \in Streams THEN "starting" ELSE "agent"]
<1>1. /\ queue' = [queue EXCEPT ![s] = << >>] /\ running' = [running EXCEPT ![s] = known]
      /\ stage' = [m \in Messages |->
            IF m \in In(q) THEN IF known THEN "running" ELSE "failed" ELSE stages[m]]
      /\ runs' = IF ~known THEN others ELSE others \cup {e}
      /\ ran' = ran \o q
  BY DEF DispatchNext
<1>2. e \in Run /\ e.s = s /\ e.batch = q BY DEF Run
<1> HIDE DEF e
<1>3. /\ In(q) \subseteq Messages
      /\ \A m \in In(q) : stage'[m] \in {"running", "failed"} /\ (known => stage'[m] = "running")
      /\ \A m \in Messages \ In(q) : stage'[m] = stages[m]
  BY <1>1, InMessages
<1>4. /\ queue'[s] = << >> /\ (running'[s] <=> known)
      /\ \A t \in Sessions \ {s} : queue'[t] = queue[t] /\ running'[t] = running[t]
      /\ In(<< >>) = {}
  <2>1. queue \in [Sessions -> Seq(Messages)] /\ running \in [Sessions -> BOOLEAN] BY PipeTyped
  <2>2. queue'[s] = << >> /\ \A t \in Sessions \ {s} : queue'[t] = queue[t] BY <1>1, <2>1
  <2>3. running'[s] = known /\ \A t \in Sessions \ {s} : running'[t] = running[t] BY <1>1, <2>1
  <2>4. In(<< >>) = {} BY DEF In
  <2>5. QED BY <2>2, <2>3, <2>4
<1>5. \A t \in Sessions \ {s} : RunsOf(t)' = RunsOf(t) BY <1>1, <1>2 DEF RunsOf
<1>6. PipeTypes' BY <1>1, PipeTyped, <1>2 DEF Stages, Ended, PipeTypes, PipePart
<1>7. QueueHolds'
  <2>1. SUFFICES ASSUME NEW t \in Sessions
                 PROVE  In(queue'[t]) = {m \in Messages : SessionOf[m] = t /\ stage'[m] = "queued"}
    BY DEF QueueHolds
  <2>2. CASE t = s BY <1>3, <1>4, <2>2
  <2>3. CASE t # s BY <1>4, <2>3, <1>3 DEF PipePart, QueueHolds
  <2>4. QED BY <2>2, <2>3
<1>8. OneRunPerSession'
  <2>1. SUFFICES ASSUME ~stopped, NEW t \in Sessions
                 PROVE  /\ running'[t] = (RunsOf(t)' # {})
                        /\ \A d, f \in RunsOf(t)' : d = f
    BY DEF OneRunPerSession
  <2>2. CASE t # s BY <1>4, <1>5, <2>1, <2>2 DEF PipePart, OneRunPerSession
  <2>3. CASE t = s BY <1>1, <1>2, <2>1, <1>6, <1>4, <2>3 DEF RunsOf, PipeTypes
  <2>4. QED BY <2>2, <2>3
<1>9. BatchInv'
  <2>1. ASSUME NEW d \in runs'
        PROVE  d.batch # << >> /\ \A m \in In(d.batch) : SessionOf[m] = d.s /\ stage'[m] = "running"
    <3>1. CASE d \in others
      <4>1. \A m \in In(d.batch) : m \in Messages BY <3>1, PipeTyped, InMessages
      <4>2. QED BY <1>3, <3>1, <4>1 DEF PipePart, BatchInv
    <3>2. CASE d = e /\ known BY <1>2, <1>3, <3>2
    <3>3. QED BY <1>1, <2>1, <3>1, <3>2
  <2>2. ASSUME NEW d \in runs', NEW f \in runs', d # f
        PROVE  In(d.batch) \cap In(f.batch) = {}
    <3>1. CASE d \in others /\ f \in others BY <2>2, <3>1 DEF PipePart, BatchInv
    <3>2. CASE d = e \/ f = e BY <1>1, <1>2, <2>2, <3>2
    <3>3. QED BY <1>1, <2>2, <3>1, <3>2
  <2>3. QED BY <2>1, <2>2 DEF BatchInv
<1>10. AttendedInv'
  <2>1. SUFFICES ASSUME NEW t \in Sessions, queue'[t] # << >> \/ running'[t]
                 PROVE  RunsOf(t)' # {}
    BY DEF AttendedInv
  <2>2. CASE t # s BY <1>4, <1>5, <2>1, <2>2 DEF PipePart, AttendedInv
  <2>3. CASE t = s BY <1>1, <1>2, <1>4, <2>1, <2>3 DEF RunsOf
  <2>4. QED BY <2>2, <2>3
<1>11. TicketInv' BY <1>3 DEF TicketInv, Before
<1>12. OrderInv'
  <2>1. \A i \in DOMAIN ran : /\ ran[i] \in Messages /\ stage[ran[i]] \notin Before
                              /\ ticket'[ran[i]] = ticket[ran[i]]
    BY PipeTyped DEF PipePart, OrderInv
  <2>2. \A k \in DOMAIN q : q[k] \in In(q) BY DEF In
  <2>3. \A i, j \in DOMAIN ran :
           (i < j /\ SessionOf[ran[i]] = SessionOf[ran[j]]) => ticket'[ran[i]] < ticket'[ran[j]]
    BY <2>1 DEF PipePart, OrderInv, RunInOrder
  <2>4. /\ \A i, j \in DOMAIN ran' :
              (i < j /\ SessionOf[ran'[i]] = SessionOf[ran'[j]])
              => ticket'[ran'[i]] < ticket'[ran'[j]]
        /\ \A i \in DOMAIN ran' : ran'[i] \in In(ran) \cup In(q)
    <3>1. ran \in Seq(Messages) /\ ran' = ran \o q BY <1>1, PipeTyped
    <3>2. \A k \in DOMAIN q : SessionOf[q[k]] = s BY <2>2
    <3>3. PICK t : t = ticket' OBVIOUS
    <3>4. InTurn(t, q) /\ SessionsInTurn(t, ran) /\ ComesBefore(t, s, ran, q)
      BY <2>3, <3>3 DEF SessionsInTurn, ComesBefore
    <3>5. PICK r : r = ran OBVIOUS
    <3>6. r \in Seq(Messages) /\ SessionsInTurn(t, r) /\ ComesBefore(t, s, r, q) BY <3>1, <3>4, <3>5
    <3>7. /\ SessionsInTurn(t, r \o q)
          /\ \A i \in DOMAIN (r \o q) : (r \o q)[i] \in In(r) \cup In(q)
      BY <3>2, <3>4, <3>6, RanAppends
    <3>8. ran' = r \o q /\ ticket' = t /\ r = ran BY <3>1, <3>3, <3>5
    <3>9. QED BY <3>7, <3>8 DEF SessionsInTurn
  <2>5. RunInOrder' BY <2>4 DEF RunInOrder
  <2>6. \A m \in In(ran) : m \in Messages /\ stage[m] \notin Before /\ ticket'[m] = ticket[m] BY <2>1 DEF In
  <2>7. \A i \in DOMAIN ran' : stage'[ran'[i]] \notin Before BY <1>3, <2>4, <2>6 DEF Before
  <2>8. ASSUME NEW t \in Sessions
        PROVE  /\ InTurn(ticket', queue'[t])
               /\ \A i \in DOMAIN ran', k \in DOMAIN queue'[t] :
                     SessionOf[ran'[i]] = t => ticket'[ran'[i]] < ticket'[queue'[t][k]]
    <3>1. CASE t = s BY <1>4, <3>1 DEF InTurn
    <3>2. CASE t # s
      <4>1. queue'[t] = queue[t] BY <1>4, <3>2
      <4>2. \A k \in DOMAIN queue[t] : queue[t][k] \in In(queue[t]) BY DEF In
      <4>3. \A m \in In(queue[t]) : m \in Messages /\ stage[m] = "queued" BY DEF PipePart, QueueHolds
      <4>4. \A k \in DOMAIN queue[t] : ticket'[queue[t][k]] = ticket[queue[t][k]] BY <4>2, <4>3 DEF Before
      <4>5. InTurn(ticket, queue[t]) BY DEF PipePart, OrderInv
      <4>6. InTurn(ticket', queue[t]) BY <4>4, <4>5 DEF InTurn
      <4>7. ASSUME NEW i \in DOMAIN ran', NEW k \in DOMAIN queue[t], SessionOf[ran'[i]] = t
            PROVE  ticket'[ran'[i]] < ticket'[queue[t][k]]
        <5>1. ran'[i] \in In(ran) BY <2>4, <3>2, <4>7
        <5>2. PICK j \in DOMAIN ran : ran[j] = ran'[i] BY <5>1 DEF In
        <5>3. ticket[ran[j]] < ticket[queue[t][k]] BY <4>7, <5>2 DEF PipePart, OrderInv
        <5>4. QED BY <2>1, <4>4, <5>2, <5>3
      <4>8. QED BY <4>1, <4>6, <4>7
    <3>3. QED BY <3>1, <3>2
  <2>9. QED BY <2>5, <2>7, <2>8 DEF OrderInv
<1>13. NewestSurvives' BY <1>3 DEF NewestSurvives
<1>14. QED BY <1>6, <1>7, <1>8, <1>9, <1>10, <1>11, <1>12, <1>13 DEF PipePart

\* A message joins its session's queue, or is dispatched with those that wait.
LEMMA EnqueueKeeps ==
    ASSUME PipePart, NEW m \in Messages, stage[m] = "saving", EnqueueStep(m),
           UNCHANGED <<config, route, stopped>>
    PROVE  /\ PipePart' /\ runs \subseteq runs'
           /\ \A n \in Messages \ {m} : stage[n] \in Before => stage'[n] = stage[n]
<1> DEFINE s == SessionOf[m]
           q == Enqueued(queue[s], m)
           stages == Marked(In(queue[s]) \ In(q), "dropped")
<1>1. /\ ticket' = [ticket EXCEPT ![m] = tickets + 1] /\ tickets' = tickets + 1
      /\ IF Free(s)
         THEN DispatchNext(s, q, runs, stages)
         ELSE /\ queue' = [queue EXCEPT ![s] = q]
              /\ stage' = [stages EXCEPT ![m] = "queued"]
              /\ UNCHANGED <<running, runs, ran>>
  BY DEF EnqueueStep
<1>2. /\ s \in Sessions /\ queue[s] \in Seq(Messages) /\ config \in Configs
      /\ ticket \in [Messages -> Nat] /\ tickets \in Nat /\ stage \in [Messages -> Stages]
  BY PipeTyped
<1>3. /\ ticket' \in [Messages -> Nat] /\ tickets' \in Nat
      /\ ticket'[m] = tickets + 1 /\ \A n \in Messages \ {m} : ticket'[n] = ticket[n]
  BY <1>1, <1>2
<1>4. \A n \in Messages : ticket[n] <= tickets /\ ticket'[n] <= tickets' /\ ticket[n] <= ticket'[n]
  BY <1>1, <1>2, <1>3 DEF PipePart, TicketInv
<1>5. In(queue[s]) = {n \in Messages : SessionOf[n] = s /\ stage[n] = "queued"} BY <1>2 DEF PipePart, QueueHolds
<1>6. \A n \in In(queue[s]) : n \in Messages \ {m} /\ ticket'[n] < ticket'[m] BY <1>2, <1>3, <1>4, <1>5
<1>7. InTurn(ticket', queue[s]) BY <1>2, <1>3, <1>6 DEF PipePart, OrderInv, In, InTurn
<1>8. /\ q \in Seq(Messages) /\ q # << >> /\ m \in In(q) /\ In(q) \subseteq In(queue[s]) \cup {m}
      /\ InTurn(ticket', q)
  <2>1. PICK t : t = ticket' OBVIOUS
  <2>2. PICK w \in Seq(Messages) : w = queue[s] BY <1>2
  <2>3. InTurn(t, w) /\ \A n \in In(w) : t[n] < t[m] BY <1>6, <1>7, <2>1, <2>2
  <2>4. /\ Enqueued(w, m) \in Seq(Messages) /\ Enqueued(w, m) # << >>
        /\ m \in In(Enqueued(w, m)) /\ In(Enqueued(w, m)) \subseteq In(w) \cup {m}
        /\ InTurn(t, Enqueued(w, m))
    BY <1>2, <2>3, EnqueuedFacts
  <2>5. QED BY <2>1, <2>2, <2>4
<1>9. /\ stages \in [Messages -> Stages]
      /\ \A n \in Messages : stages[n] = IF n \in In(queue[s]) \ In(q) THEN "dropped" ELSE stage[n]
  BY <1>2 DEF Marked, Stages, Ended
<1> DEFINE old == queue[s]
<1>10. old = queue[s] OBVIOUS
<1> HIDE DEF q, stages, s, old
<1>11. \A n \in In(q) : n \in Messages /\ SessionOf[n] = s BY <1>5, <1>8 DEF s
<1>12. \A d \in runs : \A n \in In(d.batch) :
          n \in Messages /\ n \notin In(q) /\ stage[n] = "running" /\ stages[n] = "running"
  <2>1. SUFFICES ASSUME NEW d \in runs, NEW n \in In(d.batch)
                 PROVE  n \in Messages /\ n \notin In(q) /\ stage[n] = "running"
                        /\ stages[n] = "running"
    OBVIOUS
  <2>2. n \in Messages /\ stage[n] = "running" BY PipeTyped, InMessages DEF PipePart, BatchInv
  <2>3. n \notin In(queue[s]) /\ n # m BY <1>5, <2>2
  <2>4. QED BY <1>8, <1>9, <2>2, <2>3
<1>13. \A n \in Messages \ In(q) :
          stages[n] = "queued" <=> stage[n] = "queued" /\ SessionOf[n] # s
  BY <1>5, <1>8, <1>9
<1>14. \A i \in DOMAIN ran : /\ ran[i] \in Messages \ {m} /\ stage[ran[i]] \notin Before
                             /\ ticket'[ran[i]] = ticket[ran[i]]
  <2>1. \A i \in DOMAIN ran : ran[i] \in Messages /\ stage[ran[i]] \notin Before
    BY PipeTyped DEF PipePart, OrderInv
  <2>2. stage[m] \in Before BY DEF Before
  <2>3. QED BY <1>3, <2>1, <2>2
<1>15. \A i \in DOMAIN ran, k \in DOMAIN q :
          SessionOf[ran[i]] = s => ticket'[ran[i]] < ticket'[q[k]]
  <2>1. SUFFICES ASSUME NEW i \in DOMAIN ran, NEW k \in DOMAIN q, SessionOf[ran[i]] = s
                 PROVE  ticket'[ran[i]] < ticket'[q[k]]
    OBVIOUS
  <2>2. q[k] \in In(queue[s]) \cup {m} BY <1>8 DEF In
  <2>3. CASE q[k] = m BY <1>2, <1>3, <1>4, <1>14, <2>3
  <2>4. CASE q[k] \in In(queue[s])
    <3>1. PICK j \in DOMAIN queue[s] : queue[s][j] = q[k] BY <2>4 DEF In
    <3>2. ticket[ran[i]] < ticket[queue[s][j]] BY <1>2, <2>1 DEF PipePart, OrderInv
    <3>3. QED BY <1>3, <1>6, <1>14, <2>4, <3>1, <3>2
  <2>5. QED BY <2>2, <2>3, <2>4
<1>16. ~stopped => \A n \in Messages : n \notin In(q) /\ stages[n] = "dropped" =>
          \E o \in Messages : SessionOf[o] = SessionOf[n] /\ ticket'[o] > ticket'[n]
  <2>1. SUFFICES ASSUME ~stopped, NEW n \in Messages, n \notin In(q), stages[n] = "dropped"
                 PROVE  \E o \in Messages : SessionOf[o] = SessionOf[n] /\ ticket'[o] > ticket'[n]
    OBVIOUS
  <2>2. CASE n \in In(queue[s]) BY <1>3, <1>5, <1>6, <2>2 DEF s
  <2>3. CASE n \notin In(queue[s])
    <3>1. stage[n] = "dropped" /\ n # m BY <1>8, <1>9, <2>1, <2>3
    <3>2. PICK o \in Messages : SessionOf[o] = SessionOf[n] /\ ticket[o] > ticket[n]
      BY <2>1, <3>1 DEF PipePart, NewestSurvives
    <3>3. ticket'[o] > ticket'[n] BY <1>2, <1>3, <1>4, <3>1, <3>2
    <3>4. QED BY <3>2, <3>3
  <2>4. QED BY <2>2, <2>3
<1>17. \A n \in Messages :
          /\ n \notin In(q) /\ stages[n] \in Before => ticket'[n] = 0
          /\ stage[n] \notin Before
             => ticket'[n] = ticket[n] /\ (n \notin In(q) => stages[n] \notin Before)
  BY <1>9, <1>3, <1>8 DEF PipePart, TicketInv, Before
<1>18. ASSUME Free(s)
      PROVE  /\ PipePart' /\ runs \subseteq runs'
             /\ \A n \in Messages \ In(q) : stage'[n] = stages[n]
  <2>1. DispatchNext(s, q, runs, stages) BY <1>1, <1>18 DEF q, stages, s
  <2>2. ~stopped => \A d \in runs : d.s # s BY <1>18, <1>2 DEF Free, PipePart, OneRunPerSession, RunsOf
  <2>3. s \in Sessions BY <1>2 DEF s
  <2>4. /\ runs \subseteq runs /\ \A d \in runs \ runs : d.s = s
        /\ \A n \in In(q) : SessionOf[n] = s
        /\ \A d \in runs : \A n \in In(d.batch) : n \notin In(q) /\ stages[n] = "running"
    BY <1>11, <1>12
  <2>5. \A n \in Messages :
           /\ ticket'[n] <= tickets'
           /\ n \notin In(q) /\ stages[n] \in Before => ticket'[n] = 0
           /\ stage[n] \notin Before
              => /\ ticket'[n] = ticket[n]
                 /\ n \notin In(q) => stages[n] \notin Before
    BY <1>4, <1>17
  <2>6. q \in Seq(Messages) /\ q # << >> /\ InTurn(ticket', q) BY <1>8
  <2>7. /\ stages \in [Messages -> Stages]
        /\ ticket' \in [Messages -> Nat] /\ tickets' \in Nat
    BY <1>3, <1>9
  <2>8. PipePart' BY <1>13, <1>15, <1>16, <2>1, <2>2, <2>3, <2>4, <2>5, <2>6, <2>7, DispatchKeeps
  <2>9. runs \subseteq runs' /\ \A n \in Messages \ In(q) : stage'[n] = stages[n] BY <2>1 DEF DispatchNext
  <2>10. QED BY <2>8, <2>9
<1>19. ASSUME ~Free(s)
      PROVE  /\ PipePart' /\ runs \subseteq runs'
             /\ \A n \in Messages \ In(q) : stage'[n] = stages[n]
  <2>1. /\ queue' = [queue EXCEPT ![s] = q] /\ stage' = [stages EXCEPT ![m] = "queued"]
        /\ UNCHANGED <<running, runs, ran>>
    BY <1>1, <1>19 DEF q, stages, s
  <2>2. /\ s \in Sessions /\ queue \in [Sessions -> Seq(Messages)] /\ queue'[s] = q
        /\ \A t \in Sessions \ {s} : queue'[t] = queue[t]
    BY <1>2, PipeTyped, <2>1 DEF s
  <2>3. stage'[m] = "queued" /\ \A n \in Messages \ {m} : stage'[n] = stages[n] BY <1>9, <2>1
  <2>4. PipeTypes' BY <1>9, <2>1, <1>8, <2>2, <1>3 DEF Stages, PipeTypes, PipePart
  <2>5. QueueHolds'
    <3>1. SUFFICES ASSUME NEW t \in Sessions
                   PROVE  In(queue'[t]) = {n \in Messages : SessionOf[n] = t /\ stage'[n] = "queued"}
      BY DEF QueueHolds
    <3>2. CASE t # s
      <4>1. In(queue'[t]) = {n \in Messages : SessionOf[n] = t /\ stage[n] = "queued"}
        BY <2>2, <3>2 DEF PipePart, QueueHolds
      <4>2. \A n \in Messages : SessionOf[n] = t => (stage'[n] = "queued" <=> stage[n] = "queued")
        BY <1>11, <1>13, <2>3, <1>8, <3>2
      <4>3. QED BY <4>1, <4>2
    <3>3. CASE t = s BY <1>5, <1>8, <1>9, <1>11, <2>3, <1>13, <2>2, <3>3
    <3>4. QED BY <3>2, <3>3
  <2>6. RunsOf(s) # {} /\ \A t \in Sessions : RunsOf(t)' = RunsOf(t)
    BY <1>19, <2>2, <2>1 DEF Free, PipePart, AttendedInv, RunsOf
  <2>7. OneRunPerSession' BY <2>1, <2>6 DEF PipePart, OneRunPerSession
  <2>8. BatchInv'
    <3>1. \A d \in runs : \A n \in In(d.batch) : stage'[n] = "running" BY <1>8, <1>12, <2>3
    <3>2. QED BY <2>1, <3>1 DEF PipePart, BatchInv
  <2>9. AttendedInv' BY <2>1, <2>2, <2>6 DEF PipePart, AttendedInv
  <2>10. TicketInv'
    <3>1. \A n \in Messages : stage'[n] \in Before => ticket'[n] = 0 BY <1>5, <1>8, <1>9, <2>3, <1>17 DEF Before
    <3>2. QED BY <1>4, <3>1 DEF TicketInv
  <2>11. OrderInv'
    <3>1. RunInOrder' BY <1>14, <2>1 DEF PipePart, OrderInv, RunInOrder
    <3>2. \A i \in DOMAIN ran : stage'[ran[i]] \notin Before BY <1>9, <1>14, <2>3 DEF Before
    <3>3. ASSUME NEW t \in Sessions
          PROVE  /\ InTurn(ticket', queue'[t])
                 /\ \A i \in DOMAIN ran, k \in DOMAIN queue'[t] :
                       SessionOf[ran[i]] = t => ticket'[ran[i]] < ticket'[queue'[t][k]]
      <4>1. CASE t = s BY <1>8, <1>15, <2>2, <4>1
      <4>2. CASE t # s
        <5>1. queue'[t] = queue[t] BY <2>2, <4>2
        <5>2. \A k \in DOMAIN queue[t] : queue[t][k] \in In(queue[t]) BY DEF In
        <5>3. \A n \in In(queue[t]) : n \in Messages \ {m} BY DEF PipePart, QueueHolds
        <5>4. \A k \in DOMAIN queue[t] : ticket'[queue[t][k]] = ticket[queue[t][k]] BY <1>3, <5>2, <5>3
        <5>5. InTurn(ticket', queue[t]) BY <5>4 DEF PipePart, OrderInv, InTurn
        <5>6. \A i \in DOMAIN ran, k \in DOMAIN queue[t] :
                 SessionOf[ran[i]] = t => ticket'[ran[i]] < ticket'[queue[t][k]]
          BY <1>14, <5>4 DEF PipePart, OrderInv
        <5>7. QED BY <5>1, <5>5, <5>6
      <4>3. QED BY <4>1, <4>2
    <3>4. QED BY <2>1, <3>1, <3>2, <3>3 DEF OrderInv
  <2>12. NewestSurvives' BY <1>5, <1>8, <1>9, <2>3, <1>16 DEF NewestSurvives
  <2>13. PipePart' BY <2>4, <2>5, <2>7, <2>8, <2>9, <2>10, <2>11, <2>12 DEF PipePart
  <2>14. QED BY <1>8, <2>1, <2>3, <2>13
<1>20. \A n \in Messages \ {m} : stage[n] \in Before => n \notin In(q) /\ stages[n] = stage[n]
  BY <1>5, <1>8, <1>9 DEF Before
<1>21. QED BY <1>18, <1>19, <1>20

\* A dispatch ends: its session is released, or what waits is dispatched.
LEMMA FinishKeeps ==
    ASSUME PipePart, NEW d, NEW what \in {"answered", "failed"}, Finish(d, what)
    PROVE  /\ PipePart' /\ d \in runs /\ runs \ {d} \subseteq runs'
           /\ \A n \in Messages : stage[n] \in Before => stage'[n] = stage[n]
           /\ UNCHANGED <<config, route, stopped>>
<1> DEFINE s == d.s
           old == queue[s]
           next == Requeued(old)
           left == Marked(In(d.batch), what)
           stages == [m \in Messages |-> IF m \in In(old) \ In(next) THEN "dropped" ELSE left[m]]
<1>1. /\ d \in runs
      /\ IF MoreWaits(s)
         THEN DispatchNext(s, next, runs \ {d}, stages)
         ELSE /\ running' = [running EXCEPT ![s] = FALSE] /\ runs' = runs \ {d}
              /\ stage' = left /\ UNCHANGED <<queue, ran>>
      /\ UNCHANGED <<config, route, stopped, ticket, tickets>>
  BY DEF Finish, Mark, enqueued
<1>2. /\ s \in Sessions /\ old \in Seq(Messages) /\ config \in Configs
      /\ ticket \in [Messages -> Nat] /\ tickets \in Nat /\ stage \in [Messages -> Stages]
  BY <1>1, PipeTyped
<1>3. In(old) = {m \in Messages : SessionOf[m] = s /\ stage[m] = "queued"} BY <1>2 DEF PipePart, QueueHolds
<1>4. /\ In(d.batch) \subseteq Messages
      /\ \A m \in In(d.batch) : SessionOf[m] = s /\ stage[m] = "running"
  BY <1>1, PipeTyped, InMessages DEF PipePart, BatchInv
<1>5. /\ left \in [Messages -> Stages]
      /\ \A m \in Messages : left[m] = IF m \in In(d.batch) THEN what ELSE stage[m]
  BY <1>2 DEF Marked, Stages, Ended
<1>6. \A e \in runs \ {d} : \A m \in In(e.batch) :
         m \in Messages /\ stage[m] = "running" /\ m \notin In(d.batch)
  <2>1. SUFFICES ASSUME NEW e \in runs \ {d}, NEW m \in In(e.batch)
                 PROVE  m \in Messages /\ stage[m] = "running" /\ m \notin In(d.batch)
    OBVIOUS
  <2>2. m \in Messages BY PipeTyped, InMessages
  <2>3. QED BY <1>1, <2>2 DEF PipePart, BatchInv
<1>7. ~stopped => \A e \in runs \ {d} : e.s # s
  <2>1. SUFFICES ASSUME ~stopped, NEW e \in runs \ {d}, e.s = s
                 PROVE  FALSE
    OBVIOUS
  <2>2. d \in RunsOf(s) /\ e \in RunsOf(s) BY <1>1, <2>1 DEF RunsOf
  <2>3. QED BY <1>2, <2>1, <2>2 DEF PipePart, OneRunPerSession
<1>8. ASSUME MoreWaits(s)
      PROVE  /\ PipePart' /\ runs \ {d} \subseteq runs'
             /\ \A n \in Messages : stage[n] \in Before => stage'[n] = stage[n]
  <2>1. DispatchNext(s, next, runs \ {d}, stages) BY <1>1, <1>8
  <2>2. old # << >> /\ InTurn(ticket, old) BY <1>2, <1>8 DEF MoreWaits, PipePart, OrderInv
  <2>3. /\ next \in Seq(Messages) /\ next # << >> /\ In(next) \subseteq In(old)
        /\ old[Len(old)] \in In(next) /\ InTurn(ticket, next)
    BY <1>2, <2>2, RequeuedFacts
  <2>4. /\ stages \in [Messages -> Stages]
        /\ \A m \in Messages :
              stages[m] = IF m \in In(old) \ In(next) THEN "dropped" ELSE left[m]
    BY <1>5 DEF Stages, Ended
  <2>5. old = queue[s] /\ DOMAIN old = 1..Len(old) /\ Len(old) \in Nat /\ Len(old) \in DOMAIN old BY <1>2, <2>2
  <2>6. s = d.s OBVIOUS
  <2> HIDE DEF next, stages, left, old, s
  <2>7. /\ runs \ {d} \subseteq runs /\ \A e \in runs \ (runs \ {d}) : e.s = s
        /\ \A m \in In(next) : SessionOf[m] = s
    BY <1>3, <2>3, <2>6
  <2>8. \A e \in runs \ {d} : \A m \in In(e.batch) : m \notin In(next) /\ stages[m] = "running"
    BY <1>3, <1>5, <1>6, <2>3, <2>4
  <2>9. \A m \in Messages \ In(next) :
           stages[m] = "queued" <=> stage[m] = "queued" /\ SessionOf[m] # s
    <3>1. SUFFICES ASSUME NEW m \in Messages \ In(next)
                   PROVE  stages[m] = "queued" <=> stage[m] = "queued" /\ SessionOf[m] # s
      OBVIOUS
    <3>2. CASE m \in In(old) BY <1>3, <2>4, <3>2
    <3>3. CASE m \in In(d.batch) BY <1>3, <1>4, <1>5, <2>4, <3>3
    <3>4. CASE m \notin In(old) /\ m \notin In(d.batch) BY <1>3, <1>5, <2>4, <3>4
    <3>5. QED BY <3>2, <3>3, <3>4
  <2>10. /\ ticket' \in [Messages -> Nat] /\ tickets' \in Nat /\ InTurn(ticket', next) BY <1>1, <1>2, <2>3
  <2>11. \A m \in Messages :
            /\ ticket'[m] <= tickets'
            /\ m \notin In(next) /\ stages[m] \in Before => ticket'[m] = 0
            /\ stage[m] \notin Before
               => /\ ticket'[m] = ticket[m]
                  /\ m \notin In(next) => stages[m] \notin Before
    <3>1. \A m \in Messages : ticket[m] <= tickets /\ (stage[m] \in Before => ticket[m] = 0)
      BY DEF PipePart, TicketInv
    <3>2. \A m \in Messages : stages[m] \in Before => stages[m] = stage[m] BY <1>5, <2>4 DEF Before
    <3>3. QED BY <1>1, <3>1, <3>2
  <2>12. \A i \in DOMAIN ran, k \in DOMAIN next :
            SessionOf[ran[i]] = s => ticket'[ran[i]] < ticket'[next[k]]
    <3>1. SUFFICES ASSUME NEW i \in DOMAIN ran, NEW k \in DOMAIN next, SessionOf[ran[i]] = s
                   PROVE  ticket[ran[i]] < ticket[next[k]]
      BY <1>1
    <3>2. next[k] \in In(old) BY <2>3 DEF In
    <3>3. PICK j \in DOMAIN old : old[j] = next[k] BY <3>2 DEF In
    <3>4. ticket[ran[i]] < ticket[old[j]] BY <1>2, <2>5, <3>1 DEF PipePart, OrderInv
    <3>5. QED BY <3>3, <3>4
  <2>13. ~stopped => \A m \in Messages :
            m \notin In(next) /\ stages[m] = "dropped" =>
               \E n \in Messages : SessionOf[n] = SessionOf[m] /\ ticket'[n] > ticket'[m]
    <3>1. SUFFICES ASSUME ~stopped, NEW m \in Messages, m \notin In(next), stages[m] = "dropped"
                   PROVE  \E n \in Messages : SessionOf[n] = SessionOf[m] /\ ticket[n] > ticket[m]
      BY <1>1
    <3>2. CASE m \in In(old)
      <4>1. PICK i \in DOMAIN old : old[i] = m BY <3>2 DEF In
      <4>2. i # Len(old) BY <2>3, <3>1, <4>1
      <4>3. ticket[m] < ticket[old[Len(old)]] BY <2>2, <2>5, <4>1, <4>2 DEF InTurn
      <4>4. old[Len(old)] \in Messages /\ SessionOf[old[Len(old)]] = s /\ SessionOf[m] = s BY <1>3, <2>3, <3>2
      <4>5. QED BY <1>2, <4>3, <4>4
    <3>3. CASE m \notin In(old) BY <1>5, <2>4, <3>1, <3>3 DEF PipePart, NewestSurvives
    <3>4. QED BY <3>2, <3>3
  <2>14. UNCHANGED <<config, route, stopped>> BY <1>1
  <2>15. s \in Sessions /\ next \in Seq(Messages) /\ next # << >> BY <1>2, <2>3
  <2>16. stages \in [Messages -> Stages] BY <2>4
  <2>17. PipePart'
    BY <1>7, <2>1, <2>7, <2>8, <2>9, <2>10, <2>11, <2>12, <2>13, <2>14, <2>15, <2>16,
       DispatchKeeps
  <2>18. \A n \in Messages : stage[n] \in Before => stage'[n] = stage[n]
    BY <2>1, <1>3, <1>4, <2>3, <1>5, <2>4 DEF DispatchNext, Before
  <2>19. runs \ {d} \subseteq runs' BY <2>1 DEF DispatchNext
  <2>20. QED BY <2>17, <2>18, <2>19
<1>9. ASSUME ~MoreWaits(s)
      PROVE  /\ PipePart' /\ runs \ {d} \subseteq runs'
             /\ \A n \in Messages : stage[n] \in Before => stage'[n] = stage[n]
  <2>1. /\ running' = [running EXCEPT ![s] = FALSE] /\ runs' = runs \ {d} /\ stage' = left
        /\ UNCHANGED <<queue, ran>>
    BY <1>1, <1>9
  <2>2. queue[s] = << >> BY <1>9 DEF MoreWaits
  <2>3. /\ running \in [Sessions -> BOOLEAN] /\ running' \in [Sessions -> BOOLEAN]
        /\ ~running'[s] /\ \A t \in Sessions \ {s} : running'[t] = running[t]
    BY PipeTyped, <1>2, <2>1
  <2> HIDE DEF next, left, old
  <2>4. /\ \A t \in Sessions \ {s} : RunsOf(t)' = RunsOf(t)
        /\ ~stopped => RunsOf(s)' = {}
    BY <1>7, <2>1 DEF RunsOf
  <2> HIDE DEF s
  <2>5. PipeTypes' BY <1>1, <1>5, <2>1, <2>3 DEF PipeTypes, PipePart
  <2>6. \A m \in Messages : /\ stage'[m] = "queued" <=> stage[m] = "queued"
                            /\ stage'[m] \in Before => stage[m] \in Before
                            /\ stage[m] \in Before => stage'[m] \in Before
                            /\ stage'[m] = "dropped" => stage[m] = "dropped"
    BY <1>4, <1>5, <2>1 DEF Before
  <2>7. QueueHolds'
    <3>1. SUFFICES ASSUME NEW t \in Sessions
                   PROVE  In(queue[t]) = {m \in Messages : SessionOf[m] = t /\ stage'[m] = "queued"}
      BY <2>1 DEF QueueHolds
    <3>2. In(queue[t]) = {m \in Messages : SessionOf[m] = t /\ stage[m] = "queued"} BY DEF PipePart, QueueHolds
    <3>3. QED BY <2>6, <3>2
  <2>8. OneRunPerSession'
    <3>1. SUFFICES ASSUME ~stopped, NEW t \in Sessions
                   PROVE  /\ running'[t] = (RunsOf(t)' # {})
                          /\ \A e, f \in RunsOf(t)' : e = f
      BY <1>1 DEF OneRunPerSession
    <3>2. CASE t = s BY <2>3, <2>4, <3>1, <3>2
    <3>3. CASE t # s BY <2>3, <2>4, <3>1, <3>3 DEF PipePart, OneRunPerSession
    <3>4. QED BY <3>2, <3>3
  <2>9. BatchInv' BY <1>5, <1>6, <2>1 DEF PipePart, BatchInv
  <2>10. AttendedInv'
    <3>1. SUFFICES ASSUME NEW t \in Sessions, queue[t] # << >> \/ running'[t]
                   PROVE  RunsOf(t)' # {}
      BY <2>1 DEF AttendedInv
    <3>2. t # s BY <2>2, <2>3, <3>1
    <3>3. QED BY <2>3, <2>4, <3>1, <3>2 DEF PipePart, AttendedInv
  <2>11. TicketInv' BY <1>1, <2>6 DEF PipePart, TicketInv
  <2>12. OrderInv' BY <2>6, PipeTyped, <1>1, <2>1 DEF PipePart, OrderInv, RunInOrder
  <2>13. NewestSurvives' BY <1>1, <2>6 DEF PipePart, NewestSurvives
  <2>14. PipePart' BY <2>5, <2>7, <2>8, <2>9, <2>10, <2>11, <2>12, <2>13 DEF PipePart
  <2>15. \A n \in Messages : stage[n] \in Before => stage'[n] = stage[n] BY <1>4, <1>5, <2>1 DEF Before
  <2>16. QED BY <2>1, <2>14, <2>15
<1>10. QED BY <1>1, <1>8, <1>9

-----------------------------------------------------------------------------
(* The other steps, as far as the queues go.                               *)

\* A dispatch goes on, with the batch it has.
LEMMA AdvanceKeeps ==
    ASSUME PipePart, NEW d \in runs, NEW e \in Run, e.s = d.s, e.batch = d.batch,
           Advance(d, e), UNCHANGED <<config, places, route, stopped, enqueued>>
    PROVE  PipePart'
<1>1. /\ runs' = (runs \ {d}) \cup {e}
      /\ UNCHANGED <<config, stage, queue, running, ran, route, stopped, ticket, tickets>>
  BY DEF Advance, places, enqueued
<1>2. PipeTypes' BY <1>1 DEF PipePart, PipeTypes
<1>3. QueueHolds' /\ TicketInv' /\ OrderInv' /\ NewestSurvives'
  BY <1>1 DEF PipePart, QueueHolds, TicketInv, OrderInv, RunInOrder, NewestSurvives
<1>4. \A t \in Sessions : /\ t # d.s => RunsOf(t)' = RunsOf(t)
                          /\ t = d.s => /\ RunsOf(t)' = (RunsOf(t) \ {d}) \cup {e}
                                        /\ d \in RunsOf(t)
  BY <1>1 DEF RunsOf
<1>5. OneRunPerSession'
  <2>1. SUFFICES ASSUME ~stopped, NEW t \in Sessions
                 PROVE  /\ running[t] = (RunsOf(t)' # {})
                        /\ \A f, g \in RunsOf(t)' : f = g
    BY <1>1 DEF OneRunPerSession
  <2>2. running[t] = (RunsOf(t) # {}) /\ \A f, g \in RunsOf(t) : f = g BY <2>1 DEF PipePart, OneRunPerSession
  <2>3. CASE t = d.s BY <1>4, <2>2, <2>3
  <2>4. QED BY <1>4, <2>2, <2>3
<1>6. BatchInv'
  <2>1. /\ \A f \in runs : /\ f.batch # << >>
                           /\ \A m \in In(f.batch) : SessionOf[m] = f.s /\ stage[m] = "running"
        /\ \A f, g \in runs : f # g => In(f.batch) \cap In(g.batch) = {}
    BY DEF PipePart, BatchInv
  <2>2. \A f \in runs' : \E g \in runs : f.s = g.s /\ f.batch = g.batch /\ (f # e => g = f)
                                         /\ (f = e => g = d)
    BY <1>1
  <2>3. ASSUME NEW f \in runs', NEW g \in runs', f # g
        PROVE  In(f.batch) \cap In(g.batch) = {}
    <3>1. CASE f # e /\ g # e BY <1>1, <2>1, <2>3, <3>1
    <3>2. CASE f = e BY <1>1, <2>3, <3>2, <2>1
    <3>3. CASE g = e BY <1>1, <2>3, <3>3, <2>1
    <3>4. QED BY <3>1, <3>2, <3>3
  <2>4. \A f \in runs' : /\ f.batch # << >>
                         /\ \A m \in In(f.batch) : SessionOf[m] = f.s /\ stage[m] = "running"
    BY <2>1, <2>2
  <2>5. QED BY <1>1, <2>3, <2>4 DEF BatchInv
<1>7. AttendedInv' BY <1>1, <1>4 DEF PipePart, AttendedInv
<1>8. QED BY <1>2, <1>3, <1>5, <1>6, <1>7 DEF PipePart

\* A message on its way to a queue goes on, or is lost.
LEMMA MarkKeeps ==
    ASSUME PipePart, NEW m \in Messages, stage[m] \in Before,
           NEW what \in {"logging", "saving", "lost"}, Mark({m}, what),
           route' \in [Sessions -> Routes \cup {"none"}],
           UNCHANGED <<config, queue, running, runs, stopped, ticket, tickets, ran>>
    PROVE  PipePart'
<1>1. stage \in [Messages -> Stages] BY PipeTyped
<1>2. /\ stage' \in [Messages -> Stages] /\ stage'[m] = what
      /\ \A n \in Messages \ {m} : stage'[n] = stage[n]
  BY <1>1 DEF Mark, Marked, Stages, Ended
<1>3. \A n \in Messages : /\ stage'[n] = "queued" <=> stage[n] = "queued"
                          /\ stage[n] = "running" => stage'[n] = "running"
                          /\ stage'[n] \in Before => stage[n] \in Before
                          /\ stage[n] \notin Before => stage'[n] \notin Before
                          /\ stage'[n] = "dropped" => stage[n] = "dropped"
  BY <1>2 DEF Before
<1>4. PipeTypes' BY <1>2 DEF PipePart, PipeTypes
<1>5. QueueHolds'
  <2>1. SUFFICES ASSUME NEW t \in Sessions
                 PROVE  In(queue[t]) = {n \in Messages : SessionOf[n] = t /\ stage'[n] = "queued"}
    BY DEF QueueHolds
  <2>2. In(queue[t]) = {n \in Messages : SessionOf[n] = t /\ stage[n] = "queued"} BY DEF PipePart, QueueHolds
  <2>3. QED BY <1>3, <2>2
<1>6. OneRunPerSession' /\ AttendedInv' BY DEF PipePart, OneRunPerSession, AttendedInv, RunsOf
<1>7. BatchInv' BY PipeTyped, InMessages, <1>3 DEF PipePart, BatchInv
<1>8. TicketInv' BY <1>3 DEF PipePart, TicketInv
<1>9. OrderInv' BY <1>3, PipeTyped DEF PipePart, OrderInv, RunInOrder
<1>10. NewestSurvives' BY <1>3 DEF PipePart, NewestSurvives
<1>11. QED BY <1>4, <1>5, <1>6, <1>7, <1>8, <1>9, <1>10 DEF PipePart

\* stop() forgets what waits; the runs in flight go on.
LEMMA StopKeeps ==
    ASSUME PipePart, Stop
    PROVE  PipePart'
<1>1. /\ stopped' = TRUE /\ queue' = [t \in Sessions |-> << >>]
      /\ running' = [t \in Sessions |-> FALSE]
      /\ Mark({m \in Messages : stage[m] = "queued"}, "dropped")
      /\ UNCHANGED <<config, route, runs, ticket, tickets, ran>>
  BY DEF Stop, enqueued
<1>2. stage \in [Messages -> Stages] BY PipeTyped
<1>3. /\ stage' \in [Messages -> Stages]
      /\ \A m \in Messages : stage'[m] = IF stage[m] = "queued" THEN "dropped" ELSE stage[m]
  BY <1>1, <1>2 DEF Mark, Marked, Stages, Ended
<1>4. In(<< >>) = {} /\ DOMAIN << >> = {} BY DEF In
<1>5. PipeTypes' BY <1>1, <1>3 DEF PipePart, PipeTypes
<1>6. QueueHolds' BY <1>3, <1>1, <1>4 DEF QueueHolds
<1>7. OneRunPerSession' /\ NewestSurvives' BY <1>1 DEF OneRunPerSession, NewestSurvives
<1>8. BatchInv'
  <2>1. \A d \in runs : \A m \in In(d.batch) : stage'[m] = "running"
    BY PipeTyped, InMessages, <1>3 DEF PipePart, BatchInv
  <2>2. QED BY <1>1, <2>1 DEF PipePart, BatchInv
<1>9. AttendedInv' BY <1>1 DEF AttendedInv
<1>10. TicketInv' BY <1>1, <1>3 DEF PipePart, TicketInv, Before
<1>11. OrderInv'
  <2>1. RunInOrder' BY <1>1 DEF PipePart, OrderInv, RunInOrder
  <2>2. \A i \in DOMAIN ran : stage'[ran[i]] \notin Before BY PipeTyped, <1>3 DEF PipePart, OrderInv, Before
  <2>3. QED BY <1>1, <1>4, <2>1, <2>2 DEF OrderInv, InTurn
<1>12. QED BY <1>5, <1>6, <1>7, <1>8, <1>9, <1>10, <1>11 DEF PipePart

LEMMA SameKeeps ==
    ASSUME PipePart, config' \in Configs, UNCHANGED <<places, route, runs, stopped, enqueued>>
    PROVE  PipePart'
<1>1. UNCHANGED <<stage, queue, running, ran, route, runs, stopped, ticket, tickets>> BY DEF places, enqueued
<1>2. PipeTypes' BY <1>1 DEF PipePart, PipeTypes
<1>3. QueueHolds' /\ OneRunPerSession' /\ BatchInv' /\ AttendedInv'
  BY <1>1 DEF PipePart, QueueHolds, OneRunPerSession, RunsOf, BatchInv, AttendedInv
<1>4. TicketInv' /\ OrderInv' /\ NewestSurvives'
  BY <1>1 DEF PipePart, TicketInv, OrderInv, RunInOrder, NewestSurvives
<1>5. QED BY <1>2, <1>3, <1>4 DEF PipePart

-----------------------------------------------------------------------------
(* The session file.                                                       *)

SaveSteps == {"none", "mkdir", "open", "write", "rename", "saved", "failed"}
SaveFiles == {"none", "tmp", "disk", "gone"}
Save == [step : SaveSteps, snap : Nat, file : SaveFiles]

LEMMA StoreTyped ==
    ASSUME StoreTypeOK
    PROVE  /\ version \in Nat /\ disk \in File /\ tmp \in File
           /\ save \in [Writers -> Save] /\ overlapped \in BOOLEAN /\ faulty \in BOOLEAN
           /\ \A w \in Writers : /\ save[w] \in Save /\ save[w].step \in SaveSteps
                                 /\ save[w].snap \in Nat /\ save[w].file \in SaveFiles
<1>1. save \in [Writers -> Save] BY DEF StoreTypeOK, Save, SaveSteps, SaveFiles
<1>2. \A w \in Writers : save[w] \in Save BY <1>1
<1>3. QED BY <1>1, <1>2 DEF StoreTypeOK, Save

LEMMA FilesTyped ==
    /\ NoFile \in File /\ Empty \in File /\ Torn \in File
    /\ \A v \in Nat : Whole(v) \in File /\ Whole(v).v = v /\ Loads(Whole(v)) /\ Whole(v) # NoFile
    /\ NoSave \in Save
  BY DEF NoFile, Empty, Torn, Whole, File, Loads, NoSave, Save, SaveSteps, SaveFiles

\* A call begins: it will serialise what memory holds now, or something newer.
LEMMA PersistKeeps ==
    ASSUME StorePart, NEW w \in Writers, ~Saving(w), Persist(w),
           version' \in {version, version + 1}, faulty' \in BOOLEAN, UNCHANGED <<disk, tmp>>
    PROVE  /\ StorePart' /\ (~overlapped' => Fresh')
           /\ \A o \in Writers : Saving(o)' <=> Saving(o) \/ o = w
<1>1. /\ version \in Nat /\ save \in [Writers -> Save] /\ overlapped \in BOOLEAN
      /\ disk \in File /\ disk.v \in Nat
  BY StoreTyped DEF StorePart, File
<1>2. [NoSave EXCEPT !.step = "mkdir"] \in Save /\ [NoSave EXCEPT !.step = "mkdir"].step = "mkdir"
  BY DEF NoSave, Save, SaveSteps, SaveFiles
<1>3. /\ save' \in [Writers -> Save] /\ save'[w].step = "mkdir"
      /\ \A o \in Writers \ {w} : save'[o] = save[o]
  BY <1>1, <1>2 DEF Persist
<1>4. StoreTypeOK' BY <1>1, <1>3, StoreTyped DEF Persist, StorePart, StoreTypeOK, Save, SaveSteps, SaveFiles
<1>5. \A o \in Writers : Saving(o)' <=> Saving(o) \/ o = w BY <1>3 DEF Saving
<1>6. ~overlapped' => ~overlapped /\ \A o \in Writers \ {w} : ~Saving(o) BY DEF Persist
<1>7. FileInv'
  <2>1. SUFFICES ASSUME ~overlapped'
                 PROVE  /\ Loads(disk) /\ disk.v <= version'
                        /\ \A u, v \in Writers : Saving(u)' /\ Saving(v)' => u = v
                        /\ \A v \in Writers : save'[v].step \notin {"open", "write", "rename"}
    BY DEF FileInv, Loads
  <2>2. Loads(disk) /\ disk.v <= version BY <1>6, <2>1 DEF StorePart, FileInv
  <2>3. disk.v <= version' BY <1>1, <2>2
  <2>4. \A v \in Writers : save'[v].step \notin {"open", "write", "rename"} BY <1>3, <1>6, <2>1 DEF Saving
  <2>5. QED BY <1>5, <1>6, <2>1, <2>2, <2>3, <2>4
<1>8. Fresh' BY <1>3 DEF Fresh
<1>9. QED BY <1>4, <1>5, <1>7, <1>8 DEF StorePart

\* The sessions change, and nothing is saved yet.
LEMMA ChangeKeeps ==
    ASSUME StorePart, version' \in {version, version + 1}, faulty' \in BOOLEAN,
           UNCHANGED <<disk, tmp, save, overlapped>>
    PROVE  StorePart'
<1>1. version \in Nat /\ disk.v \in Nat /\ \A w \in Writers : save[w].snap \in Nat
  BY StoreTyped DEF StorePart, File
<1>2. version' \in Nat /\ version <= version' BY <1>1
<1>3. StoreTypeOK' BY <1>2 DEF StorePart, StoreTypeOK
<1>4. FileInv' BY <1>1, <1>2 DEF StorePart, FileInv, Saving, Loads
<1>5. QED BY <1>3, <1>4 DEF StorePart

\* The steps nobody awaits: serialise, create, write.
LEMMA FileStepKeeps ==
    ASSUME StorePart, NEW w \in Writers, Snapshot(w) \/ Open(w) \/ Write(w)
    PROVE  /\ StorePart' /\ (~overlapped /\ Fresh => Fresh')
           /\ \A o \in Writers : Saving(o)' <=> Saving(o)
           /\ ~overlapped => disk' = disk
           /\ UNCHANGED <<version, overlapped, faulty>>
<1>1. /\ version \in Nat /\ save \in [Writers -> Save] /\ save[w] \in Save
      /\ disk \in File /\ tmp \in File /\ disk.v \in Nat
      /\ \A o \in Writers : save[o].snap \in Nat
  BY StoreTyped DEF StorePart, File
<1>2. UNCHANGED <<version, overlapped, faulty>> BY DEF Snapshot, Open, Write
<1>3. CASE Snapshot(w)
  <2>1. /\ save' \in [Writers -> Save] /\ save'[w].step = "open" /\ save'[w].snap = version
        /\ \A o \in Writers \ {w} : save'[o] = save[o]
        /\ save[w].step = "mkdir" /\ UNCHANGED <<disk, tmp>>
    <3> DEFINE r == [save[w] EXCEPT !.step = "open", !.snap = version]
    <3>1. r \in Save /\ r.step = "open" /\ r.snap = version BY <1>1 DEF Save, SaveSteps
    <3>2. save' = [save EXCEPT ![w] = r] BY <1>1, <1>3 DEF Snapshot, Entries
    <3> HIDE DEF r
    <3>3. save[w].step = "mkdir" /\ UNCHANGED <<disk, tmp>> BY <1>3 DEF Snapshot
    <3>4. QED BY <1>1, <3>1, <3>2, <3>3
  <2>2. StoreTypeOK' BY <1>2, <2>1 DEF StorePart, StoreTypeOK, Save, SaveSteps, SaveFiles
  <2>3. \A o \in Writers : Saving(o)' <=> Saving(o) BY <2>1 DEF Saving
  <2>4. FileInv'
    <3>1. SUFFICES ASSUME ~overlapped
                   PROVE  FileInv'
      BY <1>2 DEF FileInv
    <3>2. \A o \in Writers \ {w} : ~Saving(o) BY <2>1, <3>1 DEF StorePart, FileInv, Saving
    <3>3. disk.v <= version /\ Loads(disk) /\ Loads(disk)' BY <2>1, <3>1 DEF StorePart, FileInv, Loads
    <3>4. \A o \in Writers \ {w} : save'[o].step \notin {"open", "write", "rename"} BY <2>1, <3>2 DEF Saving
    <3>5. version <= version BY <1>1
    <3>6. \A u, v \in Writers : Saving(u)' /\ Saving(v)' => u = v BY <2>3, <3>2
    <3>7. \A v \in Writers :
             /\ save'[v].step # "write" /\ save'[v].step # "rename"
             /\ save'[v].step \in {"open", "write", "rename"}
                => disk.v <= save'[v].snap /\ save'[v].snap <= version
      BY <2>1, <3>3, <3>4, <3>5
    <3>8. QED BY <1>2, <2>1, <3>3, <3>6, <3>7 DEF FileInv
  <2>5. Fresh' BY <1>2, <2>1 DEF Fresh
  <2>6. QED BY <1>2, <2>1, <2>2, <2>3, <2>4, <2>5 DEF StorePart
<1>4. CASE Open(w)
  <2>1. /\ save' \in [Writers -> Save] /\ save'[w].step = "write" /\ save'[w].file = "tmp"
        /\ save'[w].snap = save[w].snap
        /\ \A o \in Writers \ {w} : save'[o] = save[o]
        /\ save[w].step = "open" /\ tmp' = Empty /\ disk' = disk
    <3> DEFINE r == [save[w] EXCEPT !.step = "write", !.file = "tmp"]
    <3>1. r \in Save /\ r.step = "write" /\ r.file = "tmp" /\ r.snap = save[w].snap
      BY <1>1 DEF Save, SaveSteps, SaveFiles
    <3>2. save' = [save EXCEPT ![w] = r] BY <1>1, <1>4 DEF Open, OpenTmp
    <3> HIDE DEF r
    <3>3. save[w].step = "open" /\ tmp' = Empty /\ disk' = disk BY <1>4 DEF Open, OpenTmp
    <3>4. QED BY <1>1, <3>1, <3>2, <3>3
  <2>2. StoreTypeOK' BY <1>1, <1>2, <2>1, FilesTyped DEF StorePart, StoreTypeOK, Save, SaveSteps, SaveFiles
  <2>3. \A o \in Writers : Saving(o)' <=> Saving(o) BY <2>1 DEF Saving
  <2>4. FileInv'
    <3>1. SUFFICES ASSUME ~overlapped
                   PROVE  FileInv'
      BY <1>2 DEF FileInv
    <3>2. \A o \in Writers \ {w} : ~Saving(o) BY <2>1, <3>1 DEF StorePart, FileInv, Saving
    <3>3. /\ disk.v <= version /\ Loads(disk) /\ Loads(disk)'
          /\ disk.v <= save[w].snap /\ save[w].snap <= version
      BY <2>1, <3>1 DEF StorePart, FileInv, Loads
    <3>4. \A o \in Writers \ {w} : save'[o].step \notin {"open", "write", "rename"} BY <2>1, <3>2 DEF Saving
    <3>6. \A u, v \in Writers : Saving(u)' /\ Saving(v)' => u = v BY <2>3, <3>2
    <3>7. \A v \in Writers :
             /\ save'[v].step = "write" => save'[v].file = "tmp" /\ tmp' = Empty
             /\ save'[v].step # "rename"
             /\ save'[v].step \in {"open", "write", "rename"}
                => disk.v <= save'[v].snap /\ save'[v].snap <= version
      BY <2>1, <3>3, <3>4
    <3>8. Empty' = Empty BY DEF Empty
    <3>9. QED BY <1>2, <2>1, <3>3, <3>6, <3>7, <3>8 DEF FileInv
  <2>5. Fresh => Fresh' BY <2>1, <1>2 DEF Fresh, Whole
  <2>6. QED BY <1>2, <2>1, <2>2, <2>3, <2>4, <2>5 DEF StorePart
<1>5. CASE Write(w)
  <2>1. /\ save' \in [Writers -> Save] /\ save'[w].step = "rename"
        /\ save'[w].snap = save[w].snap
        /\ \A o \in Writers \ {w} : save'[o] = save[o]
        /\ save[w].step = "write"
    <3> DEFINE r == [save[w] EXCEPT !.step = "rename"]
    <3>1. r \in Save /\ r.step = "rename" /\ r.snap = save[w].snap BY <1>1 DEF Save, SaveSteps, SaveFiles
    <3>2. save' = [save EXCEPT ![w] = r] BY <1>1, <1>5 DEF Write
    <3> HIDE DEF r
    <3>3. save[w].step = "write" BY <1>5 DEF Write
    <3>4. QED BY <1>1, <3>1, <3>2, <3>3
  <2>2. StoreTypeOK'
    BY <1>1, <1>5, FilesTyped, <1>2, <2>1 DEF Write, Overwrite, StorePart, StoreTypeOK, Save, SaveSteps,
       SaveFiles
  <2>3. \A o \in Writers : Saving(o)' <=> Saving(o) BY <2>1 DEF Saving
  <2>4. ~overlapped => tmp' = Whole(save[w].snap) /\ disk' = disk
    <3>1. SUFFICES ASSUME ~overlapped
                   PROVE  tmp' = Whole(save[w].snap) /\ disk' = disk
      OBVIOUS
    <3>2. save[w].file = "tmp" /\ tmp = Empty BY <2>1, <3>1 DEF StorePart, FileInv
    <3>3. QED BY <1>5, <3>2 DEF Write, Overwrite
  <2>5. FileInv'
    <3>1. SUFFICES ASSUME ~overlapped
                   PROVE  FileInv'
      BY <1>2 DEF FileInv
    <3>2. \A o \in Writers \ {w} : ~Saving(o) BY <2>1, <3>1 DEF StorePart, FileInv, Saving
    <3>3. /\ disk.v <= version /\ Loads(disk) /\ Loads(disk)'
          /\ disk.v <= save[w].snap /\ save[w].snap <= version
      BY <2>1, <2>4, <3>1 DEF StorePart, FileInv, Loads
    <3>4. \A o \in Writers \ {w} : save'[o].step \notin {"open", "write", "rename"} BY <2>1, <3>2 DEF Saving
    <3>6. \A u, v \in Writers : Saving(u)' /\ Saving(v)' => u = v BY <2>3, <3>2
    <3>7. \A v \in Writers :
             /\ save'[v].step # "write"
             /\ save'[v].step = "rename" => tmp' = Whole(save'[v].snap)
             /\ save'[v].step \in {"open", "write", "rename"}
                => disk.v <= save'[v].snap /\ save'[v].snap <= version
      BY <2>1, <2>4, <3>1, <3>3, <3>4
    <3>8. \A v \in Writers : save'[v].step = "rename" => tmp' = Whole(save[v].snap)' BY <3>7 DEF Whole
    <3>9. QED BY <1>2, <2>4, <3>1, <3>3, <3>6, <3>7, <3>8 DEF FileInv
  <2>6. ~overlapped /\ Fresh => Fresh' BY <2>1, <1>2, <2>4 DEF Fresh, Whole
  <2>7. QED BY <1>2, <2>2, <2>3, <2>4, <2>5, <2>6 DEF StorePart
<1>6. QED BY <1>3, <1>4, <1>5

\* A call settles: the temporary file has become the session file, or the call failed.
LEMMA SettleKeeps ==
    ASSUME StorePart, NEW w \in Writers, Rename(w) \/ IoError(w)
    PROVE  /\ StorePart' /\ (~overlapped /\ ~faulty' /\ Fresh => Fresh')
           /\ Saving(w) /\ save'[w].step \in {"saved", "failed"}
           /\ \A o \in Writers : Saving(o)' <=> Saving(o) /\ o # w
           /\ ~overlapped => disk'.v >= disk.v
           /\ (faulty => faulty') /\ UNCHANGED <<version, overlapped>>
<1>1. /\ version \in Nat /\ save \in [Writers -> Save] /\ save[w] \in Save
      /\ disk \in File /\ tmp \in File /\ disk.v \in Nat
      /\ \A o \in Writers : save[o] \in Save /\ save[o].snap \in Nat
  BY StoreTyped DEF StorePart, File
<1>2. UNCHANGED <<version, overlapped>> /\ (faulty => faulty') /\ Saving(w) BY DEF Rename, IoError, Saving
<1>3. ~overlapped => \A o \in Writers \ {w} : ~Saving(o) BY <1>2 DEF StorePart, FileInv
<1> DEFINE failed == [NoSave EXCEPT !.step = "failed"]
           saved == [NoSave EXCEPT !.step = "saved"]
<1>4. failed \in Save /\ failed.step = "failed" /\ saved \in Save /\ saved.step = "saved"
  BY DEF NoSave, Save, SaveSteps, SaveFiles
<1> HIDE DEF failed, saved
<1>5. CASE IoError(w)
  <2>1. /\ save' = [save EXCEPT ![w] = failed] /\ faulty' = TRUE
        /\ UNCHANGED <<disk, tmp>> \/ (save[w].step = "write" /\ Overwrite(w, Torn))
    BY <1>5, Zenon DEF IoError, failed
  <2>2. /\ save' \in [Writers -> Save] /\ save'[w].step = "failed"
        /\ \A o \in Writers \ {w} : save'[o] = save[o]
    BY <1>1, <1>4, <2>1
  <2>3. disk' \in File /\ tmp' \in File BY <1>1, <2>1, FilesTyped DEF Overwrite
  <2>4. StoreTypeOK' BY <1>2, <2>1, <2>2, <2>3 DEF StorePart, StoreTypeOK, Save, SaveSteps, SaveFiles
  <2>5. \A o \in Writers : Saving(o)' <=> Saving(o) /\ o # w BY <2>2 DEF Saving
  <2>6. ~overlapped => disk' = disk BY <2>1 DEF StorePart, FileInv, Overwrite
  <2>7. FileInv'
    <3>1. SUFFICES ASSUME ~overlapped
                   PROVE  FileInv'
      BY <1>2 DEF FileInv
    <3>2. Loads(disk)' /\ disk'.v <= version BY <2>6, <3>1 DEF StorePart, FileInv, Loads
    <3>3. \A v \in Writers : ~Saving(v)' BY <1>3, <2>5, <3>1
    <3>4. \A v \in Writers : save'[v].step \notin {"open", "write", "rename"} BY <3>3 DEF Saving
    <3>5. QED BY <1>2, <3>2, <3>3, <3>4 DEF FileInv
  <2>8. ~overlapped => disk'.v >= disk.v BY <1>1, <2>6
  <2>9. QED BY <1>2, <2>1, <2>2, <2>4, <2>5, <2>7, <2>8 DEF StorePart
<1>6. CASE Rename(w) /\ Renamed(w)
  <2>1. /\ disk' = tmp /\ tmp' = NoFile /\ faulty' = faulty /\ save[w].step = "rename"
        /\ save' = [o \in Writers |->
              IF o = w THEN saved
              ELSE [save[o] EXCEPT !.file = CASE @ = "tmp" -> "disk"
                                              [] @ = "disk" -> "gone"
                                              [] OTHER -> @]]
    BY <1>6 DEF Rename, saved
  <2>2. /\ save' \in [Writers -> Save] /\ save'[w].step = "saved"
        /\ \A o \in Writers \ {w} : save'[o].step = save[o].step
    <3>1. ASSUME NEW o \in Writers \ {w}
          PROVE  save'[o] \in Save /\ save'[o].step = save[o].step
      <4> DEFINE f == CASE save[o].file = "tmp" -> "disk"
                        [] save[o].file = "disk" -> "gone"
                        [] OTHER -> save[o].file
      <4>1. f \in SaveFiles BY <1>1 DEF Save, SaveFiles
      <4>2. save'[o] = [save[o] EXCEPT !.file = f] BY <2>1
      <4> HIDE DEF f
      <4>3. QED BY <1>1, <4>1, <4>2 DEF Save
    <3>2. save'[w] = saved BY <2>1
    <3>3. DOMAIN save' = Writers /\ \A o \in Writers : save'[o] \in Save BY <1>4, <2>1, <3>1, <3>2
    <3>4. save' = [o \in Writers |-> save'[o]] BY <2>1
    <3>5. QED BY <1>4, <3>1, <3>2, <3>3, <3>4
  <2>3. StoreTypeOK'
    BY <1>1, <2>1, FilesTyped, <1>2, <2>2 DEF StorePart, StoreTypeOK, Save, SaveSteps, SaveFiles
  <2>4. \A o \in Writers : Saving(o)' <=> Saving(o) /\ o # w BY <2>2 DEF Saving
  <2>5. ~overlapped => /\ disk' = Whole(save[w].snap) /\ disk.v <= save[w].snap
                       /\ save[w].snap <= version
    BY <2>1 DEF StorePart, FileInv
  <2>6. ~overlapped => disk'.v = save[w].snap /\ Loads(disk)' BY <2>5 DEF Whole, Loads
  <2>7. FileInv'
    <3>1. SUFFICES ASSUME ~overlapped
                   PROVE  FileInv'
      BY <1>2 DEF FileInv
    <3>3. \A v \in Writers : ~Saving(v)' BY <1>3, <2>4, <3>1
    <3>4. \A v \in Writers : save'[v].step \notin {"open", "write", "rename"} BY <3>3 DEF Saving
    <3>5. QED BY <1>2, <2>5, <2>6, <3>1, <3>3, <3>4 DEF FileInv
  <2>8. ~overlapped /\ Fresh => Fresh'
    <3>1. SUFFICES ASSUME ~overlapped, Fresh
                   PROVE  disk' = Whole(version)
      BY <1>2 DEF Fresh, Whole
    <3>2. CASE disk = Whole(version) BY <3>2, <1>1, <2>5, <3>1 DEF Whole
    <3>3. CASE \E o \in Writers : \/ save[o].step = "mkdir"
                                  \/ save[o].step \in {"open", "write", "rename"}
                                     /\ save[o].snap = version
      <4>1. PICK o \in Writers : Saving(o) /\ (save[o].step = "mkdir" \/ save[o].snap = version)
        BY <3>3 DEF Saving
      <4>2. o = w BY <1>3, <3>1, <4>1
      <4>3. QED BY <2>1, <2>5, <3>1, <4>1, <4>2
    <3>4. QED BY <3>1, <3>2, <3>3 DEF Fresh
  <2>9. ~overlapped => disk'.v >= disk.v BY <1>1, <2>5, <2>6
  <2>10. QED BY <1>2, <2>1, <2>2, <2>3, <2>4, <2>7, <2>8, <2>9 DEF StorePart
<1>7. CASE Rename(w) /\ ~Renamed(w)
  <2>1. /\ save' = [save EXCEPT ![w] = failed] /\ faulty' = faulty /\ UNCHANGED <<disk, tmp>>
        /\ save[w].step = "rename"
    BY <1>7 DEF Rename, failed
  <2>2. /\ save' \in [Writers -> Save] /\ save'[w].step = "failed"
        /\ \A o \in Writers \ {w} : save'[o] = save[o]
    BY <1>1, <1>4, <2>1
  <2>3. StoreTypeOK' BY <1>2, <2>1, <2>2 DEF StorePart, StoreTypeOK, Save, SaveSteps, SaveFiles
  <2>4. \A o \in Writers : Saving(o)' <=> Saving(o) /\ o # w BY <2>2 DEF Saving
  <2>5. overlapped
    <3>1. SUFFICES ASSUME ~overlapped
                   PROVE  FALSE
      OBVIOUS
    <3>2. tmp = Whole(save[w].snap) BY <2>1, <3>1 DEF StorePart, FileInv
    <3>3. QED BY <1>1, <1>7, <3>2, FilesTyped DEF Renamed
  <2>6. FileInv' BY <1>2, <2>5 DEF FileInv
  <2>7. QED BY <1>2, <2>1, <2>2, <2>3, <2>4, <2>5, <2>6 DEF StorePart
<1>8. QED BY <1>5, <1>6, <1>7

-----------------------------------------------------------------------------
(* Every step, for the whole of the pipeline.                              *)

\* Who saves goes on saving for a reason, but for the call x that begins or ends.
LEMMA SaveGoesOn ==
    ASSUME PipeInv, NEW x,
           \A n \in Messages \ {x} : Saving(n)' => Saving(n),
           \A n \in Messages \ {x} : stage[n] = "saving" => stage'[n] = "saving",
           \A e \in runs : e.step = "saving" /\ First(e) # x => e \in runs',
           x \in Messages /\ Saving(x)' => \/ stage'[x] = "saving"
                                           \/ \E e \in runs' : e.step = "saving" /\ First(e) = x,
           ~stopped' => ~Saving(Stopper)'
    PROVE  SaveInv'
<1>1. SUFFICES ASSUME NEW m \in Messages, Saving(m)'
               PROVE  \/ stage'[m] = "saving"
                      \/ \E d \in runs' : d.step = "saving" /\ First(d) = m
  BY DEF SaveInv, First
<1>2. CASE m = x BY <1>1, <1>2
<1>3. CASE m # x BY <1>1, <1>3 DEF PipeInv, SaveInv
<1>4. QED BY <1>2, <1>3

\* What is owed stays owed while those who owe it are where they were.
LEMMA OwedGoesOn ==
    ASSUME \A n \in Messages : stage[n] = "logging" => stage'[n] = "logging",
           \A e \in runs : e.named /\ e.step = "agent" => e \in runs', Owed
    PROVE  Owed'
  BY DEF Owed

LEMMA WritersTyped ==
    /\ Stopper \in Writers /\ Stopper \notin Messages /\ Messages \subseteq Writers
    /\ \A w \in Resets : w \in Writers /\ w \notin Messages /\ w # Stopper
  BY PipelineAssumption DEF Resets

\* The first message of a run is one of its own, and in nobody else's.
LEMMA FirstFacts ==
    ASSUME PipePart
    PROVE  /\ \A d \in runs : First(d) \in Messages /\ stage[First(d)] = "running"
           /\ \A d, e \in runs : First(d) = First(e) => d = e
<1>1. ASSUME NEW d \in runs
      PROVE  First(d) \in Messages /\ First(d) \in In(d.batch)
  <2>1. d.batch \in Seq(Messages) /\ d.batch # << >> BY PipeTyped DEF PipePart, BatchInv
  <2>2. 1 \in DOMAIN d.batch BY <2>1
  <2>3. QED BY <2>1, <2>2 DEF First, In
<1>2. QED BY <1>1 DEF PipePart, BatchInv

\* Who is at a step of its own does not save.
LEMMA NotSaving ==
    ASSUME PipeInv
    PROVE  /\ \A m \in Messages : stage[m] \notin {"saving", "running"} => ~Saving(m)
           /\ \A d \in runs : d.step # "saving" => ~Saving(First(d))
<1>1. \A m \in Messages : stage[m] \notin {"saving", "running"} => ~Saving(m) BY FirstFacts DEF PipeInv, SaveInv
<1>2. ASSUME NEW d \in runs, Saving(First(d))
      PROVE  d.step = "saving"
  <2>1. First(d) \in Messages /\ stage[First(d)] = "running" BY FirstFacts DEF PipeInv
  <2>2. PICK e \in runs : e.step = "saving" /\ First(e) = First(d) BY <1>2, <2>1 DEF PipeInv, SaveInv
  <2>3. QED BY <2>2, FirstFacts DEF PipeInv
<1>3. QED BY <1>1, <1>2

\* A step that leaves the store alone.
LEMMA StoreSame ==
    ASSUME StorePart, UNCHANGED storeVars
    PROVE  /\ StorePart' /\ (Fresh => Fresh')
           /\ \A o : Saving(o)' <=> Saving(o)
           /\ disk'.v >= disk.v /\ UNCHANGED <<version, disk, overlapped, faulty, save>>
<1>1. UNCHANGED <<version, disk, tmp, save, overlapped, faulty>> BY DEF storeVars
<1>2. StoreTypeOK' BY <1>1 DEF StorePart, StoreTypeOK
<1>3. FileInv' BY <1>1 DEF StorePart, FileInv, Saving, Loads, Empty, Whole
<1>4. disk.v \in Nat BY StoreTyped DEF StorePart, File
<1>5. QED BY <1>1, <1>2, <1>3, <1>4 DEF StorePart, Fresh, Saving, Whole

\* A message's steps.
LEMMA MessageStep ==
    ASSUME PipeInv, NEW m \in Messages,
           Receive(m) \/ Logged(m, TRUE) \/ Logged(m, FALSE) \/ Saved(m)
    PROVE  PipeInv' /\ (~overlapped' => disk'.v >= disk.v)
<1>1. /\ PipePart /\ StorePart /\ SaveInv /\ CurrentInv /\ stage \in [Messages -> Stages]
      /\ m \in Writers /\ m # Stopper /\ route \in [Sessions -> Routes \cup {"none"}]
      /\ version \in Nat /\ disk.v \in Nat
  BY PipeTyped, StoreTyped, WritersTyped DEF PipeInv, StorePart, PipePart, PipeTypes, File
<1>2. ASSUME NEW what, Mark({m}, what)
      PROVE  stage'[m] = what /\ \A n \in Messages \ {m} : stage'[n] = stage[n]
  BY <1>1, <1>2 DEF Mark, Marked
<1>3. CASE Receive(m)
  <2>1. /\ stage[m] = "new" /\ Mark({m}, "logging") /\ version' = version + 1
        /\ route' = [route EXCEPT ![SessionOf[m]] = RouteOf[m]]
        /\ UNCHANGED <<disk, tmp, save, overlapped, faulty, config, queue, running, runs, stopped,
                       ticket, tickets, ran>>
    BY <1>3 DEF Receive, enqueued
  <2>2. route' \in [Sessions -> Routes \cup {"none"}] BY <1>1, <2>1, PipelineAssumption
  <2>3. PipePart' BY <1>1, <2>1, <2>2, MarkKeeps DEF Before
  <2>4. StorePart' BY <1>1, <2>1, ChangeKeeps, StoreTyped DEF StorePart
  <2>5. SaveInv'
    <3>1. \A o : Saving(o)' <=> Saving(o) BY <2>1 DEF Saving
    <3>2. ~Saving(m) BY <2>1, NotSaving
    <3>3. ~stopped' => ~Saving(Stopper)' BY <1>1, <2>1, <3>1 DEF SaveInv
    <3>4. \A n \in Messages \ {m} : stage[n] = "saving" => stage'[n] = "saving" BY <1>2, <2>1
    <3>5. QED BY <2>1, <3>1, <3>2, <3>3, <3>4, SaveGoesOn
  <2>6. CurrentInv' BY <1>2, <2>1 DEF CurrentInv, Owed
  <2>7. QED BY <1>1, <2>1, <2>3, <2>4, <2>5, <2>6 DEF PipeInv
<1>4. CASE Logged(m, TRUE)
  <2>1. /\ stage[m] = "logging" /\ Mark({m}, "saving") /\ Persist(m)
        /\ UNCHANGED <<version, disk, tmp, faulty, config, route, queue, running, runs, stopped,
                       ticket, tickets, ran>>
    BY <1>4 DEF Logged, enqueued
  <2>2. PipePart' BY <1>1, <2>1, MarkKeeps DEF Before
  <2>3. ~Saving(m) BY <2>1, NotSaving
  <2>4. /\ StorePart' /\ (~overlapped' => Fresh')
        /\ \A o \in Writers : Saving(o)' <=> Saving(o) \/ o = m
    BY <1>1, <2>1, StoreTyped, <2>3, PersistKeeps DEF StorePart
  <2>5. SaveInv'
    <3>1. \A n \in Messages \ {m} : Saving(n)' => Saving(n) BY <2>4, WritersTyped
    <3>2. \A n \in Messages \ {m} : stage[n] = "saving" => stage'[n] = "saving" BY <1>2, <2>1
    <3>3. stage'[m] = "saving" BY <1>2, <2>1
    <3>4. ~stopped' => ~Saving(Stopper)' BY <1>1, <2>1, <2>4, WritersTyped DEF SaveInv
    <3>5. QED BY <2>1, <3>1, <3>2, <3>3, <3>4, SaveGoesOn
  <2>6. CurrentInv' BY <2>4 DEF CurrentInv
  <2>7. QED BY <1>1, <2>1, <2>2, <2>4, <2>5, <2>6 DEF PipeInv
<1>5. CASE Logged(m, FALSE)
  <2>1. /\ stage[m] = "logging" /\ Mark({m}, "lost") /\ faulty' = TRUE
        /\ UNCHANGED <<save, overlapped, version, disk, tmp, config, route, queue, running, runs,
                       stopped, ticket, tickets, ran>>
    BY <1>5 DEF Logged, enqueued
  <2>2. PipePart' BY <1>1, <2>1, MarkKeeps DEF Before
  <2>3. StorePart' BY <1>1, <2>1, ChangeKeeps
  <2>4. SaveInv'
    <3>1. \A o : Saving(o)' <=> Saving(o) BY <2>1 DEF Saving
    <3>2. ~Saving(m) BY <2>1, NotSaving
    <3>3. ~stopped' => ~Saving(Stopper)' BY <1>1, <2>1, <3>1 DEF SaveInv
    <3>4. \A n \in Messages \ {m} : stage[n] = "saving" => stage'[n] = "saving" BY <1>2, <2>1
    <3>5. QED BY <2>1, <3>1, <3>2, <3>3, <3>4, SaveGoesOn
  <2>5. CurrentInv' BY <2>1 DEF CurrentInv
  <2>6. QED BY <1>1, <2>1, <2>2, <2>3, <2>4, <2>5 DEF PipeInv
<1>6. CASE Saved(m)
  <2>1. /\ stage[m] = "saving" /\ (Rename(m) \/ IoError(m)) /\ UNCHANGED <<config, route, stopped>>
    BY <1>6 DEF Saved
  <2>2. /\ StorePart' /\ (~overlapped /\ ~faulty' /\ Fresh => Fresh')
        /\ Saving(m) /\ save'[m].step \in {"saved", "failed"}
        /\ \A o \in Writers : Saving(o)' <=> Saving(o) /\ o # m
        /\ ~overlapped => disk'.v >= disk.v
        /\ (faulty => faulty') /\ UNCHANGED <<version, overlapped>>
    BY <1>1, <2>1, SettleKeeps
  <2>3. /\ PipePart' /\ runs \subseteq runs'
        /\ \A n \in Messages \ {m} : stage[n] \in Before => stage'[n] = stage[n]
    <3>1. CASE save'[m].step = "saved" BY <1>6, <3>1, <1>1, <2>1, EnqueueKeeps DEF Saved
    <3>2. CASE save'[m].step = "failed" BY <1>6, <3>2, <1>1, <2>1, MarkKeeps, <1>2 DEF Saved, enqueued, Before
    <3>3. QED BY <2>2, <3>1, <3>2
  <2>4. SaveInv'
    <3>1. \A n \in Messages \ {m} : Saving(n)' => Saving(n) BY <2>2, WritersTyped
    <3>2. \A n \in Messages \ {m} : stage[n] = "saving" => stage'[n] = "saving" BY <2>3 DEF Before
    <3>3. ~Saving(m)' BY <1>1, <2>2
    <3>4. ~stopped' => ~Saving(Stopper)' BY <1>1, <2>1, <2>2, WritersTyped DEF SaveInv
    <3>5. \A e \in runs : e.step = "saving" /\ First(e) # m => e \in runs' BY <2>3
    <3>6. QED BY <3>1, <3>2, <3>3, <3>4, <3>5, SaveGoesOn
  <2>5. CurrentInv'
    <3>1. Owed => Owed' BY <2>1, <2>3, OwedGoesOn DEF Before
    <3>2. QED BY <1>1, <2>2, <3>1 DEF CurrentInv
  <2>6. QED BY <2>2, <2>3, <2>4, <2>5 DEF PipeInv
<1>7. QED BY <1>3, <1>4, <1>5, <1>6

\* A run goes on without saving; if it owed a save, it still does, or that is lost.
LEMMA QuietAdvance ==
    ASSUME PipeInv, NEW d \in runs, NEW e \in Run, e.s = d.s, e.batch = d.batch, Advance(d, e),
           UNCHANGED <<config, places, route, stopped, enqueued, disk, tmp, save, overlapped>>,
           version' \in {version, version + 1}, faulty' \in BOOLEAN, faulty => faulty',
           d.step # "saving",
           version' # version => e.named /\ e.step = "agent",
           ~faulty' /\ d.named /\ d.step = "agent" => e.named /\ e.step = "agent"
    PROVE  PipeInv' /\ (~overlapped' => disk'.v >= disk.v)
<1>1. /\ PipePart /\ StorePart /\ SaveInv /\ CurrentInv /\ disk.v \in Nat
  BY StoreTyped DEF PipeInv, StorePart, File
<1>2. runs' = (runs \ {d}) \cup {e} /\ UNCHANGED <<stage, disk, save, overlapped>> BY DEF Advance, places
<1>3. PipePart' /\ StorePart' BY <1>1, AdvanceKeeps, ChangeKeeps
<1>4. SaveInv'
  <2>1. \A o : Saving(o)' <=> Saving(o) BY <1>2 DEF Saving
  <2>2. \A f \in runs : f.step = "saving" => f \in runs' BY <1>2
  <2>3. PICK x : x \notin Messages BY WritersTyped
  <2>4. ~stopped' => ~Saving(Stopper)' BY <1>1, <2>1 DEF SaveInv
  <2>5. QED BY <1>2, <2>1, <2>2, <2>3, <2>4, SaveGoesOn
<1>5. CurrentInv'
  <2>1. SUFFICES ASSUME ~overlapped, ~faulty'
                 PROVE  version' = 0 \/ Fresh' \/ Owed'
    BY <1>2 DEF CurrentInv
  <2>2. CASE version' # version BY <1>2, <2>2 DEF Owed
  <2>3. CASE version' = version BY <1>1, <2>1, <1>2, <2>3 DEF CurrentInv, Fresh, Whole, Owed
  <2>4. QED BY <2>2, <2>3
<1>6. QED BY <1>1, <1>2, <1>3, <1>4, <1>5 DEF PipeInv

\* A dispatch that does not save and owes nothing ends.
LEMMA QuietFinish ==
    ASSUME PipeInv, NEW d, NEW what \in {"answered", "failed"}, Finish(d, what),
           d.step \notin {"saving", "agent"}, UNCHANGED storeVars
    PROVE  PipeInv' /\ (~overlapped' => disk'.v >= disk.v)
<1>1. PipePart /\ StorePart /\ SaveInv /\ CurrentInv BY DEF PipeInv
<1>2. /\ PipePart' /\ d \in runs /\ runs \ {d} \subseteq runs'
      /\ \A n \in Messages : stage[n] \in Before => stage'[n] = stage[n]
      /\ UNCHANGED <<config, route, stopped>>
  BY <1>1, FinishKeeps
<1>3. /\ StorePart' /\ (Fresh => Fresh') /\ (\A o : Saving(o)' <=> Saving(o))
      /\ disk'.v >= disk.v /\ UNCHANGED <<version, overlapped, faulty>>
  BY <1>1, StoreSame
<1>4. \A n \in Messages : /\ stage[n] = "saving" => stage'[n] = "saving"
                          /\ stage[n] = "logging" => stage'[n] = "logging"
  BY <1>2 DEF Before
<1>5. SaveInv'
  <2>1. \A f \in runs : f.step = "saving" => f \in runs' BY <1>2
  <2>2. PICK x : x \notin Messages BY WritersTyped
  <2>3. ~stopped' => ~Saving(Stopper)' BY <1>1, <1>2, <1>3 DEF SaveInv
  <2>4. QED BY <1>3, <1>4, <2>1, <2>2, <2>3, SaveGoesOn
<1>6. CurrentInv'
  <2>1. Owed => Owed' BY <1>2, <1>4, OwedGoesOn
  <2>2. QED BY <1>1, <1>3, <2>1 DEF CurrentInv
<1>7. QED BY <1>2, <1>3, <1>5, <1>6 DEF PipeInv

\* A run that goes on is a run, of the same session and batch.
RunSteps == {"starting", "agent", "saving", "logging", "replying", "erring"}

Onward(d, e) == e \in Run /\ e.s = d.s /\ e.batch = d.batch

LEMMA RunUpdates ==
    ASSUME NEW d \in Run
    PROVE  /\ \A step \in RunSteps : Onward(d, [d EXCEPT !.step = step])
           /\ \A step \in RunSteps, via \in Routes \cup {"none", "nowhere"} :
                 Onward(d, [d EXCEPT !.step = step, !.via = via])
           /\ \A b \in BOOLEAN : /\ Onward(d, [d EXCEPT !.step = "saving", !.text = b])
                                 /\ [d EXCEPT !.step = "saving", !.text = b].step = "saving"
           /\ Onward(d, [d EXCEPT !.named = TRUE])
           /\ [d EXCEPT !.named = TRUE].named /\ [d EXCEPT !.named = TRUE].step = d.step
  BY DEF Run, RunSteps, Onward

\* A dispatch's steps.
LEMMA RunStep ==
    ASSUME PipeInv, NEW d \in runs, DispatchStep(d)
    PROVE  PipeInv' /\ (~overlapped' => disk'.v >= disk.v)
<1>1. /\ PipePart /\ StorePart /\ SaveInv /\ CurrentInv /\ d \in Run
      /\ First(d) \in Messages /\ First(d) \in Writers /\ First(d) # Stopper
      /\ route \in [Sessions -> Routes \cup {"none"}] /\ d.s \in Sessions
      /\ version \in Nat /\ disk.v \in Nat /\ faulty \in BOOLEAN
  BY PipeTyped, StoreTyped, WritersTyped, FirstFacts DEF PipeInv, StorePart, PipePart, PipeTypes, File
<1>3. ASSUME NEW how \in {"sent", "refused", "throws"}, StreamerStarts(d, how)
      PROVE  PipeInv' /\ (~overlapped' => disk'.v >= disk.v)
  <2> DEFINE via == CASE how = "sent" -> route[d.s]
                      [] how = "refused" -> "nowhere"
                      [] how = "throws" -> "none"
             e == [d EXCEPT !.step = "agent", !.via = via]
  <2>1. via \in Routes \cup {"none", "nowhere"} BY <1>1, <1>3
  <2>2. d.step = "starting" /\ Advance(d, e) BY <1>3 DEF StreamerStarts
  <2>3. UNCHANGED <<storeVars, config, places, route, stopped, enqueued>> BY <1>3 DEF StreamerStarts
  <2> HIDE DEF via
  <2>4. e \in Run /\ e.s = d.s /\ e.batch = d.batch BY <1>1, <2>1, RunUpdates DEF RunSteps, Onward
  <2> HIDE DEF e
  <2>5. /\ UNCHANGED <<disk, tmp, save, overlapped, version, faulty>> BY <2>3 DEF storeVars
  <2>6. QED BY <1>1, <2>2, <2>3, <2>4, <2>5, QuietAdvance
<1>4. CASE AgentNames(d)
  <2> DEFINE e == [d EXCEPT !.named = TRUE]
  <2>1. e \in Run /\ e.s = d.s /\ e.batch = d.batch /\ e.named /\ e.step = d.step
    BY <1>1, RunUpdates DEF RunSteps, Onward
  <2>2. /\ d.step = "agent" /\ Advance(d, e) /\ version' = version + 1
        /\ UNCHANGED <<disk, tmp, save, overlapped, faulty, config, places, route, stopped,
                       enqueued>>
    BY <1>4 DEF AgentNames
  <2> HIDE DEF e
  <2>3. QED BY <1>1, <2>1, <2>2, QuietAdvance
<1>5. CASE AgentThrows(d)
  <2> DEFINE e == [d EXCEPT !.step = "erring"]
  <2>1. e \in Run /\ e.s = d.s /\ e.batch = d.batch BY <1>1, RunUpdates DEF RunSteps, Onward
  <2>2. /\ d.step = "agent" /\ Advance(d, e) /\ faulty' = (faulty \/ d.named)
        /\ UNCHANGED <<version, disk, tmp, save, overlapped, config, places, route, stopped,
                       enqueued>>
    BY <1>5 DEF AgentThrows, Fails
  <2>3. d.named \in BOOLEAN BY <1>1 DEF Run
  <2> HIDE DEF e
  <2>4. faulty' \in BOOLEAN /\ (faulty => faulty') /\ (d.named => faulty') BY <1>1, <2>2, <2>3
  <2>5. QED BY <1>1, <2>1, <2>2, <2>4, QuietAdvance
<1>6. ASSUME NEW ok \in BOOLEAN, ReplyLogged(d, ok)
      PROVE  PipeInv' /\ (~overlapped' => disk'.v >= disk.v)
  <2> DEFINE via == IF d.via = "none" THEN route[d.s] ELSE d.via
             e == IF ok THEN [d EXCEPT !.step = "replying", !.via = via]
                  ELSE [d EXCEPT !.step = "erring"]
  <2>1. via \in Routes \cup {"none", "nowhere"} BY <1>1 DEF Run
  <2>2. d.step = "logging" /\ Advance(d, e) /\ faulty' = (faulty \/ ~ok) BY <1>6 DEF ReplyLogged, Fails
  <2>3. UNCHANGED <<version, disk, tmp, save, overlapped, config, places, route, stopped, enqueued>>
    BY <1>6 DEF ReplyLogged
  <2> HIDE DEF via
  <2>4. e \in Run /\ e.s = d.s /\ e.batch = d.batch BY <1>1, <2>1, RunUpdates DEF RunSteps, Onward
  <2> HIDE DEF e
  <2>5. faulty' \in BOOLEAN /\ (faulty => faulty') BY <1>1, <2>2
  <2>6. QED BY <1>1, <2>2, <2>3, <2>4, <2>5, QuietAdvance
<1>7. CASE ReplyThrows(d)
  <2> DEFINE e == [d EXCEPT !.step = "erring"]
  <2>1. e \in Run /\ e.s = d.s /\ e.batch = d.batch BY <1>1, RunUpdates DEF RunSteps, Onward
  <2>2. /\ d.step = "replying" /\ Advance(d, e)
        /\ UNCHANGED <<storeVars, config, places, route, stopped, enqueued>>
    BY <1>7 DEF ReplyThrows, Fails
  <2> HIDE DEF e
  <2>3. UNCHANGED <<disk, tmp, save, overlapped, version, faulty>> BY <2>2 DEF storeVars
  <2>4. QED BY <1>1, <2>1, <2>2, <2>3, QuietAdvance
<1>8. CASE ReplySent(d) BY <1>8, QuietFinish DEF ReplySent
<1>9. CASE ErrorTold(d) BY <1>9, QuietFinish DEF ErrorTold
<1>10. ASSUME NEW text \in BOOLEAN, AgentEnds(d, text)
       PROVE  PipeInv' /\ (~overlapped' => disk'.v >= disk.v)
  <2> DEFINE e == [d EXCEPT !.step = "saving", !.text = text]
  <2>1. e \in Run /\ e.s = d.s /\ e.batch = d.batch /\ e.step = "saving"
    BY <1>1, RunUpdates DEF RunSteps, Onward
  <2>2. d.step = "agent" /\ Advance(d, e) BY <1>10 DEF AgentEnds
  <2>3. /\ version' = version + 1 /\ Persist(First(d))
        /\ UNCHANGED <<disk, tmp, faulty, config, places, route, stopped, enqueued>>
    BY <1>10 DEF AgentEnds
  <2> HIDE DEF e
  <2>4. PipePart' BY <1>1, <2>1, <2>2, <2>3, AdvanceKeeps
  <2>5. ~Saving(First(d)) BY <2>2, NotSaving
  <2>6. /\ StorePart' /\ (~overlapped' => Fresh')
        /\ \A o \in Writers : Saving(o)' <=> Saving(o) \/ o = First(d)
    BY <1>1, <2>3, <2>5, PersistKeeps
  <2>7. SaveInv'
    <3>1. \A n \in Messages \ {First(d)} : Saving(n)' => Saving(n) BY <2>6, WritersTyped
    <3>2. runs' = (runs \ {d}) \cup {e} /\ stage' = stage BY <2>2, <2>3 DEF Advance, places
    <3>3. \A f \in runs : f.step = "saving" => f \in runs' BY <2>2, <3>2
    <3>4. e \in runs' /\ e.step = "saving" /\ First(e) = First(d) BY <2>1, <3>2 DEF First
    <3>5. ~stopped' => ~Saving(Stopper)' BY <1>1, <2>3, <2>6, WritersTyped DEF SaveInv
    <3>6. QED BY <3>1, <3>2, <3>3, <3>4, <3>5, SaveGoesOn
  <2>8. CurrentInv' BY <2>6 DEF CurrentInv
  <2>9. QED BY <1>1, <2>3, <2>4, <2>6, <2>7, <2>8 DEF PipeInv
<1>11. CASE RunSaved(d)
  <2> DEFINE w == First(d)
  <2>1. d.step = "saving" /\ (Rename(w) \/ IoError(w)) BY <1>11 DEF RunSaved
  <2>2. /\ StorePart' /\ (~overlapped /\ ~faulty' /\ Fresh => Fresh')
        /\ save'[w].step \in {"saved", "failed"}
        /\ \A o \in Writers : Saving(o)' <=> Saving(o) /\ o # w
        /\ ~overlapped => disk'.v >= disk.v
        /\ (faulty => faulty') /\ UNCHANGED <<version, overlapped>>
    BY <1>1, <2>1, SettleKeeps
  <2>3. d.text \in BOOLEAN BY <1>1 DEF Run
  <2>4. /\ PipePart' /\ runs \ {d} \subseteq runs' /\ UNCHANGED <<config, route, stopped>>
        /\ \A n \in Messages : stage[n] \in Before => stage'[n] = stage[n]
    <3>1. ASSUME NEW step \in {"erring", "logging"}, Advance(d, [d EXCEPT !.step = step]),
                 UNCHANGED <<config, places, route, stopped, enqueued>>
          PROVE  /\ PipePart' /\ runs \ {d} \subseteq runs' /\ UNCHANGED <<config, route, stopped>>
                 /\ \A n \in Messages : stage[n] \in Before => stage'[n] = stage[n]
      <4> DEFINE e == [d EXCEPT !.step = step]
      <4>0. step \in RunSteps BY DEF RunSteps
      <4>1. e \in Run /\ e.s = d.s /\ e.batch = d.batch BY <1>1, <4>0, RunUpdates DEF Onward
      <4>2. Advance(d, e) BY <3>1
      <4> HIDE DEF e
      <4>3. PipePart' BY <1>1, <3>1, <4>1, <4>2, AdvanceKeeps
      <4>4. QED BY <3>1, <4>2, <4>3 DEF Advance, places
    <3>2. CASE save'[w].step = "failed" BY <1>11, <3>2, <3>1 DEF RunSaved, Fails
    <3>3. CASE save'[w].step = "saved" /\ d.text BY <1>11, <3>3, <3>1 DEF RunSaved
    <3>4. CASE save'[w].step = "saved" /\ ~d.text BY <1>11, <3>4, <1>1, FinishKeeps DEF RunSaved
    <3>5. QED BY <2>2, <2>3, <3>2, <3>3, <3>4
  <2>5. SaveInv'
    <3>1. \A n \in Messages \ {w} : Saving(n)' => Saving(n) BY <2>2, WritersTyped
    <3>2. \A n \in Messages \ {w} : stage[n] = "saving" => stage'[n] = "saving" BY <2>4 DEF Before
    <3>3. \A f \in runs : f.step = "saving" /\ First(f) # w => f \in runs' BY <2>4
    <3>4. ~Saving(w)' BY <1>1, <2>2
    <3>5. ~stopped' => ~Saving(Stopper)' BY <1>1, <2>2, <2>4, WritersTyped DEF SaveInv
    <3>6. QED BY <3>1, <3>2, <3>3, <3>4, <3>5, SaveGoesOn
  <2>6. CurrentInv'
    <3>1. Owed => Owed' BY <2>4, <2>1, OwedGoesOn DEF Before
    <3>2. QED BY <1>1, <2>2, <3>1 DEF CurrentInv
  <2>7. QED BY <2>2, <2>4, <2>5, <2>6 DEF PipeInv
<1>12. QED BY <1>3, <1>4, <1>5, <1>6, <1>7, <1>8, <1>9, <1>10, <1>11 DEF DispatchStep

\* What a step outside the messages and the dispatches does to the calls of persist().
LEMMA OtherSaves ==
    ASSUME PipeInv, NEW w, w \notin Messages,
           \A o \in Writers \ {w} : Saving(o)' <=> Saving(o),
           \A n \in Messages : stage[n] \in Before => stage'[n] = stage[n],
           UNCHANGED runs, ~stopped' => ~Saving(Stopper)'
    PROVE  SaveInv' /\ (Owed => Owed')
<1>1. \A n \in Messages \ {w} : Saving(n)' => Saving(n) BY WritersTyped
<1>2. \A n \in Messages : /\ stage[n] = "saving" => stage'[n] = "saving"
                          /\ stage[n] = "logging" => stage'[n] = "logging"
  BY DEF Before
<1>3. SaveInv' BY <1>1, <1>2, SaveGoesOn
<1>4. QED BY <1>2, <1>3, OwedGoesOn

\* stop(), resets, a new configuration, and the files.
LEMMA OtherStep ==
    ASSUME PipeInv,
           \/ \E w \in Writers : FileStep(w)
           \/ \E w \in Resets : Reset(w) \/ ResetSaved(w)
           \/ \E c \in Configs : PatchConfig(c)
           \/ Stop \/ StopSaved
    PROVE  PipeInv' /\ (~overlapped' => disk'.v >= disk.v)
<1>1. /\ PipePart /\ StorePart /\ SaveInv /\ CurrentInv /\ config \in Configs
      /\ version \in Nat /\ disk.v \in Nat /\ faulty \in BOOLEAN /\ stopped \in BOOLEAN
      /\ stage \in [Messages -> Stages]
  BY PipeTyped, StoreTyped DEF PipeInv, StorePart, File
<1>2. ASSUME NEW w \in Writers, FileStep(w)
      PROVE  PipeInv' /\ (~overlapped' => disk'.v >= disk.v)
  <2>1. /\ Snapshot(w) \/ Open(w) \/ Write(w)
        /\ UNCHANGED <<config, places, route, runs, stopped, enqueued>> /\ UNCHANGED stage
    BY <1>2 DEF FileStep, pipeVars, places, enqueued
  <2>2. /\ StorePart' /\ (~overlapped /\ Fresh => Fresh')
        /\ \A o \in Writers : Saving(o)' <=> Saving(o)
        /\ ~overlapped => disk' = disk
        /\ UNCHANGED <<version, overlapped, faulty>>
    BY <1>1, <2>1, FileStepKeeps
  <2>3. PipePart' BY <1>1, <2>1, SameKeeps
  <2>4. SaveInv' /\ (Owed => Owed')
    <3>1. ~stopped' => ~Saving(Stopper)' BY <1>1, <2>1, <2>2, WritersTyped DEF SaveInv
    <3>2. PICK x : x \notin Messages BY WritersTyped
    <3>3. QED BY <2>1, <2>2, <3>1, <3>2, OtherSaves
  <2>5. CurrentInv' BY <1>1, <2>2, <2>4 DEF CurrentInv
  <2>6. QED BY <1>1, <2>2, <2>3, <2>4, <2>5 DEF PipeInv
<1>3. ASSUME NEW w \in Writers, w \notin Messages, Rename(w) \/ IoError(w), UNCHANGED pipeVars
      PROVE  PipeInv' /\ (~overlapped' => disk'.v >= disk.v)
  <2>1. UNCHANGED <<config, places, route, runs, stopped, enqueued>> /\ UNCHANGED stage
    BY <1>3 DEF pipeVars, places, enqueued
  <2>2. /\ StorePart' /\ (~overlapped /\ ~faulty' /\ Fresh => Fresh')
        /\ \A o \in Writers : Saving(o)' <=> Saving(o) /\ o # w
        /\ ~overlapped => disk'.v >= disk.v
        /\ (faulty => faulty') /\ UNCHANGED <<version, overlapped>>
    BY <1>1, <1>3, SettleKeeps
  <2>3. PipePart' BY <1>1, <2>1, SameKeeps
  <2>4. SaveInv' /\ (Owed => Owed') BY <1>1, <2>1, <2>2, WritersTyped, <1>3, OtherSaves DEF SaveInv
  <2>5. CurrentInv' BY <1>1, <2>2, <2>4 DEF CurrentInv
  <2>6. QED BY <2>2, <2>3, <2>4, <2>5 DEF PipeInv
<1>4. ASSUME NEW w \in Resets, Reset(w)
      PROVE  PipeInv' /\ (~overlapped' => disk'.v >= disk.v)
  <2>1. /\ save[w] = NoSave /\ ~stopped /\ version' = version + 1 /\ Persist(w)
        /\ UNCHANGED <<disk, tmp, faulty, config, places, route, runs, stopped, enqueued, stage>>
    BY <1>4 DEF Reset, pipeVars, places, enqueued
  <2>2. ~Saving(w) BY <2>1 DEF Saving, NoSave
  <2>3. /\ StorePart' /\ (~overlapped' => Fresh')
        /\ \A o \in Writers : Saving(o)' <=> Saving(o) \/ o = w
    BY <1>1, <2>1, WritersTyped, <2>2, PersistKeeps
  <2>4. PipePart' BY <1>1, <2>1, SameKeeps
  <2>5. SaveInv' BY <1>1, <2>1, <2>3, WritersTyped, OtherSaves DEF SaveInv
  <2>6. CurrentInv' BY <2>3 DEF CurrentInv
  <2>7. QED BY <1>1, <2>1, <2>3, <2>4, <2>5, <2>6 DEF PipeInv
<1>5. ASSUME NEW c \in Configs, PatchConfig(c)
      PROVE  PipeInv' /\ (~overlapped' => disk'.v >= disk.v)
  <2>1. /\ config' \in Configs /\ UNCHANGED storeVars
        /\ UNCHANGED <<places, route, runs, stopped, enqueued, stage>>
    BY <1>5 DEF PatchConfig, places
  <2>2. /\ StorePart' /\ (Fresh => Fresh') /\ (\A o : Saving(o)' <=> Saving(o))
        /\ disk'.v >= disk.v /\ UNCHANGED <<version, overlapped, faulty>>
    BY <1>1, <2>1, StoreSame
  <2>3. PipePart' BY <1>1, <2>1, SameKeeps
  <2>4. SaveInv' /\ (Owed => Owed')
    <3>1. ~stopped' => ~Saving(Stopper)' BY <1>1, <2>1, <2>2 DEF SaveInv
    <3>2. PICK x : x \notin Messages BY WritersTyped
    <3>3. QED BY <2>1, <2>2, <3>1, <3>2, OtherSaves
  <2>5. CurrentInv' BY <1>1, <2>2, <2>4 DEF CurrentInv
  <2>6. QED BY <2>2, <2>3, <2>4, <2>5 DEF PipeInv
<1>6. CASE Stop
  <2>1. /\ ~stopped /\ stopped' = TRUE /\ Persist(Stopper) /\ UNCHANGED <<version, disk, tmp, faulty, runs>>
        /\ Mark({m \in Messages : stage[m] = "queued"}, "dropped")
    BY <1>6 DEF Stop
  <2>2. ~Saving(Stopper) BY <1>1, <2>1 DEF SaveInv
  <2>3. /\ StorePart' /\ (~overlapped' => Fresh')
        /\ \A o \in Writers : Saving(o)' <=> Saving(o) \/ o = Stopper
    BY <1>1, <2>1, <2>2, WritersTyped, PersistKeeps
  <2>4. PipePart' BY <1>1, <1>6, StopKeeps
  <2>5. SaveInv' BY <1>1, <2>1, <2>3, WritersTyped, OtherSaves DEF Mark, Marked, Before
  <2>6. CurrentInv' BY <2>3 DEF CurrentInv
  <2>7. QED BY <1>1, <2>1, <2>3, <2>4, <2>5, <2>6 DEF PipeInv
<1>7. CASE StopSaved BY <1>3, <1>7, WritersTyped DEF StopSaved
<1>8. ASSUME NEW w \in Resets, ResetSaved(w)
      PROVE  PipeInv' /\ (~overlapped' => disk'.v >= disk.v)
  BY <1>3, <1>8, WritersTyped DEF ResetSaved
<1>9. QED BY <1>2, <1>4, <1>5, <1>6, <1>7, <1>8

LEMMA PipeInit ==
    ASSUME PipelineInit
    PROVE  PipeInv
<1>1. /\ StoreInit /\ config \in Configs
      /\ stage = [m \in Messages |-> "new"] /\ route = [s \in Sessions |-> "none"]
      /\ queue = [s \in Sessions |-> << >>] /\ running = [s \in Sessions |-> FALSE]
      /\ runs = {} /\ stopped = FALSE
      /\ ticket = [m \in Messages |-> 0] /\ tickets = 0 /\ ran = << >>
  BY DEF PipelineInit
<1>2. In(<< >>) = {} /\ DOMAIN << >> = {} /\ << >> \in Seq(Messages) BY DEF In
<1>3. PipeTypes BY <1>1, <1>2 DEF Stages, PipeTypes
<1>4. QueueHolds /\ OneRunPerSession /\ BatchInv /\ AttendedInv
  BY <1>1, <1>2 DEF QueueHolds, OneRunPerSession, BatchInv, AttendedInv, RunsOf
<1>5. TicketInv /\ OrderInv /\ NewestSurvives
  BY <1>1, <1>2 DEF TicketInv, OrderInv, RunInOrder, InTurn, NewestSurvives
<1>6. /\ version = 0 /\ disk = NoFile /\ tmp = NoFile /\ save = [w \in Writers |-> NoSave]
      /\ overlapped = FALSE /\ faulty = FALSE
  BY <1>1 DEF StoreInit
<1>7. \A w \in Writers : save[w].step = "none" /\ ~Saving(w) BY <1>6 DEF NoSave, Saving
<1>8. StoreTypeOK BY <1>6, FilesTyped DEF StoreTypeOK, Save, SaveSteps, SaveFiles
<1>9. FileInv BY <1>6, <1>7 DEF FileInv, Loads, NoFile
<1>10. SaveInv /\ CurrentInv BY <1>6, <1>7, WritersTyped DEF SaveInv, CurrentInv
<1>11. QED BY <1>3, <1>4, <1>5, <1>8, <1>9, <1>10 DEF PipeInv, PipePart, StorePart

LEMMA PipeStep ==
    ASSUME PipeInv, [Next]_vars
    PROVE  PipeInv' /\ [~overlapped' => disk'.v >= disk.v]_storeVars
<1>1. CASE Next BY <1>1, MessageStep, RunStep, OtherStep DEF Next
<1>2. CASE UNCHANGED vars
  <2>1. /\ UNCHANGED storeVars /\ config' = config
        /\ UNCHANGED <<places, route, runs, stopped, enqueued, stage>>
    BY <1>2 DEF vars, pipeVars, places, enqueued
  <2>2. PipePart /\ StorePart /\ SaveInv /\ CurrentInv /\ config \in Configs BY PipeTyped DEF PipeInv
  <2>3. PipePart' BY <2>1, <2>2, SameKeeps
  <2>4. /\ StorePart' /\ (Fresh => Fresh') /\ (\A o : Saving(o)' <=> Saving(o))
        /\ UNCHANGED <<version, overlapped, faulty>>
    BY <2>1, <2>2, StoreSame
  <2>5. SaveInv' /\ (Owed => Owed')
    <3>1. ~stopped' => ~Saving(Stopper)' BY <2>1, <2>2, <2>4 DEF SaveInv
    <3>2. PICK x : x \notin Messages BY WritersTyped
    <3>3. QED BY <2>1, <2>4, <3>1, <3>2, OtherSaves
  <2>6. CurrentInv' BY <2>2, <2>4, <2>5 DEF CurrentInv
  <2>7. QED BY <2>1, <2>3, <2>4, <2>5, <2>6 DEF PipeInv
<1>3. QED BY <1>1, <1>2

-----------------------------------------------------------------------------
(* What follows.                                                           *)

LEMMA PipeAlways == Spec => []PipeInv
<1>1. PipelineInit => PipeInv BY PipeInit
<1>2. PipeInv /\ [Next]_vars => PipeInv' BY PipeStep
<1>3. QED BY <1>1, <1>2, PTL DEF Spec

\* Until stop() forgets the flags, each session's agent works on one batch at a time and the
\* running flag says so (gateway.ts 174-355), however messages, runs, resets and patches of
\* the configuration are interleaved.
THEOREM OneRunAtATime == Spec => []OneRunPerSession
<1>1. PipeInv => OneRunPerSession BY DEF PipeInv, PipePart
<1>2. QED BY <1>1, PipeAlways, PTL

\* Every session's messages reach its agent in the order in which they were enqueued, and
\* the newest of a session is never the one that the bound or a replacing mode drops
\* (message-queue.ts 34-120).
THEOREM TheQueueIsFair == Spec => []QueueIsFair
<1>1. PipeInv => QueueIsFair BY DEF PipeInv, PipePart, OrderInv, QueueIsFair
<1>2. QED BY <1>1, PipeAlways, PTL

\* At rest nothing is owed and nobody saves, so the file is what memory is.
LEMMA InvIsCurrent ==
    ASSUME PipeInv
    PROVE  CrashSafe /\ DiskCurrent
<1>1. CrashSafe BY DEF PipeInv, StorePart, FileInv, CrashSafe
<1>2. ASSUME ~overlapped, ~faulty, version > 0,
             \A m \in Messages : stage[m] \in {"new"} \cup Ended, \A w \in Writers : ~Saving(w)
      PROVE  disk = Whole(version)
  <2>1. version = 0 \/ Fresh \/ Owed BY <1>2 DEF PipeInv, CurrentInv
  <2>2. version # 0 BY StoreTyped, <1>2 DEF PipeInv, StorePart
  <2>3. ~Owed BY <1>2, FirstFacts DEF Ended, PipeInv, Owed
  <2>4. QED BY <1>2, <2>1, <2>2, <2>3 DEF Fresh, Saving
<1>3. DiskCurrent BY <1>2 DEF DiskCurrent
<1>4. QED BY <1>1, <1>3

\* As long as no two saves overlap, the session file loads whenever the gateway is killed,
\* never goes back to older sessions, and holds what memory holds whenever the pipeline is
\* at rest and nothing failed (store.ts 43-53).
THEOREM TheFileIsDurable == Spec => Durable
<1>1. PipeInv => CrashSafe /\ DiskCurrent BY InvIsCurrent
<1>2. PipeInv /\ [Next]_vars => [~overlapped' => disk'.v >= disk.v]_storeVars BY PipeStep
<1>3. Spec => [](CrashSafe /\ DiskCurrent) BY <1>1, PipeAlways, PTL
<1>4. Spec => SavesAdvance BY <1>2, PipeAlways, PTL DEF Spec, SavesAdvance
<1>5. QED BY <1>3, <1>4 DEF Durable

-----------------------------------------------------------------------------
(* CodexSubagents: the invariant                                           *)

\* The lines about children, and what thread/read answers.
Kinds == {"thread", "spawn", "activity", "turn", "end", "wait", "interacted", "interrupted", "close", "sent"}
States == Statuses \cup {"running", "failed"}
PollerTypes == [of : Children, generation : Nat, at : {"due", "asked", "answered", "waiting"}]
LineTypes == [kind : Kinds, of : Children, state : States, turn : Nat]
             \cup [kind : {"read"}, of : Children, state : States, turn : Nat, poller : PollerTypes]

TaskTypes == [known : BOOLEAN, terminal : BOOLEAN, generation : Nat, active : Nat]

ServerTypes ==
    /\ threads \in [Children -> [made : BOOLEAN, announced : BOOLEAN, failed : BOOLEAN,
                                 turns : Seq(Statuses \cup {"running"})]]
    /\ persisted \in [Children -> Seq(Statuses \cup {"running"})]
    /\ lines \in Seq(LineTypes)

SessionTypes ==
    /\ tasks \in [Children -> TaskTypes]
    /\ reported \in [Children -> Seq(Nat)]
    /\ pollers \subseteq PollerTypes
    /\ ended \in BOOLEAN /\ overtaken \subseteq Children

IsTurn(i, c) == lines[i].kind = "turn" /\ lines[i].of = c

\* A line that says that a child is over, or its turn.
SaysOver(l) == l.kind \in {"end", "close", "interrupted"} \/ (l.kind \in {"spawn", "wait"} /\ l.state # "running")

\* A child that failed never had a turn; thread/read tells no more turns than there were,
\* and of none that it is over while it runs.
ThreadsInv ==
    \A c \in Children :
        /\ Latest(c) <= MaxTurns
        /\ threads[c].failed => threads[c].turns = << >>
        /\ Len(persisted[c]) <= Latest(c)
        /\ \A n \in 1..Len(persisted[c]) : persisted[c][n] # "running" => threads[c].turns[n] # "running"

\* A line tells the turn that was the latest; the turns begun since are announced behind it.
LinesInv ==
    \A i \in DOMAIN lines : LET l == lines[i] c == lines[i].of IN
        /\ l.turn <= Latest(c)
        /\ \A j \in DOMAIN lines : j > i /\ IsTurn(j, c) => l.turn < lines[j].turn
        /\ l.kind # "read" /\ l.turn # Latest(c) =>
               \E j \in DOMAIN lines : j > i /\ IsTurn(j, c) /\ lines[j].turn = l.turn + 1
        /\ l.kind = "turn" => l.turn > 0
        /\ SaysOver(l) => ~Running(c) \/ \E j \in DOMAIN lines : j > i /\ IsTurn(j, c)

\* What thread/read told to be over is over.
ReadIsTrue(l) ==
    l.kind = "read" /\ l.state # "running" =>
        /\ l.turn = 0 => threads[l.of].failed
        /\ l.turn > 0 => threads[l.of].turns[l.turn] # "running"

ReadsInv == \A i \in DOMAIN lines : ReadIsTrue(lines[i])

\* A line that makes a child known, before the n-th.
Introduced(c, n) == \E i \in DOMAIN lines : i < n /\ lines[i].of = c /\ lines[i].kind \in {"spawn", "activity"}

\* The session knows of a child before it hears of its second turn.
KnownInv ==
    ~ended => \A c \in Children :
        /\ threads[c].announced => tasks[c].known \/ Introduced(c, Len(lines) + 1)
        /\ \A j \in DOMAIN lines : IsTurn(j, c) /\ lines[j].turn > 1 => tasks[c].known \/ Introduced(c, j)
        /\ tasks[c].terminal => tasks[c].known

\* The start of turn k has been heard, and of none after it.
HasHeard(c, k) ==
    /\ k <= Latest(c)
    /\ \A j \in DOMAIN lines : IsTurn(j, c) => lines[j].turn > k
    /\ k # Latest(c) => \E j \in DOMAIN lines : IsTurn(j, c) /\ lines[j].turn = k + 1

\* No turn runs but one that was not heard of.
Quiet(c) == ~Running(c) \/ Unheard(c)

\* The record of a child whose turn k is the last that was heard of, and what was reported
\* of it: while it is not ended its present turn is not reported, and one that no turn is
\* known of never ended.
Sound(task, reports, k, quiet) ==
    /\ Rising(reports)
    /\ \A i \in DOMAIN reports : reports[i] <= k
    /\ ~task.terminal =>
           /\ \A i \in DOMAIN reports : reports[i] < k
           /\ task.active = NoTurn => reports = << >> /\ k <= 1
           /\ task.active \notin {NoTurn, RootTurn} => task.active = k
    /\ task.terminal => quiet
    /\ ~task.known => task.active = NoTurn /\ reports = << >>

TasksInv ==
    ~ended => \A c \in Children \ overtaken : \A k \in Nat :
        HasHeard(c, k) => Sound(tasks[c], reported[c], k, Quiet(c))

SubagentsInv == ServerTypes /\ SessionTypes /\ ThreadsInv /\ LinesInv /\ ReadsInv /\ KnownInv /\ TasksInv

-----------------------------------------------------------------------------
(* Lemmas                                                                  *)

\* What a line has.
LEMMA LineFields ==
    ASSUME NEW l \in LineTypes
    PROVE  /\ l.kind \in Kinds \cup {"read"} /\ l.of \in Children /\ l.state \in States /\ l.turn \in Nat
           /\ l.kind = "read" => l.poller \in PollerTypes
BY DEF LineTypes, Kinds

\* The line behind all others.
LEMMA LineAppended ==
    ASSUME lines \in Seq(LineTypes), NEW l \in LineTypes, lines' = Append(lines, l)
    PROVE  /\ lines' \in Seq(LineTypes) /\ Len(lines') = Len(lines) + 1 /\ Len(lines) \in Nat
           /\ DOMAIN lines' = 1..(Len(lines) + 1) /\ DOMAIN lines = 1..Len(lines)
           /\ \A i \in DOMAIN lines : lines'[i] = lines[i]
           /\ lines'[Len(lines) + 1] = l
OBVIOUS

\* The first line is read: the others move up.
LEMMA LineRead ==
    ASSUME lines \in Seq(LineTypes), lines # << >>, lines' = Tail(lines)
    PROVE  /\ lines' \in Seq(LineTypes) /\ Len(lines') = Len(lines) - 1 /\ Len(lines) \in Nat \ {0}
           /\ DOMAIN lines' = 1..(Len(lines) - 1) /\ DOMAIN lines = 1..Len(lines)
           /\ \A i \in DOMAIN lines' : lines'[i] = lines[i + 1] /\ i + 1 \in DOMAIN lines
           /\ Head(lines) = lines[1] /\ lines[1] \in LineTypes
OBVIOUS

\* The turn heard of last is one.
LEMMA HeardOnce ==
    ASSUME ServerTypes, NEW c \in Children, NEW k \in Nat, NEW n \in Nat, HasHeard(c, k), HasHeard(c, n)
    PROVE  k = n
<1>1. Latest(c) \in Nat BY DEF ServerTypes, Latest
<1>2. \A j \in DOMAIN lines : lines[j].turn \in Nat BY LineFields DEF ServerTypes
<1>3. ~(k < n) BY <1>1, <1>2 DEF HasHeard
<1>4. ~(n < k) BY <1>1, <1>2 DEF HasHeard
<1> QED BY <1>3, <1>4

\* So it is after a step.
LEMMA HeardOnceNext ==
    ASSUME ServerTypes', NEW c \in Children, NEW k \in Nat, NEW n \in Nat, HasHeard(c, k)', HasHeard(c, n)'
    PROVE  k = n
<1>1. Latest(c)' \in Nat BY DEF ServerTypes, Latest
<1>2. \A j \in DOMAIN lines' : lines'[j].turn \in Nat BY LineFields DEF ServerTypes
<1>3. ~(k < n) BY <1>1, <1>2 DEF HasHeard
<1>4. ~(n < k) BY <1>1, <1>2 DEF HasHeard
<1> QED BY <1>3, <1>4

\* An edge is observed: what is known stays sound if the edge is about the turn heard of
\* last, and ends the child only when it is over.
EdgeTypes == [phase : {"started", "progress", "completed"}, turn : Nat, of : Nat]
Records == [task : TaskTypes, reports : Seq(Nat), polls : BOOLEAN]

LEMMA ObservedTypes ==
    ASSUME NEW s \in Records, NEW edge \in EdgeTypes
    PROVE  /\ Observed(s, edge) \in Records
           /\ s.task.known => Observed(s, edge).task.known
           /\ (s.task.terminal => s.task.known) =>
                  Observed(s, edge).task.known
<1>1. CASE s.task.terminal \/ (s.task.known /\ edge.phase = "started") BY <1>1 DEF Observed, Records
<1>2. CASE ~(s.task.terminal \/ (s.task.known /\ edge.phase = "started"))
  <2>1. /\ s.task \in TaskTypes /\ s.reports \in Seq(Nat) /\ s.polls \in BOOLEAN
        /\ edge.phase \in {"started", "progress", "completed"} /\ edge.turn \in Nat /\ edge.of \in Nat
    BY DEF Records, EdgeTypes
  <2>2. CASE edge.phase = "completed"
    <3> DEFINE new == [s.task EXCEPT !.known = TRUE, !.terminal = TRUE, !.active = NoTurn]
    <3>1. Append(s.reports, edge.of) \in Seq(Nat) BY <2>1
    <3>2. Observed(s, edge) = [task |-> new, reports |-> Append(s.reports, edge.of), polls |-> s.polls]
      BY <1>2, <2>1, <2>2 DEF Observed, TaskTypes
    <3>3. new \in TaskTypes /\ new.known BY <2>1 DEF TaskTypes, NoTurn
    <3> HIDE DEF new
    <3> QED BY <2>1, <3>1, <3>2, <3>3 DEF Records
  <2>3. CASE edge.phase # "completed" BY <1>2, <2>1, <2>3 DEF Observed, Records, TaskTypes, NoTurn
  <2> QED BY <2>2, <2>3
<1> QED BY <1>1, <1>2

LEMMA ObservedSound ==
    ASSUME NEW s \in Records, NEW edge \in EdgeTypes, NEW k \in Nat, NEW quiet \in BOOLEAN,
           Sound(s.task, s.reports, k, quiet),
           edge.of = k, edge.phase = "completed" => quiet, edge.turn \in {NoTurn, RootTurn, k}
    PROVE  Sound(Observed(s, edge).task, Observed(s, edge).reports, k, quiet)
<1> DEFINE r == Observed(s, edge)
<1>1. CASE s.task.terminal \/ (s.task.known /\ edge.phase = "started") BY <1>1 DEF Observed
<1>2. CASE ~s.task.terminal /\ edge.phase = "completed"
  <2>1. /\ r.task.terminal /\ r.task.known /\ r.reports = Append(s.reports, k)
    BY <1>2 DEF Observed, Records, TaskTypes
  <2>2. /\ Rising(s.reports) /\ s.reports \in Seq(Nat) /\ \A i \in DOMAIN s.reports : s.reports[i] < k
    BY <1>2 DEF Sound, Records
  <2>3. /\ DOMAIN r.reports = 1..(Len(s.reports) + 1) /\ DOMAIN s.reports = 1..Len(s.reports)
        /\ Len(s.reports) \in Nat /\ r.reports[Len(s.reports) + 1] = k
        /\ \A i \in DOMAIN s.reports : r.reports[i] = s.reports[i] /\ s.reports[i] \in Nat
    BY <2>1, <2>2
  <2>4. Rising(r.reports)
    <3> SUFFICES ASSUME NEW i \in DOMAIN r.reports, NEW j \in DOMAIN r.reports, i < j
                 PROVE  r.reports[i] < r.reports[j]
      BY DEF Rising
    <3>1. CASE j \in DOMAIN s.reports
      <4>1. i \in DOMAIN s.reports BY <2>3, <3>1
      <4> QED BY <2>2, <2>3, <3>1, <4>1 DEF Rising
    <3>2. CASE j = Len(s.reports) + 1 BY <2>2, <2>3, <3>2
    <3> QED BY <2>3, <3>1, <3>2
  <2>5. \A i \in DOMAIN r.reports : r.reports[i] <= k BY <2>2, <2>3
  <2> QED BY <1>2, <2>1, <2>4, <2>5 DEF Sound
<1>3. CASE ~s.task.terminal /\ edge.phase # "completed" /\ ~(s.task.known /\ edge.phase = "started")
  BY <1>3 DEF Observed, Records, TaskTypes, Sound
<1> QED BY <1>1, <1>2, <1>3

-----------------------------------------------------------------------------
(* A step in which no turn begins and the session hears nothing            *)

\* A line that may be written tells the latest turn, or what thread/read tells.
Writable(l) ==
    /\ l \in LineTypes /\ l.kind # "turn" /\ l.turn <= Latest(l.of)
    /\ l.kind # "read" => l.turn = Latest(l.of)
    /\ ReadIsTrue(l)

LEMMA ServerStep ==
    ASSUME SubagentsInv, ServerTypes', SessionTypes', ThreadsInv',
           \/ UNCHANGED lines /\ \A c \in Children : (threads[c].announced)' => threads[c].announced
           \/ \E l \in LineTypes :
                 /\ lines' = Append(lines, l) /\ Writable(l) /\ (SaysOver(l) => ~Running(l.of)')
                 /\ \A c \in Children : (threads[c].announced)' =>
                       threads[c].announced \/ (l.of = c /\ l.kind \in {"spawn", "activity"}),
           \A c \in Children :
               /\ Latest(c)' = Latest(c) /\ (Running(c)' => Running(c))
               /\ threads[c].failed => threads'[c].failed
               /\ \A n \in 1..Latest(c) : threads[c].turns[n] # "running" => threads'[c].turns[n] # "running",
           UNCHANGED <<tasks, reported, ended, overtaken>>
    PROVE  SubagentsInv'
<1> USE DEF SubagentsInv
<1>1. \/ UNCHANGED lines
      \/ \E l \in LineTypes : lines' = Append(lines, l) /\ Writable(l) /\ (SaysOver(l) => ~Running(l.of)')
  OBVIOUS
<1>2. /\ lines \in Seq(LineTypes) /\ DOMAIN lines \subseteq DOMAIN lines' /\ DOMAIN lines = 1..Len(lines)
      /\ Len(lines) \in Nat /\ DOMAIN lines' = 1..Len(lines') /\ Len(lines') \in Nat /\ Len(lines) <= Len(lines')
      /\ \A i \in DOMAIN lines : lines'[i] = lines[i] /\ lines[i] \in LineTypes
      /\ \A i \in DOMAIN lines' \ DOMAIN lines :
             /\ i = Len(lines) + 1 /\ lines'[i] \in LineTypes /\ Writable(lines'[i])
             /\ SaysOver(lines'[i]) => \A c \in Children : c = lines'[i].of => ~Running(c)'
  BY <1>1, LineAppended DEF ServerTypes
<1>3. \A c \in Children : Latest(c) \in Nat BY DEF ServerTypes, Latest
<1>4. \A i \in DOMAIN lines', c \in Children : IsTurn(i, c)' <=> i \in DOMAIN lines /\ IsTurn(i, c)
  BY <1>2 DEF IsTurn, Writable
<1>5. LinesInv'
  <2>0. \A i \in DOMAIN lines' : lines'[i].of \in Children BY <1>2, LineFields
  <2> SUFFICES ASSUME NEW i \in DOMAIN lines', NEW c \in Children, c = lines'[i].of
               PROVE  /\ lines'[i].turn <= Latest(c)'
                      /\ \A j \in DOMAIN lines' : j > i /\ IsTurn(j, c)' => lines'[i].turn < lines'[j].turn
                      /\ lines'[i].kind # "read" /\ lines'[i].turn # Latest(c)' =>
                             \E j \in DOMAIN lines' : j > i /\ IsTurn(j, c)' /\ lines'[j].turn = lines'[i].turn + 1
                      /\ lines'[i].kind = "turn" => lines'[i].turn > 0
                      /\ SaysOver(lines[i])' => ~Running(c)' \/ \E j \in DOMAIN lines' : j > i /\ IsTurn(j, c)'
    BY <2>0 DEF LinesInv
  <2>1. CASE i \in DOMAIN lines
    <3>1. lines'[i] = lines[i] /\ c = lines[i].of BY <1>2, <2>1
    <3>2. /\ lines[i].turn <= Latest(c)
          /\ \A j \in DOMAIN lines : j > i /\ IsTurn(j, c) => lines[i].turn < lines[j].turn
          /\ lines[i].kind # "read" /\ lines[i].turn # Latest(c) =>
                 \E j \in DOMAIN lines : j > i /\ IsTurn(j, c) /\ lines[j].turn = lines[i].turn + 1
          /\ lines[i].kind = "turn" => lines[i].turn > 0
          /\ SaysOver(lines[i]) => ~Running(c) \/ \E j \in DOMAIN lines : j > i /\ IsTurn(j, c)
      BY <2>1, <3>1 DEF LinesInv
    <3>3. SaysOver(lines[i])' <=> SaysOver(lines[i]) BY <3>1 DEF SaysOver
    <3> QED BY <1>2, <1>4, <3>1, <3>2, <3>3
  <2>2. CASE i \notin DOMAIN lines
    <3>1. i = Len(lines) + 1 /\ Writable(lines'[i]) BY <1>2, <2>2
    <3>2. ~\E j \in DOMAIN lines' : j > i /\ IsTurn(j, c)'
      <4> SUFFICES ASSUME NEW j \in DOMAIN lines', j > i, IsTurn(j, c)'
                   PROVE  FALSE
        OBVIOUS
      <4>1. j \in DOMAIN lines BY <1>4
      <4>2. j \in 1..Len(lines) /\ Len(lines) \in Nat BY <1>2, <4>1
      <4> QED BY <3>1, <4>2
    <3>3. /\ lines'[i].kind # "turn" /\ lines'[i].turn <= Latest(c)
          /\ lines'[i].kind # "read" => lines'[i].turn = Latest(c)
      BY <3>1 DEF Writable
    <3>4. SaysOver(lines[i])' => ~Running(c)' BY <1>2, <2>2 DEF SaysOver
    <3> QED BY <3>2, <3>3, <3>4
  <2> QED BY <2>1, <2>2
<1>6. ReadsInv'
  <2> SUFFICES ASSUME NEW i \in DOMAIN lines', lines'[i].kind = "read", lines'[i].state # "running"
               PROVE  /\ lines'[i].turn = 0 => threads'[lines'[i].of].failed
                      /\ lines'[i].turn > 0 => threads'[lines'[i].of].turns[lines'[i].turn] # "running"
    BY DEF ReadsInv, ReadIsTrue
  <2> DEFINE m == lines'[i]
  <2>1. m \in LineTypes /\ ReadIsTrue(m) /\ m.turn <= Latest(m.of) BY <1>2 DEF ReadsInv, LinesInv, Writable
  <2>2. m.of \in Children /\ m.turn \in Nat BY <2>1, LineFields
  <2>3. /\ m.turn = 0 => threads[m.of].failed
        /\ m.turn > 0 => threads[m.of].turns[m.turn] # "running"
    BY <2>1 DEF ReadIsTrue
  <2>4. /\ threads[m.of].failed => threads'[m.of].failed
        /\ m.turn > 0 => m.turn \in 1..Latest(m.of)
        /\ \A n \in 1..Latest(m.of) : threads[m.of].turns[n] # "running" => threads'[m.of].turns[n] # "running"
    BY <1>3, <2>1, <2>2
  <2> QED BY <2>2, <2>3, <2>4
<1>7. KnownInv'
  <2> SUFFICES ASSUME ~ended, NEW c \in Children
               PROVE  /\ threads'[c].announced => tasks[c].known \/ Introduced(c, Len(lines) + 1)'
                      /\ \A j \in DOMAIN lines' : IsTurn(j, c)' /\ lines'[j].turn > 1 =>
                            tasks[c].known \/ Introduced(c, j)'
                      /\ tasks[c].terminal => tasks[c].known
    BY DEF KnownInv
  <2>1. ASSUME NEW n, Introduced(c, n)
        PROVE  \E i \in DOMAIN lines' : i < n /\ lines'[i].of = c /\ lines'[i].kind \in {"spawn", "activity"}
    BY <1>2, <2>1 DEF Introduced
  <2>2. ASSUME threads'[c].announced, ~tasks[c].known
        PROVE  \E i \in DOMAIN lines' : i < Len(lines') + 1 /\ lines'[i].of = c /\ lines'[i].kind \in {"spawn", "activity"}
    <3>1. CASE threads[c].announced
      <4>1. PICK i \in DOMAIN lines : i < Len(lines) + 1 /\ lines[i].of = c /\ lines[i].kind \in {"spawn", "activity"}
        BY <2>2, <3>1 DEF KnownInv, Introduced
      <4>2. i \in DOMAIN lines' /\ lines'[i] = lines[i] BY <1>2, <4>1
      <4>3. i \in 1..Len(lines') /\ Len(lines') \in Nat BY <1>2, <4>2
      <4> QED BY <4>1, <4>2, <4>3
    <3>2. CASE ~threads[c].announced
      <4>1. PICK m \in LineTypes : lines' = Append(lines, m) /\ m.of = c /\ m.kind \in {"spawn", "activity"}
        BY <2>2, <3>2
      <4>2. Len(lines) + 1 \in DOMAIN lines' /\ lines'[Len(lines) + 1] = m /\ Len(lines') = Len(lines) + 1
        BY <4>1, LineAppended DEF ServerTypes
      <4>3. Len(lines) + 1 < Len(lines') + 1 BY <1>2, <4>2
      <4> QED BY <4>1, <4>2, <4>3
    <3> QED BY <3>1, <3>2
  <2>3. \A j \in DOMAIN lines' : IsTurn(j, c)' /\ lines'[j].turn > 1 /\ ~tasks[c].known =>
            \E i \in DOMAIN lines' : i < j /\ lines'[i].of = c /\ lines'[i].kind \in {"spawn", "activity"}
    BY <1>2, <1>4, <2>1 DEF KnownInv
  <2>4. tasks[c].terminal => tasks[c].known BY DEF KnownInv
  <2> QED BY <2>2, <2>3, <2>4 DEF Introduced
<1>8. TasksInv'
  <2> SUFFICES ASSUME ~ended, NEW c \in Children \ overtaken, NEW k \in Nat, HasHeard(c, k)'
               PROVE  Sound(tasks[c], reported[c], k, Quiet(c)')
    BY DEF TasksInv
  <2>1. HasHeard(c, k) BY <1>2, <1>4 DEF HasHeard
  <2>2. Quiet(c) => Quiet(c)'
    <3>1. Unheard(c) => Unheard(c)' BY <1>2 DEF Unheard
    <3> QED BY <3>1 DEF Quiet
  <2>3. Sound(tasks[c], reported[c], k, Quiet(c)) BY <2>1 DEF TasksInv
  <2> QED BY <2>2, <2>3 DEF Sound
<1> QED BY <1>5, <1>6, <1>7, <1>8

-----------------------------------------------------------------------------
(* A turn begins                                                           *)

LEMMA TurnBeginsLines ==
    ASSUME SubagentsInv, ServerTypes', SessionTypes', ThreadsInv', NEW c \in Children, TurnBegins(c)
    PROVE  SubagentsInv'
<1> USE DEF SubagentsInv
<1> DEFINE n == Len(lines) + 1
           l == [kind |-> "turn", of |-> c, state |-> "running", turn |-> Latest(c) + 1]
<1>1. Latest(c) \in Nat /\ \A d \in Children : Latest(d) \in Nat BY DEF ServerTypes, Latest
<1>2. l \in LineTypes /\ lines' = Append(lines, l) BY <1>1 DEF TurnBegins, Writes, LineTypes, Kinds, States
<1>3. /\ DOMAIN lines = 1..Len(lines) /\ Len(lines) \in Nat
      /\ DOMAIN lines' = 1..n /\ n \in DOMAIN lines' /\ lines'[n] = l /\ Len(lines') = n
      /\ \A i \in DOMAIN lines : lines'[i] = lines[i] /\ lines[i] \in LineTypes /\ i \in DOMAIN lines' /\ i < n
      /\ \A i \in DOMAIN lines' : i # n => i \in DOMAIN lines
  BY <1>2, LineAppended DEF ServerTypes
<1>4. \A d \in Children : /\ d # c => threads'[d] = threads[d]
                          /\ threads'[d].announced = threads[d].announced
                          /\ threads'[d].failed = threads[d].failed
  BY DEF TurnBegins, ServerTypes
<1>5. threads'[c].turns = Append(threads[c].turns, "running") /\ threads[c].turns \in Seq(Statuses \cup {"running"})
  BY DEF TurnBegins, ServerTypes
<1>6. /\ Latest(c)' = Latest(c) + 1
      /\ \A d \in Children : d # c => Latest(d)' = Latest(d) /\ (Running(d)' <=> Running(d))
  BY <1>4, <1>5 DEF Latest, Running
<1>7. \A k \in 1..Latest(c) : threads'[c].turns[k] = threads[c].turns[k] BY <1>5 DEF Latest
<1>8. \A i \in DOMAIN lines', d \in Children :
          IsTurn(i, d)' <=> (i \in DOMAIN lines /\ IsTurn(i, d)) \/ (i = n /\ d = c)
  BY <1>3 DEF IsTurn
<1> HIDE DEF n
<1>9. n \in Nat BY <1>3 DEF n
<1>10. LinesInv'
  <2>0. \A i \in DOMAIN lines' : lines'[i].of \in Children BY <1>3, LineFields
  <2> SUFFICES ASSUME NEW i \in DOMAIN lines', NEW d \in Children, d = lines'[i].of
               PROVE  /\ lines'[i].turn <= Latest(d)'
                      /\ \A j \in DOMAIN lines' : j > i /\ IsTurn(j, d)' => lines'[i].turn < lines'[j].turn
                      /\ lines'[i].kind # "read" /\ lines'[i].turn # Latest(d)' =>
                             \E j \in DOMAIN lines' : j > i /\ IsTurn(j, d)' /\ lines'[j].turn = lines'[i].turn + 1
                      /\ lines'[i].kind = "turn" => lines'[i].turn > 0
                      /\ SaysOver(lines[i])' => ~Running(d)' \/ \E j \in DOMAIN lines' : j > i /\ IsTurn(j, d)'
    BY <2>0 DEF LinesInv
  <2>1. CASE i = n BY <1>3, <1>9, <2>1, <1>1, <1>6 DEF SaysOver
  <2>2. CASE i # n
    <3>1. i \in DOMAIN lines /\ lines'[i] = lines[i] /\ d = lines[i].of /\ i < n BY <1>3, <2>2
    <3>2. /\ lines[i].turn <= Latest(d)
          /\ \A j \in DOMAIN lines : j > i /\ IsTurn(j, d) => lines[i].turn < lines[j].turn
          /\ lines[i].kind # "read" /\ lines[i].turn # Latest(d) =>
                 \E j \in DOMAIN lines : j > i /\ IsTurn(j, d) /\ lines[j].turn = lines[i].turn + 1
          /\ lines[i].kind = "turn" => lines[i].turn > 0
          /\ SaysOver(lines[i]) => ~Running(d) \/ \E j \in DOMAIN lines : j > i /\ IsTurn(j, d)
      BY <3>1 DEF LinesInv
    <3>3. SaysOver(lines[i])' <=> SaysOver(lines[i]) BY <3>1 DEF SaysOver
    <3>4. lines[i].turn \in Nat BY <1>3, <3>1, LineFields
    <3>5. CASE d # c BY <1>3, <1>6, <1>8, <3>1, <3>2, <3>3, <3>5
    <3>6. CASE d = c
      <4>0. lines'[n].kind = "turn" /\ lines'[n].of = c /\ lines'[n].turn = Latest(c) + 1 BY <1>3
      <4>7. i \in Nat /\ n > i BY <1>3, <1>9, <3>1
      <4>1. \E j \in DOMAIN lines' : j > i /\ IsTurn(j, c)' /\ lines'[j].turn = Latest(c) + 1
        BY <1>8, <1>3, <4>0, <4>7
      <4>2. lines'[i].turn <= Latest(c)' BY <1>1, <1>6, <3>1, <3>2, <3>4, <3>6
      <4>3. \A j \in DOMAIN lines' : j > i /\ IsTurn(j, c)' => lines'[i].turn < lines'[j].turn
        BY <1>1, <1>3, <1>8, <3>1, <3>2, <3>4, <3>6, <4>0
      <4>4. lines'[i].kind # "read" =>
                \E j \in DOMAIN lines' : j > i /\ IsTurn(j, c)' /\ lines'[j].turn = lines'[i].turn + 1
        BY <1>3, <1>8, <3>1, <3>2, <3>6, <4>1
      <4>5. lines'[i].kind = "turn" => lines'[i].turn > 0 BY <3>1, <3>2
      <4>6. \E j \in DOMAIN lines' : j > i /\ IsTurn(j, c)' BY <4>1
      <4> QED BY <3>6, <4>2, <4>3, <4>4, <4>5, <4>6
    <3> QED BY <3>5, <3>6
  <2> QED BY <2>1, <2>2
<1>11. ReadsInv'
  <2> SUFFICES ASSUME NEW i \in DOMAIN lines', lines'[i].kind = "read", lines'[i].state # "running"
               PROVE  /\ lines'[i].turn = 0 => threads'[lines'[i].of].failed
                      /\ lines'[i].turn > 0 => threads'[lines'[i].of].turns[lines'[i].turn] # "running"
    BY DEF ReadsInv, ReadIsTrue
  <2> DEFINE m == lines'[i]
  <2>1. i \in DOMAIN lines /\ m = lines[i] BY <1>3
  <2>2. m.of \in Children /\ m.turn \in Nat /\ ReadIsTrue(m) /\ m.turn <= Latest(m.of)
    BY <1>3, <2>1, LineFields DEF ReadsInv, LinesInv
  <2>3. /\ m.turn = 0 => threads[m.of].failed
        /\ m.turn > 0 => threads[m.of].turns[m.turn] # "running"
    BY <2>2 DEF ReadIsTrue
  <2>4. m.of # c => threads'[m.of] = threads[m.of] BY <1>4, <2>2
  <2>5. m.of = c /\ m.turn > 0 => threads'[c].turns[m.turn] = threads[c].turns[m.turn] BY <1>1, <1>7, <2>2
  <2>6. threads'[m.of].failed = threads[m.of].failed BY <1>4, <2>2
  <2> QED BY <2>3, <2>4, <2>5, <2>6
<1>12. KnownInv'
  <2> SUFFICES ASSUME ~ended, NEW d \in Children
               PROVE  /\ threads'[d].announced => tasks[d].known \/ Introduced(d, Len(lines) + 1)'
                      /\ \A j \in DOMAIN lines' : IsTurn(j, d)' /\ lines'[j].turn > 1 =>
                            tasks[d].known \/ Introduced(d, j)'
                      /\ tasks[d].terminal => tasks[d].known
    BY DEF KnownInv, TurnBegins, childVars
  <2>1. ASSUME NEW m, Introduced(d, m)
        PROVE  \E i \in DOMAIN lines' : i < n /\ i < m /\ lines'[i].of = d /\ lines'[i].kind \in {"spawn", "activity"}
    BY <1>3, <2>1 DEF Introduced
  <2>2. threads[d].announced => tasks[d].known \/
            \E i \in DOMAIN lines' : i < n /\ lines'[i].of = d /\ lines'[i].kind \in {"spawn", "activity"}
    BY <2>1 DEF KnownInv
  <2>3. ASSUME NEW j \in DOMAIN lines', IsTurn(j, d)', lines'[j].turn > 1, ~tasks[d].known
        PROVE  \E i \in DOMAIN lines' : i < j /\ lines'[i].of = d /\ lines'[i].kind \in {"spawn", "activity"}
    <3>1. CASE j \in DOMAIN lines BY <1>3, <2>3, <3>1, <2>1 DEF IsTurn, KnownInv
    <3>2. CASE j = n BY <1>1, <1>3, <2>3, <3>2, <2>2 DEF IsTurn, TurnBegins
    <3> QED BY <1>3, <2>3, <3>1, <3>2
  <2>4. tasks[d].terminal => tasks[d].known BY DEF KnownInv
  <2>5. n < Len(lines') + 1 BY <1>3, <1>9
  <2>6. \A i \in DOMAIN lines' : i < n => i < Len(lines') + 1 BY <1>3, <1>9
  <2> QED BY <1>4, <2>2, <2>3, <2>4, <2>6 DEF Introduced
<1>13. TasksInv'
  <2> SUFFICES ASSUME ~ended, NEW d \in Children \ overtaken, NEW k \in Nat, HasHeard(d, k)'
               PROVE  Sound(tasks[d], reported[d], k, Quiet(d)')
    BY DEF TasksInv, TurnBegins, childVars
  <2>1. \A j \in DOMAIN lines : lines[j].turn \in Nat BY <1>3, LineFields
  <2>2. HasHeard(d, k)
    <3>1. CASE d # c BY <1>3, <1>6, <1>8, <3>1 DEF HasHeard
    <3>2. CASE d = c
      <4>1. k < Latest(c) + 1 BY <1>3, <1>8, <3>2 DEF HasHeard
      <4>2. \A j \in DOMAIN lines : IsTurn(j, d) => lines[j].turn > k BY <1>3, <1>8 DEF HasHeard
      <4>3. ASSUME k # Latest(c)
            PROVE  \E j \in DOMAIN lines : IsTurn(j, d) /\ lines[j].turn = k + 1
        <5>1. PICK j \in DOMAIN lines' : IsTurn(j, d)' /\ lines'[j].turn = k + 1
          BY <1>1, <1>6, <3>2, <4>1 DEF HasHeard
        <5>2. j # n BY <1>1, <1>3, <4>3, <5>1
        <5> QED BY <1>3, <1>8, <5>1, <5>2
      <4> QED BY <1>1, <3>2, <4>1, <4>2, <4>3 DEF HasHeard
    <3> QED BY <3>1, <3>2
  <2>3. Quiet(d) => Quiet(d)'
    <3>1. CASE d # c BY <1>3, <1>6, <3>1 DEF Unheard, Quiet
    <3>2. CASE d = c BY <1>3, <3>2 DEF Quiet, Unheard
    <3> QED BY <3>1, <3>2
  <2>4. Sound(tasks[d], reported[d], k, Quiet(d)) BY <2>2 DEF TasksInv
  <2> QED BY <2>3, <2>4 DEF Sound
<1> QED BY <1>10, <1>11, <1>12, <1>13

-----------------------------------------------------------------------------
(* The session hears a line                                                *)

\* What the first line says, and what is so of the others when it is gone.
LEMMA HeardLine ==
    ASSUME SubagentsInv, lines # << >>, lines' = Tail(lines), UNCHANGED serverVars,
           NEW l, l = lines[1]
    PROVE  /\ l \in LineTypes /\ Head(lines) = l /\ lines' \in Seq(LineTypes)
           /\ l.of \in Children /\ l.turn \in Nat /\ l.turn <= Latest(l.of) /\ ReadIsTrue(l)
           /\ l.kind \notin {"turn", "read"} => HasHeard(l.of, l.turn)
           /\ l.kind = "turn" => l.turn > 0 /\ HasHeard(l.of, l.turn - 1) /\ HasHeard(l.of, l.turn)'
           /\ l.kind = "turn" => \A i \in DOMAIN lines : ~(i < 1)
           /\ SaysOver(l) => Quiet(l.of)
           /\ \A d \in Children : l.kind # "turn" \/ d # l.of =>
                  /\ Quiet(d)' <=> Quiet(d)
                  /\ \A k \in Nat : HasHeard(d, k)' => HasHeard(d, k)
           /\ LinesInv' /\ ReadsInv'
<1> USE DEF SubagentsInv
<1>1. /\ lines \in Seq(LineTypes) /\ lines' \in Seq(LineTypes) /\ Len(lines') = Len(lines) - 1 /\ Len(lines) \in Nat \ {0}
      /\ DOMAIN lines' = 1..(Len(lines) - 1) /\ DOMAIN lines = 1..Len(lines)
      /\ \A i \in DOMAIN lines' : lines'[i] = lines[i + 1] /\ i + 1 \in DOMAIN lines
      /\ Head(lines) = l /\ l \in LineTypes
  BY LineRead DEF ServerTypes
<1>2. /\ 1 \in DOMAIN lines
      /\ \A j \in DOMAIN lines : lines[j] \in LineTypes /\ lines[j].of \in Children /\ lines[j].turn \in Nat
      /\ l.of \in Children /\ l.turn \in Nat
  BY <1>1, LineFields
<1>3. \A j \in DOMAIN lines : j # 1 => j > 1 /\ j - 1 \in DOMAIN lines' /\ lines'[j - 1] = lines[j] BY <1>1
<1>4. /\ \A d \in Children : Latest(d)' = Latest(d) /\ (Running(d)' <=> Running(d)) /\ Latest(d) \in Nat
      /\ threads' = threads
  BY DEF serverVars, Latest, Running, ServerTypes
<1>5. \A i \in DOMAIN lines', d \in Children : IsTurn(i, d)' <=> IsTurn(i + 1, d) BY <1>1 DEF IsTurn
<1>6. /\ l.turn <= Latest(l.of)
      /\ \A j \in DOMAIN lines : j > 1 /\ IsTurn(j, l.of) => l.turn < lines[j].turn
      /\ l.kind # "read" /\ l.turn # Latest(l.of) =>
             \E j \in DOMAIN lines : j > 1 /\ IsTurn(j, l.of) /\ lines[j].turn = l.turn + 1
      /\ l.kind = "turn" => l.turn > 0
      /\ SaysOver(l) => ~Running(l.of) \/ \E j \in DOMAIN lines : j > 1 /\ IsTurn(j, l.of)
  BY <1>2 DEF LinesInv
<1>7. ASSUME l.kind \notin {"turn", "read"}
      PROVE  HasHeard(l.of, l.turn)
  BY <1>2, <1>3, <1>6, <1>7 DEF IsTurn, HasHeard
<1>8. ASSUME l.kind = "turn"
      PROVE  HasHeard(l.of, l.turn - 1) /\ HasHeard(l.of, l.turn)'
  <2>1. IsTurn(1, l.of) BY <1>8 DEF IsTurn
  <2>2. \A j \in DOMAIN lines : IsTurn(j, l.of) => lines[j].turn > l.turn - 1 BY <1>2, <1>3, <1>6
  <2>3. HasHeard(l.of, l.turn - 1) BY <1>2, <1>4, <1>6, <2>1, <2>2 DEF HasHeard
  <2>4. \A j \in DOMAIN lines' : IsTurn(j, l.of)' => lines'[j].turn > l.turn BY <1>1, <1>2, <1>5, <1>6
  <2>5. l.turn # Latest(l.of) => \E j \in DOMAIN lines' : IsTurn(j, l.of)' /\ lines'[j].turn = l.turn + 1
    <3> SUFFICES ASSUME l.turn # Latest(l.of)
                 PROVE  \E j \in DOMAIN lines' : IsTurn(j, l.of)' /\ lines'[j].turn = l.turn + 1
      OBVIOUS
    <3>1. PICK j \in DOMAIN lines : j > 1 /\ IsTurn(j, l.of) /\ lines[j].turn = l.turn + 1 BY <1>6, <1>8
    <3>2. j - 1 \in DOMAIN lines' /\ lines'[j - 1] = lines[j] /\ (j - 1) + 1 = j BY <1>1, <1>3, <3>1
    <3>3. \A i \in DOMAIN lines' : i = j - 1 => IsTurn(i, l.of)' BY <1>2, <1>5, <3>1, <3>2
    <3> QED BY <3>1, <3>2, <3>3
  <2>6. Latest(l.of)' = Latest(l.of) BY <1>2, <1>4
  <2>7. \A n : n = l.of => HasHeard(n, l.turn)' BY <1>6, <2>4, <2>5, <2>6 DEF HasHeard
  <2> QED BY <2>3, <2>7
<1>9. SaysOver(l) => Quiet(l.of) BY <1>6 DEF Quiet, Unheard, IsTurn
<1>10. ASSUME NEW d \in Children, l.kind # "turn" \/ d # l.of
       PROVE  /\ Quiet(d)' <=> Quiet(d)
              /\ \A k \in Nat : HasHeard(d, k)' => HasHeard(d, k)
  <2>1. \A j \in DOMAIN lines : IsTurn(j, d) => j - 1 \in DOMAIN lines' /\ lines'[j - 1] = lines[j]
    BY <1>3, <1>10 DEF IsTurn
  <2>2. Unheard(d)' => Unheard(d) BY <1>1 DEF Unheard
  <2>3. Unheard(d) => Unheard(d)' BY <2>1 DEF Unheard, IsTurn
  <2>4. ASSUME NEW k \in Nat, HasHeard(d, k)'
        PROVE  HasHeard(d, k)
    <3>1. \A j \in DOMAIN lines : IsTurn(j, d) => lines[j].turn > k
      <4> SUFFICES ASSUME NEW j \in DOMAIN lines, IsTurn(j, d)
                   PROVE  lines[j].turn > k
        OBVIOUS
      <4>1. \A i \in DOMAIN lines' : i = j - 1 => IsTurn(i, d)' BY <1>1, <1>5
      <4> QED BY <2>1, <2>4, <4>1 DEF HasHeard
    <3>2. k # Latest(d) => \E j \in DOMAIN lines : IsTurn(j, d) /\ lines[j].turn = k + 1
      <4> SUFFICES ASSUME k # Latest(d)
                   PROVE  \E j \in DOMAIN lines : IsTurn(j, d) /\ lines[j].turn = k + 1
        OBVIOUS
      <4>1. PICK i \in DOMAIN lines' : IsTurn(i, d)' /\ lines'[i].turn = k + 1 BY <1>4, <2>4 DEF HasHeard
      <4> QED BY <1>1, <1>5, <4>1
    <3> QED BY <1>4, <2>4, <3>1, <3>2 DEF HasHeard
  <2> QED BY <1>4, <2>2, <2>3, <2>4 DEF Quiet
<1>11. LinesInv'
  <2>0. \A i \in DOMAIN lines' : lines'[i].of \in Children BY <1>1, <1>2
  <2> SUFFICES ASSUME NEW i \in DOMAIN lines', NEW c \in Children, c = lines'[i].of
               PROVE  /\ lines'[i].turn <= Latest(c)'
                      /\ \A j \in DOMAIN lines' : j > i /\ IsTurn(j, c)' => lines'[i].turn < lines'[j].turn
                      /\ lines'[i].kind # "read" /\ lines'[i].turn # Latest(c)' =>
                             \E j \in DOMAIN lines' : j > i /\ IsTurn(j, c)' /\ lines'[j].turn = lines'[i].turn + 1
                      /\ lines'[i].kind = "turn" => lines'[i].turn > 0
                      /\ SaysOver(lines[i])' => ~Running(c)' \/ \E j \in DOMAIN lines' : j > i /\ IsTurn(j, c)'
    BY <2>0 DEF LinesInv
  <2>1. i + 1 \in DOMAIN lines /\ lines'[i] = lines[i + 1] /\ i \in Nat BY <1>1
  <2>2. /\ lines[i + 1].turn <= Latest(c)
        /\ \A j \in DOMAIN lines : j > i + 1 /\ IsTurn(j, c) => lines[i + 1].turn < lines[j].turn
        /\ lines[i + 1].kind # "read" /\ lines[i + 1].turn # Latest(c) =>
               \E j \in DOMAIN lines : j > i + 1 /\ IsTurn(j, c) /\ lines[j].turn = lines[i + 1].turn + 1
        /\ lines[i + 1].kind = "turn" => lines[i + 1].turn > 0
        /\ SaysOver(lines[i + 1]) => ~Running(c) \/ \E j \in DOMAIN lines : j > i + 1 /\ IsTurn(j, c)
    BY <2>1 DEF LinesInv
  <2>3. SaysOver(lines[i])' <=> SaysOver(lines[i + 1]) BY <2>1 DEF SaysOver
  <2>4. \A j \in DOMAIN lines' : j > i /\ IsTurn(j, c)' => lines'[i].turn < lines'[j].turn
    BY <1>1, <1>5, <2>1, <2>2
  <2>5. ASSUME NEW j \in DOMAIN lines, j > i + 1, IsTurn(j, c)
        PROVE  \E n \in DOMAIN lines' : n > i /\ IsTurn(n, c)' /\ lines'[n] = lines[j]
    <3>1. j - 1 \in DOMAIN lines' /\ lines'[j - 1] = lines[j] /\ (j - 1) + 1 = j /\ j - 1 > i
      BY <1>1, <1>3, <2>1, <2>5
    <3>2. \A n \in DOMAIN lines' : n = j - 1 => IsTurn(n, c)' BY <1>5, <2>5, <3>1
    <3> QED BY <3>1, <3>2
  <2> QED BY <1>4, <2>1, <2>2, <2>3, <2>4, <2>5
<1>12. ReadsInv' BY <1>1, <1>4 DEF ReadsInv, ReadIsTrue
<1>13. ReadIsTrue(l) BY <1>2 DEF ReadsInv
<1>14. \A i \in DOMAIN lines : ~(i < 1) BY <1>1
<1> QED BY <1>1, <1>2, <1>6, <1>7, <1>8, <1>9, <1>10, <1>11, <1>12, <1>13, <1>14


\* What the session makes of the edges of a line.
LEMMA EdgesKeep ==
    ASSUME SessionTypes, NEW c \in Children, NEW task \in TaskTypes, NEW edges \in Seq(EdgeTypes),
           Len(edges) \in 0..2, Dispatch(c, task, edges)
    PROVE  /\ tasks' \in [Children -> TaskTypes] /\ reported' \in [Children -> Seq(Nat)]
           /\ pollers' \subseteq PollerTypes
           /\ \A d \in Children : d # c => tasks'[d] = tasks[d] /\ reported'[d] = reported[d]
           /\ (task.terminal => task.known) =>
                  /\ tasks'[c].terminal => tasks'[c].known
                  /\ task.known \/ edges # << >> => tasks'[c].known
           /\ \A k \in Nat, quiet \in BOOLEAN :
                  /\ Sound(task, reported[c], k, quiet)
                  /\ \A i \in DOMAIN edges : /\ edges[i].of = k /\ edges[i].turn \in {NoTurn, RootTurn, k}
                                             /\ edges[i].phase = "completed" => quiet
                  => Sound(tasks'[c], reported'[c], k, quiet)
<1> DEFINE s == [task |-> task, reports |-> reported[c], polls |-> FALSE]
           r == Dispatched(s, edges)
<1>1. s \in Records BY DEF Records, SessionTypes
<1>2. /\ r \in Records
      /\ (task.terminal => task.known) => /\ r.task.terminal => r.task.known
                                          /\ task.known \/ edges # << >> => r.task.known
      /\ \A k \in Nat, quiet \in BOOLEAN :
             /\ Sound(task, reported[c], k, quiet)
             /\ \A i \in DOMAIN edges : /\ edges[i].of = k /\ edges[i].turn \in {NoTurn, RootTurn, k}
                                        /\ edges[i].phase = "completed" => quiet
             => Sound(r.task, r.reports, k, quiet)
  <2>1. CASE Len(edges) = 0 BY <1>1, <2>1 DEF Dispatched
  <2>2. CASE Len(edges) = 1
    <3>1. edges[1] \in EdgeTypes /\ 1 \in DOMAIN edges /\ r = Observed(s, edges[1]) /\ s.task = task
      BY <2>2 DEF Dispatched
    <3>2. /\ r \in Records
          /\ (task.terminal => task.known) => r.task.known
      BY <1>1, <3>1, ObservedTypes
    <3>3. ASSUME NEW k \in Nat, NEW quiet \in BOOLEAN, Sound(task, reported[c], k, quiet),
                 \A i \in DOMAIN edges : /\ edges[i].of = k /\ edges[i].turn \in {NoTurn, RootTurn, k}
                                         /\ edges[i].phase = "completed" => quiet
          PROVE  Sound(r.task, r.reports, k, quiet)
      <4>1. /\ edges[1].of = k /\ edges[1].turn \in {NoTurn, RootTurn, k}
            /\ edges[1].phase = "completed" => quiet
        BY <3>1, <3>3
      <4>2. Sound(s.task, s.reports, k, quiet) BY <3>3
      <4> HIDE DEF s, r
      <4> QED BY <1>1, <3>1, <4>1, <4>2, ObservedSound
    <3> QED BY <3>2, <3>3
  <2>3. CASE Len(edges) = 2
    <3> DEFINE m == Observed(s, edges[1])
    <3>0. Dispatched(s, edges) = Observed(m, edges[2]) BY <2>3 DEF Dispatched
    <3>1. /\ edges[1] \in EdgeTypes /\ edges[2] \in EdgeTypes /\ {1, 2} \subseteq DOMAIN edges
          /\ r = Observed(m, edges[2]) /\ s.task = task
      <4>1. /\ edges[1] \in EdgeTypes /\ edges[2] \in EdgeTypes /\ 1 \in DOMAIN edges /\ 2 \in DOMAIN edges
        <5> HIDE DEF s, r, m
        <5>1. DOMAIN edges = 1..2 BY <2>3
        <5>2. edges[1] \in EdgeTypes /\ edges[2] \in EdgeTypes BY <2>3, ElementOfSeq
        <5> QED BY <5>1, <5>2
      <4>2. s.task = task OBVIOUS
      <4> HIDE DEF m
      <4> QED BY <3>0, <4>1, <4>2
    <3>2. /\ m \in Records
          /\ (task.terminal => task.known) => m.task.known
      BY <1>1, <3>1, ObservedTypes
    <3>3. /\ r \in Records
          /\ (task.terminal => task.known) => r.task.known
      <4> HIDE DEF m, r
      <4> QED BY <3>1, <3>2, ObservedTypes
    <3>4. ASSUME NEW k \in Nat, NEW quiet \in BOOLEAN, Sound(task, reported[c], k, quiet),
                 \A i \in DOMAIN edges : /\ edges[i].of = k /\ edges[i].turn \in {NoTurn, RootTurn, k}
                                         /\ edges[i].phase = "completed" => quiet
          PROVE  Sound(r.task, r.reports, k, quiet)
      <4>1. \A i \in {1, 2} : /\ edges[i].of = k /\ edges[i].turn \in {NoTurn, RootTurn, k}
                              /\ edges[i].phase = "completed" => quiet
        BY <3>1, <3>4
      <4>2. Sound(s.task, s.reports, k, quiet) BY <3>4
      <4>3. Sound(m.task, m.reports, k, quiet)
        <5> HIDE DEF s
        <5> QED BY <1>1, <3>1, <4>1, <4>2, ObservedSound
      <4> HIDE DEF s, m, r
      <4> QED BY <3>1, <3>2, <4>1, <4>3, ObservedSound
    <3> QED BY <3>3, <3>4
  <2>4. Len(edges) = 0 \/ Len(edges) = 1 \/ Len(edges) = 2 OBVIOUS
  <2> HIDE DEF r
  <2> QED BY <2>1, <2>2, <2>3, <2>4
<1>3. /\ tasks' = [tasks EXCEPT ![c] = r.task] /\ reported' = [reported EXCEPT ![c] = r.reports]
      /\ pollers' \subseteq pollers \cup {[of |-> c, generation |-> task.generation, at |-> "due"]}
  BY DEF Dispatch
<1> HIDE DEF r
<1>4. [of |-> c, generation |-> task.generation, at |-> "due"] \in PollerTypes BY DEF PollerTypes, TaskTypes
<1>5. r.task \in TaskTypes /\ r.reports \in Seq(Nat) BY <1>2 DEF Records
<1>6. tasks' \in [Children -> TaskTypes] /\ reported' \in [Children -> Seq(Nat)] /\ pollers' \subseteq PollerTypes
  BY <1>3, <1>4, <1>5 DEF SessionTypes
<1>7. /\ tasks'[c] = r.task /\ reported'[c] = r.reports
      /\ \A d \in Children : d # c => tasks'[d] = tasks[d] /\ reported'[d] = reported[d]
  BY <1>3 DEF SessionTypes
<1> QED BY <1>2, <1>6, <1>7

\* What is left of the invariant, given what the session makes of the line.
LEMMA HearingKeeps ==
    ASSUME SubagentsInv, lines # << >>, lines' = Tail(lines), UNCHANGED serverVars, UNCHANGED ended, ~ended,
           NEW l, l = lines[1], overtaken \subseteq overtaken',
           \A d \in Children : tasks[d].known => tasks'[d].known,
           \A d \in Children : tasks'[d].terminal => tasks'[d].known,
           l.kind \in {"spawn", "activity"} => tasks'[l.of].known,
           \A d \in Children : d # l.of => tasks'[d] = tasks[d] /\ reported'[d] = reported[d],
           l.of \notin overtaken' =>
               \A k \in Nat : HasHeard(l.of, k)' => Sound(tasks'[l.of], reported'[l.of], k, Quiet(l.of)')
    PROVE  KnownInv' /\ TasksInv'
<1>1. l \in LineTypes /\ l.of \in Children BY HeardLine
<1>2. KnownInv'
  <2> SUFFICES ASSUME NEW d \in Children
               PROVE  /\ threads'[d].announced => tasks'[d].known \/ Introduced(d, Len(lines) + 1)'
                      /\ \A j \in DOMAIN lines' : IsTurn(j, d)' /\ lines'[j].turn > 1 =>
                            tasks'[d].known \/ Introduced(d, j)'
                      /\ tasks'[d].terminal => tasks'[d].known
    BY DEF KnownInv
  <2>1. /\ Len(lines) \in Nat \ {0} /\ DOMAIN lines = 1..Len(lines) /\ DOMAIN lines' = 1..(Len(lines) - 1)
        /\ Len(lines') = Len(lines) - 1
        /\ \A i \in DOMAIN lines' : lines'[i] = lines[i + 1] /\ i + 1 \in DOMAIN lines
    BY LineRead DEF SubagentsInv, ServerTypes
  <2>2. ASSUME NEW n \in Nat, Introduced(d, n + 1), ~tasks'[d].known
        PROVE  Introduced(d, n)'
    <3>1. PICK i \in DOMAIN lines : i < n + 1 /\ lines[i].of = d /\ lines[i].kind \in {"spawn", "activity"}
      BY <2>2 DEF Introduced
    <3>2. i # 1 BY <2>2, <3>1
    <3>3. i - 1 \in DOMAIN lines' /\ (i - 1) + 1 = i /\ i - 1 < n BY <2>1, <3>1, <3>2
    <3>4. lines'[i - 1] = lines[i] BY <2>1, <3>3
    <3> QED BY <3>1, <3>3, <3>4 DEF Introduced
  <2>3. ASSUME threads'[d].announced, ~tasks'[d].known
        PROVE  Introduced(d, Len(lines) + 1)'
    BY <2>3, <2>2, <2>1 DEF KnownInv, SubagentsInv, serverVars, Introduced
  <2>4. ASSUME NEW j \in DOMAIN lines', IsTurn(j, d)', lines'[j].turn > 1, ~tasks'[d].known
        PROVE  Introduced(d, j)'
    BY <2>1, <2>4, <2>2 DEF IsTurn, KnownInv, SubagentsInv
  <2> QED BY <2>3, <2>4
<1>3. TasksInv'
  <2> SUFFICES ASSUME NEW d \in Children, d \notin overtaken', NEW k \in Nat, HasHeard(d, k)'
               PROVE  Sound(tasks'[d], reported'[d], k, Quiet(d)')
    BY DEF TasksInv
  <2>1. CASE d = l.of BY <2>1
  <2>2. CASE d # l.of
    <3>1. HasHeard(d, k) /\ (Quiet(d)' <=> Quiet(d)) BY <2>2, HeardLine
    <3>2. d \in Children \ overtaken OBVIOUS
    <3>3. Sound(tasks[d], reported[d], k, Quiet(d)) BY <3>1, <3>2 DEF TasksInv, SubagentsInv
    <3>4. tasks'[d] = tasks[d] /\ reported'[d] = reported[d] BY <2>2
    <3> QED BY <3>1, <3>3, <3>4 DEF Sound
  <2> QED BY <2>1, <2>2
<1> QED BY <1>2, <1>3


LEMMA WokenTypes ==
    ASSUME NEW t \in TaskTypes
    PROVE  LET w == [t EXCEPT !.terminal = FALSE, !.generation = @ + 1] IN
           /\ w \in TaskTypes /\ ~w.terminal /\ w.known = t.known /\ w.active = t.active
           /\ w.generation = t.generation + 1
<1> DEFINE w == [t EXCEPT !.terminal = FALSE, !.generation = @ + 1]
<1> DEFINE v == [t EXCEPT !.terminal = FALSE]
<1>1. v \in TaskTypes /\ ~v.terminal /\ v.known = t.known /\ v.active = t.active /\ v.generation = t.generation
  BY DEF TaskTypes
<1>2. w = [v EXCEPT !.generation = v.generation + 1] BY DEF TaskTypes
<1> HIDE DEF v, w
<1>3. /\ w \in TaskTypes /\ w.generation = v.generation + 1
      /\ w.active = v.active
  BY <1>1, <1>2 DEF TaskTypes
<1>4. w.terminal = v.terminal /\ w.known = v.known BY <1>1, <1>2 DEF TaskTypes
<1> QED BY <1>1, <1>3, <1>4 DEF w

LEMMA HearsKeeps ==
    ASSUME SubagentsInv, SubagentsAssumption, Hears
    PROVE  SubagentsInv'
<1> USE DEF SubagentsInv
<1>1. lines # << >> /\ lines' = Tail(lines) /\ UNCHANGED serverVars /\ UNCHANGED ended BY DEF Hears
<1>2. PICK l : l = lines[1] OBVIOUS
<1> DEFINE c == l.of
<1>3. /\ l \in LineTypes /\ Head(lines) = l /\ lines' \in Seq(LineTypes)
      /\ c \in Children /\ l.turn \in Nat /\ l.turn <= Latest(c) /\ ReadIsTrue(l)
      /\ l.kind \notin {"turn", "read"} => HasHeard(c, l.turn)
      /\ l.kind = "turn" => l.turn > 0 /\ HasHeard(c, l.turn - 1) /\ HasHeard(c, l.turn)'
      /\ l.kind = "turn" => \A i \in DOMAIN lines : ~(i < 1)
      /\ SaysOver(l) => Quiet(c)
      /\ LinesInv' /\ ReadsInv'
  BY <1>1, <1>2, HeardLine
<1>4. l.kind # "turn" => /\ Quiet(c)' <=> Quiet(c)
                         /\ \A k \in Nat : HasHeard(c, k)' => HasHeard(c, k)
  BY <1>1, <1>2, HeardLine, <1>3
<1>5. ServerTypes' /\ ThreadsInv' BY <1>1, <1>3 DEF ServerTypes, ThreadsInv, serverVars, Latest
<1>6. l.kind \in Kinds \cup {"read"} /\ l.state \in States /\ (l.kind = "read" => l.poller \in PollerTypes)
  BY <1>3, LineFields
<1>7. CASE ended BY <1>7, <1>1, <1>3, <1>5 DEF Hears, childVars, SessionTypes, KnownInv, TasksInv
<1>8. CASE ~ended
  <2>1. overtaken' = IF l.kind = "turn" /\ l.turn > 1 /\ tasks[c].known /\ ~tasks[c].terminal
                     THEN overtaken \cup {c} ELSE overtaken
    BY <1>3, <1>8 DEF Hears
  <2>2. /\ tasks \in [Children -> TaskTypes] /\ tasks[c] \in TaskTypes /\ reported[c] \in Seq(Nat)
        /\ \A d \in Children : tasks[d].terminal => tasks[d].known
    BY <1>3, <1>8 DEF SessionTypes, KnownInv
  \* What is to be shown of each kind of line.
  <2> DEFINE Heard == /\ tasks' \in [Children -> TaskTypes] /\ reported' \in [Children -> Seq(Nat)]
                      /\ pollers' \subseteq PollerTypes
                      /\ \A d \in Children : d # c => tasks'[d] = tasks[d] /\ reported'[d] = reported[d]
                      /\ tasks[c].known => tasks'[c].known
                      /\ tasks'[c].terminal => tasks'[c].known
                      /\ l.kind \in {"spawn", "activity"} => tasks'[c].known
                      /\ c \notin overtaken' =>
                            \A k \in Nat : HasHeard(c, k)' => Sound(tasks'[c], reported'[c], k, Quiet(c)')
  <2>3. ASSUME NEW edges \in Seq(EdgeTypes), Len(edges) \in 0..2, Dispatch(c, tasks[c], edges),
               l.kind \notin {"turn", "read"},
               l.kind \in {"spawn", "activity"} => edges # << >>,
               \A i \in DOMAIN edges : /\ edges[i].of = l.turn /\ edges[i].turn \in {NoTurn, RootTurn, l.turn}
                                       /\ edges[i].phase = "completed" => SaysOver(l)
        PROVE  Heard
    <3>0. SessionTypes /\ c \in Children /\ tasks[c] \in TaskTypes /\ (tasks[c].terminal => tasks[c].known)
      BY <1>3, <2>2
    <3> HIDE DEF c
    <3>1. /\ tasks' \in [Children -> TaskTypes] /\ reported' \in [Children -> Seq(Nat)]
          /\ pollers' \subseteq PollerTypes
          /\ \A d \in Children : d # c => tasks'[d] = tasks[d] /\ reported'[d] = reported[d]
          /\ tasks'[c].terminal => tasks'[c].known
          /\ tasks[c].known \/ edges # << >> => tasks'[c].known
      BY <2>3, <3>0, EdgesKeep
    <3>2. ASSUME c \notin overtaken', NEW k \in Nat, HasHeard(c, k)'
          PROVE  Sound(tasks'[c], reported'[c], k, Quiet(c)')
      <4>1. HasHeard(c, k) /\ (Quiet(c)' <=> Quiet(c)) BY <1>4, <2>3, <3>2
      <4>2. k = l.turn BY <1>3, <2>3, <4>1, HeardOnce
      <4>3. c \in Children \ overtaken BY <1>3, <2>1, <3>2
      <4>4. Sound(tasks[c], reported[c], k, Quiet(c)) BY <1>8, <4>1, <4>3 DEF TasksInv
      <4>5. \A i \in DOMAIN edges : /\ edges[i].of = k /\ edges[i].turn \in {NoTurn, RootTurn, k}
                                    /\ edges[i].phase = "completed" => Quiet(c)
        BY <1>3, <2>3, <4>2
      <4>6. Quiet(c) \in BOOLEAN BY DEF Quiet, Running, Unheard
      <4>7. Sound(tasks'[c], reported'[c], k, Quiet(c)) BY <2>3, <3>0, <4>4, <4>5, <4>6, EdgesKeep
      <4> QED BY <4>1, <4>7 DEF Sound
    <3> QED BY <2>3, <3>1, <3>2
  <2> HIDE DEF Heard
  <2>4. ASSUME l.kind = "thread"
        PROVE  Heard
    <3> DEFINE edges == <<Edge("started", NoTurn, l.turn)>>
    <3>1. Dispatch(c, tasks[c], edges) BY <1>3, <1>8, <2>4 DEF Hears, ThreadStarted, ActivityPhase
    <3>2. edges \in Seq(EdgeTypes) /\ Len(edges) \in 0..2 /\ DOMAIN edges = {1}
          /\ edges[1].of = l.turn /\ edges[1].turn = NoTurn /\ edges[1].phase = "started"
      BY <1>3 DEF Edge, EdgeTypes, NoTurn
    <3> HIDE DEF edges
    <3> QED BY <2>3, <2>4, <3>1, <3>2
  <2>5. ASSUME l.kind = "end"
        PROVE  Heard
    <3>1. CASE tasks[c].known
      <4> DEFINE edges == <<Edge("completed", l.turn, l.turn)>>
      <4>1. Dispatch(c, tasks[c], edges) BY <1>3, <1>8, <2>5, <3>1 DEF Hears, TurnEnded, ActivityPhase
      <4>2. edges \in Seq(EdgeTypes) /\ Len(edges) \in 0..2 /\ DOMAIN edges = {1}
            /\ edges[1].of = l.turn /\ edges[1].turn = l.turn /\ edges[1].phase = "completed"
        BY <1>3 DEF Edge, EdgeTypes
      <4>3. SaysOver(l) BY <2>5 DEF SaysOver
      <4> HIDE DEF edges
      <4> QED BY <2>3, <2>5, <4>1, <4>2, <4>3
    <3>2. CASE ~tasks[c].known
      <4>1. UNCHANGED <<tasks, pollers, reported>>
        BY <1>3, <1>8, <2>5, <3>2 DEF Hears, TurnEnded, ActivityPhase, childVars
      <4>2. ASSUME c \notin overtaken', NEW k \in Nat, HasHeard(c, k)'
            PROVE  Sound(tasks[c], reported[c], k, Quiet(c)')
        BY <1>3, <1>4, <2>1, <2>5, <4>2, <1>8 DEF TasksInv, Sound
      <4>3. pollers \subseteq PollerTypes /\ reported \in [Children -> Seq(Nat)] BY DEF SessionTypes
      <4>4. tasks[c].terminal => tasks[c].known BY <1>3, <2>2
      <4> HIDE DEF c
      <4> QED BY <2>2, <2>5, <4>1, <4>2, <4>3, <4>4 DEF Heard
    <3> QED BY <3>1, <3>2
  <2>6. ASSUME l.kind \in {"activity", "interacted", "interrupted"}
        PROVE  Heard
    <3> DEFINE edges == ActivityEdges(l)
    <3>1. Dispatch(c, tasks[c], edges) BY <1>3, <1>8, <2>6 DEF Hears, ActivityPhase
    <3>2. /\ edges \in Seq(EdgeTypes) /\ Len(edges) \in 0..2 /\ DOMAIN edges = {1} /\ Len(edges) = 1
          /\ edges[1].of = l.turn /\ edges[1].turn = RootTurn
          /\ edges[1].phase = "completed" => l.kind = "interrupted"
      BY <1>3, <2>6 DEF ActivityEdges, ActivityPhase, Edge, EdgeTypes, RootTurn, SubagentsAssumption
    <3>3. l.kind = "interrupted" => SaysOver(l) BY DEF SaysOver
    <3> HIDE DEF edges
    <3>4. edges # << >>
      <4>1. Len(edges) # Len(<< >>) BY <3>2
      <4> QED BY <4>1
    <3> QED BY <2>3, <2>6, <3>1, <3>2, <3>3, <3>4
  <2>7. ASSUME l.kind \in {"spawn", "wait", "close", "sent"}
        PROVE  Heard
    <3> DEFINE edges == CollabEdges(l)
    <3>1. Dispatch(c, tasks[c], edges) BY <1>3, <1>8, <2>7 DEF Hears, ActivityPhase
    <3> DEFINE starts == Edge("started", NoTurn, l.turn)
               ends == Edge("completed", NoTurn, l.turn)
    <3>2. /\ starts \in EdgeTypes /\ starts.of = l.turn /\ starts.turn = NoTurn /\ starts.phase = "started"
          /\ ends \in EdgeTypes /\ ends.of = l.turn /\ ends.turn = NoTurn /\ ends.phase = "completed"
      BY <1>3 DEF Edge, EdgeTypes, NoTurn
    <3>4. \/ edges = << >> /\ l.kind # "spawn"
          \/ edges = <<starts>>
          \/ edges = <<ends>> /\ SaysOver(l) /\ l.kind # "spawn"
          \/ edges = <<starts, ends>> /\ SaysOver(l)
      <4>1. CASE l.kind = "spawn" BY <4>1 DEF CollabEdges, SaysOver
      <4>2. CASE l.kind \in {"wait", "close"} /\ tasks[c].known /\ l.state # "running"
        BY <4>2 DEF CollabEdges, SaysOver
      <4>3. CASE l.kind # "spawn" /\ ~(l.kind \in {"wait", "close"} /\ tasks[c].known /\ l.state # "running")
        BY <4>3 DEF CollabEdges
      <4> QED BY <4>1, <4>2, <4>3
    <3> HIDE DEF edges, starts, ends
    <3>5. CASE edges = << >> /\ l.kind # "spawn"
      <4>1. edges \in Seq(EdgeTypes) /\ Len(edges) \in 0..2 /\ DOMAIN edges = {} BY <3>5
      <4> QED BY <2>3, <2>7, <3>1, <3>5, <4>1
    <3>6. CASE edges = <<starts>>
      <4>1. edges \in Seq(EdgeTypes) /\ Len(edges) \in 0..2 /\ DOMAIN edges = {1} /\ edges[1] = starts /\ edges # << >>
        BY <3>2, <3>6
      <4> QED BY <2>3, <2>7, <3>1, <3>2, <4>1
    <3>7. CASE edges = <<ends>> /\ SaysOver(l) /\ l.kind # "spawn"
      <4>1. edges \in Seq(EdgeTypes) /\ Len(edges) \in 0..2 /\ DOMAIN edges = {1} /\ edges[1] = ends
        BY <3>2, <3>7
      <4> QED BY <2>3, <2>7, <3>1, <3>2, <3>7, <4>1
    <3>8. CASE edges = <<starts, ends>> /\ SaysOver(l)
      <4>1. /\ edges \in Seq(EdgeTypes) /\ Len(edges) \in 0..2 /\ DOMAIN edges = {1, 2} /\ edges[1] = starts
            /\ edges[2] = ends /\ edges # << >>
        BY <3>2, <3>8
      <4> QED BY <2>3, <2>7, <3>1, <3>2, <3>8, <4>1
    <3> QED BY <3>4, <3>5, <3>6, <3>7, <3>8
  <2>8. ASSUME l.kind = "turn"
        PROVE  Heard
    <3>1. ASSUME NEW k \in Nat, HasHeard(c, k)'
          PROVE  k = l.turn
      BY <1>3, <2>8, <1>5, <3>1, HeardOnceNext
    <3>2. CASE tasks[c].terminal
      <4> DEFINE woken == [tasks[c] EXCEPT !.terminal = FALSE, !.generation = @ + 1]
                 edge == Edge("progress", l.turn, l.turn)
      <4>1. Dispatch(c, woken, <<edge>>) BY <1>3, <1>8, <2>8, <3>2 DEF Hears, TurnStarted, ActivityPhase
      <4>2. /\ woken \in TaskTypes /\ ~woken.terminal /\ woken.known = tasks[c].known
            /\ woken.active = tasks[c].active /\ woken.generation = tasks[c].generation + 1
        BY <2>2, WokenTypes
      <4>3. /\ edge \in EdgeTypes /\ edge.phase = "progress" /\ edge.turn = l.turn /\ edge.of = l.turn
        BY <1>3 DEF Edge, EdgeTypes
      <4>4. <<edge>> \in Seq(EdgeTypes) /\ Len(<<edge>>) = 1 /\ <<edge>>[1] = edge
        <5> HIDE DEF edge
        <5> QED BY <4>3
      <4>5. /\ tasks'[c].known /\ ~tasks'[c].terminal /\ tasks'[c].active = l.turn
            /\ reported'[c] = reported[c]
        <5> DEFINE s == [task |-> woken, reports |-> reported[c], polls |-> FALSE]
        <5>1. /\ Observed(s, edge).task = [woken EXCEPT !.known = TRUE, !.terminal = FALSE, !.active = l.turn]
              /\ Observed(s, edge).reports = reported[c]
          <6> HIDE DEF woken, edge
          <6> QED
            <7>1. s.task = woken /\ s.reports = reported[c] /\ ~(s.task.terminal \/ (s.task.known /\ edge.phase = "started"))
              BY <4>2, <4>3
            <7>2. edge.turn # NoTurn /\ edge.phase # "completed" /\ edge.turn = l.turn
              BY <1>3, <2>8, <4>3 DEF NoTurn
            <7> QED BY <7>1, <7>2 DEF Observed
        <5>2. /\ tasks' = [tasks EXCEPT ![c] = Observed(s, edge).task]
              /\ reported' = [reported EXCEPT ![c] = Observed(s, edge).reports]
          <6> HIDE DEF woken, edge
          <6> QED BY <4>1, <4>4 DEF Dispatch, Dispatched
        <5>3. /\ tasks'[c] = [woken EXCEPT !.known = TRUE, !.terminal = FALSE, !.active = l.turn]
              /\ reported'[c] = reported[c]
          <6> HIDE DEF woken, edge, s
          <6> QED BY <1>3, <2>2, <5>1, <5>2 DEF SessionTypes
        <5> HIDE DEF woken, edge, s
        <5> QED BY <4>2, <5>3 DEF TaskTypes
      <4>6. /\ tasks' \in [Children -> TaskTypes] /\ reported' \in [Children -> Seq(Nat)]
            /\ pollers' \subseteq PollerTypes
            /\ \A d \in Children : d # c => tasks'[d] = tasks[d] /\ reported'[d] = reported[d]
        <5>1. SessionTypes /\ c \in Children /\ Len(<<edge>>) \in 0..2 BY <1>3, <4>4
        <5> HIDE DEF woken, edge, c
        <5> QED BY <4>1, <4>2, <4>4, <5>1, EdgesKeep
      <4>7. ASSUME c \notin overtaken'
            PROVE  Sound(tasks'[c], reported'[c], l.turn, Quiet(c)')
        <5>1. HasHeard(c, l.turn - 1) /\ l.turn - 1 \in Nat /\ c \in Children \ overtaken
          BY <1>3, <2>1, <2>8, <4>7
        <5>2. Sound(tasks[c], reported[c], l.turn - 1, Quiet(c)) BY <1>8, <5>1 DEF TasksInv
        <5>3. \A i \in DOMAIN reported[c] : reported[c][i] \in Nat /\ reported[c][i] <= l.turn - 1
          BY <2>2, <5>2 DEF Sound
        <5>4. \A i \in DOMAIN reported[c] : reported[c][i] < l.turn /\ reported[c][i] <= l.turn BY <1>3, <5>3
        <5> QED BY <1>3, <2>8, <4>5, <5>2, <5>4 DEF Sound, NoTurn
      <4> QED BY <2>8, <3>1, <4>5, <4>6, <4>7 DEF Heard
    <3>3. CASE ~tasks[c].terminal
      <4>1. UNCHANGED <<tasks, pollers, reported>>
        BY <1>3, <1>8, <2>8, <3>3 DEF Hears, TurnStarted, ActivityPhase, childVars
      <4>2. ASSUME c \notin overtaken'
            PROVE  Sound(tasks[c], reported[c], l.turn, Quiet(c)')
        <5>1. l.turn = 1
          <6> SUFFICES ASSUME l.turn > 1
                       PROVE  FALSE
            BY <1>3, <2>8
          <6>1. ~tasks[c].known BY <2>1, <2>8, <3>3, <4>2
          <6>2. 1 \in DOMAIN lines /\ IsTurn(1, c) BY <1>1, <1>2, <2>8, LineRead DEF IsTurn, ServerTypes
          <6>3. Introduced(c, 1) BY <1>2, <1>3, <1>8, <6>1, <6>2 DEF KnownInv
          <6> QED BY <1>3, <2>8, <6>3 DEF Introduced
        <5>2. HasHeard(c, 0) /\ c \in Children \ overtaken BY <1>3, <2>1, <2>8, <4>2, <5>1
        <5>3. Sound(tasks[c], reported[c], 0, Quiet(c)) BY <1>8, <5>2 DEF TasksInv
        <5>4. \A i \in DOMAIN reported[c] : reported[c][i] \in Nat /\ reported[c][i] < 1 /\ reported[c][i] <= 1
          BY <2>2, <5>3 DEF Sound
        <5> QED BY <3>3, <5>1, <5>3, <5>4 DEF Sound, NoTurn
      <4>3. pollers \subseteq PollerTypes /\ reported \in [Children -> Seq(Nat)] BY DEF SessionTypes
      <4> HIDE DEF c
      <4> QED BY <2>2, <2>8, <3>1, <3>3, <4>1, <4>2, <4>3 DEF Heard
    <3> QED BY <3>2, <3>3
  <2>9. ASSUME l.kind = "read"
        PROVE  Heard
    <3> DEFINE p == [l.poller EXCEPT !.at = "answered"]
               edge == Edge("completed", l.turn, l.turn)
               s == [task |-> tasks[c], reports |-> reported[c], polls |-> FALSE]
               r == Observed(s, edge)
    <3>1. p \in PollerTypes /\ [p EXCEPT !.at = "waiting"] \in PollerTypes BY <1>6, <2>9 DEF PollerTypes
    <3>2. Reconciles(l) BY <1>3, <1>8, <2>9 DEF Hears, ActivityPhase
    <3>3. /\ pollers' \subseteq pollers \cup {p, [p EXCEPT !.at = "waiting"]}
          /\ \/ UNCHANGED <<tasks, reported>>
             \/ /\ Proves(l) /\ tasks' = [tasks EXCEPT ![c] = r.task] /\ reported' = [reported EXCEPT ![c] = r.reports]
      <4> HIDE DEF edge
      <4> QED BY <3>2 DEF Reconciles, edge
    <3>4. pollers' \subseteq PollerTypes BY <3>1, <3>3 DEF SessionTypes
    <3>5. ASSUME NEW k \in Nat, HasHeard(c, k)', c \notin overtaken'
          PROVE  HasHeard(c, k) /\ (Quiet(c)' <=> Quiet(c)) /\ Sound(tasks[c], reported[c], k, Quiet(c))
      BY <1>3, <1>4, <2>1, <2>9, <3>5, <1>8 DEF TasksInv
    <3>6. CASE UNCHANGED <<tasks, reported>>
      <4>1. ASSUME NEW k \in Nat, HasHeard(c, k)', c \notin overtaken'
            PROVE  Sound(tasks[c], reported[c], k, Quiet(c)')
        BY <3>5, <4>1 DEF Sound
      <4>2. reported \in [Children -> Seq(Nat)] /\ (tasks[c].terminal => tasks[c].known)
        BY <1>3, <2>2 DEF SessionTypes
      <4> HIDE DEF c
      <4> QED BY <2>2, <2>9, <3>4, <3>6, <4>1, <4>2 DEF Heard
    <3>7. CASE /\ Proves(l) /\ tasks' = [tasks EXCEPT ![c] = r.task] /\ reported' = [reported EXCEPT ![c] = r.reports]
      <4>1. s \in Records /\ edge \in EdgeTypes /\ edge.of = l.turn /\ edge.turn = l.turn /\ s.task = tasks[c]
            /\ s.reports = reported[c]
        BY <1>3, <2>2 DEF Records, EdgeTypes, Edge
      <4>2. /\ r \in Records /\ (s.task.known => r.task.known)
            /\ (s.task.terminal => s.task.known) => r.task.known
        <5> HIDE DEF s, edge
        <5> QED BY <4>1, ObservedTypes
      <4>3. r.task \in TaskTypes /\ r.reports \in Seq(Nat) /\ r.task.known
        <5>1. r.task.known BY <1>3, <2>2, <4>1, <4>2
        <5> HIDE DEF r
        <5> QED BY <4>2, <5>1 DEF Records
      <4>4. /\ tasks' \in [Children -> TaskTypes] /\ reported' \in [Children -> Seq(Nat)]
            /\ \A d \in Children : d # c => tasks'[d] = tasks[d] /\ reported'[d] = reported[d]
            /\ tasks'[c] = r.task /\ reported'[c] = r.reports
        <5>1. c \in Children /\ tasks \in [Children -> TaskTypes] /\ reported \in [Children -> Seq(Nat)]
          BY <1>3, <2>2 DEF SessionTypes
        <5> HIDE DEF r, c
        <5> QED BY <3>7, <4>3, <5>1
      <4>5. ASSUME NEW k \in Nat, HasHeard(c, k)', c \notin overtaken'
            PROVE  Sound(r.task, r.reports, k, Quiet(c)')
        <5>1. HasHeard(c, k) /\ (Quiet(c)' <=> Quiet(c)) /\ Sound(tasks[c], reported[c], k, Quiet(c))
          BY <3>5, <4>5
        <5>2. CASE tasks[c].terminal
          <6>1. r.task = tasks[c] /\ r.reports = reported[c] BY <5>2 DEF Observed
          <6> HIDE DEF r
          <6> QED BY <5>1, <6>1 DEF Sound
        <5>3. CASE ~tasks[c].terminal
          <6>1. l.state # "running" /\ (l.turn > 0 /\ tasks[c].active # NoTurn => l.turn = tasks[c].active)
            BY <3>7 DEF Proves, IsActiveTurn
          <6>2. /\ l.turn = 0 => threads[c].failed
                /\ l.turn > 0 => threads[c].turns[l.turn] # "running"
            BY <1>3, <2>9, <6>1 DEF ReadIsTrue
          <6>3. Latest(c) \in Nat /\ Latest(c) <= MaxTurns /\ (threads[c].failed => threads[c].turns = << >>)
            BY <1>3 DEF ServerTypes, ThreadsInv, Latest
          <6>4. l.turn = k /\ Quiet(c)
            <7>1. CASE l.turn = 0 BY <6>2, <6>3, <7>1, <5>1 DEF HasHeard, Latest, Quiet, Running
            <7>2. CASE l.turn > 0
              <8>1. l.turn <= k
                <9>1. CASE k = Latest(c) BY <1>3, <9>1
                <9>2. CASE k # Latest(c)
                  <10>1. PICK j \in DOMAIN lines : IsTurn(j, c) /\ lines[j].turn = k + 1
                    BY <5>1, <9>2 DEF HasHeard
                  <10>2. j # 1 /\ 1 \in DOMAIN lines /\ j > 1
                    BY <1>1, <1>2, <2>9, <10>1, LineRead DEF IsTurn, ServerTypes
                  <10>3. l.turn < lines[j].turn BY <1>2, <10>1, <10>2 DEF LinesInv
                  <10> QED BY <1>3, <10>1, <10>3
                <9> QED BY <9>1, <9>2
              <8>2. l.turn = k
                <9>1. CASE tasks[c].active = NoTurn BY <1>3, <5>1, <5>3, <7>2, <8>1, <9>1 DEF Sound
                <9>2. CASE tasks[c].active # NoTurn
                  BY <1>3, <6>1, <6>3, <7>2, <9>2, <5>1, <5>3 DEF RootTurn, SubagentsAssumption, Sound
                <9> QED BY <9>1, <9>2
              <8>3. CASE k = Latest(c) BY <6>2, <7>2, <8>2, <8>3 DEF Quiet, Running, Latest, Last
              <8>4. CASE k # Latest(c) BY <5>1, <8>4, <8>2 DEF HasHeard, Unheard, IsTurn, Quiet
              <8> QED BY <8>2, <8>3, <8>4
            <7> QED BY <1>3, <7>1, <7>2
          <6>5. Sound(s.task, s.reports, k, TRUE) BY <5>1, <6>4 DEF Sound
          <6>6. Sound(r.task, r.reports, k, TRUE)
            <7>1. edge.of = k /\ edge.turn = k BY <4>1, <6>4
            <7> HIDE DEF s, edge
            <7> QED BY <4>1, <6>5, <7>1, ObservedSound
          <6> HIDE DEF r
          <6> QED BY <5>1, <6>4, <6>6 DEF Sound
        <5> QED BY <5>2, <5>3
      <4> HIDE DEF r, c
      <4> QED BY <2>9, <3>4, <4>3, <4>4, <4>5 DEF Heard
    <3> QED BY <3>3, <3>6, <3>7
  <2>10. Heard BY <1>6, <2>4, <2>5, <2>6, <2>7, <2>8, <2>9 DEF Kinds
  <2>11. KnownInv' /\ TasksInv' BY <2>1, <1>1, <1>2, <1>8, <2>2, <2>10, HearingKeeps DEF Heard
  <2>12. SessionTypes' BY <1>1, <1>3, <2>1, <2>10 DEF SessionTypes, Heard
  <2> QED BY <1>3, <1>5, <2>11, <2>12
<1> QED BY <1>7, <1>8


-----------------------------------------------------------------------------
(* Every step keeps the invariant                                          *)

\* The types of a line about a child.
LEMMA LineMade ==
    ASSUME NEW c \in Children, NEW kind \in Kinds, NEW state \in States, ServerTypes
    PROVE  /\ Line(kind, c, state) \in LineTypes
           /\ Line(kind, c, state).kind = kind /\ Line(kind, c, state).of = c
           /\ Line(kind, c, state).state = state /\ Line(kind, c, state).turn = Latest(c)
BY DEF Line, LineTypes, ServerTypes, Latest

LEMMA StateTrue ==
    ASSUME SubagentsInv, NEW c \in Children
    PROVE  StateOf(c) \in States /\ (StateOf(c) # "running" => ~Running(c))
<1>1. /\ threads[c].turns \in Seq(Statuses \cup {"running"}) /\ threads[c].failed \in BOOLEAN
      /\ threads[c].failed => threads[c].turns = << >>
  BY DEF SubagentsInv, ServerTypes, ThreadsInv
<1>2. CASE threads[c].failed BY <1>1, <1>2 DEF StateOf, States, Running
<1>3. CASE ~threads[c].failed /\ threads[c].turns # << >> BY <1>3, <1>1 DEF StateOf, Last, States, Running
<1>4. CASE ~threads[c].failed /\ threads[c].turns = << >> BY <1>4 DEF StateOf, States
<1> QED BY <1>1, <1>2, <1>3, <1>4

\* A step that leaves the turns alone and writes a line about a child, or none.
LEMMA WrittenKeeps ==
    ASSUME SubagentsInv, NEW c \in Children,
           ServerTypes', ThreadsInv', SessionTypes',
           \A d \in Children : threads'[d].turns = threads[d].turns,
           \A d \in Children : threads[d].failed => threads'[d].failed,
           UNCHANGED <<tasks, reported, ended, overtaken>>,
           \/ UNCHANGED lines /\ \A d \in Children : threads'[d].announced => threads[d].announced
           \/ \E kind \in Kinds, state \in States :
                 /\ lines' = Append(lines, Line(kind, c, state)) /\ kind # "turn"
                 /\ SaysOver(Line(kind, c, state)) => ~Running(c)
                 /\ \A d \in Children : threads'[d].announced =>
                       threads[d].announced \/ (d = c /\ kind \in {"spawn", "activity"})
    PROVE  SubagentsInv'
<1>1. \A d \in Children :
          /\ Latest(d)' = Latest(d) /\ (Running(d)' => Running(d))
          /\ threads[d].failed => threads'[d].failed
          /\ \A n \in 1..Latest(d) : threads[d].turns[n] # "running" => threads'[d].turns[n] # "running"
  BY DEF Latest, Running
<1>2. CASE UNCHANGED lines /\ \A d \in Children : threads'[d].announced => threads[d].announced
  BY <1>1, <1>2, ServerStep
<1>3. CASE \E kind \in Kinds, state \in States :
              /\ lines' = Append(lines, Line(kind, c, state)) /\ kind # "turn"
              /\ SaysOver(Line(kind, c, state)) => ~Running(c)
              /\ \A d \in Children : threads'[d].announced =>
                    threads[d].announced \/ (d = c /\ kind \in {"spawn", "activity"})
  <2>1. PICK kind \in Kinds, state \in States :
              /\ lines' = Append(lines, Line(kind, c, state)) /\ kind # "turn"
              /\ SaysOver(Line(kind, c, state)) => ~Running(c)
              /\ \A d \in Children : threads'[d].announced =>
                    threads[d].announced \/ (d = c /\ kind \in {"spawn", "activity"})
    BY <1>3
  <2>2. PICK l : l = Line(kind, c, state) OBVIOUS
  <2>3. l \in LineTypes /\ l.kind = kind /\ l.of = c /\ l.turn = Latest(c) /\ Latest(c) \in Nat
    <3>1. ServerTypes /\ Latest(c) \in Nat BY DEF SubagentsInv, ServerTypes, Latest
    <3> QED BY <2>2, <3>1, LineMade
  <2>4. Writable(l) BY <2>1, <2>3 DEF Writable, ReadIsTrue, Kinds
  <2>5. SaysOver(l) => ~Running(l.of)' BY <1>1, <2>1, <2>2, <2>3
  <2> QED BY <1>1, <2>1, <2>2, <2>3, <2>4, <2>5, ServerStep
<1> QED BY <1>2, <1>3

\* What the app-server does leaves the session alone.
LEMMA SessionTypesKept ==
    ASSUME SessionTypes, UNCHANGED <<childVars, ended, overtaken>>
    PROVE  SessionTypes'
BY DEF SessionTypes, childVars

LEMMA SpawnsKeeps ==
    ASSUME SubagentsInv, NEW c \in Children, NEW notified \in BOOLEAN, Spawns(c, notified)
    PROVE  SubagentsInv'
<1> USE DEF SubagentsInv
<1>1. SessionTypes' BY SessionTypesKept DEF Spawns
<1>2. /\ UNCHANGED lines \/ lines' = Append(lines, Line("thread", c, "running"))
      /\ threads' = [threads EXCEPT ![c].made = TRUE] /\ UNCHANGED persisted
  BY DEF Spawns, Writes
<1>3. \A d \in Children : /\ threads'[d].turns = threads[d].turns /\ threads'[d].failed = threads[d].failed
                          /\ threads'[d].announced = threads[d].announced
  BY <1>2 DEF ServerTypes
<1>4. "thread" \in Kinds /\ "running" \in States /\ ~SaysOver(Line("thread", c, "running"))
  BY DEF Kinds, States, SaysOver, Line
<1>5. lines' \in Seq(LineTypes) BY <1>2, <1>4, LineMade, LineAppended DEF ServerTypes
<1>6. threads' \in [Children -> [made : BOOLEAN, announced : BOOLEAN, failed : BOOLEAN,
                                 turns : Seq(Statuses \cup {"running"})]]
  BY <1>2 DEF ServerTypes
<1>7. ServerTypes' /\ ThreadsInv' BY <1>2, <1>3, <1>5, <1>6 DEF ServerTypes, ThreadsInv, Latest
<1>8. UNCHANGED <<tasks, reported, ended, overtaken>> BY DEF Spawns, childVars
<1> QED BY <1>1, <1>2, <1>3, <1>4, <1>7, <1>8, WrittenKeeps

LEMMA AnnouncesKeeps ==
    ASSUME SubagentsInv, NEW c \in Children, Announces(c)
    PROVE  SubagentsInv'
<1> USE DEF SubagentsInv
<1>1. SessionTypes' BY SessionTypesKept DEF Announces
<1>2. /\ threads' = [threads EXCEPT ![c].announced = TRUE] /\ UNCHANGED persisted
      /\ \E kind \in {"spawn", "activity"}, state \in {StateOf(c), "running"} :
             lines' = Append(lines, Line(kind, c, state)) /\ (kind = "activity" => state = "running")
  BY DEF Announces, Writes
<1>3. \A d \in Children : /\ threads'[d].turns = threads[d].turns /\ threads'[d].failed = threads[d].failed
                          /\ d # c => threads'[d].announced = threads[d].announced
  BY <1>2 DEF ServerTypes
<1>4. PICK kind \in Kinds, state \in States :
          /\ kind \in {"spawn", "activity"} /\ lines' = Append(lines, Line(kind, c, state))
          /\ state # "running" => ~Running(c)
  BY <1>2, StateTrue DEF Kinds, States
<1>5. SaysOver(Line(kind, c, state)) => ~Running(c) BY <1>4, LineMade DEF SaysOver
<1>6. lines' \in Seq(LineTypes) BY <1>4, LineMade, LineAppended DEF ServerTypes
<1>7. threads' \in [Children -> [made : BOOLEAN, announced : BOOLEAN, failed : BOOLEAN,
                                 turns : Seq(Statuses \cup {"running"})]]
  BY <1>2 DEF ServerTypes
<1>8. ServerTypes' /\ ThreadsInv' BY <1>2, <1>3, <1>6, <1>7 DEF ServerTypes, ThreadsInv, Latest
<1>9. UNCHANGED <<tasks, reported, ended, overtaken>> BY DEF Announces, childVars
<1>10. \A d \in Children : threads'[d].announced => threads[d].announced \/ (d = c /\ kind \in {"spawn", "activity"})
  BY <1>3, <1>4
<1>11. kind # "turn" BY <1>4
<1> QED BY <1>1, <1>3, <1>4, <1>5, <1>8, <1>9, <1>10, <1>11, WrittenKeeps


LEMMA TurnBeginsKeeps ==
    ASSUME SubagentsInv, NEW c \in Children, TurnBegins(c)
    PROVE  SubagentsInv'
<1> USE DEF SubagentsInv
<1>1. SessionTypes' BY SessionTypesKept DEF TurnBegins
<1> DEFINE l == [kind |-> "turn", of |-> c, state |-> "running", turn |-> Latest(c) + 1]
<1>2. /\ threads' = [threads EXCEPT ![c].turns = Append(@, "running")] /\ UNCHANGED persisted
      /\ lines' = Append(lines, l) /\ ~threads[c].failed /\ Latest(c) < MaxTurns
  BY DEF TurnBegins, Writes
<1>3. threads[c].turns \in Seq(Statuses \cup {"running"}) /\ Latest(c) \in Nat BY DEF ServerTypes, Latest
<1>4. l \in LineTypes BY <1>3 DEF LineTypes, Kinds, States
<1>5. lines' \in Seq(LineTypes) BY <1>2, <1>4, LineAppended DEF ServerTypes
<1>6. Append(threads[c].turns, "running") \in Seq(Statuses \cup {"running"}) BY <1>3
<1>7. threads' \in [Children -> [made : BOOLEAN, announced : BOOLEAN, failed : BOOLEAN,
                                 turns : Seq(Statuses \cup {"running"})]]
  BY <1>2, <1>6 DEF ServerTypes
<1>8. ServerTypes' BY <1>2, <1>5, <1>7 DEF ServerTypes
<1>9. ThreadsInv'
  <2>1. /\ threads'[c].turns = Append(threads[c].turns, "running") /\ threads'[c].failed = threads[c].failed
        /\ \A d \in Children : d # c => threads'[d] = threads[d]
    BY <1>2 DEF ServerTypes
  <2>2. \A n \in 1..Latest(c) : threads'[c].turns[n] = threads[c].turns[n] BY <1>3, <2>1 DEF Latest
  <2>3. Latest(c)' = Latest(c) + 1 BY <1>3, <2>1 DEF Latest
  <2> SUFFICES ASSUME NEW d \in Children
               PROVE  /\ Latest(d)' <= MaxTurns
                      /\ threads'[d].failed => threads'[d].turns = << >>
                      /\ Len(persisted[d]) <= Latest(d)'
                      /\ \A n \in 1..Len(persisted[d]) : persisted[d][n] # "running" => threads'[d].turns[n] # "running"
    BY <1>2 DEF ThreadsInv
  <2>4. CASE d # c BY <2>1, <2>4 DEF ThreadsInv, Latest
  <2>5. CASE d = c
    <3>1. Len(persisted[c]) \in Nat /\ Len(persisted[c]) <= Latest(c) BY DEF ServerTypes, ThreadsInv
    <3>2. \A n \in 1..Len(persisted[c]) : n \in 1..Latest(c) BY <1>3, <3>1
    <3>3. \A n \in 1..Len(persisted[c]) : persisted[c][n] # "running" => threads[c].turns[n] # "running"
      BY DEF ThreadsInv
    <3>4. Latest(c) + 1 <= MaxTurns BY <1>2, <1>3, SubagentsAssumption DEF SubagentsAssumption
    <3>5. \A n \in 1..Len(persisted[c]) : persisted[c][n] # "running" => threads'[c].turns[n] # "running"
      BY <2>2, <3>2, <3>3
    <3>6. ~threads'[c].failed BY <1>2, <2>1
    <3>7. Latest(c)' <= MaxTurns /\ Len(persisted[c]) <= Latest(c)' BY <1>3, <2>3, <3>1, <3>4
    <3> QED BY <2>5, <3>5, <3>6, <3>7
  <2> QED BY <2>4, <2>5
<1> QED BY <1>1, <1>8, <1>9, TurnBeginsLines

LEMMA InitFailsKeeps ==
    ASSUME SubagentsInv, NEW c \in Children, InitFails(c)
    PROVE  SubagentsInv'
<1> USE DEF SubagentsInv
<1>1. SessionTypes' BY SessionTypesKept DEF InitFails
<1>2. /\ threads' = [threads EXCEPT ![c].failed = TRUE] /\ threads[c].turns = << >>
      /\ UNCHANGED lines /\ UNCHANGED persisted
  BY DEF InitFails
<1>3. \A d \in Children : /\ threads'[d].turns = threads[d].turns
                          /\ threads'[d].announced = threads[d].announced
                          /\ threads[d].failed => threads'[d].failed
                          /\ d # c => threads'[d].failed = threads[d].failed
  BY <1>2 DEF ServerTypes
<1>4. threads' \in [Children -> [made : BOOLEAN, announced : BOOLEAN, failed : BOOLEAN,
                                 turns : Seq(Statuses \cup {"running"})]]
  BY <1>2 DEF ServerTypes
<1>5. ServerTypes' /\ ThreadsInv' BY <1>2, <1>3, <1>4 DEF ServerTypes, ThreadsInv, Latest
<1>6. UNCHANGED <<tasks, reported, ended, overtaken>> BY DEF InitFails, childVars
<1> QED BY <1>1, <1>2, <1>3, <1>5, <1>6, WrittenKeeps

LEMMA PersistsKeeps ==
    ASSUME SubagentsInv, NEW c \in Children, Persists(c)
    PROVE  SubagentsInv'
<1> USE DEF SubagentsInv
<1>1. SessionTypes' BY SessionTypesKept DEF Persists
<1>2. persisted' = [persisted EXCEPT ![c] = threads[c].turns] /\ UNCHANGED <<lines, threads>> BY DEF Persists
<1>3. threads[c].turns \in Seq(Statuses \cup {"running"}) /\ Latest(c) \in Nat BY DEF ServerTypes, Latest
<1>4. ServerTypes' BY <1>2, <1>3 DEF ServerTypes
<1>5. ThreadsInv' BY <1>2, <1>3 DEF ServerTypes, ThreadsInv, Latest
<1>6. UNCHANGED <<tasks, reported, ended, overtaken>> BY DEF Persists, childVars
<1> QED BY <1>1, <1>2, <1>4, <1>5, <1>6, WrittenKeeps

LEMMA TurnFinishesKeeps ==
    ASSUME SubagentsInv, NEW c \in Children, NEW status \in Statuses, NEW notified \in BOOLEAN,
           TurnFinishes(c, status, notified)
    PROVE  SubagentsInv'
<1> USE DEF SubagentsInv
<1>1. SessionTypes' BY SessionTypesKept DEF TurnFinishes
<1>2. /\ Running(c) /\ threads' = [threads EXCEPT ![c].turns[Latest(c)] = status] /\ UNCHANGED persisted
      /\ UNCHANGED lines \/ lines' = Append(lines, Line("end", c, status))
  BY DEF TurnFinishes, Writes
<1>3. /\ threads[c].turns \in Seq(Statuses \cup {"running"}) /\ Latest(c) \in Nat \ {0}
      /\ \A d \in Children : Latest(d) \in Nat
  BY <1>2 DEF ServerTypes, Latest, Running
<1>4. threads'[c].turns = [threads[c].turns EXCEPT ![Latest(c)] = status] BY <1>2 DEF ServerTypes
<1>5. /\ [threads[c].turns EXCEPT ![Latest(c)] = status] \in Seq(Statuses \cup {"running"})
      /\ Len([threads[c].turns EXCEPT ![Latest(c)] = status]) = Latest(c)
  BY <1>3 DEF Latest
<1>6. threads' \in [Children -> [made : BOOLEAN, announced : BOOLEAN, failed : BOOLEAN,
                                 turns : Seq(Statuses \cup {"running"})]]
  BY <1>2, <1>5 DEF ServerTypes
<1>7. \A d \in Children : /\ d # c => threads'[d] = threads[d]
                          /\ threads'[d].announced = threads[d].announced
                          /\ threads'[d].failed = threads[d].failed
  BY <1>2 DEF ServerTypes
<1>8. status # "running" BY DEF Statuses
<1>9. \A n \in 1..Latest(c) : threads'[c].turns[n] = IF n = Latest(c) THEN status ELSE threads[c].turns[n]
  BY <1>3, <1>4 DEF Latest
<1>10. \A d \in Children : /\ Latest(d)' = Latest(d)
                           /\ \A n \in 1..Latest(d) : threads[d].turns[n] # "running" => threads'[d].turns[n] # "running"
  BY <1>4, <1>5, <1>7, <1>8, <1>9 DEF Latest
<1>11. ~Running(c)' /\ \A d \in Children : Running(d)' => Running(d)
  BY <1>3, <1>4, <1>5, <1>9, <1>7, <1>8 DEF Last, Latest, Running
<1>12. "end" \in Kinds /\ status \in States BY DEF Kinds, States
<1>13. lines' \in Seq(LineTypes) BY <1>2, <1>12, LineMade, LineAppended DEF ServerTypes
<1>14. ServerTypes' BY <1>2, <1>6, <1>13 DEF ServerTypes
<1>15. ThreadsInv'
  <2>1. \A d \in Children : Len(persisted[d]) \in Nat BY DEF ServerTypes
  <2>2. threads[c].turns # << >> /\ ~threads[c].failed BY <1>2 DEF Running, ThreadsInv
  <2>3. \A d \in Children : threads'[d].failed => threads'[d].turns = << >> BY <1>7, <2>2 DEF ThreadsInv
  <2>4. \A d \in Children, n \in Nat : n \in 1..Len(persisted[d]) => n \in 1..Latest(d)
    BY <1>3, <2>1 DEF ThreadsInv
  <2>5. \A d \in Children : \A n \in 1..Len(persisted[d]) : persisted[d][n] # "running" => threads'[d].turns[n] # "running"
    BY <1>10, <2>1, <2>4 DEF ThreadsInv
  <2>6. \A d \in Children : Latest(d)' <= MaxTurns /\ Len(persisted[d]) <= Latest(d)' BY <1>10 DEF ThreadsInv
  <2> QED BY <1>2, <2>3, <2>5, <2>6 DEF ThreadsInv
<1>16. UNCHANGED <<tasks, reported, ended, overtaken>> BY DEF TurnFinishes, childVars
<1>17. CASE UNCHANGED lines BY <1>1, <1>7, <1>10, <1>11, <1>14, <1>15, <1>16, <1>17, ServerStep
<1>18. CASE lines' = Append(lines, Line("end", c, status))
  <2>1. PICK l : l = Line("end", c, status) OBVIOUS
  <2>2. l \in LineTypes /\ l.kind = "end" /\ l.of = c /\ l.turn = Latest(c) BY <1>12, <2>1, LineMade
  <2>3. Writable(l) BY <1>3, <2>2 DEF Writable, ReadIsTrue
  <2>4. ~Running(l.of)' BY <1>11, <2>2
  <2> QED BY <1>1, <1>7, <1>10, <1>11, <1>14, <1>15, <1>16, <1>18, <2>1, <2>2, <2>3, <2>4, ServerStep
<1> QED BY <1>2, <1>17, <1>18

LEMMA RootItemKeeps ==
    ASSUME SubagentsInv, NEW c \in Children, NEW kind \in {"wait", "interacted", "interrupted", "close", "sent"},
           RootItem(c, kind)
    PROVE  SubagentsInv'
<1> USE DEF SubagentsInv
<1>1. SessionTypes' BY SessionTypesKept DEF RootItem
<1> DEFINE state == IF kind = "close" THEN "stopped" ELSE StateOf(c)
<1>2. /\ lines' = Append(lines, Line(kind, c, state)) /\ UNCHANGED <<threads, persisted>>
      /\ kind \in {"close", "interrupted"} => ~Running(c)
  BY DEF RootItem, Writes
<1>3. kind \in Kinds /\ kind # "turn" /\ state \in States /\ (kind = "wait" /\ state # "running" => ~Running(c))
  BY StateTrue DEF Kinds, States, Statuses
<1> HIDE DEF state
<1>4. SaysOver(Line(kind, c, state)) => ~Running(c) BY <1>2, <1>3, LineMade DEF SaysOver
<1>5. lines' \in Seq(LineTypes) BY <1>2, <1>3, LineMade, LineAppended DEF ServerTypes
<1>6. ServerTypes' /\ ThreadsInv' BY <1>2, <1>5 DEF ServerTypes, ThreadsInv, Latest
<1>7. UNCHANGED <<tasks, reported, ended, overtaken>> BY DEF RootItem, childVars
<1> QED BY <1>1, <1>2, <1>3, <1>4, <1>6, <1>7, WrittenKeeps


\* What the pollers ask and hear.
LEMMA PollsKeeps ==
    ASSUME SubagentsInv, NEW p \in pollers, Polls(p) \/ ReadTimesOut(p)
    PROVE  SubagentsInv'
<1> USE DEF SubagentsInv
<1>1. p \in PollerTypes BY DEF SessionTypes
<1>2. [p EXCEPT !.at = "asked"] \in PollerTypes /\ [p EXCEPT !.at = "waiting"] \in PollerTypes
  BY <1>1 DEF PollerTypes
<1>3. /\ pollers' \subseteq pollers \cup {[p EXCEPT !.at = "asked"], [p EXCEPT !.at = "waiting"]}
      /\ UNCHANGED <<serverVars, lines, tasks, ended, reported, overtaken>>
  BY DEF Polls, ReadTimesOut
<1>4. SessionTypes' BY <1>2, <1>3 DEF SessionTypes
<1>5. ServerTypes' /\ ThreadsInv' BY <1>3 DEF ServerTypes, ThreadsInv, Latest, serverVars
<1>6. LinesInv' /\ ReadsInv' /\ KnownInv' /\ TasksInv'
  BY <1>3 DEF LinesInv, ReadsInv, ReadIsTrue, KnownInv, TasksInv, HasHeard, IsTurn, Introduced, Latest, Running,
              Quiet, Unheard, serverVars
<1> QED BY <1>4, <1>5, <1>6

LEMMA AnswersKeeps ==
    ASSUME SubagentsInv, NEW p \in pollers, Answers(p)
    PROVE  SubagentsInv'
<1> USE DEF SubagentsInv
<1> DEFINE c == p.of
           turns == persisted[c]
           state == CASE turns # << >> -> Last(turns)
                      [] turns = << >> /\ threads[c].failed -> "failed"
                      [] OTHER -> "running"
<1>1. p \in PollerTypes /\ c \in Children BY DEF SessionTypes, PollerTypes
<1>2. /\ lines' = Append(lines, [kind |-> "read", of |-> c, state |-> state, turn |-> Len(turns), poller |-> p])
      /\ pollers' = (pollers \ {p}) \cup {[p EXCEPT !.at = "answered"]}
      /\ UNCHANGED <<serverVars, tasks, ended, reported, overtaken>>
  BY DEF Answers, Writes
<1>3. /\ turns \in Seq(Statuses \cup {"running"}) /\ Len(turns) \in Nat /\ Len(turns) <= Latest(c)
      /\ Latest(c) \in Nat
  BY <1>1 DEF ServerTypes, ThreadsInv, Latest
<1>4. /\ state \in States
      /\ state # "running" => /\ Len(turns) = 0 => threads[c].failed
                              /\ Len(turns) > 0 => threads[c].turns[Len(turns)] # "running"
  <2>1. CASE turns # << >>
    <3>1. Len(turns) \in 1..Len(turns) /\ state = turns[Len(turns)] /\ turns[Len(turns)] \in Statuses \cup {"running"}
      BY <1>3, <2>1 DEF Last
    <3> HIDE DEF state
    <3>2. turns[Len(turns)] # "running" => threads[c].turns[Len(turns)] # "running" BY <1>1, <3>1 DEF ThreadsInv
    <3> HIDE DEF turns
    <3> QED BY <3>1, <3>2 DEF States
  <2>2. CASE turns = << >> BY <2>2 DEF States
  <2> QED BY <2>1, <2>2
<1> HIDE DEF state, turns
<1>5. PICK l : l = [kind |-> "read", of |-> c, state |-> state, turn |-> Len(turns), poller |-> p] OBVIOUS
<1>6. l \in LineTypes /\ l.kind = "read" /\ l.of = c /\ l.state = state /\ l.turn = Len(turns)
  BY <1>1, <1>3, <1>4, <1>5 DEF LineTypes
<1>7. Writable(l) /\ ~SaysOver(l) BY <1>3, <1>4, <1>6 DEF Writable, ReadIsTrue, SaysOver
<1>8. [p EXCEPT !.at = "answered"] \in PollerTypes BY <1>1 DEF PollerTypes
<1>9. SessionTypes' BY <1>2, <1>8 DEF SessionTypes
<1>10. lines' \in Seq(LineTypes) BY <1>2, <1>5, <1>6, LineAppended DEF ServerTypes
<1>11. ServerTypes' /\ ThreadsInv' BY <1>2, <1>10 DEF ServerTypes, ThreadsInv, Latest, serverVars
<1>12. \A d \in Children :
          /\ Latest(d)' = Latest(d) /\ (Running(d)' => Running(d)) /\ threads' = threads
  BY <1>2 DEF Latest, Running, serverVars
<1>13. lines' = Append(lines, l) /\ UNCHANGED <<tasks, reported, ended, overtaken>> BY <1>2, <1>5
<1> QED BY <1>6, <1>7, <1>9, <1>11, <1>12, <1>13, ServerStep

\* Nothing is claimed of a session that is over.
LEMMA EndsKeeps ==
    ASSUME SubagentsInv, Ends
    PROVE  SubagentsInv'
<1> USE DEF SubagentsInv
<1>1. ended' = TRUE /\ UNCHANGED <<serverVars, lines, overtaken>> /\ pollers' = {} BY DEF Ends
<1>2. PICK left \in SUBSET Children :
          /\ tasks' = [c \in Children |-> IF c \in left THEN [tasks[c] EXCEPT !.terminal = TRUE] ELSE tasks[c]]
          /\ reported' = [c \in Children |-> IF c \in left THEN Append(reported[c], NoTurn) ELSE reported[c]]
  BY DEF Ends
<1>3. \A c \in Children : /\ [tasks[c] EXCEPT !.terminal = TRUE] \in TaskTypes /\ tasks[c] \in TaskTypes
                          /\ Append(reported[c], NoTurn) \in Seq(Nat) /\ reported[c] \in Seq(Nat)
  <2> SUFFICES ASSUME NEW c \in Children
               PROVE  /\ [tasks[c] EXCEPT !.terminal = TRUE] \in TaskTypes
                      /\ Append(reported[c], NoTurn) \in Seq(Nat)
    BY DEF SessionTypes
  <2>1. PICK task \in TaskTypes : task = tasks[c] BY DEF SessionTypes
  <2>2. [task EXCEPT !.terminal = TRUE] \in TaskTypes BY DEF TaskTypes
  <2>3. NoTurn \in Nat /\ reported[c] \in Seq(Nat) BY DEF SessionTypes, NoTurn
  <2>4. Append(reported[c], NoTurn) \in Seq(Nat) BY <2>3, AppendProperties
  <2> QED BY <2>1, <2>2, <2>4
<1>4. SessionTypes' BY <1>1, <1>2, <1>3 DEF SessionTypes
<1>5. ServerTypes' /\ ThreadsInv' BY <1>1 DEF ServerTypes, ThreadsInv, Latest, serverVars
<1>6. LinesInv' /\ ReadsInv' BY <1>1 DEF LinesInv, ReadsInv, ReadIsTrue, IsTurn, Latest, Running, serverVars
<1>7. KnownInv' /\ TasksInv' BY <1>1 DEF KnownInv, TasksInv
<1> QED BY <1>4, <1>5, <1>6, <1>7

LEMMA SubagentsInvStarts == SubagentsInit => SubagentsInv
<1> SUFFICES ASSUME SubagentsInit
             PROVE  SubagentsInv
  OBVIOUS
<1>1. ServerTypes BY DEF SubagentsInit, ServerTypes
<1>2. SessionTypes
  <2>1. [known |-> FALSE, terminal |-> FALSE, generation |-> 0, active |-> NoTurn] \in TaskTypes
    BY DEF TaskTypes, NoTurn
  <2>2. << >> \in Seq(Nat) OBVIOUS
  <2>3. tasks \in [Children -> TaskTypes] BY <2>1 DEF SubagentsInit
  <2>4. reported \in [Children -> Seq(Nat)] BY <2>2 DEF SubagentsInit
  <2> QED BY <2>3, <2>4 DEF SubagentsInit, SessionTypes
<1>3. \A c \in Children : threads[c].turns = << >> /\ persisted[c] = << >> /\ Len(threads[c].turns) = 0
  BY DEF SubagentsInit
<1>4. lines = << >> /\ DOMAIN lines = {} BY DEF SubagentsInit
<1>5. ThreadsInv BY <1>3, SubagentsAssumption DEF ThreadsInv, Latest, SubagentsAssumption
<1>6. LinesInv /\ ReadsInv BY <1>4 DEF LinesInv, ReadsInv
<1>7. KnownInv BY <1>4 DEF KnownInv, SubagentsInit
<1>8. TasksInv
  <2> SUFFICES ASSUME NEW c \in Children, NEW k \in Nat, HasHeard(c, k)
               PROVE  Sound(tasks[c], reported[c], k, Quiet(c))
    BY DEF TasksInv
  <2>1. k = 0 BY <1>3 DEF HasHeard, Latest
  <2>2. ~tasks[c].terminal /\ ~tasks[c].known /\ tasks[c].active = NoTurn /\ reported[c] = << >>
    BY DEF SubagentsInit
  <2> QED BY <2>1, <2>2 DEF Sound, Rising
<1> QED BY <1>1, <1>2, <1>5, <1>6, <1>7, <1>8 DEF SubagentsInv

LEMMA SubagentsInvKept == SubagentsInv /\ [SubagentsNext]_subagentVars => SubagentsInv'
<1> SUFFICES ASSUME SubagentsInv, [SubagentsNext]_subagentVars
             PROVE  SubagentsInv'
  OBVIOUS
<1>1. ASSUME NEW c \in Children, \E notified \in BOOLEAN : Spawns(c, notified)
      PROVE  SubagentsInv'
  BY <1>1, SpawnsKeeps
<1>2. ASSUME NEW c \in Children, Announces(c) \/ TurnBegins(c) \/ InitFails(c) \/ Persists(c)
      PROVE  SubagentsInv'
  BY <1>2, AnnouncesKeeps, TurnBeginsKeeps, InitFailsKeeps, PersistsKeeps
<1>3. ASSUME NEW c \in Children, \E status \in Statuses, notified \in BOOLEAN : TurnFinishes(c, status, notified)
      PROVE  SubagentsInv'
  BY <1>3, TurnFinishesKeeps
<1>4. ASSUME NEW c \in Children,
             \E kind \in {"wait", "interacted", "interrupted", "close", "sent"} : RootItem(c, kind)
      PROVE  SubagentsInv'
  BY <1>4, RootItemKeeps
<1>5. CASE Hears BY <1>5, HearsKeeps, SubagentsAssumption
<1>6. CASE Ends BY <1>6, EndsKeeps
<1>7. ASSUME NEW p \in pollers, Polls(p) \/ Answers(p) \/ ReadTimesOut(p)
      PROVE  SubagentsInv'
  BY <1>7, PollsKeeps, AnswersKeeps
<1>8. CASE UNCHANGED subagentVars
  BY <1>8 DEF SubagentsInv, ServerTypes, SessionTypes, ThreadsInv, LinesInv, ReadsInv, ReadIsTrue, KnownInv, TasksInv,
              HasHeard, IsTurn, Introduced, Latest, Running, Quiet, Unheard, subagentVars, serverVars, childVars
<1> QED BY <1>1, <1>2, <1>3, <1>4, <1>5, <1>6, <1>7, <1>8 DEF SubagentsNext

\* A set of numbers that is not empty has a least one.
LEMMA Least ==
    ASSUME NEW T, T \subseteq Nat, T # {}
    PROVE  \E x \in T : \A y \in T : x <= y
<1> DEFINE R == StrictSubsetOrdering(Nat)
           F == FiniteSubsetsOf(Nat)
           B == {0..x : x \in T}
<1>1. IsWellFoundedOn(R, F) BY FS_StrictSubsetOrderingWellFounded
<1>2. B \subseteq F /\ B # {}
  <2>1. \A x \in T : 0..x \in SUBSET Nat /\ 0 \in Int /\ x \in Int OBVIOUS
  <2>2. \A x \in T : IsFiniteSet(0..x) BY <2>1, FS_Interval
  <2>3. \A x \in T : 0..x \in F BY <2>1, <2>2 DEF FiniteSubsetsOf
  <2> QED BY <2>3
<1>3. PICK b \in B : \A d \in B : ~(<<d, b>> \in R)
  <2> HIDE DEF R, F, B
  <2> QED BY <1>1, <1>2, WFMin
<1>4. PICK x \in T : b = 0..x BY <1>3
<1>5. ASSUME NEW y \in T, y < x
      PROVE  FALSE
  <2>1. 0..y \in SUBSET Nat /\ 0..x \in SUBSET Nat /\ 0..y \subseteq 0..x /\ 0..y # 0..x BY <1>5
  <2>2. <<0..y, 0..x>> \in R BY <2>1 DEF StrictSubsetOrdering
  <2> QED BY <1>3, <1>4, <2>2
<1> QED BY <1>5

\* Some turn of every child was heard of last: the one before the first that is announced
\* in a line, or the latest.
LEMMA SomethingIsHeard ==
    ASSUME SubagentsInv, NEW c \in Children
    PROVE  /\ \E k \in Nat : HasHeard(c, k)
           /\ ~Unheard(c) => HasHeard(c, Latest(c)) /\ Latest(c) \in Nat
<1> USE DEF SubagentsInv
<1>1. Latest(c) \in Nat /\ \A j \in DOMAIN lines : lines[j].turn \in Nat BY LineFields DEF ServerTypes, Latest
<1>2. CASE ~Unheard(c) BY <1>1, <1>2 DEF HasHeard, Unheard, IsTurn
<1>3. CASE Unheard(c)
  <2> DEFINE T == {lines[j].turn : j \in {i \in DOMAIN lines : IsTurn(i, c)}}
  <2>1. T \subseteq Nat /\ T # {} BY <1>1, <1>3 DEF Unheard, IsTurn
  <2>2. PICK n \in T : \A m \in T : n <= m
    <3> HIDE DEF T
    <3> QED BY <2>1, Least
  <2>3. PICK j \in DOMAIN lines : IsTurn(j, c) /\ lines[j].turn = n BY <2>2
  <2>4. n \in Nat /\ n > 0 /\ n <= Latest(c) BY <1>1, <2>3 DEF LinesInv, IsTurn
  <2>5. \A i \in DOMAIN lines : IsTurn(i, c) => lines[i].turn > n - 1
    <3> SUFFICES ASSUME NEW i \in DOMAIN lines, IsTurn(i, c)
                 PROVE  n <= lines[i].turn
      BY <1>1, <2>4
    <3>1. lines[i].turn \in T OBVIOUS
    <3> QED BY <2>2, <3>1
  <2>6. HasHeard(c, n - 1) BY <1>1, <2>3, <2>4, <2>5 DEF HasHeard
  <2> QED BY <1>2, <2>4, <2>6
<1> QED BY <1>1, <1>2, <1>3

\* What the invariant is for.
LEMMA ChildrenTrueHolds == SubagentsInv => ChildrenTrue
<1> SUFFICES ASSUME SubagentsInv, ~ended, NEW c \in Children \ overtaken
             PROVE  /\ tasks[c].known /\ tasks[c].terminal /\ Running(c) => Unheard(c)
                    /\ Rising(reported[c])
  BY DEF ChildrenTrue
<1>1. PICK k \in Nat : HasHeard(c, k) BY SomethingIsHeard
<1>2. Sound(tasks[c], reported[c], k, Quiet(c)) BY <1>1 DEF SubagentsInv, TasksInv
<1> QED BY <1>2 DEF Sound, Quiet

-----------------------------------------------------------------------------
(* The theorem                                                             *)

\* Whatever a poll, an item of the root or a late line still says of its previous turn
\* (observeBackgroundTask, observeBackgroundTaskThread), a child that runs is not taken
\* for ended, and no turn of it is reported twice or out of order; for any number of
\* children and turns.
THEOREM ChildrenAreTrue == SubagentsSpec => []ChildrenTrue
<1>1. SubagentsInit => SubagentsInv BY SubagentsInvStarts
<1>2. SubagentsInv /\ [SubagentsNext]_subagentVars => SubagentsInv' BY SubagentsInvKept
<1>3. SubagentsInv => ChildrenTrue BY ChildrenTrueHolds
<1> QED BY <1>1, <1>2, <1>3, PTL DEF SubagentsSpec

=============================================================================
