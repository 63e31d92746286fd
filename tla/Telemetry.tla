------------------------------- MODULE Telemetry -------------------------------
(***************************************************************************)
(* TelemetryStore (packages/agent/src/telemetry/store.ts) with the two     *)
(* things that fill it: a Claude or Codex session, whose refresh handlers  *)
(* ask the runtime while it compacts, changes its model and is signed in   *)
(* to another account; and an attachment that observes the rows of a       *)
(* transcript, from any place and as often as its host asks.               *)
(*                                                                         *)
(* An answer settles its request when its line is read; the handler that   *)
(* awaits it goes on later, when the rest of the chunk has been handled.   *)
(*                                                                         *)
(* External: the runtime, which answers with what it read when it took a   *)
(* request up, and tells of every change when it makes it, in one stream.  *)
(***************************************************************************)
EXTENDS Naturals, Sequences, FiniteSets, FiniteSetsExt

CONSTANTS
    MaxChanges,       \* bound: what happens in the runtime
    MaxUserReads,     \* bound: reads of each kind that the host asks for
    MaxTimeouts,      \* bound: reads that are given up
    MaxRows,          \* bound: rows of the transcript
    FirstReadCrossed  \* TRUE: the model may change before a context was ever observed

ASSUME TelemetryAssumption ==
    /\ {MaxChanges, MaxUserReads, MaxTimeouts, MaxRows} \subseteq Nat
    /\ FirstReadCrossed \in BOOLEAN

VARIABLES
    tele,      \* the TelemetryStore
    source,    \* "claude", "codex" or "rows"
    runtime,   \* the account signed in to, the compactions, what it has been asked
    stdout,    \* the lines of the runtime that the session has not read
    rateRead,  \* rateFlight and where its handler is
    ctxRead,   \* contextFlight and where its handler is
    auto,      \* contextRefreshObserved, and the flags of requestContextRefresh
    rows,      \* the rows of the transcript, in the order of their times
    known      \* history: updates taken in since the account last changed, changes seen, reads made

teleVars == <<tele, source, runtime, stdout, rateRead, ctxRead, auto, rows, known>>

\* A window with an id of its own, and a row of a list that is replaced as one.
Buckets == {"five_hour", "limits:row"}
Collections == {"limits"}
Members(c) == {b \in Buckets : b = "limits:row"}
CollectionsOf(b) == {c \in Collections : b \in Members(c)}

-----------------------------------------------------------------------------
(* The store.  A time of 0 stands for -Infinity and for a bucket there is not; *)
(* authRevision and contextRevision are compared only with what they were when *)
(* a read began, so a read says whether they moved.                            *)

NoBucket == [at |-> 0, of |-> 0]
NoRates == [there |-> FALSE, id |-> 0, at |-> 0, buckets |-> [b \in Buckets |-> NoBucket]]
NoContext == [at |-> 0, changes |-> 0]

NewStore ==
    [rates |-> NoRates, replacedAt |-> 0, listAt |-> [c \in Collections |-> 0],
     removedAt |-> [b \in Buckets |-> 0], rateSupport |-> "unknown", unavailable |-> FALSE,
     context |-> NoContext, invalid |-> FALSE, contextSupport |-> "unknown", closed |-> FALSE]

Shown(s) == {b \in Buckets : s.rates.buckets[b].at > 0}

\* Another account is named than the one the snapshot names.
ScopeChanged(s, u) == s.rates.there /\ 0 \notin {u.id, s.rates.id} /\ u.id # s.rates.id

\* Mutant: a removal is not remembered.
ForgetsRemovals(s, u) ==
    LET left == Shown(s) \ u.removed
        taken == {b \in u.has : b \in left => u.at >= s.rates.buckets[b].at}
    IN  [s EXCEPT !.rates.buckets = [b \in Buckets |->
            IF b \in taken THEN [at |-> u.at, of |-> u.of]
            ELSE IF b \in left THEN @[b] ELSE NoBucket]]

\* updateRates() with part of the buckets: lists that are replaced, buckets that are
\* removed, then the buckets told, each against the newest that is known of it.
Merged(s, u) ==
    LET bucket == s.rates.buckets
        lists == {c \in u.lists : u.at >= s.replacedAt /\ u.at >= s.listAt[c]}
        listAt == [c \in Collections |-> IF c \in lists THEN u.at ELSE s.listAt[c]]
        left == {b \in Shown(s) : CollectionsOf(b) \cap lists # {} => bucket[b].at > u.at}
        removed == {b \in u.removed : /\ u.at >= s.replacedAt /\ u.at >= s.removedAt[b]
                                      /\ b \in left => u.at >= bucket[b].at}
        removedAt == [b \in Buckets |-> IF b \in removed THEN u.at ELSE s.removedAt[b]]
        taken == {b \in u.has : /\ u.at >= s.replacedAt /\ u.at >= removedAt[b]
                                /\ \A c \in CollectionsOf(b) : u.at >= listAt[c]
                                /\ b \in left \ removed => u.at >= bucket[b].at}
        newer == u.at >= s.rates.at
    IN  [s EXCEPT !.listAt = listAt,
                  !.removedAt = [b \in Buckets |-> IF b \in taken THEN 0 ELSE removedAt[b]],
                  !.rates = [there |-> TRUE,
                             id |-> IF newer /\ u.id # 0 THEN u.id ELSE s.rates.id,
                             at |-> IF newer THEN u.at ELSE s.rates.at,
                             buckets |-> [b \in Buckets |->
                                 IF b \in taken THEN [at |-> u.at, of |-> u.of]
                                 ELSE IF b \in left \ removed THEN bucket[b] ELSE NoBucket]]]

\* updateRates() with all of them, for another account, or for the first time.
TakesWhole(s, u) ==
    [s EXCEPT !.rates = [there |-> TRUE, id |-> u.id, at |-> u.at,
                         buckets |-> [b \in Buckets |-> IF b \in u.has
                                                        THEN [at |-> u.at, of |-> u.of] ELSE NoBucket]],
              !.replacedAt = IF u.mode = "replace" THEN u.at ELSE 0,
              !.listAt = [c \in Collections |-> IF c \in u.lists THEN u.at ELSE 0],
              !.removedAt = [b \in Buckets |-> IF b \in u.removed THEN u.at ELSE 0]]

\* An update of everything that is older than the snapshot changes nothing.
Outdated(s, u) == u.mode = "replace" /\ ~ScopeChanged(s, u) /\ s.rates.there /\ u.at < s.rates.at

UpdateRates(s, u) ==
    IF s.closed \/ Outdated(s, u) THEN s
    ELSE [(IF u.mode = "merge" /\ s.rates.there /\ ~ScopeChanged(s, u)
           THEN Merged(s, u) ELSE TakesWhole(s, u))
          EXCEPT !.rateSupport = "supported", !.unavailable = FALSE]

\* resetRates(): nothing of the account before is kept; the transport is asked anew.
ResetRates(s) ==
    [s EXCEPT !.rates = NoRates, !.replacedAt = 0, !.listAt = [c \in Collections |-> 0],
              !.removedAt = [b \in Buckets |-> 0], !.rateSupport = "unknown", !.unavailable = FALSE]

\* setRateLimitSupport("unsupported"), setContextSupport("unsupported").
NoRateSupport(s) == [s EXCEPT !.rates = NoRates, !.rateSupport = "unsupported"]
NoContextSupport(s) == [s EXCEPT !.context = NoContext, !.contextSupport = "unsupported"]

\* setContext(): the older of two observations changes nothing.
SetContext(s, v) ==
    IF s.closed \/ v.at < s.context.at THEN s
    ELSE [s EXCEPT !.context = v, !.contextSupport = "supported", !.invalid = FALSE]

InvalidateContext(s) == [s EXCEPT !.invalid = TRUE]
UnavailableRates(s) == [s EXCEPT !.unavailable = TRUE]
CloseStore(s) == [s EXCEPT !.closed = TRUE, !.invalid = TRUE, !.unavailable = TRUE]

\* getContext(): fresh, but for the age.
ContextFresh(s) == s.contextSupport = "supported" /\ s.context.at > 0 /\ ~s.invalid

-----------------------------------------------------------------------------
(* What an update says: the buckets told, those told to be gone, the lists told *)
(* whole.  `of` is the account it was read from, `id` the one it names.         *)

Update(mode, at, id, of, has, removed, lists) ==
    [mode |-> mode, at |-> at, id |-> id, of |-> of, has |-> has, removed |-> removed, lists |-> lists]

\* claudeUsageRateLimits(): a window is told, told to be null or left out; a list there
\* is is whole.  Without a mode, a report with nothing in it says that there is nothing.
ClaudeUsage(window, list, mode, at, of) ==
    Update(IF mode # "none" THEN mode ELSE IF window = "absent" /\ list = "absent" THEN "replace" ELSE "merge",
           at, 0, of,
           (IF window = "told" THEN {"five_hour"} ELSE {}) \cup (IF list = "row" THEN {"limits:row"} ELSE {}),
           IF window = "null" THEN {"five_hour"} ELSE {},
           IF list = "absent" THEN {} ELSE {"limits"})

\* claudeRateLimitEvent(): windows and the active one; nothing is ever told to be gone.
ClaudeEvent(at, of) == Update("merge", at, 0, of, {"five_hour"}, {}, {})

\* codexRateLimits(): per pool its windows; null is told, the account only if it is named.
CodexRates(window, mode, at, id, of) ==
    Update(mode, at, id, of, IF window = "told" THEN {"five_hour"} ELSE {},
           IF window = "null" THEN {"five_hour"} ELSE {}, {})

Windows == {"told", "null", "absent"}
Lists == {"row", "empty", "absent"}
RowUpdates(at) ==
    {ClaudeUsage(w, l, "none", at, 1) : w \in Windows, l \in Lists} \cup {ClaudeEvent(at, 1)}
        \cup {CodexRates(w, "merge", at, 0, 1) : w \in Windows}

-----------------------------------------------------------------------------
(* The runtime *)

Accounts == 1..(MaxChanges + 1)

\* A chatgpt account has plan windows; every other one in turn is an API key.
ServiceBacked(account) == account % 2 = 1

Line(kind) == [kind |-> kind]
Tells(line) == stdout' = Append(stdout, line)

Changes == runtime.account + runtime.changes + runtime.others - 1

\* Signed in to another account.
Switches ==
    /\ source # "rows" /\ Changes < MaxChanges
    /\ runtime' = [runtime EXCEPT !.account = @ + 1]
    /\ Tells(Line("auth"))
    /\ UNCHANGED <<tele, source, rateRead, ctxRead, auto, rows, known>>

\* A compaction, or another model: what the context was says nothing any more.
ContextChanges(kind) ==
    /\ source = "claude" /\ Changes < MaxChanges
    /\ kind = "model" /\ ~FirstReadCrossed => tele.context.at > 0
    /\ runtime' = [runtime EXCEPT !.changes = @ + 1]
    /\ Tells(Line(kind))
    /\ UNCHANGED <<tele, source, rateRead, ctxRead, auto, rows, known>>

\* A turn ends.
ResultTold ==
    /\ source = "claude" /\ Changes < MaxChanges
    /\ runtime' = [runtime EXCEPT !.others = @ + 1]
    /\ Tells(Line("result"))
    /\ UNCHANGED <<tele, source, rateRead, ctxRead, auto, rows, known>>

\* rate_limit_event, account/rateLimits/updated.
Pushes(id) ==
    /\ source # "rows" /\ Changes < MaxChanges
    /\ id \in IF source = "codex" THEN {0, runtime.account} ELSE {0}
    /\ runtime' = [runtime EXCEPT !.others = @ + 1]
    /\ Tells([kind |-> "rates",
              update |-> IF source = "claude" THEN ClaudeEvent(1, runtime.account)
                         ELSE CodexRates("told", "merge", 1, id, runtime.account)])
    /\ UNCHANGED <<tele, source, rateRead, ctxRead, auto, rows, known>>

\* A request is taken up, with what is so then.
TakesUp(r) ==
    /\ r \in runtime.asked /\ r.of = 0
    /\ runtime' = [runtime EXCEPT !.asked =
           (@ \ {r}) \cup {[r EXCEPT !.of = runtime.account, !.changes = runtime.changes]}]
    /\ UNCHANGED <<tele, source, stdout, rateRead, ctxRead, auto, rows, known>>

\* It is answered: with what it asks for, with nothing of use, that there is no such
\* thing, or with an error.
Outcomes == {"ok", "nothing", "unsupported", "error"}
Answers(r, how) ==
    /\ r \in runtime.asked /\ r.of > 0
    /\ r.what = "account" => how \in {"ok", "error"}
    /\ runtime' = [runtime EXCEPT !.asked = @ \ {r}]
    /\ Tells([kind |-> "answer", what |-> r.what, id |-> r.id, of |-> r.of, changes |-> r.changes, how |-> how])
    /\ UNCHANGED <<tele, source, rateRead, ctxRead, auto, rows, known>>

-----------------------------------------------------------------------------
(* The session.  A request that was given up keeps its id until it is answered. *)

Nothing == [kind |-> "none", what |-> "none", id |-> 0, of |-> 0, changes |-> 0, how |-> "none"]
Idle == [at |-> "none", id |-> 0, moved |-> FALSE, answer |-> Nothing]

InUse == {r.id : r \in runtime.asked}
         \cup {stdout[n].id : n \in {m \in DOMAIN stdout : stdout[m].kind = "answer"}}
FreshId == CHOOSE i \in 1..(Cardinality(InUse) + 1) : i \notin InUse

\* telemetryControl(), boundedRpcRequest(), and what waits for the answer.
AsksFor(what) == runtime' = [runtime EXCEPT !.asked =
                             @ \cup {[what |-> what, id |-> FreshId, of |-> 0, changes |-> 0]}]
Awaiting == [Idle EXCEPT !.at = "asked", !.id = FreshId]

\* The account, or what the context is, changed under a read.
Moved(read) == [read EXCEPT !.moved = read.at # "none"]

\* refresh() of the rate limits: it joins the read there is, or starts one; Codex asks
\* for the account first.
RefreshRates ==
    /\ source # "rows" /\ ~tele.closed /\ tele.rateSupport # "unsupported"
    /\ rateRead.at = "none" /\ known.rateReads < MaxUserReads
    /\ AsksFor(IF source = "codex" THEN "account" ELSE "rates")
    /\ rateRead' = Awaiting
    /\ known' = [known EXCEPT !.rateReads = @ + 1]
    /\ UNCHANGED <<tele, source, stdout, ctxRead, auto, rows>>

\* refresh() of the context.
RefreshContext ==
    /\ source = "claude" /\ ~tele.closed /\ tele.contextSupport # "unsupported"
    /\ ctxRead.at = "none" /\ known.ctxReads < MaxUserReads
    /\ AsksFor("context") /\ ctxRead' = Awaiting
    /\ known' = [known EXCEPT !.ctxReads = @ + 1]
    /\ UNCHANGED <<tele, source, stdout, rateRead, auto, rows>>

\* requestContextRefresh(): while its loop runs the loop is told; otherwise the loop
\* starts, with a read of its own or in the one there is.
Requests(flags, read) ==
    /\ auto' = IF flags.running THEN [flags EXCEPT !.requested = TRUE]
               ELSE [flags EXCEPT !.requested = FALSE, !.running = tele.contextSupport # "unsupported"]
    /\ IF flags.running \/ tele.contextSupport = "unsupported" \/ read.at # "none"
       THEN ctxRead' = read /\ UNCHANGED runtime
       ELSE ctxRead' = Awaiting /\ AsksFor("context")

Quietly(flags, read) == auto' = flags /\ ctxRead' = read /\ UNCHANGED runtime

\* handleStreamMessage(), handleNotification(): what a line says of the account.
Told(line) ==
    CASE line.kind = "auth" -> ResetRates(tele)
      [] line.kind = "rates" -> UpdateRates(tele, line.update)
      [] line.kind = "compacted" -> InvalidateContext(tele)
      [] line.kind = "model" /\ tele.context.at > 0 -> InvalidateContext(tele)
      [] OTHER -> tele

\* A closed session reads on; only Claude's still learns that the account changed.
Deaf(line) == tele.closed /\ ~(line.kind = "auth" /\ source = "claude")

NewScope(line) == \/ line.kind = "auth"
                  \/ line.kind = "rates" /\ ScopeChanged(tele, line.update)
NewContext(line) == \/ line.kind = "compacted"
                    \/ line.kind = "model" /\ tele.context.at > 0

\* handleControlResponse(): the request is settled, its handler has yet to go on.
Settles(line, read) == line.kind = "answer" /\ read.at = "asked" /\ read.id = line.id
Settled(read, line) == [read EXCEPT !.at = "answered", !.answer = line]

ReadsLine ==
    LET line == Head(stdout)
        deaf == Deaf(line)
        read == IF Settles(line, ctxRead) THEN Settled(ctxRead, line)
                ELSE IF ~deaf /\ NewContext(line) THEN Moved(ctxRead) ELSE ctxRead
    IN  /\ stdout # << >> /\ stdout' = Tail(stdout)
        /\ tele' = IF deaf THEN tele ELSE Told(line)
        /\ rateRead' = IF Settles(line, rateRead) THEN Settled(rateRead, line)
                       ELSE IF ~deaf /\ NewScope(line) THEN Moved(rateRead) ELSE rateRead
        /\ IF ~deaf /\ auto.observed /\ line.kind \in {"compacted", "model", "result"}
           THEN Requests(auto, read) ELSE Quietly(auto, read)
        /\ known' = IF deaf THEN known
                    ELSE [known EXCEPT
                        !.account = IF line.kind = "auth" THEN @ + 1 ELSE @,
                        !.changes = IF line.kind \in {"compacted", "model"} THEN @ + 1 ELSE @,
                        !.updates = (IF NewScope(line) THEN {} ELSE @)
                                    \cup (IF line.kind = "rates" THEN {line.update} ELSE {})]
        /\ UNCHANGED <<source, rows>>

\* The request is given up; an answer to it is not looked at.
TimesOut(read) == Settled(read, [Nothing EXCEPT !.kind = "answer", !.how = "timeout"])

RatesTimeOut ==
    /\ known.timeouts < MaxTimeouts /\ rateRead.at = "asked"
    /\ rateRead' = [TimesOut(rateRead) EXCEPT !.answer.what = source]
    /\ known' = [known EXCEPT !.timeouts = @ + 1]
    /\ UNCHANGED <<tele, source, runtime, stdout, ctxRead, auto, rows>>

ContextTimesOut ==
    /\ known.timeouts < MaxTimeouts /\ ctxRead.at = "asked"
    /\ ctxRead' = TimesOut(ctxRead)
    /\ known' = [known EXCEPT !.timeouts = @ + 1]
    /\ UNCHANGED <<tele, source, runtime, stdout, rateRead, auto, rows>>

\* Mutant: an answer counts whatever was told since the read began.
CountsAnyway(read) == FALSE

\* The revision is not any more what it was when the read began.
Crossed(read) == read.moved

\* The refresh handler of the rate limits goes on.  Codex lets a failure of its first
\* request through whatever account is signed in to by now.
RatesAnswered ==
    LET answer == rateRead.answer
        crossed == Crossed(rateRead)
        first == answer.what = "account"
        update == IF source = "claude" THEN ClaudeUsage("told", "row", "replace", 1, answer.of)
                  ELSE CodexRates("told", "replace", 1, 0, answer.of)
        failed == answer.how \in {"error", "timeout", "nothing"}
        taken == ~first /\ answer.how = "ok" /\ ~crossed
        goesOn == first /\ answer.how = "ok" /\ ~crossed /\ ServiceBacked(answer.of) /\ ~tele.closed
        unsupported == ~crossed /\ \/ answer.how = "unsupported"
                                   \/ first /\ answer.how = "ok" /\ ~ServiceBacked(answer.of)
    IN  /\ rateRead.at = "answered"
        /\ tele' = IF failed /\ (first \/ ~crossed) THEN UnavailableRates(tele)
                   ELSE IF unsupported THEN NoRateSupport(tele)
                   ELSE IF taken THEN UpdateRates(tele, update) ELSE tele
        /\ IF goesOn THEN rateRead' = Awaiting /\ AsksFor("rates") ELSE rateRead' = Idle /\ UNCHANGED runtime
        /\ known' = [known EXCEPT !.updates = IF unsupported THEN {}
                                              ELSE IF taken /\ ~tele.closed THEN @ \cup {update} ELSE @]
        /\ UNCHANGED <<source, stdout, ctxRead, auto, rows>>

\* The refresh handler of the context goes on: an answer that crossed a change only
\* shows that the runtime can tell, and is asked for again, by the loop or after a
\* moment.  Then the loop goes on, if it was told to.
ContextAnswered ==
    LET answer == ctxRead.answer
        tells == answer.how = "ok"
        again == tells /\ Crossed(ctxRead)
        after == [auto EXCEPT !.observed = @ \/ tells, !.requested = @ \/ again,
                              !.timer = @ \/ (again /\ ~auto.running)]
    IN  /\ ctxRead.at = "answered"
        /\ tele' = IF again THEN tele
                   ELSE IF tells THEN SetContext(tele, [at |-> 1, changes |-> answer.changes])
                   ELSE IF answer.how = "unsupported" THEN NoContextSupport(tele)
                   ELSE InvalidateContext(tele)
        /\ IF after.running /\ after.requested /\ ~tele.closed /\ answer.how # "unsupported"
           THEN auto' = [after EXCEPT !.requested = FALSE] /\ ctxRead' = Awaiting /\ AsksFor("context")
           ELSE Quietly([after EXCEPT !.running = FALSE], Idle)
        /\ known' = [known EXCEPT !.lastRead = IF tells THEN "told" ELSE "failed"]
        /\ UNCHANGED <<source, stdout, rateRead, rows>>

TimerFires ==
    /\ auto.timer
    /\ IF tele.closed THEN Quietly([auto EXCEPT !.timer = FALSE], ctxRead)
       ELSE Requests([auto EXCEPT !.timer = FALSE], ctxRead)
    /\ UNCHANGED <<tele, source, stdout, rateRead, rows, known>>

\* close(), or the end of the process: requests that wait are rejected.
Rejected(read) == IF read.at = "asked" THEN TimesOut(read) ELSE read
TelemetryCloses ==
    /\ source # "rows" /\ ~tele.closed
    /\ tele' = CloseStore(tele)
    /\ rateRead' = Rejected(rateRead) /\ ctxRead' = Rejected(ctxRead)
    /\ UNCHANGED <<source, runtime, stdout, auto, rows, known>>

-----------------------------------------------------------------------------
(* An attachment: it has the rows observed once when it is made, and again each *)
(* time its host catches up, from an offset of the host's.                      *)

LastRowAt == IF rows = << >> THEN 1 ELSE rows[Len(rows)].at

Row == \E at \in LastRowAt..MaxRows : \E u \in RowUpdates(at) :
           /\ source = "rows" /\ Len(rows) < MaxRows /\ at <= LastRowAt + 1
           /\ rows' = Append(rows, u)
           /\ UNCHANGED <<tele, source, runtime, stdout, rateRead, ctxRead, auto, known>>

ObservesRow(n) ==
    /\ source = "rows" /\ n \in DOMAIN rows
    /\ tele' = UpdateRates(tele, rows[n])
    /\ known' = IF Outdated(tele, rows[n]) THEN known ELSE [known EXCEPT !.updates = @ \cup {rows[n]}]
    /\ UNCHANGED <<source, runtime, stdout, rateRead, ctxRead, auto, rows>>

-----------------------------------------------------------------------------
TeleInit ==
    /\ tele = NewStore
    /\ source \in {"claude", "codex", "rows"}
    /\ runtime = [account |-> 1, changes |-> 0, others |-> 0, asked |-> {}]
    /\ stdout = << >> /\ rows = << >>
    /\ rateRead = Idle /\ ctxRead = Idle
    /\ auto = [observed |-> FALSE, running |-> FALSE, requested |-> FALSE, timer |-> FALSE]
    /\ known = [updates |-> {}, account |-> 1, changes |-> 0, lastRead |-> "none",
                rateReads |-> 0, ctxReads |-> 0, timeouts |-> 0]

TeleNext ==
    \/ Switches \/ ResultTold
    \/ \E kind \in {"compacted", "model"} : ContextChanges(kind)
    \/ \E id \in 0..(MaxChanges + 1) : Pushes(id)
    \/ \E r \in runtime.asked : TakesUp(r) \/ \E how \in Outcomes : Answers(r, how)
    \/ RefreshRates \/ RefreshContext \/ ReadsLine
    \/ RatesTimeOut \/ ContextTimesOut
    \/ RatesAnswered \/ ContextAnswered \/ TimerFires \/ TelemetryCloses
    \/ Row \/ \E n \in 1..MaxRows : ObservesRow(n)

TeleSpec == TeleInit /\ [][TeleNext]_teleVars

TeleTypeOK ==
    /\ tele.rateSupport \in {"unknown", "supported", "unsupported"}
    /\ tele.contextSupport \in {"unknown", "supported", "unsupported"}
    /\ source \in {"claude", "codex", "rows"}
    /\ {rateRead.at, ctxRead.at} \subseteq {"none", "asked", "answered"}
    /\ known.account <= runtime.account /\ known.changes <= runtime.changes

-----------------------------------------------------------------------------
(* What an update says of a bucket. *)
TellsOf(u, b) == b \in u.has
TellsGone(u, b) ==
    /\ b \notin u.has
    /\ u.mode = "replace" \/ b \in u.removed \/ CollectionsOf(b) \cap u.lists # {}

\* Whatever the order in which updates arrive, a bucket is shown as the newest of those
\* that tell of it: not overwritten by an older one, not brought back by one from before
\* it was removed.
NewestWins ==
    tele.rates.there => \A b \in Buckets :
        LET times == {u.at : u \in {v \in known.updates : TellsOf(v, b) \/ TellsGone(v, b)}}
            newest == {u \in known.updates : u.at = Max(times)}
        IN  IF times = {} THEN b \notin Shown(tele)
            ELSE IF b \in Shown(tele)
            THEN tele.rates.buckets[b].at = Max(times) /\ \E u \in newest : TellsOf(u, b)
            ELSE \E u \in newest : TellsGone(u, b)

\* Nothing is shown that was read for an account before the one the session has been
\* told of, however long the answer was on its way.
OfThisAccount == \A b \in Shown(tele) : tele.rates.buckets[b].of >= known.account

\* A context that is not said to be stale was read after the last compaction or change
\* of model the session knows of.
ContextIsCurrent == ContextFresh(tele) => tele.context.changes >= known.changes

\* Once a read has shown that the runtime can tell, no change is forgotten: when all is
\* quiet the context shown is the current one, or the last read failed.
NoChangeForgotten ==
    (/\ source = "claude" /\ auto.observed /\ ~tele.closed /\ tele.contextSupport = "supported"
     /\ stdout = << >> /\ ctxRead.at = "none" /\ ~auto.timer)
    => \/ known.lastRead = "failed"
       \/ ContextFresh(tele) /\ tele.context.changes = runtime.changes

\* What the snapshots of a session or an attachment say is so: the newest that was told,
\* of the account signed in to, of the context as it is.
SnapshotsAreTrue == TeleTypeOK /\ NewestWins /\ OfThisAccount /\ ContextIsCurrent /\ NoChangeForgotten

=============================================================================
