---------------------------- MODULE OpenCodeHistory ----------------------------
(***************************************************************************)
(* collectHistory() (packages/agent/src/providers/opencode/history.ts),    *)
(* which catchUp() of an attachment and read() of the saved histories have *)
(* in common, under the host that README.md:740-832 describes: it stores   *)
(* each event, then its checkpoint; reads on after the last checkpoint;    *)
(* and when that is not found reads everything and drops what it has.      *)
(*                                                                         *)
(* External: the OpenCode server, whose session grows, is undone and       *)
(* removed while it is read, a page of the newest messages at a time.      *)
(***************************************************************************)
EXTENDS Naturals, Sequences, FiniteSets, SequencesExt

CONSTANTS
    PAGE_SIZE, MAX_PAGES,
    MaxMessages,    \* bound: messages ever made
    MaxParts,       \* bound: parts of the messages, together
    MaxUndone,      \* bound: undone prompts, and the removal of the session
    MaxReadings,    \* bound: reads of the host after a checkpoint
    QueuedPrompts,  \* TRUE: a prompt may come while the message before it grows
    PartialText,    \* TRUE: a text may be served before it is complete
    EmptyReplies    \* TRUE: a turn may end with no reply and no error

ASSUME OpenCodeHistoryAssumption ==
    /\ {PAGE_SIZE, MAX_PAGES} \subseteq Nat \ {0}
    /\ {MaxMessages, MaxParts, MaxUndone, MaxReadings} \subseteq Nat
    /\ {QueuedPrompts, PartialText, EmptyReplies} \subseteq BOOLEAN

VARIABLES
    server,  \* the messages of the session, oldest first, and what was ever done to it
    users,   \* the host reads the prompts, too: it imports a session it did not make
    reading, \* collectHistory() and its consumer
    host     \* what the host has stored: events, the last checkpoint

ocHistoryVars == <<server, users, reading, host>>

-----------------------------------------------------------------------------
(* historicalEvents(): what a message says.  A part is an id with its message's; a *)
(* revision, the hash of a message, is the message.                                *)

Finished(m) == m.finish # "none" \/ m.error
HasText(m) == \E p \in ToSet(m.parts) : p.kind = "text"

\* terminalOutcome(); a turn that was aborted has failed, too.
Outcome(m) ==
    CASE m.error -> "failed"
      [] ~m.error /\ m.finish = "unknown" /\ ~HasText(m) -> "incomplete"
      [] OTHER -> "completed"

Says(what, part, id, full) == [what |-> what, part |-> part, id |-> id, full |-> full]

\* A tool is told when it is there, and again when it is done.
PartSays(p) ==
    CASE p.kind = "text" -> <<Says("text", p.id, p.id, p.done)>>
      [] p.kind = "tool" -> <<Says("call", p.id, p.id, TRUE)>>
                            \o (IF p.done THEN <<Says("output", p.id, p.id, TRUE)>> ELSE << >>)
      [] OTHER -> << >>

\* The texts of a prompt are one event, at the part of the last.
PromptSays(m) ==
    LET texts == SelectSeq(m.parts, LAMBDA p : p.kind = "text")
    IN  IF texts = << >> THEN << >>
        ELSE <<Says("user", Last(texts).id, <<m.id, 0, "user">>, TRUE)>>

\* The end of a turn is told at the last part that told something.
EndSays(m, part) ==
    (IF Outcome(m) = "incomplete" THEN <<Says("note", part, <<m.id, 0, "incomplete">>, TRUE)>> ELSE << >>)
    \o <<Says("result", part, <<m.id, 0, "result">>, TRUE)>>

HistoricalEvents(m, withUsers) ==
    IF m.role = "user" THEN IF withUsers THEN PromptSays(m) ELSE << >>
    ELSE LET told == FlattenSeq([n \in DOMAIN m.parts |-> PartSays(m.parts[n])])
         IN  told \o (IF told # << >> /\ Finished(m) THEN EndSays(m, Last(told).part) ELSE << >>)

\* The how many-th event of its part it is.
Ordinal(events, n) == Cardinality({k \in 1..(n - 1) : events[k].part = events[n].part})

\* What is yielded of a message: events, by their keys, each with its checkpoint.
Yields(m, withUsers) ==
    LET events == HistoricalEvents(m, withUsers)
    IN  [n \in DOMAIN events |->
            [key |-> <<events[n].id, Ordinal(events, n)>>, what |-> events[n].what, full |-> events[n].full,
             at |-> [message |-> m.id, part |-> events[n].part,
                     ordinal |-> Ordinal(events, n), revision |-> m]]]

YieldsOf(messages, withUsers) ==
    FlattenSeq([n \in DOMAIN messages |-> Yields(messages[n], withUsers)])

-----------------------------------------------------------------------------
(* collectHistory() *)

NoCheckpoint == [message |-> 0]
IdsOf(messages) == {messages[n].id : n \in DOMAIN messages}

\* Mutant: one event of a part stands for all.
IsAtPart(yield, after) == yield.at.message = after.message /\ yield.at.part = after.part

\* The yield that a checkpoint is of.  (checkpoint() always writes an ordinal.)
IsAt(yield, after) ==
    /\ yield.at.message = after.message /\ yield.at.part = after.part
    /\ yield.at.ordinal = after.ordinal

\* What comes after a checkpoint; nothing is found if its message is not what it was.
Changed(messages, after) ==
    \E n \in DOMAIN messages : messages[n].id = after.message /\ messages[n] # after.revision
Position(yields, after) == {n \in DOMAIN yields : IsAt(yields[n], after)}
IsFound(messages, after) ==
    \/ after = NoCheckpoint
    \/ ~Changed(messages, after) /\ Position(YieldsOf(messages, users), after) # {}
Remaining(messages, after) ==
    LET yields == YieldsOf(messages, users)
    IN  IF after = NoCheckpoint THEN yields
        ELSE LET at == CHOOSE n \in Position(yields, after) : \A k \in Position(yields, after) : k <= n
             IN  SubSeq(yields, at + 1, Len(yields))

NoReading == [at |-> "idle", after |-> NoCheckpoint, messages |-> << >>, before |-> 0, pages |-> 0,
              out |-> << >>, seen |-> << >>, why |-> "none"]

\* After the last checkpoint, or, when that was not found, everything.
StartsReading ==
    /\ reading.at \in {"idle", "done", "failed"}
    /\ reading.at = "failed" \/ host.readings < MaxReadings
    /\ reading' = [NoReading EXCEPT !.at = "pages",
                       !.after = IF reading.at = "failed" THEN NoCheckpoint ELSE host.saved]
    /\ host' = [host EXCEPT !.readings = IF reading.at = "failed" THEN @ ELSE @ + 1]
    /\ UNCHANGED <<server, users>>

\* The newest messages before the cursor, and the cursor of those before them.
PageBefore(before) ==
    LET older == SelectSeq(server.messages, LAMBDA m : before = 0 \/ m.id < before)
        from == IF Len(older) > PAGE_SIZE THEN Len(older) - PAGE_SIZE + 1 ELSE 1
    IN  [messages |-> SubSeq(older, from, Len(older)),
         next |-> IF from > 1 THEN older[from].id ELSE 0]

\* With every page that may be read read, the oldest may not be the first of all.
AtLimit(pages, page) == pages = MAX_PAGES /\ Len(page.messages) = PAGE_SIZE

Fails(why) == reading' = [reading EXCEPT !.at = "failed", !.why = why]

ReadsPage ==
    LET page == PageBefore(reading.before)
        collected == page.messages \o reading.messages
        pages == reading.pages + 1
        after == reading.after
        found == after # NoCheckpoint /\ after.message \in IdsOf(page.messages)
        last == found \/ Len(page.messages) < PAGE_SIZE \/ page.next = 0 \/ pages = MAX_PAGES
        read == [reading EXCEPT !.messages = collected, !.before = page.next, !.pages = pages,
                                !.seen = IF pages = 1 THEN server.messages ELSE @]
    IN  /\ reading.at = "pages" /\ ~server.gone
        /\ reading' = IF ~last THEN read
                      ELSE IF after # NoCheckpoint /\ ~found THEN [read EXCEPT !.at = "failed", !.why = "not found"]
                      ELSE IF AtLimit(pages, page) THEN [read EXCEPT !.at = "failed", !.why = "limit"]
                      ELSE IF ~IsFound(collected, after) THEN [read EXCEPT !.at = "failed", !.why = "not found"]
                      ELSE [read EXCEPT !.at = IF Remaining(collected, after) = << >> THEN "done" ELSE "yields",
                                        !.out = Remaining(collected, after)]
        /\ UNCHANGED <<server, users, host>>

\* 404: an attachment has nothing to tell, an import says that the session is missing.
ReadsNothing ==
    /\ reading.at = "pages" /\ server.gone
    /\ IF users THEN Fails("missing") ELSE reading' = [reading EXCEPT !.at = "done", !.seen = << >>]
    /\ UNCHANGED <<server, users, host>>

\* Any other answer, or one that is too large.
RequestFails ==
    /\ reading.at = "pages" /\ reading' = NoReading
    /\ UNCHANGED <<server, users, host>>

-----------------------------------------------------------------------------
(* The host: an event is stored unless its key is there, then the checkpoint is. *)

Ingests ==
    /\ reading.at = "yields" /\ ~host.stored
    /\ host' = [host EXCEPT !.stored = TRUE,
           !.events = IF \E e \in @ : e.key = Head(reading.out).key THEN @
                      ELSE @ \cup {[key |-> Head(reading.out).key, what |-> Head(reading.out).what,
                                    full |-> Head(reading.out).full]}]
    /\ UNCHANGED <<server, users, reading>>

SavesCheckpoint ==
    /\ reading.at = "yields" /\ host.stored
    /\ host' = [host EXCEPT !.stored = FALSE, !.saved = Head(reading.out).at]
    /\ reading' = [reading EXCEPT !.out = Tail(@), !.at = IF Tail(reading.out) = << >> THEN "done" ELSE @]
    /\ UNCHANGED <<server, users>>

\* It stops, and starts again with what it has stored.
HostStops ==
    /\ reading.at \in {"pages", "yields"}
    /\ reading' = NoReading /\ host' = [host EXCEPT !.stored = FALSE]
    /\ UNCHANGED <<server, users>>

-----------------------------------------------------------------------------
(* The server *)

Count == Len(server.messages)
Newest == server.messages[Count]
Elsewhere == UNCHANGED <<users, reading, host>>

NewMessage(role, parts) ==
    [id |-> server.made + 1, role |-> role, finish |-> "none", error |-> FALSE,
     parts |-> [n \in DOMAIN parts |-> [id |-> <<server.made + 1, n, "part">>, kind |-> parts[n], done |-> TRUE]]]

Adds(role, parts) ==
    /\ ~server.gone /\ server.made < MaxMessages
    /\ server' = [server EXCEPT !.made = @ + 1, !.messages = Append(@, NewMessage(role, parts))]
    /\ Elsewhere

\* What is asked: with text, or with what the host is not to see.
Prompted(kind) ==
    /\ ~QueuedPrompts /\ Count > 0 => Newest.role = "assistant" /\ Finished(Newest)
    /\ Adds("user", <<kind>>)

Replies ==
    /\ Count > 0
    /\ Newest.role = "user" \/ Newest.finish = "tool-calls"
    /\ Adds("assistant", << >>)

\* The reply that grows: the last, or one that a prompt was queued behind.
Growing == {n \in DOMAIN server.messages : server.messages[n].role = "assistant" /\ ~Finished(server.messages[n])}

AddsPart(n, kind, done) ==
    /\ n \in Growing /\ Len(FlattenSeq([k \in 1..Count |-> server.messages[k].parts])) < MaxParts
    /\ ~done => kind = "tool" \/ (kind = "text" /\ PartialText)
    /\ server' = [server EXCEPT !.messages[n].parts =
           Append(@, [id |-> <<server.messages[n].id, Len(@) + 1, "part">>, kind |-> kind, done |-> done])]
    /\ Elsewhere

CompletesPart(n, k) ==
    /\ n \in Growing /\ k \in DOMAIN server.messages[n].parts /\ ~server.messages[n].parts[k].done
    /\ server' = [server EXCEPT !.messages[n].parts[k].done = TRUE]
    /\ Elsewhere

AllDone(n) == \A p \in ToSet(server.messages[n].parts) : p.done
Finishes(n, finish) ==
    /\ n \in Growing /\ AllDone(n)
    /\ finish = "unknown" => EmptyReplies
    /\ finish = "tool-calls" => \E p \in ToSet(server.messages[n].parts) : p.kind = "tool"
    /\ server' = [server EXCEPT !.messages[n].finish = finish]
    /\ Elsewhere

Errs(n) ==
    /\ n \in Growing /\ AllDone(n)
    /\ server' = [server EXCEPT !.messages[n].error = TRUE]
    /\ Elsewhere

\* A prompt is undone, with all that came of it.
Undone(n) ==
    /\ server.undone < MaxUndone /\ n \in DOMAIN server.messages /\ server.messages[n].role = "user"
    /\ server' = [server EXCEPT !.messages = SubSeq(@, 1, n - 1), !.undone = @ + 1]
    /\ Elsewhere

SessionRemoved ==
    /\ server.undone < MaxUndone /\ ~server.gone
    /\ server' = [server EXCEPT !.messages = << >>, !.gone = TRUE, !.undone = @ + 1]
    /\ Elsewhere

-----------------------------------------------------------------------------
\* A session that is older than the host's interest in it.
Past ==
    LET text(n) == <<[id |-> <<n, 1, "part">>, kind |-> "text", done |-> TRUE]>>
        message(n) == [id |-> n, role |-> IF n = 2 THEN "assistant" ELSE "user",
                       finish |-> IF n = 2 THEN "stop" ELSE "none", error |-> FALSE, parts |-> text(n)]
    IN  <<message(1), message(2), message(3)>>

OcHistoryInit ==
    /\ \E past \in {<< >>, Past} :
           server = [messages |-> past, made |-> Len(past), undone |-> 0, gone |-> FALSE]
    /\ users \in BOOLEAN
    /\ reading = NoReading
    /\ host = [events |-> {}, saved |-> NoCheckpoint, stored |-> FALSE, readings |-> 0]

OcHistoryNext ==
    \/ StartsReading \/ ReadsPage \/ ReadsNothing \/ RequestFails
    \/ Ingests \/ SavesCheckpoint \/ HostStops
    \/ \E kind \in {"text", "none"} : Prompted(kind)
    \/ Replies
    \/ \E n \in DOMAIN server.messages :
          \/ \E kind \in {"text", "tool", "none"}, done \in BOOLEAN : AddsPart(n, kind, done)
          \/ \E k \in 1..MaxParts : CompletesPart(n, k)
          \/ \E finish \in {"stop", "tool-calls", "unknown"} : Finishes(n, finish)
          \/ Errs(n) \/ Undone(n)
    \/ SessionRemoved

OcHistorySpec == OcHistoryInit /\ [][OcHistoryNext]_ocHistoryVars

OcHistoryTypeOK ==
    /\ reading.at \in {"idle", "pages", "yields", "done", "failed"}
    /\ (reading.at = "yields") = (reading.out # << >>)
    /\ Count <= server.made /\ server.gone => Count = 0

-----------------------------------------------------------------------------
(* What of the messages that a read began with is there to its end. *)
Lasting == {m \in ToSet(reading.seen) : m.id \in IdsOf(server.messages)}
Stored(what, key, full) == [key |-> key, what |-> what, full |-> full] \in host.events

\* However the reads, the stops and the work of the server fall, once a read is through
\* the host has every event that the session had when it began.
NothingMissed ==
    reading.at = "done" => \A m \in Lasting : \A y \in ToSet(Yields(m, users)) : Stored(y.what, y.key, y.full)

\* The key is an event's own: no event is dropped for another, or stored under two.
ToldOnce ==
    /\ LET yields == YieldsOf(server.messages, users)
       IN  \A j, k \in DOMAIN yields : yields[j].key = yields[k].key => j = k
    /\ \A d, e \in host.events : d.what = e.what /\ d.key[1] = e.key[1] => d.key = e.key

\* A checkpoint is only said to be lost if its message is not what it was, or is older
\* than all that may be read.
LostForAReason ==
    (reading.at = "failed" /\ reading.why = "not found")
    => \/ reading.after.revision \notin Lasting
       \/ Len(SelectSeq(reading.seen, LAMBDA m : m.id > reading.after.message)) >= PAGE_SIZE * MAX_PAGES

\* attachOpenCodeHistory(): lastTurn says "completed" of no turn whose result in the
\* history says that it failed.
LastTurnOf(messages) ==
    IF messages = << >> THEN "unknown"
    ELSE IF Last(messages).finish # "none" /\ ~Last(messages).error THEN "completed" ELSE "interrupted"
LastTurnAgrees == LastTurnOf(server.messages) = "completed" => Outcome(Newest) = "completed"

\* What a host stores of a session is the session: nothing missed, nothing twice, and
\* no read started over without need.
HistoryIsKept == OcHistoryTypeOK /\ NothingMissed /\ ToldOnce /\ LostForAReason /\ LastTurnAgrees

=============================================================================
