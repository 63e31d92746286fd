------------------------- MODULE DurableTranscript -------------------------
(***************************************************************************)
(* The transcript that Claude Code and Codex keep of a session, and a host *)
(* that was away and catches up (packages/agent/src/utils/jsonl-lines.ts,  *)
(* providers/{claude,codex}/{transcript,attach}.ts, history/fs.ts).  The   *)
(* file is read while the CLI writes it: a read ends in the middle of a    *)
(* record, a record may be torn for good, and the host may crash and       *)
(* resume from the place it saved.                                         *)
(*                                                                         *)
(* A record is three bytes long: two halves, neither of which parses, and  *)
(* the newline.  Read are lines, and the events that a line stands for.    *)
(*                                                                         *)
(* External: the CLI that writes, and the host's loop as README.md:741-756 *)
(* has it (places are saved at line boundaries).                           *)
(***************************************************************************)
EXTENDS Naturals, Sequences, FiniteSets, SequencesExt, FiniteSetsExt

CONSTANTS
    MaxRecords,       \* bound: records written
    MaxInterruptions, \* bound: reads of the host that do not come to their end
    PEEK_TAIL_BYTES,  \* how much of the file's end is peeked at
    PerEvent          \* whether a host of Codex saves its place after every event

ASSUME TranscriptAssumption ==
    /\ MaxRecords \in Nat /\ MaxInterruptions \in Nat
    /\ PEEK_TAIL_BYTES \in Nat \ {0} /\ PerEvent \in BOOLEAN

VARIABLES
    provider,   \* whose file it is
    file,       \* its bytes
    kinds,      \* the kind of each record begun
    writing,    \* what the CLI has still to write of the last one
    archived,   \* the file was moved away
    reader,     \* the host's read
    place,      \* the place the host saved: an offset, and the record before it
    drained,    \* the offset of the line that the host's loop is at; 0: none
    ingested,   \* history: how often the host ingested each part of each record
    interrupted,\* history: reads of the host that did not come to their end
    attach      \* the last attachSession()

fileVars == <<provider, file, kinds, writing, archived>>
hostVars == <<place, drained, ingested, interrupted>>
transcriptVars == <<fileVars, reader, hostVars, attach>>

-----------------------------------------------------------------------------
(* Lines                                                                   *)

NEWLINE == [of |-> 0, part |-> "newline"]
Bytes(n) == <<[of |-> n, part |-> "head"], [of |-> n, part |-> "rest"], NEWLINE>>

Breaks(bytes) == {i \in DOMAIN bytes : bytes[i] = NEWLINE}

\* readJsonlLines() of some bytes: the lines that end in them, and what is pending.
\* `end` is the offset just past the newline.
Lines(bytes, start) ==
    LET ends == SetToSortSeq(Breaks(bytes), <)
    IN  [k \in DOMAIN ends |->
            [text |-> SubSeq(bytes, (IF k = 1 THEN 0 ELSE ends[k - 1]) + 1, ends[k] - 1),
             end |-> start + ends[k]]]
LastBreak(bytes) == Max(Breaks(bytes) \cup {0})
Pending(bytes) == SubSeq(bytes, LastBreak(bytes) + 1, Len(bytes))

\* The record that a line parses as; 0: none.
Parsed(text) ==
    IF Len(text) = 2 /\ text = SubSeq(Bytes(text[1].of), 1, 2) THEN text[1].of ELSE 0

\* What the records are: a prompt, a message or tool call, a line of two events (Claude: a
\* text and a tool_use; Codex: token_count), bookkeeping, the end of a turn.
Kinds(p) == {"prompt", "speech", "pair", "note", "result"}
                \cup (IF p = "codex" THEN {"aborted"} ELSE {})

\* parseStreamLine, codexLineToStreamEvents: how many events the line of a record gives.
Parts(kind) == CASE kind \in {"prompt", "note"} -> 0 [] kind = "pair" -> 2 [] OTHER -> 1

\* The events of a line, in order.
Events(line) ==
    LET n == Parsed(line.text)
    IN  IF n = 0 THEN << >>
        ELSE [k \in 1 .. Parts(kinds[n]) |-> [of |-> n, part |-> k, offset |-> line.end]]

-----------------------------------------------------------------------------
(* The CLI                                                                 *)

Closed == [step |-> "closed", stable |-> FALSE, pos |-> 0, at |-> 0, pending |-> << >>,
           out |-> << >>, since |-> 0, before |-> 0, eof |-> 0]

Unread == [step |-> "none", status |-> "unknown", from |-> 0, upto |-> 0]

TranscriptInit ==
    /\ provider \in {"claude", "codex"}
    /\ file = << >> /\ kinds = << >> /\ writing = << >> /\ archived = FALSE
    /\ reader = Closed
    /\ place = [offset |-> 0, of |-> 0] /\ drained = 0
    /\ ingested = [n \in 1 .. MaxRecords |-> [k \in 1 .. 2 |-> 0]] /\ interrupted = 0
    /\ attach = Unread

\* A record is begun.
CliRecords(kind) ==
    /\ writing = << >> /\ Len(kinds) < MaxRecords /\ ~archived
    /\ kinds' = Append(kinds, kind) /\ writing' = Bytes(Len(kinds) + 1)
    /\ UNCHANGED <<provider, file, archived, reader, hostVars, attach>>

\* Some of it reaches the file.
CliWrites(n) ==
    /\ file' = file \o SubSeq(writing, 1, n)
    /\ writing' = SubSeq(writing, n + 1, Len(writing))
    /\ UNCHANGED <<provider, kinds, archived, reader, hostVars, attach>>

\* The CLI dies; when it is resumed, its next record follows on the same line.
CliDies ==
    /\ writing # << >> /\ writing' = << >>
    /\ UNCHANGED <<provider, file, kinds, archived, reader, hostVars, attach>>

\* Codex moves a rollout that is over to archived_sessions.
CliArchives ==
    /\ provider = "codex" /\ writing = << >> /\ file # << >>
    /\ ~archived /\ archived' = TRUE
    /\ UNCHANGED <<provider, file, kinds, writing, reader, hostVars, attach>>

-----------------------------------------------------------------------------
(* Reading                                                                 *)

\* readJsonlLines(stream, fromOffset)
StartsAt(from) == from

\* catchUp({ fromOffset }), catchUp({ sinceEventId }) of Claude, or localHistory.read,
\* which rejects changes.
Opens(since, stable) ==
    /\ reader.step \in {"closed", "done"}
    /\ since => provider = "claude" /\ place.of # 0 /\ ~stable
    /\ LET from == IF since THEN 0 ELSE place.offset
       IN  reader' = IF archived THEN [Closed EXCEPT !.step = "ending"]
                     ELSE [Closed EXCEPT !.step = "reading", !.stable = stable,
                                         !.pos = from, !.at = StartsAt(from),
                                         !.since = IF since THEN place.of ELSE 0,
                                         !.before = Len(file)]
    /\ drained' = 0
    /\ UNCHANGED <<fileVars, place, ingested, interrupted, attach>>

\* Mutant: the line of `sinceEventId` is replayed with the others.
SkipsBefore(found, lines) == IF found = {} THEN Len(lines) ELSE Min(found) - 1

\* Up to the line of `sinceEventId`, and all of the lines while it has not been seen.
Skips(found, lines) == IF found = {} THEN Len(lines) ELSE Min(found)

\* The events of lines, from the one after the line of `sinceEventId`.
Replayed(lines, since) ==
    LET found == {k \in DOMAIN lines : Parsed(lines[k].text) = since}
        skip == IF since = 0 THEN 0 ELSE Skips(found, lines)
        past == SubSeq(lines, skip + 1, Len(lines))
    IN  [out |-> FlattenSeq([k \in DOMAIN past |-> Events(past[k])]),
         since |-> IF found = {} THEN since ELSE 0]

\* A chunk of the stream.
Reads(n) ==
    LET bytes == reader.pending \o SubSeq(file, reader.pos + 1, reader.pos + n)
        replay == Replayed(Lines(bytes, reader.at), reader.since)
    IN  /\ reader.step = "reading" /\ reader.out = << >>
        /\ reader' = [reader EXCEPT !.pos = @ + n, !.pending = Pending(bytes),
                                    !.at = @ + LastBreak(bytes),
                                    !.out = replay.out, !.since = replay.since]
        /\ UNCHANGED <<fileVars, hostVars, attach>>

\* The stream ends: what is pending is the last line.
SeesEnd ==
    LET last == [text |-> reader.pending, end |-> reader.at + Len(reader.pending)]
        replay == Replayed(IF reader.pending = << >> THEN << >> ELSE <<last>>, reader.since)
    IN  /\ reader.step = "reading" /\ reader.pos >= Len(file)
        /\ reader' = [reader EXCEPT !.step = "ending", !.pending = << >>, !.eof = Len(file),
                                    !.out = @ \o replay.out, !.since = replay.since]
        /\ UNCHANGED <<fileVars, hostVars, attach>>

-----------------------------------------------------------------------------
(* The host                                                                *)

\* A new line has started: the line before it is a safe place.
LineIsDrained == drained # 0 /\ reader.out # << >> /\ Head(reader.out).offset # drained

SavedAt(offset) ==
    [offset |-> offset,
     of |-> IF offset > 1 /\ file[offset] = NEWLINE THEN file[offset - 1].of ELSE file[offset].of]

HostSaves ==
    /\ LineIsDrained /\ place.offset # drained
    /\ place' = SavedAt(drained)
    /\ UNCHANGED <<fileVars, reader, drained, ingested, interrupted, attach>>

HostIngests ==
    /\ reader.out # << >> /\ (LineIsDrained => place.offset = drained)
    /\ LET e == Head(reader.out)
       IN  /\ ingested' = [ingested EXCEPT ![e.of][e.part] = @ + 1]
           /\ drained' = e.offset
           /\ place' = IF PerEvent /\ provider = "codex" THEN SavedAt(e.offset) ELSE place
    /\ reader' = [reader EXCEPT !.out = Tail(@)]
    /\ UNCHANGED <<fileVars, interrupted, attach>>

\* readJsonlRecords: the file is no longer what it was, by its size or by its path.
SourceChanged == reader.stable /\ (Len(file) # reader.before \/ archived)

\* The loop is over: the last line is drained too.
HostDone ==
    /\ reader.step = "ending" /\ reader.out = << >> /\ ~SourceChanged
    /\ place' = IF drained = 0 THEN place ELSE SavedAt(drained)
    /\ reader' = [Closed EXCEPT !.step = "done", !.eof = reader.eof]
    /\ drained' = 0
    /\ UNCHANGED <<fileVars, ingested, interrupted, attach>>

\* The read throws at its end, or the host crashes: the loop is left where it is.
HostStops ==
    /\ reader.step \in {"reading", "ending"} /\ interrupted < MaxInterruptions
    /\ reader' = Closed /\ drained' = 0 /\ interrupted' = interrupted + 1
    /\ UNCHANGED <<fileVars, place, ingested, attach>>

-----------------------------------------------------------------------------
(* attachSession: how the last turn ended                                  *)

\* Mutant: only what is replayed counts.
ReplayedOnly(kind) == Parts(kind) > 0

\* isTurnBoundary, and the types classifyLastTurn looks at.
Boundary(kind) == kind # "note" /\ (provider = "codex" => kind # "pair")

\* The texts of all lines, the last one whether it has its newline or not.
Texts(bytes) ==
    [k \in DOMAIN Lines(bytes, 0) |-> Lines(bytes, 0)[k].text]
        \o (IF Pending(bytes) = << >> THEN << >> ELSE <<Pending(bytes)>>)

\* The last boundary among some lines; 0: none.
LastBoundary(texts) ==
    LET found == {k \in DOMAIN texts :
                     Parsed(texts[k]) # 0 /\ Boundary(kinds[Parsed(texts[k])])}
    IN  IF found = {} THEN 0 ELSE Parsed(texts[Max(found)])

\* peekCodexTranscript: the lines of the tail, but a first one that may be cut.
Tailed(bytes) ==
    IF Len(bytes) <= PEEK_TAIL_BYTES THEN Texts(bytes)
    ELSE LET texts == Texts(SubSeq(bytes, Len(bytes) - PEEK_TAIL_BYTES + 1, Len(bytes)))
         IN  Tail(texts)

StatusOf(n) ==
    CASE n = 0 -> "unknown" [] n # 0 /\ kinds[n] = "result" -> "completed" [] OTHER -> "interrupted"

\* The transcript is located; Codex peeks, and reads it all if that finds nothing.
Attaches ==
    /\ attach.step \in {"none", "done"}
    /\ attach' = LET n == LastBoundary(Tailed(file))
                 IN  IF provider = "codex" /\ ~archived /\ n # 0
                     THEN [step |-> "done", status |-> StatusOf(n),
                           from |-> Len(file), upto |-> Len(file)]
                     ELSE [step |-> "scanning", status |-> "unknown",
                           from |-> Len(file), upto |-> Len(file)]
    /\ UNCHANGED <<fileVars, reader, hostVars>>

\* classifyLastTurn of Claude, latestTurnBoundary of Codex: the whole file.
Scans ==
    /\ attach.step = "scanning"
    /\ attach' = [attach EXCEPT !.step = "done", !.upto = Len(file),
                     !.status = IF archived THEN "unknown" ELSE StatusOf(LastBoundary(Texts(file)))]
    /\ UNCHANGED <<fileVars, reader, hostVars>>

-----------------------------------------------------------------------------

TranscriptNext ==
    \/ \E kind \in Kinds(provider) : CliRecords(kind)
    \/ \E n \in 1 .. Len(writing) : CliWrites(n)
    \/ CliDies \/ CliArchives
    \/ \E since, stable \in BOOLEAN : Opens(since, stable)
    \/ \E n \in 1 .. Len(file) : reader.pos + n <= Len(file) /\ Reads(n)
    \/ SeesEnd \/ HostSaves \/ HostIngests \/ HostDone \/ HostStops
    \/ Attaches \/ Scans

-----------------------------------------------------------------------------
(* Properties                                                              *)

\* Reference: the records that stand whole on a line of their own.
Whole(bytes) ==
    {n \in DOMAIN kinds : \E i \in 1 .. Len(bytes) - 1 :
        /\ SubSeq(bytes, i, i + 1) = SubSeq(Bytes(n), 1, 2)
        /\ i = 1 \/ bytes[i - 1] = NEWLINE
        /\ i + 1 = Len(bytes) \/ bytes[i + 2] = NEWLINE}

Ingested(n) == \A k \in 1 .. Parts(kinds[n]) : ingested[n][k] > 0

\* Nothing before the place that the host resumes from is lost, wherever it crashed.
NothingSkipped == \A n \in Whole(SubSeq(file, 1, place.offset)) : Ingested(n)

\* The host catches up: nothing is skipped, a read that came to its end has seen every
\* record that stood in the file, and nothing is ingested again but after an interruption.
CaughtUp ==
    /\ NothingSkipped
    /\ reader.step = "done" => \A n \in Whole(SubSeq(file, 1, reader.eof)) : Ingested(n)
    /\ \A n \in 1 .. MaxRecords, k \in 1 .. 2 : ingested[n][k] <= 1 + interrupted

\* Reference: how the last turn in the file stands, by its last record, notes aside.
Truth(bytes) ==
    LET turns == {n \in Whole(bytes) :
                     \/ kinds[n] \in {"prompt", "speech", "result", "aborted"}
                     \/ kinds[n] = "pair" /\ provider = "claude"}
    IN  CASE turns = {} -> "unknown"
          [] turns # {} /\ kinds[Max(turns)] = "result" -> "completed"
          [] OTHER -> "interrupted"

\* attachSession() tells how the last turn stood at some moment of the call, though it
\* looks at the end of the file only, at records cut in two and while more is written.
LastTurnIsTrue ==
    attach.step = "done" /\ ~archived =>
        attach.status \in {Truth(SubSeq(file, 1, i)) : i \in attach.from .. attach.upto}

\* Whoever reads a transcript that is being written: from where it stopped, or for its last turn.
TranscriptIsTrue == CaughtUp /\ LastTurnIsTrue

TranscriptTypeOK ==
    /\ reader.pos <= Len(file) /\ reader.step \in {"closed", "reading", "ending", "done"}
    /\ place.offset <= Len(file) /\ drained <= Len(file)
    /\ interrupted <= MaxInterruptions
    /\ attach.status \in {"completed", "interrupted", "unknown"}

=============================================================================
