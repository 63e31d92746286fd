-------------------------------- MODULE Chunker --------------------------------
(***************************************************************************)
(* chunkMessage (packages/gateway/src/channels/chunker.ts): an answer that *)
(* is longer than a channel takes is cut at paragraphs, then at lines,     *)
(* then anywhere, and a code block that is cut is closed and opened again. *)
(*                                                                         *)
(* A text is a sequence of letters, line ends and backquotes, here #.      *)
(***************************************************************************)
EXTENDS Naturals, Sequences, SequencesExt, FiniteSetsExt

CONSTANTS
    TextLines,    \* what a line of an answer may be
    MaxTextLines, \* bound: lines of an answer
    MaxLengths    \* what channels take

VARIABLES
    reply,     \* the answer of an agent
    maxLength  \* what its channel takes

chunkVars == <<reply, maxLength>>

EndOfLine == <<"\n">>
Fence == <<"#", "#", "#">>

\* String.split
Split(t, sep) ==
    LET at(from) == {i \in from..(Len(t) - Len(sep) + 1) : SubSeq(t, i, i + Len(sep) - 1) = sep}
        pieces[from \in 1..(Len(t) + 1)] ==
            IF at(from) = {} THEN <<SubSeq(t, from, Len(t))>>
            ELSE <<SubSeq(t, from, Min(at(from)) - 1)>> \o pieces[Min(at(from)) + Len(sep)]
    IN  pieces[1]

Join(ts, sep) == FoldLeft(LAMBDA joined, t : IF joined = << >> THEN <<t>> ELSE <<joined[1] \o sep \o t>>,
                          << >>, ts)[1]

ChunkInit(texts) == reply \in texts /\ maxLength \in MaxLengths

AnswersOf(n) == {Join(ls, EndOfLine) : ls \in UNION {[1..k -> TextLines] : k \in 1..n}}

-----------------------------------------------------------------------------
(* The cuts.                                                               *)

\* What is collected so far is a chunk, unless there is nothing.
Flushed(s) == [chunks |-> IF s.current = << >> THEN s.chunks ELSE Append(s.chunks, s.current),
               current |-> << >>]

\* A piece that fits joins what is collected, or begins anew.
Collect(s, piece, sep) ==
    LET candidate == IF s.current = << >> THEN piece ELSE s.current \o sep \o piece IN
    IF Len(candidate) <= maxLength THEN [s EXCEPT !.current = candidate]
    ELSE [Flushed(s) EXCEPT !.current = piece]

\* A line that does not is cut wherever it is full; its end is collected.
ForceSplit(s, line) ==
    LET cuts == (Len(line) - 1) \div maxLength IN
    [chunks |-> Flushed(s).chunks \o [i \in 1..cuts |-> SubSeq(line, (i - 1) * maxLength + 1, i * maxLength)],
     current |-> SubSeq(line, cuts * maxLength + 1, Len(line))]

CollectLine(s, line) ==
    IF Len(line) <= maxLength THEN Collect(s, line, EndOfLine) ELSE ForceSplit(s, line)

CollectParagraph(s, paragraph) ==
    IF Len(paragraph) <= maxLength THEN Collect(s, paragraph, EndOfLine \o EndOfLine)
    ELSE FoldLeft(CollectLine, Flushed(s), Split(paragraph, EndOfLine))

RawChunks(t) ==
    Flushed(FoldLeft(CollectParagraph, [chunks |-> << >>, current |-> << >>],
                     Split(t, EndOfLine \o EndOfLine))).chunks

-----------------------------------------------------------------------------
(* The code blocks that are cut.                                           *)

CountFences(t) == Len(Split(t, Fence)) - 1

TrimStart(line) ==
    LET letters == {i \in DOMAIN line : line[i] # " "} IN
    IF letters = {} THEN << >> ELSE SubSeq(line, Min(letters), Len(line))

\* The last line that opens or closes a block, which may be indented.
ExtractFenceHeader(t) ==
    LET lines == Split(t, EndOfLine)
        headers == SelectSeq([n \in DOMAIN lines |-> TrimStart(lines[n])], LAMBDA line : IsPrefix(Fence, line)) IN
    IF headers = << >> THEN Fence ELSE Last(headers)

\* Mutant: the block stays closed.
NotReopened(s, chunk) == chunk

\* A chunk that begins in a block opens it again.
Reopened(s, chunk) == IF s.inside THEN s.header \o EndOfLine \o chunk ELSE chunk

\* One that ends in a block closes it.
FixUp(s, raw) ==
    LET chunk == Reopened(s, raw) IN
    IF CountFences(chunk) % 2 = 1
    THEN [chunks |-> Append(s.chunks, chunk \o EndOfLine \o Fence), inside |-> TRUE,
          header |-> ExtractFenceHeader(chunk)]
    ELSE [s EXCEPT !.chunks = Append(@, chunk), !.inside = FALSE]

ChunkMessage(t) ==
    IF Len(t) <= maxLength THEN <<t>>
    ELSE FoldLeft(FixUp, [chunks |-> << >>, inside |-> FALSE, header |-> Fence], RawChunks(t)).chunks

-----------------------------------------------------------------------------
(* Properties.                                                             *)

\* What a reader sees of a text: its letters, each as code or not.
ShownOf(t) ==
    FoldLeft(LAMBDA s, line :
                 IF IsPrefix(Fence, TrimStart(line)) THEN [s EXCEPT !.code = ~@]
                 ELSE [s EXCEPT !.seen = @ \o [i \in DOMAIN line |-> <<line[i], s.code>>]],
             [code |-> FALSE, seen |-> << >>], Split(t, EndOfLine))

\* The chunks show what the text shows, code as code and all of it in order; each closes
\* what it opens, and fits, the fences that were added aside.
ChunksAreTrue ==
    LET chunks == ChunkMessage(reply) IN
    /\ FlattenSeq([i \in DOMAIN chunks |-> ShownOf(chunks[i]).seen]) = ShownOf(reply).seen
    /\ Len(reply) > maxLength => \A i \in DOMAIN chunks : ~ShownOf(chunks[i]).code /\ chunks[i] # << >>
    /\ Len(reply) > maxLength => \A i \in DOMAIN RawChunks(reply) : Len(RawChunks(reply)[i]) <= maxLength

=============================================================================
