----------------------------- MODULE WorkspaceDiff -----------------------------
(***************************************************************************)
(* How a workspace reads what git prints of its changes: the structured    *)
(* diff (packages/workspace/src/git/diff.ts) and the status                *)
(* (git/status.ts).  Changes are drawn, printed as git prints them, and    *)
(* read line by line, or entry by entry.                                   *)
(*                                                                         *)
(* External: git's formats.  Of a path and of a line only what they look   *)
(* like is kept; copies, which the diff is not asked for, are left out.    *)
(***************************************************************************)
EXTENDS Naturals, Sequences, FiniteSets, SequencesExt

CONSTANTS MaxFiles,   \* bound: files of a patch, entries of a status
          MaxHunk     \* bound: lines of a hunk

ASSUME DiffAssumption == MaxFiles \in Nat /\ MaxHunk \in Nat \ {0}

VARIABLES
    changed,    \* the files that were changed, the ones that are not tracked, or the entries
    read        \* what the workspace makes of it

diffVars == <<changed, read>>
NotRead == [done |-> FALSE, files |-> << >>, status |-> << >>]

-----------------------------------------------------------------------------
(* What git prints of a diff *)

\* A deleted line that begins with two minuses looks like a header, and the blank of a common
\* line that is empty may be left out.
Deleted == {"-", "--- /dev/null"}
LineKinds == Deleted \cup {"+", " ", ""}
Olds(lines) == Len(SelectSeq(lines, LAMBDA l : l # "+"))
News(lines) == Len(SelectSeq(lines, LAMBDA l : l \notin Deleted))

Sides(status) == CASE status = "added" -> {"+"} [] status = "deleted" -> Deleted [] OTHER -> LineKinds
HunksOf(status) == {h \in UNION {[1 .. n -> Sides(status)] : n \in 1 .. MaxHunk} :
                       \E i \in DOMAIN h : h[i] \in Deleted \cup {"+"}}
FileStatuses == {"added", "modified", "deleted", "renamed"}

\* A file without its hunk: binary, or renamed, or its mode alone has changed.
Changed(status) ==
    [status : {status}, binary : {TRUE}, hunks : {<< >>}, unended : {FALSE}]
    \cup [status : {status}, binary : {FALSE}, unended : BOOLEAN, hunks : {<<h>> : h \in HunksOf(status)}]
    \cup (IF status \in {"modified", "renamed"}
          THEN [status : {status}, binary : {FALSE}, hunks : {<< >>}, unended : {FALSE}] ELSE {})
ChangedFiles == UNION {Changed(status) : status \in FileStatuses}

Plain(kinds) == [n \in DOMAIN kinds |-> [is |-> kinds[n], old |-> 0, new |-> 0]]
Headers(f) ==
    <<"diff --git">>
    \o (CASE f.status = "added" -> <<"new file">> [] f.status = "deleted" -> <<"deleted file">>
          [] f.status = "renamed" -> <<"rename from", "rename to">> [] OTHER -> <<"index">>)
    \o (IF f.binary THEN <<"Binary files">>
        ELSE IF f.hunks = << >> THEN << >>
        ELSE <<IF f.status = "added" THEN "--- /dev/null" ELSE "--- name",
               IF f.status = "deleted" THEN "+++ /dev/null" ELSE "+++ name">>)
PrintedHunk(f) ==
    IF f.hunks = << >> THEN << >>
    ELSE LET h == f.hunks[1]
         IN  <<[is |-> "@@", old |-> Olds(h), new |-> News(h)]>> \o Plain(h)
             \o (IF f.unended THEN Plain(<<"no newline">>) ELSE << >>)
Printed(files) == FlattenSeq([n \in DOMAIN files |-> Plain(Headers(files[n])) \o PrintedHunk(files[n])])
                  \o Plain(<<"">>)   \* split("\n") leaves an empty line

-----------------------------------------------------------------------------
(* parseUnifiedDiff *)

NoFileYet == [status |-> "modified", binary |-> FALSE, hunks |-> << >>]
Start == [at |-> "between", files |-> << >>, file |-> NoFileYet, lines |-> << >>, old |-> 0, new |-> 0]

\* What a header says of its file; the names after "---" and "+++" count for /dev/null alone.
Says(file, is) ==
    CASE is \in {"new file", "--- /dev/null"} -> [file EXCEPT !.status = "added"]
      [] is \in {"deleted file", "+++ /dev/null"} -> [file EXCEPT !.status = "deleted"]
      [] is = "rename from" -> [file EXCEPT !.status = "renamed"]
      [] is = "Binary files" -> [file EXCEPT !.binary = TRUE]
      [] OTHER -> file

\* A hunk ends with the counts of its header, whatever the next line looks like.
HunkIsOpen(s) == s.at = "hunk" /\ (s.old > 0 \/ s.new > 0)
\* Mutant: it ends with its new lines.
HunkIsOpenForNew(s) == s.at = "hunk" /\ s.new > 0
InHunk(s) == HunkIsOpen(s)

Less(n) == IF n > 0 THEN n - 1 ELSE 0
ParsesHunkLine(s, is) ==
    CASE is = "no newline" -> s
      [] is = "+" -> [s EXCEPT !.lines = Append(@, is), !.new = Less(@)]
      [] is \in Deleted -> [s EXCEPT !.lines = Append(@, is), !.old = Less(@)]
      [] OTHER -> [s EXCEPT !.lines = Append(@, is), !.old = Less(@), !.new = Less(@)]

HunkClosed(s) == IF s.at # "hunk" THEN s
                 ELSE [s EXCEPT !.at = "after", !.file.hunks = Append(@, s.lines), !.lines = << >>]
FileClosed(s) == LET t == HunkClosed(s) IN
                 IF t.at = "between" THEN t
                 ELSE [t EXCEPT !.at = "between", !.files = Append(@, t.file), !.file = NoFileYet]

\* parseFileEntry: headers up to a hunk or the next file; then hunks, unless it is binary.
ParsesLine(s, line) ==
    IF InHunk(s) THEN ParsesHunkLine(s, line.is)
    ELSE IF line.is = "diff --git" THEN [FileClosed(s) EXCEPT !.at = "headers"]
    ELSE IF s.at = "between" THEN s
    ELSE IF line.is = "@@" /\ ~s.file.binary
         THEN [HunkClosed(s) EXCEPT !.at = "hunk", !.old = line.old, !.new = line.new]
    ELSE IF s.at = "headers" /\ line.is # "@@" THEN [s EXCEPT !.file = Says(@, line.is)]
    ELSE FileClosed(s)

ParseUnifiedDiff(lines) == FileClosed(FoldLeft(ParsesLine, Start, lines)).files

-----------------------------------------------------------------------------
(* buildUntrackedFileEntry *)

\* A file that is not tracked: gone when it is read, binary, or so many lines, the last with
\* its newline or without.
Untracked == [is : {"gone", "binary"}, lines : {0}, newline : {FALSE}]
             \cup [is : {"text"}, lines : {0}, newline : {FALSE}] \cup [is : {"text"}, lines : 1 .. MaxHunk, newline : BOOLEAN]

Pieces(f) == IF f.newline THEN f.lines + 1 ELSE f.lines
AddedLines(f) == [n \in 1 .. (IF f.newline THEN Pieces(f) - 1 ELSE Pieces(f)) |-> "+"]
UntrackedEntry(f) ==
    CASE f.is = "gone" -> << >>
      [] f.is = "binary" -> <<[status |-> "added", binary |-> FALSE, hunks |-> << >>]>>
      [] OTHER -> <<[status |-> "added", binary |-> FALSE, hunks |-> <<AddedLines(f)>>]>>

ReadStructuredDiff ==
    /\ read = NotRead /\ changed.what = "diff"
    /\ read' = [NotRead EXCEPT !.done = TRUE, !.files = ParseUnifiedDiff(Printed(changed.files))
                   \o FlattenSeq([n \in DOMAIN changed.untracked |-> UntrackedEntry(changed.untracked[n])])]
    /\ UNCHANGED changed

-----------------------------------------------------------------------------
(* parseStatus *)

\* An entry: its kind, what of it is staged and what is not, and, of a renamed file, what its
\* old path looks like, which comes as an entry of its own.
Entry(is, x, y) == [is |-> is, staged |-> x, modified |-> y, old |-> "1"]
StatusEntries ==
    {Entry("1", x, y) : x, y \in BOOLEAN} \cup {[Entry("2", TRUE, y) EXCEPT !.old = o] : y \in BOOLEAN, o \in {"?", "1", "name"}}
    \cup {Entry("u", TRUE, TRUE), Entry("?", FALSE, FALSE), Entry("!", FALSE, FALSE), Entry("# branch.ab", FALSE, FALSE)}
RealEntries == {e \in StatusEntries : e.is = "1" => e.staged \/ e.modified}

PrintedEntries(some) ==
    FlattenSeq([n \in DOMAIN some |->
        IF some[n].is = "2" THEN <<[some[n] EXCEPT !.old = "none"], Entry(some[n].old, TRUE, TRUE)>>
        ELSE <<[some[n] EXCEPT !.old = "none"]>>])

\* Mutant: the old path of a renamed file is read as an entry.
ReadsOldPath(e) == FALSE
SkipsNext(e) == e.is = "2"

Clean == [skip |-> FALSE, staged |-> 0, modified |-> 0, untracked |-> 0, ahead |-> FALSE]
Count(n, yes) == IF yes THEN n + 1 ELSE n
ParsesEntry(s, e) ==
    IF s.skip THEN [s EXCEPT !.skip = FALSE]
    ELSE CASE e.is \in {"1", "2", "u"} ->
                [s EXCEPT !.staged = Count(@, e.staged), !.modified = Count(@, e.modified), !.skip = SkipsNext(e)]
           [] e.is = "?" -> [s EXCEPT !.untracked = @ + 1]
           [] e.is = "# branch.ab" -> [s EXCEPT !.ahead = TRUE]
           [] OTHER -> s

ReadStatus ==
    /\ read = NotRead /\ changed.what = "status"
    /\ read' = [NotRead EXCEPT !.done = TRUE,
                   !.status = <<FoldLeft(ParsesEntry, Clean, PrintedEntries(changed.entries))>>]
    /\ UNCHANGED changed

-----------------------------------------------------------------------------
DiffInit ==
    /\ read = NotRead
    /\ changed \in [what : {"diff"}, files : UNION {[1 .. n -> ChangedFiles] : n \in 0 .. MaxFiles}, untracked : {<< >>}]
              \cup [what : {"diff"}, files : {<< >>}, untracked : UNION {[1 .. n -> Untracked] : n \in 1 .. MaxFiles}]
              \cup [what : {"status"}, entries : UNION {[1 .. n -> RealEntries] : n \in 0 .. MaxFiles}]
DiffNext == ReadStructuredDiff \/ ReadStatus

\* The structured diff has the files of the patch, each with its status and the lines of its
\* hunks, whatever its lines look like, and the files that are not tracked and still there
\* (diff.ts 63-220, 226-293).
Told(f) == [status |-> f.status, binary |-> f.binary, hunks |-> f.hunks]
DiffIsTrue ==
    read.done /\ changed.what = "diff" =>
        /\ SubSeq(read.files, 1, Len(changed.files)) = [n \in DOMAIN changed.files |-> Told(changed.files[n])]
        /\ LET there == SelectSeq(changed.untracked, LAMBDA f : f.is # "gone")
           IN  /\ Len(read.files) = Len(changed.files) + Len(there)
               /\ \A n \in DOMAIN there : LET t == read.files[Len(changed.files) + n] IN
                     t.status = "added" /\ (there[n].is = "text" => Len(t.hunks[1]) = there[n].lines)

\* The status is dirty exactly if something is staged, modified or not tracked, and counts the
\* files of each, whatever the old path of a renamed file looks like (status.ts 10-76).
StatusOfAll(p(_)) == Len(SelectSeq(changed.entries, p))
StatusIsTold ==
    read.done /\ changed.what = "status" =>
        /\ read.status[1].staged = StatusOfAll(LAMBDA e : e.staged) /\ read.status[1].modified = StatusOfAll(LAMBDA e : e.modified)
        /\ read.status[1].untracked = StatusOfAll(LAMBDA e : e.is = "?")
        /\ read.status[1].ahead = (StatusOfAll(LAMBDA e : e.is = "# branch.ab") > 0)

ChangesAreTold == DiffIsTrue /\ StatusIsTold
=============================================================================
