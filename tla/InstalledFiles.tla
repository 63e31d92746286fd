---------------------------- MODULE InstalledFiles ----------------------------
(***************************************************************************)
(* What agentex puts where the runtimes look (packages/agent/src/utils):   *)
(* links to skills in folders that users and other programs keep skills in *)
(* too (skills.ts), its part of the instruction files of a workspace       *)
(* (instructions.ts), and the commands it finds in the skills that are     *)
(* there (skill-commands.ts).  The three share nothing.                    *)
(*                                                                         *)
(* A file system call is atomic, a call of the API is not.  Of a file are  *)
(* kept its user's lines and its managed regions, in order; regions are    *)
(* written whole and named by their tag.  External: users, other programs. *)
(***************************************************************************)
EXTENDS Naturals, Sequences, FiniteSets, SequencesExt

CONSTANTS
    SkillCalls,     \* calls of installSkills, removeSkills, removeLegacySkillLinks
    Skills,         \* directories of skills
    NameOf,         \* their names, of which two may be the same
    KeptIn,         \* the folders they come from
    Asked,          \* the sets of skills that calls are made for
    Replaced,       \* TRUE: a link that was looked at may be replaced before it is unlinked
    Wanting,        \* the sets of runtimes that instructions are installed for
    Tags,           \* installers of instructions, each with a tag of its own
    Briefs,         \* what they install: "brief", or "dollars", which holds a $&
    Lines,          \* the lines that the user writes
    MaxCalls,       \* bound: calls of the installers
    Meanwhile,      \* TRUE: a file may be written between an installer's read and its write
    DiesWriting,    \* TRUE: an installer may die while it writes
    MaxDirs         \* bound: directories in which commands are looked for

ASSUME InstalledAssumption ==
    /\ NameOf \in [Skills -> STRING] /\ KeptIn \in [Skills -> STRING] /\ Asked \subseteq (SUBSET Skills) \ {{}}
    /\ {"nothing", "a folder of its own", "elsewhere"} \cap Skills = {}
    /\ {Replaced, Meanwhile, DiesWriting} \subseteq BOOLEAN /\ Wanting \subseteq SUBSET {"claude", "codex", "gemini"} /\ {MaxCalls, MaxDirs} \subseteq Nat

VARIABLES
    links,      \* per name, what is in the folder
    kept,       \* the skills whose directory is there
    skillCalls, \* per call
    texts,      \* per instruction file, its content
    written,    \* per instruction file, the lines of the user
    installers, \* per tag
    catalog     \* the directories of skills, and the commands found in them

installedVars == <<links, kept, skillCalls, texts, written, installers, catalog>>
linkVars == <<links, kept, skillCalls>>
textVars == <<texts, written, installers>>

-----------------------------------------------------------------------------
(* Skills *)

Names == {NameOf[s] : s \in Skills}
Nothing == "nothing"
Folder == "a folder of its own"     \* a skill that is no link
Elsewhere == "elsewhere"            \* a link to what is not of agentex
Dead(thing) == thing \in Skills \ kept

NoSkillCall == [op |-> "none", dirs |-> {}, replace |-> FALSE, any |-> FALSE, todo |-> {}, at |-> "none", of |-> Nothing]
SkillCall(c, changes) == skillCalls' = [skillCalls EXCEPT ![c] = changes] /\ UNCHANGED <<kept, textVars, catalog>>
Next1(call) == [call EXCEPT !.at = "next", !.of = Nothing]

CallsSkills(c) ==
    /\ skillCalls[c].op = "none"
    /\ \E op \in {"install", "remove", "legacy"}, dirs \in Asked, replace, any \in BOOLEAN :
          /\ replace => op = "install"
          /\ any => op = "legacy"
          /\ SkillCall(c, [NoSkillCall EXCEPT !.op = op, !.dirs = dirs, !.replace = replace, !.any = any, !.at = "next",
                              !.todo = IF op = "legacy" THEN Names ELSE dirs])
    /\ UNCHANGED links

TakesSkill(c) == LET call == skillCalls[c] IN
    /\ call.op \in {"install", "remove"} /\ call.at = "next" /\ call.todo # {}
    /\ \E s \in call.todo :
          SkillCall(c, [call EXCEPT !.todo = @ \ {s}, !.of = s,
                           !.at = IF call.op = "remove" THEN "compare" ELSE IF call.replace THEN "dead" ELSE "look"])
    /\ UNCHANGED links

\* removeDeadLink: a link that leads nowhere, but not to the skill itself.
\* Mutant: a link to anything else.
AnyOther(thing, s) == thing \notin {s, Nothing, Folder}
IsDeadLink(thing, s) == thing # s /\ Dead(thing)
LooksForDead(c) == LET call == skillCalls[c] IN
    /\ call.at = "dead"
    /\ SkillCall(c, [call EXCEPT !.at = IF IsDeadLink(links[NameOf[call.of]], call.of) THEN "unlink" ELSE "look"])
    /\ UNCHANGED links

\* ensureSkillSymlink: there already, or taken, or free.
Looks(c) == LET call == skillCalls[c] IN
    /\ call.at = "look"
    /\ SkillCall(c, IF links[NameOf[call.of]] = Nothing THEN [call EXCEPT !.at = "link"] ELSE Next1(call))
    /\ UNCHANGED links

\* Whether one of the calls is about to unlink what it saw under the name.
Awaited(calls, n) ==
    /\ ~Replaced
    /\ \E d \in calls : LET call == skillCalls[d] IN
          call.at = "unlink" /\ (NameOf[call.of] = n \/ (call.op = "legacy" /\ n \in call.todo))

\* symlink fails if there is something now.
Links(c) == LET call == skillCalls[c]  n == NameOf[call.of] IN
    /\ call.at = "link" /\ ~Awaited(SkillCalls \ {c}, n)
    /\ links' = IF links[n] = Nothing THEN [links EXCEPT ![n] = call.of] ELSE links
    /\ SkillCall(c, Next1(call))

\* removeSkills: a link, to the skill.  Mutant: any link of the name.
AnyLink(thing, s) == thing \notin {Nothing, Folder}
IsOwnLink(thing, s) == thing = s
Compares(c) == LET call == skillCalls[c] IN
    /\ call.at = "compare"
    /\ SkillCall(c, IF IsOwnLink(links[NameOf[call.of]], call.of) THEN [call EXCEPT !.at = "unlink"] ELSE Next1(call))
    /\ UNCHANGED links

\* findLegacySkillLinks: links to the skills, and dead ones of their names or from their folders.
Legacy(call, n) ==
    LET thing == links[n]
    IN  \/ thing \in call.dirs
        \/ Dead(thing) /\ (\/ call.any \/ n \in {NameOf[s] : s \in call.dirs}
                           \/ KeptIn[thing] \in {KeptIn[s] : s \in call.dirs})
FindsLegacy(c) == LET call == skillCalls[c] IN
    /\ call.op = "legacy" /\ call.at = "next" /\ call.todo = Names
    /\ LET found == {n \in Names : Legacy(call, n)}
       IN  SkillCall(c, IF found = {} THEN [call EXCEPT !.todo = {}]
                        ELSE [call EXCEPT !.at = "unlink", !.todo = found, !.of = CHOOSE s \in Skills : NameOf[s] \in found])
    /\ UNCHANGED links

\* What is unlinked is what is there now; a folder is not.
Unlinks(c) == LET call == skillCalls[c]  n == NameOf[call.of]  rest == call.todo \ {n} IN
    /\ call.at = "unlink"
    /\ links' = IF links[n] = Folder THEN links ELSE [links EXCEPT ![n] = Nothing]
    /\ SkillCall(c, IF call.op = "install" /\ links[n] \notin {Nothing, Folder} THEN [call EXCEPT !.at = "look"]
                    ELSE IF call.op = "legacy" /\ rest # {}
                    THEN [call EXCEPT !.todo = rest, !.of = CHOOSE s \in Skills : NameOf[s] \in rest]
                    ELSE Next1([call EXCEPT !.todo = IF call.op = "legacy" THEN {} ELSE @]))

SkillCallEnds(c) == skillCalls[c].at = "next" /\ skillCalls[c].todo = {}
                    /\ SkillCall(c, [NoSkillCall EXCEPT !.op = "ended"]) /\ UNCHANGED links

\* The user, or another program, changes what is there; a skill's directory comes and goes.
OthersLink(n) ==
    /\ ~Awaited(SkillCalls, n)
    /\ \E thing \in {Folder, Elsewhere} \cup {s \in Skills : NameOf[s] = n} : links' = [links EXCEPT ![n] = thing]
    /\ UNCHANGED <<kept, skillCalls, textVars, catalog>>
SkillMoves(s) ==
    /\ ~Awaited(SkillCalls, NameOf[s])
    /\ kept' = IF s \in kept THEN kept \ {s} ELSE kept \cup {s}
    /\ UNCHANGED <<links, skillCalls, textVars, catalog>>

LinksNext ==
    \/ \E c \in SkillCalls :
          CallsSkills(c) \/ TakesSkill(c) \/ LooksForDead(c) \/ Looks(c) \/ Links(c) \/ Compares(c)
          \/ FindsLegacy(c) \/ Unlinks(c) \/ SkillCallEnds(c)
    \/ \E n \in Names : OthersLink(n)
    \/ \E s \in Skills : SkillMoves(s)

\* Whatever calls run beside each other, a skill that a user or another program has put there, a
\* folder or a link that leads somewhere, is taken by none of them; what a call takes is a link
\* to one of its own skills, or one that leads nowhere (skills.ts 296-314, 421-441, 513-560).
OthersSkillsStay ==
    [][\A n \in Names : links'[n] # links[n] /\ kept' = kept /\ skillCalls' # skillCalls =>
          \/ links[n] = Nothing
          \/ \E c \in SkillCalls : LET call == skillCalls[c] IN
                /\ skillCalls'[c] # call
                /\ \/ call.op # "install" /\ links[n] \in call.dirs
                   \/ call.op # "remove" /\ Dead(links[n])]_linkVars

-----------------------------------------------------------------------------
(* Instruction files *)

\* The files of a workspace; every runtime reads AGENTS.md, Claude only where there is no CLAUDE.md.
InOrder == <<"AGENTS.md", "CLAUDE.md", "GEMINI.md">>
Files == ToSet(InOrder)
NativeFile == [claude |-> "CLAUDE.md", codex |-> "AGENTS.md", gemini |-> "GEMINI.md"]
Region(tag, body) == [tag |-> tag, body |-> body]
NoFile == <<Region("none", "no file")>>
Pointer == "@AGENTS.md"

NoInstall == [op |-> "none", for |-> {}, native |-> FALSE, brief |-> Pointer, todo |-> << >>, at |-> "none",
              text |-> << >>, changed |-> FALSE, again |-> FALSE, fresh |-> FALSE, told |-> FALSE, calls |-> 0]
\* fresh: nothing has been written since the call began but by it; told: nothing by the user.
Stale(t) == [u \in Tags |-> IF u = t THEN installers[u]
                            ELSE [installers[u] EXCEPT !.fresh = FALSE, !.told = @ /\ t # "user"]]
InstallerIs(t, job) == installers' = [installers EXCEPT ![t] = job] /\ UNCHANGED <<linkVars, catalog>>

\* upsertManagedBlock: the region of the tag is replaced where it is, or put in front.  Mutant: it is
\* put in front each time.
HasRegion(text, t) == \E i \in DOMAIN text : text[i].tag = t
Before(text, t) == CHOOSE i \in DOMAIN text : text[i].tag = t /\ \A j \in 1 .. i - 1 : text[j].tag # t
InPlaceOf(body) == IF body = "dollars" THEN "garbled" ELSE body  \* String.replace expands $&
Content(text) == IF text = NoFile THEN << >> ELSE text
PutInFront(text, t, body) == <<Region(t, body)>> \o Content(text)
Upsert(text, t, body) ==
    IF HasRegion(Content(text), t)
    THEN [text EXCEPT ![Before(text, t)] = Region(t, InPlaceOf(body))]
    ELSE <<Region(t, body)>> \o Content(text)

\* stripManagedBlock: the file goes with the region if nothing else is in it.
Strip(text, t) ==
    IF ~HasRegion(text, t) THEN text
    ELSE LET rest == RemoveAt(text, Before(text, t)) IN IF rest = << >> THEN NoFile ELSE rest

\* resolveInstructionTargets, unrequestedPointerTargets: each file once, a native file on
\* request, or a CLAUDE.md that would hide AGENTS.md.  Mutant: on request alone.
NotReconciled(own) == {}
Reconciled(own) == own \cap {"CLAUDE.md"}
Targets(op, for, native) ==
    LET own == {NativeFile[r] : r \in for} \ {"AGENTS.md"}
    IN  [f \in {"AGENTS.md"} \cup (IF native \/ op = "remove" THEN own ELSE Reconciled(own)) |->
            IF op = "remove" THEN "strip" ELSE IF f \in {"AGENTS.md", "GEMINI.md"} THEN "brief"
            ELSE IF native THEN "pointer" ELSE "reconcile"]

CallsInstructions(t) == LET job == installers[t] IN
    /\ job.op = "none" /\ FoldSet(LAMBDA u, n : n + installers[u].calls, 0, Tags) < MaxCalls
    /\ \E op \in {"install", "remove"}, for \in Wanting, native \in BOOLEAN, brief \in Briefs :
          LET again == op = "install" /\ job.at = "install" /\ job.fresh /\ job.for = for /\ job.native = native /\ job.brief = brief
              targets == Targets(op, for, native)
          IN  /\ op = "remove" => ~native /\ brief = CHOOSE b \in Briefs : TRUE
              /\ InstallerIs(t, [job EXCEPT !.op = op, !.for = for, !.native = native, !.brief = brief, !.at = "read",
                     !.todo = LET in == SelectSeq(InOrder, LAMBDA f : f \in DOMAIN targets) IN [n \in DOMAIN in |-> <<in[n], targets[in[n]]>>],
                     !.changed = FALSE, !.again = again, !.fresh = TRUE, !.told = TRUE, !.calls = @ + 1])
    /\ UNCHANGED <<texts, written>>

\* What a target is to hold: reconcilePointer keeps a CLAUDE.md only for what others have in it.
Wanted(t, how, text) ==
    CASE how = "brief" -> Upsert(text, t, installers[t].brief)
      [] how = "pointer" -> Upsert(text, t, Pointer)
      [] how = "strip" -> IF text = NoFile THEN NoFile ELSE Strip(text, t)
      [] how = "reconcile" -> IF text = NoFile \/ Strip(text, t) = NoFile THEN NoFile ELSE Upsert(text, t, Pointer)

\* Whether another installer has read the file and not yet written it.
Held(f, t) == ~Meanwhile /\ \E u \in Tags \ {t} : installers[u].at = "write" /\ installers[u].todo[1][1] = f

Done(job) == [job EXCEPT !.todo = Tail(@), !.at = "read", !.text = << >>]
ReadsText(t) == LET job == installers[t] IN
    /\ job.at = "read" /\ job.todo # << >> /\ ~Held(job.todo[1][1], t)
    /\ LET f == job.todo[1][1]
           next == Wanted(t, job.todo[1][2], texts[f])
       IN  InstallerIs(t, IF next = texts[f] THEN Done(job)
                          ELSE [job EXCEPT !.at = "write", !.text = next, !.changed = TRUE])
    /\ UNCHANGED <<texts, written>>

WritesText(t) == LET job == installers[t] IN
    /\ job.at = "write"
    /\ texts' = [texts EXCEPT ![job.todo[1][1]] = job.text]
    /\ installers' = [Stale(t) EXCEPT ![t] = Done(job)]
    /\ UNCHANGED <<written, linkVars, catalog>>

\* writeFile empties the file first.
DiesInWrite(t) == LET job == installers[t] IN
    /\ DiesWriting /\ job.at = "write" /\ job.text # NoFile
    /\ texts' = [texts EXCEPT ![job.todo[1][1]] = << >>]
    /\ installers' = [Stale(t) EXCEPT ![t] = [NoInstall EXCEPT !.calls = job.calls]]
    /\ UNCHANGED <<written, linkVars, catalog>>

InstructionsDone(t) == LET job == installers[t] IN
    /\ job.at = "read" /\ job.todo = << >>
    /\ InstallerIs(t, [job EXCEPT !.op = "none", !.at = job.op, !.text = << >>]) /\ UNCHANGED <<texts, written>>

\* The user writes a line.
UserWrites(f) ==
    /\ ~Held(f, "user")
    /\ \E line \in {Region("user", l) : l \in Lines} \ UNION {ToSet(written[g]) : g \in Files} :
          /\ texts' = [texts EXCEPT ![f] = Append(Content(@), line)]
          /\ written' = [written EXCEPT ![f] = Append(@, line)]
    /\ installers' = Stale("user") /\ UNCHANGED <<linkVars, catalog>>

TextsNext ==
    \/ \E t \in Tags :
          CallsInstructions(t) \/ ReadsText(t) \/ WritesText(t) \/ DiesInWrite(t) \/ InstructionsDone(t)
    \/ \E f \in Files : UserWrites(f)

\* Whoever installs and removes what, in whatever order: the lines of the user stay, in order, in
\* the file they were written to; the brief of an install is read by the runtimes that it was
\* for, Claude's included, until the user writes again, whatever others install or remove; the
\* same install again changes nothing; and a removal leaves no region (instructions.ts 256-488).
Text(f) == Content(texts[f])
UserLinesStay == \A f \in Files : SelectSeq(Text(f), LAMBDA l : l.tag = "user") = written[f]
BriefIsRead ==
    \A t \in Tags : LET job == installers[t] IN
        /\ job.op = "none" /\ job.at = "install" /\ job.told =>
              /\ Region(t, job.brief) \in ToSet(Text("AGENTS.md"))
              /\ "claude" \in job.for => texts["CLAUDE.md"] = NoFile \/ \E l \in ToSet(Text("CLAUDE.md")) : l.body = Pointer
              /\ "gemini" \in job.for /\ job.native => Region(t, job.brief) \in ToSet(Text("GEMINI.md"))
        /\ job.op = "none" /\ job.at = "install" /\ job.again /\ job.fresh => ~job.changed
        /\ job.op = "none" /\ job.at = "remove" => \A f \in {"AGENTS.md"} \cup {NativeFile[r] : r \in job.for} : ~HasRegion(Text(f), t)
InstructionsAreTrue == UserLinesStay /\ BriefIsRead

-----------------------------------------------------------------------------
(* Skill commands *)

\* A directory as it was named: where from, what it really is, its name.
Froms == <<"configured", "user", "workspace">>
BadName == "a b"
Dirs == [from : DOMAIN Froms, real : {1, 2}, name : {"x", "y", BadName}]

\* collectSkillDirs: a path once, with the first of its sources; then the ones of the next.
SamePath(d, e) == d.real = e.real /\ d.name = e.name
Collected(dirs) ==
    LET inOrder == FlattenSeq([n \in 1 .. 3 |-> SelectSeq(dirs, LAMBDA d : d.from = n)])
    IN  FoldLeft(LAMBDA some, d : IF \E i \in DOMAIN some : SamePath(some[i], d) THEN some ELSE Append(some, d),
                 << >>, inOrder)

\* discoverSkillCommands: a directory once, whatever its names; a name once; what is left out is told.
\* Mutant: only the same command is seen again.
NoCommands == [commands |-> << >>, seen |-> {}, told |-> {}]
SeenName(found, d) == \E i \in DOMAIN found.commands : found.commands[i] = d
SeenBy(found, d) == d.real \in found.seen
Discovers(readable, found, d) ==
    LET left == [found EXCEPT !.told = @ \cup {d}]
        unfit == \/ d.real \notin readable \/ d.name = BadName
                 \/ \E i \in DOMAIN found.commands : found.commands[i].name = d.name
    IN  IF SeenBy(found, d) THEN left
        ELSE IF unfit THEN [left EXCEPT !.seen = @ \cup {d.real}]
        ELSE [found EXCEPT !.seen = @ \cup {d.real}, !.commands = Append(@, d)]

DiscoverSkillCommands ==
    /\ catalog.at = "drawn"
    /\ catalog' = [catalog EXCEPT !.at = "discovered", !.found =
          FoldLeft(LAMBDA found, d : Discovers(catalog.readable, found, d), NoCommands, Collected(catalog.dirs))]
    /\ UNCHANGED <<linkVars, textVars>>

\* A name is offered once and a skill once; what is not offered is told of; and a name is the
\* configured skill's before the user's before the workspace's (skill-commands.ts 109-147, 245-291).
CommandsAreTrue ==
    catalog.at = "discovered" =>
        LET commands == catalog.found.commands  asked == Collected(catalog.dirs)
        IN  /\ \A i, j \in DOMAIN commands :
                  i # j => commands[i].name # commands[j].name /\ commands[i].real # commands[j].real
            /\ \A d \in ToSet(catalog.dirs) : \E e \in ToSet(commands) \cup catalog.found.told : SamePath(d, e) /\ e.from <= d.from
            /\ \A c \in ToSet(commands), d \in ToSet(asked) :
                  d.name = c.name /\ d.real \in catalog.readable /\ d.from < c.from
                      => \E e \in ToSet(asked) : e.real = d.real /\ e # d /\ e.from <= d.from

-----------------------------------------------------------------------------
NoCatalog == [at |-> "none", dirs |-> << >>, readable |-> {}, found |-> NoCommands]
CatalogInit ==
    \E n \in 1 .. MaxDirs : \E dirs \in [1 .. n -> Dirs], readable \in SUBSET {1, 2} :
        /\ \A i \in 2 .. n : dirs[i - 1].from <= dirs[i].from
        /\ catalog = [at |-> "drawn", dirs |-> dirs, readable |-> readable, found |-> NoCommands]

\* A CLAUDE.md may be of an installer of before, which put its brief there.
InstalledInit ==
    /\ links = [n \in Names |-> Nothing] /\ kept = Skills /\ skillCalls = [c \in SkillCalls |-> NoSkillCall]
    /\ written = [f \in Files |-> << >>] /\ installers = [t \in Tags |-> NoInstall]
    /\ texts \in {[f \in Files |-> IF f = "CLAUDE.md" THEN old ELSE NoFile] : old \in {NoFile} \cup {<<Region(t, "old")>> : t \in Tags}}

LinksSpec == InstalledInit /\ [][LinksNext]_linkVars

InstalledIsTrue == InstructionsAreTrue /\ CommandsAreTrue
=============================================================================
