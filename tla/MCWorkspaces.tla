----------------------------- MODULE MCWorkspaces -----------------------------
(* For TLC: the workspaces of one repository, what a workspace has beside git, *)
(* what it reads of what git prints, and what is installed where the runtimes  *)
(* look.  They share no state: a behaviour is one of one of them, drawn at the *)
(* start.                                                                      *)
EXTENDS Worktrees, WorkspaceTools, WorkspaceDiff, InstalledFiles, TLC

VARIABLE part

workspaceVars == <<treeVars, toolVars, diffVars, installedVars, part>>

Tools == {"script", "ports", "watch", "context", "sources"}

WorkspacesInit ==
    /\ part \in {"calls", "worktree", "git prints", "skills", "instructions", "commands"} \cup Tools
    /\ TreesInit /\ (part \notin {"calls", "worktree"} => \A p \in Paths : trees[p] = NoTree)
    /\ ToolsInit /\ (part # "sources" => sources = NoSources)
    /\ IF part = "git prints" THEN DiffInit ELSE changed = [what |-> "status", entries |-> << >>] /\ read = NotRead
    /\ InstalledInit /\ (part # "instructions" => \A f \in Files : texts[f] = NoFile)
    /\ IF part = "commands" THEN CatalogInit ELSE catalog = NoCatalog

\* Calls beside each other, on worktrees that stay on their branches; one call, on one path.
Beside == \A p \in Paths :
             trees[p] # NoTree => trees[p].kind = "git" /\ trees[p].on # Detached /\ trees[p].mark = NoRef
Alone == /\ \A c, d \in HostCalls : c # d => Idle \in {hosts[c], hosts[d]}
         /\ \A p, q \in Paths : p # q => NoTree \in {trees[p], trees[q]}

ToolNext ==
    \/ part = "script" /\ ScriptNext
    \/ part = "ports" /\ PortsNext
    \/ part = "watch" /\ WatchNext
    \/ part = "context" /\ ContextNext
    \/ part = "sources" /\ SourcesNext

WorkspacesNext ==
    /\ UNCHANGED part
    /\ \/ /\ \/ part = "calls" /\ TreesNext /\ Beside'
             \/ part = "worktree" /\ TreesNext /\ Alone'
          /\ UNCHANGED <<toolVars, diffVars, installedVars>>
       \/ ToolNext /\ UNCHANGED <<treeVars, diffVars, installedVars>>
       \/ part = "git prints" /\ DiffNext /\ UNCHANGED <<treeVars, toolVars, installedVars>>
       \/ /\ \/ part = "skills" /\ LinksNext
             \/ part = "instructions" /\ TextsNext
             \/ part = "commands" /\ DiscoverSkillCommands
          /\ UNCHANGED <<treeVars, toolVars, diffVars>>

WorkspacesSpec == WorkspacesInit /\ [][WorkspacesNext]_workspaceVars

WorkspacesSymmetry ==
    Permutations(HostCalls) \cup Permutations(Paths) \cup Permutations(SkillCalls) \cup Permutations(Tags)

\* Of the skills two have a name, and two a folder that they come from.
MCNameOf == [s \in Skills |-> IF s = "third" THEN "other" ELSE "name"]
MCKeptIn == [s \in Skills |-> IF s = "second" THEN "elsewhere" ELSE "skills"]

\* What is read of the output of git and of the skills and instructions that are there is what is
\* there: the files of a diff and the counts of a status (WorkspaceDiff), the brief and the lines of
\* an instruction file and the commands that are offered (InstalledFiles).
ReadsAreTrue == ChangesAreTold /\ InstalledIsTrue
=============================================================================
