------------------------------- MODULE Worktrees -------------------------------
(***************************************************************************)
(* The workspaces of one repository (packages/workspace/src/workspace.ts   *)
(* and git/): a host creates, opens and archives them, each call a series  *)
(* of git commands and file operations between which other calls, agents   *)
(* and people change the same repository; what a handle does to its        *)
(* worktree is git/commit-push.ts, checkpoints.ts, pull.ts and status.ts.  *)
(*                                                                         *)
(* A commit stands for a number and a ref for the set of the commits it    *)
(* reaches.  External: git, the people and agents.  A git command is       *)
(* atomic.  Left out: submodules, tags, conflicts of a rebase.             *)
(***************************************************************************)
EXTENDS Integers, FiniteSets

CONSTANTS
    HostCalls,      \* calls of create, open and archive
    Paths, Branches,
    MaxCommits,     \* bound: commits after the first
    RefsMove,       \* TRUE: base and branch may move while a creation is between looking
                    \* at them and adding the worktree
    Remade          \* TRUE: a worktree that has gone may be made again by another creation
                    \* while the first has yet to write the metadata

ASSUME WorktreesAssumption ==
    /\ MaxCommits \in Nat /\ {RefsMove, Remade} \subseteq BOOLEAN
    /\ "no branch" \notin Branches /\ "nobody" \notin HostCalls

VARIABLES
    base,   \* the commits of the base branch, which the source repository has checked out
    heads,  \* per branch, its commits
    origin, \* per branch, what has been pushed
    tracks, \* the branches with an upstream
    trees,  \* per path
    hosts   \* per call

treeVars == <<base, heads, origin, tracks, trees, hosts>>
refs == <<base, heads, origin, tracks>>

First == {0}          \* a history: its first commit
NoRef == {}           \* no history: the ref, or the metadata, is not there
Torn == {-1}          \* metadata of which a part has been written
Detached == "no branch"

NoTree == [kind |-> "none", listed |-> FALSE, on |-> Detached, at |-> NoRef, dirty |-> FALSE,
           meta |-> NoRef, mark |-> NoRef, left |-> NoRef, by |-> "nobody"]
Idle == [op |-> "none", at |-> "none", path |-> "none", branch |-> Detached, reuse |-> FALSE,
         force |-> FALSE, delete |-> FALSE, sha |-> NoRef, fresh |-> FALSE]

\* A worktree of old: p stands on b, which it left the base for at its first commit.
Standing(b) == [NoTree EXCEPT !.kind = "git", !.listed = TRUE, !.on = b, !.meta = First, !.left = First]

TreesInit ==
    /\ base = First /\ origin = [b \in Branches |-> NoRef] /\ tracks = {}
    /\ hosts = [c \in HostCalls |-> Idle]
    /\ trees \in {[p \in Paths |-> NoTree]}
           \cup {[q \in Paths |-> IF q = p THEN Standing(b) ELSE NoTree] : p \in Paths, b \in Branches}
    /\ heads = [b \in Branches |-> IF \E p \in Paths : trees[p].on = b THEN First ELSE NoRef]

Commits == 0 .. MaxCommits
Made == UNION ({base} \cup {heads[b] : b \in Branches} \cup {origin[b] : b \in Branches}
               \cup {trees[p].at : p \in Paths} \cup {trees[p].mark : p \in Paths})
New == {n \in Commits \ Made : \A m \in Commits \ Made : n <= m}

IsGit(p) == trees[p].kind = "git"
Tip(p) == IF trees[p].on = Detached THEN trees[p].at ELSE heads[trees[p].on]
CheckedOut(b) == {p \in Paths : trees[p].listed /\ trees[p].on = b}

\* status.ahead: commits that are not pushed, 0 without an upstream.
Ahead(p) == IF trees[p].on \in tracks THEN Cardinality(Tip(p) \ origin[trees[p].on]) ELSE 0

At(c, op, step) == hosts[c].op = op /\ hosts[c].at = step
To(c, step) == hosts' = [hosts EXCEPT ![c].at = step]
Ended(c, result) == To(c, result)

-----------------------------------------------------------------------------
(* create *)

\* The source is a repository; a branch that is there is adopted when asked to, or refused.
CreateGit(c) ==
    /\ hosts[c].op = "none"
    /\ \E p \in Paths, b \in Branches, reuse \in BOOLEAN :
          LET exists == heads[b] # NoRef
          IN  hosts' = [hosts EXCEPT ![c] =
                [@ EXCEPT !.op = "create", !.path = p, !.branch = b, !.reuse = exists /\ reuse,
                          !.at = IF exists /\ ~reuse THEN "branch exists" ELSE "sha"]]
    /\ UNCHANGED <<refs, trees>>

\* Where the branch diverged from the base: the tip of the base for a new branch; for one
\* that is adopted the merge base, or the tip when the branch has gone.
TipOfBase(c) == base
Diverged(c) ==
    IF hosts[c].reuse /\ heads[hosts[c].branch] # NoRef THEN heads[hosts[c].branch] \cap base ELSE base
ResolvesBase(c) ==
    /\ At(c, "create", "sha")
    /\ hosts' = [hosts EXCEPT ![c].at = "add", ![c].sha = Diverged(c)]
    /\ UNCHANGED <<refs, trees>>

\* git worktree add: to a path that is free, or an empty directory, and not listed.
Free(p) == ~trees[p].listed /\ (trees[p].kind = "none" \/ (trees[p].kind = "bare" /\ ~trees[p].dirty))

\* Whether a creation has yet to write the metadata of a worktree at the path.
Unwritten(p) == \E d \in HostCalls : hosts[d].op = "create" /\ hosts[d].at \in {"write", "writing"} /\ hosts[d].path = p

TreeAdded(c, b, tip) ==
    /\ Remade \/ ~Unwritten(hosts[c].path)
    /\ heads' = [heads EXCEPT ![b] = tip]
    /\ trees' = [trees EXCEPT ![hosts[c].path] =
         [NoTree EXCEPT !.kind = "git", !.listed = TRUE, !.on = b, !.left = tip \cap base, !.by = c]]
    /\ To(c, "write")

AddsNew(c) ==
    /\ At(c, "create", "add") /\ ~hosts[c].reuse
    /\ LET b == hosts[c].branch
       IN  \/ ~Free(hosts[c].path) /\ Ended(c, "failed") /\ UNCHANGED <<heads, trees>>
           \/ /\ Free(hosts[c].path) /\ heads[b] # NoRef
              /\ Ended(c, "branch exists") /\ UNCHANGED <<heads, trees>>
           \/ Free(hosts[c].path) /\ heads[b] = NoRef /\ TreeAdded(c, b, base)
    /\ UNCHANGED <<base, origin, tracks>>

\* A branch that has gone is made again from what was pushed of it.
AddsExisting(c) ==
    /\ At(c, "create", "add") /\ hosts[c].reuse
    /\ LET b == hosts[c].branch
           tip == IF heads[b] # NoRef THEN heads[b] ELSE origin[b]
       IN  IF Free(hosts[c].path) /\ tip # NoRef /\ CheckedOut(b) = {}
           THEN /\ TreeAdded(c, b, tip)
                /\ tracks' = IF heads[b] = NoRef THEN tracks \cup {b} ELSE tracks
           ELSE Ended(c, "failed") /\ UNCHANGED <<heads, trees, tracks>>
    /\ UNCHANGED <<base, origin>>

\* What follows may fail, and nothing takes the worktree back: the sparse checkout, the
\* metadata, .git/info/exclude, the copies and links of autoApplyFromSource.
Fails(c) ==
    /\ hosts[c].op = "create" /\ hosts[c].at \in {"write", "writing", "finish"}
    /\ Ended(c, "failed") /\ UNCHANGED <<refs, trees>>

\* writeWorktreeMetadata: writeFile empties the file, then fills it.
WritesMetadata(c) ==
    /\ At(c, "create", "write") /\ IsGit(hosts[c].path)
    /\ trees' = [trees EXCEPT ![hosts[c].path].meta = Torn] /\ To(c, "writing") /\ UNCHANGED refs

MetadataWritten(c) ==
    /\ At(c, "create", "writing") /\ IsGit(hosts[c].path)
    /\ trees' = [trees EXCEPT ![hosts[c].path].meta = hosts[c].sha] /\ To(c, "finish") /\ UNCHANGED refs

Returns(c) ==
    /\ At(c, "create", "finish") /\ IsGit(hosts[c].path)
    /\ Ended(c, "handle") /\ UNCHANGED <<refs, trees>>

\* createBare: a directory that is no worktree, which may be there already.
CreateBare(c) ==
    /\ hosts[c].op = "none"
    /\ \E p \in Paths :
          /\ hosts' = [hosts EXCEPT ![c] = [@ EXCEPT !.op = "create bare", !.path = p,
                           !.at = IF IsGit(p) THEN "failed" ELSE "handle"]]
          /\ trees' = IF trees[p].kind = "none" THEN [trees EXCEPT ![p].kind = "bare"] ELSE trees
    /\ UNCHANGED refs

-----------------------------------------------------------------------------
(* open *)

\* A detached worktree has no branch to read, and a path without .git is bare.
OpenWorkspace(c) ==
    /\ hosts[c].op = "none"
    /\ \E p \in Paths :
          hosts' = [hosts EXCEPT ![c] = [@ EXCEPT !.op = "open", !.path = p, !.branch = trees[p].on,
              !.at = IF trees[p].kind = "bare" THEN "bare handle"
                     ELSE IF trees[p].on = Detached THEN "failed" ELSE "metadata"]]
    /\ UNCHANGED <<refs, trees>>

\* The base is what was written at creation; failing that, the tip of the base that the
\* caller names.  Metadata that cannot be parsed is an error even for such a caller.
ReadsMetadata(c) ==
    /\ At(c, "open", "metadata")
    /\ \E named \in BOOLEAN : LET meta == trees[hosts[c].path].meta IN
          hosts' = [hosts EXCEPT ![c] =
              IF meta = Torn \/ ~IsGit(hosts[c].path) \/ (meta = NoRef /\ ~named) THEN [@ EXCEPT !.at = "failed"]
              ELSE [@ EXCEPT !.at = "handle", !.sha = IF meta = NoRef THEN base ELSE meta, !.fresh = meta = NoRef]]
    /\ UNCHANGED <<refs, trees>>

-----------------------------------------------------------------------------
(* archive *)

\* Of what is not on disk only the listing is left to prune, if the source is named.
Pruned(t) == IF t.kind = "none" THEN NoTree ELSE t

\* Refused when the status is not clean, unless forced.
Archive(c) ==
    /\ hosts[c].op = "none"
    /\ \E p \in Paths, force, delete, named \in BOOLEAN : LET t == trees[p] IN
          /\ hosts' = [hosts EXCEPT ![c] =
               [@ EXCEPT !.op = IF t.kind = "bare" THEN "archive bare" ELSE "archive",
                         !.path = p, !.force = force, !.delete = delete,
                         !.branch = IF delete THEN t.on ELSE Detached,
                         !.at = IF t.kind = "none" THEN "archived"
                                ELSE IF t.kind = "git" /\ ~force /\ (t.dirty \/ Ahead(p) > 0) THEN "refused"
                                ELSE "script"]]
          /\ t.kind = "none" => ~force /\ ~delete
          /\ trees' = IF t.kind = "none" /\ named THEN [q \in Paths |-> Pruned(trees[q])] ELSE trees
    /\ UNCHANGED refs

\* The script of the repository, which may fail, and may take its time.
RunsScript(c) ==
    /\ hosts[c].op \in {"archive", "archive bare"} /\ hosts[c].at = "script"
    /\ \E ok \in BOOLEAN : IF ok THEN To(c, "remove") ELSE Ended(c, "failed")
    /\ UNCHANGED <<refs, trees>>

RemovesBare(c) ==
    /\ At(c, "archive bare", "remove")
    /\ LET p == hosts[c].path
       IN  trees' = [trees EXCEPT ![p] = [NoTree EXCEPT !.listed = trees[p].listed, !.on = trees[p].on]]
    /\ Ended(c, "archived") /\ UNCHANGED refs

\* git worktree remove looks at the worktree once more; its metadata and checkpoints go too.
RemovesAnyway(c) == IsGit(hosts[c].path)
MayRemove(c) == IsGit(hosts[c].path) /\ (hosts[c].force \/ ~trees[hosts[c].path].dirty)
WorktreeRemove(c) ==
    /\ At(c, "archive", "remove")
    /\ IF MayRemove(c)
       THEN trees' = [trees EXCEPT ![hosts[c].path] = NoTree] /\ To(c, "prune")
       ELSE Ended(c, "failed") /\ UNCHANGED trees
    /\ UNCHANGED refs

WorktreePrune(c) ==
    /\ At(c, "archive", "prune")
    /\ trees' = [p \in Paths |-> Pruned(trees[p])]
    /\ IF hosts[c].branch = Detached THEN Ended(c, "archived") ELSE To(c, "delete")
    /\ UNCHANGED refs

\* git branch -d wants the branch in its upstream, or in what the source has checked out.
MergedOrNot(b) == TRUE
Merged(b) == IF b \in tracks THEN heads[b] \subseteq origin[b] ELSE heads[b] \subseteq base
BranchDelete(c) ==
    /\ At(c, "archive", "delete")
    /\ LET b == hosts[c].branch
       IN  IF heads[b] = NoRef \/ CheckedOut(b) # {} \/ ~(hosts[c].force \/ Merged(b))
           THEN /\ Ended(c, IF heads[b] = NoRef THEN "archived" ELSE "failed")
                /\ UNCHANGED <<heads, tracks>>
           ELSE /\ heads' = [heads EXCEPT ![b] = NoRef] /\ tracks' = tracks \ {b}
                /\ Ended(c, "archived")
    /\ UNCHANGED <<base, origin, trees>>

\* The host dies in the middle of a call.
Dies(c) ==
    /\ hosts[c].at \in {"sha", "add", "write", "writing", "finish", "script", "remove", "prune", "delete"}
    /\ Ended(c, "died") /\ UNCHANGED <<refs, trees>>

-----------------------------------------------------------------------------
(* What a handle does to its worktree *)

Moves(p, tip) ==
    IF trees[p].on = Detached
    THEN trees' = [trees EXCEPT ![p].at = tip, ![p].dirty = FALSE] /\ UNCHANGED heads
    ELSE heads' = [heads EXCEPT ![trees[p].on] = tip] /\ trees' = [trees EXCEPT ![p].dirty = FALSE]

Edit(p) ==
    /\ trees[p].kind # "none" /\ ~trees[p].dirty
    /\ trees' = [trees EXCEPT ![p].dirty = TRUE] /\ UNCHANGED <<refs, hosts>>

\* commitChanges: of everything, unless there is nothing.
Commit(p) ==
    /\ IsGit(p) /\ trees[p].dirty /\ New # {}
    /\ Moves(p, Tip(p) \cup New) /\ UNCHANGED <<base, origin, tracks, hosts>>

\* pushCurrentBranch: with an upstream from the first time on; git refuses to lose commits.
Push(p) ==
    /\ IsGit(p) /\ trees[p].on # Detached
    /\ LET b == trees[p].on
       IN  /\ origin[b] \subseteq heads[b] /\ (b \notin tracks \/ origin[b] # heads[b])
           /\ origin' = [origin EXCEPT ![b] = heads[b]] /\ tracks' = tracks \cup {b}
    /\ UNCHANGED <<base, heads, trees, hosts>>

\* pullLatestBase, mergeFrom the base: on to it, or a commit of both; or a conflict, which stays.
Pull(p) ==
    /\ IsGit(p) /\ ~trees[p].dirty /\ ~(base \subseteq Tip(p))
    /\ \/ Tip(p) \subseteq base /\ Moves(p, base)
       \/ ~(Tip(p) \subseteq base) /\ New # {} /\ Moves(p, Tip(p) \cup base \cup New)
       \/ ~(Tip(p) \subseteq base) /\ trees' = [trees EXCEPT ![p].dirty = TRUE] /\ UNCHANGED heads
    /\ UNCHANGED <<base, origin, tracks, hosts>>

CreateCheckpoint(p) ==
    /\ IsGit(p) /\ trees[p].mark # Tip(p)
    /\ trees' = [trees EXCEPT ![p].mark = Tip(p)] /\ UNCHANGED <<refs, hosts>>

DeleteCheckpoint(p) ==
    /\ IsGit(p) /\ trees[p].mark # NoRef
    /\ trees' = [trees EXCEPT ![p].mark = NoRef] /\ UNCHANGED <<refs, hosts>>

\* reset --hard, which leaves what is untracked.
RestoreCheckpoint(p) ==
    /\ IsGit(p) /\ trees[p].mark # NoRef /\ (trees[p].mark # Tip(p) \/ trees[p].dirty)
    /\ Moves(p, trees[p].mark) /\ UNCHANGED <<base, origin, tracks, hosts>>

\* checkout of a commit.
Detach(p) ==
    /\ IsGit(p) /\ trees[p].on # Detached
    /\ trees' = [trees EXCEPT ![p].on = Detached, ![p].at = Tip(p)] /\ UNCHANGED <<refs, hosts>>

-----------------------------------------------------------------------------
(* People, and other tools *)

\* Whether a creation has looked at the refs and not yet added its worktree.
Between == \E c \in HostCalls : hosts[c].op = "create" /\ hosts[c].at \in {"sha", "add"}

BaseAdvances ==
    /\ \/ New # {} /\ base' = base \cup New
       \/ \E b \in Branches : ~(heads[b] \subseteq base) /\ base' = base \cup heads[b]
    /\ UNCHANGED <<heads, origin, tracks, trees, hosts>>

RemovedByHand(p) ==
    /\ trees[p].kind # "none"
    /\ trees' = [trees EXCEPT ![p] = [NoTree EXCEPT !.listed = trees[p].listed, !.on = trees[p].on]]
    /\ UNCHANGED <<refs, hosts>>

TreesNext ==
    \/ \E c \in HostCalls :
          \/ CreateGit(c) \/ ResolvesBase(c) \/ AddsNew(c) \/ AddsExisting(c) \/ WritesMetadata(c) \/ MetadataWritten(c)
          \/ Returns(c) \/ Fails(c) \/ CreateBare(c) \/ OpenWorkspace(c) \/ ReadsMetadata(c)
          \/ Archive(c) \/ RunsScript(c) \/ RemovesBare(c) \/ WorktreeRemove(c) \/ WorktreePrune(c)
          \/ Dies(c)
    \/ \E p \in Paths : Edit(p) \/ Push(p) \/ CreateCheckpoint(p) \/ DeleteCheckpoint(p) \/ Detach(p)
    \/ \E p \in Paths : RemovedByHand(p)
    \/ /\ RefsMove \/ ~Between
       /\ \/ BaseAdvances
          \/ \E p \in Paths : Commit(p) \/ Pull(p) \/ RestoreCheckpoint(p)
          \/ \E c \in HostCalls : BranchDelete(c)

TreesSpec == TreesInit /\ [][TreesNext]_treeVars

-----------------------------------------------------------------------------
(* Properties *)

TreesTypeOK ==
    /\ base \subseteq Commits /\ tracks \subseteq Branches
    /\ \A b \in Branches : heads[b] \subseteq Commits /\ origin[b] \subseteq Commits
    /\ \A p \in Paths : trees[p].kind \in {"none", "bare", "git"} /\ trees[p].on \in Branches \cup {Detached}

\* An archive that is not forced takes no change of a worktree that is not committed, and no
\* commit of a branch that neither another branch nor the remote has: whatever happens between
\* its check, the script, the removal and the deletion of the branch (workspace.ts 339-387).
OfBranches == base \cup UNION {heads[b] \cup origin[b] : b \in Branches}
WorkIsKept ==
    [][\A c \in HostCalls :
          hosts[c].op = "archive" /\ ~hosts[c].force /\ hosts'[c] # hosts[c]
              => /\ OfBranches \subseteq OfBranches'
                 /\ \A p \in Paths : IsGit(p) /\ trees[p].dirty => trees'[p] = trees[p]]_treeVars

\* The base of a workspace is where its branch left the base, whoever asks and whenever: what is
\* written at creation, what create returned and what open returns of a worktree with metadata,
\* however far the base, the branch and the checkpoints have moved (workspace.ts 133-148, 274-288).
BaseIsTrue ==
    /\ \A p \in Paths : trees[p].meta \notin {NoRef, Torn} => trees[p].meta = trees[p].left
    /\ \A c \in HostCalls : hosts[c].at = "handle" /\ hosts[c].op \in {"create", "open"} /\ ~hosts[c].fresh
          => hosts[c].sha # NoRef /\ \A p \in Paths : trees[p].by = c => hosts[c].sha = trees[p].left

\* Of the calls that create a branch one gets it: a call that was told that the branch exists has
\* left nothing behind, no branch stands in two worktrees, and the worktree of a call that
\* returned can be opened (workspace.ts 127-131, 168-178, 190-206).
OneOwner ==
    /\ \A p, q \in Paths : p # q /\ trees[p].on # Detached /\ trees[p].on = trees[q].on => FALSE
    /\ \A c \in HostCalls, p \in Paths : trees[p].by = c
          => /\ hosts[c].at # "branch exists"
             /\ hosts[c].at = "handle" => trees[p].meta \notin {NoRef, Torn}

WorkspacesAreTrue == BaseIsTrue /\ OneOwner
=============================================================================
