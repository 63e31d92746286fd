-------------------------- MODULE Workspaces_proofs --------------------------
(***************************************************************************)
(* Theorems about the workspaces of a repository: its worktrees            *)
(* (Worktrees), what a workspace has beside git (WorkspaceTools), and the   *)
(* skills that are linked where the runtimes look (InstalledFiles).         *)
(*                                                                         *)
(* The worktrees: TreesInv says what git, the metadata and each call know   *)
(* of one another.  One lemma per action keeps it; WorkspacesStayTrue and   *)
(* ArchivesLoseNothing follow.  The five tools share no state: each has an  *)
(* invariant of its own, kept by its own actions (ToolsStepApart says that  *)
(* the others leave it), and ToolsStayTrue puts them together.  LinksInv     *)
(* says that what a call is about to unlink is still what it may take.      *)
(***************************************************************************)
EXTENDS MCWorkspaces, FiniteSetTheorems, SequenceTheorems, WellFoundedInduction, TLAPS

-----------------------------------------------------------------------------
(* Worktrees: the invariant                                                *)

Tree == [kind : {"none", "bare", "git"}, listed : BOOLEAN, on : Branches \cup {Detached},
         at : SUBSET Commits, dirty : BOOLEAN, meta : (SUBSET Commits) \cup {Torn},
         mark : SUBSET Commits, left : SUBSET Commits, by : HostCalls \cup {"nobody"}]
Steps == {"none", "sha", "add", "write", "writing", "finish", "handle", "failed", "died", "branch exists",
          "bare handle", "metadata", "archived", "refused", "script", "remove", "prune", "delete"}
HostCall == [op : {"none", "create", "create bare", "open", "archive", "archive bare"}, at : Steps,
             path : Paths \cup {"none"}, branch : Branches \cup {Detached}, reuse : BOOLEAN,
             force : BOOLEAN, delete : BOOLEAN, sha : SUBSET Commits, fresh : BOOLEAN]

TreesShape ==
    /\ base \in SUBSET Commits
    /\ heads \in [Branches -> SUBSET Commits]
    /\ origin \in [Branches -> SUBSET Commits]
    /\ tracks \in SUBSET Branches
    /\ trees \in [Paths -> Tree]
    /\ hosts \in [HostCalls -> HostCall]

\* Each ref that is there reaches the first commit.
Rooted(h) == h # NoRef => 0 \in h
RefsRooted ==
    /\ 0 \in base
    /\ \A b \in Branches : Rooted(heads[b]) /\ Rooted(origin[b])

\* A worktree is listed while it is there or stands on a branch, and its branch is there; its
\* metadata is whole only if it says where it left the base.
TreeIsSound(t) ==
    /\ t.kind = "git" \/ t.on # Detached => t.listed
    /\ t.on # Detached => heads[t.on] # NoRef
    /\ t.kind = "git" /\ t.on = Detached => 0 \in t.at
    /\ Rooted(t.mark)
    /\ t.meta \notin {NoRef, Torn} => t.meta = t.left

\* The call that made a worktree is past adding it, and once past the metadata as well, that is
\* what it said.
Making == {"write", "writing", "finish", "handle", "failed", "died"}
MadeBy(k, t, p) ==
    /\ k.op = "create" /\ k.path = p /\ k.at \in Making
    /\ k.at \in {"finish", "handle"} => t.meta = k.sha /\ t.left = k.sha
TreeIsOf(t, p) == t.by # "nobody" => MadeBy(hosts[t.by], t, p)

TreesSound ==
    /\ \A p \in Paths : TreeIsSound(trees[p]) /\ TreeIsOf(trees[p], p)
    /\ \A p, q \in Paths : p # q /\ trees[p].on # Detached => trees[q].on # trees[p].on

\* What a call carries from one of its steps to the next still holds.
CallIsSound(c, k) ==
    /\ k.op # "none" => k.path \in Paths
    /\ k.op = "create" =>
        /\ k.branch \in Branches
        /\ k.at \in {"sha", "add"} /\ k.reuse => heads[k.branch] # NoRef
        /\ k.at = "add" => k.sha = IF k.reuse THEN heads[k.branch] \cap base ELSE base
        /\ k.at \in Making => 0 \in k.sha \/ k.at \in {"failed", "died"}
        /\ k.at \in {"write", "writing"} /\ trees[k.path].kind = "git" =>
              trees[k.path].by = c /\ trees[k.path].left = k.sha
    /\ k.op = "open" /\ k.at = "handle" /\ ~k.fresh => k.sha # NoRef

TreesInv ==
    /\ TreesShape
    /\ RefsRooted
    /\ TreesSound
    /\ \A c \in HostCalls : CallIsSound(c, hosts[c])

LEMMA FirstIsACommit == 0 \in Commits /\ -1 \notin Commits /\ First \in SUBSET Commits /\ NoRef \in SUBSET Commits
<1>1. MaxCommits \in Nat BY WorktreesAssumption
<1>2. 0 \in 0 .. MaxCommits /\ -1 \notin 0 .. MaxCommits BY <1>1
<1>3. QED BY <1>2 DEF Commits, First, NoRef

LEMMA NoTreeIsATree ==
    /\ NoTree \in Tree
    /\ \A t \in Tree : [NoTree EXCEPT !.listed = t.listed, !.on = t.on] \in Tree
<1>1. NoTree \in Tree BY FirstIsACommit DEF NoTree, Tree, Detached, NoRef, First
<1>2. ASSUME NEW t \in Tree PROVE [NoTree EXCEPT !.listed = t.listed, !.on = t.on] \in Tree BY <1>1 DEF Tree
<1>3. QED BY <1>1, <1>2

LEMMA TreesInitially == TreesInit => TreesInv
<1> SUFFICES ASSUME TreesInit PROVE TreesInv OBVIOUS
<1>1. base = {0} /\ origin = [b \in Branches |-> {}] /\ tracks = {} /\ hosts = [c \in HostCalls |-> Idle]
  BY DEF TreesInit, First, NoRef
<1>2. /\ trees \in [Paths -> Tree]
      /\ \A p \in Paths : trees[p] = NoTree \/ (\E b \in Branches : trees[p] = Standing(b))
      /\ \A p, q \in Paths : p # q => trees[p] = NoTree \/ trees[q] = NoTree
  <2>1. \A b \in Branches : Standing(b) \in Tree BY NoTreeIsATree, FirstIsACommit DEF Standing, Tree
  <2>2. CASE trees = [p \in Paths |-> NoTree] BY <2>2, NoTreeIsATree
  <2>3. CASE \E p \in Paths, b \in Branches : trees = [q \in Paths |-> IF q = p THEN Standing(b) ELSE NoTree]
    BY <2>1, <2>3, NoTreeIsATree
  <2>4. QED BY <2>2, <2>3 DEF TreesInit
<1>3. /\ heads \in [Branches -> SUBSET Commits]
      /\ \A b \in Branches : heads[b] = {} \/ heads[b] = {0}
      /\ \A p \in Paths : trees[p].on # Detached => heads[trees[p].on] # NoRef
  BY <1>2, FirstIsACommit DEF TreesInit, First, NoRef, Tree
<1>4. Idle \in HostCall BY FirstIsACommit DEF Idle, HostCall, Steps
<1>5. TreesShape BY <1>1, <1>2, <1>3, <1>4, FirstIsACommit DEF TreesShape, First, NoRef
<1>6. RefsRooted BY <1>1, <1>3 DEF RefsRooted, Rooted, NoRef
<1>7. \A b \in Branches : b # Detached BY WorktreesAssumption DEF Detached
<1>8. ASSUME NEW p \in Paths PROVE TreeIsSound(trees[p]) /\ TreeIsOf(trees[p], p)
  <2>1. CASE trees[p] = NoTree BY <2>1 DEF NoTree, NoRef, TreeIsSound, TreeIsOf, Rooted
  <2>2. CASE \E b \in Branches : trees[p] = Standing(b)
    <3> PICK b \in Branches : trees[p] = Standing(b) BY <2>2
    <3>1. /\ trees[p].kind = "git" /\ trees[p].listed = TRUE /\ trees[p].on = b /\ trees[p].meta = {0}
          /\ trees[p].left = {0} /\ trees[p].mark = {} /\ trees[p].by = "nobody"
      BY DEF Standing, NoTree, First, NoRef
    <3>2. QED BY <1>3, <1>7, <3>1 DEF TreeIsSound, TreeIsOf, Rooted, NoRef
  <2>3. QED BY <1>2, <2>1, <2>2
<1>9. ASSUME NEW p \in Paths, NEW q \in Paths, p # q, trees[p].on # Detached PROVE trees[q].on # trees[p].on
  BY <1>9, <1>2 DEF NoTree
<1>10. \A c \in HostCalls : CallIsSound(c, hosts[c]) BY <1>1 DEF Idle, CallIsSound
<1>11. QED BY <1>5, <1>6, <1>8, <1>9, <1>10 DEF TreesInv, TreesSound

-----------------------------------------------------------------------------
(* Worktrees: the steps                                                    *)

\* What may be left of a worktree t that goes.
LeftOf(t, u) ==
    \/ u = t
    \/ u = [t EXCEPT !.kind = "bare"]
    \/ u = NoTree
    \/ u = [NoTree EXCEPT !.listed = t.listed, !.on = t.on]

LEMMA WhatIsLeft ==
    ASSUME NEW t \in Tree, NEW u, LeftOf(t, u)
    PROVE  /\ u \in Tree
           /\ u.by \in {t.by, "nobody"}
           /\ u.kind = "git" => u = t
           /\ u.by # "nobody" => u.meta = t.meta /\ u.left = t.left
           /\ u.on # Detached => u.on = t.on /\ u.listed = t.listed
           /\ u.mark = t.mark \/ u.mark = NoRef
           /\ (u.meta = t.meta /\ u.left = t.left) \/ u.meta = NoRef
<1>1. CASE u = t BY <1>1
<1>2. CASE u = [t EXCEPT !.kind = "bare"] BY <1>2 DEF Tree
<1>3. CASE u = NoTree BY <1>3, NoTreeIsATree DEF NoTree
<1>4. CASE u = [NoTree EXCEPT !.listed = t.listed, !.on = t.on]
  <2>1. u \in Tree BY <1>4, NoTreeIsATree
  <2>2. /\ u.kind = "none" /\ u.by = "nobody" /\ u.meta = NoRef /\ u.on = t.on
        /\ u.listed = t.listed /\ u.mark = NoRef
    BY <1>4 DEF NoTree
  <2>3. QED BY <2>1, <2>2
<1>5. QED BY <1>1, <1>2, <1>3, <1>4 DEF LeftOf

\* A step that changes no ref, takes worktrees at most, and takes the calls where what they
\* carry is sound.
LEMMA TreesGo ==
    ASSUME TreesInv, UNCHANGED refs,
           hosts' \in [HostCalls -> HostCall],
           \A c \in HostCalls : CallIsSound(c, hosts'[c]),
           DOMAIN trees' = Paths, trees' = [p \in Paths |-> trees'[p]],
           \A p \in Paths : LeftOf(trees[p], trees'[p]),
           \A p \in Paths : trees[p].by # "nobody" => MadeBy(hosts'[trees[p].by], trees[p], p)
    PROVE  TreesInv'
<1> USE DEF refs
<1>1. TreesShape /\ RefsRooted /\ TreesSound BY DEF TreesInv
<1>2. trees \in [Paths -> Tree] BY <1>1 DEF TreesShape
<1>3. \A p \in Paths : trees'[p] \in Tree BY <1>2, WhatIsLeft
<1>4. trees' \in [Paths -> Tree] BY <1>3
<1>5. TreesShape' BY <1>1, <1>4 DEF TreesShape
<1>6. RefsRooted' BY <1>1 DEF RefsRooted, Rooted
<1>7. ASSUME NEW p \in Paths PROVE TreeIsSound(trees[p])' /\ TreeIsOf(trees[p], p)'
  <2>1. trees[p] \in Tree /\ TreeIsSound(trees[p]) /\ TreeIsOf(trees[p], p) /\ LeftOf(trees[p], trees'[p])
    BY <1>1, <1>2 DEF TreesSound
  <2>2. /\ trees'[p].by \in {trees[p].by, "nobody"}
        /\ trees'[p].kind = "git" => trees'[p] = trees[p]
        /\ trees'[p].by # "nobody" => trees'[p].meta = trees[p].meta /\ trees'[p].left = trees[p].left
        /\ trees'[p].on # Detached => trees'[p].on = trees[p].on /\ trees'[p].listed = trees[p].listed
        /\ trees'[p].mark = trees[p].mark \/ trees'[p].mark = NoRef
        /\ (trees'[p].meta = trees[p].meta /\ trees'[p].left = trees[p].left) \/ trees'[p].meta = NoRef
    BY <2>1, WhatIsLeft
  <2>3. TreeIsSound(trees[p])' BY <2>1, <2>2 DEF TreeIsSound, Rooted
  <2>4. TreeIsOf(trees[p], p)' BY <2>2 DEF TreeIsOf, MadeBy
  <2>5. QED BY <2>3, <2>4
<1>8. ASSUME NEW p \in Paths, NEW q \in Paths, p # q, trees'[p].on # Detached PROVE trees'[q].on # trees'[p].on
  BY <1>2, <1>8, WhatIsLeft, <1>1 DEF TreesSound
<1>9. ASSUME NEW c \in HostCalls PROVE CallIsSound(c, hosts[c])'
  <2>1. CallIsSound(c, hosts'[c]) OBVIOUS
  <2>2. ASSUME hosts'[c].path \in Paths, trees'[hosts'[c].path].kind = "git"
        PROVE  trees'[hosts'[c].path] = trees[hosts'[c].path]
    BY <1>2, <2>2, WhatIsLeft
  <2>3. QED BY <2>1, <2>2 DEF CallIsSound
<1>10. QED BY <1>5, <1>6, <1>7, <1>8, <1>9 DEF TreesInv, TreesSound

\* A step of one call, of which the worktrees that it made stay its own.
LEMMA CallGoes ==
    ASSUME TreesInv, UNCHANGED refs,
           NEW c \in HostCalls, NEW k \in HostCall, hosts' = [hosts EXCEPT ![c] = k], CallIsSound(c, k),
           trees' = [p \in Paths |-> trees'[p]],
           \A p \in Paths : LeftOf(trees[p], trees'[p]),
           \A p \in Paths : trees[p].by = c => MadeBy(k, trees[p], p)
    PROVE  TreesInv'
<1>1. hosts \in [HostCalls -> HostCall] /\ TreesSound /\ (\A d \in HostCalls : CallIsSound(d, hosts[d]))
  BY DEF TreesInv, TreesShape
<1>2. hosts' \in [HostCalls -> HostCall] /\ hosts'[c] = k /\ (\A d \in HostCalls : d # c => hosts'[d] = hosts[d])
  BY <1>1
<1>3. \A d \in HostCalls : CallIsSound(d, hosts'[d]) BY <1>1, <1>2
<1>4. ASSUME NEW p \in Paths, trees[p].by # "nobody" PROVE MadeBy(hosts'[trees[p].by], trees[p], p)
  BY <1>1, <1>4, <1>2 DEF TreesInv, TreesShape, Tree, TreesSound, TreeIsOf
<1>5. DOMAIN trees' = Paths OBVIOUS
<1>6. QED BY <1>2, <1>3, <1>4, <1>5, TreesGo

\* A call of which nothing is a worktree's yet, or that only ends.
LEMMA CallsOwnNothing ==
    ASSUME TreesInv, NEW c \in HostCalls, hosts[c].op # "create" \/ hosts[c].at \notin Making
    PROVE  \A p \in Paths : trees[p].by # c
<1>1. \A p \in Paths : TreeIsOf(trees[p], p) BY DEF TreesInv, TreesSound
<1>2. c # "nobody" BY WorktreesAssumption
<1>3. QED BY <1>1, <1>2 DEF TreeIsOf, MadeBy

-----------------------------------------------------------------------------
(* Worktrees: create                                                       *)

LEMMA CallTypes ==
    ASSUME TreesInv, NEW c \in HostCalls
    PROVE  /\ hosts[c].op \in {"none", "create", "create bare", "open", "archive", "archive bare"}
           /\ hosts[c].at \in Steps /\ hosts[c].path \in Paths \cup {"none"}
           /\ hosts[c].branch \in Branches \cup {Detached} /\ hosts[c].sha \in SUBSET Commits
           /\ {hosts[c].reuse, hosts[c].force, hosts[c].delete, hosts[c].fresh} \subseteq BOOLEAN
           /\ CallIsSound(c, hosts[c]) /\ hosts[c] \in HostCall
<1>1. hosts[c] \in HostCall BY DEF TreesInv, TreesShape
<1>2. QED BY <1>1 DEF HostCall, TreesInv

LEMMA TreeTypes ==
    ASSUME TreesInv, NEW p \in Paths
    PROVE  /\ trees[p] \in Tree /\ trees[p].on \in Branches \cup {Detached} /\ trees[p].by \in HostCalls \cup {"nobody"}
           /\ trees[p].kind \in {"none", "bare", "git"} /\ trees[p].listed \in BOOLEAN /\ trees[p].dirty \in BOOLEAN
           /\ trees[p].at \in SUBSET Commits /\ trees[p].mark \in SUBSET Commits /\ trees[p].left \in SUBSET Commits
           /\ TreeIsSound(trees[p]) /\ TreeIsOf(trees[p], p)
<1>1. trees[p] \in Tree BY DEF TreesInv, TreesShape
<1>2. QED BY <1>1 DEF Tree, TreesInv, TreesSound

LEMMA Same == ASSUME TreesInv, UNCHANGED trees
              PROVE  /\ trees' = [p \in Paths |-> trees'[p]]
                     /\ \A p \in Paths : LeftOf(trees[p], trees'[p])
<1>1. trees \in [Paths -> Tree] BY DEF TreesInv, TreesShape
<1>2. QED BY <1>1 DEF LeftOf

\* A call takes a step that leaves the repository as it is; of a creation, one that ends it.
LEMMA CallSteps ==
    ASSUME TreesInv, NEW c \in HostCalls, UNCHANGED <<refs, trees>>, NEW step \in Steps, To(c, step),
           hosts[c].op = "create" => step \in {"failed", "died"} \/ (step = "branch exists" /\ hosts[c].at = "add"),
           hosts[c].op = "open" => step # "handle"
    PROVE  TreesInv'
<1> DEFINE k == [hosts[c] EXCEPT !.at = step]
<1>1. hosts' = [hosts EXCEPT ![c] = k] BY DEF To
<1>2. hosts[c] \in HostCall /\ CallIsSound(c, hosts[c]) BY CallTypes
<1>3. /\ k \in HostCall /\ k.op = hosts[c].op /\ k.at = step /\ k.path = hosts[c].path /\ k.branch = hosts[c].branch
      /\ k.sha = hosts[c].sha /\ k.fresh = hosts[c].fresh /\ k.reuse = hosts[c].reuse
  BY <1>2 DEF HostCall
<1> HIDE DEF k
<1>4. CallIsSound(c, k) BY <1>2, <1>3 DEF CallIsSound, Making
<1>5. ASSUME NEW p \in Paths, trees[p].by = c PROVE MadeBy(k, trees[p], p)
  <2>1. MadeBy(hosts[c], trees[p], p) BY <1>5, TreeTypes, WorktreesAssumption DEF TreeIsOf
  <2>2. step \in {"failed", "died"} BY <2>1 DEF MadeBy, Making
  <2>3. QED BY <1>3, <2>1, <2>2 DEF MadeBy, Making
<1>6. QED BY <1>1, <1>3, <1>4, <1>5, CallGoes, Same

\* The first step of a call, which may create a bare workspace or prune.
LEMMA CallBegins ==
    ASSUME TreesInv, UNCHANGED refs, NEW c \in HostCalls, hosts[c].op = "none",
           NEW k \in HostCall, hosts' = [hosts EXCEPT ![c] = k], CallIsSound(c, k),
           trees' = [p \in Paths |-> trees'[p]], \A p \in Paths : LeftOf(trees[p], trees'[p])
    PROVE  TreesInv'
<1>1. \A p \in Paths : trees[p].by # c BY CallsOwnNothing
<1>2. QED BY <1>1, CallGoes

LEMMA CreateGitKeeps == ASSUME TreesInv, NEW c \in HostCalls, CreateGit(c) PROVE TreesInv'
<1>1. hosts[c].op = "none" /\ UNCHANGED <<refs, trees>> BY DEF CreateGit
<1>2. PICK p \in Paths, b \in Branches, reuse \in BOOLEAN :
          hosts' = [hosts EXCEPT ![c] =
                [@ EXCEPT !.op = "create", !.path = p, !.branch = b, !.reuse = heads[b] # NoRef /\ reuse,
                          !.at = IF heads[b] # NoRef /\ ~reuse THEN "branch exists" ELSE "sha"]]
  BY DEF CreateGit
<1> DEFINE k == [hosts[c] EXCEPT !.op = "create", !.path = p, !.branch = b, !.reuse = heads[b] # NoRef /\ reuse,
                                 !.at = IF heads[b] # NoRef /\ ~reuse THEN "branch exists" ELSE "sha"]
<1>3. hosts' = [hosts EXCEPT ![c] = k] BY <1>2
<1>4. hosts[c] \in HostCall BY CallTypes
<1>5. (heads[b] # NoRef /\ reuse) \in BOOLEAN OBVIOUS
<1>6. (IF heads[b] # NoRef /\ ~reuse THEN "branch exists" ELSE "sha") \in Steps BY DEF Steps
<1>7. /\ k \in HostCall /\ k.op = "create" /\ k.path = p /\ k.branch = b /\ (k.reuse => heads[b] # NoRef)
      /\ k.at \in {"branch exists", "sha"}
  BY <1>4, <1>5, <1>6 DEF HostCall
<1> HIDE DEF k
<1>8. CallIsSound(c, k) BY <1>7 DEF CallIsSound, Making
<1>9. QED BY <1>1, <1>3, <1>7, <1>8, CallBegins, Same

LEMMA ResolvesBaseKeeps == ASSUME TreesInv, NEW c \in HostCalls, ResolvesBase(c) PROVE TreesInv'
<1>1. hosts[c].op = "create" /\ hosts[c].at = "sha" /\ UNCHANGED <<refs, trees>> BY DEF ResolvesBase, At
<1> DEFINE k == [hosts[c] EXCEPT !.at = "add", !.sha = Diverged(c)]
<1>2. hosts[c] \in HostCall /\ CallIsSound(c, hosts[c]) /\ hosts[c].path \in Paths /\ hosts[c].branch \in Branches
  BY <1>1, CallTypes DEF CallIsSound
<1>3. base \in SUBSET Commits /\ heads[hosts[c].branch] \in SUBSET Commits BY <1>2 DEF TreesInv, TreesShape
<1>4. /\ Diverged(c) = IF hosts[c].reuse THEN heads[hosts[c].branch] \cap base ELSE base
      /\ hosts[c].reuse => heads[hosts[c].branch] # NoRef
  BY <1>1, <1>2 DEF Diverged, CallIsSound
<1>5. Diverged(c) \in SUBSET Commits BY <1>3, <1>4
<1>6. hosts' = [hosts EXCEPT ![c] = k] BY DEF ResolvesBase, TreesInv, TreesShape
<1>7. /\ k \in HostCall /\ k.op = "create" /\ k.path = hosts[c].path /\ k.branch = hosts[c].branch
      /\ k.reuse = hosts[c].reuse /\ k.at = "add" /\ k.sha = Diverged(c)
  BY <1>1, <1>2, <1>5 DEF HostCall, Steps
<1> HIDE DEF k
<1>8. CallIsSound(c, k) BY <1>2, <1>4, <1>7 DEF CallIsSound, Making
<1>9. \A p \in Paths : trees[p].by # c BY <1>1, CallsOwnNothing DEF Making
<1>10. QED BY <1>1, <1>6, <1>7, <1>8, <1>9, CallGoes, Same

\* A worktree is added: on a branch that is in none, at a path where nothing is listed, and no
\* creation has yet to write metadata there.
LEMMA TreeAddedKeeps ==
    ASSUME TreesInv, NEW c \in HostCalls, At(c, "create", "add"), NEW b \in Branches, b = hosts[c].branch,
           NEW tip \in SUBSET Commits, 0 \in tip, heads[b] \in {NoRef, tip}, ~hosts[c].reuse => tip = base,
           hosts[c].reuse => heads[b] # NoRef,
           CheckedOut(b) = {}, ~Remade,
           TreeAdded(c, b, tip), UNCHANGED <<base, origin>>, tracks' \in SUBSET Branches
    PROVE  TreesInv'
<1> DEFINE p == hosts[c].path
           u == [NoTree EXCEPT !.kind = "git", !.listed = TRUE, !.on = b, !.left = tip \cap base, !.by = c]
           k == [hosts[c] EXCEPT !.at = "write"]
<1>1. /\ heads' = [heads EXCEPT ![b] = tip] /\ trees' = [trees EXCEPT ![p] = u] /\ hosts' = [hosts EXCEPT ![c] = k]
  BY DEF TreeAdded, To
<1>2. /\ hosts[c] \in HostCall /\ CallIsSound(c, hosts[c]) /\ hosts[c].op = "create" /\ hosts[c].at = "add" /\ p \in Paths
  BY CallTypes DEF At, CallIsSound
<1>3. /\ k \in HostCall /\ k.op = "create" /\ k.at = "write" /\ k.path = p /\ k.branch = b
      /\ k.sha = hosts[c].sha
  BY <1>2 DEF HostCall, Steps
<1>4. /\ TreesShape /\ RefsRooted /\ TreesSound /\ \A d \in HostCalls : CallIsSound(d, hosts[d]) BY DEF TreesInv
<1>5. u \in Tree
  <2>1. tip \cap base \in SUBSET Commits OBVIOUS
  <2>2. QED BY <2>1, NoTreeIsATree DEF Tree
<1>6. /\ u.kind = "git" /\ u.listed = TRUE /\ u.on = b /\ u.left = tip \cap base /\ u.by = c /\ u.meta = NoRef /\ u.mark = NoRef
  BY DEF NoTree
<1> HIDE DEF p, u, k
<1>7. TreesShape' BY <1>1, <1>4, <1>5, <1>3 DEF TreesShape
<1>8. heads'[b] = tip /\ \A a \in Branches : a # b => heads'[a] = heads[a] BY <1>1, <1>4 DEF TreesShape
<1>9. RefsRooted' BY <1>4, <1>8 DEF RefsRooted, Rooted
<1>10. trees'[p] = u /\ \A q \in Paths : q # p => trees'[q] = trees[q] BY <1>1, <1>2, <1>4 DEF TreesShape
<1>11. hosts'[c] = k /\ \A d \in HostCalls : d # c => hosts'[d] = hosts[d] BY <1>1, <1>4 DEF TreesShape
<1>12. \A a \in Branches : heads[a] # NoRef => heads'[a] = heads[a] BY <1>8
<1>13. hosts[c].sha = tip \cap base BY <1>2, <1>4 DEF CallIsSound, At
<1>14. b # Detached /\ c # "nobody" /\ tip # NoRef /\ 0 \in base
  BY <1>4, WorktreesAssumption DEF Detached, NoRef, RefsRooted
<1>15. \A q \in Paths : trees[q].by # c BY <1>2, CallsOwnNothing DEF Making
<1>16. ASSUME NEW q \in Paths PROVE TreeIsSound(trees[q])' /\ TreeIsOf(trees[q], q)'
  <2>1. CASE q = p
    BY <1>6, <1>8, <1>10, <1>14, <2>1, <1>3, <1>11 DEF TreeIsSound, Rooted, TreeIsOf, MadeBy, Making
  <2>2. CASE q # p
    <3>1. trees'[q] = trees[q] /\ TreeIsSound(trees[q]) /\ TreeIsOf(trees[q], q)
      BY <1>4, <1>10, <2>2 DEF TreesSound
    <3>2. trees[q].on \in Branches \cup {Detached} /\ trees[q].by \in HostCalls \cup {"nobody"} BY TreeTypes
    <3>3. TreeIsSound(trees[q])' BY <1>12, <3>1, <3>2 DEF TreeIsSound, Rooted
    <3>4. TreeIsOf(trees[q], q)' BY <1>11, <1>15, <3>1, <3>2 DEF TreeIsOf, MadeBy
    <3>5. QED BY <3>3, <3>4
  <2>3. QED BY <2>1, <2>2
<1>17. ASSUME NEW q \in Paths PROVE trees[q].on # b BY TreeTypes, <1>14 DEF CheckedOut, TreeIsSound
<1>18. \A q, r \in Paths : q # r /\ trees'[q].on # Detached => trees'[r].on # trees'[q].on
  BY <1>4, <1>6, <1>10, <1>17 DEF TreesSound
<1>19. ASSUME NEW d \in HostCalls PROVE CallIsSound(d, hosts[d])'
  <2>1. CASE d = c
    <3>1. hosts'[d] = k /\ k.path = p /\ k.op = "create" /\ k.at = "write" /\ k.branch \in Branches /\ p \in Paths
      BY <1>2, <1>3, <1>11, <2>1
    <3>2. trees'[p].by = d /\ trees'[p].left = k.sha BY <1>3, <1>6, <1>10, <1>13, <2>1
    <3>3. 0 \in k.sha BY <1>3, <1>13, <1>14
    <3>4. QED BY <3>1, <3>2, <3>3 DEF CallIsSound, Making
  <2>2. CASE d # c
    <3>1. hosts'[d] = hosts[d] /\ CallIsSound(d, hosts[d]) /\ base' = base BY <1>4, <1>11, <2>2
    <3>2. ~(hosts[d].op = "create" /\ hosts[d].at \in {"write", "writing"} /\ hosts[d].path = p)
      BY DEF TreeAdded, Unwritten, p
    <3>3. QED BY <1>10, <1>12, <3>1, <3>2 DEF CallIsSound
  <2>3. QED BY <2>1, <2>2
<1>20. QED BY <1>7, <1>9, <1>16, <1>18, <1>19 DEF TreesInv, TreesSound

LEMMA AddsNewKeeps == ASSUME TreesInv, NEW c \in HostCalls, AddsNew(c), ~Remade PROVE TreesInv'
<1> DEFINE b == hosts[c].branch
<1>1. /\ At(c, "create", "add") /\ ~hosts[c].reuse /\ UNCHANGED <<base, origin, tracks>> BY DEF AddsNew
<1>2. hosts[c].op = "create" /\ hosts[c].at = "add" /\ b \in Branches BY <1>1, CallTypes DEF At, CallIsSound
<1>3. CASE UNCHANGED <<heads, trees>> /\ (Ended(c, "failed") \/ Ended(c, "branch exists"))
  <2>1. UNCHANGED <<refs, trees>> BY <1>1, <1>3 DEF refs
  <2>2. PICK step \in {"failed", "branch exists"} : To(c, step) BY <1>3 DEF Ended
  <2>3. QED BY <1>2, <2>1, <2>2, CallSteps DEF Steps
<1>4. CASE heads[b] = NoRef /\ TreeAdded(c, b, base)
  <2>1. base \in SUBSET Commits /\ 0 \in base /\ tracks \in SUBSET Branches
    BY DEF TreesInv, TreesShape, RefsRooted
  <2>2. CheckedOut(b) = {}
    <3>1. \A p \in Paths : TreeIsSound(trees[p]) BY TreeTypes
    <3>2. b # Detached BY <1>2, WorktreesAssumption DEF Detached
    <3>3. QED BY <1>4, <3>1, <3>2 DEF CheckedOut, TreeIsSound
  <2>3. QED BY <1>1, <1>2, <1>4, <2>1, <2>2, TreeAddedKeeps
<1>5. QED BY <1>3, <1>4 DEF AddsNew

LEMMA AddsExistingKeeps == ASSUME TreesInv, NEW c \in HostCalls, AddsExisting(c), ~Remade PROVE TreesInv'
<1> DEFINE b == hosts[c].branch
           tip == IF heads[b] # NoRef THEN heads[b] ELSE origin[b]
<1>1. /\ At(c, "create", "add") /\ hosts[c].reuse /\ UNCHANGED <<base, origin>> BY DEF AddsExisting
<1>2. hosts[c].op = "create" /\ hosts[c].at = "add" /\ b \in Branches /\ heads[b] # NoRef
  BY <1>1, CallTypes DEF At, CallIsSound
<1>3. CASE UNCHANGED <<heads, trees, tracks>> /\ Ended(c, "failed")
  <2>1. UNCHANGED <<refs, trees>> BY <1>1, <1>3 DEF refs
  <2>2. QED BY <1>2, <1>3, <2>1, CallSteps DEF Steps, Ended
<1>4. CASE /\ CheckedOut(b) = {} /\ TreeAdded(c, b, tip)
           /\ tracks' = IF heads[b] = NoRef THEN tracks \cup {b} ELSE tracks
  <2>1. heads[b] \in SUBSET Commits /\ 0 \in heads[b] /\ tracks \in SUBSET Branches /\ tip = heads[b]
    BY <1>2 DEF TreesInv, TreesShape, RefsRooted, Rooted
  <2>2. tracks' \in SUBSET Branches BY <1>2, <1>4, <2>1
  <2> HIDE DEF tip
  <2>3. QED BY <1>1, <1>2, <1>4, <2>1, <2>2, TreeAddedKeeps
<1>5. QED BY <1>3, <1>4 DEF AddsExisting

LEMMA FailsKeeps == ASSUME TreesInv, NEW c \in HostCalls, Fails(c) PROVE TreesInv'
BY CallSteps DEF Fails, Ended, Steps

LEMMA DiesKeeps == ASSUME TreesInv, NEW c \in HostCalls, Dies(c) PROVE TreesInv'
BY CallSteps DEF Dies, Ended, Steps

\* The worktree at the path of a creation that writes the metadata is its own, and no other is.
LEMMA OwnTree ==
    ASSUME TreesInv, NEW c \in HostCalls, hosts[c].op = "create", hosts[c].at \in {"write", "writing"}, IsGit(hosts[c].path)
    PROVE  /\ hosts[c].path \in Paths /\ trees[hosts[c].path].by = c /\ trees[hosts[c].path].left = hosts[c].sha
           /\ 0 \in hosts[c].sha /\ hosts[c].sha \in SUBSET Commits
           /\ \A q \in Paths : trees[q].by = c => q = hosts[c].path
<1>1. CallIsSound(c, hosts[c]) /\ hosts[c].sha \in SUBSET Commits BY CallTypes
<1>2. \A q \in Paths : TreeIsOf(trees[q], q) BY TreeTypes
<1>3. c # "nobody" BY WorktreesAssumption
<1>4. \A q \in Paths : trees[q].by = c => q = hosts[c].path BY <1>2, <1>3 DEF TreeIsOf, MadeBy
<1>5. QED BY <1>1, <1>4 DEF CallIsSound, IsGit, Making

\* A creation writes to the metadata of its worktree.
LEMMA Writing ==
    ASSUME TreesInv, NEW c \in HostCalls, hosts[c].op = "create", hosts[c].at \in {"write", "writing"}, IsGit(hosts[c].path),
           NEW meta \in {Torn, hosts[c].sha}, NEW step \in {"writing", "finish"}, (meta = Torn) = (step = "writing"),
           trees' = [trees EXCEPT ![hosts[c].path].meta = meta], To(c, step), UNCHANGED refs
    PROVE  TreesInv'
<1> USE DEF refs
<1> DEFINE p == hosts[c].path
           u == [trees[p] EXCEPT !.meta = meta]
           k == [hosts[c] EXCEPT !.at = step]
<1>1. /\ p \in Paths /\ trees[p].by = c /\ trees[p].left = hosts[c].sha
      /\ 0 \in hosts[c].sha /\ hosts[c].sha \in SUBSET Commits
      /\ \A q \in Paths : trees[q].by = c => q = p
  BY OwnTree
<1>2. TreesShape /\ RefsRooted /\ TreesSound /\ \A d \in HostCalls : CallIsSound(d, hosts[d]) BY DEF TreesInv
<1>3. hosts' = [hosts EXCEPT ![c] = k] /\ trees' = [trees EXCEPT ![p] = u] BY <1>1, <1>2 DEF To, TreesShape
<1>4. hosts[c] \in HostCall /\ trees[p] \in Tree BY <1>1, CallTypes, TreeTypes
<1>5. (meta = Torn /\ step = "writing") \/ (meta = hosts[c].sha /\ step = "finish") OBVIOUS
<1>6. k \in HostCall /\ k.op = "create" /\ k.at = step /\ k.path = p /\ k.branch = hosts[c].branch /\ k.sha = hosts[c].sha
  BY <1>4, <1>5 DEF HostCall, Steps
<1>7. u \in Tree BY <1>1, <1>5, <1>4 DEF Tree
<1>8. /\ u.meta = meta /\ u.left = trees[p].left /\ u.by = c /\ u.kind = trees[p].kind /\ u.on = trees[p].on
      /\ u.listed = trees[p].listed /\ u.mark = trees[p].mark /\ u.at = trees[p].at
  BY <1>1, <1>4 DEF Tree
<1> HIDE DEF u, k, p
<1>9. trees'[p] = u /\ \A q \in Paths : q # p => trees'[q] = trees[q] BY <1>1, <1>2, <1>3 DEF TreesShape
<1>10. hosts'[c] = k /\ \A d \in HostCalls : d # c => hosts'[d] = hosts[d] BY <1>2, <1>3 DEF TreesShape
<1>11. TreesShape'
  <2>1. trees' \in [Paths -> Tree] BY <1>2, <1>3, <1>7 DEF TreesShape
  <2>2. hosts' \in [HostCalls -> HostCall] BY <1>2, <1>3, <1>6 DEF TreesShape
  <2>3. QED BY <1>2, <2>1, <2>2 DEF TreesShape
<1>12. RefsRooted' BY <1>2 DEF RefsRooted, Rooted
<1>13. ASSUME NEW q \in Paths PROVE TreeIsSound(trees[q])' /\ TreeIsOf(trees[q], q)'
  <2>1. TreeIsSound(trees[q]) /\ TreeIsOf(trees[q], q) /\ trees[q].by \in HostCalls \cup {"nobody"} BY TreeTypes
  <2>2. CASE q = p
    <3>1. TreeIsSound(trees[q])' BY <1>1, <1>5, <1>8, <1>9, <2>1, <2>2 DEF TreeIsSound, Rooted
    <3>2. TreeIsOf(trees[q], q)' BY <1>1, <1>5, <1>6, <1>8, <1>9, <1>10, <2>2 DEF TreeIsOf, MadeBy, Making
    <3>3. QED BY <3>1, <3>2
  <2>3. CASE q # p
    <3>1. trees'[q] = trees[q] /\ trees[q].by # c BY <1>1, <1>9, <2>3
    <3>2. QED BY <1>10, <2>1, <3>1 DEF TreeIsSound, TreeIsOf, MadeBy, Rooted
  <2>4. QED BY <2>2, <2>3
<1>14. \A q, r \in Paths : q # r /\ trees'[q].on # Detached => trees'[r].on # trees'[q].on
  BY <1>2, <1>8, <1>9 DEF TreesSound
<1>15. ASSUME NEW d \in HostCalls PROVE CallIsSound(d, hosts[d])'
  <2>1. CASE d = c
    <3>1. hosts[c].branch \in Branches BY <1>2 DEF CallIsSound
    <3>2. /\ hosts'[d] = k /\ k.op = "create" /\ k.at \in {"writing", "finish"} /\ k.path = p /\ p \in Paths
          /\ k.branch \in Branches /\ 0 \in k.sha
      BY <1>1, <1>5, <1>6, <1>10, <2>1, <3>1
    <3>3. trees'[p].by = d /\ trees'[p].left = k.sha BY <1>1, <1>6, <1>8, <1>9, <2>1
    <3>4. QED BY <3>2, <3>3 DEF CallIsSound
  <2>2. CASE d # c
    <3>1. hosts'[d] = hosts[d] /\ CallIsSound(d, hosts[d]) /\ UNCHANGED <<base, heads>> BY <1>2, <1>10, <2>2
    <3>2. \A q \in Paths : trees'[q].kind = trees[q].kind /\ trees'[q].by = trees[q].by /\ trees'[q].left = trees[q].left
      BY <1>1, <1>8, <1>9
    <3>3. QED BY <3>1, <3>2 DEF CallIsSound
  <2>3. QED BY <2>1, <2>2
<1>16. QED BY <1>11, <1>12, <1>13, <1>14, <1>15 DEF TreesInv, TreesSound

LEMMA WritesMetadataKeeps == ASSUME TreesInv, NEW c \in HostCalls, WritesMetadata(c) PROVE TreesInv'
<1>1. /\ hosts[c].op = "create" /\ hosts[c].at \in {"write", "writing"} /\ IsGit(hosts[c].path)
      /\ trees' = [trees EXCEPT ![hosts[c].path].meta = Torn] /\ To(c, "writing") /\ UNCHANGED refs
  BY DEF WritesMetadata, At
<1>2. Torn \in {Torn, hosts[c].sha} /\ "writing" \in {"writing", "finish"} OBVIOUS
<1>3. hosts[c].sha # Torn BY <1>1, OwnTree, FirstIsACommit DEF Torn
<1>4. (Torn = Torn) = ("writing" = "writing") BY <1>3
<1>5. QED BY <1>1, <1>2, <1>4, Writing

LEMMA MetadataWrittenKeeps == ASSUME TreesInv, NEW c \in HostCalls, MetadataWritten(c) PROVE TreesInv'
<1>1. /\ hosts[c].op = "create" /\ hosts[c].at \in {"write", "writing"} /\ IsGit(hosts[c].path)
      /\ trees' = [trees EXCEPT ![hosts[c].path].meta = hosts[c].sha] /\ To(c, "finish") /\ UNCHANGED refs
  BY DEF MetadataWritten, At
<1>2. hosts[c].sha \in {Torn, hosts[c].sha} /\ "finish" \in {"writing", "finish"} OBVIOUS
<1>3. hosts[c].sha # Torn BY <1>1, OwnTree, FirstIsACommit DEF Torn
<1>4. (hosts[c].sha = Torn) = ("finish" = "writing") BY <1>3
<1>5. QED BY <1>1, <1>2, <1>4, Writing

LEMMA ReturnsKeeps == ASSUME TreesInv, NEW c \in HostCalls, Returns(c) PROVE TreesInv'
<1> DEFINE k == [hosts[c] EXCEPT !.at = "handle"]
<1>1. hosts[c].op = "create" /\ hosts[c].at = "finish" /\ UNCHANGED <<refs, trees>> /\ hosts' = [hosts EXCEPT ![c] = k]
  BY DEF Returns, At, Ended, To
<1>2. hosts[c] \in HostCall /\ CallIsSound(c, hosts[c]) BY CallTypes
<1>3. /\ k \in HostCall /\ k.op = "create" /\ k.at = "handle" /\ k.path = hosts[c].path /\ k.branch = hosts[c].branch
      /\ k.sha = hosts[c].sha
  BY <1>1, <1>2 DEF HostCall, Steps
<1> HIDE DEF k
<1>4. CallIsSound(c, k) BY <1>1, <1>2, <1>3 DEF CallIsSound, Making
<1>5. ASSUME NEW p \in Paths, trees[p].by = c PROVE MadeBy(k, trees[p], p)
  <2>1. MadeBy(hosts[c], trees[p], p) BY <1>5, TreeTypes, WorktreesAssumption DEF TreeIsOf
  <2>2. QED BY <1>1, <1>3, <2>1 DEF MadeBy, Making
<1>6. QED BY <1>1, <1>3, <1>4, <1>5, CallGoes, Same

-----------------------------------------------------------------------------
(* Worktrees: bare workspaces, open, archive                               *)

LEMMA CreateBareKeeps == ASSUME TreesInv, NEW c \in HostCalls, CreateBare(c) PROVE TreesInv'
<1>1. hosts[c].op = "none" /\ UNCHANGED refs BY DEF CreateBare
<1>2. PICK p \in Paths :
          /\ hosts' = [hosts EXCEPT ![c] = [@ EXCEPT !.op = "create bare", !.path = p, !.at = IF IsGit(p) THEN "failed" ELSE "handle"]]
          /\ trees' = IF trees[p].kind = "none" THEN [trees EXCEPT ![p].kind = "bare"] ELSE trees
  BY DEF CreateBare
<1> DEFINE k == [hosts[c] EXCEPT !.op = "create bare", !.path = p, !.at = IF IsGit(p) THEN "failed" ELSE "handle"]
<1>3. hosts' = [hosts EXCEPT ![c] = k] /\ hosts[c] \in HostCall /\ trees \in [Paths -> Tree]
  BY <1>2, CallTypes DEF TreesInv, TreesShape
<1>4. (IF IsGit(p) THEN "failed" ELSE "handle") \in Steps BY DEF Steps
<1>5. k \in HostCall /\ k.op = "create bare" /\ k.path = p BY <1>3, <1>4 DEF HostCall
<1> HIDE DEF k
<1>6. CallIsSound(c, k) BY <1>5 DEF CallIsSound
<1>7. /\ trees' = [q \in Paths |-> trees'[q]]
      /\ \A q \in Paths : LeftOf(trees[q], trees'[q])
  <2>1. CASE trees' = trees BY <2>1, Same
  <2>2. CASE trees' = [trees EXCEPT ![p] = [trees[p] EXCEPT !.kind = "bare"]] BY <1>3, <2>2 DEF LeftOf
  <2>3. QED BY <1>2, <1>3, <2>1, <2>2
<1>8. QED BY <1>1, <1>3, <1>5, <1>6, <1>7, CallBegins

LEMMA OpenWorkspaceKeeps == ASSUME TreesInv, NEW c \in HostCalls, OpenWorkspace(c) PROVE TreesInv'
<1>1. hosts[c].op = "none" /\ UNCHANGED <<refs, trees>> BY DEF OpenWorkspace
<1>2. PICK p \in Paths : hosts' = [hosts EXCEPT ![c] = [@ EXCEPT !.op = "open", !.path = p, !.branch = trees[p].on,
              !.at = IF trees[p].kind = "bare" THEN "bare handle"
                     ELSE IF trees[p].on = Detached THEN "failed" ELSE "metadata"]]
  BY DEF OpenWorkspace
<1> DEFINE step == IF trees[p].kind = "bare" THEN "bare handle"
                   ELSE IF trees[p].on = Detached THEN "failed" ELSE "metadata"
           k == [hosts[c] EXCEPT !.op = "open", !.path = p, !.branch = trees[p].on, !.at = step]
<1>3. hosts' = [hosts EXCEPT ![c] = k] /\ hosts[c] \in HostCall /\ trees[p].on \in Branches \cup {Detached}
  BY <1>2, CallTypes, TreeTypes
<1>4. step \in Steps /\ step # "handle" BY DEF Steps
<1> HIDE DEF step
<1>5. k \in HostCall /\ k.op = "open" /\ k.path = p /\ k.at # "handle" BY <1>3, <1>4 DEF HostCall
<1> HIDE DEF k
<1>6. CallIsSound(c, k) BY <1>5 DEF CallIsSound
<1>7. QED BY <1>1, <1>3, <1>5, <1>6, CallBegins, Same

LEMMA ReadsMetadataKeeps == ASSUME TreesInv, NEW c \in HostCalls, ReadsMetadata(c) PROVE TreesInv'
<1>1. hosts[c].op = "open" /\ hosts[c].at = "metadata" /\ UNCHANGED <<refs, trees>> BY DEF ReadsMetadata, At
<1> DEFINE p == hosts[c].path
           meta == trees[p].meta
           failed == [hosts[c] EXCEPT !.at = "failed"]
           opened == [hosts[c] EXCEPT !.at = "handle", !.sha = IF meta = NoRef THEN base ELSE meta, !.fresh = meta = NoRef]
<1>2. hosts[c] \in HostCall /\ CallIsSound(c, hosts[c]) /\ p \in Paths BY <1>1, CallTypes DEF CallIsSound
<1>3. \A q \in Paths : trees[q].by # c BY <1>1, CallsOwnNothing
<1>4. meta \in (SUBSET Commits) \cup {Torn} /\ base \in SUBSET Commits /\ base # NoRef
  BY <1>2 DEF TreesInv, TreesShape, Tree, RefsRooted, NoRef
<1>5. CASE hosts' = [hosts EXCEPT ![c] = failed]
  <2>1. failed \in HostCall /\ failed.op = "open" /\ failed.at = "failed" /\ failed.path = p
    BY <1>1, <1>2 DEF HostCall, Steps
  <2> HIDE DEF failed
  <2>2. CallIsSound(c, failed) BY <1>2, <2>1 DEF CallIsSound
  <2>3. QED BY <1>1, <1>3, <1>5, <2>1, <2>2, CallGoes, Same
<1>6. CASE hosts' = [hosts EXCEPT ![c] = opened] /\ meta # Torn
  <2>1. (IF meta = NoRef THEN base ELSE meta) \in SUBSET Commits /\ (IF meta = NoRef THEN base ELSE meta) # NoRef
    BY <1>4, <1>6
  <2>2. (meta = NoRef) \in BOOLEAN OBVIOUS
  <2>3. opened \in HostCall /\ opened.op = "open" /\ opened.path = p /\ opened.sha # NoRef
    BY <1>1, <1>2, <2>1, <2>2 DEF HostCall, Steps
  <2> HIDE DEF opened
  <2>4. CallIsSound(c, opened) BY <1>2, <2>3 DEF CallIsSound
  <2>5. QED BY <1>1, <1>3, <1>6, <2>3, <2>4, CallGoes, Same
<1>7. PICK named \in BOOLEAN : hosts' = [hosts EXCEPT ![c] =
              IF meta = Torn \/ ~IsGit(p) \/ (meta = NoRef /\ ~named) THEN failed ELSE opened]
  BY DEF ReadsMetadata
<1>8. QED BY <1>5, <1>6, <1>7

LEMMA PrunedIsLeft == ASSUME NEW t PROVE LeftOf(t, Pruned(t))
BY DEF LeftOf, Pruned

LEMMA ArchiveKeeps == ASSUME TreesInv, NEW c \in HostCalls, Archive(c) PROVE TreesInv'
<1>1. hosts[c].op = "none" /\ UNCHANGED refs BY DEF Archive
<1>2. PICK p \in Paths, force \in BOOLEAN, delete \in BOOLEAN, named \in BOOLEAN :
          /\ hosts' = [hosts EXCEPT ![c] =
               [@ EXCEPT !.op = IF trees[p].kind = "bare" THEN "archive bare" ELSE "archive",
                         !.path = p, !.force = force, !.delete = delete,
                         !.branch = IF delete THEN trees[p].on ELSE Detached,
                         !.at = IF trees[p].kind = "none" THEN "archived"
                                ELSE IF trees[p].kind = "git" /\ ~force /\ (trees[p].dirty \/ Ahead(p) > 0) THEN "refused"
                                ELSE "script"]]
          /\ trees[p].kind = "none" => ~force /\ ~delete
          /\ trees' = IF trees[p].kind = "none" /\ named THEN [q \in Paths |-> Pruned(trees[q])] ELSE trees
  BY Zenon DEF Archive
<1> DEFINE op == IF trees[p].kind = "bare" THEN "archive bare" ELSE "archive"
           step == IF trees[p].kind = "none" THEN "archived"
                   ELSE IF trees[p].kind = "git" /\ ~force /\ (trees[p].dirty \/ Ahead(p) > 0) THEN "refused"
                   ELSE "script"
           branch == IF delete THEN trees[p].on ELSE Detached
           k == [hosts[c] EXCEPT !.op = op, !.path = p, !.force = force, !.delete = delete, !.branch = branch, !.at = step]
<1>3. hosts' = [hosts EXCEPT ![c] = k] /\ hosts[c] \in HostCall BY <1>2, CallTypes
<1>4. step \in Steps /\ op \in {"archive", "archive bare"} BY DEF Steps
<1>5. branch \in Branches \cup {Detached} BY TreeTypes
<1> HIDE DEF step, op, branch
<1>6. k \in HostCall /\ k.op = op /\ k.path = p BY <1>3, <1>4, <1>5 DEF HostCall
<1> HIDE DEF k
<1>7. CallIsSound(c, k) BY <1>4, <1>6 DEF CallIsSound
<1>8. /\ trees' = [q \in Paths |-> trees'[q]]
      /\ \A q \in Paths : LeftOf(trees[q], trees'[q])
  <2>1. CASE trees' = trees BY <2>1, Same
  <2>2. CASE trees' = [q \in Paths |-> Pruned(trees[q])] BY <2>2, PrunedIsLeft
  <2>3. QED BY <1>2, <2>1, <2>2
<1>9. QED BY <1>1, <1>3, <1>6, <1>7, <1>8, CallBegins

LEMMA RunsScriptKeeps == ASSUME TreesInv, NEW c \in HostCalls, RunsScript(c) PROVE TreesInv'
<1>1. hosts[c].op \in {"archive", "archive bare"} /\ UNCHANGED <<refs, trees>> /\ (To(c, "remove") \/ To(c, "failed"))
  BY DEF RunsScript, Ended
<1>2. CASE To(c, "remove") BY <1>1, <1>2, CallSteps DEF Steps
<1>3. CASE To(c, "failed") BY <1>1, <1>3, CallSteps DEF Steps
<1>4. QED BY <1>1, <1>2, <1>3

\* A step of an archive, which takes worktrees at most.
LEMMA ArchiveSteps ==
    ASSUME TreesInv, NEW c \in HostCalls, UNCHANGED refs, hosts[c].op \in {"archive", "archive bare"},
           NEW step \in Steps, To(c, step),
           trees' = [p \in Paths |-> trees'[p]], \A p \in Paths : LeftOf(trees[p], trees'[p])
    PROVE  TreesInv'
<1> DEFINE k == [hosts[c] EXCEPT !.at = step]
<1>1. hosts' = [hosts EXCEPT ![c] = k] BY DEF To
<1>2. hosts[c] \in HostCall /\ CallIsSound(c, hosts[c]) BY CallTypes
<1>3. k \in HostCall /\ k.op = hosts[c].op /\ k.path = hosts[c].path BY <1>2 DEF HostCall
<1> HIDE DEF k
<1>4. CallIsSound(c, k) BY <1>2, <1>3 DEF CallIsSound
<1>5. \A p \in Paths : trees[p].by # c BY CallsOwnNothing
<1>6. QED BY <1>1, <1>3, <1>4, <1>5, CallGoes

LEMMA RemovesBareKeeps == ASSUME TreesInv, NEW c \in HostCalls, RemovesBare(c) PROVE TreesInv'
<1> DEFINE p == hosts[c].path
<1>1. /\ hosts[c].op = "archive bare" /\ To(c, "archived") /\ UNCHANGED refs
      /\ trees' = [trees EXCEPT ![p] = [NoTree EXCEPT !.listed = trees[p].listed, !.on = trees[p].on]]
  BY DEF RemovesBare, At, Ended
<1>2. trees \in [Paths -> Tree] BY DEF TreesInv, TreesShape
<1>3. /\ trees' = [q \in Paths |-> trees'[q]]
      /\ \A q \in Paths : LeftOf(trees[q], trees'[q])
  BY <1>1, <1>2 DEF LeftOf
<1>4. QED BY <1>1, <1>3, ArchiveSteps DEF Steps

LEMMA WorktreeRemoveKeeps == ASSUME TreesInv, NEW c \in HostCalls, WorktreeRemove(c) PROVE TreesInv'
<1> DEFINE p == hosts[c].path
<1>1. hosts[c].op = "archive" /\ UNCHANGED refs BY DEF WorktreeRemove, At
<1>2. trees \in [Paths -> Tree] BY DEF TreesInv, TreesShape
<1>3. CASE trees' = [trees EXCEPT ![p] = NoTree] /\ To(c, "prune")
  <2>1. /\ trees' = [q \in Paths |-> trees'[q]]
        /\ \A q \in Paths : LeftOf(trees[q], trees'[q])
    BY <1>2, <1>3 DEF LeftOf
  <2>2. QED BY <1>1, <1>3, <2>1, ArchiveSteps DEF Steps
<1>4. CASE To(c, "failed") /\ UNCHANGED trees BY <1>1, <1>4, CallSteps DEF Steps
<1>5. QED BY <1>3, <1>4 DEF WorktreeRemove, Ended

LEMMA WorktreePruneKeeps == ASSUME TreesInv, NEW c \in HostCalls, WorktreePrune(c) PROVE TreesInv'
<1>1. hosts[c].op = "archive" /\ UNCHANGED refs /\ trees' = [p \in Paths |-> Pruned(trees[p])]
  BY DEF WorktreePrune, At
<1>2. /\ trees' = [q \in Paths |-> trees'[q]]
      /\ \A q \in Paths : LeftOf(trees[q], trees'[q])
  BY <1>1, PrunedIsLeft
<1>3. PICK step \in {"archived", "delete"} : To(c, step) BY DEF WorktreePrune, Ended
<1>4. step \in Steps BY DEF Steps
<1>5. QED BY <1>1, <1>2, <1>3, <1>4, ArchiveSteps

LEMMA RemovedByHandKeeps == ASSUME TreesInv, NEW p \in Paths, RemovedByHand(p) PROVE TreesInv'
<1>1. /\ trees' = [trees EXCEPT ![p] = [NoTree EXCEPT !.listed = trees[p].listed, !.on = trees[p].on]]
      /\ UNCHANGED <<refs, hosts>>
  BY DEF RemovedByHand
<1>2. trees \in [Paths -> Tree] /\ hosts \in [HostCalls -> HostCall] /\ \A c \in HostCalls : CallIsSound(c, hosts[c])
  BY DEF TreesInv, TreesShape
<1>3. /\ DOMAIN trees' = Paths /\ trees' = [q \in Paths |-> trees'[q]]
      /\ \A q \in Paths : LeftOf(trees[q], trees'[q])
  BY <1>1, <1>2 DEF LeftOf
<1>4. \A q \in Paths : trees[q].by # "nobody" => MadeBy(hosts'[trees[q].by], trees[q], q)
  BY <1>1 DEF TreesInv, TreesSound, TreeIsOf
<1>5. QED BY <1>1, <1>2, <1>3, <1>4, TreesGo

-----------------------------------------------------------------------------
(* Worktrees: what moves the refs and the worktrees                        *)

\* A worktree t that stays as u.
Stays(t, u) ==
    /\ u.kind = t.kind /\ u.listed = t.listed /\ u.meta = t.meta /\ u.left = t.left /\ u.by = t.by
    /\ u.on \in {t.on, Detached}
    /\ u.kind = "git" /\ u.on = Detached => 0 \in u.at
    /\ Rooted(u.mark)

\* A step that takes no worktree and of which no creation has a step, and that moves base and
\* branches at most while no creation is between looking at them and adding its worktree.
LEMMA TreesMove ==
    ASSUME TreesInv, TreesShape',
           0 \in base', \A b \in Branches : Rooted(heads'[b]) /\ Rooted(origin'[b]),
           \A c \in HostCalls : CallIsSound(c, hosts'[c]),
           \A c \in HostCalls : "create" \in {hosts[c].op, hosts'[c].op} => hosts'[c] = hosts[c],
           UNCHANGED <<base, heads>> \/ ~Between,
           \A p \in Paths : Stays(trees[p], trees'[p]),
           \A p \in Paths : trees'[p].on # Detached => heads'[trees'[p].on] # NoRef
    PROVE  TreesInv'
<1>1. TreesSound BY DEF TreesInv
<1>2. RefsRooted' BY DEF RefsRooted, Rooted
<1>3. ASSUME NEW p \in Paths PROVE TreeIsSound(trees[p])' /\ TreeIsOf(trees[p], p)'
  BY TreeTypes DEF TreeIsSound, Stays, Rooted, TreeIsOf, MadeBy
<1>4. ASSUME NEW p \in Paths, NEW q \in Paths, p # q, trees'[p].on # Detached PROVE trees'[q].on # trees'[p].on
  BY <1>4, <1>1 DEF Stays, TreesSound
<1>5. ASSUME NEW c \in HostCalls PROVE CallIsSound(c, hosts[c])'
  <2>1. CallIsSound(c, hosts'[c]) OBVIOUS
  <2>2. CASE hosts'[c].op # "create" BY <2>1, <2>2 DEF CallIsSound
  <2>3. CASE hosts'[c].op = "create"
    <3>1. hosts'[c] = hosts[c] /\ hosts[c].path \in Paths BY <2>1, <2>3 DEF CallIsSound
    <3>2. /\ trees'[hosts[c].path].kind = trees[hosts[c].path].kind
          /\ trees'[hosts[c].path].by = trees[hosts[c].path].by
          /\ trees'[hosts[c].path].left = trees[hosts[c].path].left
      BY <3>1 DEF Stays
    <3>3. hosts[c].at \in {"sha", "add"} => UNCHANGED <<base, heads>> BY <2>3, <3>1 DEF Between
    <3>4. QED BY <2>1, <2>3, <3>1, <3>2, <3>3 DEF CallIsSound
  <2>4. QED BY <2>2, <2>3
<1>6. QED BY <1>1, <1>2, <1>3, <1>4, <1>5 DEF TreesInv, TreesSound

\* A change of one worktree that takes no ref with it.
LEMMA TreeChanges ==
    ASSUME TreesInv, NEW p \in Paths, NEW u \in Tree, trees' = [trees EXCEPT ![p] = u], Stays(trees[p], u),
           UNCHANGED <<base, heads, hosts>>, origin' \in [Branches -> SUBSET Commits], tracks' \in SUBSET Branches,
           \A b \in Branches : Rooted(origin'[b])
    PROVE  TreesInv'
<1>1. TreesShape /\ RefsRooted /\ \A c \in HostCalls : CallIsSound(c, hosts[c]) BY DEF TreesInv
<1>2. trees' \in [Paths -> Tree] /\ trees'[p] = u /\ \A q \in Paths : q # p => trees'[q] = trees[q]
  BY <1>1 DEF TreesShape
<1>3. TreesShape' BY <1>1, <1>2 DEF TreesShape
<1>4. ASSUME NEW q \in Paths PROVE Stays(trees[q], trees'[q]) /\ (trees'[q].on # Detached => heads'[trees'[q].on] # NoRef)
  BY TreeTypes, <1>2 DEF Stays, TreeIsSound
<1>5. 0 \in base' /\ \A b \in Branches : Rooted(heads'[b]) BY <1>1 DEF RefsRooted, Rooted
<1>6. QED BY <1>1, <1>3, <1>4, <1>5, TreesMove

LEMMA OriginIsRooted == ASSUME TreesInv PROVE /\ origin \in [Branches -> SUBSET Commits] /\ tracks \in SUBSET Branches
                                              /\ \A b \in Branches : Rooted(origin[b])
BY DEF TreesInv, TreesShape, RefsRooted

\* The tip of a worktree reaches the first commit.
LEMMA TipIsRooted == ASSUME TreesInv, NEW p \in Paths, IsGit(p) PROVE Tip(p) \in SUBSET Commits /\ 0 \in Tip(p)
<1>1. TreeIsSound(trees[p]) /\ trees[p].on \in Branches \cup {Detached} /\ trees[p].at \in SUBSET Commits
  BY TreeTypes
<1>2. \A b \in Branches : heads[b] \in SUBSET Commits /\ Rooted(heads[b])
  BY DEF TreesInv, TreesShape, RefsRooted
<1>3. QED BY <1>1, <1>2 DEF Tip, IsGit, TreeIsSound, Rooted

LEMMA EditKeeps == ASSUME TreesInv, NEW p \in Paths, Edit(p) PROVE TreesInv'
<1> DEFINE u == [trees[p] EXCEPT !.dirty = TRUE]
<1>1. trees' = [trees EXCEPT ![p] = u] /\ UNCHANGED <<refs, hosts>> BY DEF Edit, TreesInv, TreesShape
<1>2. trees[p] \in Tree /\ TreeIsSound(trees[p]) BY TreeTypes
<1>3. u \in Tree /\ Stays(trees[p], u) BY <1>2 DEF Tree, Stays, TreeIsSound
<1>4. QED BY <1>1, <1>3, TreeChanges, OriginIsRooted DEF refs

LEMMA PushKeeps == ASSUME TreesInv, NEW p \in Paths, Push(p) PROVE TreesInv'
<1> DEFINE b == trees[p].on
<1>1. /\ b # Detached /\ origin' = [origin EXCEPT ![b] = heads[b]] /\ tracks' = tracks \cup {b}
      /\ UNCHANGED <<base, heads, trees, hosts>>
  BY DEF Push
<1>2. trees[p] \in Tree /\ TreeIsSound(trees[p]) /\ b \in Branches BY <1>1, TreeTypes
<1>3. heads[b] \in SUBSET Commits /\ Rooted(heads[b]) BY <1>2 DEF TreesInv, TreesShape, RefsRooted
<1>4. /\ origin' \in [Branches -> SUBSET Commits] /\ tracks' \in SUBSET Branches /\ \A a \in Branches : Rooted(origin'[a])
  BY <1>1, <1>2, <1>3, OriginIsRooted
<1>5. trees' = [trees EXCEPT ![p] = trees[p]] /\ Stays(trees[p], trees[p])
  BY <1>1, <1>2 DEF TreesInv, TreesShape, Stays, TreeIsSound
<1>6. QED BY <1>1, <1>2, <1>4, <1>5, TreeChanges

\* A checkpoint is set or goes.
LEMMA MarkKeeps ==
    ASSUME TreesInv, NEW p \in Paths, NEW mark \in SUBSET Commits, Rooted(mark),
           trees' = [trees EXCEPT ![p].mark = mark], UNCHANGED <<refs, hosts>>
    PROVE  TreesInv'
<1> DEFINE u == [trees[p] EXCEPT !.mark = mark]
<1>1. trees' = [trees EXCEPT ![p] = u] BY DEF TreesInv, TreesShape
<1>2. trees[p] \in Tree /\ TreeIsSound(trees[p]) BY TreeTypes
<1>3. u \in Tree /\ Stays(trees[p], u) BY <1>2 DEF Tree, Stays, TreeIsSound
<1>4. QED BY <1>1, <1>3, TreeChanges, OriginIsRooted DEF refs

LEMMA CreateCheckpointKeeps == ASSUME TreesInv, NEW p \in Paths, CreateCheckpoint(p) PROVE TreesInv'
<1>1. Tip(p) \in SUBSET Commits /\ Rooted(Tip(p)) BY TipIsRooted DEF CreateCheckpoint, Rooted
<1>2. QED BY <1>1, MarkKeeps DEF CreateCheckpoint

LEMMA DeleteCheckpointKeeps == ASSUME TreesInv, NEW p \in Paths, DeleteCheckpoint(p) PROVE TreesInv'
<1>1. NoRef \in SUBSET Commits /\ Rooted(NoRef) BY DEF NoRef, Rooted
<1>2. QED BY <1>1, MarkKeeps DEF DeleteCheckpoint

LEMMA DetachKeeps == ASSUME TreesInv, NEW p \in Paths, Detach(p) PROVE TreesInv'
<1> DEFINE u == [trees[p] EXCEPT !.on = Detached, !.at = Tip(p)]
<1>1. trees' = [trees EXCEPT ![p] = u] /\ UNCHANGED <<refs, hosts>> /\ IsGit(p)
  BY DEF Detach, TreesInv, TreesShape
<1>2. trees[p] \in Tree /\ TreeIsSound(trees[p]) /\ Tip(p) \in SUBSET Commits /\ 0 \in Tip(p)
  BY <1>1, TreeTypes, TipIsRooted
<1>3. u \in Tree /\ Stays(trees[p], u) BY <1>2 DEF Tree, Stays, TreeIsSound
<1>4. QED BY <1>1, <1>3, TreeChanges, OriginIsRooted DEF refs

\* A handle moves the tip of its worktree.
LEMMA MovesKeeps ==
    ASSUME TreesInv, NEW p \in Paths, IsGit(p), NEW tip \in SUBSET Commits, 0 \in tip, Moves(p, tip),
           UNCHANGED <<base, origin, tracks, hosts>>, ~Between
    PROVE  TreesInv'
<1>1. trees[p] \in Tree /\ TreeIsSound(trees[p]) /\ trees[p].on \in Branches \cup {Detached} BY TreeTypes
<1>2. TreesShape /\ RefsRooted /\ \A c \in HostCalls : CallIsSound(c, hosts[c]) BY DEF TreesInv
<1>3. CASE trees[p].on = Detached
  <2> DEFINE u == [trees[p] EXCEPT !.at = tip, !.dirty = FALSE]
  <2>1. trees' = [trees EXCEPT ![p] = u] /\ UNCHANGED <<refs, hosts>> BY <1>2, <1>3 DEF Moves, TreesShape, refs
  <2>2. u \in Tree /\ Stays(trees[p], u) BY <1>1 DEF Tree, Stays, TreeIsSound
  <2>3. QED BY <2>1, <2>2, TreeChanges, OriginIsRooted DEF refs
<1>4. CASE trees[p].on # Detached
  <2> DEFINE b == trees[p].on
             u == [trees[p] EXCEPT !.dirty = FALSE]
  <2>1. trees' = [trees EXCEPT ![p] = u] /\ heads' = [heads EXCEPT ![b] = tip] /\ b \in Branches
    BY <1>1, <1>2, <1>4 DEF Moves, TreesShape
  <2>2. u \in Tree /\ Stays(trees[p], u) /\ u.on = b BY <1>1 DEF Tree, Stays, TreeIsSound
  <2> HIDE DEF u
  <2>3. heads' \in [Branches -> SUBSET Commits] /\ heads'[b] = tip /\ \A a \in Branches : a # b => heads'[a] = heads[a]
    BY <1>2, <2>1 DEF TreesShape
  <2>4. trees' \in [Paths -> Tree] /\ trees'[p] = u /\ \A q \in Paths : q # p => trees'[q] = trees[q]
    BY <1>2, <2>1, <2>2 DEF TreesShape
  <2>5. TreesShape' BY <1>2, <2>3, <2>4 DEF TreesShape
  <2>6. 0 \in base' /\ \A a \in Branches : Rooted(heads'[a]) /\ Rooted(origin'[a])
    BY <1>2, <2>3 DEF RefsRooted, Rooted
  <2>7. ASSUME NEW q \in Paths PROVE Stays(trees[q], trees'[q]) /\ (trees'[q].on # Detached => heads'[trees'[q].on] # NoRef)
    <3>1. TreeIsSound(trees[q]) /\ trees[q].on \in Branches \cup {Detached} BY TreeTypes
    <3>2. Stays(trees[q], trees'[q]) BY <2>2, <2>4, <3>1 DEF Stays, TreeIsSound
    <3>3. tip # NoRef BY DEF NoRef
    <3>4. trees'[q].on # Detached => heads'[trees'[q].on] # NoRef
      BY <2>3, <3>1, <3>2, <3>3 DEF Stays, TreeIsSound
    <3>5. QED BY <3>2, <3>4
  <2>8. QED BY <1>2, <2>5, <2>6, <2>7, TreesMove
<1>5. QED BY <1>3, <1>4

LEMMA CommitKeeps == ASSUME TreesInv, NEW p \in Paths, Commit(p), ~Between PROVE TreesInv'
<1>1. IsGit(p) /\ Moves(p, Tip(p) \cup New) /\ UNCHANGED <<base, origin, tracks, hosts>> BY DEF Commit
<1>2. Tip(p) \cup New \in SUBSET Commits /\ 0 \in Tip(p) \cup New BY <1>1, TipIsRooted DEF New
<1>3. QED BY <1>1, <1>2, MovesKeeps

LEMMA RestoreCheckpointKeeps == ASSUME TreesInv, NEW p \in Paths, RestoreCheckpoint(p), ~Between PROVE TreesInv'
<1>1. IsGit(p) /\ Moves(p, trees[p].mark) /\ trees[p].mark # NoRef /\ UNCHANGED <<base, origin, tracks, hosts>>
  BY DEF RestoreCheckpoint
<1>2. trees[p].mark \in SUBSET Commits /\ 0 \in trees[p].mark BY <1>1, TreeTypes DEF TreeIsSound, Rooted
<1>3. QED BY <1>1, <1>2, MovesKeeps

LEMMA PullKeeps == ASSUME TreesInv, NEW p \in Paths, Pull(p), ~Between PROVE TreesInv'
<1>1. IsGit(p) /\ UNCHANGED <<base, origin, tracks, hosts>> BY DEF Pull
<1>2. base \in SUBSET Commits /\ 0 \in base /\ Tip(p) \in SUBSET Commits /\ New \in SUBSET Commits
  BY <1>1, TipIsRooted DEF TreesInv, TreesShape, RefsRooted, New
<1>3. CASE Moves(p, base) BY <1>1, <1>2, <1>3, MovesKeeps
<1>4. CASE Moves(p, Tip(p) \cup base \cup New) BY <1>2, <1>1, <1>4, MovesKeeps
<1>5. CASE trees' = [trees EXCEPT ![p].dirty = TRUE] /\ UNCHANGED heads
  <2> DEFINE u == [trees[p] EXCEPT !.dirty = TRUE]
  <2>1. trees' = [trees EXCEPT ![p] = u] BY <1>5 DEF TreesInv, TreesShape
  <2>2. trees[p] \in Tree /\ TreeIsSound(trees[p]) BY TreeTypes
  <2>3. u \in Tree /\ Stays(trees[p], u) BY <2>2 DEF Tree, Stays, TreeIsSound
  <2>4. QED BY <1>1, <1>5, <2>1, <2>3, TreeChanges, OriginIsRooted
<1>6. QED BY <1>3, <1>4, <1>5 DEF Pull

LEMMA BaseAdvancesKeeps == ASSUME TreesInv, BaseAdvances, ~Between PROVE TreesInv'
<1>1. UNCHANGED <<heads, origin, tracks, trees, hosts>> BY DEF BaseAdvances
<1>2. TreesShape /\ RefsRooted /\ \A c \in HostCalls : CallIsSound(c, hosts[c]) BY DEF TreesInv
<1>3. base' \in SUBSET Commits /\ 0 \in base'
  <2>1. CASE base' = base \cup New BY <1>2, <2>1 DEF TreesShape, RefsRooted, New
  <2>2. CASE \E b \in Branches : base' = base \cup heads[b] BY <1>2, <2>2 DEF TreesShape, RefsRooted
  <2>3. QED BY <2>1, <2>2 DEF BaseAdvances
<1>4. TreesShape' BY <1>1, <1>2, <1>3 DEF TreesShape
<1>5. \A b \in Branches : Rooted(heads'[b]) /\ Rooted(origin'[b]) BY <1>1, <1>2 DEF RefsRooted, Rooted
<1>6. ASSUME NEW p \in Paths PROVE Stays(trees[p], trees'[p]) /\ (trees'[p].on # Detached => heads'[trees'[p].on] # NoRef)
  BY <1>1, TreeTypes DEF Stays, TreeIsSound
<1>7. QED BY <1>1, <1>2, <1>3, <1>4, <1>5, <1>6, TreesMove

LEMMA BranchDeleteKeeps == ASSUME TreesInv, NEW c \in HostCalls, BranchDelete(c), ~Between PROVE TreesInv'
<1> DEFINE b == hosts[c].branch
<1>1. hosts[c].op = "archive" /\ UNCHANGED <<base, origin, trees>> BY DEF BranchDelete, At
<1>2. CASE UNCHANGED <<heads, tracks>> /\ (To(c, "archived") \/ To(c, "failed"))
  <2>1. UNCHANGED <<refs, trees>> BY <1>1, <1>2 DEF refs
  <2>2. PICK step \in {"archived", "failed"} : To(c, step) BY <1>2
  <2>3. QED BY <1>1, <2>1, <2>2, CallSteps DEF Steps
<1>3. CASE /\ heads[b] # NoRef /\ CheckedOut(b) = {} /\ heads' = [heads EXCEPT ![b] = NoRef] /\ tracks' = tracks \ {b}
           /\ To(c, "archived")
  <2>1. TreesShape /\ RefsRooted /\ hosts[c] \in HostCall /\ CallIsSound(c, hosts[c]) /\ \A d \in HostCalls : CallIsSound(d, hosts[d])
    BY CallTypes DEF TreesInv
  <2> DEFINE k == [hosts[c] EXCEPT !.at = "archived"]
  <2>2. hosts' = [hosts EXCEPT ![c] = k] /\ k \in HostCall /\ k.op = "archive" /\ k.path = hosts[c].path
    BY <1>1, <1>3, <2>1 DEF To, HostCall, Steps
  <2> HIDE DEF k
  <2>3. hosts' \in [HostCalls -> HostCall] /\ hosts'[c] = k /\ \A d \in HostCalls : d # c => hosts'[d] = hosts[d]
    BY <2>1, <2>2 DEF TreesShape
  <2>4. /\ heads' \in [Branches -> SUBSET Commits]
        /\ \A a \in Branches : heads'[a] = IF a = b THEN NoRef ELSE heads[a]
    BY <1>3, <2>1, FirstIsACommit DEF TreesShape
  <2>5. TreesShape' BY <1>1, <1>3, <2>1, <2>3, <2>4 DEF TreesShape
  <2>6. 0 \in base' /\ \A a \in Branches : Rooted(heads'[a]) /\ Rooted(origin'[a])
    BY <1>1, <2>1, <2>4 DEF RefsRooted, Rooted
  <2>7. CallIsSound(c, k) BY <1>1, <2>1, <2>2 DEF CallIsSound
  <2>8. /\ \A d \in HostCalls : CallIsSound(d, hosts'[d])
        /\ \A d \in HostCalls : "create" \in {hosts[d].op, hosts'[d].op} => hosts'[d] = hosts[d]
    BY <1>1, <2>1, <2>2, <2>3, <2>7
  <2>9. ASSUME NEW p \in Paths PROVE Stays(trees[p], trees'[p]) /\ (trees'[p].on # Detached => heads'[trees'[p].on] # NoRef)
    BY <1>1, TreeTypes, <1>3, <2>4 DEF CheckedOut, TreeIsSound, Stays
  <2>10. QED BY <2>5, <2>6, <2>8, <2>9, TreesMove
<1>4. QED BY <1>2, <1>3 DEF BranchDelete, Ended

-----------------------------------------------------------------------------
(* Worktrees: the theorems                                                 *)

LEMMA TreesNextKeeps == ASSUME ~RefsMove, ~Remade, TreesInv, TreesNext PROVE TreesInv'
<1>1. ASSUME NEW c \in HostCalls,
             \/ CreateGit(c) \/ ResolvesBase(c) \/ AddsNew(c) \/ AddsExisting(c) \/ WritesMetadata(c) \/ MetadataWritten(c)
             \/ Returns(c) \/ Fails(c) \/ CreateBare(c) \/ OpenWorkspace(c) \/ ReadsMetadata(c)
             \/ Archive(c) \/ RunsScript(c) \/ RemovesBare(c) \/ WorktreeRemove(c) \/ WorktreePrune(c)
             \/ Dies(c)
      PROVE  TreesInv'
  BY <1>1, CreateGitKeeps, ResolvesBaseKeeps, AddsNewKeeps, AddsExistingKeeps, WritesMetadataKeeps, MetadataWrittenKeeps,
     ReturnsKeeps, FailsKeeps, CreateBareKeeps, OpenWorkspaceKeeps, ReadsMetadataKeeps, ArchiveKeeps, RunsScriptKeeps,
     RemovesBareKeeps, WorktreeRemoveKeeps, WorktreePruneKeeps, DiesKeeps
<1>2. ASSUME NEW p \in Paths, Edit(p) \/ Push(p) \/ CreateCheckpoint(p) \/ DeleteCheckpoint(p) \/ Detach(p) \/ RemovedByHand(p)
      PROVE  TreesInv'
  BY <1>2, EditKeeps, PushKeeps, CreateCheckpointKeeps, DeleteCheckpointKeeps, DetachKeeps, RemovedByHandKeeps
<1>3. ASSUME ~Between, BaseAdvances \/ (\E p \in Paths : Commit(p) \/ Pull(p) \/ RestoreCheckpoint(p)) \/ \E c \in HostCalls : BranchDelete(c)
      PROVE  TreesInv'
  BY <1>3, BaseAdvancesKeeps, CommitKeeps, PullKeeps, RestoreCheckpointKeeps, BranchDeleteKeeps
<1>4. QED BY <1>1, <1>2, <1>3 DEF TreesNext

LEMMA TreesStutter == ASSUME TreesInv, UNCHANGED treeVars PROVE TreesInv'
BY DEF treeVars, TreesInv, TreesShape, RefsRooted, Rooted, TreesSound, TreeIsSound, TreeIsOf, MadeBy, CallIsSound

LEMMA InvIsTrue == ASSUME TreesInv PROVE TreesTypeOK /\ WorkspacesAreTrue
<1>1. ASSUME NEW p \in Paths
      PROVE  /\ trees[p].kind \in {"none", "bare", "git"} /\ trees[p].on \in Branches \cup {Detached}
             /\ TreeIsSound(trees[p]) /\ TreeIsOf(trees[p], p)
  BY TreeTypes
<1>2. \A c \in HostCalls : CallIsSound(c, hosts[c]) /\ hosts[c].sha \in SUBSET Commits BY CallTypes
<1>3. TreesTypeOK BY <1>1 DEF TreesTypeOK, TreesInv, TreesShape
<1>4. \A c \in HostCalls : c # "nobody" BY WorktreesAssumption
<1>5. ASSUME NEW c \in HostCalls, NEW p \in Paths, trees[p].by = c
      PROVE  /\ hosts[c].op = "create" /\ hosts[c].at \in Making
             /\ hosts[c].at = "handle" => trees[p].meta = hosts[c].sha /\ trees[p].left = hosts[c].sha
  BY <1>1, <1>4, <1>5 DEF TreeIsOf, MadeBy
<1>6. ASSUME NEW c \in HostCalls, hosts[c].op = "create", hosts[c].at = "handle"
      PROVE  0 \in hosts[c].sha /\ hosts[c].sha \notin {NoRef, Torn}
  BY <1>2, <1>6, FirstIsACommit DEF CallIsSound, Making, NoRef, Torn
<1>7. BaseIsTrue
  <2>1. \A p \in Paths : trees[p].meta \notin {NoRef, Torn} => trees[p].meta = trees[p].left
    BY <1>1 DEF TreeIsSound
  <2>2. ASSUME NEW c \in HostCalls, hosts[c].at = "handle", hosts[c].op \in {"create", "open"}, ~hosts[c].fresh
        PROVE  hosts[c].sha # NoRef /\ \A p \in Paths : trees[p].by = c => hosts[c].sha = trees[p].left
    <3>1. CASE hosts[c].op = "create" BY <1>5, <1>6, <2>2, <3>1 DEF NoRef
    <3>2. CASE hosts[c].op = "open"
      <4>1. hosts[c].sha # NoRef BY <1>2, <2>2, <3>2 DEF CallIsSound
      <4>2. QED BY <1>5, <3>2, <4>1
    <3>3. QED BY <2>2, <3>1, <3>2
  <2>3. QED BY <2>1, <2>2 DEF BaseIsTrue
<1>8. OneOwner
  <2>1. \A p, q \in Paths : p # q /\ trees[p].on # Detached /\ trees[p].on = trees[q].on => FALSE
    BY DEF TreesInv, TreesSound
  <2>2. ASSUME NEW c \in HostCalls, NEW p \in Paths, trees[p].by = c
        PROVE  hosts[c].at # "branch exists" /\ (hosts[c].at = "handle" => trees[p].meta \notin {NoRef, Torn})
    BY <1>5, <1>6, <2>2 DEF Making
  <2>3. QED BY <2>1, <2>2 DEF OneOwner
<1>9. QED BY <1>3, <1>7, <1>8 DEF WorkspacesAreTrue

\* A worktree stands where it was said to, however its base, its branch and its checkpoints move
\* and whatever calls fail or die: if nobody moves base or branches while a creation is between
\* looking at them and adding its worktree, and no worktree that has gone is made again before
\* the creation that made it first has written its metadata (workspace.ts 108-206, 274-288).
THEOREM WorkspacesStayTrue ==
    ASSUME ~RefsMove, ~Remade
    PROVE  TreesSpec => [](TreesTypeOK /\ WorkspacesAreTrue)
<1>1. TreesInit => TreesInv BY TreesInitially
<1>2. TreesInv /\ [TreesNext]_treeVars => TreesInv' BY TreesNextKeeps, TreesStutter
<1>3. TreesInv => TreesTypeOK /\ WorkspacesAreTrue BY InvIsTrue
<1>4. QED BY <1>1, <1>2, <1>3, PTL DEF TreesSpec

\* Calls, branches and worktrees are functions.
TreesAreFunctions ==
    /\ hosts = [c \in HostCalls |-> hosts[c]]
    /\ heads = [b \in Branches |-> heads[b]]
    /\ trees = [p \in Paths |-> trees[p]]

LEMMA FunctionsInitially == TreesInit => TreesAreFunctions
<1> SUFFICES ASSUME TreesInit PROVE TreesAreFunctions OBVIOUS
<1>1. hosts = [c \in HostCalls |-> hosts[c]] BY DEF TreesInit
<1>2. heads = [b \in Branches |-> heads[b]] BY DEF TreesInit
<1>3. trees = [p \in Paths |-> trees[p]] BY DEF TreesInit
<1>4. QED BY <1>1, <1>2, <1>3 DEF TreesAreFunctions

\* What a step of a call changes: of the calls itself alone.
LEMMA OneCallSteps ==
    ASSUME TreesAreFunctions, NEW c \in HostCalls,
           \/ CreateGit(c) \/ ResolvesBase(c) \/ AddsNew(c) \/ AddsExisting(c) \/ WritesMetadata(c) \/ MetadataWritten(c)
           \/ Returns(c) \/ Fails(c) \/ CreateBare(c) \/ OpenWorkspace(c) \/ ReadsMetadata(c)
           \/ Archive(c) \/ RunsScript(c) \/ RemovesBare(c) \/ WorktreeRemove(c) \/ WorktreePrune(c)
           \/ Dies(c) \/ BranchDelete(c)
    PROVE  \E k : hosts' = [hosts EXCEPT ![c] = k]
<1>1. CASE CreateGit(c) \/ CreateBare(c) \/ OpenWorkspace(c) BY <1>1 DEF CreateGit, CreateBare, OpenWorkspace
<1>2. CASE Archive(c) BY <1>2 DEF Archive
<1>3. CASE ResolvesBase(c) BY <1>3 DEF ResolvesBase, TreesAreFunctions
<1>4. CASE ReadsMetadata(c) BY <1>4 DEF ReadsMetadata
<1>5. CASE \E step : To(c, step) BY <1>5 DEF To
<1>6. CASE AddsNew(c) \/ AddsExisting(c) BY <1>5, <1>6 DEF AddsNew, AddsExisting, TreeAdded, Ended
<1>7. CASE WritesMetadata(c) \/ MetadataWritten(c) \/ Returns(c) \/ Fails(c) \/ RunsScript(c) \/ RemovesBare(c) \/ Dies(c)
  BY <1>5, <1>7 DEF WritesMetadata, MetadataWritten, Returns, Fails, RunsScript, RemovesBare, Dies, Ended
<1>8. CASE WorktreeRemove(c) \/ WorktreePrune(c) \/ BranchDelete(c)
  BY <1>5, <1>8 DEF WorktreeRemove, WorktreePrune, BranchDelete, Ended
<1>9. QED BY <1>1, <1>2, <1>3, <1>4, <1>6, <1>7, <1>8

LEMMA FunctionsStay == ASSUME TreesAreFunctions, [TreesNext]_treeVars PROVE TreesAreFunctions'
<1> USE DEF TreesAreFunctions
<1>1. ASSUME NEW c \in HostCalls,
             \/ CreateGit(c) \/ ResolvesBase(c) \/ AddsNew(c) \/ AddsExisting(c) \/ WritesMetadata(c) \/ MetadataWritten(c)
             \/ Returns(c) \/ Fails(c) \/ CreateBare(c) \/ OpenWorkspace(c) \/ ReadsMetadata(c)
             \/ Archive(c) \/ RunsScript(c) \/ RemovesBare(c) \/ WorktreeRemove(c) \/ WorktreePrune(c)
             \/ Dies(c) \/ BranchDelete(c)
      PROVE  TreesAreFunctions'
  <2>1. hosts' = [d \in HostCalls |-> hosts'[d]]
    <3>1. PICK k : hosts' = [hosts EXCEPT ![c] = k] BY <1>1, OneCallSteps
    <3>2. QED BY <3>1
  <2>2. heads' = heads \/ \E b, tip : heads' = [heads EXCEPT ![b] = tip]
    BY <1>1 DEF CreateGit, ResolvesBase, AddsNew, AddsExisting, TreeAdded, WritesMetadata, MetadataWritten, Returns, Fails,
       CreateBare, OpenWorkspace, ReadsMetadata, Archive, RunsScript, RemovesBare, WorktreeRemove, WorktreePrune, Dies, BranchDelete, refs
  <2>3. heads' = [b \in Branches |-> heads'[b]] BY <2>2
  <2>4. \/ trees' = trees \/ (\E p, u : trees' = [trees EXCEPT ![p] = u]) \/ trees' = [p \in Paths |-> Pruned(trees[p])]
    <3>1. CASE UNCHANGED trees BY <3>1
    <3>2. CASE AddsNew(c) \/ AddsExisting(c) BY <3>2 DEF AddsNew, AddsExisting, TreeAdded
    <3>3. CASE WritesMetadata(c) \/ MetadataWritten(c) BY <3>3 DEF WritesMetadata, MetadataWritten
    <3>4. CASE CreateBare(c) BY <3>4 DEF CreateBare
    <3>5. CASE Archive(c) BY <3>5 DEF Archive
    <3>6. CASE RemovesBare(c) \/ WorktreeRemove(c) \/ WorktreePrune(c)
      BY <3>6 DEF RemovesBare, WorktreeRemove, WorktreePrune
    <3>7. QED
      BY <1>1, <3>1, <3>2, <3>3, <3>4, <3>5, <3>6 DEF CreateGit, ResolvesBase, Returns, Fails, OpenWorkspace, ReadsMetadata,
         RunsScript, Dies, BranchDelete
  <2>5. trees' = [p \in Paths |-> trees'[p]] BY <2>4
  <2>6. QED BY <2>1, <2>3, <2>5
<1>2. ASSUME NEW p \in Paths, \/ Edit(p) \/ Push(p) \/ CreateCheckpoint(p) \/ DeleteCheckpoint(p) \/ Detach(p) \/ RemovedByHand(p)
                              \/ Commit(p) \/ Pull(p) \/ RestoreCheckpoint(p)
      PROVE  TreesAreFunctions'
  <2>1. hosts' = hosts
    BY <1>2 DEF Edit, Push, CreateCheckpoint, DeleteCheckpoint, Detach, RemovedByHand, Commit, Pull, RestoreCheckpoint
  <2>2. heads' = heads \/ \E b, tip : heads' = [heads EXCEPT ![b] = tip]
    BY <1>2 DEF Edit, Push, CreateCheckpoint, DeleteCheckpoint, Detach, RemovedByHand, Commit, Pull, RestoreCheckpoint, Moves, refs
  <2>3. DOMAIN trees' = Paths /\ trees' = [q \in Paths |-> trees'[q]]
    BY <1>2 DEF Edit, Push, CreateCheckpoint, DeleteCheckpoint, Detach, RemovedByHand, Commit, Pull, RestoreCheckpoint, Moves
  <2>4. heads' = [b \in Branches |-> heads'[b]] BY <2>2
  <2>5. QED BY <2>1, <2>3, <2>4
<1>3. CASE BaseAdvances \/ UNCHANGED treeVars BY <1>3 DEF BaseAdvances, treeVars
<1>4. QED BY <1>1, <1>2, <1>3 DEF TreesNext

\* What an archive that is not forced does.
ArchiveLosesNothing ==
    \A c \in HostCalls :
       hosts[c].op = "archive" /\ ~hosts[c].force /\ hosts'[c] # hosts[c]
           => /\ OfBranches \subseteq OfBranches'
              /\ \A p \in Paths : IsGit(p) /\ trees[p].dirty => trees'[p] = trees[p]

LEMMA ArchiveStepsLoseNothing == ASSUME TreesAreFunctions, [TreesNext]_treeVars PROVE ArchiveLosesNothing
<1> SUFFICES ASSUME NEW c \in HostCalls, hosts[c].op = "archive", ~hosts[c].force, hosts'[c] # hosts[c]
             PROVE  /\ OfBranches \subseteq OfBranches'
                    /\ \A p \in Paths : IsGit(p) /\ trees[p].dirty => trees'[p] = trees[p]
  BY DEF ArchiveLosesNothing
<1>1. RunsScript(c) \/ WorktreeRemove(c) \/ WorktreePrune(c) \/ Dies(c) \/ BranchDelete(c)
  <2>1. ASSUME NEW p \in Paths PROVE
           ~ (\/ Edit(p) \/ Push(p) \/ CreateCheckpoint(p) \/ DeleteCheckpoint(p) \/ Detach(p) \/ RemovedByHand(p)
              \/ Commit(p) \/ Pull(p) \/ RestoreCheckpoint(p))
    BY DEF Edit, Push, CreateCheckpoint, DeleteCheckpoint, Detach, RemovedByHand, Commit, Pull, RestoreCheckpoint
  <2>2. ~ (BaseAdvances \/ UNCHANGED treeVars) BY DEF BaseAdvances, treeVars
  <2>3. PICK d \in HostCalls :
             \/ CreateGit(d) \/ ResolvesBase(d) \/ AddsNew(d) \/ AddsExisting(d) \/ WritesMetadata(d) \/ MetadataWritten(d)
             \/ Returns(d) \/ Fails(d) \/ CreateBare(d) \/ OpenWorkspace(d) \/ ReadsMetadata(d)
             \/ Archive(d) \/ RunsScript(d) \/ RemovesBare(d) \/ WorktreeRemove(d) \/ WorktreePrune(d)
             \/ Dies(d) \/ BranchDelete(d)
    BY <2>1, <2>2 DEF TreesNext
  <2>4. d = c
    <3>1. PICK k : hosts' = [hosts EXCEPT ![d] = k] BY <2>3, OneCallSteps
    <3>2. QED BY <3>1 DEF TreesAreFunctions
  <2>5. QED
    BY <2>3, <2>4 DEF CreateGit, ResolvesBase, AddsNew, AddsExisting, WritesMetadata, MetadataWritten, Returns, Fails,
       CreateBare, OpenWorkspace, ReadsMetadata, Archive, RemovesBare, At
<1>2. CASE RunsScript(c) \/ Dies(c) BY <1>2 DEF RunsScript, Dies, OfBranches, refs
<1>3. CASE WorktreeRemove(c)
  <2>1. UNCHANGED refs BY <1>3 DEF WorktreeRemove
  <2>2. OfBranches' = OfBranches BY <2>1 DEF OfBranches, refs
  <2>3. CASE trees' = trees BY <2>2, <2>3
  <2>4. CASE MayRemove(c) /\ trees' = [trees EXCEPT ![hosts[c].path] = NoTree]
    BY <2>2, <2>4 DEF MayRemove, TreesAreFunctions
  <2>5. QED BY <1>3, <2>3, <2>4 DEF WorktreeRemove
<1>4. CASE WorktreePrune(c) BY <1>4 DEF WorktreePrune, OfBranches, refs, Pruned, IsGit
<1>5. CASE BranchDelete(c)
  <2> DEFINE b == hosts[c].branch
  <2>1. UNCHANGED <<base, origin, trees>> BY <1>5 DEF BranchDelete
  <2>2. CASE heads' = heads BY <2>1, <2>2 DEF OfBranches
  <2>3. CASE Merged(b) /\ heads' = [heads EXCEPT ![b] = NoRef]
    <3>1. ASSUME NEW n \in OfBranches PROVE n \in OfBranches'
      <4>1. CASE n \in base BY <2>1, <4>1 DEF OfBranches
      <4>2. CASE n \notin base
        <5>1. PICK a \in Branches : n \in heads[a] \/ n \in origin[a] BY <4>2 DEF OfBranches
        <5>2. n \in origin'[a] \/ n \in heads'[a] BY <2>1, <2>3, <4>2, <5>1 DEF Merged, TreesAreFunctions
        <5>3. QED BY <5>2 DEF OfBranches
      <4>3. QED BY <4>1, <4>2
    <3>2. QED BY <2>1, <3>1
  <2>4. QED BY <1>5, <2>2, <2>3 DEF BranchDelete
<1>6. QED BY <1>1, <1>2, <1>3, <1>4, <1>5

\* An archive that is not forced takes no change that is not committed and no commit that neither
\* another branch nor the remote has, for every set of calls, paths and branches, and whether the
\* refs move meanwhile or not (workspace.ts 339-387).
THEOREM ArchivesLoseNothing == TreesSpec => WorkIsKept
<1>1. TreesInit => TreesAreFunctions BY FunctionsInitially
<1>2. TreesAreFunctions /\ [TreesNext]_treeVars => TreesAreFunctions' BY FunctionsStay
<1>3. TreesAreFunctions /\ [TreesNext]_treeVars => ArchiveLosesNothing BY ArchiveStepsLoseNothing
<1>4. [][ArchiveLosesNothing]_treeVars => WorkIsKept BY DEF WorkIsKept, ArchiveLosesNothing
<1>5. QED BY <1>1, <1>2, <1>3, <1>4, PTL DEF TreesSpec

-----------------------------------------------------------------------------
(* WorkspaceTools: the script                                              *)

Chunk == [of : Pipes, n : Nat]
ScriptType ==
    [at : {"none", "running", "refused"}, alive : SUBSET (Kids \cup {Leader}), signalled : SUBSET (Kids \cup {Leader}),
     written : Seq(Chunk), unread : [Pipes -> Seq(Chunk)], open : SUBSET Pipes, merged : Seq(Chunk),
     ended : BOOLEAN, killed : BOOLEAN, kills : [Kills -> {"none", "waiting", "returned"}]]

\* Chunks are numbered as they were written; what has been merged of a pipe and what waits in it are
\* in that order, the one before the other, and nothing else was written.
ChunksInOrder ==
    /\ \A i \in 1 .. Len(script.written) : script.written[i].n = i
    /\ \A i, j \in 1 .. Len(script.merged) :
          i < j /\ script.merged[i].of = script.merged[j].of => script.merged[i].n < script.merged[j].n
    /\ \A p \in Pipes : \A i, j \in 1 .. Len(script.unread[p]) :
          script.unread[p][i].of = p /\ (i < j => script.unread[p][i].n < script.unread[p][j].n)
    /\ \A p \in Pipes : \A i \in 1 .. Len(script.merged), j \in 1 .. Len(script.unread[p]) :
          script.merged[i].of = p => script.merged[i].n < script.unread[p][j].n
    /\ \A chunk \in Chunk :
          chunk \in ToSet(script.written)
             <=> chunk \in ToSet(script.merged) \/ \E p \in Pipes : chunk \in ToSet(script.unread[p])

\* A pipe is closed after the last process, and what the shell started outlives it only when it has
\* been signalled.
ScriptIsSound ==
    /\ script.at # "running" => script.alive = {}
    /\ script.ended => script.open = {}
    /\ script.open # Pipes => script.at = "running"
    /\ \A p \in Pipes \ script.open : script.alive = {} /\ script.unread[p] = << >>
    /\ ~script.killed => script.signalled = {} /\ \A k \in Kills : script.kills[k] = "none"
    /\ script.killed => script.at = "running"
    /\ script.killed /\ Leader \in script.alive => script.signalled # {}
    /\ ~LeaderFirst /\ script.killed => script.alive \subseteq script.signalled
    /\ ~LeaderFirst /\ ~script.killed /\ Leader \notin script.alive => script.alive = {}

ScriptInv == script \in ScriptType /\ ChunksInOrder /\ ScriptIsSound

\* What is in a sequence with one more element, and in one without its first.
LEMMA AppendedSet ==
    ASSUME NEW S, NEW s \in Seq(S), NEW x \in S
    PROVE  /\ Append(s, x) \in Seq(S) /\ Len(Append(s, x)) = Len(s) + 1
           /\ \A i \in 1 .. Len(s) : Append(s, x)[i] = s[i]
           /\ Append(s, x)[Len(s) + 1] = x
           /\ ToSet(Append(s, x)) = ToSet(s) \cup {x}
<1>1. /\ Append(s, x) \in Seq(S) /\ Len(Append(s, x)) = Len(s) + 1
      /\ \A i \in 1 .. Len(s) : Append(s, x)[i] = s[i]
      /\ Append(s, x)[Len(s) + 1] = x
  OBVIOUS
<1>2. Len(s) \in Nat /\ DOMAIN s = 1 .. Len(s) /\ DOMAIN Append(s, x) = 1 .. Len(s) + 1 OBVIOUS
<1>3. ASSUME NEW y PROVE y \in ToSet(Append(s, x)) <=> y \in ToSet(s) \cup {x}
  <2>1. y \in ToSet(Append(s, x)) <=> \E i \in 1 .. Len(s) + 1 : y = Append(s, x)[i] BY <1>2 DEF ToSet
  <2>2. y \in ToSet(s) <=> \E i \in 1 .. Len(s) : y = s[i] BY <1>2 DEF ToSet
  <2>3. \A i \in 1 .. Len(s) + 1 : i \in 1 .. Len(s) \/ i = Len(s) + 1 BY <1>2
  <2>4. \A i \in 1 .. Len(s) : i \in 1 .. Len(s) + 1 BY <1>2
  <2>5. Len(s) + 1 \in 1 .. Len(s) + 1 BY <1>2
  <2>6. QED BY <1>1, <2>1, <2>2, <2>3, <2>4, <2>5
<1>4. QED BY <1>1, <1>3

LEMMA HeadAndTail ==
    ASSUME NEW S, NEW s \in Seq(S), s # << >>
    PROVE  /\ Head(s) \in S /\ Tail(s) \in Seq(S) /\ Len(Tail(s)) = Len(s) - 1 /\ Len(s) \in Nat \ {0}
           /\ Head(s) = s[1]
           /\ \A i \in 1 .. Len(Tail(s)) : Tail(s)[i] = s[i + 1]
           /\ ToSet(s) = {Head(s)} \cup ToSet(Tail(s))
<1>1. /\ Head(s) \in S /\ Tail(s) \in Seq(S) /\ Len(Tail(s)) = Len(s) - 1
      /\ \A i \in 1 .. Len(Tail(s)) : Tail(s)[i] = s[i + 1]
  BY HeadTailProperties
<1>2. Len(s) \in Nat \ {0} /\ DOMAIN s = 1 .. Len(s) BY EmptySeq, LenProperties
<1>3. Head(s) = s[1] OBVIOUS
<1>4. Len(Tail(s)) \in Nat /\ DOMAIN Tail(s) = 1 .. Len(Tail(s)) BY <1>1, LenProperties
<1>5. ASSUME NEW y PROVE y \in ToSet(s) <=> y \in {Head(s)} \cup ToSet(Tail(s))
  <2>1. y \in ToSet(s) <=> \E i \in 1 .. Len(s) : y = s[i] BY <1>2 DEF ToSet
  <2>2. y \in ToSet(Tail(s)) <=> \E i \in 1 .. Len(Tail(s)) : y = Tail(s)[i] BY <1>4 DEF ToSet
  <2>3. ASSUME NEW i \in 1 .. Len(s), i # 1 PROVE i - 1 \in 1 .. Len(Tail(s)) /\ s[i] = Tail(s)[i - 1]
    BY <1>1, <1>2, <2>3
  <2>4. ASSUME NEW i \in 1 .. Len(Tail(s)) PROVE i + 1 \in 1 .. Len(s) /\ Tail(s)[i] = s[i + 1] BY <1>1, <1>2
  <2>5. 1 \in 1 .. Len(s) BY <1>2
  <2>6. QED BY <1>3, <2>1, <2>2, <2>3, <2>4, <2>5
<1>6. QED BY <1>1, <1>2, <1>3, <1>5

LEMMA ScriptInitially == ASSUME script = NoScript PROVE ScriptInv
<1>1. /\ script.at = "none" /\ script.alive = {} /\ script.signalled = {} /\ script.written = << >>
      /\ script.unread = [p \in Pipes |-> << >>] /\ script.open = Pipes /\ script.merged = << >>
      /\ script.ended = FALSE /\ script.killed = FALSE /\ script.kills = [k \in Kills |-> "none"]
  BY DEF NoScript
<1>2. \A p \in Pipes : script.unread[p] = << >> BY <1>1
<1>3. << >> \in Seq(Chunk) /\ Len(<< >>) = 0 /\ \A i : i \notin 1 .. 0 BY EmptySeq
<1>4. script \in ScriptType BY <1>3 DEF NoScript, ScriptType
<1>5. \A chunk : chunk \notin ToSet(<< >>) BY DEF ToSet
<1>6. ChunksInOrder BY <1>1, <1>2, <1>3, <1>5 DEF ChunksInOrder
<1>7. ScriptIsSound BY <1>1, <1>2 DEF ScriptIsSound
<1>8. QED BY <1>4, <1>6, <1>7 DEF ScriptInv

\* What a step does not do to the chunks.
ChunksStay == script'.written = script.written /\ script'.unread = script.unread /\ script'.merged = script.merged

LEMMA ChunksStayInOrder == ASSUME ChunksInOrder, ChunksStay PROVE ChunksInOrder'
BY DEF ChunksInOrder, ChunksStay

LEMMA ScriptRunKeeps == ASSUME ScriptInv, RunScript PROVE ScriptInv'
<1>1. script \in ScriptType /\ ChunksInOrder /\ ScriptIsSound /\ script.at = "none" BY DEF ScriptInv, RunScript
<1>2. CASE script' = [script EXCEPT !.at = "running", !.alive = {Leader}]
  BY <1>1, <1>2, ChunksStayInOrder DEF ScriptType, ChunksStay, ScriptIsSound, ScriptInv
<1>3. CASE script' = [script EXCEPT !.at = "refused"]
  BY <1>1, <1>3, ChunksStayInOrder DEF ScriptType, ChunksStay, ScriptIsSound, ScriptInv
<1>4. QED BY <1>2, <1>3 DEF RunScript, Script

LEMMA StartsKeeps == ASSUME ScriptInv, NEW k \in Kids, Starts(k) PROVE ScriptInv'
<1>1. /\ script \in ScriptType /\ ChunksInOrder /\ ScriptIsSound
      /\ Leader \in script.alive /\ script.signalled = {}
  BY DEF ScriptInv, Starts
<1>2. script' = [script EXCEPT !.alive = @ \cup {k}] BY DEF Starts, Script
<1>3. /\ script' \in ScriptType /\ ChunksStay /\ script'.at = script.at /\ script'.alive = script.alive \cup {k}
      /\ script'.signalled = script.signalled /\ script'.open = script.open /\ script'.ended = script.ended
      /\ script'.killed = script.killed /\ script'.kills = script.kills
  BY <1>1, <1>2 DEF ScriptType, ChunksStay
<1>4. ScriptIsSound' BY <1>1, <1>3 DEF ScriptIsSound, ScriptType, ChunksStay
<1>5. QED BY <1>1, <1>3, <1>4, ChunksStayInOrder DEF ScriptInv

LEMMA ExitsKeeps == ASSUME ScriptInv, NEW x, Exits(x) PROVE ScriptInv'
<1>1. /\ script \in ScriptType /\ ChunksInOrder /\ ScriptIsSound /\ x \in script.alive
      /\ x = Leader /\ x \notin script.signalled => LeaderFirst \/ script.alive = {Leader}
  BY DEF ScriptInv, Exits
<1>2. script' = [script EXCEPT !.alive = @ \ {x}] BY DEF Exits, Script
<1>3. /\ script' \in ScriptType /\ ChunksStay /\ script'.at = script.at /\ script'.alive = script.alive \ {x}
      /\ script'.signalled = script.signalled /\ script'.open = script.open /\ script'.ended = script.ended
      /\ script'.killed = script.killed /\ script'.kills = script.kills
  BY <1>1, <1>2 DEF ScriptType, ChunksStay
<1>4. ScriptIsSound' BY <1>1, <1>3 DEF ScriptIsSound, ScriptType, ChunksStay
<1>5. QED BY <1>1, <1>3, <1>4, ChunksStayInOrder DEF ScriptInv

LEMMA ClosePipeKeeps == ASSUME ScriptInv, NEW p \in Pipes, ClosePipe(p) PROVE ScriptInv'
<1>1. /\ script \in ScriptType /\ ChunksInOrder /\ ScriptIsSound /\ script.at = "running" /\ script.alive = {}
      /\ script.unread[p] = << >>
  BY DEF ScriptInv, ClosePipe
<1>2. script' = [script EXCEPT !.open = script.open \ {p}, !.ended = StreamEnds(script.open \ {p})]
  BY DEF ClosePipe, Script
<1>3. StreamEnds(script.open \ {p}) \in BOOLEAN /\ (StreamEnds(script.open \ {p}) => script.open \ {p} = {})
  BY DEF StreamEnds
<1>4. /\ script' \in ScriptType /\ ChunksStay /\ script'.at = script.at /\ script'.alive = script.alive
      /\ script'.signalled = script.signalled /\ script'.open = script.open \ {p} /\ script'.ended = StreamEnds(script.open \ {p})
      /\ script'.killed = script.killed /\ script'.kills = script.kills
  BY <1>1, <1>2, <1>3 DEF ScriptType, ChunksStay
<1>5. ScriptIsSound' BY <1>1, <1>3, <1>4 DEF ScriptIsSound, ScriptType, ChunksStay
<1>6. QED BY <1>1, <1>4, <1>5, ChunksStayInOrder DEF ScriptInv

LEMMA KillKeeps == ASSUME ScriptInv, NEW k \in Kills, Kill(k) PROVE ScriptInv'
<1>1. script \in ScriptType /\ ChunksInOrder /\ ScriptIsSound /\ script.at = "running" BY DEF ScriptInv, Kill
<1> DEFINE signalled == IF script.killed \/ Leader \notin script.alive THEN script.signalled ELSE script.alive
<1>2. script' = [script EXCEPT !.kills[k] = "waiting", !.killed = TRUE, !.signalled = signalled]
  BY DEF Kill, Script
<1>3. signalled \in SUBSET (Kids \cup {Leader}) BY <1>1 DEF ScriptType
<1>4. script'.kills \in [Kills -> {"none", "waiting", "returned"}] BY <1>1, <1>2 DEF ScriptType
<1>5. /\ script' \in ScriptType /\ ChunksStay /\ script'.at = script.at /\ script'.alive = script.alive
      /\ script'.signalled = signalled /\ script'.open = script.open /\ script'.ended = script.ended
      /\ script'.killed = TRUE
  BY <1>1, <1>2, <1>3, <1>4 DEF ScriptType, ChunksStay
<1>6. ScriptIsSound' BY <1>1, <1>5 DEF ScriptIsSound, ScriptType, ChunksStay
<1>7. QED BY <1>1, <1>5, <1>6, ChunksStayInOrder DEF ScriptInv

LEMMA KillReturnsKeeps == ASSUME ScriptInv, NEW k \in Kills, KillReturns(k) PROVE ScriptInv'
<1>1. script \in ScriptType /\ ChunksInOrder /\ ScriptIsSound /\ script.kills[k] = "waiting"
  BY DEF ScriptInv, KillReturns
<1>2. script' = [script EXCEPT !.kills[k] = "returned"] BY DEF KillReturns, Script
<1>3. script'.kills \in [Kills -> {"none", "waiting", "returned"}] BY <1>1, <1>2 DEF ScriptType
<1>4. /\ script' \in ScriptType /\ ChunksStay /\ script'.at = script.at /\ script'.alive = script.alive
      /\ script'.signalled = script.signalled /\ script'.open = script.open /\ script'.ended = script.ended
      /\ script'.killed = script.killed
  BY <1>1, <1>2, <1>3 DEF ScriptType, ChunksStay
<1>5. script.killed BY <1>1 DEF ScriptIsSound
<1>6. ScriptIsSound' BY <1>1, <1>4, <1>5 DEF ScriptIsSound, ScriptType, ChunksStay
<1>7. QED BY <1>1, <1>4, <1>6, ChunksStayInOrder DEF ScriptInv

LEMMA WritesKeeps == ASSUME ScriptInv, NEW p \in Pipes, Writes(p) PROVE ScriptInv'
<1> DEFINE n == Len(script.written) + 1
           chunk == [of |-> p, n |-> n]
<1>1. script \in ScriptType /\ ChunksInOrder /\ ScriptIsSound /\ script.alive # {} BY DEF ScriptInv, Writes
<1>2. script' = [script EXCEPT !.written = Append(@, chunk), !.unread[p] = Append(@, chunk)]
  BY DEF Writes, Script
<1>3. /\ script.written \in Seq(Chunk) /\ script.merged \in Seq(Chunk) /\ script.unread \in [Pipes -> Seq(Chunk)]
      /\ Len(script.written) \in Nat
  BY <1>1 DEF ScriptType
<1>4. chunk \in Chunk /\ n \in Nat /\ n = Len(script.written) + 1 /\ chunk.n = n /\ chunk.of = p
  BY <1>3 DEF Chunk
<1> HIDE DEF n, chunk
<1> DEFINE w == Append(script.written, chunk)
           u == Append(script.unread[p], chunk)
<1>5. /\ script'.written = w /\ script'.unread = [script.unread EXCEPT ![p] = u] /\ script'.merged = script.merged
      /\ script'.at = script.at /\ script'.alive = script.alive
      /\ script'.signalled = script.signalled /\ script'.open = script.open /\ script'.ended = script.ended
      /\ script'.killed = script.killed /\ script'.kills = script.kills
  BY <1>1, <1>2, <1>3 DEF ScriptType
<1>6. /\ w \in Seq(Chunk) /\ Len(w) = n /\ w[n] = chunk /\ (\A i \in 1 .. Len(script.written) : w[i] = script.written[i])
      /\ ToSet(w) = ToSet(script.written) \cup {chunk}
  BY <1>3, <1>4, AppendedSet
<1>7. /\ u \in Seq(Chunk) /\ Len(u) = Len(script.unread[p]) + 1 /\ u[Len(u)] = chunk
      /\ \A i \in 1 .. Len(script.unread[p]) : u[i] = script.unread[p][i]
      /\ ToSet(u) = ToSet(script.unread[p]) \cup {chunk} /\ Len(script.unread[p]) \in Nat
  BY <1>3, <1>4, AppendedSet, LenProperties
<1> HIDE DEF w, u
<1>8. script' \in ScriptType BY <1>3, <1>7, <1>1, <1>2, <1>6 DEF ScriptType, w, u
<1>9. script'.unread[p] = u /\ \A q \in Pipes : q # p => script'.unread[q] = script.unread[q] BY <1>3, <1>5
<1>10. \A old \in Chunk : old \in ToSet(script.written) => old.n < n
  <2> SUFFICES ASSUME NEW old \in Chunk, old \in ToSet(script.written) PROVE old.n < n OBVIOUS
  <2>1. PICK i \in 1 .. Len(script.written) : old = script.written[i] BY <1>3, LenProperties DEF ToSet
  <2>2. old.n = i BY <1>1, <2>1 DEF ChunksInOrder
  <2>3. QED BY <1>3, <1>4, <2>2
<1>11. \A i \in 1 .. Len(script.merged) : script.merged[i] \in Chunk /\ script.merged[i].n < n
  <2> SUFFICES ASSUME NEW i \in 1 .. Len(script.merged) PROVE script.merged[i] \in Chunk /\ script.merged[i].n < n
    OBVIOUS
  <2>1. script.merged[i] \in Chunk /\ script.merged[i] \in ToSet(script.merged)
    BY <1>3, LenProperties, ElementOfSeq DEF ToSet
  <2>2. QED BY <1>1, <1>10, <2>1 DEF ChunksInOrder
<1>12. \A q \in Pipes : \A i \in 1 .. Len(script.unread[q]) : script.unread[q][i].n < n
  <2> SUFFICES ASSUME NEW q \in Pipes, NEW i \in 1 .. Len(script.unread[q]) PROVE script.unread[q][i].n < n
    OBVIOUS
  <2>1. script.unread[q] \in Seq(Chunk) BY <1>3
  <2>2. script.unread[q][i] \in Chunk /\ script.unread[q][i] \in ToSet(script.unread[q])
    BY <2>1, LenProperties, ElementOfSeq DEF ToSet
  <2>3. QED BY <1>1, <1>10, <2>2 DEF ChunksInOrder
<1>13. ChunksInOrder'
  <2>1. \A i \in 1 .. Len(script'.written) : script'.written[i].n = i
    <3>1. \A i \in 1 .. n : i \in 1 .. Len(script.written) \/ i = n BY <1>3, <1>4
    <3>2. QED BY <1>1, <1>4, <1>5, <1>6, <3>1 DEF ChunksInOrder
  <2>2. \A i, j \in 1 .. Len(script'.merged) :
          i < j /\ script'.merged[i].of = script'.merged[j].of => script'.merged[i].n < script'.merged[j].n
    BY <1>1, <1>5 DEF ChunksInOrder
  <2>3. ASSUME NEW q \in Pipes, NEW i \in 1 .. Len(script'.unread[q]), NEW j \in 1 .. Len(script'.unread[q])
        PROVE  script'.unread[q][i].of = q /\ (i < j => script'.unread[q][i].n < script'.unread[q][j].n)
    <3>1. CASE q # p BY <1>1, <1>9, <2>3, <3>1 DEF ChunksInOrder
    <3>2. CASE q = p
      <4>1. /\ i \in 1 .. Len(script.unread[p]) \/ i = Len(u)
            /\ j \in 1 .. Len(script.unread[p]) \/ j = Len(u)
            /\ i < j => i \in 1 .. Len(script.unread[p])
        BY <1>7, <1>9, <2>3, <3>2
      <4>2. u[i].of = p BY <1>1, <1>4, <1>7, <4>1 DEF ChunksInOrder
      <4>3. ASSUME i < j PROVE u[i].n < u[j].n
        <5>1. i \in 1 .. Len(script.unread[p]) /\ u[i] = script.unread[p][i] BY <1>7, <4>1, <4>3
        <5>2. CASE j \in 1 .. Len(script.unread[p]) BY <1>1, <1>7, <4>3, <5>1, <5>2 DEF ChunksInOrder
        <5>3. CASE j = Len(u) BY <1>4, <1>7, <1>12, <5>1, <5>3
        <5>4. QED BY <4>1, <5>2, <5>3
      <4>4. QED BY <1>9, <3>2, <4>2, <4>3
    <3>3. QED BY <3>1, <3>2
  <2>4. ASSUME NEW q \in Pipes, NEW i \in 1 .. Len(script'.merged), NEW j \in 1 .. Len(script'.unread[q]), script'.merged[i].of = q
        PROVE  script'.merged[i].n < script'.unread[q][j].n
    <3>1. CASE q # p BY <1>1, <1>5, <1>9, <2>4, <3>1 DEF ChunksInOrder
    <3>2. CASE q = p
      <4>1. j \in 1 .. Len(script.unread[p]) \/ j = Len(u) BY <1>7, <1>9, <2>4, <3>2
      <4>2. CASE j \in 1 .. Len(script.unread[p]) BY <1>5, <2>4, <3>2, <1>1, <4>2, <1>7, <1>9 DEF ChunksInOrder
      <4>3. CASE j = Len(u) BY <1>4, <1>5, <1>7, <1>9, <1>11, <2>4, <3>2, <4>3
      <4>4. QED BY <4>1, <4>2, <4>3
    <3>3. QED BY <3>1, <3>2
  <2>5. ASSUME NEW x \in Chunk
        PROVE  x \in ToSet(script'.written) <=> x \in ToSet(script'.merged) \/ \E q \in Pipes : x \in ToSet(script'.unread[q])
    BY <1>1, <1>7, <1>9, <1>5, <1>6 DEF ChunksInOrder
  <2>6. QED BY <2>1, <2>2, <2>3, <2>4, <2>5 DEF ChunksInOrder
<1>14. ScriptIsSound' BY <1>1, <1>5, <1>9 DEF ScriptIsSound
<1>15. QED BY <1>8, <1>13, <1>14 DEF ScriptInv

LEMMA ReadsPipeKeeps == ASSUME ScriptInv, NEW p \in Pipes, ReadsPipe(p) PROVE ScriptInv'
<1> DEFINE s == script.unread[p]
<1>1. script \in ScriptType /\ ChunksInOrder /\ ScriptIsSound /\ s # << >> BY DEF ScriptInv, ReadsPipe
<1>2. script' = [script EXCEPT !.merged = Append(@, Head(s)), !.unread[p] = Tail(s)]
  BY <1>1 DEF ReadsPipe, Script, ScriptType
<1>3. /\ script.merged \in Seq(Chunk) /\ script.unread \in [Pipes -> Seq(Chunk)] /\ s \in Seq(Chunk) /\ Len(script.merged) \in Nat
  BY <1>1 DEF ScriptType
<1>4. /\ Head(s) \in Chunk /\ Tail(s) \in Seq(Chunk) /\ Len(Tail(s)) = Len(s) - 1 /\ Len(s) \in Nat \ {0}
      /\ Head(s) = s[1]
      /\ \A i \in 1 .. Len(Tail(s)) : Tail(s)[i] = s[i + 1]
      /\ ToSet(s) = {Head(s)} \cup ToSet(Tail(s))
  BY <1>1, <1>3, HeadAndTail
<1> DEFINE m == Append(script.merged, Head(s))
           u == Tail(s)
           first == Head(s)
<1>5. /\ script'.merged = m /\ script'.unread = [script.unread EXCEPT ![p] = u] /\ script'.written = script.written
      /\ script'.at = script.at /\ script'.alive = script.alive
      /\ script'.signalled = script.signalled /\ script'.open = script.open /\ script'.ended = script.ended
      /\ script'.killed = script.killed /\ script'.kills = script.kills
  BY <1>1, <1>2, <1>3 DEF ScriptType
<1>6. /\ m \in Seq(Chunk) /\ Len(m) = Len(script.merged) + 1 /\ m[Len(m)] = first
      /\ \A i \in 1 .. Len(script.merged) : m[i] = script.merged[i]
      /\ ToSet(m) = ToSet(script.merged) \cup {first}
  BY <1>3, <1>4, AppendedSet
<1>7. script' \in ScriptType
  <2>1. [script.unread EXCEPT ![p] = u] \in [Pipes -> Seq(Chunk)] BY <1>3, <1>4
  <2>2. script' = [script EXCEPT !.merged = m, !.unread = [script.unread EXCEPT ![p] = u]]
    BY <1>1, <1>2 DEF ScriptType
  <2> HIDE DEF m, u
  <2>3. QED BY <1>1, <1>6, <2>1, <2>2 DEF ScriptType
<1>8. script'.unread[p] = u /\ \A q \in Pipes : q # p => script'.unread[q] = script.unread[q] BY <1>3, <1>5
<1>9. /\ first = s[1] /\ u \in Seq(Chunk) /\ Len(u) = Len(s) - 1 /\ Len(s) \in Nat \ {0}
      /\ (\A i \in 1 .. Len(u) : u[i] = s[i + 1]) /\ ToSet(s) = {first} \cup ToSet(u)
  BY <1>4
<1> HIDE DEF m, u, first
<1>10. \A i \in 1 .. Len(u) : i + 1 \in 1 .. Len(s) /\ 1 < i + 1 BY <1>9
<1>11. 1 \in 1 .. Len(s) BY <1>9
<1>12. first.of = p BY <1>1, <1>9, <1>11 DEF ChunksInOrder
<1>13. \A i \in 1 .. Len(u) : u[i].of = p /\ first.n < u[i].n BY <1>1, <1>9, <1>10, <1>11 DEF ChunksInOrder
<1>14. \A i \in 1 .. Len(script.merged) : script.merged[i].of = p => script.merged[i].n < first.n
  BY <1>1, <1>9, <1>11 DEF ChunksInOrder
<1>15. \A i \in 1 .. Len(m) : i \in 1 .. Len(script.merged) \/ i = Len(m) BY <1>3, <1>6
<1>16. ChunksInOrder'
  <2>1. \A i \in 1 .. Len(script'.written) : script'.written[i].n = i BY <1>1, <1>5 DEF ChunksInOrder
  <2>2. ASSUME NEW i \in 1 .. Len(m), NEW j \in 1 .. Len(m), i < j, m[i].of = m[j].of
        PROVE  m[i].n < m[j].n
    <3>1. i \in 1 .. Len(script.merged) BY <1>3, <1>6, <2>2
    <3>2. CASE j \in 1 .. Len(script.merged) BY <1>1, <1>6, <2>2, <3>1, <3>2 DEF ChunksInOrder
    <3>3. CASE j = Len(m) BY <1>6, <1>12, <1>14, <2>2, <3>1, <3>3
    <3>4. QED BY <1>15, <3>2, <3>3
  <2>3. ASSUME NEW q \in Pipes, NEW i \in 1 .. Len(script'.unread[q]), NEW j \in 1 .. Len(script'.unread[q])
        PROVE  script'.unread[q][i].of = q /\ (i < j => script'.unread[q][i].n < script'.unread[q][j].n)
    <3>1. CASE q # p BY <1>1, <1>8, <2>3, <3>1 DEF ChunksInOrder
    <3>2. CASE q = p
      <4>1. i \in 1 .. Len(u) /\ j \in 1 .. Len(u) /\ (i < j => i + 1 < j + 1) BY <1>8, <2>3, <3>2
      <4>2. u[i] = s[i + 1] /\ u[j] = s[j + 1] /\ i + 1 \in 1 .. Len(s) /\ j + 1 \in 1 .. Len(s)
        BY <1>9, <1>10, <4>1
      <4>3. QED BY <1>1, <1>8, <1>13, <3>2, <4>1, <4>2 DEF ChunksInOrder
    <3>3. QED BY <3>1, <3>2
  <2>4. ASSUME NEW q \in Pipes, NEW i \in 1 .. Len(m), NEW j \in 1 .. Len(script'.unread[q]), m[i].of = q
        PROVE  m[i].n < script'.unread[q][j].n
    <3>1. CASE i = Len(m) BY <1>6, <1>12, <2>4, <3>1, <1>8, <1>13
    <3>2. CASE i \in 1 .. Len(script.merged)
      <4>1. m[i] = script.merged[i] BY <1>6, <3>2
      <4>2. CASE q # p BY <1>1, <1>8, <2>4, <3>2, <4>1, <4>2 DEF ChunksInOrder
      <4>3. CASE q = p
        <5>1. j \in 1 .. Len(u) /\ j + 1 \in 1 .. Len(s) /\ u[j] = s[j + 1] BY <1>8, <1>9, <1>10, <2>4, <4>3
        <5>2. script.merged[i].n < s[j + 1].n BY <1>1, <2>4, <3>2, <4>1, <4>3, <5>1 DEF ChunksInOrder
        <5>3. QED BY <1>8, <4>1, <4>3, <5>1, <5>2
      <4>4. QED BY <4>2, <4>3
    <3>3. QED BY <1>15, <3>1, <3>2
  <2>5. ASSUME NEW x \in Chunk
        PROVE  x \in ToSet(script'.written) <=> x \in ToSet(script'.merged) \/ \E q \in Pipes : x \in ToSet(script'.unread[q])
    <3>1. x \in ToSet(script.written) <=> x \in ToSet(script.merged) \/ \E q \in Pipes : x \in ToSet(script.unread[q])
      BY <1>1 DEF ChunksInOrder
    <3>2. (\E q \in Pipes : x \in ToSet(script.unread[q])) <=> x = first \/ \E q \in Pipes : x \in ToSet(script'.unread[q])
      BY <1>8, <1>9
    <3>3. QED BY <1>5, <1>6, <3>1, <3>2
  <2>6. QED BY <1>5, <2>1, <2>2, <2>3, <2>4, <2>5 DEF ChunksInOrder
<1>17. ScriptIsSound' BY <1>1, <1>5, <1>8 DEF ScriptIsSound
<1>18. QED BY <1>7, <1>16, <1>17 DEF ScriptInv

LEMMA ScriptIsTrue == ASSUME ScriptInv, ~LeaderFirst PROVE ScriptsAreTrue
<1>1. script \in ScriptType /\ ChunksInOrder /\ ScriptIsSound BY DEF ScriptInv
<1>2. script.merged \in Seq(Chunk) /\ script.written \in Seq(Chunk) /\ \A p \in Pipes : script.unread[p] \in Seq(Chunk)
  BY <1>1 DEF ScriptType
<1>3. DOMAIN script.merged = 1 .. Len(script.merged) BY <1>2
<1>4. \A s \in Seq(Chunk) : ToSet(s) \subseteq Chunk BY LenProperties, ElementOfSeq DEF ToSet
<1>5. ToSet(script.written) = ToSet(script.merged) \cup UNION {ToSet(script.unread[p]) : p \in Pipes}
  BY <1>1, <1>2, <1>4 DEF ChunksInOrder
<1>6. ASSUME script.ended PROVE script.alive = {} /\ ToSet(script.merged) = ToSet(script.written)
  <2>1. \A p \in Pipes : p \notin script.open /\ script.alive = {} /\ script.unread[p] = << >>
    BY <1>1, <1>6 DEF ScriptIsSound
  <2>2. \A p \in Pipes : ToSet(script.unread[p]) = {} BY <2>1 DEF ToSet
  <2>3. "stdout" \in Pipes BY DEF Pipes
  <2>4. QED BY <1>5, <2>1, <2>2, <2>3
<1>7. \A k \in Kills : script.kills[k] = "returned" => script.alive \subseteq script.signalled
  BY <1>1 DEF ScriptIsSound
<1>8. QED BY <1>1, <1>3, <1>5, <1>6, <1>7 DEF ScriptsAreTrue, ChunksInOrder

-----------------------------------------------------------------------------
(* WorkspaceTools: ports                                                   *)

PortCall == [at : {"none", "probing", "done"}, asked : Nat, probes : SUBSET Ports, failed : Nat, got : SUBSET Ports]

\* A call has no more probes than it asked for, and no socket is of two calls.
PortsInv ==
    /\ ports \in [open : SUBSET Ports, held : SUBSET Ports, calls : [PortCalls -> PortCall]]
    /\ \A c \in PortCalls : LET call == ports.calls[c] IN
          /\ call.at = "none" => call.probes = {} /\ call.failed = 0
          /\ call.at = "probing" => Cardinality(call.probes) + call.failed <= call.asked
          /\ call.at = "done" => Cardinality(call.got) = (IF call.failed > 0 THEN 0 ELSE call.asked)
    /\ \A c, d \in PortCalls : c # d /\ ports.calls[c].at = "probing" /\ ports.calls[d].at = "probing"
          => ports.calls[c].probes \cap ports.calls[d].probes = {}
    /\ ports.open = UNION {ports.calls[c].probes : c \in {d \in PortCalls : ports.calls[d].at = "probing"}}

LEMMA ProbesFinite == ASSUME NEW some \in SUBSET Ports PROVE IsFiniteSet(some) /\ Cardinality(some) \in Nat
BY ToolsAssumption, FS_Subset, FS_CardinalityType

\* A step of one call.
LEMMA PortCallSteps ==
    ASSUME PortsInv, NEW c \in PortCalls, NEW call \in PortCall, NEW open \in SUBSET Ports, NEW held \in SUBSET Ports,
           PortsTo(c, call, open, held),
           call.at = "none" => call.probes = {} /\ call.failed = 0,
           call.at = "probing" => Cardinality(call.probes) + call.failed <= call.asked,
           call.at = "done" => Cardinality(call.got) = (IF call.failed > 0 THEN 0 ELSE call.asked),
           call.at = "probing" => \A d \in PortCalls : d # c /\ ports.calls[d].at = "probing" => call.probes \cap ports.calls[d].probes = {},
           \A p \in Ports : p \in open <=> \/ call.at = "probing" /\ p \in call.probes
                                           \/ \E d \in PortCalls : d # c /\ ports.calls[d].at = "probing" /\ p \in ports.calls[d].probes
    PROVE  PortsInv'
<1>1. ports' = [open |-> open, held |-> held, calls |-> [ports.calls EXCEPT ![c] = call]] BY DEF PortsTo
<1>2. ports.calls \in [PortCalls -> PortCall] BY DEF PortsInv
<1>3. /\ ports'.calls \in [PortCalls -> PortCall] /\ ports'.calls[c] = call /\ ports'.open = open
      /\ \A d \in PortCalls : d # c => ports'.calls[d] = ports.calls[d]
  BY <1>1, <1>2
<1>4. ports' \in [open : SUBSET Ports, held : SUBSET Ports, calls : [PortCalls -> PortCall]] BY <1>1, <1>2
<1>5. ASSUME NEW e \in PortCalls
      PROVE  /\ ports'.calls[e].at = "none" => ports'.calls[e].probes = {} /\ ports'.calls[e].failed = 0
             /\ ports'.calls[e].at = "probing" => Cardinality(ports'.calls[e].probes) + ports'.calls[e].failed <= ports'.calls[e].asked
             /\ ports'.calls[e].at = "done" => Cardinality(ports'.calls[e].got) = (IF ports'.calls[e].failed > 0 THEN 0 ELSE ports'.calls[e].asked)
  BY <1>3 DEF PortsInv
<1>6. ASSUME NEW e \in PortCalls, NEW d \in PortCalls, e # d, ports'.calls[e].at = "probing", ports'.calls[d].at = "probing"
      PROVE  ports'.calls[e].probes \cap ports'.calls[d].probes = {}
  <2>1. CASE e # c /\ d # c BY <1>3, <1>6, <2>1 DEF PortsInv
  <2>2. CASE e = c BY <1>3, <1>6, <2>2
  <2>3. CASE d = c BY <1>3, <1>6, <2>3
  <2>4. QED BY <2>1, <2>2, <2>3
<1>7. open = UNION {ports'.calls[d].probes : d \in {e \in PortCalls : ports'.calls[e].at = "probing"}}
  <2>1. \A d \in PortCalls : ports'.calls[d].probes \subseteq Ports BY <1>3 DEF PortCall
  <2>2. ASSUME NEW p \in Ports
        PROVE  p \in open <=> \E d \in PortCalls : ports'.calls[d].at = "probing" /\ p \in ports'.calls[d].probes
    BY <1>3
  <2>3. QED BY <2>1, <2>2
<1>8. QED BY <1>3, <1>4, <1>5, <1>6, <1>7 DEF PortsInv

LEMMA OpenSockets == ASSUME PortsInv, NEW p
                     PROVE  p \in ports.open <=> \E d \in PortCalls : ports.calls[d].at = "probing" /\ p \in ports.calls[d].probes
BY DEF PortsInv

LEMMA PortCallTypes ==
    ASSUME PortsInv, NEW c \in PortCalls
    PROVE  /\ ports.calls[c] \in PortCall /\ ports.open \in SUBSET Ports /\ ports.held \in SUBSET Ports
           /\ ports.calls[c].probes \in SUBSET Ports /\ ports.calls[c].failed \in Nat /\ ports.calls[c].asked \in Nat
           /\ Cardinality(ports.calls[c].probes) \in Nat /\ IsFiniteSet(ports.calls[c].probes)
<1>1. ports.calls[c] \in PortCall /\ ports.open \in SUBSET Ports /\ ports.held \in SUBSET Ports BY DEF PortsInv
<1>2. ports.calls[c].probes \in SUBSET Ports /\ ports.calls[c].failed \in Nat /\ ports.calls[c].asked \in Nat
  BY <1>1 DEF PortCall
<1>3. QED BY <1>1, <1>2, ProbesFinite

LEMMA AllocateKeeps == ASSUME PortsInv, NEW c \in PortCalls, Allocate(c) PROVE PortsInv'
<1> DEFINE old == ports.calls[c]
<1>1. old.at = "none" /\ old.probes = {} /\ old.failed = 0 /\ old \in PortCall
  BY PortCallTypes DEF Allocate, PortsInv
<1>2. PICK n \in 1 .. MaxPorts : PortsTo(c, [old EXCEPT !.at = "probing", !.asked = n], ports.open, ports.held)
  BY DEF Allocate
<1> DEFINE call == [old EXCEPT !.at = "probing", !.asked = n]
<1>3. n \in Nat BY ToolsAssumption
<1>4. call \in PortCall /\ call.at = "probing" /\ call.asked = n /\ call.probes = {} /\ call.failed = 0
  BY <1>1, <1>3 DEF PortCall
<1> HIDE DEF call
<1>5. Cardinality(call.probes) + call.failed <= call.asked BY <1>3, <1>4, FS_EmptySet
<1>6. ASSUME NEW p \in Ports
      PROVE  p \in ports.open <=> \/ call.at = "probing" /\ p \in call.probes
                                  \/ \E d \in PortCalls : d # c /\ ports.calls[d].at = "probing" /\ p \in ports.calls[d].probes
  BY <1>1, <1>4, OpenSockets
<1>7. PortsTo(c, call, ports.open, ports.held) BY <1>2 DEF call
<1>8. ASSUME NEW d \in PortCalls, d # c, ports.calls[d].at = "probing" PROVE call.probes \cap ports.calls[d].probes = {}
  BY <1>4
<1>9. ports.open \in SUBSET Ports /\ ports.held \in SUBSET Ports BY PortCallTypes
<1>10. /\ call \in PortCall
       /\ call.at = "none" => call.probes = {} /\ call.failed = 0
       /\ call.at = "probing" => Cardinality(call.probes) + call.failed <= call.asked
       /\ call.at = "done" => Cardinality(call.got) = (IF call.failed > 0 THEN 0 ELSE call.asked)
  BY <1>4, <1>5
<1> HIDE DEF old
<1>11. QED BY <1>6, <1>7, <1>8, <1>9, <1>10, PortCallSteps

LEMMA ProbesKeeps == ASSUME PortsInv, NEW c \in PortCalls, Probes(c) PROVE PortsInv'
<1> DEFINE old == ports.calls[c]
<1>1. /\ old.at = "probing" /\ Cardinality(old.probes) + old.failed < old.asked /\ old \in PortCall
      /\ old.failed \in Nat /\ old.asked \in Nat /\ old.probes \in SUBSET Ports
      /\ Cardinality(old.probes) \in Nat /\ IsFiniteSet(old.probes)
  BY PortCallTypes DEF Probes, Probing
<1>2. PICK p \in Ports \ ports.open : PortsTo(c, [old EXCEPT !.probes = @ \cup {p}], ports.open \cup {p}, ports.held)
  BY DEF Probes
<1> DEFINE call == [old EXCEPT !.probes = old.probes \cup {p}]
<1>3. /\ call \in PortCall /\ call.at = "probing" /\ call.asked = old.asked /\ call.failed = old.failed
      /\ call.probes = old.probes \cup {p}
  BY <1>1 DEF PortCall
<1>4. PortsTo(c, call, ports.open \cup {p}, ports.held) BY <1>1, <1>2 DEF PortCall
<1> HIDE DEF call
<1>5. Cardinality(call.probes) + call.failed <= call.asked
  <2>1. IsFiniteSet(old.probes) BY <1>1
  <2>2. p \notin old.probes BY <1>1, OpenSockets
  <2> HIDE DEF old
  <2>3. Cardinality(old.probes \cup {p}) = Cardinality(old.probes) + 1 BY <2>1, <2>2, FS_AddElement
  <2>4. QED BY <1>1, <1>3, <2>3
<1>6. ASSUME NEW d \in PortCalls, d # c, ports.calls[d].at = "probing" PROVE call.probes \cap ports.calls[d].probes = {}
  BY <1>1, <1>6, OpenSockets, <1>3 DEF PortsInv
<1>7. ASSUME NEW q \in Ports
      PROVE  q \in ports.open \cup {p} <=> \/ call.at = "probing" /\ q \in call.probes
                                           \/ \E d \in PortCalls : d # c /\ ports.calls[d].at = "probing" /\ q \in ports.calls[d].probes
  BY <1>1, <1>3, OpenSockets
<1>8. ports.open \cup {p} \in SUBSET Ports /\ ports.held \in SUBSET Ports BY PortCallTypes
<1>9. /\ call \in PortCall
      /\ call.at = "none" => call.probes = {} /\ call.failed = 0
      /\ call.at = "probing" => Cardinality(call.probes) + call.failed <= call.asked
      /\ call.at = "done" => Cardinality(call.got) = (IF call.failed > 0 THEN 0 ELSE call.asked)
  BY <1>3, <1>5
<1> HIDE DEF old
<1>10. QED BY <1>4, <1>6, <1>7, <1>8, <1>9, PortCallSteps

LEMMA ProbeFailsKeeps == ASSUME PortsInv, NEW c \in PortCalls, ProbeFails(c) PROVE PortsInv'
<1> DEFINE old == ports.calls[c]
<1>1. /\ old.at = "probing" /\ Cardinality(old.probes) + old.failed < old.asked /\ old \in PortCall
      /\ old.failed \in Nat /\ old.asked \in Nat /\ Cardinality(old.probes) \in Nat
  BY PortCallTypes DEF ProbeFails, Probing
<1> DEFINE call == [old EXCEPT !.failed = old.failed + 1]
<1>2. /\ call \in PortCall /\ call.at = "probing" /\ call.asked = old.asked /\ call.failed = old.failed + 1
      /\ call.probes = old.probes
  BY <1>1 DEF PortCall
<1>3. PortsTo(c, call, ports.open, ports.held) BY <1>1 DEF ProbeFails, PortCall
<1> HIDE DEF call
<1>4. Cardinality(call.probes) + call.failed <= call.asked BY <1>1, <1>2
<1>5. ASSUME NEW d \in PortCalls, d # c, ports.calls[d].at = "probing" PROVE call.probes \cap ports.calls[d].probes = {}
  BY <1>1, <1>2, <1>5 DEF PortsInv
<1>6. ASSUME NEW q \in Ports
      PROVE  q \in ports.open <=> \/ call.at = "probing" /\ q \in call.probes
                                  \/ \E d \in PortCalls : d # c /\ ports.calls[d].at = "probing" /\ q \in ports.calls[d].probes
  BY <1>1, <1>2, OpenSockets
<1>7. QED BY <1>2, <1>3, <1>4, <1>5, <1>6, PortCallSteps, PortCallTypes

LEMMA SettlesKeeps == ASSUME PortsInv, NEW c \in PortCalls, Settles(c) PROVE PortsInv'
<1> DEFINE old == ports.calls[c]
           got == IF old.failed > 0 THEN {} ELSE old.probes
           call == [old EXCEPT !.at = "done", !.got = got]
<1>1. /\ old.at = "probing" /\ ~(Cardinality(old.probes) + old.failed < old.asked) /\ old \in PortCall
      /\ old.failed \in Nat /\ old.asked \in Nat /\ Cardinality(old.probes) \in Nat /\ old.probes \in SUBSET Ports
      /\ Cardinality(old.probes) + old.failed <= old.asked
  BY PortCallTypes DEF Settles, Probing, PortsInv
<1>2. got \in SUBSET Ports BY <1>1
<1>3. Cardinality(got) = (IF old.failed > 0 THEN 0 ELSE old.asked)
  <2>1. CASE old.failed > 0 BY <2>1, FS_EmptySet
  <2>2. CASE ~(old.failed > 0) BY <1>1, <2>2
  <2>3. QED BY <2>1, <2>2
<1>4. PortsTo(c, call, ports.open \ Closes(old), ports.held \cup got) BY DEF Settles
<1> HIDE DEF got
<1>5. call \in PortCall /\ call.at = "done" /\ call.got = got /\ call.failed = old.failed /\ call.asked = old.asked
  BY <1>1, <1>2 DEF PortCall
<1> HIDE DEF call
<1>6. ASSUME NEW q \in Ports
      PROVE  q \in ports.open \ Closes(old) <=>
                 \E d \in PortCalls : d # c /\ ports.calls[d].at = "probing" /\ q \in ports.calls[d].probes
  BY <1>1, OpenSockets DEF Closes, PortsInv
<1>7. ports.open \ Closes(old) \in SUBSET Ports /\ ports.held \cup got \in SUBSET Ports BY <1>2, PortCallTypes
<1>8. QED BY <1>3, <1>4, <1>5, <1>6, <1>7, PortCallSteps

LEMMA PortsKeep == ASSUME PortsInv, PortsNext PROVE PortsInv'
<1>1. ASSUME NEW p, Release(p) PROVE PortsInv' BY <1>1 DEF Release, PortsInv
<1>2. QED BY <1>1, AllocateKeeps, ProbesKeeps, ProbeFailsKeeps, SettlesKeeps DEF PortsNext

LEMMA PortsInitially == ASSUME ports = NoPorts PROVE PortsInv
<1> DEFINE call == [at |-> "none", asked |-> 0, probes |-> {}, failed |-> 0, got |-> {}]
<1>1. call \in PortCall /\ call.at = "none" /\ call.probes = {} /\ call.failed = 0 BY DEF PortCall
<1>2. ports = [open |-> {}, held |-> {}, calls |-> [c \in PortCalls |-> call]] BY DEF NoPorts
<1> HIDE DEF call
<1>3. ports \in [open : SUBSET Ports, held : SUBSET Ports, calls : [PortCalls -> PortCall]] BY <1>1, <1>2
<1>4. ports.open = {} /\ \A c \in PortCalls : ports.calls[c] = call BY <1>2
<1>5. QED BY <1>1, <1>3, <1>4 DEF PortsInv

-----------------------------------------------------------------------------
(* WorkspaceTools: the watch                                               *)

WatchInv ==
    /\ watch \in [changes : Nat, buffer : Seq(Nat), timer : BOOLEAN, disposed : BOOLEAN, closed : BOOLEAN,
                  told : Seq(Nat), errors : Nat, last : Nat]
    /\ ~watch.disposed => /\ Len(watch.told) + Len(watch.buffer) = watch.changes
                          /\ watch.told \o watch.buffer = [n \in 1 .. watch.changes |-> n]
                          /\ watch.buffer # << >> => watch.timer
    /\ watch.disposed => ~watch.timer /\ Len(watch.told) <= watch.last

LEMMA WatchInitially == ASSUME watch = NoWatch PROVE WatchInv
<1>1. << >> \in Seq(Nat) /\ Len(<< >>) = 0 OBVIOUS
<1>2. watch \in [changes : Nat, buffer : Seq(Nat), timer : BOOLEAN, disposed : BOOLEAN, closed : BOOLEAN,
                  told : Seq(Nat), errors : Nat, last : Nat]
  BY <1>1 DEF NoWatch
<1>3. watch.changes = 0 /\ watch.told = << >> /\ watch.buffer = << >> /\ watch.disposed = FALSE BY DEF NoWatch
<1>4. << >> \o << >> = [n \in 1 .. 0 |-> n] OBVIOUS
<1>5. QED BY <1>1, <1>2, <1>3, <1>4 DEF WatchInv

LEMMA WatchKeeps == ASSUME WatchInv, WatchNext PROVE WatchInv'
<1> DEFINE type == [changes : Nat, buffer : Seq(Nat), timer : BOOLEAN, disposed : BOOLEAN, closed : BOOLEAN,
                    told : Seq(Nat), errors : Nat, last : Nat]
<1>1. /\ watch \in type /\ watch.changes \in Nat /\ watch.buffer \in Seq(Nat) /\ watch.told \in Seq(Nat)
      /\ watch.disposed \in BOOLEAN /\ watch.errors \in Nat
  BY DEF WatchInv
<1>2. CASE Schedule
  <2> DEFINE n == watch.changes + 1
  <2>1. n \in Nat BY <1>1
  <2>2. CASE watch.disposed BY <1>2, <2>2, <1>1, <2>1 DEF Schedule, Watch, WatchInv
  <2>3. CASE ~watch.disposed
    <3> DEFINE b == Append(watch.buffer, n)
    <3>1. watch' = [watch EXCEPT !.changes = n, !.buffer = b, !.timer = TRUE] BY <1>2, <2>3 DEF Schedule, Watch
    <3>2. b \in Seq(Nat) /\ Len(b) = Len(watch.buffer) + 1 BY <1>1, <2>1
    <3>3. watch.told \o b = [i \in 1 .. n |-> i]
      <4>1. watch.told \o b = Append(watch.told \o watch.buffer, n) BY <1>1, <2>1
      <4>2. /\ watch.told \o watch.buffer = [i \in 1 .. watch.changes |-> i]
            /\ watch.told \o watch.buffer \in Seq(Nat)
        <5>1. watch.told \o watch.buffer \in Seq(Nat) BY <1>1
        <5>2. watch.told \o watch.buffer = [i \in 1 .. watch.changes |-> i] BY <2>3 DEF WatchInv
        <5>3. QED BY <5>1, <5>2
      <4> DEFINE old == [i \in 1 .. watch.changes |-> i]
      <4>3. Len(old) = watch.changes /\ old \in Seq(Nat) BY <1>1, <4>2
      <4>4. Append(old, n) = [i \in 1 .. n |-> i] BY <1>1, <4>3
      <4>5. QED BY <4>1, <4>2, <4>4
    <3> HIDE DEF b, n
    <3>4. /\ watch' \in type /\ watch'.disposed = watch.disposed /\ watch'.timer = TRUE /\ watch'.told = watch.told
          /\ watch'.buffer = b /\ watch'.changes = n
      BY <1>1, <2>1, <3>1, <3>2
    <3>5. Len(watch.told) + Len(b) = n BY <1>1, <2>3, <3>2 DEF WatchInv, n
    <3>6. QED BY <2>3, <3>3, <3>4, <3>5 DEF WatchInv
  <2>4. QED BY <2>2, <2>3
<1>3. CASE Flush
  <2>1. watch.timer /\ ~watch.disposed BY <1>3 DEF Flush, WatchInv
  <2>2. PICK thrown \in BOOLEAN :
          watch' = [watch EXCEPT !.timer = FALSE, !.told = @ \o watch.buffer, !.last = watch.changes,
                        !.buffer = << >>, !.errors = IF thrown THEN @ + 1 ELSE @]
    BY <1>3 DEF Flush, Watch, Emptied
  <2> DEFINE t == watch.told \o watch.buffer
             e == IF thrown THEN watch.errors + 1 ELSE watch.errors
  <2>3. t \in Seq(Nat) /\ Len(t) = Len(watch.told) + Len(watch.buffer) /\ e \in Nat /\ << >> \in Seq(Nat)
    BY <1>1
  <2>4. watch' = [watch EXCEPT !.timer = FALSE, !.told = t, !.last = watch.changes, !.buffer = << >>, !.errors = e]
    BY <1>1, <2>2
  <2>5. t = [i \in 1 .. watch.changes |-> i] BY <2>1 DEF WatchInv
  <2>6. t \o << >> = t BY <2>3, ConcatEmptySeq
  <2> HIDE DEF t, e
  <2>7. /\ watch' \in type /\ watch'.disposed = watch.disposed /\ watch'.told = t /\ watch'.buffer = << >>
        /\ watch'.changes = watch.changes
    BY <1>1, <2>3, <2>4
  <2>8. Len(t) + Len(<< >>) = watch.changes BY <1>1, <2>1, <2>3 DEF WatchInv
  <2>9. QED BY <2>1, <2>5, <2>6, <2>7, <2>8 DEF WatchInv
<1>4. CASE Dispose
  <2>1. ~watch.disposed /\ watch' = [watch EXCEPT !.disposed = TRUE, !.timer = FALSE, !.last = watch.changes]
    BY <1>4 DEF Dispose, Watch
  <2>2. /\ watch' \in type /\ watch'.disposed = TRUE /\ watch'.timer = FALSE /\ watch'.told = watch.told
        /\ watch'.last = watch.changes
    BY <1>1, <2>1
  <2>3. Len(watch.told) <= watch.changes BY <1>1, <2>1, LenProperties DEF WatchInv
  <2>4. QED BY <2>2, <2>3 DEF WatchInv
<1>5. CASE WatchClosed BY <1>5, <1>1 DEF WatchClosed, Watch, WatchInv
<1>6. QED BY <1>2, <1>3, <1>4, <1>5 DEF WatchNext

LEMMA ScriptKeeps == ASSUME ScriptInv, ScriptNext PROVE ScriptInv'
BY ScriptRunKeeps, StartsKeeps, ExitsKeeps, WritesKeeps, ReadsPipeKeeps, ClosePipeKeeps, KillKeeps, KillReturnsKeeps DEF ScriptNext

LEMMA ScriptStays == ASSUME ScriptInv, UNCHANGED script PROVE ScriptInv'
BY DEF ScriptInv, ScriptType, ChunksInOrder, ScriptIsSound

LEMMA PortsStay == ASSUME PortsInv, UNCHANGED ports PROVE PortsInv'
BY DEF PortsInv

LEMMA PortsTrue == ASSUME PortsInv PROVE PortsAreTrue
BY DEF PortsInv, PortsAreTrue

LEMMA WatchStays == ASSUME WatchInv, UNCHANGED watch PROVE WatchInv'
BY DEF WatchInv

LEMMA BatchesTrue == ASSUME WatchInv PROVE BatchesAreTrue
BY DEF WatchInv, BatchesAreTrue

-----------------------------------------------------------------------------
(* WorkspaceTools: the context                                             *)

\* Of a call that has its name no other is under way, and the name is still free.
ContextInv ==
    /\ context \in [file : [DOMAIN context.file -> Attachments], name : [Attachments -> Nat],
                    at : [Attachments -> {"none", "failed", "named", "attached"}]]
    /\ DOMAIN context.file \subseteq Nat /\ IsFiniteSet(DOMAIN context.file)
    /\ ~AtOnce => \A a \in Attachments :
          /\ context.at[a] = "attached" => /\ context.name[a] \in DOMAIN context.file
                                           /\ context.file[context.name[a]] = a
          /\ context.at[a] = "named" => /\ context.name[a] \notin DOMAIN context.file
                                        /\ \A b \in Attachments : context.at[b] = "named" => b = a

\* A set of numbers that is not empty has a least one: its initial segments are well-founded.
LEMMA LeastNumber ==
    ASSUME NEW T, T \subseteq Nat, T # {}
    PROVE  \E x \in T : \A y \in T : x <= y
<1> DEFINE order == StrictSubsetOrdering(Nat)
           finite == FiniteSubsetsOf(Nat)
           segments == {0 .. x : x \in T}
<1>1. IsWellFoundedOn(order, finite) BY FS_StrictSubsetOrderingWellFounded
<1>2. segments \subseteq finite /\ segments # {}
  <2>1. \A x \in T : 0 .. x \in SUBSET Nat /\ 0 \in Int /\ x \in Int OBVIOUS
  <2>2. \A x \in T : IsFiniteSet(0 .. x) BY <2>1, FS_Interval
  <2>3. QED BY <2>1, <2>2 DEF FiniteSubsetsOf
<1>3. PICK b \in segments : \A d \in segments : ~(<<d, b>> \in order)
  <2> HIDE DEF order, finite, segments
  <2>1. QED BY <1>1, <1>2, WFMin
<1>4. PICK x \in T : b = 0 .. x BY <1>3
<1>5. ASSUME NEW y \in T, y < x PROVE FALSE
  <2>1. 0 .. y \in SUBSET Nat /\ 0 .. x \in SUBSET Nat /\ 0 .. y \subseteq 0 .. x /\ 0 .. y # 0 .. x BY <1>5
  <2>2. <<0 .. y, 0 .. x>> \in order BY <2>1 DEF StrictSubsetOrdering
  <2>3. QED BY <1>3, <1>4, <2>2
<1>6. QED BY <1>5

\* Of the first numbers, one more than there are names, the least that is no name is found.
LEMMA UnusedIsUnused ==
    ASSUME NEW names, names \subseteq Nat, IsFiniteSet(names)
    PROVE  Unused(names) \in Nat /\ Unused(names) \notin names
<1> DEFINE k == Cardinality(names)
           free == {n \in 1 .. k + 1 : n \notin names}
<1>1. k \in Nat BY FS_CardinalityType
<1>2. IsFiniteSet(1 .. k + 1) /\ Cardinality(1 .. k + 1) = k + 1
  <2>1. 1 \in Int /\ k + 1 \in Int /\ ~(1 > k + 1) /\ (k + 1) - 1 + 1 = k + 1 BY <1>1
  <2> HIDE DEF k
  <2>2. QED BY <2>1, FS_Interval
<1>3. ~(1 .. k + 1 \subseteq names)
  <2>1. SUFFICES ASSUME 1 .. k + 1 \in SUBSET names PROVE FALSE OBVIOUS
  <2>2. Cardinality(1 .. k + 1) <= Cardinality(names) BY <2>1, FS_Subset
  <2>3. QED BY <1>1, <1>2, <2>2
<1> HIDE DEF k
<1>4. free \subseteq Nat /\ free # {} BY <1>1, <1>3
<1>5. PICK n \in free : \A m \in free : n <= m
  <2> HIDE DEF free
  <2>1. QED BY <1>4, LeastNumber
<1>6. \A m \in 1 .. n - 1 : m \in names
  <2>1. ASSUME NEW m \in 1 .. n - 1, m \notin names PROVE FALSE BY <1>1, <2>1, <1>5
  <2>2. QED BY <2>1
<1>7. \E i \in 1 .. k + 1 : i \notin names /\ \A m \in 1 .. i - 1 : m \in names BY <1>6
<1>8. Unused(names) \in 1 .. k + 1 /\ Unused(names) \notin names BY <1>7 DEF Unused, k
<1>9. QED BY <1>1, <1>8

LEMMA ContextInitially == ASSUME context = NoContext PROVE ContextInv
<1>1. /\ context.file = << >> /\ context.name = [a \in Attachments |-> 0] /\ context.at = [a \in Attachments |-> "none"]
      /\ DOMAIN << >> = {}
  BY DEF NoContext
<1>2. IsFiniteSet({}) /\ << >> \in [{} -> Attachments] BY FS_EmptySet
<1>3. context \in [file : [DOMAIN context.file -> Attachments], name : [Attachments -> Nat],
                    at : [Attachments -> {"none", "failed", "named", "attached"}]]
  BY <1>1, <1>2 DEF NoContext
<1>4. QED BY <1>1, <1>2, <1>3 DEF ContextInv

LEMMA ContextKeeps == ASSUME ContextInv, ContextNext PROVE ContextInv'
<1> DEFINE Places == {"none", "failed", "named", "attached"}
<1>1. /\ context.file \in [DOMAIN context.file -> Attachments] /\ context.name \in [Attachments -> Nat]
      /\ context.at \in [Attachments -> Places] /\ DOMAIN context.file \subseteq Nat /\ IsFiniteSet(DOMAIN context.file)
  BY DEF ContextInv
<1>2. ASSUME NEW a \in Attachments, context.at[a] = "none", context' = [context EXCEPT !.at[a] = "failed"] PROVE ContextInv'
  BY <1>1, <1>2 DEF ContextInv
<1>3. ASSUME NEW a \in Attachments, AtOnce \/ (\A b \in Attachments : context.at[b] # "named"),
             context' = [context EXCEPT !.at[a] = "named", !.name[a] = Chosen(DOMAIN context.file)], context.at[a] = "none"
      PROVE  ContextInv'
  <2> DEFINE n == Chosen(DOMAIN context.file)
  <2>1. n \in Nat /\ n \notin DOMAIN context.file BY <1>1, UnusedIsUnused DEF Chosen
  <2> HIDE DEF n
  <2>2. context' = [context EXCEPT !.at[a] = "named", !.name[a] = n] BY <1>3 DEF n
  <2>3. /\ context'.file = context.file /\ context'.name[a] = n /\ context'.at[a] = "named"
        /\ \A b \in Attachments : b # a => context'.at[b] = context.at[b] /\ context'.name[b] = context.name[b]
    BY <1>1, <2>2 DEF ContextInv
  <2>4. context' \in [file : [DOMAIN context'.file -> Attachments], name : [Attachments -> Nat], at : [Attachments -> Places]]
    BY <1>1, <2>1, <2>2 DEF ContextInv
  <2>5. ASSUME ~AtOnce, NEW b \in Attachments, context'.at[b] = "named" PROVE b = a BY <1>3, <2>3, <2>5
  <2>6. ASSUME ~AtOnce, NEW b \in Attachments, context'.at[b] = "attached"
        PROVE  context'.name[b] \in DOMAIN context'.file /\ context'.file[context'.name[b]] = b
    BY <2>3, <2>6 DEF ContextInv
  <2>7. QED BY <1>1, <2>1, <2>3, <2>4, <2>5, <2>6 DEF ContextInv
<1>4. ASSUME NEW a \in Attachments, Copies(a) PROVE ContextInv'
  <2> DEFINE n == context.name[a]
             f == [m \in DOMAIN context.file \cup {n} |-> IF m = n THEN a ELSE context.file[m]]
  <2>1. context.at[a] = "named" /\ context' = [context EXCEPT !.at[a] = "attached", !.file = f]
    BY <1>1, <1>4 DEF Copies, Context, ContextInv
  <2>2. n \in Nat BY <1>1
  <2>3. f \in [DOMAIN context.file \cup {n} -> Attachments] /\ IsFiniteSet(DOMAIN context.file \cup {n})
    BY <1>1, FS_AddElement
  <2>4. DOMAIN f = DOMAIN context.file \cup {n} /\ f[n] = a /\ \A m \in DOMAIN context.file : m # n => f[m] = context.file[m]
    OBVIOUS
  <2> HIDE DEF f
  <2>5. /\ context'.file = f /\ context'.name = context.name /\ context'.at[a] = "attached"
        /\ \A b \in Attachments : b # a => context'.at[b] = context.at[b]
    BY <1>1, <2>1 DEF ContextInv
  <2>6. context' \in [file : [DOMAIN context'.file -> Attachments], name : [Attachments -> Nat], at : [Attachments -> Places]]
    BY <1>1, <2>1, <2>3, <2>4 DEF ContextInv
  <2>7. ASSUME ~AtOnce, NEW b \in Attachments, context'.at[b] = "attached"
        PROVE  context'.name[b] \in DOMAIN context'.file /\ context'.file[context'.name[b]] = b
    <3>1. CASE b = a BY <2>4, <2>5, <3>1
    <3>2. CASE b # a BY <2>5, <2>7, <3>2, <2>1, <2>4 DEF ContextInv
    <3>3. QED BY <3>1, <3>2
  <2>8. ASSUME ~AtOnce, NEW b \in Attachments, context'.at[b] = "named" PROVE FALSE
    BY <2>1, <2>5, <2>8 DEF ContextInv
  <2>9. DOMAIN context'.file \subseteq Nat /\ IsFiniteSet(DOMAIN context'.file) BY <1>1, <2>2, <2>3, <2>4, <2>5
  <2>10. QED BY <2>6, <2>7, <2>8, <2>9 DEF ContextInv
<1>5. PICK a \in Attachments : Attach(a) \/ Copies(a) BY DEF ContextNext
<1>6. CASE Attach(a) BY <1>2, <1>3, <1>6 DEF Attach, Context
<1>7. QED BY <1>4, <1>5, <1>6

LEMMA ContextStays == ASSUME ContextInv, UNCHANGED context PROVE ContextInv'
BY DEF ContextInv

LEMMA ContextTrue == ASSUME ContextInv, ~AtOnce PROVE AttachedStays
BY DEF ContextInv, AttachedStays

-----------------------------------------------------------------------------
(* WorkspaceTools: the sources                                             *)

Place == [source : BOOLEAN, whole : BOOLEAN, at : Things, inside : BOOLEAN]
SourcesType ==
    [place : [Entries -> Place], op : {"none", "copy", "link"}, wanted : SUBSET Entries, todo : SUBSET Entries,
     checked : SUBSET Entries, skipped : SUBSET Entries, at : {"none", "working", "done", "failed"}]

\* What is no longer to be done has been done, or was left out.
SourcesInv ==
    /\ sources \in SourcesType
    /\ ~UnderLinks => \A e \in Entries : sources.place[e].whole
    /\ ~UnderLinks /\ sources.at \in {"working", "done"} =>
          \A e \in sources.wanted \ (sources.todo \cup sources.skipped) : sources.place[e].at \in {"file", "link to the source"}
    /\ sources.at = "done" => sources.todo = {}

LEMMA SourcesInitially ==
    ASSUME NEW thing \in [Entries -> Things], NEW inside \in [Entries -> BOOLEAN], NEW source \in [Entries -> BOOLEAN],
           sources = [NoSources EXCEPT !.place =
              [e \in Entries |-> [source |-> source[e], whole |-> TRUE, at |-> thing[e], inside |-> inside[e]]]]
    PROVE  SourcesInv
<1> DEFINE place == [e \in Entries |-> [source |-> source[e], whole |-> TRUE, at |-> thing[e], inside |-> inside[e]]]
<1>1. place \in [Entries -> Place] /\ \A e \in Entries : place[e].whole = TRUE BY DEF Place
<1>2. sources = [place |-> place, op |-> "none", wanted |-> {}, todo |-> {}, checked |-> {}, skipped |-> {}, at |-> "none"]
  BY DEF NoSources
<1> HIDE DEF place
<1>3. sources \in SourcesType
  <2>1. [place |-> place, op |-> "none", wanted |-> {}, todo |-> {}, checked |-> {}, skipped |-> {}, at |-> "none"] \in SourcesType
    BY <1>1 DEF SourcesType
  <2>2. QED BY <1>2, <2>1, Zenon
<1>4. sources.place = place /\ sources.at = "none" BY <1>2
<1>5. QED BY <1>1, <1>3, <1>4 DEF SourcesInv

\* A step that leaves what the source and the workspace have.
LEMMA SourcesSteps ==
    ASSUME SourcesInv, NEW new \in SourcesType, sources' = new, new.place = sources.place,
           ~UnderLinks /\ new.at \in {"working", "done"} =>
              \A e \in new.wanted \ (new.todo \cup new.skipped) : sources.place[e].at \in {"file", "link to the source"},
           new.at = "done" => new.todo = {}
    PROVE  SourcesInv'
BY DEF SourcesInv

\* A step that changes one place, and may end the call or take the entry off its list.
LEMMA PlaceSteps ==
    ASSUME SourcesInv, NEW e \in Entries, NEW now \in Place, NEW new \in SourcesType, sources' = new,
           new.place = [sources.place EXCEPT ![e] = now],
           ~UnderLinks => now.whole, new.wanted = sources.wanted, new.skipped = sources.skipped,
           \/ new.at = "failed"
           \/ /\ sources.at = "working" /\ new.at = "working"
              /\ \/ new.todo = sources.todo /\ now.at = sources.place[e].at
                 \/ new.todo = sources.todo \ {e} /\ (UnderLinks \/ now.at \in {"file", "link to the source"})
    PROVE  SourcesInv'
<1>1. sources.place \in [Entries -> Place] BY DEF SourcesInv, SourcesType
<1>2. new.place[e] = now /\ \A d \in Entries : d # e => new.place[d] = sources.place[d] BY <1>1
<1>3. sources.wanted \subseteq Entries BY DEF SourcesInv, SourcesType
<1>4. ~UnderLinks => \A d \in Entries : new.place[d].whole BY <1>2 DEF SourcesInv
<1>5. ASSUME ~UnderLinks, new.at # "failed", NEW d \in new.wanted \ (new.todo \cup new.skipped)
      PROVE  new.place[d].at \in {"file", "link to the source"}
  BY <1>2, <1>3, <1>5 DEF SourcesInv
<1>6. QED BY <1>4, <1>5 DEF SourcesInv

LEMMA SourcesKeep == ASSUME SourcesInv, SourcesNext PROVE SourcesInv'
<1>1. /\ sources \in SourcesType /\ sources.place \in [Entries -> Place]
      /\ sources.wanted \subseteq Entries /\ sources.todo \subseteq Entries /\ sources.skipped \subseteq Entries
  BY DEF SourcesInv, SourcesType
<1>2. ASSUME NEW op \in {"copy", "link"}, FromSource(op) PROVE SourcesInv'
  <2> DEFINE wanted == IF op = "copy" THEN {e \in Entries : sources.place[e].source} ELSE Entries
             new == [sources EXCEPT !.at = "working", !.op = op, !.wanted = wanted, !.todo = wanted]
  <2>1. sources' = new BY <1>2 DEF FromSource, Sources
  <2>2. wanted \in SUBSET Entries OBVIOUS
  <2> HIDE DEF wanted
  <2>3. new \in SourcesType /\ new.place = sources.place /\ new.at = "working" /\ new.wanted = wanted /\ new.todo = wanted
    BY <1>1, <2>2 DEF SourcesType
  <2> HIDE DEF new
  <2>4. QED BY <2>1, <2>3, SourcesSteps
<1>3. CASE Applied
  <2> DEFINE new == [sources EXCEPT !.at = "done"]
  <2>1. sources' = new /\ sources.at = "working" /\ sources.todo = {} BY <1>3 DEF Applied, Sources
  <2>2. /\ new \in SourcesType /\ new.place = sources.place /\ new.at = "done" /\ new.wanted = sources.wanted
        /\ new.todo = {} /\ new.skipped = sources.skipped
    BY <1>1, <2>1 DEF SourcesType
  <2> HIDE DEF new
  <2>3. ~UnderLinks => \A e \in new.wanted \ (new.todo \cup new.skipped) : sources.place[e].at \in {"file", "link to the source"}
    BY <2>1, <2>2 DEF SourcesInv
  <2>4. QED BY <2>1, <2>2, <2>3, SourcesSteps
<1>4. ASSUME NEW e \in Entries, SkippedOutside(e) PROVE SourcesInv'
  <2> DEFINE new == [sources EXCEPT !.todo = sources.todo \ {e}, !.skipped = sources.skipped \cup {e}]
  <2>1. sources' = new /\ sources.at = "working" BY <1>4 DEF SkippedOutside, Sources
  <2>2. /\ new \in SourcesType /\ new.place = sources.place /\ new.at = "working" /\ new.wanted = sources.wanted
        /\ new.todo = sources.todo \ {e} /\ new.skipped = sources.skipped \cup {e}
    BY <1>1, <2>1 DEF SourcesType
  <2> HIDE DEF new
  <2>3. ~UnderLinks => \A d \in new.wanted \ (new.todo \cup new.skipped) : sources.place[d].at \in {"file", "link to the source"}
    BY <2>1, <2>2 DEF SourcesInv
  <2>4. QED BY <2>1, <2>2, <2>3, SourcesSteps
<1>5. ASSUME NEW e \in Entries, FindsSource(e) PROVE SourcesInv'
  <2> DEFINE new == IF sources.place[e].source THEN [sources EXCEPT !.checked = {e}] ELSE [sources EXCEPT !.at = "failed"]
  <2>1. sources' = new /\ sources.at = "working" BY <1>5 DEF FindsSource, Sources
  <2>2. /\ new \in SourcesType /\ new.place = sources.place /\ new.at \in {"working", "failed"}
        /\ new.wanted = sources.wanted /\ new.todo = sources.todo /\ new.skipped = sources.skipped
    BY <1>1, <2>1 DEF SourcesType
  <2> HIDE DEF new
  <2>3. ~UnderLinks => \A d \in new.wanted \ (new.todo \cup new.skipped) : sources.place[d].at \in {"file", "link to the source"}
    BY <2>1, <2>2 DEF SourcesInv
  <2>4. QED BY <2>1, <2>2, <2>3, SourcesSteps
<1>6. ASSUME NEW e \in Entries, Applies(e) PROVE SourcesInv'
  <2> DEFINE place == sources.place[e]
             there == Cleared(place.at)
             own == place.at = "the source's"
             gone == sources.op = "copy" /\ (own \/ ~place.source)
             done == [sources EXCEPT !.todo = @ \ {e}, !.checked = {}]
             through == own \/ (there = "link to the source" /\ sources.op = "copy")
             what == IF sources.op = "copy" THEN "file" ELSE "link to the source"
  <2>1. place \in Place /\ place.at \in Things /\ place.whole \in BOOLEAN /\ place.source \in BOOLEAN /\ sources.at = "working"
    BY <1>1, <1>6 DEF Applies, Place
  <2>2. there \in {"none", "directory"} /\ own \in BOOLEAN /\ (~UnderLinks => ~own /\ place.whole)
    BY <1>1, <2>1 DEF Cleared, Things, SourcesInv
  <2>3. "none" \in Things /\ "directory" \in Things /\ "file" \in Things /\ "link to the source" \in Things
    BY DEF Things
  <2>4. sources' = CASE there = "directory" -> [sources EXCEPT !.at = "failed"]
                     [] there # "directory" /\ gone ->
                            [sources EXCEPT !.at = "failed", !.place[e].at = there, !.place[e].whole = ~own]
                     [] there # "directory" /\ ~gone /\ through -> [done EXCEPT !.place[e].whole = FALSE]
                     [] there # "directory" /\ ~gone /\ ~through ->
                            [done EXCEPT !.place[e].at = IF sources.op = "copy" THEN "file" ELSE "link to the source"]
    BY <1>6, Zenon DEF Applies, Sources
  <2>5. /\ done \in SourcesType /\ done.place = sources.place /\ done.at = sources.at
        /\ done.wanted = sources.wanted /\ done.skipped = sources.skipped /\ done.todo = sources.todo \ {e}
    BY <1>1 DEF SourcesType
  <2>6. through <=> own BY <2>2
  <2> HIDE DEF gone, there, own, done, place, through
  <2>7. ASSUME NEW new \in SourcesType, new.place = sources.place, new.wanted = sources.wanted, new.skipped = sources.skipped,
               NEW now \in Place, ~UnderLinks => now.whole, sources' = [new EXCEPT !.place = [sources.place EXCEPT ![e] = now]],
               \/ new.at = "failed"
               \/ /\ new.at = "working" /\ new.todo = sources.todo \ {e}
                  /\ UnderLinks \/ now.at \in {"file", "link to the source"}
        PROVE  SourcesInv'
    <3> DEFINE last == [new EXCEPT !.place = [sources.place EXCEPT ![e] = now]]
    <3>1. [sources.place EXCEPT ![e] = now] \in [Entries -> Place] BY <1>1, <2>7
    <3>2. /\ last \in SourcesType /\ last.at = new.at /\ last.wanted = new.wanted /\ last.skipped = new.skipped
          /\ last.todo = new.todo /\ last.place = [sources.place EXCEPT ![e] = now]
      BY <2>7, <3>1 DEF SourcesType
    <3>3. sources' = last BY <2>7
    <3>4. \/ last.at = "failed"
          \/ /\ sources.at = "working" /\ last.at = "working"
             /\ \/ last.todo = sources.todo /\ now.at = sources.place[e].at
                \/ last.todo = sources.todo \ {e} /\ (UnderLinks \/ now.at \in {"file", "link to the source"})
      BY <2>1, <2>7, <3>2
    <3>5. last.wanted = sources.wanted /\ last.skipped = sources.skipped /\ last \in SourcesType BY <2>7, <3>2
    <3> HIDE DEF last
    <3>6. QED BY <2>7, <3>2, <3>3, <3>4, <3>5, PlaceSteps
  <2>8. CASE there = "directory"
    <3> DEFINE new == [sources EXCEPT !.at = "failed"]
    <3>1. sources' = new BY <2>4, <2>8
    <3>2. new \in SourcesType /\ new.place = sources.place /\ new.at = "failed" BY <1>1 DEF SourcesType
    <3> HIDE DEF new
    <3>3. QED BY <3>1, <3>2, SourcesSteps
  <2>9. CASE there = "none" /\ gone
    <3> DEFINE new == [sources EXCEPT !.at = "failed"]
               now == [place EXCEPT !.at = there, !.whole = ~own]
    <3>1. new \in SourcesType /\ new.place = sources.place /\ new.at = "failed" /\ new.wanted = sources.wanted /\ new.skipped = sources.skipped
      BY <1>1 DEF SourcesType
    <3>2. sources' = [sources EXCEPT !.at = "failed", !.place[e].at = there, !.place[e].whole = ~own]
      BY <2>4, <2>9
    <3>3. there \in Things /\ (~own) \in BOOLEAN BY <2>2, <2>3
    <3>4. now \in Place /\ now.whole = ~own BY <2>1, <3>3 DEF Place
    <3>5. sources' = [new EXCEPT !.place = [sources.place EXCEPT ![e] = now]]
      BY <1>1, <2>1, <3>2 DEF SourcesType, Place, place
    <3> HIDE DEF new, now
    <3>6. QED BY <2>2, <2>7, <3>1, <3>4, <3>5
  <2>10. CASE there = "none" /\ ~gone /\ own
    <3> DEFINE now == [place EXCEPT !.whole = FALSE]
    <3>1. sources' = [done EXCEPT !.place[e].whole = FALSE] BY <2>4, <2>10, <2>6
    <3>2. now \in Place BY <2>1 DEF Place
    <3>3. sources' = [done EXCEPT !.place = [sources.place EXCEPT ![e] = now]]
      BY <1>1, <2>1, <2>5, <3>1 DEF SourcesType, Place, place
    <3>4. UnderLinks BY <2>2, <2>10
    <3> HIDE DEF now
    <3>5. QED BY <2>1, <2>5, <2>7, <3>2, <3>3, <3>4
  <2>11. CASE there = "none" /\ ~gone /\ ~own
    <3> DEFINE now == [place EXCEPT !.at = what]
    <3>1. sources' = [done EXCEPT !.place[e].at = what] BY <2>4, <2>11, <2>6
    <3>2. what \in Things /\ what \in {"file", "link to the source"} BY <2>3
    <3> HIDE DEF what
    <3>3. now \in Place /\ now.at = what /\ now.whole = place.whole BY <2>1, <3>2 DEF Place
    <3>4. sources' = [done EXCEPT !.place = [sources.place EXCEPT ![e] = now]]
      BY <1>1, <2>1, <2>5, <3>1 DEF SourcesType, Place, place
    <3> HIDE DEF now
    <3>5. QED BY <2>1, <2>2, <2>5, <2>7, <3>2, <3>3, <3>4
  <2>12. QED BY <2>2, <2>8, <2>9, <2>10, <2>11
<1>7. ASSUME NEW e \in Entries, SourceGoes(e) PROVE SourcesInv'
  <2> DEFINE new == [sources EXCEPT !.place[e].source = FALSE]
             place == sources.place[e]
             now == [place EXCEPT !.source = FALSE]
  <2>1. place \in Place /\ sources.at = "working" BY <1>1, <1>7 DEF SourceGoes
  <2>2. sources' = new BY <1>7 DEF SourceGoes, Sources
  <2>3. new.place = [sources.place EXCEPT ![e] = now] BY <1>1, <2>1 DEF SourcesType, Place
  <2>4. now \in Place /\ now.at = place.at /\ now.whole = place.whole BY <2>1 DEF Place
  <2>5. ~UnderLinks => place.whole BY DEF SourcesInv
  <2> HIDE DEF now
  <2>6. [sources.place EXCEPT ![e] = now] \in [Entries -> Place] BY <1>1, <2>4
  <2>7. /\ new \in SourcesType /\ new.at = "working" /\ new.wanted = sources.wanted /\ new.skipped = sources.skipped
        /\ new.todo = sources.todo
    BY <1>1, <2>1, <2>3, <2>6 DEF SourcesType
  <2>8. \/ new.at = "failed"
        \/ /\ sources.at = "working" /\ new.at = "working"
           /\ \/ new.todo = sources.todo /\ now.at = sources.place[e].at
              \/ new.todo = sources.todo \ {e} /\ (UnderLinks \/ now.at \in {"file", "link to the source"})
    BY <2>1, <2>4, <2>7
  <2>9. new \in SourcesType /\ new.wanted = sources.wanted /\ new.skipped = sources.skipped BY <2>7
  <2>10. ~UnderLinks => now.whole BY <2>4, <2>5
  <2> HIDE DEF new
  <2>11. QED BY <2>2, <2>3, <2>4, <2>8, <2>9, <2>10, PlaceSteps
<1>8. QED BY <1>2, <1>3, <1>4, <1>5, <1>6, <1>7 DEF SourcesNext

LEMMA SourcesStay == ASSUME SourcesInv, UNCHANGED sources PROVE SourcesInv'
BY DEF SourcesInv, SourcesType

LEMMA SourcesTrue == ASSUME SourcesInv, ~UnderLinks PROVE SourceIsSafe
BY DEF SourcesInv, SourceIsSafe

-----------------------------------------------------------------------------
(* WorkspaceTools: the theorem                                             *)

ToolsInv == ScriptInv /\ PortsInv /\ WatchInv /\ ContextInv /\ SourcesInv

LEMMA ToolsInitially == ASSUME ToolsInit PROVE ToolsInv
<1>1. ScriptInv /\ PortsInv /\ WatchInv /\ ContextInv
  BY ScriptInitially, PortsInitially, WatchInitially, ContextInitially DEF ToolsInit
<1>2. PICK thing \in [Entries -> Things], inside \in [Entries -> BOOLEAN], source \in [Entries -> BOOLEAN] :
          sources = [NoSources EXCEPT !.place =
              [e \in Entries |-> [source |-> source[e], whole |-> TRUE, at |-> thing[e], inside |-> inside[e]]]]
  BY Zenon DEF ToolsInit
<1>3. SourcesInv BY <1>2, SourcesInitially
<1>4. QED BY <1>1, <1>3 DEF ToolsInv

\* What a step of one does to the others.
LEMMA ToolsStepApart ==
    /\ ScriptNext => UNCHANGED <<ports, watch, context, sources>>
    /\ PortsNext => UNCHANGED <<script, watch, context, sources>>
    /\ WatchNext => UNCHANGED <<script, ports, context, sources>>
    /\ ContextNext => UNCHANGED <<script, ports, watch, sources>>
    /\ SourcesNext => UNCHANGED <<script, ports, watch, context>>
<1>1. ScriptNext => UNCHANGED <<ports, watch, context, sources>>
  BY DEF ScriptNext, RunScript, Starts, Exits, Writes, ReadsPipe, ClosePipe, Kill, KillReturns, Script
<1>2. PortsNext => UNCHANGED <<script, watch, context, sources>>
  BY DEF PortsNext, Allocate, Probes, ProbeFails, Settles, Release, PortsTo
<1>3. WatchNext => UNCHANGED <<script, ports, context, sources>>
  BY DEF WatchNext, Schedule, Flush, Dispose, WatchClosed, Watch
<1>4. ContextNext => UNCHANGED <<script, ports, watch, sources>> BY DEF ContextNext, Attach, Copies, Context
<1>5. SourcesNext => UNCHANGED <<script, ports, watch, context>>
  BY DEF SourcesNext, FromSource, Applied, SkippedOutside, FindsSource, Applies, SourceGoes, Sources
<1>6. QED BY <1>1, <1>2, <1>3, <1>4, <1>5

LEMMA ToolsKeep == ASSUME ToolsInv, [ToolsNext]_toolVars PROVE ToolsInv'
<1>1. ScriptInv /\ PortsInv /\ WatchInv /\ ContextInv /\ SourcesInv BY DEF ToolsInv
<1>2. CASE ScriptNext
  BY <1>1, <1>2, ToolsStepApart, ScriptKeeps, PortsStay, WatchStays, ContextStays, SourcesStay DEF ToolsInv
<1>3. CASE PortsNext
  BY <1>1, <1>3, ToolsStepApart, ScriptStays, PortsKeep, WatchStays, ContextStays, SourcesStay DEF ToolsInv
<1>4. CASE WatchNext
  BY <1>1, <1>4, ToolsStepApart, ScriptStays, PortsStay, WatchKeeps, ContextStays, SourcesStay DEF ToolsInv
<1>5. CASE ContextNext
  BY <1>1, <1>5, ToolsStepApart, ScriptStays, PortsStay, WatchStays, ContextKeeps, SourcesStay DEF ToolsInv
<1>6. CASE SourcesNext
  BY <1>1, <1>6, ToolsStepApart, ScriptStays, PortsStay, WatchStays, ContextStays, SourcesKeep DEF ToolsInv
<1>7. CASE UNCHANGED toolVars
  BY <1>1, <1>7, ScriptStays, PortsStay, WatchStays, ContextStays, SourcesStay DEF ToolsInv, toolVars
<1>8. QED BY <1>2, <1>3, <1>4, <1>5, <1>6, <1>7 DEF ToolsNext

LEMMA ToolsAlwaysSound == ToolsSpec => []ToolsInv
<1>1. ToolsInit => ToolsInv BY ToolsInitially
<1>2. ToolsInv /\ [ToolsNext]_toolVars => ToolsInv' BY ToolsKeep
<1>3. QED BY <1>1, <1>2, PTL DEF ToolsSpec

\* For any number of processes, calls, ports, changes, attachments and paths: what a script writes
\* comes and only that, before its stream ends; no allocation keeps a socket or has fewer ports than
\* it asked for; every change is told once and in order; an attachment is found under the name that
\* was returned; the source is left whole.  As long as the shell of a script outlives what it
\* started, attachments of one name come one after the other, and no path is in a folder that was
\* linked (scripts.ts 69-124, ports.ts 43-67, watch.ts 52-91, context.ts 26-68, from-source.ts 20-109).
THEOREM ToolsStayTrue == ASSUME ~LeaderFirst, ~AtOnce, ~UnderLinks PROVE ToolsSpec => []ToolsAreTrue
<1>1. ToolsInv => ToolsAreTrue
  BY ScriptIsTrue, PortsTrue, BatchesTrue, ContextTrue, SourcesTrue DEF ToolsInv, ToolsAreTrue
<1>2. QED BY <1>1, ToolsAlwaysSound, PTL

\* Whatever the three are: the ports and the batches are true.
THEOREM PortsAndBatchesStayTrue == ToolsSpec => [](PortsAreTrue /\ BatchesAreTrue)
<1>1. ToolsInv => PortsAreTrue /\ BatchesAreTrue BY PortsTrue, BatchesTrue DEF ToolsInv
<1>2. QED BY <1>1, ToolsAlwaysSound, PTL

-----------------------------------------------------------------------------
(* InstalledFiles: the links to skills                                     *)

SkillCallType ==
    [op : {"none", "install", "remove", "legacy", "ended"}, dirs : SUBSET Skills, replace : BOOLEAN, any : BOOLEAN,
     todo : SUBSET (Skills \cup Names), at : {"none", "next", "dead", "look", "link", "compare", "unlink"},
     of : Skills \cup {Nothing}]

LinksType ==
    /\ links \in [Names -> Skills \cup {Nothing, Folder, Elsewhere}]
    /\ kept \in SUBSET Skills
    /\ skillCalls \in [SkillCalls -> SkillCallType]

\* What a call works on is one of what it was called for.
SkillCallIsSound(call) ==
    /\ call.op \in {"install", "remove"} => call.todo \subseteq call.dirs
    /\ call.op = "legacy" => call.todo \subseteq Names
    /\ call.at \in {"dead", "look", "link"} => call.op = "install" /\ call.of \in Skills
    /\ call.at = "compare" => call.op = "remove" /\ call.of \in call.dirs
    /\ call.at = "unlink" => /\ call.op \in {"install", "remove", "legacy"} /\ call.of \in Skills
                             /\ call.op = "legacy" => NameOf[call.of] \in call.todo

Awaits(call, n) == call.at = "unlink" /\ (NameOf[call.of] = n \/ (call.op = "legacy" /\ n \in call.todo))
MayTake(call, thing, left) ==
    \/ thing = Nothing
    \/ call.op # "install" /\ thing \in call.dirs
    \/ call.op # "remove" /\ thing \in Skills \ left

\* What a call is about to unlink is still what it may take, or it has gone.
LinksInv ==
    /\ LinksType
    /\ \A n \in Names : links[n] \in Skills => NameOf[links[n]] = n
    /\ \A c \in SkillCalls : SkillCallIsSound(skillCalls[c])
    /\ \A c \in SkillCalls, n \in Names : Awaits(skillCalls[c], n) => MayTake(skillCalls[c], links[n], kept)

LEMMA NamesOfSkills == \A s \in Skills : NameOf[s] \in Names /\ s \notin {Nothing, Folder, Elsewhere}
BY InstalledAssumption DEF Names, Nothing, Folder, Elsewhere

\* A step of a call that leaves what is in the folder.
LEMMA SkillCallSteps ==
    ASSUME LinksInv, NEW c \in SkillCalls, NEW call \in SkillCallType, SkillCall(c, call), UNCHANGED links,
           SkillCallIsSound(call), \A n \in Names : Awaits(call, n) => MayTake(call, links[n], kept)
    PROVE  LinksInv'
<1>1. /\ skillCalls \in [SkillCalls -> SkillCallType] /\ skillCalls' = [skillCalls EXCEPT ![c] = call]
      /\ links' = links /\ kept' = kept
  BY DEF LinksInv, LinksType, SkillCall
<1>2. /\ skillCalls' \in [SkillCalls -> SkillCallType] /\ skillCalls'[c] = call
      /\ \A d \in SkillCalls : d # c => skillCalls'[d] = skillCalls[d]
  BY <1>1
<1>3. LinksType' BY <1>1, <1>2 DEF LinksInv, LinksType
<1>4. \A d \in SkillCalls : SkillCallIsSound(skillCalls'[d]) BY <1>2 DEF LinksInv
<1>5. \A d \in SkillCalls, n \in Names : Awaits(skillCalls'[d], n) => MayTake(skillCalls'[d], links'[n], kept')
  BY <1>1, <1>2 DEF LinksInv
<1>6. QED BY <1>1, <1>3, <1>4, <1>5 DEF LinksInv, LinksType

LEMMA SkillCallTypes ==
    ASSUME LinksInv, NEW c \in SkillCalls
    PROVE  /\ skillCalls[c] \in SkillCallType /\ SkillCallIsSound(skillCalls[c])
           /\ links \in [Names -> Skills \cup {Nothing, Folder, Elsewhere}]
           /\ \A n \in Names : Awaits(skillCalls[c], n) => MayTake(skillCalls[c], links[n], kept)
BY DEF LinksInv, LinksType

LEMMA NextIsSound ==
    ASSUME NEW call \in SkillCallType, SkillCallIsSound(call)
    PROVE  Next1(call) \in SkillCallType /\ SkillCallIsSound(Next1(call)) /\ \A n : ~Awaits(Next1(call), n)
BY DEF SkillCallType, SkillCallIsSound, Next1, Awaits

LEMMA CallsSkillsKeeps == ASSUME LinksInv, NEW c \in SkillCalls, CallsSkills(c) PROVE LinksInv'
<1>1. PICK op \in {"install", "remove", "legacy"}, dirs \in Asked, replace \in BOOLEAN, any \in BOOLEAN :
          SkillCall(c, [NoSkillCall EXCEPT !.op = op, !.dirs = dirs, !.replace = replace, !.any = any, !.at = "next",
                              !.todo = IF op = "legacy" THEN Names ELSE dirs])
  BY DEF CallsSkills
<1> DEFINE todo == IF op = "legacy" THEN Names ELSE dirs
           call == [NoSkillCall EXCEPT !.op = op, !.dirs = dirs, !.replace = replace, !.any = any, !.at = "next", !.todo = todo]
<1>2. dirs \in SUBSET Skills BY InstalledAssumption
<1>3. todo \in SUBSET (Skills \cup Names) /\ (op = "legacy" => todo = Names) /\ (op # "legacy" => todo = dirs)
  BY <1>2
<1>4. SkillCall(c, call) /\ UNCHANGED links BY <1>1 DEF CallsSkills
<1> HIDE DEF todo
<1>5. call \in SkillCallType /\ call.at = "next" /\ call.op = op /\ call.todo = todo /\ call.dirs = dirs
  BY <1>2, <1>3 DEF NoSkillCall, SkillCallType
<1> HIDE DEF call
<1>6. SkillCallIsSound(call) /\ \A n \in Names : ~Awaits(call, n) BY <1>3, <1>5 DEF SkillCallIsSound, Awaits
<1>7. QED BY <1>4, <1>5, <1>6, SkillCallSteps

LEMMA TakesSkillKeeps == ASSUME LinksInv, NEW c \in SkillCalls, TakesSkill(c) PROVE LinksInv'
<1> DEFINE old == skillCalls[c]
<1>1. old \in SkillCallType /\ SkillCallIsSound(old) /\ old.op \in {"install", "remove"}
  BY SkillCallTypes DEF TakesSkill
<1>2. PICK s \in old.todo :
          SkillCall(c, [old EXCEPT !.todo = @ \ {s}, !.of = s,
                            !.at = IF old.op = "remove" THEN "compare" ELSE IF old.replace THEN "dead" ELSE "look"])
  BY DEF TakesSkill
<1> DEFINE at == IF old.op = "remove" THEN "compare" ELSE IF old.replace THEN "dead" ELSE "look"
           call == [old EXCEPT !.todo = old.todo \ {s}, !.of = s, !.at = at]
<1>3. old.todo \subseteq old.dirs /\ old.dirs \subseteq Skills /\ s \in Skills /\ s \in old.dirs
  BY <1>1 DEF SkillCallIsSound, SkillCallType
<1>4. at \in {"compare", "dead", "look"} /\ (at = "compare" <=> old.op = "remove") OBVIOUS
<1>5. SkillCall(c, call) /\ UNCHANGED links BY <1>2 DEF TakesSkill
<1> HIDE DEF at
<1>6. /\ call \in SkillCallType /\ call.at = at /\ call.op = old.op /\ call.todo = old.todo \ {s} /\ call.dirs = old.dirs
      /\ call.of = s
  BY <1>1, <1>3, <1>4 DEF SkillCallType
<1> HIDE DEF call
<1>7. SkillCallIsSound(call) /\ \A n \in Names : ~Awaits(call, n)
  BY <1>1, <1>3, <1>4, <1>6 DEF SkillCallIsSound, Awaits
<1> HIDE DEF old
<1>8. QED BY <1>5, <1>6, <1>7, SkillCallSteps

LEMMA LooksForDeadKeeps == ASSUME LinksInv, NEW c \in SkillCalls, LooksForDead(c) PROVE LinksInv'
<1> DEFINE old == skillCalls[c]
           dead == IsDeadLink(links[NameOf[old.of]], old.of)
           call == [old EXCEPT !.at = IF dead THEN "unlink" ELSE "look"]
<1>1. old \in SkillCallType /\ SkillCallIsSound(old) /\ old.at = "dead" BY SkillCallTypes DEF LooksForDead
<1>2. SkillCall(c, call) /\ UNCHANGED links BY DEF LooksForDead
<1>3. dead => links[NameOf[old.of]] \in Skills \ kept BY DEF IsDeadLink, Dead
<1> HIDE DEF dead
<1>4. /\ call \in SkillCallType /\ (call.at = "unlink" <=> dead) /\ call.at \in {"unlink", "look"} /\ call.op = old.op
      /\ call.todo = old.todo /\ call.dirs = old.dirs /\ call.of = old.of
  BY <1>1 DEF SkillCallType
<1> HIDE DEF call
<1>5. SkillCallIsSound(call) /\ call.op = "install" BY <1>1, <1>4 DEF SkillCallIsSound
<1>6. \A n \in Names : Awaits(call, n) => MayTake(call, links[n], kept) BY <1>3, <1>4, <1>5 DEF Awaits, MayTake
<1> HIDE DEF old
<1>7. QED BY <1>2, <1>4, <1>5, <1>6, SkillCallSteps

LEMMA LooksKeeps == ASSUME LinksInv, NEW c \in SkillCalls, Looks(c) PROVE LinksInv'
<1> DEFINE old == skillCalls[c]
           call == [old EXCEPT !.at = "link"]
<1>1. old \in SkillCallType /\ SkillCallIsSound(old) /\ old.at = "look" /\ UNCHANGED links
  BY SkillCallTypes DEF Looks
<1>2. SkillCall(c, call) \/ SkillCall(c, Next1(old)) BY DEF Looks
<1>3. /\ call \in SkillCallType /\ call.at = "link" /\ call.op = old.op /\ call.todo = old.todo /\ call.dirs = old.dirs
      /\ call.of = old.of
  BY <1>1 DEF SkillCallType
<1>4. SkillCallIsSound(call) /\ \A n \in Names : ~Awaits(call, n) BY <1>1, <1>3 DEF SkillCallIsSound, Awaits
<1> HIDE DEF call, old
<1>5. CASE SkillCall(c, call) BY <1>1, <1>3, <1>4, <1>5, SkillCallSteps
<1>6. CASE SkillCall(c, Next1(old)) BY <1>1, <1>6, NextIsSound, SkillCallSteps
<1>7. QED BY <1>2, <1>5, <1>6

LEMMA ComparesKeeps == ASSUME LinksInv, NEW c \in SkillCalls, Compares(c) PROVE LinksInv'
<1> DEFINE old == skillCalls[c]
           call == [old EXCEPT !.at = "unlink"]
<1>1. old \in SkillCallType /\ SkillCallIsSound(old) /\ old.at = "compare" /\ UNCHANGED links
  BY SkillCallTypes DEF Compares
<1>2. (SkillCall(c, call) /\ links[NameOf[old.of]] = old.of) \/ SkillCall(c, Next1(old))
  BY DEF Compares, IsOwnLink
<1>3. /\ call \in SkillCallType /\ call.at = "unlink" /\ call.op = old.op /\ call.todo = old.todo /\ call.dirs = old.dirs
      /\ call.of = old.of
  BY <1>1 DEF SkillCallType
<1>4. old.op = "remove" /\ old.of \in old.dirs /\ old.dirs \subseteq Skills
  BY <1>1 DEF SkillCallIsSound, SkillCallType
<1>5. SkillCallIsSound(call) BY <1>1, <1>3, <1>4 DEF SkillCallIsSound
<1>6. CASE SkillCall(c, call) /\ links[NameOf[old.of]] = old.of
  <2>1. \A n \in Names : Awaits(call, n) => MayTake(call, links[n], kept)
    BY <1>3, <1>4, <1>6 DEF Awaits, MayTake
  <2> HIDE DEF call, old
  <2>2. QED BY <1>1, <1>3, <1>5, <1>6, <2>1, SkillCallSteps
<1> HIDE DEF old
<1>7. CASE SkillCall(c, Next1(old)) BY <1>1, <1>7, NextIsSound, SkillCallSteps
<1>8. QED BY <1>2, <1>6, <1>7

LEMMA FindsLegacyKeeps == ASSUME LinksInv, NEW c \in SkillCalls, FindsLegacy(c) PROVE LinksInv'
<1> DEFINE old == skillCalls[c]
           found == {n \in Names : Legacy(old, n)}
           s == CHOOSE s \in Skills : NameOf[s] \in found
           none == [old EXCEPT !.todo = {}]
           call == [old EXCEPT !.at = "unlink", !.todo = found, !.of = s]
<1>1. old \in SkillCallType /\ SkillCallIsSound(old) /\ old.op = "legacy" /\ old.at = "next" /\ UNCHANGED links
  BY SkillCallTypes DEF FindsLegacy
<1>2. (found = {} /\ SkillCall(c, none)) \/ (found # {} /\ SkillCall(c, call)) BY DEF FindsLegacy
<1>3. CASE found = {} /\ SkillCall(c, none)
  <2>1. none \in SkillCallType /\ none.at = "next" /\ none.op = "legacy" /\ none.todo = {}
    BY <1>1 DEF SkillCallType
  <2> HIDE DEF none
  <2>2. SkillCallIsSound(none) /\ \A n \in Names : ~Awaits(none, n) BY <2>1 DEF SkillCallIsSound, Awaits
  <2>3. QED BY <1>1, <1>3, <2>1, <2>2, SkillCallSteps
<1>4. CASE found # {} /\ SkillCall(c, call)
  <2>1. \E x \in Skills : NameOf[x] \in found BY <1>4 DEF Names
  <2>2. s \in Skills /\ NameOf[s] \in found BY <2>1
  <2>3. found \in SUBSET Names /\ \A n \in found : links[n] \in old.dirs \/ links[n] \in Skills \ kept
    BY DEF Legacy, Dead
  <2> HIDE DEF s, found
  <2>4. /\ call \in SkillCallType /\ call.at = "unlink" /\ call.op = "legacy" /\ call.todo = found /\ call.of = s
        /\ call.dirs = old.dirs
    BY <1>1, <2>2, <2>3 DEF SkillCallType
  <2> HIDE DEF call, old
  <2>5. SkillCallIsSound(call) BY <2>2, <2>3, <2>4 DEF SkillCallIsSound
  <2>6. \A n \in Names : Awaits(call, n) => MayTake(call, links[n], kept)
    BY <2>2, <2>3, <2>4 DEF Awaits, MayTake
  <2>7. QED BY <1>1, <1>4, <2>4, <2>5, <2>6, SkillCallSteps
<1>5. QED BY <1>2, <1>3, <1>4

LEMMA SkillCallEndsKeeps == ASSUME LinksInv, NEW c \in SkillCalls, SkillCallEnds(c) PROVE LinksInv'
<1> DEFINE call == [NoSkillCall EXCEPT !.op = "ended"]
<1>1. call \in SkillCallType /\ call.op = "ended" /\ call.at = "none" BY DEF NoSkillCall, SkillCallType
<1>2. SkillCall(c, call) /\ UNCHANGED links BY DEF SkillCallEnds
<1> HIDE DEF call
<1>3. SkillCallIsSound(call) /\ \A n \in Names : ~Awaits(call, n) BY <1>1 DEF SkillCallIsSound, Awaits
<1>4. QED BY <1>1, <1>2, <1>3, SkillCallSteps

\* A step that changes what is under one name.
LEMMA LinkSteps ==
    ASSUME LinksInv, NEW n \in Names, NEW thing \in Skills \cup {Nothing, Folder, Elsewhere},
           links' = [links EXCEPT ![n] = thing], thing \in Skills => NameOf[thing] = n,
           UNCHANGED kept, skillCalls' \in [SkillCalls -> SkillCallType],
           \A c \in SkillCalls : SkillCallIsSound(skillCalls'[c]),
           \A c \in SkillCalls, m \in Names : m # n /\ Awaits(skillCalls'[c], m) => MayTake(skillCalls'[c], links[m], kept),
           \A c \in SkillCalls : Awaits(skillCalls'[c], n) => MayTake(skillCalls'[c], thing, kept)
    PROVE  LinksInv'
<1>1. links \in [Names -> Skills \cup {Nothing, Folder, Elsewhere}] /\ kept' = kept BY DEF LinksInv, LinksType
<1>2. links'[n] = thing /\ \A m \in Names : m # n => links'[m] = links[m] BY <1>1
<1>3. LinksType' BY <1>1 DEF LinksInv, LinksType
<1>4. \A m \in Names : links'[m] \in Skills => NameOf[links'[m]] = m BY <1>2 DEF LinksInv
<1>5. \A c \in SkillCalls, m \in Names : Awaits(skillCalls'[c], m) => MayTake(skillCalls'[c], links'[m], kept')
  BY <1>1, <1>2
<1>6. QED BY <1>3, <1>4, <1>5 DEF LinksInv

LEMMA AwaitedIsAwaits == ASSUME ~Replaced, NEW n, NEW calls
                         PROVE  Awaited(calls, n) <=> \E d \in calls : Awaits(skillCalls[d], n)
BY DEF Awaited, Awaits

LEMMA LinksKeeps == ASSUME LinksInv, ~Replaced, NEW c \in SkillCalls, Links(c) PROVE LinksInv'
<1> DEFINE old == skillCalls[c]
           call == Next1(old)
           n == NameOf[old.of]
<1>1. old \in SkillCallType /\ SkillCallIsSound(old) /\ old.at = "link" BY SkillCallTypes DEF Links
<1>2. SkillCall(c, call) BY DEF Links
<1>3. call \in SkillCallType /\ SkillCallIsSound(call) /\ \A m : ~Awaits(call, m) BY <1>1, NextIsSound
<1>4. old.of \in Skills /\ n \in Names BY <1>1, NamesOfSkills DEF SkillCallIsSound
<1>5. CASE links[n] # Nothing
  <2>1. UNCHANGED links BY <1>5 DEF Links
  <2> HIDE DEF call
  <2>2. QED BY <1>2, <1>3, <2>1, SkillCallSteps
<1>6. CASE links[n] = Nothing
  <2> DEFINE thing == old.of
  <2>1. links' = [links EXCEPT ![n] = thing] /\ \A d \in SkillCalls : d # c => ~Awaits(skillCalls[d], n)
    BY <1>6, AwaitedIsAwaits DEF Links
  <2>2. thing \in Skills \cup {Nothing, Folder, Elsewhere} /\ (thing \in Skills => NameOf[thing] = n) BY <1>4
  <2> HIDE DEF call
  <2>3. skillCalls \in [SkillCalls -> SkillCallType] /\ UNCHANGED kept
    BY <1>2 DEF LinksInv, LinksType, SkillCall
  <2>4. /\ skillCalls' \in [SkillCalls -> SkillCallType] /\ skillCalls'[c] = call
        /\ \A d \in SkillCalls : d # c => skillCalls'[d] = skillCalls[d]
    BY <1>2, <1>3, <2>3 DEF SkillCall
  <2>5. \A d \in SkillCalls : SkillCallIsSound(skillCalls'[d]) BY <1>3, <2>4 DEF LinksInv
  <2>6. ASSUME NEW d \in SkillCalls, NEW m \in Names, m # n, Awaits(skillCalls'[d], m)
        PROVE  MayTake(skillCalls'[d], links[m], kept)
    BY <1>3, <2>4, <2>6 DEF LinksInv
  <2>7. ASSUME NEW d \in SkillCalls, Awaits(skillCalls'[d], n) PROVE FALSE BY <1>3, <2>1, <2>4, <2>7
  <2> HIDE DEF thing, n
  <2>8. QED BY <1>4, <2>1, <2>2, <2>3, <2>4, <2>5, <2>6, <2>7, LinkSteps
<1>7. QED BY <1>5, <1>6

\* What the call of an unlink is then.
LEMMA AfterUnlink ==
    ASSUME NEW old \in SkillCallType, SkillCallIsSound(old), old.at = "unlink", NEW call,
           \/ old.op = "install" /\ call = [old EXCEPT !.at = "look"]
           \/ /\ old.op = "legacy" /\ old.todo \ {NameOf[old.of]} # {}
              /\ call = [old EXCEPT !.todo = old.todo \ {NameOf[old.of]},
                            !.of = CHOOSE s \in Skills : NameOf[s] \in old.todo \ {NameOf[old.of]}]
           \/ call = Next1([old EXCEPT !.todo = IF old.op = "legacy" THEN {} ELSE old.todo])
    PROVE  /\ call \in SkillCallType /\ SkillCallIsSound(call) /\ call # old
           /\ \A n \in Names : Awaits(call, n) => /\ Awaits(old, n) /\ n # NameOf[old.of]
                                                  /\ call.op = old.op /\ call.dirs = old.dirs
<1>1. CASE old.op = "install" /\ call = [old EXCEPT !.at = "look"]
  BY <1>1 DEF SkillCallType, SkillCallIsSound, Awaits
<1>2. CASE /\ old.op = "legacy" /\ old.todo \ {NameOf[old.of]} # {}
           /\ call = [old EXCEPT !.todo = old.todo \ {NameOf[old.of]},
                            !.of = CHOOSE s \in Skills : NameOf[s] \in old.todo \ {NameOf[old.of]}]
  <2> DEFINE rest == old.todo \ {NameOf[old.of]}
             s == CHOOSE s \in Skills : NameOf[s] \in rest
  <2>1. old.todo \subseteq Names /\ NameOf[old.of] \in old.todo BY <1>2 DEF SkillCallIsSound
  <2>2. s \in Skills /\ NameOf[s] \in rest BY <1>2, <2>1 DEF Names
  <2>3. call = [old EXCEPT !.todo = rest, !.of = s] BY <1>2
  <2>4. rest \subseteq Names /\ NameOf[old.of] \notin rest BY <2>1
  <2>5. \A n \in rest : n \in old.todo /\ n # NameOf[old.of] OBVIOUS
  <2> HIDE DEF rest, s
  <2>6. /\ call \in SkillCallType /\ call.at = "unlink" /\ call.op = "legacy" /\ call.of = s /\ call.todo = rest
        /\ call.dirs = old.dirs
    BY <1>2, <2>2, <2>3, <2>4 DEF SkillCallType
  <2>7. SkillCallIsSound(call) BY <2>2, <2>4, <2>6 DEF SkillCallIsSound
  <2>8. call # old BY <2>1, <2>4, <2>6
  <2>9. QED BY <1>2, <2>2, <2>5, <2>6, <2>7, <2>8 DEF Awaits
<1>3. CASE call = Next1([old EXCEPT !.todo = IF old.op = "legacy" THEN {} ELSE old.todo])
  <2> DEFINE todo == IF old.op = "legacy" THEN {} ELSE old.todo
             ends == [old EXCEPT !.todo = todo]
  <2>1. todo \subseteq old.todo OBVIOUS
  <2> HIDE DEF todo
  <2>2. /\ ends \in SkillCallType /\ ends.todo = todo /\ ends.op = old.op /\ ends.dirs = old.dirs
    BY <2>1 DEF SkillCallType
  <2>3. call = [ends EXCEPT !.at = "next", !.of = Nothing] BY <1>3 DEF Next1, todo
  <2> HIDE DEF ends
  <2>4. call \in SkillCallType /\ call.at = "next" /\ call.todo = todo /\ call.op = old.op /\ call.dirs = old.dirs
    BY <2>2, <2>3 DEF SkillCallType
  <2>5. QED BY <2>1, <2>4 DEF SkillCallIsSound, Awaits
<1>4. QED BY <1>1, <1>2, <1>3

LEMMA UnlinksIs ==
    ASSUME LinksInv, NEW c \in SkillCalls, Unlinks(c)
    PROVE  LET old == skillCalls[c]  call == skillCalls'[c]  n == NameOf[old.of] IN
           /\ old \in SkillCallType /\ SkillCallIsSound(old) /\ old.at = "unlink" /\ n \in Names /\ UNCHANGED kept
           /\ call \in SkillCallType /\ SkillCallIsSound(call) /\ call # old
           /\ \A m \in Names : Awaits(call, m) => Awaits(old, m) /\ m # n /\ call.op = old.op /\ call.dirs = old.dirs
           /\ skillCalls' \in [SkillCalls -> SkillCallType]
           /\ \A d \in SkillCalls : d # c => skillCalls'[d] = skillCalls[d]
           /\ links' = links \/ links' = [links EXCEPT ![n] = Nothing]
<1> DEFINE old == skillCalls[c]
           n == NameOf[old.of]
           look == [old EXCEPT !.at = "look"]
           more == [old EXCEPT !.todo = old.todo \ {n}, !.of = CHOOSE s \in Skills : NameOf[s] \in old.todo \ {n}]
           ends == Next1([old EXCEPT !.todo = IF old.op = "legacy" THEN {} ELSE old.todo])
<1>1. /\ old \in SkillCallType /\ SkillCallIsSound(old) /\ old.at = "unlink" /\ skillCalls \in [SkillCalls -> SkillCallType]
  BY SkillCallTypes DEF Unlinks, LinksInv, LinksType
<1>2. old.of \in Skills /\ n \in Names BY <1>1, NamesOfSkills DEF SkillCallIsSound
<1>3. \/ old.op = "install" /\ SkillCall(c, look)
      \/ old.op = "legacy" /\ old.todo \ {n} # {} /\ SkillCall(c, more)
      \/ SkillCall(c, ends)
  BY DEF Unlinks
<1>4. links' = links \/ links' = [links EXCEPT ![n] = Nothing] BY DEF Unlinks
<1>5. ASSUME NEW call, SkillCall(c, call), call \in SkillCallType
      PROVE  /\ skillCalls'[c] = call /\ skillCalls' \in [SkillCalls -> SkillCallType] /\ UNCHANGED kept
             /\ \A d \in SkillCalls : d # c => skillCalls'[d] = skillCalls[d]
  BY <1>1, <1>5 DEF SkillCall
<1>6. ASSUME NEW call, SkillCall(c, call),
             \/ old.op = "install" /\ call = look
             \/ old.op = "legacy" /\ old.todo \ {n} # {} /\ call = more
             \/ call = ends
      PROVE  /\ call \in SkillCallType /\ SkillCallIsSound(call) /\ call # old /\ skillCalls'[c] = call
             /\ \A m \in Names : Awaits(call, m) => Awaits(old, m) /\ m # n /\ call.op = old.op /\ call.dirs = old.dirs
             /\ skillCalls' \in [SkillCalls -> SkillCallType] /\ UNCHANGED kept
             /\ \A d \in SkillCalls : d # c => skillCalls'[d] = skillCalls[d]
  <2>1. /\ call \in SkillCallType /\ SkillCallIsSound(call) /\ call # old
        /\ \A m \in Names : Awaits(call, m) => Awaits(old, m) /\ m # n /\ call.op = old.op /\ call.dirs = old.dirs
    BY <1>1, <1>6, AfterUnlink
  <2>2. QED BY <1>5, <1>6, <2>1
<1> HIDE DEF look, more, ends
<1>7. QED BY <1>1, <1>2, <1>3, <1>4, <1>6

LEMMA UnlinksKeeps == ASSUME LinksInv, NEW c \in SkillCalls, Unlinks(c) PROVE LinksInv'
<1> DEFINE old == skillCalls[c]
           call == skillCalls'[c]
           n == NameOf[old.of]
<1>1. /\ n \in Names /\ UNCHANGED kept /\ SkillCallIsSound(call)
      /\ \A m \in Names : Awaits(call, m) => Awaits(old, m) /\ m # n /\ call.op = old.op /\ call.dirs = old.dirs
      /\ skillCalls' \in [SkillCalls -> SkillCallType]
      /\ \A d \in SkillCalls : d # c => skillCalls'[d] = skillCalls[d]
      /\ links' = links \/ links' = [links EXCEPT ![n] = Nothing]
  BY UnlinksIs
<1>2. \A d \in SkillCalls : SkillCallIsSound(skillCalls'[d]) BY <1>1 DEF LinksInv
<1>3. ASSUME NEW d \in SkillCalls, NEW m \in Names, Awaits(skillCalls'[d], m)
      PROVE  MayTake(skillCalls'[d], links[m], kept)
  <2>1. CASE d = c BY <1>1, <1>3, <2>1 DEF LinksInv, MayTake
  <2>2. CASE d # c BY <1>1, <1>3, <2>2 DEF LinksInv
  <2>3. QED BY <2>1, <2>2
<1>4. CASE links' = [links EXCEPT ![n] = Nothing]
  <2>1. /\ Nothing \in Skills \cup {Nothing, Folder, Elsewhere} /\ Nothing \notin Skills
        /\ \A d \in SkillCalls : MayTake(skillCalls'[d], Nothing, kept)
    BY NamesOfSkills DEF MayTake
  <2> HIDE DEF n
  <2>2. QED BY <1>1, <1>2, <1>3, <1>4, <2>1, LinkSteps
<1>5. CASE links' = links BY <1>1, <1>5, <1>2, <1>3 DEF LinksInv, LinksType
<1>6. QED BY <1>1, <1>4, <1>5

LEMMA OthersLinkKeeps == ASSUME LinksInv, ~Replaced, NEW n \in Names, OthersLink(n) PROVE LinksInv'
<1>1. PICK thing \in {Folder, Elsewhere} \cup {s \in Skills : NameOf[s] = n} : links' = [links EXCEPT ![n] = thing]
  BY DEF OthersLink
<1>2. UNCHANGED <<kept, skillCalls>> /\ \A c \in SkillCalls : ~Awaits(skillCalls[c], n)
  BY AwaitedIsAwaits DEF OthersLink
<1>3. thing \in Skills \cup {Nothing, Folder, Elsewhere} /\ (thing \in Skills => NameOf[thing] = n)
  BY NamesOfSkills
<1>4. /\ skillCalls' \in [SkillCalls -> SkillCallType]
      /\ \A c \in SkillCalls : SkillCallIsSound(skillCalls'[c])
  BY <1>2 DEF LinksInv, LinksType
<1>5. \A c \in SkillCalls, m \in Names : m # n /\ Awaits(skillCalls'[c], m) => MayTake(skillCalls'[c], links[m], kept)
  BY <1>2 DEF LinksInv
<1>6. \A c \in SkillCalls : Awaits(skillCalls'[c], n) => MayTake(skillCalls'[c], thing, kept) BY <1>2
<1>7. QED BY <1>1, <1>2, <1>3, <1>4, <1>5, <1>6, LinkSteps

LEMMA SkillMovesKeeps == ASSUME LinksInv, ~Replaced, NEW s \in Skills, SkillMoves(s) PROVE LinksInv'
<1>1. /\ UNCHANGED <<links, skillCalls>> /\ kept' \in SUBSET Skills
      /\ \A x \in Skills \ kept : x # s => x \notin kept'
      /\ \A c \in SkillCalls : ~Awaits(skillCalls[c], NameOf[s])
  BY AwaitedIsAwaits DEF SkillMoves, LinksInv, LinksType
<1>2. LinksType' BY <1>1 DEF LinksInv, LinksType
<1>3. ASSUME NEW c \in SkillCalls, NEW n \in Names, Awaits(skillCalls[c], n)
      PROVE  MayTake(skillCalls[c], links[n], kept')
  BY <1>1, <1>3 DEF LinksInv, MayTake
<1>4. QED BY <1>1, <1>2, <1>3 DEF LinksInv

LEMMA LinksKeep == ASSUME LinksInv, ~Replaced, [LinksNext]_linkVars PROVE LinksInv'
<1>1. CASE UNCHANGED linkVars BY <1>1 DEF linkVars, LinksInv, LinksType
<1>2. CASE LinksNext
  <2>1. CASE \E c \in SkillCalls :
                 CallsSkills(c) \/ TakesSkill(c) \/ LooksForDead(c) \/ Looks(c) \/ Links(c) \/ Compares(c)
                 \/ FindsLegacy(c) \/ Unlinks(c) \/ SkillCallEnds(c)
    BY <2>1, CallsSkillsKeeps, TakesSkillKeeps, LooksForDeadKeeps, LooksKeeps, LinksKeeps, ComparesKeeps, FindsLegacyKeeps,
       UnlinksKeeps, SkillCallEndsKeeps
  <2>2. QED BY <1>2, <2>1, OthersLinkKeeps, SkillMovesKeeps DEF LinksNext
<1>3. QED BY <1>1, <1>2

LEMMA LinksInitially == ASSUME InstalledInit PROVE LinksInv
<1>1. /\ links = [n \in Names |-> Nothing] /\ kept = Skills /\ skillCalls = [c \in SkillCalls |-> NoSkillCall]
  BY DEF InstalledInit
<1>2. NoSkillCall \in SkillCallType /\ NoSkillCall.at = "none" /\ NoSkillCall.op = "none"
  BY DEF NoSkillCall, SkillCallType
<1>3. SkillCallIsSound(NoSkillCall) /\ \A n \in Names : ~Awaits(NoSkillCall, n)
  BY <1>2 DEF SkillCallIsSound, Awaits
<1>4. LinksType BY <1>1, <1>2 DEF LinksType
<1>5. Nothing \notin Skills BY NamesOfSkills
<1>6. QED BY <1>1, <1>3, <1>4, <1>5 DEF LinksInv

\* What OthersSkillsStay says of one step.
TakesOnlyItsOwn ==
    \A n \in Names : links'[n] # links[n] /\ kept' = kept /\ skillCalls' # skillCalls =>
        \/ links[n] = Nothing
        \/ \E c \in SkillCalls : LET call == skillCalls[c] IN
              /\ skillCalls'[c] # call
              /\ \/ call.op # "install" /\ links[n] \in call.dirs
                 \/ call.op # "remove" /\ Dead(links[n])

LEMMA LinkStepsTakeTheirOwn == ASSUME LinksInv, [LinksNext]_linkVars PROVE TakesOnlyItsOwn
<1> SUFFICES ASSUME NEW n \in Names, links'[n] # links[n], skillCalls' # skillCalls, links[n] # Nothing
             PROVE  \E c \in SkillCalls : LET call == skillCalls[c] IN
                        /\ skillCalls'[c] # call
                        /\ \/ call.op # "install" /\ links[n] \in call.dirs
                           \/ call.op # "remove" /\ Dead(links[n])
  BY DEF TakesOnlyItsOwn
<1>1. LinksNext /\ links' # links BY DEF linkVars
<1>2. ASSUME NEW m \in Names, OthersLink(m) PROVE FALSE BY <1>2 DEF OthersLink
<1>3. ASSUME NEW s \in Skills, SkillMoves(s) PROVE FALSE BY <1>3 DEF SkillMoves
<1>4. PICK c \in SkillCalls : Links(c) \/ Unlinks(c)
  BY <1>1, <1>2, <1>3
     DEF LinksNext, CallsSkills, TakesSkill, LooksForDead, Looks, Compares, FindsLegacy, SkillCallEnds
<1>5. ASSUME Links(c) PROVE FALSE BY <1>5, SkillCallTypes DEF Links
<1>6. CASE Unlinks(c)
  <2> DEFINE old == skillCalls[c]
             m == NameOf[old.of]
  <2>1. m \in Names /\ old.at = "unlink" /\ skillCalls'[c] # old /\ links' = [links EXCEPT ![m] = Nothing]
    BY <1>1, <1>6, UnlinksIs
  <2>2. n = m BY <2>1, SkillCallTypes
  <2>3. Awaits(old, n) BY <2>1, <2>2 DEF Awaits
  <2>4. MayTake(old, links[n], kept) BY <2>3 DEF LinksInv
  <2>5. QED BY <2>1, <2>4 DEF MayTake, Dead
<1>7. QED BY <1>4, <1>5, <1>6

\* For every set of calls, skills and folders: no call takes a skill that a user or another program
\* has put there, as long as none is put there between a call's look and its unlink
\* (skills.ts 296-314, 421-441, 513-560).
THEOREM OthersSkillsAreKept == ASSUME ~Replaced PROVE LinksSpec => OthersSkillsStay
<1>1. InstalledInit => LinksInv BY LinksInitially
<1>2. LinksInv /\ [LinksNext]_linkVars => LinksInv' BY LinksKeep
<1>3. LinksInv /\ [LinksNext]_linkVars => TakesOnlyItsOwn BY LinkStepsTakeTheirOwn
<1>4. [][TakesOnlyItsOwn]_linkVars => OthersSkillsStay BY DEF OthersSkillsStay, TakesOnlyItsOwn
<1>5. QED BY <1>1, <1>2, <1>3, <1>4, PTL DEF LinksSpec

-----------------------------------------------------------------------------
(* MCWorkspaces                                                            *)

\* What TLC runs, where a behaviour is one of one part, are behaviours of the three specifications
\* that the theorems are about.
THEOREM PartsOfWorkspaces == WorkspacesSpec => TreesSpec /\ ToolsSpec /\ LinksSpec
<1>1. WorkspacesInit => TreesInit /\ ToolsInit /\ InstalledInit BY DEF WorkspacesInit
<1>2. [WorkspacesNext]_workspaceVars => [TreesNext]_treeVars BY Zenon DEF WorkspacesNext, workspaceVars
<1>3. [WorkspacesNext]_workspaceVars => [ToolsNext]_toolVars
  BY Zenon DEF WorkspacesNext, ToolNext, ToolsNext, workspaceVars
<1>4. [WorkspacesNext]_workspaceVars => [LinksNext]_linkVars
  <2>1. WorkspacesNext => LinksNext \/ UNCHANGED linkVars
    <3>1. TextsNext => UNCHANGED linkVars
      <4>1. \A t, job : InstallerIs(t, job) => UNCHANGED linkVars BY DEF InstallerIs
      <4>2. ASSUME NEW t, CallsInstructions(t) PROVE UNCHANGED linkVars
        BY <4>1, <4>2, Zenon DEF CallsInstructions
      <4>3. ASSUME NEW t, ReadsText(t) PROVE UNCHANGED linkVars BY <4>1, <4>3, Zenon DEF ReadsText
      <4>4. ASSUME NEW t, WritesText(t) \/ DiesInWrite(t) PROVE UNCHANGED linkVars
        BY <4>4, Zenon DEF WritesText, DiesInWrite
      <4>5. ASSUME NEW t, InstructionsDone(t) PROVE UNCHANGED linkVars BY <4>1, <4>5, Zenon DEF InstructionsDone
      <4>6. ASSUME NEW f, UserWrites(f) PROVE UNCHANGED linkVars BY <4>6, Zenon DEF UserWrites
      <4>7. QED BY <4>2, <4>3, <4>4, <4>5, <4>6 DEF TextsNext
    <3>2. DiscoverSkillCommands => UNCHANGED linkVars BY DEF DiscoverSkillCommands
    <3>3. UNCHANGED installedVars => UNCHANGED linkVars BY DEF installedVars, linkVars
    <3>4. QED BY <3>1, <3>2, <3>3, Zenon DEF WorkspacesNext
  <2>2. UNCHANGED workspaceVars => UNCHANGED linkVars BY DEF workspaceVars, installedVars, linkVars
  <2>3. QED BY <2>1, <2>2
<1>5. QED BY <1>1, <1>2, <1>3, <1>4, PTL DEF WorkspacesSpec, TreesSpec, ToolsSpec, LinksSpec

=============================================================================
