-------------------------------- MODULE Git --------------------------------
(***************************************************************************)
(* The repository that harness/stage3_parallel/worktree.py drives through  *)
(* `git` subprocesses: one object store and one index shared by the main   *)
(* working tree and by every task's linked worktree.  git itself is not    *)
(* part of the repository; each action below is one git command, with the  *)
(* outcomes WorktreeManager._git (worktree.py:88-101) can observe:         *)
(*                                                                         *)
(*   "ok"       the command exits 0                                        *)
(*   "failed"   it exits nonzero (raised only by callers with check=True)  *)
(*   "timeout"  subprocess.run kills it after 120 s: _git raises whatever  *)
(*              `check` says, and the command may have had its effect,     *)
(*              none of it, or part of it                                  *)
(*                                                                         *)
(* The branch auto/wt/<t> and the directory <worktrees_dir>/<t> of a task  *)
(* t are both represented by t.                                            *)
(***************************************************************************)
EXTENDS Naturals, FiniteSets

CONSTANTS
  Tasks,          \* task ids; also the names of their branches and worktrees
  Main,           \* the integration branch
  Dev,            \* any other branch a person may have checked out
  Touches,        \* Touches[b]: the files that the commits first made on b edit
  HeadAtStart,    \* the branch checked out in the main working tree at first
  MaxFaults       \* bound: commands that are refused or time out

Branches == Tasks \cup {Main, Dev}

\* A commit is named by the branch it was first made on and a number.
Commits == Branches \X Nat

ASSUME GitAssumption ==
  /\ Tasks # {}
  /\ Main \notin Tasks
  /\ Dev \notin Tasks
  /\ Main # Dev
  /\ HeadAtStart \in {Main, Dev}
  /\ MaxFaults \in Nat

VARIABLES
  exists,   \* the branches refs/heads/ has
  tip,      \* tip[b]: the commits reachable from branch b ({} if there is no b)
  head,     \* the branch HEAD names in the main working tree
  index,    \* the main index: "clean", "unmerged" (a merge stopped on a
            \* conflict) or "locked" (a killed command left index.lock)
  admin,    \* worktrees registered under .git/worktrees
  dirs,     \* worktree directories that exist on disk
  dirty,    \* worktrees with modified or untracked files
  faults    \* refusals and timeouts so far

git == <<exists, tip, head, index, admin, dirs, dirty, faults>>

GitTypeOK ==
  /\ exists \in SUBSET Branches
  /\ tip \in [Branches -> SUBSET Commits]
  /\ head \in Branches
  /\ index \in {"clean", "unmerged", "locked"}
  /\ admin \in SUBSET Tasks
  /\ dirs \in SUBSET Tasks
  /\ dirty \in SUBSET Tasks
  /\ faults \in Nat

GitInit ==
  /\ exists \in {{HeadAtStart}, {Main, Dev}}
  /\ tip = [b \in Branches |->
              IF b \notin exists THEN {}
              ELSE IF b = Main THEN {<<Main, 0>>} ELSE {<<Main, 0>>, <<b, 0>>}]
  /\ head = HeadAtStart
  /\ index = "clean"
  /\ admin = {} /\ dirs = {} /\ dirty = {}
  /\ faults = 0

\* A command git refuses for a reason outside the model (a hook, another
\* command's lock, an untracked file in the way), or one that times out.
Mishap == faults < MaxFaults /\ faults' = faults + 1

----------------------------------------------------------------------------
\* git rev-parse / symbolic-ref / diff: read only, so they can only time out.
Read(rc) ==
  /\ UNCHANGED <<exists, tip, head, index, admin, dirs, dirty>>
  /\ \/ rc = "ok" /\ UNCHANGED faults
     \/ rc = "timeout" /\ Mishap

\* git refuses to check out over an unresolved merge or a locked index, and a
\* branch that some worktree has checked out.
CanCheckout(b) == index = "clean" /\ b \in exists /\ b \notin admin

\* git checkout b
Checkout(b, rc) ==
  /\ UNCHANGED <<exists, tip, admin, dirs, dirty>>
  /\ \/ /\ rc = "ok" /\ CanCheckout(b)
        /\ head' = b
        /\ UNCHANGED <<index, faults>>
     \/ /\ rc = "failed" /\ ~CanCheckout(b)
        /\ UNCHANGED <<head, index, faults>>
     \/ /\ rc = "failed" /\ Mishap
        /\ UNCHANGED <<head, index>>
     \/ /\ rc = "timeout" /\ Mishap
        /\ \/ UNCHANGED head
           \/ CanCheckout(b) /\ head' = b
        /\ index' \in {index, "locked"}

\* Both sides have commits the other lacks that edit a common file.
Conflicting(b) ==
  \E c \in tip[b] \ tip[head], d \in tip[head] \ tip[b] :
      Touches[c[1]] \cap Touches[d[1]] # {}

Land(b) == tip' = [tip EXCEPT ![head] = @ \cup tip[b]]

\* git merge --no-ff b: into whichever branch HEAD names.
Merge(b, rc) ==
  /\ UNCHANGED <<exists, head, admin, dirs, dirty>>
  /\ LET possible == index = "clean" /\ b \in exists
     IN \/ /\ rc = "ok" /\ possible /\ ~Conflicting(b)
           /\ Land(b)
           /\ UNCHANGED <<index, faults>>
        \/ /\ rc = "failed" /\ possible /\ Conflicting(b)
           /\ index' = "unmerged"
           /\ UNCHANGED <<tip, faults>>
        \/ /\ rc = "failed" /\ ~possible
           /\ UNCHANGED <<tip, index, faults>>
        \/ /\ rc = "failed" /\ Mishap
           /\ UNCHANGED <<tip, index>>
        \/ /\ rc = "timeout" /\ Mishap
           /\ \/ possible /\ ~Conflicting(b) /\ Land(b) /\ UNCHANGED index
              \/ possible /\ Conflicting(b) /\ index' = "unmerged" /\ UNCHANGED tip
              \/ index' \in {index, "locked"} /\ UNCHANGED tip

\* git merge --abort: needs a merge in progress and an index it can lock.
MergeAbort(rc) ==
  /\ UNCHANGED <<exists, tip, head, admin, dirs, dirty>>
  /\ \/ /\ rc = "ok" /\ index = "unmerged"
        /\ index' = "clean"
        /\ UNCHANGED faults
     \/ /\ rc = "failed" /\ index # "unmerged"
        /\ UNCHANGED <<index, faults>>
     \/ /\ rc = "failed" /\ Mishap
        /\ UNCHANGED index
     \/ /\ rc = "timeout" /\ Mishap
        /\ index' \in {index, "locked"} \cup (IF index = "unmerged" THEN {"clean"} ELSE {})

----------------------------------------------------------------------------
\* git worktree add refuses a used or registered path, and a branch that is
\* checked out elsewhere (attach) or exists already (-b).
CanAdd(t, attach) ==
  /\ t \notin dirs /\ t \notin admin
  /\ IF attach THEN t \in exists /\ head # t ELSE t \notin exists

NewBranch(t) ==
  /\ exists' = exists \cup {t}
  /\ tip' = [tip EXCEPT ![t] = tip[head]]

\* git worktree add <path> t             (attach)
\* git worktree add -b t <path> HEAD     (~attach): t starts where HEAD is.
\* The branch is made before the worktree, so a failure can leave it behind.
WorktreeAdd(t, attach, rc) ==
  /\ UNCHANGED <<head, index, dirty>>
  /\ LET branch == IF attach THEN UNCHANGED <<exists, tip>> ELSE NewBranch(t)
         nothing == UNCHANGED <<exists, tip, admin, dirs>>
         full == branch /\ admin' = admin \cup {t} /\ dirs' = dirs \cup {t}
     IN \/ rc = "ok" /\ CanAdd(t, attach) /\ full /\ UNCHANGED faults
        \/ rc = "failed" /\ ~CanAdd(t, attach) /\ nothing /\ UNCHANGED faults
        \/ /\ rc \in {"failed", "timeout"} /\ Mishap
           /\ \/ nothing
              \/ CanAdd(t, attach) /\ branch /\ UNCHANGED <<admin, dirs>>
              \/ rc = "timeout" /\ CanAdd(t, attach) /\ full

\* git worktree remove refuses an unregistered path and, without --force, one
\* with uncommitted changes.
CanRemove(t, force) == t \in admin /\ (t \in dirs /\ ~force => t \notin dirty)

WorktreeRemove(t, force, rc) ==
  /\ UNCHANGED <<exists, tip, head, index>>
  /\ LET nothing == UNCHANGED <<admin, dirs, dirty>>
         full == admin' = admin \ {t} /\ dirs' = dirs \ {t} /\ dirty' = dirty \ {t}
     IN \/ rc = "ok" /\ CanRemove(t, force) /\ full /\ UNCHANGED faults
        \/ rc = "failed" /\ ~CanRemove(t, force) /\ nothing /\ UNCHANGED faults
        \/ rc \in {"failed", "timeout"} /\ nothing /\ Mishap
        \/ rc = "timeout" /\ CanRemove(t, force) /\ full /\ Mishap

\* git branch -D t refuses a branch that is checked out anywhere.
BranchDelete(t, rc) ==
  /\ UNCHANGED <<head, index, admin, dirs, dirty>>
  /\ LET possible == t \in exists /\ t \notin admin /\ head # t
         nothing == UNCHANGED <<exists, tip>>
         full == exists' = exists \ {t} /\ tip' = [tip EXCEPT ![t] = {}]
     IN \/ rc = "ok" /\ possible /\ full /\ UNCHANGED faults
        \/ rc = "failed" /\ ~possible /\ nothing /\ UNCHANGED faults
        \/ rc \in {"failed", "timeout"} /\ nothing /\ Mishap
        \/ rc = "timeout" /\ possible /\ full /\ Mishap

----------------------------------------------------------------------------
\* git commit inside the worktree of t, by the agent working there.
CommitIn(t, n) ==
  /\ t \in dirs /\ t \in exists
  /\ tip' = [tip EXCEPT ![t] = @ \cup {<<t, n>>}]
  /\ dirty' = dirty \ {t}
  /\ UNCHANGED <<exists, head, index, admin, dirs, faults>>
============================================================================
