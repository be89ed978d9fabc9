--------------------------- MODULE WorktreeProofs ---------------------------
(***************************************************************************)
(* Lemmas about Git and Worktree that the proofs of their users share: the *)
(* types of the repository and of the frames, what no git command but      *)
(* `branch -D` can do to a branch, and what stays of a frame.              *)
(***************************************************************************)
EXTENDS Worktree, TLAPS

----------------------------------------------------------------------------
(* The git commands preserve the types of the repository's state.          *)

LEMMA ReadType ==
  ASSUME GitTypeOK, NEW rc, Read(rc)
  PROVE  GitTypeOK'
BY DEF GitTypeOK, Read, Mishap

LEMMA CheckoutType ==
  ASSUME GitTypeOK, NEW b \in Branches, NEW rc, Checkout(b, rc)
  PROVE  GitTypeOK'
BY DEF GitTypeOK, Checkout, Mishap

LEMMA MergeType ==
  ASSUME GitTypeOK, NEW b \in Branches, NEW rc, Merge(b, rc)
  PROVE  GitTypeOK'
<1>1. tip' \in [Branches -> SUBSET Commits]
  BY DEF GitTypeOK, Merge, Land
<1>2. index' \in {"clean", "unmerged", "locked"}
  BY DEF GitTypeOK, Merge
<1>3. faults' \in Nat
  BY DEF GitTypeOK, Merge, Mishap
<1>4. QED
  BY <1>1, <1>2, <1>3 DEF GitTypeOK, Merge

LEMMA MergeAbortType ==
  ASSUME GitTypeOK, NEW rc, MergeAbort(rc)
  PROVE  GitTypeOK'
BY DEF GitTypeOK, MergeAbort, Mishap

LEMMA WorktreeAddType ==
  ASSUME GitTypeOK, NEW t \in Tasks, NEW attach, NEW rc, WorktreeAdd(t, attach, rc)
  PROVE  GitTypeOK'
<1>1. tip' \in [Branches -> SUBSET Commits] /\ exists' \in SUBSET Branches
  BY DEF GitTypeOK, WorktreeAdd, NewBranch, Branches
<1>2. admin' \in SUBSET Tasks /\ dirs' \in SUBSET Tasks
  BY DEF GitTypeOK, WorktreeAdd
<1>3. faults' \in Nat
  BY DEF GitTypeOK, WorktreeAdd, Mishap
<1>4. QED
  BY <1>1, <1>2, <1>3 DEF GitTypeOK, WorktreeAdd

LEMMA WorktreeRemoveType ==
  ASSUME GitTypeOK, NEW t \in Tasks, NEW force, NEW rc, WorktreeRemove(t, force, rc)
  PROVE  GitTypeOK'
BY DEF GitTypeOK, WorktreeRemove, Mishap

LEMMA BranchDeleteType ==
  ASSUME GitTypeOK, NEW t \in Tasks, NEW rc, BranchDelete(t, rc)
  PROVE  GitTypeOK'
BY DEF GitTypeOK, BranchDelete, Mishap

----------------------------------------------------------------------------
(* Frames.                                                                 *)

LEMMA GotoType ==
  ASSUME CallTypeOK, NEW p \in Callers, NEW step \in Steps, Goto(p, step)
  PROVE  CallTypeOK'
BY DEF CallTypeOK, Goto, Frames

LEMMA ReturnType ==
  ASSUME CallTypeOK, NEW p \in Callers, NEW res \in Results, Return(p, res)
  PROVE  CallTypeOK'
<1> DEFINE f == [call[p] EXCEPT !.step = "returned", !.res = res]
<1>1. call[p] \in Frames
  BY DEF CallTypeOK
<1>2. f \in Frames
  BY <1>1 DEF Frames, Steps
<1>3. call' = [call EXCEPT ![p] = f]
  BY DEF Return
<1>4. QED
  BY <1>2, <1>3 DEF CallTypeOK

LEMMA FinallyType ==
  ASSUME CallTypeOK, NEW p \in Callers, NEW res \in Results, Finally(p, res)
  PROVE  CallTypeOK'
<1> DEFINE f == [call[p] EXCEPT !.step = "restore", !.res = res]
<1>1. call[p] \in Frames
  BY DEF CallTypeOK
<1>2. f \in Frames
  BY <1>1 DEF Frames, Steps
<1>3. call' = [call EXCEPT ![p] = f]
  BY DEF Finally
<1>4. QED
  BY <1>2, <1>3 DEF CallTypeOK

\* A step of a manager method moves the frame on without changing which call
\* it is: the operation, the task and the arguments stay.
SameCall(p) ==
  /\ call'[p].op = call[p].op
  /\ call'[p].task = call[p].task
  /\ call'[p].into = call[p].into
  /\ call'[p].force = call[p].force
  /\ call'[p].delete_branch = call[p].delete_branch
  /\ call[p].step # "idle" /\ call'[p].step # "idle"

LEMMA ManagerSameCall ==
  ASSUME CallTypeOK, NEW p \in Callers, ManagerStep(p)
  PROVE  SameCall(p)
<1> USE DEF SameCall, At, CallTypeOK, Frames
<1>1. ASSUME NEW step, Goto(p, step), step # "idle", call[p].step # "idle"
      PROVE  SameCall(p)
  BY <1>1 DEF Goto
<1>2. ASSUME NEW res, Return(p, res), call[p].step # "idle"
      PROVE  SameCall(p)
  BY <1>2 DEF Return
<1>3. ASSUME NEW res, Finally(p, res), call[p].step # "idle"
      PROVE  SameCall(p)
  BY <1>3 DEF Finally
<1>4. CASE CreateRefused(p)
  BY <1>4, <1>2 DEF CreateRefused
<1>5. CASE CreateProbe(p)
  BY <1>5, <1>2 DEF CreateProbe
<1>6. CASE CreateAdd(p)
  BY <1>6, <1>1, <1>2 DEF CreateAdd
<1>7. CASE CreateHead(p)
  BY <1>7, <1>2 DEF CreateHead
<1>8. CASE RemoveTree(p)
  BY <1>8, <1>1, <1>2 DEF RemoveTree
<1>9. CASE RemoveBranch(p)
  BY <1>9, <1>2 DEF RemoveBranch
<1>10. CASE MergeProbe(p)
  BY <1>10, <1>1, <1>2 DEF MergeProbe
<1>11. CASE MergePrior(p)
  BY <1>11, <1>2 DEF MergePrior
<1>12. CASE MergeCheckout(p)
  BY <1>12, <1>1, <1>2 DEF MergeCheckout
<1>13. CASE MergeMerge(p)
  BY <1>13, <1>1, <1>3 DEF MergeMerge
<1>14. CASE MergeDiff(p)
  BY <1>14, <1>1, <1>3 DEF MergeDiff
<1>15. CASE MergeUndo(p)
  BY <1>15, <1>3 DEF MergeUndo
<1>16. CASE MergeRestore(p)
  BY <1>16, <1>2 DEF MergeRestore
<1>17. QED
  BY <1>4, <1>5, <1>6, <1>7, <1>8, <1>9, <1>10, <1>11, <1>12, <1>13, <1>14,
     <1>15, <1>16 DEF ManagerStep

LEMMA ManagerType ==
  ASSUME GitTypeOK, CallTypeOK, NEW p \in Callers, ManagerStep(p)
  PROVE  GitTypeOK' /\ CallTypeOK'
<1> DEFINE t == call[p].task
<1>0. t \in Tasks /\ t \in Branches /\ call[p].into \in Branches /\ call[p].prior \in Branches
  BY DEF CallTypeOK, Frames, Branches
<1>1. CASE CreateRefused(p)
  BY <1>1, ReturnType DEF CreateRefused, Results, git, GitTypeOK
<1>2. CASE CreateProbe(p)
  <2>1. PICK rc \in {"ok", "timeout"} : Read(rc)
    BY <1>2 DEF CreateProbe
  <2>2. CASE Return(p, "raised")
    BY <2>1, <2>2, ReadType, ReturnType DEF Results
  <2>3. CASE call' = [call EXCEPT ![p].step = "add", ![p].attach = t \in exists]
    <3> DEFINE f == [call[p] EXCEPT !.step = "add", !.attach = t \in exists]
    <3>1. call[p] \in Frames
      BY DEF CallTypeOK
    <3> DEFINE g(b) == [call[p] EXCEPT !.step = "add", !.attach = b]
    <3>a. ASSUME NEW b \in BOOLEAN  PROVE g(b) \in Frames
      BY <3>1 DEF Frames, Steps
    <3>b. (t \in exists) \in BOOLEAN
      OBVIOUS
    <3>2. f \in Frames
      <4> HIDE DEF g
      <4>1. g(t \in exists) \in Frames
        BY <3>a, <3>b
      <4>2. QED
        BY <4>1 DEF g
    <3>3. call' = [call EXCEPT ![p] = f]
      BY <2>3
    <3>4. QED
      BY <2>1, <3>2, <3>3, ReadType DEF CallTypeOK
  <2>4. QED
    BY <1>2, <2>2, <2>3 DEF CreateProbe
<1>3. CASE CreateAdd(p)
  BY <1>0, <1>3, WorktreeAddType, GotoType, ReturnType DEF CreateAdd, Steps, Results
<1>4. CASE CreateHead(p)
  BY <1>4, ReadType, ReturnType DEF CreateHead, Results
<1>5. CASE RemoveTree(p)
  <2>1. CallTypeOK'
    BY <1>5, GotoType, ReturnType DEF RemoveTree, Steps, Results
  <2>2. GitTypeOK'
    BY <1>0, <1>5, WorktreeRemoveType DEF RemoveTree, git, GitTypeOK
  <2>3. QED  BY <2>1, <2>2
<1>6. CASE RemoveBranch(p)
  BY <1>0, <1>6, BranchDeleteType, ReturnType DEF RemoveBranch, Results
<1>7. CASE MergeProbe(p)
  <2>1. CallTypeOK'
    BY <1>7, GotoType, ReturnType DEF MergeProbe, Steps, Results
  <2>2. GitTypeOK'
    BY <1>7, ReadType DEF MergeProbe, git, GitTypeOK
  <2>3. QED  BY <2>1, <2>2
<1>8. CASE MergePrior(p)
  <2>1. PICK rc \in {"ok", "timeout"} : Read(rc)
    BY <1>8 DEF MergePrior
  <2>2. CASE Return(p, "raised")
    BY <2>1, <2>2, ReadType, ReturnType DEF Results
  <2>3. CASE call' = [call EXCEPT ![p].step = "checkout", ![p].prior = head]
    <3> DEFINE f == [call[p] EXCEPT !.step = "checkout", !.prior = head]
    <3>1. call[p] \in Frames
      BY DEF CallTypeOK
    <3>2. f \in Frames
      BY <3>1 DEF Frames, Steps, GitTypeOK
    <3>3. call' = [call EXCEPT ![p] = f]
      BY <2>3
    <3>4. QED
      BY <2>1, <3>2, <3>3, ReadType DEF CallTypeOK
  <2>4. QED
    BY <1>8, <2>2, <2>3 DEF MergePrior
<1>9. CASE MergeCheckout(p)
  BY <1>0, <1>9, CheckoutType, GotoType, ReturnType DEF MergeCheckout, Steps, Results
<1>10. CASE MergeMerge(p)
  <2>1. PICK rc \in {"ok", "failed", "timeout"} :
           /\ Merge(t, rc)
           /\ \/ Finally(p, "ok")
              \/ Goto(p, "diff")
              \/ Finally(p, "raised")
    BY <1>10 DEF MergeMerge
  <2>2. QED
    BY <1>0, <2>1, MergeType, GotoType, FinallyType DEF Steps, Results
<1>11. CASE MergeDiff(p)
  BY <1>11, ReadType, GotoType, FinallyType DEF MergeDiff, Steps, Results
<1>12. CASE MergeUndo(p)
  BY <1>12, MergeAbortType, FinallyType DEF MergeUndo, Results
<1>13. CASE MergeRestore(p)
  <2>1. call[p].res \in Results
    BY DEF CallTypeOK, Frames
  <2>2. CallTypeOK'
    BY <1>13, <2>1, ReturnType DEF MergeRestore, Results
  <2>3. GitTypeOK'
    BY <1>0, <1>13, CheckoutType DEF MergeRestore, git, GitTypeOK
  <2>4. QED  BY <2>2, <2>3
<1>14. QED
  BY <1>1, <1>2, <1>3, <1>4, <1>5, <1>6, <1>7, <1>8, <1>9, <1>10, <1>11, <1>12,
     <1>13 DEF ManagerStep

LEMMA NewFrames ==
  ASSUME NEW t \in Tasks
  PROVE  /\ NoFrame(t) \in Frames
         /\ CreateCall(t) \in Frames
         /\ \A force, delete \in BOOLEAN : RemoveCall(t, force, delete) \in Frames
         /\ MergeCall(t, Main) \in Frames
BY DEF NoFrame, CreateCall, RemoveCall, MergeCall, Frames, Ops, Steps, Results, Branches

----------------------------------------------------------------------------
(* Branches and what they reach.                                           *)

\* A branch that is not there reaches nothing, and HEAD names a branch.
GitInv ==
  /\ head \in exists
  /\ \A b \in Branches \ exists : tip[b] = {}

Reachable(c) == \E b \in exists : c \in tip[b]

(* All git commands but `branch -D` only ever add branches and commits.    *)

Grows == exists \subseteq exists' /\ \A b \in Branches : tip[b] \subseteq tip'[b]

LEMMA GrowsKeepsReachable ==
  ASSUME GitTypeOK, Grows, NEW c, Reachable(c)
  PROVE  Reachable(c)'
BY DEF Grows, Reachable, GitTypeOK

LEMMA SameTipGrows ==
  ASSUME GitTypeOK, GitInv, UNCHANGED <<exists, tip, head>>
  PROVE  GitInv' /\ Grows
BY DEF GitInv, Grows

LEMMA CheckoutGrows ==
  ASSUME GitTypeOK, GitInv, NEW b \in Branches, NEW rc, Checkout(b, rc)
  PROVE  GitInv' /\ Grows
BY DEF GitTypeOK, GitInv, Grows, Checkout, CanCheckout

LEMMA MergeGrows ==
  ASSUME GitTypeOK, GitInv, NEW b \in Branches, NEW rc, Merge(b, rc)
  PROVE  GitInv' /\ Grows
<1>1. UNCHANGED <<exists, head>>
  BY DEF Merge
<1>2. UNCHANGED tip \/ Land(b)
  BY DEF Merge
<1>3. QED
  BY <1>1, <1>2 DEF GitTypeOK, GitInv, Grows, Land

LEMMA WorktreeAddGrows ==
  ASSUME GitTypeOK, GitInv, NEW t \in Tasks, NEW attach, NEW rc, WorktreeAdd(t, attach, rc)
  PROVE  GitInv' /\ Grows
<1>1. UNCHANGED head
  BY DEF WorktreeAdd
<1>2. UNCHANGED <<exists, tip>> \/ (t \notin exists /\ NewBranch(t))
  BY DEF WorktreeAdd, CanAdd
<1>3. CASE UNCHANGED <<exists, tip>>
  BY <1>1, <1>3, SameTipGrows
<1>4. CASE t \notin exists /\ NewBranch(t)
  <2>1. t \in Branches /\ tip[t] = {}
    BY <1>4 DEF GitInv, Branches
  <2>2. QED
    BY <1>1, <1>4, <2>1 DEF GitTypeOK, GitInv, Grows, NewBranch
<1>5. QED
  BY <1>2, <1>3, <1>4

\* `branch -D t` is harmless when t has landed.
LEMMA BranchDeleteSafe ==
  ASSUME GitTypeOK, GitInv, NEW t \in Tasks, NEW rc, BranchDelete(t, rc),
         tip[t] \subseteq tip[Main], NEW c, Reachable(c)
  PROVE  GitInv' /\ Reachable(c)'
<1>1. CASE UNCHANGED <<exists, tip>>
  BY <1>1 DEF BranchDelete, GitInv, Reachable
<1>2. CASE /\ t \in exists /\ head # t
           /\ exists' = exists \ {t}
           /\ tip' = [tip EXCEPT ![t] = {}]
  <2>1. GitInv'
    BY <1>2 DEF BranchDelete, GitInv, GitTypeOK, Branches
  <2>2. Main \in Branches /\ Main # t
    BY GitAssumption DEF Branches
  <2>3. CASE c \in tip[Main]
    <3>1. Main \in exists
      BY <2>2, <2>3 DEF GitInv
    <3>2. QED
      BY <1>2, <2>1, <2>2, <2>3, <3>1 DEF Reachable, GitTypeOK
  <2>4. CASE c \notin tip[Main]
    <3>1. PICK b \in exists : c \in tip[b]
      BY DEF Reachable
    <3>2. b # t /\ b \in Branches
      BY <2>4, <3>1 DEF GitTypeOK
    <3>3. QED
      BY <1>2, <2>1, <3>1, <3>2 DEF Reachable, GitTypeOK
  <2>5. QED
    BY <2>3, <2>4
<1>3. QED
  BY <1>1, <1>2 DEF BranchDelete

----------------------------------------------------------------------------
(* One step of a manager method, whoever else is in one.                   *)

LEMMA OthersStay ==
  ASSUME CallTypeOK, NEW p \in Callers, ManagerStep(p)
  PROVE  \A q \in Callers : q # p => call'[q] = call[q]
<1>1. \E f : call' = [call EXCEPT ![p] = f]
  BY DEF ManagerStep, CreateRefused, CreateProbe, CreateAdd, CreateHead, RemoveTree,
         RemoveBranch, MergeProbe, MergePrior, MergeCheckout, MergeMerge, MergeDiff,
         MergeUndo, MergeRestore, Goto, Return, Finally
<1>2. QED
  BY <1>1 DEF CallTypeOK

LEMMA BranchDeleteGitInv ==
  ASSUME GitTypeOK, GitInv, NEW t \in Tasks, NEW rc, BranchDelete(t, rc)
  PROVE  GitInv'
BY DEF BranchDelete, GitInv, GitTypeOK, Branches

LEMMA ManagerBranches ==
  ASSUME GitTypeOK, CallTypeOK, GitInv, NEW p \in Callers, ManagerStep(p)
  PROVE  GitInv' /\ (Grows \/ RemoveBranch(p))
<1> DEFINE t == call[p].task
<1>1. t \in Tasks /\ t \in Branches /\ call[p].into \in Branches /\ call[p].prior \in Branches
  BY DEF CallTypeOK, Frames, Branches
<1>2. CASE CreateAdd(p)
  BY <1>1, <1>2, WorktreeAddGrows DEF CreateAdd
<1>3. CASE RemoveBranch(p)
  BY <1>1, <1>3, BranchDeleteGitInv DEF RemoveBranch
<1>4. CASE MergeCheckout(p)
  BY <1>1, <1>4, CheckoutGrows DEF MergeCheckout
<1>5. CASE MergeMerge(p)
  BY <1>1, <1>5, MergeGrows DEF MergeMerge
<1>6. CASE MergeRestore(p)
  <2>1. UNCHANGED git \/ \E rc : Checkout(call[p].prior, rc)
    BY <1>6 DEF MergeRestore
  <2>2. QED
    BY <1>1, <2>1, CheckoutGrows, SameTipGrows DEF git
<1>7. CASE \/ CreateRefused(p) \/ CreateProbe(p) \/ CreateHead(p) \/ RemoveTree(p)
           \/ MergeProbe(p) \/ MergePrior(p) \/ MergeDiff(p) \/ MergeUndo(p)
  <2>1. UNCHANGED <<exists, tip, head>>
    BY <1>7 DEF CreateRefused, CreateProbe, CreateHead, RemoveTree, MergeProbe, MergePrior,
                MergeDiff, MergeUndo, Read, WorktreeRemove, MergeAbort, git
  <2>2. QED
    BY <2>1, SameTipGrows
<1>8. QED
  BY <1>2, <1>3, <1>4, <1>5, <1>6, <1>7 DEF ManagerStep

LEMMA ManagerFaults ==
  ASSUME GitTypeOK, NEW p \in Callers, ManagerStep(p)
  PROVE  UNCHANGED faults \/ (faults < MaxFaults /\ faults' = faults + 1)
<1> USE DEF Mishap
<1>1. CASE CreateRefused(p) \/ CreateProbe(p) \/ CreateAdd(p) \/ CreateHead(p)
  BY <1>1 DEF CreateRefused, CreateProbe, CreateAdd, CreateHead, Read, WorktreeAdd, git
<1>2. CASE RemoveTree(p) \/ RemoveBranch(p)
  BY <1>2 DEF RemoveTree, RemoveBranch, WorktreeRemove, BranchDelete, git
<1>3. CASE MergeProbe(p) \/ MergePrior(p) \/ MergeDiff(p)
  BY <1>3 DEF MergeProbe, MergePrior, MergeDiff, Read, git
<1>4. CASE MergeCheckout(p) \/ MergeRestore(p)
  BY <1>4 DEF MergeCheckout, MergeRestore, Checkout, git
<1>5. CASE MergeMerge(p)
  BY <1>5 DEF MergeMerge, Merge
<1>6. CASE MergeUndo(p)
  BY <1>6 DEF MergeUndo, MergeAbort
<1>7. QED
  BY <1>1, <1>2, <1>3, <1>4, <1>5, <1>6 DEF ManagerStep

\* The three ways in which a manager method changes what a branch reaches.
LEMMA ManagerTips ==
  ASSUME CallTypeOK, NEW p \in Callers, ManagerStep(p)
  PROVE  LET f == call[p]
             g == call'[p]
             t == f.task
         IN \/ UNCHANGED tip
            \/ f.op = "create" /\ t \notin exists /\ tip' = [tip EXCEPT ![t] = tip[head]]
            \/ f.op = "remove" /\ f.step = "branch" /\ tip' = [tip EXCEPT ![t] = {}]
            \/ /\ f.op = "merge" /\ f.step = "merge" /\ Land(t)
               /\ g.step = "restore" /\ g.res \in {"ok", "raised"}
<1> DEFINE f == call[p]
           g == call'[p]
           t == f.task
<1>1. CASE CreateAdd(p)
  BY <1>1 DEF CreateAdd, At, WorktreeAdd, CanAdd, NewBranch
<1>2. CASE RemoveBranch(p)
  BY <1>2 DEF RemoveBranch, At, BranchDelete
<1>3. CASE MergeMerge(p)
  <2>1. f.op = "merge" /\ f.step = "merge"
    BY <1>3 DEF MergeMerge, At
  <2>2. PICK rc \in {"ok", "failed", "timeout"} :
          /\ Merge(t, rc)
          /\ \/ rc = "failed"
             \/ Finally(p, "ok") \/ Finally(p, "raised")
    BY <1>3 DEF MergeMerge
  <2>3. UNCHANGED tip \/ (rc # "failed" /\ Land(t))
    BY <2>2 DEF Merge
  <2>4. CASE rc # "failed"
    <3>1. g.step = "restore" /\ g.res \in {"ok", "raised"}
      BY <2>2, <2>4 DEF Finally, CallTypeOK, Frames
    <3>2. QED
      BY <2>1, <2>3, <3>1
  <2>5. QED
    BY <2>3, <2>4
<1>4. CASE \/ CreateRefused(p) \/ CreateProbe(p) \/ CreateHead(p) \/ RemoveTree(p)
           \/ MergeProbe(p) \/ MergePrior(p) \/ MergeCheckout(p) \/ MergeDiff(p)
           \/ MergeUndo(p) \/ MergeRestore(p)
  BY <1>4 DEF CreateRefused, CreateProbe, CreateHead, RemoveTree, MergeProbe, MergePrior,
              MergeCheckout, MergeDiff, MergeUndo, MergeRestore, Read, WorktreeRemove,
              Checkout, MergeAbort, git
<1>5. QED
  BY <1>1, <1>2, <1>3, <1>4 DEF ManagerStep

\* A manager method touches the branch and the worktree of its own task only:
\* create never takes any away, merge leaves them all alone.
LEMMA ManagerTrees ==
  ASSUME NEW p \in Callers, ManagerStep(p)
  PROVE  /\ \A u : u # call[p].task =>
              /\ u \in exists' <=> u \in exists
              /\ u \in admin' <=> u \in admin
              /\ u \in dirs' <=> u \in dirs
         /\ call[p].op = "create" =>
              exists \subseteq exists' /\ admin \subseteq admin' /\ dirs \subseteq dirs'
         /\ call[p].op = "merge" => UNCHANGED <<exists, admin, dirs>>
<1>1. CASE CreateAdd(p)
  BY <1>1 DEF CreateAdd, At, WorktreeAdd, NewBranch
<1>2. CASE RemoveTree(p)
  BY <1>2 DEF RemoveTree, At, WorktreeRemove, git
<1>3. CASE RemoveBranch(p)
  BY <1>3 DEF RemoveBranch, At, BranchDelete
<1>4. CASE \/ CreateRefused(p) \/ CreateProbe(p) \/ CreateHead(p)
           \/ MergeProbe(p) \/ MergePrior(p) \/ MergeCheckout(p) \/ MergeMerge(p)
           \/ MergeDiff(p) \/ MergeUndo(p) \/ MergeRestore(p)
  <2>1. UNCHANGED <<exists, admin, dirs>>
    BY <1>4 DEF CreateRefused, CreateProbe, CreateHead, MergeProbe, MergePrior, MergeCheckout,
                MergeMerge, MergeDiff, MergeUndo, MergeRestore, Read, Checkout, Merge,
                MergeAbort, git
  <2>2. QED
    BY <2>1
<1>5. QED
  BY <1>1, <1>2, <1>3, <1>4 DEF ManagerStep

\* What merge will return can only get worse on the way out.
LEMMA ManagerOnTheWayOut ==
  ASSUME CallTypeOK, NEW p \in Callers, ManagerStep(p),
         call[p].step \in {"restore", "returned"}
  PROVE  /\ call[p].step = "restore" /\ call'[p].step = "returned"
         /\ call'[p].res \in {call[p].res, "raised"}
<1>1. MergeRestore(p)
  BY DEF ManagerStep, At, CreateRefused, CreateProbe, CreateAdd, CreateHead, RemoveTree,
         RemoveBranch, MergeProbe, MergePrior, MergeCheckout, MergeMerge, MergeDiff, MergeUndo
<1>2. QED
  BY <1>1 DEF MergeRestore, At, Return, CallTypeOK, Frames

----------------------------------------------------------------------------
(* The git commands keep registered worktrees on branches of their own.    *)

AdminInv == \A t \in admin : t \in exists /\ t # head

LEMMA CheckoutGuard ==
  ASSUME GitTypeOK, AdminInv, NEW b, NEW rc, Checkout(b, rc)
  PROVE  AdminInv'
BY DEF AdminInv, Checkout, CanCheckout

LEMMA WorktreeAddGuard ==
  ASSUME GitTypeOK, GitInv, AdminInv, NEW t, NEW attach, NEW rc,
         WorktreeAdd(t, attach, rc)
  PROVE  AdminInv'
BY DEF AdminInv, GitInv, WorktreeAdd, CanAdd, NewBranch

LEMMA WorktreeRemoveGuard ==
  ASSUME AdminInv, NEW t, NEW force, NEW rc, WorktreeRemove(t, force, rc)
  PROVE  AdminInv'
BY DEF AdminInv, WorktreeRemove

LEMMA BranchDeleteGuard ==
  ASSUME AdminInv, NEW t, NEW rc, BranchDelete(t, rc)
  PROVE  AdminInv'
BY DEF AdminInv, BranchDelete

LEMMA ManagerGuard ==
  ASSUME GitTypeOK, GitInv, AdminInv, NEW p \in Callers, ManagerStep(p)
  PROVE  AdminInv'
<1>1. CASE CreateAdd(p)
  BY <1>1, WorktreeAddGuard DEF CreateAdd
<1>2. CASE RemoveTree(p)
  <2>1. UNCHANGED git \/ \E rc : WorktreeRemove(call[p].task, call[p].force, rc)
    BY <1>2 DEF RemoveTree
  <2>2. QED
    BY <2>1, WorktreeRemoveGuard DEF git, AdminInv
<1>3. CASE RemoveBranch(p)
  BY <1>3, BranchDeleteGuard DEF RemoveBranch
<1>4. CASE MergeCheckout(p)
  BY <1>4, CheckoutGuard DEF MergeCheckout
<1>5. CASE MergeRestore(p)
  <2>1. UNCHANGED git \/ \E rc : Checkout(call[p].prior, rc)
    BY <1>5 DEF MergeRestore
  <2>2. QED
    BY <2>1, CheckoutGuard DEF git, AdminInv
<1>6. CASE \/ CreateRefused(p) \/ CreateProbe(p) \/ CreateHead(p) \/ MergeProbe(p)
           \/ MergePrior(p) \/ MergeMerge(p) \/ MergeDiff(p) \/ MergeUndo(p)
  <2>1. UNCHANGED <<exists, head, admin>>
    BY <1>6 DEF CreateRefused, CreateProbe, CreateHead, MergeProbe, MergePrior, MergeMerge,
                MergeDiff, MergeUndo, Read, Merge, MergeAbort, git
  <2>2. QED
    BY <2>1 DEF AdminInv
<1>7. QED
  BY <1>1, <1>2, <1>3, <1>4, <1>5, <1>6 DEF ManagerStep

----------------------------------------------------------------------------
(* HEAD and the index of the main working tree.                            *)

\* Between `checkout into` and the end of the finally.
Moved == {"merge", "diff", "abort", "restore"}

\* The steps of a manager method as far as HEAD goes.
LEMMA ManagerHead ==
  ASSUME CallTypeOK, NEW p \in Callers, ManagerStep(p)
  PROVE  LET f == call[p]
             g == call'[p]
         IN \/ /\ f.step \notin Moved \cup {"checkout"}
               /\ g.step \notin Moved
               /\ g.step = "checkout" => g.prior = head /\ UNCHANGED <<exists, admin>>
               /\ UNCHANGED head
            \/ /\ f.step = "checkout" /\ g.step = "merge" /\ head' = f.into
               /\ g.prior = f.prior /\ index' = "clean"
               /\ UNCHANGED <<exists, admin>>
            \/ /\ f.step = "checkout" /\ g.step = "returned"
               /\ UNCHANGED head \/ (faults < MaxFaults /\ faults' = faults + 1)
               /\ UNCHANGED <<exists, admin>>
            \/ /\ f.step \in Moved /\ g.step \in Moved \ {"merge"}
               /\ g.prior = f.prior
               /\ UNCHANGED <<head, exists, admin>>
            \/ /\ f.step = "restore" /\ g.step = "returned"
               /\ \/ f.prior = f.into /\ UNCHANGED head
                  \/ head' = f.prior
                  \/ ~CanCheckout(f.prior)
                  \/ faults < MaxFaults /\ faults' = faults + 1
<1> DEFINE f == call[p]
           g == call'[p]
<1> USE DEF At, CallTypeOK, Frames, Moved
<1>a. MergeMerge(p) => Finally(p, "ok") \/ Goto(p, "diff") \/ Finally(p, "raised")
  BY DEF MergeMerge
<1>1. CASE CreateRefused(p)
  BY <1>1 DEF CreateRefused, Return, git
<1>2. CASE CreateProbe(p)
  BY <1>2 DEF CreateProbe, Return, Read
<1>3. CASE CreateAdd(p)
  BY <1>3 DEF CreateAdd, Return, Goto, WorktreeAdd
<1>4. CASE CreateHead(p)
  BY <1>4 DEF CreateHead, Return, Read
<1>5. CASE RemoveTree(p)
  <2>1. UNCHANGED head
    BY <1>5 DEF RemoveTree, WorktreeRemove, git
  <2>2. QED
    BY <1>5, <2>1 DEF RemoveTree, Return, Goto
<1>6. CASE RemoveBranch(p)
  BY <1>6 DEF RemoveBranch, Return, BranchDelete
<1>7. CASE MergeProbe(p)
  <2>1. UNCHANGED head
    BY <1>7 DEF MergeProbe, Read, git
  <2>2. QED
    BY <1>7, <2>1 DEF MergeProbe, Return, Goto
<1>8. CASE MergePrior(p)
  BY <1>8 DEF MergePrior, Return, Read
<1>9. CASE MergeCheckout(p)
  <2>1. PICK rc \in {"ok", "failed", "timeout"} :
          /\ Checkout(f.into, rc)
          /\ IF rc = "ok" THEN Goto(p, "merge") ELSE Return(p, "raised")
    BY <1>9 DEF MergeCheckout
  <2>2. CASE rc = "ok"
    BY <1>9, <2>1, <2>2 DEF MergeCheckout, Goto, Checkout, CanCheckout
  <2>3. CASE rc # "ok"
    BY <1>9, <2>1, <2>3 DEF MergeCheckout, Return, Checkout, Mishap
  <2>4. QED
    BY <2>2, <2>3
<1>10. CASE MergeMerge(p)
  <2>1. UNCHANGED <<head, exists, admin>>
    BY <1>10 DEF MergeMerge, Merge
  <2>2. f.step = "merge"
    BY <1>10 DEF MergeMerge
  <2>3. QED
    BY <1>a, <1>10, <2>1, <2>2 DEF Goto, Finally
<1>11. CASE MergeDiff(p)
  BY <1>11 DEF MergeDiff, Goto, Finally, Read
<1>12. CASE MergeUndo(p)
  BY <1>12 DEF MergeUndo, Finally, MergeAbort
<1>13. CASE MergeRestore(p)
  BY <1>13 DEF MergeRestore, Return, Checkout, Mishap, git
<1>14. QED
  BY <1>1, <1>2, <1>3, <1>4, <1>5, <1>6, <1>7, <1>8, <1>9, <1>10, <1>11, <1>12, <1>13
  DEF ManagerStep

\* The steps of a manager method as far as the index goes, if git is not
\* disturbed.
LEMMA ManagerIndex ==
  ASSUME GitTypeOK, CallTypeOK, NEW p \in Callers, ManagerStep(p), faults' = faults
  PROVE  LET f == call[p]
             g == call'[p]
         IN \/ UNCHANGED index /\ (f.step \in {"diff", "abort"} => g.step \in {"diff", "abort"})
            \/ index' = "unmerged" /\ g.step = "diff"
            \/ index = "unmerged" /\ index' = "clean"
            \/ index # "unmerged" /\ index' = index
<1> DEFINE f == call[p]
           g == call'[p]
<1>1. CASE MergeMerge(p)
  <2>1. PICK rc \in {"ok", "failed", "timeout"} :
          Merge(call[p].task, rc) /\ (rc = "failed" => Goto(p, "diff"))
    BY <1>1 DEF MergeMerge
  <2>2. f.step = "merge"
    BY <1>1 DEF MergeMerge, At
  <2>3. index' = index \/ (rc = "failed" /\ index' = "unmerged")
    BY <2>1 DEF Merge, Mishap, GitTypeOK
  <2>4. rc = "failed" => g.step = "diff"
    BY <2>1 DEF Goto, CallTypeOK, Frames
  <2>5. QED
    BY <2>2, <2>3, <2>4
<1>2. CASE MergeDiff(p)
  BY <1>2 DEF MergeDiff, Read, Mishap, Goto, CallTypeOK, Frames, GitTypeOK
<1>3. CASE MergeUndo(p)
  BY <1>3 DEF MergeUndo, MergeAbort, Mishap, GitTypeOK
<1>4. CASE \/ CreateRefused(p) \/ CreateProbe(p) \/ CreateAdd(p) \/ CreateHead(p)
           \/ RemoveTree(p) \/ RemoveBranch(p) \/ MergeProbe(p) \/ MergePrior(p)
  BY <1>4 DEF CreateRefused, CreateProbe, CreateAdd, CreateHead, RemoveTree, RemoveBranch,
              MergeProbe, MergePrior, At, Read, WorktreeAdd, WorktreeRemove, BranchDelete, git
<1>5. CASE MergeCheckout(p) \/ MergeRestore(p)
  BY <1>5 DEF MergeCheckout, MergeRestore, At, Checkout, Mishap, git, GitTypeOK
<1>6. QED
  BY <1>1, <1>2, <1>3, <1>4, <1>5 DEF ManagerStep
=============================================================================
