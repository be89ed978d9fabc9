------------------------- MODULE WorktreeCLIProofs -------------------------
(***************************************************************************)
(* Theorems about WorktreeCLI, for every set of tasks, any number of       *)
(* processes that overlap at will, and any number of commits, refusals and *)
(* timeouts.  The inductive invariant has four layers: the repository is   *)
(* well formed and no registered worktree shares its branch; a frame knows *)
(* what it was called for; an unfinished merge always has a process on the *)
(* way to `merge --abort`; and, while no two merges overlap, HEAD is where *)
(* the user put it or where the one merge under way means to restore it    *)
(* from, and the branch the user is on is still there to go back to.       *)
(***************************************************************************)
EXTENDS WorktreeCLI, WorktreeProofs, TLAPS

FrameInv ==
  \A p \in Callers :
    LET f == call[p]
    IN /\ f.step \notin {"idle", "restore", "returned"} => f.res = "none"
       /\ f.step \in Moved \cup {"checkout"} => f.op = "merge"
       /\ f.step = "branch" => f.delete_branch

UnmergedInv ==
  faults = 0 =>
    /\ index # "locked"
    /\ index = "unmerged" => \E p \in Callers : call[p].step \in {"diff", "abort"}

SoloInv ==
  /\ "calls" \notin overlapped => \A p, q \in Callers : p = q \/ Idle(p) \/ Idle(q)
  /\ "merges" \notin overlapped => \A p, q \in Callers : p = q \/ ~Merging(p) \/ ~Merging(q)

MergeHeadInv ==
  "merges" \notin overlapped =>
    \A p \in Callers : call[p].step = "merge" => head = call[p].into

RestoreInv ==
  Undisturbed /\ faults = 0 =>
    /\ (\A p \in Callers : call[p].step \notin Moved) => head = userHead
    /\ \A p \in Callers :
         /\ call[p].step \in Moved => head = call[p].into
         /\ call[p].step \in Moved \cup {"checkout"}
              => call[p].prior = userHead /\ userHead \in exists \ admin

\* No registered worktree loses its branch or shares it with the main tree.
BranchesHeld == \A t \in admin : t \in exists /\ t # head

WorldOK ==
  /\ GitTypeOK /\ CallTypeOK
  /\ launches \in Nat
  /\ userHead \in Branches /\ overlapped \in SUBSET {"calls", "merges"}

\* A create on its way out, of the worktree it has made itself.
Fresh(p) == call[p].step = "head" /\ p \notin stale

\* A worktree that was handed out, or is about to be, is there; and it was or
\* will be handed out by one create only.
HandInv ==
  /\ handed \subseteq Tasks /\ stale \subseteq Callers
  /\ handed \subseteq admin \cup dirs
  /\ \A p \in Callers : Fresh(p) => call[p].task \in (admin \cup dirs) \ handed
  /\ \A p, q \in Callers : Fresh(p) /\ Fresh(q) /\ call[p].task = call[q].task => p = q

BaseInv == WorldOK /\ GitInv /\ BranchesHeld /\ FrameInv

CLIInv == BaseInv /\ HandInv /\ UnmergedInv /\ SoloInv /\ MergeHeadInv /\ RestoreInv

----------------------------------------------------------------------------
(* The frames.                                                             *)

LEMMA LaunchedCall ==
  ASSUME CallTypeOK, NEW p \in Callers, Launch(p)
  PROVE  /\ CallTypeOK'
         /\ \A q \in Callers : q # p => call'[q] = call[q]
         /\ call'[p].res = "none"
         /\ call'[p].step \in {"probe", "tree"}
<1>1. PICK t \in Tasks :
         \/ call' = [call EXCEPT ![p] = CreateCall(t)]
         \/ \E force, delete \in BOOLEAN :
              call' = [call EXCEPT ![p] = RemoveCall(t, force, delete)]
         \/ call' = [call EXCEPT ![p] = MergeCall(t, Main)]
  BY DEF Launch
<1>2. ASSUME NEW f \in Frames, call' = [call EXCEPT ![p] = f],
             f.res = "none", f.step \in {"probe", "tree"}
      PROVE  /\ CallTypeOK'
             /\ \A q \in Callers : q # p => call'[q] = call[q]
             /\ call'[p].res = "none"
             /\ call'[p].step \in {"probe", "tree"}
  BY <1>2 DEF CallTypeOK
<1>3. CASE call' = [call EXCEPT ![p] = CreateCall(t)]
  BY <1>2, <1>3, NewFrames DEF CreateCall, NoFrame
<1>4. ASSUME NEW force \in BOOLEAN, NEW delete \in BOOLEAN,
             call' = [call EXCEPT ![p] = RemoveCall(t, force, delete)]
      PROVE  /\ CallTypeOK'
             /\ \A q \in Callers : q # p => call'[q] = call[q]
             /\ call'[p].res = "none"
             /\ call'[p].step \in {"probe", "tree"}
  BY <1>2, <1>4, NewFrames DEF RemoveCall, NoFrame
<1>5. CASE call' = [call EXCEPT ![p] = MergeCall(t, Main)]
  BY <1>2, <1>5, NewFrames DEF MergeCall, NoFrame
<1>6. QED
  BY <1>1, <1>3, <1>4, <1>5

\* Where a method goes from each of its statements; what it returns is decided
\* on the way out only.
LEMMA ManagerFrame ==
  ASSUME CallTypeOK, FrameInv, NEW p \in Callers, ManagerStep(p)
  PROVE  FrameInv'
<1> DEFINE f == call[p]
           g == call'[p]
<1> USE DEF At, CallTypeOK, Frames
<1>1. \A q \in Callers : q # p => call'[q] = call[q]
  BY OthersStay
<1>2. SUFFICES /\ g.step \notin {"idle", "restore", "returned"} => g.res = "none"
               /\ g.step \in Moved \cup {"checkout"} => g.op = "merge"
               /\ g.step = "branch" => g.delete_branch
  BY <1>1 DEF FrameInv
<1>3. g.op = f.op /\ g.delete_branch = f.delete_branch
  BY ManagerSameCall DEF SameCall
<1>4. f.step \notin {"idle", "restore", "returned"} => f.res = "none"
  BY DEF FrameInv
<1>a. MergeMerge(p) => Finally(p, "ok") \/ Goto(p, "diff") \/ Finally(p, "raised")
  BY DEF MergeMerge
<1> USE DEF Goto, Return, Finally, Moved
<1>5. CASE CreateRefused(p) \/ CreateHead(p) \/ RemoveBranch(p) \/ MergeRestore(p)
  BY <1>5 DEF CreateRefused, CreateHead, RemoveBranch, MergeRestore
<1>6. CASE CreateProbe(p)
  <2>1. g.step = "returned" \/ (g.step = "add" /\ g.res = f.res)
    BY <1>6 DEF CreateProbe
  <2>2. QED
    BY <1>4, <1>6, <2>1 DEF CreateProbe
<1>7. CASE CreateAdd(p)
  BY <1>4, <1>7 DEF CreateAdd
<1>8. CASE RemoveTree(p)
  <2>1. g.step = "returned" \/ (g.step = "branch" /\ g.res = f.res /\ f.delete_branch)
    BY <1>8 DEF RemoveTree
  <2>2. QED
    BY <1>3, <1>4, <1>8, <2>1 DEF RemoveTree
<1>9. CASE MergeProbe(p)
  BY <1>4, <1>9 DEF MergeProbe
<1>10. CASE MergePrior(p)
  <2>1. g.step = "returned" \/ (g.step = "checkout" /\ g.res = f.res)
    BY <1>10 DEF MergePrior
  <2>2. QED
    BY <1>3, <1>4, <1>10, <2>1 DEF MergePrior
<1>11. CASE MergeCheckout(p)
  BY <1>3, <1>4, <1>11 DEF MergeCheckout
<1>12. CASE MergeMerge(p)
  <2>1. g.step = "restore" \/ (g.step = "diff" /\ g.res = f.res)
    BY <1>a, <1>12
  <2>2. QED
    BY <1>3, <1>4, <1>12, <2>1 DEF MergeMerge
<1>13. CASE MergeDiff(p)
  BY <1>3, <1>4, <1>13 DEF MergeDiff
<1>14. CASE MergeUndo(p)
  BY <1>3, <1>14 DEF MergeUndo
<1>15. QED
  BY <1>5, <1>6, <1>7, <1>8, <1>9, <1>10, <1>11, <1>12, <1>13, <1>14 DEF ManagerStep

----------------------------------------------------------------------------
(* The first layers.                                                       *)

LEMMA BaseInit == Init => BaseInv
<1> SUFFICES ASSUME Init PROVE BaseInv
  OBVIOUS
<1>1. exists \subseteq Branches /\ head \in exists /\ admin = {} /\ index = "clean"
  BY GitAssumption DEF Init, GitInit, Branches
<1>2. tip \in [Branches -> SUBSET Commits] /\ \A b \in Branches \ exists : tip[b] = {}
  BY DEF Init, GitInit, Commits, Branches
<1>3. GitTypeOK
  BY <1>1, <1>2 DEF Init, GitInit, GitTypeOK
<1>4. \A t \in Tasks : NoFrame(t) \in Frames /\ NoFrame(t).step = "idle"
  BY NewFrames DEF NoFrame
<1>5. \A p \in Callers : call[p] \in Frames /\ call[p].step = "idle"
  BY <1>4, GitAssumption DEF Init, WorktreeInit
<1>6. CallTypeOK
  BY <1>4, GitAssumption DEF Init, WorktreeInit, CallTypeOK
<1>7. QED
  BY <1>1, <1>2, <1>3, <1>5, <1>6
  DEF Init, BaseInv, WorldOK, GitTypeOK, GitInv, BranchesHeld, FrameInv, Moved

LEMMA BaseNext ==
  ASSUME BaseInv, [Next]_vars
  PROVE  BaseInv'
<1> USE DEF BaseInv, WorldOK
<1>1. ASSUME NEW p \in Callers, Launch(p)  PROVE BaseInv'
  <2>1. CallTypeOK' /\ FrameInv'
    BY <1>1, LaunchedCall DEF FrameInv, Moved
  <2>2. overlapped' \in SUBSET {"calls", "merges"}
    BY <1>1 DEF Launch
  <2>3. launches' \in Nat /\ UNCHANGED <<git, userHead>>
    BY <1>1 DEF Launch
  <2>4. QED
    BY <2>1, <2>2, <2>3 DEF git, GitTypeOK, GitInv, BranchesHeld
<1>2. ASSUME NEW p \in Callers, Step(p)  PROVE BaseInv'
  BY <1>2, ManagerType, ManagerBranches, ManagerGuard, ManagerFrame
  DEF Step, cli, BranchesHeld, AdminInv
<1>3. ASSUME NEW p \in Callers, Exit(p)  PROVE BaseInv'
  <2>1. CallTypeOK'
    BY <1>3, GotoType DEF Exit, Steps
  <2>2. FrameInv'
    BY <1>3 DEF Exit, Goto, FrameInv, CallTypeOK, Frames, Moved
  <2>3. QED
    BY <1>3, <2>1, <2>2 DEF Exit, git, cli, GitTypeOK, GitInv, BranchesHeld
<1>4. CASE Prune
  BY <1>4 DEF Prune, cli, GitTypeOK, GitInv, BranchesHeld, CallTypeOK, FrameInv
<1>5. CASE UserCommit
  <2>1. PICK n \in 1..MaxCommits : tip' = [tip EXCEPT ![head] = @ \cup {<<head, n>>}]
    BY <1>5 DEF UserCommit
  <2>2. <<head, n>> \in Commits
    BY CLIAssumption DEF GitTypeOK, Commits
  <2>3. GitTypeOK' /\ GitInv'
    BY <1>5, <2>1, <2>2 DEF UserCommit, GitTypeOK, GitInv
  <2>4. QED
    BY <1>5, <2>3 DEF UserCommit, cli, BranchesHeld, CallTypeOK, FrameInv
<1>6. ASSUME NEW t \in Tasks, WriteIsolation(t)  PROVE BaseInv'
  BY <1>6 DEF WriteIsolation, cli, GitTypeOK, GitInv, BranchesHeld, CallTypeOK, FrameInv
<1>7. ASSUME NEW t \in Tasks, AgentCommit(t)  PROVE BaseInv'
  <2>1. PICK n \in 1..MaxCommits : CommitIn(t, n)
    BY <1>7 DEF AgentCommit
  <2>2. <<t, n>> \in Commits
    BY CLIAssumption DEF Commits, Branches
  <2>3. GitTypeOK' /\ GitInv'
    BY <2>1, <2>2 DEF CommitIn, GitTypeOK, GitInv
  <2>4. QED
    BY <1>7, <2>1, <2>3 DEF AgentCommit, CommitIn, cli, BranchesHeld, CallTypeOK, FrameInv
<1>8. ASSUME NEW t \in Tasks, UserDeletesDir(t)  PROVE BaseInv'
  BY <1>8 DEF UserDeletesDir, cli, GitTypeOK, GitInv, BranchesHeld, CallTypeOK, FrameInv
<1>9. ASSUME NEW b \in Branches, UserCheckout(b)  PROVE BaseInv'
  BY <1>9 DEF UserCheckout, CanCheckout, GitTypeOK, GitInv, BranchesHeld, CallTypeOK, FrameInv
<1>10. CASE UNCHANGED vars
  BY <1>10 DEF vars, git, cli, GitTypeOK, GitInv, BranchesHeld, CallTypeOK, FrameInv
<1>11. QED
  BY <1>1, <1>2, <1>3, <1>4, <1>5, <1>6, <1>7, <1>8, <1>9, <1>10 DEF Next, Act

----------------------------------------------------------------------------
(* Only a `branch -D` that was asked for makes a commit unreachable.       *)

LEMMA OnlyBranchDeleteDrops ==
  ASSUME BaseInv, [Next]_vars,
         NEW t \in Tasks, NEW c \in tip[t], \A b \in Branches : c \notin tip'[b]
  PROVE  \E p \in Callers : RemoveBranch(p) /\ call[p].task = t
<1> USE DEF BaseInv, WorldOK
<1>1. t \in Branches
  BY DEF Branches
<1>2. ~Grows
  BY <1>1 DEF Grows
<1>3. ASSUME UNCHANGED <<exists, tip>>  PROVE FALSE
  BY <1>2, <1>3 DEF Grows
<1>4. ~UserCommit
  BY <1>2 DEF UserCommit, Grows, GitTypeOK
<1>5. \A u \in Tasks : ~AgentCommit(u)
  BY <1>2 DEF AgentCommit, CommitIn, Grows, GitTypeOK
<1>6. PICK p \in Callers : Step(p)
  BY <1>3, <1>4, <1>5
  DEF Next, Act, Launch, Exit, Prune, WriteIsolation, UserDeletesDir, UserCheckout, vars, git
<1>7. RemoveBranch(p)
  BY <1>2, <1>6, ManagerBranches DEF Step
<1>8. tip' = tip \/ tip' = [tip EXCEPT ![call[p].task] = {}]
  BY <1>7 DEF RemoveBranch, BranchDelete
<1>9. QED
  BY <1>1, <1>7, <1>8 DEF GitTypeOK

\* Removing a worktree never costs a commit unless --delete-branch was given:
\* whatever runs beside it, a commit only becomes unreachable in the
\* `branch -D` of a process told to delete that very branch.
THEOREM DeletedOnlyOnRequestHolds == Spec => DeletedOnlyOnRequest
<1> DEFINE Asked ==
      \A t \in Tasks : \A c \in tip[t] :
        (\A b \in Branches : c \notin tip'[b])
          => \E p \in Callers : /\ call[p].task = t /\ call[p].delete_branch
                                /\ call[p].step = "branch"
<1>1. BaseInv /\ [Next]_vars => [Asked]_vars
  <2>1. ASSUME BaseInv, [Next]_vars, NEW t \in Tasks, NEW c \in tip[t],
               \A b \in Branches : c \notin tip'[b]
        PROVE  \E p \in Callers : /\ call[p].task = t /\ call[p].delete_branch
                                  /\ call[p].step = "branch"
    BY <2>1, OnlyBranchDeleteDrops DEF BaseInv, FrameInv, RemoveBranch, At
  <2>2. QED
    BY <2>1
<1>2. QED
  BY <1>1, BaseInit, BaseNext, PTL DEF Spec, DeletedOnlyOnRequest

----------------------------------------------------------------------------
(* No two merges at the same time.                                         *)

LEMMA SoloNext ==
  ASSUME CallTypeOK, SoloInv, [Next]_vars
  PROVE  SoloInv'
<1>1. ASSUME NEW p \in Callers, Launch(p)  PROVE SoloInv'
  <2>1. \A q \in Callers : q # p => call'[q] = call[q]
    BY <1>1, LaunchedCall
  <2>2. /\ overlapped \subseteq overlapped'
        /\ ~Quiet => "calls" \in overlapped'
        /\ call'[p].op = "merge" /\ (\E q \in Callers : Merging(q)) => "merges" \in overlapped'
    BY <1>1 DEF Launch
  <2>3. "calls" \notin overlapped' =>
          \A a, b \in Callers : a = b \/ Idle(a)' \/ Idle(b)'
    BY <2>1, <2>2 DEF Quiet, Idle
  <2>4. ASSUME NEW a \in Callers, NEW b \in Callers, a # b, Merging(a)', Merging(b)'
        PROVE  "merges" \in overlapped'
    <3>1. CASE a # p /\ b # p
      BY <2>1, <2>2, <2>4, <3>1 DEF SoloInv, Merging, Idle
    <3>2. CASE a = p
      BY <2>1, <2>2, <2>4, <3>2 DEF Merging, Idle
    <3>3. CASE b = p
      BY <2>1, <2>2, <2>4, <3>3 DEF Merging, Idle
    <3>4. QED
      BY <3>1, <3>2, <3>3
  <2>5. QED
    BY <2>3, <2>4 DEF SoloInv
<1>2. ASSUME NEW p \in Callers, Step(p)  PROVE SoloInv'
  <2>1. \A q \in Callers : q # p => call'[q] = call[q]
    BY <1>2, OthersStay DEF Step
  <2>2. ~Idle(p) /\ call'[p].op = call[p].op /\ UNCHANGED overlapped
    BY <1>2, ManagerSameCall DEF Step, cli, SameCall, Idle
  <2>3. QED
    BY <2>1, <2>2 DEF SoloInv, Merging, Idle
<1>3. ASSUME NEW p \in Callers, Exit(p)  PROVE SoloInv'
  BY <1>3 DEF Exit, Goto, cli, SoloInv, Merging, Idle, CallTypeOK, Frames
<1>4. ASSUME NEW b \in Branches, UserCheckout(b)  PROVE SoloInv'
  BY <1>4 DEF UserCheckout, Quiet, SoloInv, Merging, Idle
<1>5. CASE UNCHANGED <<call, overlapped>>
  BY <1>5 DEF SoloInv, Merging, Idle
<1>6. QED
  BY <1>1, <1>2, <1>3, <1>4, <1>5
  DEF Next, Act, Prune, UserCommit, WriteIsolation, AgentCommit, UserDeletesDir, vars, cli

LEMMA SameHeadKeeps ==
  ASSUME MergeHeadInv, RestoreInv,
         UNCHANGED <<head, exists, call, faults, userHead, overlapped>>, admin' \subseteq admin
  PROVE  MergeHeadInv' /\ RestoreInv'
BY DEF MergeHeadInv, RestoreInv, Undisturbed

LEMMA HeadNext ==
  ASSUME BaseInv, BaseInv', UnmergedInv, SoloInv, MergeHeadInv, RestoreInv, [Next]_vars
  PROVE  MergeHeadInv' /\ RestoreInv'
<1> USE DEF BaseInv, WorldOK
<1>1. ASSUME NEW p \in Callers, Launch(p)  PROVE MergeHeadInv' /\ RestoreInv'
  <2>1. /\ call'[p].step \in {"probe", "tree"}
        /\ \A q \in Callers : q # p => call'[q] = call[q]
    BY <1>1, LaunchedCall
  <2>2. /\ UNCHANGED <<head, exists, admin, faults, userHead>>
        /\ overlapped \subseteq overlapped'
        /\ call[p].step = "idle"
    BY <1>1 DEF Launch, git, Idle
  <2>3. QED
    BY <2>1, <2>2 DEF MergeHeadInv, RestoreInv, Undisturbed, Moved
<1>2. ASSUME NEW p \in Callers, Step(p)  PROVE MergeHeadInv' /\ RestoreInv'
  <2> DEFINE f == call[p]
             g == call'[p]
  <2>0. UNCHANGED <<userHead, overlapped>> /\ ManagerStep(p)
    BY <1>2 DEF Step, cli
  <2>1. SUFFICES ASSUME "merges" \notin overlapped  PROVE MergeHeadInv' /\ RestoreInv'
    BY <2>0 DEF MergeHeadInv, RestoreInv, Undisturbed
  <2>2. f.step # "idle" /\ g.into = f.into /\ g.op = f.op
    BY <2>0, ManagerSameCall DEF SameCall
  <2>a. \A q \in Callers : q # p => call'[q] = call[q]
    BY <2>0, OthersStay
  <2>4. faults' = 0 => faults = 0 /\ ~(faults < MaxFaults /\ faults' = faults + 1)
    <3>1. faults' \in Nat /\ (faults' = faults \/ faults' = faults + 1)
      BY <2>0, ManagerFaults DEF GitTypeOK
    <3>2. QED
      BY <3>1 DEF GitTypeOK
  <2>5. CASE f.op # "merge"
    <3>1. /\ f.step \notin Moved \cup {"checkout"} /\ g.step \notin Moved \cup {"checkout"}
          /\ UNCHANGED head
      BY <2>0, <2>2, <2>5, ManagerHead DEF FrameInv, Moved
    <3>2. MergeHeadInv'
      BY <2>0, <2>a, <3>1 DEF MergeHeadInv, Moved
    <3>3. ASSUME Undisturbed, faults' = 0, NEW q \in Callers,
                 call'[q].step \in Moved \cup {"checkout"}
          PROVE  call[q].prior = userHead /\ userHead \in exists' \ admin'
      <4>1. q # p /\ call[q].step \in Moved \cup {"checkout"}
        BY <2>a, <3>1, <3>3
      <4>2. call[q].prior = userHead /\ userHead \in exists \ admin
        BY <2>4, <3>3, <4>1 DEF RestoreInv
      <4>3. userHead # f.task
        <5>1. ~Idle(p) /\ ~Idle(q)
          BY <2>2, <4>1 DEF Idle, Moved
        <5>2. userHead \notin Tasks
          BY <3>3, <4>1, <5>1 DEF SoloInv, Undisturbed
        <5>3. f.task \in Tasks
          BY DEF CallTypeOK, Frames
        <5>4. QED
          BY <5>2, <5>3
      <4>4. QED
        BY <2>0, <4>2, <4>3, ManagerTrees
    <3>4. ASSUME Undisturbed, faults' = 0
          PROVE  /\ (\A q \in Callers : call'[q].step \notin Moved) => head' = userHead
                 /\ \A q \in Callers : call'[q].step \in Moved => head' = call'[q].into
      BY <2>a, <2>4, <3>1, <3>4 DEF RestoreInv
    <3>5. RestoreInv'
      BY <2>0, <2>a, <3>1, <3>3, <3>4 DEF RestoreInv, Undisturbed
    <3>6. QED
      BY <3>2, <3>5
  <2>b. SUFFICES ASSUME f.op = "merge"  PROVE MergeHeadInv' /\ RestoreInv'
    BY <2>5
  <2>3. \A q \in Callers : q # p =>
          call'[q] = call[q] /\ call[q].step \notin Moved \cup {"checkout"}
    <3>1. \A q \in Callers : call[q].step \in Moved \cup {"checkout"} => Merging(q)
      BY DEF FrameInv, Merging, Idle, Moved
    <3>2. Merging(p)
      BY <2>2, <2>b DEF Merging, Idle
    <3>3. QED
      BY <2>1, <2>a, <3>1, <3>2 DEF SoloInv
  <2>6. CASE /\ f.step \notin Moved \cup {"checkout"}
             /\ g.step \notin Moved
             /\ g.step = "checkout" => g.prior = head /\ UNCHANGED <<exists, admin>>
             /\ UNCHANGED head
    <3>1. MergeHeadInv'
      BY <2>3, <2>6 DEF MergeHeadInv, Moved
    <3>2. ASSUME faults' = 0, Undisturbed  PROVE head = userHead /\ head \in exists \ admin
      <4>1. head = userHead
        BY <2>1, <2>3, <2>4, <2>6, <3>2 DEF RestoreInv, Moved
      <4>2. QED
        BY <4>1 DEF GitInv, GitTypeOK, BranchesHeld
    <3>3. RestoreInv'
      BY <2>0, <2>3, <2>6, <3>2 DEF RestoreInv, Undisturbed, Moved
    <3>4. QED
      BY <3>1, <3>3
  <2>7. CASE /\ f.step = "checkout" /\ g.step = "merge" /\ head' = f.into
             /\ g.prior = f.prior /\ UNCHANGED <<exists, admin>>
    <3>1. MergeHeadInv'
      BY <2>2, <2>3, <2>7 DEF MergeHeadInv, Moved
    <3>2. ASSUME faults' = 0, Undisturbed  PROVE f.prior = userHead /\ userHead \in exists \ admin
      BY <2>1, <2>4, <2>7, <3>2 DEF RestoreInv
    <3>3. RestoreInv'
      BY <2>0, <2>2, <2>3, <2>7, <3>2 DEF RestoreInv, Undisturbed, Moved
    <3>4. QED
      BY <3>1, <3>3
  <2>8. CASE /\ f.step = "checkout" /\ g.step = "returned"
             /\ UNCHANGED head \/ (faults < MaxFaults /\ faults' = faults + 1)
    <3>1. MergeHeadInv'
      BY <2>3, <2>8 DEF MergeHeadInv, Moved
    <3>2. ASSUME faults' = 0, Undisturbed  PROVE head' = userHead
      BY <2>1, <2>3, <2>4, <2>8, <3>2 DEF RestoreInv, Moved
    <3>3. RestoreInv'
      BY <2>0, <2>3, <2>8, <3>2 DEF RestoreInv, Undisturbed, Moved
    <3>4. QED
      BY <3>1, <3>3
  <2>9. CASE /\ f.step \in Moved /\ g.step \in Moved \ {"merge"} /\ g.prior = f.prior
             /\ UNCHANGED <<head, exists, admin>>
    <3>1. MergeHeadInv'
      BY <2>3, <2>9 DEF MergeHeadInv, Moved
    <3>2. ASSUME faults' = 0, Undisturbed
          PROVE  head = f.into /\ f.prior = userHead /\ userHead \in exists \ admin
      BY <2>1, <2>4, <2>9, <3>2 DEF RestoreInv
    <3>3. RestoreInv'
      BY <2>0, <2>2, <2>3, <2>9, <3>2 DEF RestoreInv, Undisturbed, Moved
    <3>4. QED
      BY <3>1, <3>3
  <2>10. CASE /\ f.step = "restore" /\ g.step = "returned"
              /\ \/ f.prior = f.into /\ UNCHANGED head
                 \/ head' = f.prior
                 \/ ~CanCheckout(f.prior)
                 \/ faults < MaxFaults /\ faults' = faults + 1
    <3>1. MergeHeadInv'
      BY <2>3, <2>10 DEF MergeHeadInv, Moved
    <3>2. ASSUME faults' = 0, Undisturbed  PROVE head' = userHead
      <4>1. head = f.into /\ f.prior = userHead /\ userHead \in exists \ admin
        BY <2>1, <2>4, <2>10, <3>2 DEF RestoreInv, Moved
      <4>2. index = "clean"
        BY <2>3, <2>4, <2>10, <3>2 DEF UnmergedInv, GitTypeOK, Moved
      <4>3. QED
        BY <2>4, <2>10, <3>2, <4>1, <4>2 DEF CanCheckout
    <3>3. RestoreInv'
      BY <2>0, <2>3, <2>10, <3>2 DEF RestoreInv, Undisturbed, Moved
    <3>4. QED
      BY <3>1, <3>3
  <2>11. QED
    BY <2>0, <2>6, <2>7, <2>8, <2>9, <2>10, ManagerHead
<1>3. ASSUME NEW p \in Callers, Exit(p)  PROVE MergeHeadInv' /\ RestoreInv'
  <2>1. /\ call[p].step = "returned" /\ call'[p].step = "idle"
        /\ \A q \in Callers : q # p => call'[q] = call[q]
        /\ UNCHANGED <<head, exists, admin, faults, userHead, overlapped>>
    BY <1>3 DEF Exit, Returned, Goto, git, cli, CallTypeOK, Frames
  <2>2. QED
    BY <2>1 DEF MergeHeadInv, RestoreInv, Undisturbed, Moved
<1>4. ASSUME NEW b \in Branches, UserCheckout(b)  PROVE MergeHeadInv' /\ RestoreInv'
  BY <1>4 DEF UserCheckout, Quiet, Idle, MergeHeadInv, RestoreInv, Undisturbed, Moved
<1>5. ASSUME NEW t \in Tasks, AgentCommit(t)  PROVE MergeHeadInv' /\ RestoreInv'
  BY <1>5, SameHeadKeeps DEF AgentCommit, CommitIn, cli
<1>6. CASE \/ Prune \/ UserCommit \/ UNCHANGED vars
           \/ \E t \in Tasks : WriteIsolation(t) \/ UserDeletesDir(t)
  BY <1>6, SameHeadKeeps DEF Prune, UserCommit, WriteIsolation, UserDeletesDir, vars, git, cli
<1>7. QED
  BY <1>1, <1>2, <1>3, <1>4, <1>5, <1>6 DEF Next, Act

----------------------------------------------------------------------------
(* An unfinished merge is on its way to be undone, by its own process or   *)
(* by another whose merge was refused over it.                             *)

LEMMA ManagerUnmerged ==
  ASSUME BaseInv, UnmergedInv, NEW p \in Callers, ManagerStep(p)
  PROVE  UnmergedInv'
<1> USE DEF BaseInv, WorldOK
<1>1. \A q \in Callers : q # p => call'[q] = call[q]
  BY OthersStay
<1>2. SUFFICES ASSUME faults' = 0
               PROVE  /\ index' # "locked"
                      /\ index' = "unmerged"
                           => \E q \in Callers : call'[q].step \in {"diff", "abort"}
  BY DEF UnmergedInv
<1>3. faults = 0 /\ faults' = faults
  BY <1>2, ManagerFaults DEF GitTypeOK
<1>4. /\ index # "locked"
      /\ index = "unmerged" => \E q \in Callers : call[q].step \in {"diff", "abort"}
  BY <1>3 DEF UnmergedInv
<1>5. QED
  BY <1>1, <1>3, <1>4, ManagerIndex DEF GitTypeOK

LEMMA UnmergedNext ==
  ASSUME BaseInv, UnmergedInv, [Next]_vars
  PROVE  UnmergedInv'
<1>1. ASSUME NEW p \in Callers, Launch(p)  PROVE UnmergedInv'
  <2>1. CallTypeOK
    BY DEF BaseInv, WorldOK
  <2>2. \A q \in Callers : q # p => call'[q] = call[q]
    BY <1>1, <2>1, LaunchedCall
  <2>3. QED
    BY <1>1, <2>2 DEF Launch, Idle, git, UnmergedInv
<1>2. ASSUME NEW p \in Callers, Step(p)  PROVE UnmergedInv'
  BY <1>2, ManagerUnmerged DEF Step
<1>3. ASSUME NEW p \in Callers, Exit(p)  PROVE UnmergedInv'
  BY <1>3 DEF Exit, Returned, Goto, git, UnmergedInv, BaseInv, WorldOK, CallTypeOK, Frames
<1>4. CASE UNCHANGED <<index, faults, call>>
  BY <1>4 DEF UnmergedInv
<1>5. QED
  BY <1>1, <1>2, <1>3, <1>4
  DEF Next, Act, Prune, UserCommit, WriteIsolation, AgentCommit, CommitIn, UserDeletesDir,
      UserCheckout, vars, git

----------------------------------------------------------------------------
(* Overlapping creates.                                                    *)

\* A create reaches its last statement by a `worktree add` of its own, which
\* git refuses where there is a directory or a registration.
LEMMA ReachesHead ==
  ASSUME WorldOK, Act, NEW p \in Callers, call'[p].step = "head"
  PROVE  \/ call'[p] = call[p]
         \/ /\ call[p].step = "add" /\ call'[p].task = call[p].task
            /\ call[p].task \notin admin \cup dirs
            /\ \A q \in Callers : q # p => call'[q] = call[q]
<1> USE DEF WorldOK, CallTypeOK
<1>1. ASSUME NEW q \in Callers, Launch(q)  PROVE call'[p] = call[p]
  BY <1>1, LaunchedCall
<1>2. ASSUME NEW q \in Callers, Exit(q)  PROVE call'[p] = call[p]
  BY <1>2 DEF Exit, Goto, Frames
<1>3. ASSUME NEW q \in Callers, Step(q), q # p  PROVE call'[p] = call[p]
  BY <1>3, OthersStay DEF Step
<1>4. ASSUME Step(p)
      PROVE  /\ call[p].step = "add" /\ call'[p].task = call[p].task
             /\ call[p].task \notin admin \cup dirs
             /\ \A q \in Callers : q # p => call'[q] = call[q]
  <2>1. CreateAdd(p)
    BY <1>4
    DEF Step, ManagerStep, Goto, Return, Finally, Frames, CreateRefused, CreateProbe, CreateHead,
        RemoveTree, RemoveBranch, MergeProbe, MergePrior, MergeCheckout, MergeMerge, MergeDiff,
        MergeUndo, MergeRestore
  <2>2. WorktreeAdd(call[p].task, call[p].attach, "ok") /\ At(p, "create", "add")
    BY <2>1 DEF CreateAdd, Return, Frames
  <2>3. call[p].task \notin admin \cup dirs
    BY <2>2 DEF WorktreeAdd, CanAdd
  <2>4. QED
    BY <1>4, <2>2, <2>3, OthersStay, ManagerSameCall DEF Step, At, SameCall
<1>5. QED
  BY <1>1, <1>2, <1>3, <1>4
  DEF Act, Prune, UserCommit, WriteIsolation, AgentCommit, UserDeletesDir, UserCheckout

LEMMA HandNext ==
  ASSUME WorldOK, HandInv, [Next]_vars
  PROVE  HandInv'
<1>1. CASE UNCHANGED vars
  BY <1>1 DEF vars, history, git, HandInv, Fresh
<1>2. CASE Next
  <2>1. Act /\ Observe
    BY <1>2 DEF Next
  <2> DEFINE gone == Tasks \ (admin' \cup dirs')
  <2>2. /\ handed' = (handed \cup {call[p].task : p \in {q \in Callers : Hands(q)}}) \ gone
        /\ stale' = {p \in Callers : /\ call'[p].step = "head"
                                     /\ p \in stale \/ call'[p].task \in gone}
    BY <2>1 DEF Observe
  <2>3. \A p \in Callers : call[p].task \in Tasks
    BY DEF WorldOK, CallTypeOK, Frames
  <2>4. /\ handed' \subseteq Tasks /\ stale' \subseteq Callers
        /\ handed' \subseteq admin' \cup dirs'
    BY <2>2, <2>3 DEF HandInv
  <2>5. ASSUME NEW p \in Callers, Fresh(p)'
        PROVE  /\ call'[p].task \in (admin' \cup dirs') \ handed'
               /\ \A q \in Callers : Fresh(q)' /\ call'[q].task = call'[p].task => q = p
    <3>1. p \notin stale /\ call'[p].task \notin gone /\ call'[p].step = "head"
      BY <2>2, <2>5 DEF Fresh
    <3>2. CASE call'[p] = call[p]
      <4>1. Fresh(p)
        BY <3>1, <3>2 DEF Fresh
      <4>2. call[p].task \in admin' \cup dirs'
        BY <2>3, <3>1, <3>2
      <4>3. \A q \in Callers : Hands(q) => call[q].task # call[p].task
        BY <3>1, <4>1 DEF HandInv, Hands, Fresh
      <4>4. call[p].task \notin handed'
        BY <2>2, <4>1, <4>3 DEF HandInv
      <4>5. ASSUME NEW q \in Callers, Fresh(q)', call'[q].task = call'[p].task  PROVE q = p
        <5>1. q \notin stale /\ call'[q].step = "head"
          BY <2>2, <4>5 DEF Fresh
        <5>2. CASE call'[q] = call[q]
          BY <3>2, <4>1, <4>5, <5>1, <5>2 DEF HandInv, Fresh
        <5>3. CASE call[q].task \notin admin \cup dirs /\ call'[q].task = call[q].task
          BY <3>2, <4>1, <4>5, <5>3 DEF HandInv
        <5>4. QED
          BY <2>1, <5>1, <5>2, <5>3, ReachesHead
      <4>6. QED
        BY <3>2, <4>2, <4>4, <4>5
    <3>3. CASE /\ call[p].step = "add" /\ call'[p].task = call[p].task
               /\ call[p].task \notin admin \cup dirs
               /\ \A q \in Callers : q # p => call'[q] = call[q]
      <4>1. \A q \in Callers : ~Hands(q)
        BY <3>1, <3>3 DEF Hands
      <4>2. call[p].task \notin handed' /\ call[p].task \in admin' \cup dirs'
        BY <2>2, <2>3, <3>1, <3>3, <4>1 DEF HandInv
      <4>3. ASSUME NEW q \in Callers, Fresh(q)', call'[q].task = call'[p].task, q # p
            PROVE  FALSE
        <5>1. Fresh(q) /\ call[q].task = call[p].task
          BY <2>2, <3>3, <4>3 DEF Fresh
        <5>2. QED
          BY <3>3, <5>1 DEF HandInv
      <4>4. QED
        BY <3>3, <4>2, <4>3
    <3>4. QED
      BY <2>1, <3>1, <3>2, <3>3, ReachesHead
  <2>6. QED
    BY <2>4, <2>5 DEF HandInv
<1>3. QED
  BY <1>1, <1>2

----------------------------------------------------------------------------
THEOREM CLIInvariant == Spec => []CLIInv
<1>1. Init => CLIInv
  <2>1. ASSUME Init  PROVE /\ \A p \in Callers : Idle(p)
                           /\ index = "clean" /\ head = userHead
    <3>1. \A t \in Tasks : NoFrame(t).step = "idle"
      BY DEF NoFrame
    <3>2. QED
      BY <2>1, <3>1, GitAssumption DEF Init, GitInit, WorktreeInit, Idle
  <2>2. ASSUME Init  PROVE HandInv
    BY <2>1, <2>2 DEF Init, HandInv, Fresh, Idle
  <2>3. QED
    BY <2>1, <2>2, BaseInit
    DEF CLIInv, UnmergedInv, SoloInv, MergeHeadInv, RestoreInv, Merging, Idle, Moved
<1>2. CLIInv /\ [Next]_vars => CLIInv'
  <2>1. ASSUME CLIInv, [Next]_vars  PROVE BaseInv' /\ HandInv' /\ UnmergedInv' /\ SoloInv'
    BY <2>1, BaseNext, HandNext, UnmergedNext, SoloNext DEF CLIInv, BaseInv, WorldOK
  <2>2. QED
    BY <2>1, HeadNext DEF CLIInv
<1>3. QED
  BY <1>1, <1>2, PTL DEF Spec

\* Once every process has exited and git was never refused or killed, no merge
\* is left half-applied, however the processes overlapped; and HEAD is where
\* the user put it unless two merges overlapped (or, when that is a task's own
\* branch, any two processes did).
THEOREM MainTreeRestoredHolds == Spec => []MainTreeRestored
<1>1. CLIInv => MainTreeRestored
  <2>1. ASSUME CLIInv, Quiet, faults = 0  PROVE index = "clean"
    BY <2>1 DEF CLIInv, BaseInv, WorldOK, GitTypeOK, UnmergedInv, Quiet, Idle
  <2>2. ASSUME CLIInv, Quiet, faults = 0, Undisturbed  PROVE head = userHead
    BY <2>2 DEF CLIInv, RestoreInv, Quiet, Idle, Moved
  <2>3. QED
    BY <2>1, <2>2 DEF MainTreeRestored
<1>2. QED
  BY <1>1, CLIInvariant, PTL

\* A merge that reports success has put the task's commits on the branch it
\* was asked to merge into, whatever faults came before and whatever creates and
\* removes run beside it, as long as no two merges overlap.
THEOREM MergeLandsWhereItSaysHolds == Spec => MergeLandsWhereItSays
<1> DEFINE Lands ==
      \A p \in Callers :
        "merges" \notin overlapped /\ call[p].step = "merge" /\ call'[p].res = "ok"
          => tip[call[p].task] \subseteq tip'[call[p].into]
<1>1. CLIInv /\ [Next]_vars => [Lands]_vars
  <2>1. SUFFICES ASSUME CLIInv, [Next]_vars, NEW p \in Callers, "merges" \notin overlapped,
                        call[p].step = "merge", call'[p].res = "ok"
                 PROVE  tip[call[p].task] \subseteq tip'[call[p].into]
    OBVIOUS
  <2> USE DEF CLIInv, BaseInv, WorldOK
  <2>2. call[p].res = "none" /\ head = call[p].into
    BY <2>1 DEF FrameInv, MergeHeadInv
  <2>3. \A q \in Callers : Step(q) \/ Launch(q) \/ Exit(q) => q = p \/ call'[p] = call[p]
    BY <2>1, OthersStay, LaunchedCall DEF Step, Exit, Goto, CallTypeOK
  <2>4. ~Launch(p) /\ ~Exit(p)
    BY <2>1 DEF Launch, Exit, Idle, Returned
  <2>5. Step(p)
    BY <2>1, <2>2, <2>3, <2>4
    DEF Next, Act, Prune, UserCommit, WriteIsolation, AgentCommit, UserDeletesDir, UserCheckout, vars
  <2>6. MergeMerge(p)
    BY <2>1, <2>5
    DEF Step, ManagerStep, At, CreateRefused, CreateProbe, CreateAdd, CreateHead, RemoveTree,
        RemoveBranch, MergeProbe, MergePrior, MergeCheckout, MergeDiff, MergeUndo, MergeRestore
  <2>7. PICK rc \in {"ok", "failed", "timeout"} :
          /\ Merge(call[p].task, rc)
          /\ rc # "ok" => Goto(p, "diff") \/ Finally(p, "raised")
    BY <2>6 DEF MergeMerge
  <2>8. rc = "ok"
    BY <2>1, <2>2, <2>7 DEF Goto, Finally, CallTypeOK, Frames
  <2>9. tip' = [tip EXCEPT ![head] = @ \cup tip[call[p].task]]
    BY <2>7, <2>8 DEF Merge, Land
  <2>10. QED
    BY <2>1, <2>2, <2>9 DEF GitTypeOK
<1>2. QED
  BY <1>1, CLIInvariant, PTL DEF Spec, MergeLandsWhereItSays

\* The repository, every frame and the history keep their types through every
\* interleaving of processes, agents, the user, refusals and timeouts.
THEOREM CLITypeCorrect == Spec => []TypeOK
<1>1. CLIInv => TypeOK
  BY DEF CLIInv, BaseInv, WorldOK, HandInv, TypeOK
<1>2. QED
  BY <1>1, CLIInvariant, PTL

\* Of creates of one task, however many overlap with each other, with removals
\* and with prunes, no two hand out the same worktree.
THEOREM TreesAreHandedOnce == Spec => TreesHandedOnce
<1> DEFINE Once == \A p \in Callers : Hands(p) => call[p].task \notin handed
<1>1. CLIInv /\ [Next]_vars => [Once]_vars
  BY DEF CLIInv, HandInv, Hands, Fresh
<1>2. QED
  BY <1>1, CLIInvariant, PTL DEF Spec, TreesHandedOnce
============================================================================
