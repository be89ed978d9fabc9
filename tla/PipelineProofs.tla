--------------------------- MODULE PipelineProofs ---------------------------
(***************************************************************************)
(* Theorems about Pipeline, for every set of tasks, every list of plans,   *)
(* every pool size and any number of runs, crashes, refusals and timeouts. *)
(***************************************************************************)
EXTENDS Pipeline, WorktreeProofs, TLAPS

----------------------------------------------------------------------------
(* Type correctness, with the loop invariant it needs: a manager call is   *)
(* outstanding only inside the create and integrate loops, for the task    *)
(* the loop is at.                                                         *)

LoopInv ==
  ~Idle(orch) =>
    /\ phase \in {"create", "integrate"}
    /\ at \in DOMAIN plan
    /\ call[orch].task = Current
    /\ call[orch].op = "create" <=> phase = "create"
    /\ call[orch].op = "merge" => call[orch].into = Main

TypeInv == TypeOK /\ LoopInv

LEMMA TypeInvInit == Init => TypeInv
<1> SUFFICES ASSUME Init PROVE TypeInv
  OBVIOUS
<1>1. GitTypeOK
  <2>1. exists \in SUBSET Branches /\ head \in Branches
    BY GitAssumption DEF Init, GitInit, Branches
  <2>2. tip \in [Branches -> SUBSET Commits]
    BY DEF Init, GitInit, Commits, Branches
  <2>3. QED
    BY <2>1, <2>2 DEF Init, GitInit, GitTypeOK
<1>2. (CHOOSE t \in Tasks : TRUE) \in Tasks
  BY GitAssumption
<1>3. \A p \in Callers : call[p] \in Frames /\ call[p].step = "idle"
  BY <1>2, NewFrames DEF Init, WorktreeInit, NoFrame
<1>4. CallTypeOK
  BY <1>3 DEF Init, WorktreeInit, CallTypeOK
<1>5. PipeTypeOK
  BY <1>1 DEF Init, PipeTypeOK, Phases, Slots, GitTypeOK, Branches
<1>6. LoopInv
  BY <1>3, PipelineAssumption DEF LoopInv, Idle
<1>7. QED
  BY <1>1, <1>4, <1>5, <1>6 DEF TypeInv, TypeOK

\* What a step that starts, drops or keeps the outstanding call needs to show.
LEMMA GotoIdle ==
  ASSUME CallTypeOK, Goto(orch, "idle")
  PROVE  CallTypeOK' /\ LoopInv'
<1>1. CallTypeOK'
  BY PipelineAssumption, GotoType DEF Steps
<1>2. Idle(orch)'
  BY PipelineAssumption DEF Goto, CallTypeOK, Frames, Idle
<1>3. QED
  BY <1>1, <1>2 DEF LoopInv

\* An OSError ends the call and the run, and costs the repository nothing.
LEMMA OsErrorStep ==
  ASSUME TypeInv, OsError
  PROVE  /\ UNCHANGED <<exists, tip, head, index, admin, dirs, dirty>>
         /\ UNCHANGED <<plan, at, slot, outcome, run, crashes, approved, made, origin>>
         /\ phase \in Active /\ phase' = "raised" /\ call'[orch].step = "idle"
         /\ faults < MaxFaults /\ faults' = faults + 1
         /\ CallTypeOK' /\ LoopInv'
<1> USE DEF TypeInv, TypeOK
<1>1. CallTypeOK' /\ LoopInv' /\ call'[orch].step = "idle"
  BY GotoIdle, PipelineAssumption DEF OsError, Goto, CallTypeOK, Frames
<1>2. QED
  BY <1>1 DEF OsError, Read, Mishap, Active

LEMMA NewCall ==
  ASSUME CallTypeOK, NEW f \in Frames, call' = [call EXCEPT ![orch] = f]
  PROVE  CallTypeOK' /\ call'[orch] = f
BY PipelineAssumption DEF CallTypeOK

LEMMA CurrentType ==
  ASSUME PipeTypeOK, at <= Len(plan)
  PROVE  at \in DOMAIN plan /\ Current \in Tasks
BY DEF PipeTypeOK, Current

LEMMA ReportType ==
  ASSUME PipeTypeOK, NEW t, NEW status \in Statuses, Report(t, status)
  PROVE  outcome' \in [Tasks -> Statuses \cup {"none"}]
BY DEF PipeTypeOK, Report

LEMMA MaybeKeepType ==
  ASSUME TypeInv, Integrating, MaybeKeep(Current), UNCHANGED <<phase, plan>>
  PROVE  CallTypeOK' /\ LoopInv' /\ at' \in Nat \ {0}
<1>1. at \in DOMAIN plan /\ Current \in Tasks
  BY CurrentType DEF TypeInv, TypeOK, Integrating
<1>2. CASE KeepBlocked
  BY <1>2, GotoIdle DEF MaybeKeep, TypeInv, TypeOK, PipeTypeOK
<1>3. CASE ~KeepBlocked
  <2>1. RemoveCall(Current, TRUE, FALSE) \in Frames
    BY <1>1, NewFrames
  <2>2. CallTypeOK' /\ call'[orch] = RemoveCall(Current, TRUE, FALSE)
    BY <1>3, <2>1, NewCall DEF MaybeKeep, TypeInv, TypeOK
  <2>3. LoopInv'
    BY <1>1, <1>3, <2>2 DEF MaybeKeep, LoopInv, RemoveCall, NoFrame, Integrating, Current
  <2>4. QED
    BY <1>3, <2>2, <2>3 DEF MaybeKeep, TypeInv, TypeOK, PipeTypeOK
<1>4. QED
  BY <1>2, <1>3

LEMMA OrchestrateTypeInv ==
  ASSUME TypeInv, Orchestrate
  PROVE  TypeInv'
<1> USE DEF TypeInv, TypeOK
<1>0. orch \in Callers
  BY PipelineAssumption
<1>1. CASE CreateNext
  <2>1. at \in DOMAIN plan /\ Current \in Tasks
    BY <1>1, CurrentType DEF CreateNext
  <2>2. CallTypeOK' /\ call'[orch] = CreateCall(Current)
    BY <1>1, <2>1, NewFrames, NewCall DEF CreateNext
  <2>3. LoopInv'
    BY <1>1, <2>1, <2>2 DEF CreateNext, pipe, LoopInv, CreateCall, NoFrame, Current
  <2>4. QED
    BY <1>1, <2>2, <2>3 DEF CreateNext, git, pipe, GitTypeOK, PipeTypeOK
<1>2. CASE CreateReturned
  <2>1. CallTypeOK' /\ LoopInv'
    BY <1>2, GotoIdle DEF CreateReturned
  <2>2. GitTypeOK'
    BY <1>2 DEF CreateReturned, git, GitTypeOK
  <2>3. slot' \in [Tasks -> Slots]
    BY <1>2 DEF CreateReturned, PipeTypeOK, Slots
  <2>4. QED
    BY <1>2, <2>1, <2>2, <2>3 DEF CreateReturned, PipeTypeOK
<1>3. CASE SpawnWorkers
  BY <1>3 DEF SpawnWorkers, git, GitTypeOK, PipeTypeOK, CallTypeOK, LoopInv, Idle, Phases
<1>4. CASE WorkersDone
  BY <1>4 DEF WorkersDone, git, GitTypeOK, PipeTypeOK, CallTypeOK, LoopInv, Idle, Phases
<1>5. CASE IntegrateError
  BY <1>5 DEF IntegrateError, Integrating, Report, git, GitTypeOK, PipeTypeOK, CallTypeOK,
              LoopInv, Idle, Phases, Statuses
<1>6. CASE IntegrateNotOk
  BY <1>6, MaybeKeepType DEF IntegrateNotOk, Report, git, GitTypeOK, PipeTypeOK, Statuses
<1>7. CASE VerifyPass
  <2>1. at \in DOMAIN plan /\ Current \in Tasks
    BY <1>7, CurrentType DEF VerifyPass, Integrating
  <2>2. CallTypeOK' /\ call'[orch] = MergeCall(Current, Main)
    BY <1>7, <2>1, NewFrames, NewCall DEF VerifyPass
  <2>3. LoopInv'
    <3>1. /\ call'[orch].op = "merge" /\ call'[orch].into = Main
          /\ call'[orch].task = Current
      BY <2>2 DEF MergeCall, NoFrame
    <3>2. QED
      BY <1>7, <2>1, <3>1 DEF VerifyPass, Integrating, LoopInv, Current
  <2>4. tip[Current] \in SUBSET Commits
    BY <2>1 DEF GitTypeOK, Branches
  <2>5. approved' \in SUBSET Commits
    BY <1>7, <2>4 DEF VerifyPass, Artifact, PipeTypeOK
  <2>6. QED
    BY <1>7, <2>2, <2>3, <2>5 DEF VerifyPass, git, GitTypeOK, PipeTypeOK
<1>8. CASE VerifyReject
  BY <1>8, MaybeKeepType DEF VerifyReject, Report, git, GitTypeOK, PipeTypeOK, Statuses
<1>9. CASE VerifyRaise
  BY <1>9 DEF VerifyRaise, Integrating, git, GitTypeOK, PipeTypeOK, CallTypeOK, LoopInv,
              Idle, Phases
<1>10. CASE MergeLanded
  <2>1. at \in DOMAIN plan
    BY <1>10 DEF MergeLanded, MergeReturned, Returned, LoopInv, Idle
  <2>2. Current \in Tasks
    BY <2>1 DEF PipeTypeOK, Current
  <2>3. CASE CleanupMerged
    <3>1. CallTypeOK' /\ call'[orch] = RemoveCall(Current, TRUE, TRUE)
      BY <1>10, <2>2, <2>3, NewFrames, NewCall DEF MergeLanded
    <3>2. LoopInv'
      BY <1>10, <2>1, <2>3, <3>1 DEF MergeLanded, MergeReturned, LoopInv, RemoveCall,
                                     NoFrame, Current
    <3>3. QED
      BY <1>10, <2>3, <3>1, <3>2 DEF MergeLanded, Report, git, GitTypeOK, PipeTypeOK, Statuses
  <2>4. CASE ~CleanupMerged
    <3>1. CallTypeOK' /\ LoopInv'
      BY <1>10, <2>4, GotoIdle DEF MergeLanded
    <3>2. PipeTypeOK'
      <4>1. "merged" \in Statuses
        BY DEF Statuses
      <4>2. outcome' \in [Tasks -> Statuses \cup {"none"}]
        BY <1>10, <4>1, ReportType DEF MergeLanded
      <4>3. QED
        BY <1>10, <2>4, <4>2 DEF MergeLanded, PipeTypeOK
    <3>3. QED
      BY <1>10, <3>1, <3>2 DEF MergeLanded, git, GitTypeOK
  <2>5. QED
    BY <2>3, <2>4
<1>11. CASE MergeRefused
  <2>1. at \in DOMAIN plan /\ Current \in Tasks /\ phase = "integrate"
    BY <1>11 DEF MergeRefused, MergeReturned, Returned, LoopInv, Idle, PipeTypeOK, Current
  <2>2. CASE KeepBlocked
    <3>1. CallTypeOK' /\ LoopInv'
      BY <1>11, <2>2, GotoIdle DEF MergeRefused, MaybeKeep
    <3>2. PipeTypeOK'
      <4>1. "conflict" \in Statuses
        BY DEF Statuses
      <4>2. outcome' \in [Tasks -> Statuses \cup {"none"}]
        BY <1>11, <4>1, ReportType DEF MergeRefused
      <4>3. QED
        BY <1>11, <2>2, <4>2 DEF MergeRefused, MaybeKeep, PipeTypeOK
    <3>3. QED
      BY <1>11, <3>1, <3>2 DEF MergeRefused, git, GitTypeOK
  <2>3. CASE ~KeepBlocked
    <3>1. CallTypeOK' /\ call'[orch] = RemoveCall(Current, TRUE, FALSE)
      BY <1>11, <2>1, <2>3, NewFrames, NewCall DEF MergeRefused, MaybeKeep
    <3>2. LoopInv'
      BY <1>11, <2>1, <2>3, <3>1 DEF MergeRefused, MaybeKeep, LoopInv, RemoveCall, NoFrame,
                                     Current
    <3>3. QED
      BY <1>11, <2>3, <3>1, <3>2 DEF MergeRefused, MaybeKeep, Report, git, GitTypeOK,
                                     PipeTypeOK, Statuses
  <2>4. QED
    BY <2>2, <2>3
<1>12. CASE MergeRaised
  BY <1>12, GotoIdle DEF MergeRaised, git, GitTypeOK, PipeTypeOK, Phases
<1>13. CASE CleanupReturned
  BY <1>13, GotoIdle DEF CleanupReturned, git, GitTypeOK, PipeTypeOK
<1>14. CASE Finish
  BY <1>14 DEF Finish, git, GitTypeOK, PipeTypeOK, CallTypeOK, LoopInv, Idle, Phases
<1>15. CASE Manager
  <2>1. SameCall(orch)
    BY <1>0, <1>15, ManagerSameCall DEF Manager
  <2>2. GitTypeOK' /\ CallTypeOK'
    BY <1>0, <1>15, ManagerType DEF Manager
  <2>3. LoopInv'
    BY <1>15, <2>1 DEF Manager, pipe, SameCall, LoopInv, Idle, Current
  <2>4. QED
    BY <1>15, <2>2, <2>3 DEF Manager, pipe, PipeTypeOK
<1>16. QED
  BY <1>1, <1>2, <1>3, <1>4, <1>5, <1>6, <1>7, <1>8, <1>9, <1>10, <1>11, <1>12,
     <1>13, <1>14, <1>15 DEF Orchestrate

LEMMA TypeInvNext ==
  ASSUME TypeInv, [Next]_vars
  PROVE  TypeInv'
<1> USE DEF TypeInv, TypeOK
<1>1. CASE StartRun
  BY <1>1, PipelineAssumption
  DEF StartRun, Active, git, GitTypeOK, PipeTypeOK, CallTypeOK, LoopInv, Idle, Phases, Slots
<1>2. CASE Orchestrate
  BY <1>2, OrchestrateTypeInv
<1>3. CASE Crash
  BY <1>3, GotoIdle DEF Crash, git, GitTypeOK, PipeTypeOK, Phases
<1>3a. CASE OsError
  BY <1>3a, OsErrorStep DEF GitTypeOK, PipeTypeOK, Phases
<1>4. ASSUME NEW t \in Tasks, WorkerStart(t)  PROVE TypeInv'
  BY <1>4 DEF WorkerStart, git, GitTypeOK, PipeTypeOK, CallTypeOK, LoopInv, Idle, Slots, Current
<1>5. ASSUME NEW t \in Tasks, WorkerCommit(t)  PROVE TypeInv'
  <2>1. <<t, run>> \in Commits
    BY DEF PipeTypeOK, Commits, Branches
  <2>2. GitTypeOK'
    BY <1>5, <2>1 DEF WorkerCommit, CommitIn, GitTypeOK
  <2>3. QED
    BY <1>5, <2>1, <2>2 DEF WorkerCommit, PipeTypeOK, CallTypeOK, LoopInv, Idle, Current
<1>6. ASSUME NEW t \in Tasks, WorkerReturn(t)  PROVE TypeInv'
  BY <1>6 DEF WorkerReturn, GitTypeOK, PipeTypeOK, CallTypeOK, LoopInv, Idle, Slots, Current
<1>7. CASE UNCHANGED vars
  BY <1>7 DEF vars, git, pipe, GitTypeOK, PipeTypeOK, CallTypeOK, LoopInv, Idle, Current
<1>8. QED
  BY <1>1, <1>2, <1>3, <1>3a, <1>4, <1>5, <1>6, <1>7 DEF Next

THEOREM TypeInvariant == Spec => []TypeInv
<1>1. Init => TypeInv
  BY TypeInvInit
<1>2. TypeInv /\ [Next]_vars => TypeInv'
  BY TypeInvNext
<1>3. QED
  BY <1>1, <1>2, PTL DEF Spec

\* The repository, every manager frame and the orchestrator's state keep their
\* types through every interleaving, fault, crash and restart.
THEOREM TypeCorrect == Spec => []TypeOK
<1>1. TypeInv => TypeOK
  BY DEF TypeInv
<1>2. QED
  BY <1>1, TypeInvariant, PTL

----------------------------------------------------------------------------
(* No commit an agent made is ever lost, for every value of the constants. *)
(* The one command that makes commits unreachable is the `branch -D` of    *)
(* the cleanup after a merge, so the inductive invariant says why that is  *)
(* harmless: from the moment merge has returned ok until the cleanup ends, *)
(* everything on the task's branch is on the integration branch.  That     *)
(* rests on HEAD being on the integration branch when `git merge` runs.    *)

\* What the frame of the orchestrator knows about the repository.
LandingInv ==
  LET f == call[orch] IN
  /\ f.op = "merge" /\ f.step = "merge" => head = Main
  /\ f.op = "merge" /\ f.step \in {"restore", "returned"} /\ f.res = "ok"
       => tip[f.task] \subseteq tip[Main]
  /\ f.op = "remove" /\ (f.step = "branch" \/ (f.step = "tree" /\ f.delete_branch))
       => tip[f.task] \subseteq tip[Main]

EveryCommitReachable == \A c \in made : Reachable(c)

LossInv == TypeInv /\ GitInv /\ LandingInv /\ EveryCommitReachable

----------------------------------------------------------------------------
LEMMA ManagerLossInv ==
  ASSUME LossInv, Manager
  PROVE  LossInv'
<1> DEFINE f == call[orch]
           t == f.task
<1> USE DEF LossInv, TypeInv, TypeOK
<1>0. /\ orch \in Callers /\ f \in Frames
      /\ t \in Tasks /\ t \in Branches /\ f.prior \in Branches
      /\ f.op \in Ops /\ f.step \in Steps
  BY PipelineAssumption DEF CallTypeOK, Frames, Branches
<1>1. TypeInv'
  BY TypeInvNext DEF Next, Orchestrate
<1>2. SameCall(orch)
  BY <1>0, ManagerSameCall DEF Manager
<1>3. f.op = "merge" => f.into = Main
  BY <1>2 DEF LoopInv, SameCall, Idle
<1>4. UNCHANGED made
  BY DEF Manager, pipe
\* It is enough that the branches stay well formed, what was reachable stays
\* reachable and the frame's knowledge stays true.
<1> DEFINE Kept == GitInv' /\ (\A c : Reachable(c) => Reachable(c)')
<1>5. SUFFICES Kept /\ LandingInv'
  BY <1>1, <1>4 DEF EveryCommitReachable
<1>6. ASSUME GitInv' /\ Grows  PROVE Kept
  BY <1>6, GrowsKeepsReachable
<1>7. ASSUME UNCHANGED <<exists, tip, head>>  PROVE Kept
  BY <1>6, <1>7, SameTipGrows
<1>10. CASE f.op = "create"
  <2>1. LandingInv'
    BY <1>2, <1>10 DEF LandingInv, SameCall
  <2>2. CASE CreateAdd(orch)
    BY <1>0, <1>6, <2>1, <2>2, WorktreeAddGrows DEF CreateAdd
  <2>3. CASE CreateRefused(orch) \/ CreateProbe(orch) \/ CreateHead(orch)
    BY <1>7, <2>1, <2>3 DEF CreateRefused, CreateProbe, CreateHead, Read, git
  <2>4. QED
    BY <1>10, <2>2, <2>3
    DEF Manager, ManagerStep, At, RemoveTree, RemoveBranch, MergeProbe, MergePrior,
        MergeCheckout, MergeMerge, MergeDiff, MergeUndo, MergeRestore
<1>11. CASE f.op = "remove"
  <2>1. CASE RemoveTree(orch)
    <3>1. UNCHANGED <<exists, tip, head>>
      BY <2>1 DEF RemoveTree, WorktreeRemove, git
    <3>2. LandingInv'
      <4>1. f.step = "tree"
        BY <2>1 DEF RemoveTree, At
      <4>2. \/ call'[orch].step = "returned"
            \/ f.delete_branch /\ call'[orch].step = "branch"
        BY <1>0, <2>1 DEF RemoveTree, Return, Goto, CallTypeOK, Frames
      <4>3. QED
        BY <1>2, <1>11, <3>1, <4>1, <4>2 DEF LandingInv, SameCall
    <3>3. QED
      BY <1>7, <3>1, <3>2
  <2>2. CASE RemoveBranch(orch)
    <3>1. PICK rc : BranchDelete(t, rc)
      BY <2>2 DEF RemoveBranch
    <3>2. call'[orch].step = "returned"
      BY <1>0, <2>2 DEF RemoveBranch, Return, CallTypeOK
    <3>3. LandingInv'
      BY <1>2, <1>11, <3>2 DEF LandingInv, SameCall
    <3>4. tip[t] \subseteq tip[Main]
      BY <2>2 DEF LandingInv, RemoveBranch, At
    <3>5. \A c : Reachable(c) => Reachable(c)'
      BY <1>0, <3>1, <3>4, BranchDeleteSafe
    <3>6. GitInv'
      BY <1>0, <3>1 DEF BranchDelete, GitInv, GitTypeOK, Branches
    <3>7. QED
      BY <3>3, <3>5, <3>6
  <2>3. QED
    BY <1>11, <2>1, <2>2
    DEF Manager, ManagerStep, At, CreateRefused, CreateProbe, CreateAdd, CreateHead,
        MergeProbe, MergePrior, MergeCheckout, MergeMerge, MergeDiff, MergeUndo, MergeRestore
<1>12. CASE f.op = "merge"
  <2> DEFINE g == call'[orch]
  <2>0. g.op = "merge" /\ g.task = t
    BY <1>2, <1>12 DEF SameCall
  \* Elsewhere than right after a merge that went through, no knowledge is
  \* claimed.
  <2>1. ASSUME \/ g.step \in {"prior", "checkout", "diff", "abort"}
               \/ g.step \in {"restore", "returned"} /\ g.res # "ok"
        PROVE  LandingInv'
    BY <2>0, <2>1 DEF LandingInv
  <2>2. CASE MergeProbe(orch)
    <3>1. UNCHANGED <<exists, tip, head>>
      BY <2>2 DEF MergeProbe, Read, git
    <3>2. \/ g.step = "prior"
          \/ g.step = "returned" /\ g.res # "ok"
      BY <1>0, <2>2 DEF MergeProbe, Goto, Return, CallTypeOK, Frames
    <3>3. QED
      BY <1>7, <2>1, <3>1, <3>2
  <2>3. CASE MergePrior(orch)
    <3>1. UNCHANGED <<exists, tip, head>>
      BY <2>3 DEF MergePrior, Read
    <3>2. g.step = "checkout" \/ (g.step = "returned" /\ g.res # "ok")
      BY <1>0, <2>3 DEF MergePrior, Return, CallTypeOK, Frames
    <3>3. QED
      BY <1>7, <2>1, <3>1, <3>2
  <2>4. CASE MergeCheckout(orch)
    <3>1. PICK rc \in {"ok", "failed", "timeout"} :
            /\ Checkout(Main, rc)
            /\ IF rc = "ok" THEN Goto(orch, "merge") ELSE Return(orch, "raised")
      BY <1>3, <1>12, <2>4 DEF MergeCheckout
    <3>2. Main \in Branches
      BY DEF Branches
    <3>3. Kept
      BY <1>6, <3>1, <3>2, CheckoutGrows
    <3>4. CASE rc = "ok"
      <4>1. head' = Main /\ g.step = "merge"
        BY <1>0, <3>1, <3>4 DEF Checkout, Goto, CallTypeOK, Frames
      <4>2. QED
        BY <3>3, <4>1, <2>0 DEF LandingInv
    <3>5. CASE rc # "ok"
      <4>1. g.step = "returned" /\ g.res # "ok"
        BY <1>0, <3>1, <3>5 DEF Return, CallTypeOK, Frames
      <4>2. QED
        BY <3>3, <4>1, <2>1
    <3>6. QED
      BY <3>4, <3>5
  <2>5. CASE MergeMerge(orch)
    <3>1. PICK rc \in {"ok", "failed", "timeout"} :
            /\ Merge(t, rc)
            /\ \/ rc = "ok" /\ Finally(orch, "ok")
               \/ Goto(orch, "diff")
               \/ Finally(orch, "raised")
      BY <2>5 DEF MergeMerge
    <3>2. Kept
      BY <1>0, <1>6, <3>1, MergeGrows
    <3>3. CASE rc = "ok" /\ Finally(orch, "ok")
      <4>1. head = Main
        BY <2>5 DEF LandingInv, MergeMerge, At
      <4>2. tip' = [tip EXCEPT ![Main] = @ \cup tip[t]]
        BY <3>1, <3>3, <4>1 DEF Merge, Land
      <4>3. tip'[t] \subseteq tip'[Main]
        BY <1>0, <4>2, GitAssumption DEF GitTypeOK, Branches
      <4>4. g.step = "restore"
        BY <1>0, <3>3 DEF Finally, CallTypeOK, Frames
      <4>5. QED
        BY <3>2, <4>3, <4>4, <2>0 DEF LandingInv
    <3>4. CASE Goto(orch, "diff") \/ Finally(orch, "raised")
      <4>1. g.step = "diff" \/ (g.step = "restore" /\ g.res # "ok")
        BY <1>0, <3>4 DEF Goto, Finally, CallTypeOK, Frames
      <4>2. QED
        BY <3>2, <4>1, <2>1
    <3>5. QED
      BY <3>1, <3>3, <3>4
  <2>6. CASE MergeDiff(orch)
    <3>1. UNCHANGED <<exists, tip, head>>
      BY <2>6 DEF MergeDiff, Read
    <3>2. g.step = "abort" \/ (g.step = "restore" /\ g.res # "ok")
      BY <1>0, <2>6 DEF MergeDiff, Goto, Finally, CallTypeOK, Frames
    <3>3. QED
      BY <1>7, <2>1, <3>1, <3>2
  <2>7. CASE MergeUndo(orch)
    <3>1. UNCHANGED <<exists, tip, head>>
      BY <2>7 DEF MergeUndo, MergeAbort
    <3>2. g.step = "restore" /\ g.res # "ok"
      BY <1>0, <2>7 DEF MergeUndo, Finally, CallTypeOK, Frames
    <3>3. QED
      BY <1>7, <2>1, <3>1, <3>2
  <2>8. CASE MergeRestore(orch)
    <3>1. Kept
      BY <1>0, <1>6, <1>7, <2>8, CheckoutGrows DEF MergeRestore, git
    <3>2. UNCHANGED tip
      BY <2>8 DEF MergeRestore, Checkout, git
    <3>3. g.step = "returned" /\ g.res \in {f.res, "raised"}
      BY <1>0, <2>8 DEF MergeRestore, Return, CallTypeOK, Frames
    <3>4. LandingInv'
      BY <1>12, <2>0, <2>8, <3>2, <3>3 DEF LandingInv, MergeRestore, At
    <3>5. QED
      BY <3>1, <3>4
  <2>9. QED
    BY <1>12, <2>2, <2>3, <2>4, <2>5, <2>6, <2>7, <2>8
    DEF Manager, ManagerStep, At, CreateRefused, CreateProbe, CreateAdd, CreateHead,
        RemoveTree, RemoveBranch
<1>13. QED
  BY <1>0, <1>10, <1>11, <1>12 DEF Ops

----------------------------------------------------------------------------
(* The orchestrator's own steps touch no branch; they only start calls.    *)

LEMMA IdleOrQuietCall ==
  ASSUME CallTypeOK, LossInv, UNCHANGED <<git, made>>, TypeInv',
         \/ UNCHANGED call
         \/ Goto(orch, "idle")
         \/ \E t \in Tasks : \/ call' = [call EXCEPT ![orch] = CreateCall(t)]
                             \/ call' = [call EXCEPT ![orch] = MergeCall(t, Main)]
                             \/ call' = [call EXCEPT ![orch] = RemoveCall(t, TRUE, FALSE)]
  PROVE  LossInv'
<1>1. GitInv' /\ EveryCommitReachable'
  BY DEF LossInv, GitInv, EveryCommitReachable, Reachable, git
<1>2. CASE UNCHANGED call
  BY <1>1, <1>2 DEF LossInv, LandingInv, git
<1>3. CASE Goto(orch, "idle")
  <2>1. call'[orch].step = "idle" /\ call'[orch].op = call[orch].op
    BY <1>3, PipelineAssumption DEF Goto, CallTypeOK, Frames
  <2>2. LandingInv'
    BY <2>1 DEF LandingInv
  <2>3. QED
    BY <1>1, <2>2 DEF LossInv
<1>4. ASSUME NEW t \in Tasks,
             \/ call' = [call EXCEPT ![orch] = CreateCall(t)]
             \/ call' = [call EXCEPT ![orch] = MergeCall(t, Main)]
             \/ call' = [call EXCEPT ![orch] = RemoveCall(t, TRUE, FALSE)]
      PROVE  LossInv'
  <2>1. call'[orch] \in {CreateCall(t), MergeCall(t, Main), RemoveCall(t, TRUE, FALSE)}
    BY <1>4, NewFrames, NewCall
  <2>2. LandingInv'
    BY <2>1 DEF LandingInv, CreateCall, MergeCall, RemoveCall, NoFrame
  <2>3. QED
    BY <1>1, <2>2 DEF LossInv
<1>5. QED
  BY <1>2, <1>3, <1>4

LEMMA LossInvInit == Init => LossInv
<1> SUFFICES ASSUME Init PROVE LossInv
  OBVIOUS
<1>1. TypeInv
  BY TypeInvInit
<1>2. GitInv
  BY GitAssumption DEF Init, GitInit, GitInv
<1>3. call[orch].step = "idle" /\ made = {}
  BY PipelineAssumption DEF Init, WorktreeInit, NoFrame
<1>4. QED
  BY <1>1, <1>2, <1>3 DEF LossInv, LandingInv, EveryCommitReachable

LEMMA OrchestrateLossInv ==
  ASSUME LossInv, Orchestrate
  PROVE  LossInv'
<1> USE DEF LossInv, TypeInv, TypeOK
<1>0. TypeInv'
  BY TypeInvNext DEF Next
<1>1. ASSUME Integrating \/ MergeReturned  PROVE Current \in Tasks
  BY <1>1, CurrentType DEF Integrating, MergeReturned, Returned, LoopInv, Idle, PipeTypeOK, Current
<1>2. ASSUME MaybeKeep(Current), Integrating \/ MergeReturned, UNCHANGED <<git, made>>
      PROVE  LossInv'
  <2>1. Goto(orch, "idle") \/ call' = [call EXCEPT ![orch] = RemoveCall(Current, TRUE, FALSE)]
    BY <1>2 DEF MaybeKeep
  <2>2. QED
    BY <1>0, <1>1, <1>2, <2>1, IdleOrQuietCall
<1>3. CASE CreateNext
  <2>1. Current \in Tasks
    BY <1>3, CurrentType DEF CreateNext
  <2>2. QED
    BY <1>0, <1>3, <2>1, IdleOrQuietCall DEF CreateNext, pipe
<1>4. CASE CreateReturned
  BY <1>0, <1>4, IdleOrQuietCall DEF CreateReturned
<1>5. CASE SpawnWorkers \/ WorkersDone \/ Finish
  BY <1>0, <1>5, IdleOrQuietCall DEF SpawnWorkers, WorkersDone, Finish
<1>6. CASE IntegrateError \/ VerifyRaise
  BY <1>0, <1>6, IdleOrQuietCall DEF IntegrateError, VerifyRaise
<1>7. CASE IntegrateNotOk
  BY <1>2, <1>7 DEF IntegrateNotOk
<1>8. CASE VerifyReject
  BY <1>2, <1>8 DEF VerifyReject
<1>9. CASE VerifyPass
  BY <1>0, <1>1, <1>9, IdleOrQuietCall DEF VerifyPass
<1>10. CASE MergeRefused
  BY <1>2, <1>10 DEF MergeRefused
<1>11. CASE MergeRaised \/ CleanupReturned
  BY <1>0, <1>11, IdleOrQuietCall DEF MergeRaised, CleanupReturned
<1>12. CASE MergeLanded
  <2>1. UNCHANGED <<git, made>>
    BY <1>12 DEF MergeLanded
  <2>2. CASE Goto(orch, "idle")
    BY <1>0, <2>1, <2>2, IdleOrQuietCall
  <2>3. CASE call' = [call EXCEPT ![orch] = RemoveCall(Current, TRUE, TRUE)]
    <3>1. Current \in Tasks /\ call[orch].task = Current
      BY <1>1, <1>12 DEF MergeLanded, MergeReturned, Returned, LoopInv, Idle
    <3>2. tip[Current] \subseteq tip[Main]
      BY <1>12, <3>1 DEF MergeLanded, MergeReturned, Returned, LandingInv
    <3>3. call'[orch] = RemoveCall(Current, TRUE, TRUE)
      BY <2>3, <3>1, NewFrames, NewCall
    <3>4. LandingInv'
      BY <2>1, <3>2, <3>3 DEF LandingInv, RemoveCall, NoFrame, git
    <3>5. GitInv' /\ EveryCommitReachable'
      BY <2>1 DEF GitInv, EveryCommitReachable, Reachable, git
    <3>6. QED
      BY <1>0, <3>4, <3>5
  <2>4. QED
    BY <1>12, <2>2, <2>3 DEF MergeLanded
<1>13. CASE Manager
  BY <1>13, ManagerLossInv
<1>14. QED
  BY <1>3, <1>4, <1>5, <1>6, <1>7, <1>8, <1>9, <1>10, <1>11, <1>12, <1>13 DEF Orchestrate

LEMMA LossInvNext ==
  ASSUME LossInv, [Next]_vars
  PROVE  LossInv'
<1> USE DEF LossInv, TypeInv, TypeOK
<1>0. TypeInv'
  BY TypeInvNext
<1>1. CASE StartRun
  BY <1>0, <1>1, IdleOrQuietCall DEF StartRun
<1>2. CASE Orchestrate
  BY <1>2, OrchestrateLossInv
<1>3. CASE Crash
  BY <1>0, <1>3, IdleOrQuietCall DEF Crash
<1>3a. CASE OsError
  BY <1>0, <1>3a, OsErrorStep
  DEF GitInv, LandingInv, EveryCommitReachable, Reachable
<1>4. ASSUME NEW t \in Tasks, WorkerStart(t)  PROVE LossInv'
  BY <1>0, <1>4, IdleOrQuietCall DEF WorkerStart
<1>5. ASSUME NEW t \in Tasks, WorkerCommit(t)  PROVE LossInv'
  <2>1. t \in exists /\ t \in Branches
    BY <1>5 DEF WorkerCommit, CommitIn, Branches
  <2>2. GitInv' /\ Grows /\ Reachable(<<t, run>>)'
    BY <1>5, <2>1 DEF WorkerCommit, CommitIn, GitInv, Grows, Reachable, GitTypeOK
  <2>3. EveryCommitReachable'
    BY <1>5, <2>2, GrowsKeepsReachable DEF EveryCommitReachable, WorkerCommit
  <2>4. call[orch].step = "idle" /\ UNCHANGED call
    BY <1>5 DEF WorkerCommit, LoopInv, Idle
  <2>5. QED
    BY <1>0, <2>2, <2>3, <2>4 DEF LandingInv
<1>6. ASSUME NEW t \in Tasks, WorkerReturn(t)  PROVE LossInv'
  BY <1>0, <1>6 DEF WorkerReturn, GitInv, LandingInv, EveryCommitReachable, Reachable
<1>7. CASE UNCHANGED vars
  BY <1>0, <1>7, IdleOrQuietCall DEF vars, pipe
<1>8. QED
  BY <1>1, <1>2, <1>3, <1>3a, <1>4, <1>5, <1>6, <1>7 DEF Next

\* pipeline.py:211-214 and 228-231 remove worktrees by force and delete merged
\* branches; through every interleaving, fault, crash and restart, each commit
\* an agent made stays reachable from a branch.
THEOREM CommittedWorkSurvives == Spec => []NoCommittedWorkLost
<1>1. Init => LossInv
  BY LossInvInit
<1>2. LossInv /\ [Next]_vars => LossInv'
  BY LossInvNext
<1>3. LossInv => NoCommittedWorkLost
  BY DEF LossInv, EveryCommitReachable, Reachable, NoCommittedWorkLost
<1>4. QED
  BY <1>1, <1>2, <1>3, PTL DEF Spec

----------------------------------------------------------------------------
(* The report tells the truth about the integration branch.  A commit of   *)
(* this run is on its own branch and, once the merge of its task has gone  *)
(* through, on the integration branch; the loop reports each task once, so *)
(* that no task that is reported blocked has one there.  Merges that were  *)
(* killed after they committed are no exception: they end the run without  *)
(* an outcome.                                                             *)

Cleaning == ~Idle(orch) /\ call[orch].op = "remove"

\* Every task of the plan is reported once, in order.
OrderInv ==
  /\ phase \in Active => ~Duplicated(plan)
  /\ phase \in {"create", "work"} => \A t \in Tasks : outcome[t] = "none"
  /\ phase = "integrate" =>
       \A i \in DOMAIN plan : i > at \/ (i = at /\ ~Cleaning) => outcome[plan[i]] = "none"

\* No commit is numbered ahead of its run, and the workers are all ahead while
\* worktrees are made.
RunInv ==
  \A t \in Tasks, b \in Branches, n \in Nat :
    <<t, n>> \in tip[b] \cup made => n <= run /\ (phase = "create" => n # run)

MadeInv ==
  \A t \in Tasks : <<t, run>> \in made =>
    /\ <<t, run>> \in tip[t] \cup tip[Main]
    /\ outcome[t] = "merged" => <<t, run>> \in tip[Main]

\* The merge of t may have gone through and is not reported yet.
Through(t) ==
  /\ phase = "integrate" /\ call[orch].op = "merge" /\ call[orch].task = t
  /\ call[orch].step \in {"restore", "returned"} /\ call[orch].res \in {"ok", "raised"}

CarriedInv ==
  \A t \in Tasks : \A b \in Branches \ {t} :
    <<t, run>> \in tip[b] =>
      /\ b = Main
      /\ \/ outcome[t] = "merged"
         \/ outcome[t] = "none" /\ (phase \notin Active \/ Through(t))

ReportInv == OrderInv /\ RunInv /\ MadeInv /\ CarriedInv

LEMMA ManagerReportInv ==
  ASSUME LossInv, ReportInv, Manager
  PROVE  ReportInv'
<1> DEFINE f == call[orch]
           t == f.task
<1> USE DEF LossInv, TypeInv, TypeOK, GitTypeOK
<1>0. orch \in Callers /\ ManagerStep(orch) /\ UNCHANGED pipe /\ phase \in Active
  BY PipelineAssumption DEF Manager
<1>1. SameCall(orch)
  BY <1>0, ManagerSameCall
<1>2. /\ f.step # "idle" /\ t \in Tasks /\ t \in Branches /\ t = Current /\ at \in DOMAIN plan
      /\ f.op = "create" <=> phase = "create"
      /\ phase \in {"create", "integrate"}
  BY <1>0, <1>1 DEF SameCall, LoopInv, Idle, CallTypeOK, Frames, Branches
<1>3. OrderInv'
  <2>1. Cleaning' <=> Cleaning
    BY <1>1 DEF SameCall, Cleaning, Idle
  <2>2. QED
    BY <1>0, <2>1 DEF ReportInv, OrderInv, pipe, Duplicated
<1>4. \A u \in Tasks : Through(u) => Through(u)'
  BY <1>0, <1>1, ManagerOnTheWayOut DEF Through, SameCall, pipe
<1>5. Main \in Branches /\ Main \notin Tasks
  BY GitAssumption DEF Branches
<1>6. CASE UNCHANGED tip
  BY <1>0, <1>3, <1>4, <1>6 DEF ReportInv, RunInv, MadeInv, CarriedInv, pipe
<1>7. CASE f.op = "create" /\ tip' = [tip EXCEPT ![t] = tip[head]]
  <2>1. phase = "create"
    BY <1>2, <1>7
  <2>2. \A b \in Branches : tip'[b] \in {tip[b], tip[head]}
    BY <1>7
  <2>3. RunInv'
    BY <1>0, <2>1, <2>2 DEF ReportInv, RunInv, pipe
  <2>4. run \in Nat
    BY DEF PipeTypeOK
  <2>5. \A u \in Tasks, b \in Branches : <<u, run>> \notin tip'[b] \cup made'
    BY <1>0, <2>1, <2>3, <2>4 DEF RunInv, pipe
  <2>6. MadeInv' /\ CarriedInv'
    BY <1>0, <1>5, <2>5 DEF MadeInv, CarriedInv, pipe
  <2>7. QED
    BY <1>3, <2>3, <2>6 DEF ReportInv
<1>8. CASE f.op = "remove" /\ f.step = "branch" /\ tip' = [tip EXCEPT ![t] = {}]
  <2>1. tip[t] \subseteq tip[Main]
    BY <1>8 DEF LandingInv
  <2>2. /\ tip'[t] = {}
        /\ \A b \in Branches : b # t => tip'[b] = tip[b]
    BY <1>2, <1>8
  <2>3. RunInv'
    BY <1>0, <2>2 DEF ReportInv, RunInv, pipe
  <2>4. MadeInv'
    BY <1>0, <1>2, <1>5, <2>1, <2>2 DEF ReportInv, MadeInv, pipe, Branches
  <2>5. CarriedInv'
    BY <1>0, <1>4, <2>2 DEF ReportInv, CarriedInv, pipe
  <2>6. QED
    BY <1>3, <2>3, <2>4, <2>5 DEF ReportInv
<1>9. CASE /\ f.op = "merge" /\ f.step = "merge" /\ Land(t)
           /\ call'[orch].step = "restore" /\ call'[orch].res \in {"ok", "raised"}
  <2>1. tip' = [tip EXCEPT ![Main] = @ \cup tip[t]]
    BY <1>9 DEF LandingInv, Land
  <2>2. /\ tip'[Main] = tip[Main] \cup tip[t]
        /\ \A b \in Branches : b # Main => tip'[b] = tip[b]
    BY <1>5, <2>1
  <2>3. RunInv'
    BY <1>0, <1>2, <2>2 DEF ReportInv, RunInv, pipe
  <2>4. MadeInv'
    BY <1>0, <1>5, <2>2 DEF ReportInv, MadeInv, pipe, Branches
  <2>5. phase = "integrate" /\ outcome[t] = "none"
    BY <1>2, <1>9 DEF ReportInv, OrderInv, Cleaning, Current
  <2>6. \A u \in Tasks : u = t => Through(u)'
    BY <1>0, <1>1, <1>9, <2>5 DEF Through, SameCall, pipe
  <2>7. CarriedInv'
    <3>1. SUFFICES ASSUME NEW u \in Tasks, NEW b \in Branches, b # u, <<u, run>> \in tip'[b]
                   PROVE  /\ b = Main
                          /\ \/ outcome[u] = "merged"
                             \/ outcome[u] = "none" /\ Through(u)'
      BY <1>0 DEF CarriedInv, pipe
    <3>2. CASE <<u, run>> \in tip[b]
      BY <1>0, <1>4, <3>1, <3>2 DEF ReportInv, CarriedInv
    <3>3. CASE b = Main /\ <<u, run>> \in tip[t]
      <4>1. u = t
        BY <1>2, <1>5, <3>3 DEF ReportInv, CarriedInv
      <4>2. QED
        BY <2>5, <2>6, <3>1, <3>3, <4>1
    <3>4. QED
      BY <2>2, <3>1, <3>2, <3>3
  <2>8. QED
    BY <1>3, <2>3, <2>4, <2>7 DEF ReportInv
<1>10. QED
  BY <1>0, <1>6, <1>7, <1>8, <1>9, ManagerTips

\* A step of run that reports the task the loop is at and goes on, or starts to
\* remove its worktree.
LEMMA ReportsCurrent ==
  ASSUME LossInv, ReportInv, phase = "integrate", ~Cleaning, at \in DOMAIN plan,
         NEW status \in Statuses, Report(Current, status),
         \/ at' = at + 1 /\ Goto(orch, "idle")
         \/ at' = at /\ \E d \in BOOLEAN :
              call' = [call EXCEPT ![orch] = RemoveCall(Current, TRUE, d)],
         UNCHANGED <<git, phase, plan, run, made>>,
         \A b \in Branches \ {Current} : <<Current, run>> \in tip[b] => status = "merged" /\ b = Main,
         status = "merged" => tip[Current] \subseteq tip[Main]
  PROVE  ReportInv'
<1> USE DEF LossInv, TypeInv, TypeOK, PipeTypeOK
<1>1. /\ Current \in Tasks /\ outcome[Current] = "none"
      /\ outcome' = [outcome EXCEPT ![Current] = status]
  BY DEF Current, ReportInv, OrderInv, Report
<1>2. ASSUME NEW d \in BOOLEAN, call' = [call EXCEPT ![orch] = RemoveCall(Current, TRUE, d)]
      PROVE  Cleaning'
  <2>1. RemoveCall(Current, TRUE, d) \in Frames
    BY <1>1, NewFrames
  <2>2. call'[orch] = RemoveCall(Current, TRUE, d)
    BY <1>2, <2>1, NewCall
  <2>3. QED
    BY <2>2 DEF RemoveCall, NoFrame, Cleaning, Idle
<1>3. (at' = at /\ Cleaning') \/ at' = at + 1
  BY <1>2
<1>4. OrderInv'
  <2>1. \A i \in DOMAIN plan : i # at => plan[i] # Current
    BY DEF ReportInv, OrderInv, Duplicated, Active, Current
  <2>2. \A i \in DOMAIN plan : i > at => outcome'[plan[i]] = "none"
    BY <1>1, <2>1 DEF ReportInv, OrderInv
  <2>3. QED
    BY <1>3, <2>2 DEF ReportInv, OrderInv, Duplicated
<1>5. RunInv'
  BY DEF ReportInv, RunInv, git
<1>6. MadeInv'
  BY <1>1 DEF ReportInv, MadeInv, git
<1>7. \A u \in Tasks : u # Current => ~Through(u)
  BY DEF Through, LoopInv, Idle
<1>8. CarriedInv'
  BY <1>1, <1>7 DEF ReportInv, CarriedInv, git, Active
<1>9. QED
  BY <1>4, <1>5, <1>6, <1>8 DEF ReportInv

LEMMA OrchestrateReportInv ==
  ASSUME LossInv, ReportInv, Orchestrate
  PROVE  ReportInv'
<1> USE DEF LossInv, TypeInv, TypeOK, PipeTypeOK
<1>1. ASSUME Integrating \/ MergeReturned
      PROVE  /\ phase = "integrate" /\ ~Cleaning /\ at \in DOMAIN plan
             /\ Current \in Tasks /\ outcome[Current] = "none"
  <2>1. phase = "integrate" /\ ~Cleaning /\ at \in DOMAIN plan
    BY <1>1 DEF Integrating, MergeReturned, Returned, Cleaning, Idle, LoopInv
  <2>2. QED
    BY <2>1 DEF Current, ReportInv, OrderInv
<1>2. ASSUME Integrating \/ MergeReturned, ~Through(Current)
      PROVE  \A b \in Branches \ {Current} : <<Current, run>> \notin tip[b]
  BY <1>1, <1>2 DEF ReportInv, CarriedInv, Active
<1>3. ASSUME Integrating \/ MergeReturned, ~Through(Current),
             NEW status \in Statuses \ {"merged"}, Report(Current, status),
             MaybeKeep(Current), UNCHANGED <<git, phase, plan, run, made>>
      PROVE  ReportInv'
  BY <1>1, <1>2, <1>3, ReportsCurrent DEF MaybeKeep
<1>4. CASE CreateNext \/ VerifyPass
  <2>1. /\ UNCHANGED <<git, phase, plan, at, outcome, run, made>>
        /\ Idle(orch) /\ phase \in {"create", "integrate"}
        /\ \/ call' = [call EXCEPT ![orch] = CreateCall(Current)]
           \/ call' = [call EXCEPT ![orch] = MergeCall(Current, Main)]
    BY <1>4 DEF CreateNext, VerifyPass, Integrating, pipe
  <2>2. Current \in Tasks
    BY <1>1, <1>4, CurrentType DEF CreateNext, VerifyPass
  <2>3. call'[orch] \in {CreateCall(Current), MergeCall(Current, Main)}
    BY <2>1, <2>2, NewFrames, NewCall
  <2>4. ~Cleaning /\ ~Cleaning' /\ \A u : ~Through(u)
    BY <2>1, <2>3 DEF Cleaning, Idle, Through, CreateCall, MergeCall, NoFrame
  <2>5. OrderInv'
    BY <2>1, <2>4 DEF ReportInv, OrderInv, Duplicated
  <2>6. RunInv' /\ MadeInv' /\ CarriedInv'
    BY <2>1, <2>4 DEF ReportInv, RunInv, MadeInv, CarriedInv, git
  <2>7. QED
    BY <2>5, <2>6 DEF ReportInv
<1>5. CASE CreateReturned \/ SpawnWorkers
  <2>1. /\ UNCHANGED <<git, plan, outcome, run, made>>
        /\ phase = "create" /\ phase' \in {"create", "work"}
    BY <1>5 DEF CreateReturned, SpawnWorkers
  <2>2. OrderInv' /\ RunInv' /\ MadeInv' /\ CarriedInv'
    BY <2>1 DEF ReportInv, OrderInv, RunInv, MadeInv, CarriedInv, Duplicated, Through, Active, git
  <2>3. QED
    BY <2>2 DEF ReportInv
<1>6. CASE WorkersDone
  <2>1. \A i \in DOMAIN plan : plan[i] \in Tasks
    OBVIOUS
  <2>2. OrderInv' /\ RunInv' /\ MadeInv' /\ CarriedInv'
    BY <1>6, <2>1
    DEF WorkersDone, ReportInv, OrderInv, RunInv, MadeInv, CarriedInv, Duplicated, Through,
        Active, git
  <2>3. QED
    BY <2>2 DEF ReportInv
<1>7. ASSUME phase' \in {"raised", "done"}, phase = "integrate",
             UNCHANGED <<git, plan, outcome, run, made>>
      PROVE  ReportInv'
  <2>1. OrderInv' /\ RunInv' /\ MadeInv' /\ CarriedInv'
    BY <1>7 DEF ReportInv, OrderInv, RunInv, MadeInv, CarriedInv, Active, git
  <2>2. QED
    BY <2>1 DEF ReportInv
<1>8. CASE VerifyRaise \/ MergeRaised \/ Finish
  BY <1>7, <1>8 DEF VerifyRaise, MergeRaised, MergeReturned, Finish, Integrating
<1>9. CASE IntegrateError
  <2>1. CASE Current \in BadIds
    BY <1>7, <1>9, <2>1 DEF IntegrateError, Integrating
  <2>2. CASE Current \notin BadIds
    <3>1. /\ UNCHANGED <<git, call, phase, plan, run, made>> /\ at' = at + 1
          /\ Integrating /\ Report(Current, "error")
      BY <1>9, <2>2 DEF IntegrateError
    <3>2. Goto(orch, "idle")
      BY <3>1, PipelineAssumption DEF Integrating, Idle, Goto, CallTypeOK, Frames
    <3>3. ~Through(Current)
      BY <3>1 DEF Integrating, Idle, Through
    <3>4. QED
      BY <1>1, <1>2, <3>1, <3>2, <3>3, ReportsCurrent DEF Statuses
  <2>3. QED
    BY <2>1, <2>2
<1>10. CASE IntegrateNotOk \/ VerifyReject
  BY <1>3, <1>10 DEF IntegrateNotOk, VerifyReject, Integrating, Idle, Through, Statuses
<1>11. CASE MergeRefused
  BY <1>3, <1>11 DEF MergeRefused, Through, Statuses
<1>12. CASE MergeLanded
  <2>1. /\ MergeReturned /\ UNCHANGED <<git, phase, plan, run, made>>
        /\ Report(Current, "merged")
        /\ \/ at' = at + 1 /\ Goto(orch, "idle")
           \/ at' = at /\ call' = [call EXCEPT ![orch] = RemoveCall(Current, TRUE, TRUE)]
    BY <1>12 DEF MergeLanded
  <2>2. tip[Current] \subseteq tip[Main]
    <3>1. call[orch].task = Current
      BY <2>1 DEF MergeReturned, Returned, LoopInv, Idle
    <3>2. QED
      BY <1>12, <3>1 DEF MergeLanded, MergeReturned, Returned, LandingInv
  <2>3. \A b \in Branches \ {Current} : <<Current, run>> \in tip[b] => b = Main
    BY <1>1, <2>1 DEF ReportInv, CarriedInv
  <2>4. QED
    BY <1>1, <2>1, <2>2, <2>3, ReportsCurrent DEF Statuses
<1>13. CASE CleanupReturned
  <2>1. /\ UNCHANGED <<git, phase, plan, outcome, run, made>> /\ at' = at + 1
        /\ phase = "integrate" /\ ~Through(Current) /\ call[orch].op = "remove"
    BY <1>13 DEF CleanupReturned, Through
  <2>2. OrderInv' /\ RunInv' /\ MadeInv' /\ CarriedInv'
    BY <2>1 DEF ReportInv, OrderInv, RunInv, MadeInv, CarriedInv, Duplicated, Through, git
  <2>3. QED
    BY <2>2 DEF ReportInv
<1>14. CASE Manager
  BY <1>14, ManagerReportInv
<1>15. QED
  BY <1>4, <1>5, <1>6, <1>8, <1>9, <1>10, <1>11, <1>12, <1>13, <1>14 DEF Orchestrate

LEMMA ReportInvNext ==
  ASSUME LossInv, ReportInv, [Next]_vars
  PROVE  ReportInv'
<1> USE DEF LossInv, TypeInv, TypeOK, PipeTypeOK
<1>1. CASE StartRun
  <2>1. /\ phase \notin Active /\ run' = run + 1 /\ UNCHANGED <<git, made>>
        /\ phase' \in {"raised", "create"} /\ \A t \in Tasks : outcome'[t] = "none"
        /\ phase' = "create" => ~Duplicated(plan')
    BY <1>1 DEF StartRun
  <2>2. RunInv'
    BY <2>1 DEF ReportInv, RunInv, git
  <2>3. \A t \in Tasks, b \in Branches : <<t, run'>> \notin tip'[b] \cup made'
    BY <2>1 DEF ReportInv, RunInv, git
  <2>4. MadeInv' /\ CarriedInv'
    BY <2>3 DEF MadeInv, CarriedInv, Branches
  <2>5. OrderInv'
    BY <2>1 DEF OrderInv, Duplicated, Active
  <2>6. QED
    BY <2>2, <2>4, <2>5 DEF ReportInv
<1>2. CASE Orchestrate
  BY <1>2, OrchestrateReportInv
<1>3. CASE Crash
  <2>1. phase' = "crashed" /\ phase \in Active /\ UNCHANGED <<git, plan, outcome, run, made>>
    BY <1>3 DEF Crash
  <2>2. OrderInv' /\ RunInv' /\ MadeInv' /\ CarriedInv'
    BY <2>1 DEF ReportInv, OrderInv, RunInv, MadeInv, CarriedInv, Active, git
  <2>3. QED
    BY <2>2 DEF ReportInv
<1>3a. CASE OsError
  <2>1. /\ phase' = "raised" /\ phase \in Active
        /\ UNCHANGED <<tip, plan, at, outcome, run, made>>
    BY <1>3a, OsErrorStep
  <2>2. OrderInv' /\ RunInv' /\ MadeInv' /\ CarriedInv'
    BY <2>1 DEF ReportInv, OrderInv, RunInv, MadeInv, CarriedInv, Active
  <2>3. QED
    BY <2>2 DEF ReportInv
<1>4. ASSUME NEW t \in Tasks, WorkerStart(t) \/ WorkerReturn(t)  PROVE ReportInv'
  <2>1. UNCHANGED <<tip, call, phase, plan, at, outcome, run, made>>
    BY <1>4 DEF WorkerStart, WorkerReturn, git
  <2>2. OrderInv' /\ RunInv' /\ MadeInv' /\ CarriedInv'
    BY <2>1 DEF ReportInv, OrderInv, RunInv, MadeInv, CarriedInv, Duplicated, Cleaning, Idle,
                Through
  <2>3. QED
    BY <2>2 DEF ReportInv
<1>5. ASSUME NEW t \in Tasks, WorkerCommit(t)  PROVE ReportInv'
  <2>1. /\ phase = "work" /\ UNCHANGED <<call, phase, plan, at, outcome, run>>
        /\ made' = made \cup {<<t, run>>}
        /\ tip'[t] = tip[t] \cup {<<t, run>>}
        /\ \A b \in Branches : b # t => tip'[b] = tip[b]
    BY <1>5 DEF WorkerCommit, CommitIn, GitTypeOK, Branches
  <2>2. OrderInv' /\ RunInv'
    BY <2>1 DEF ReportInv, OrderInv, RunInv, Duplicated
  <2>3. MadeInv'
    BY <2>1, GitAssumption DEF ReportInv, OrderInv, MadeInv, Branches
  <2>4. CarriedInv'
    BY <2>1 DEF ReportInv, CarriedInv, Through
  <2>5. QED
    BY <2>2, <2>3, <2>4 DEF ReportInv
<1>6. CASE UNCHANGED vars
  BY <1>6 DEF vars, git, pipe, ReportInv, OrderInv, RunInv, MadeInv, CarriedInv, Duplicated,
              Cleaning, Idle, Through
<1>7. QED
  BY <1>1, <1>2, <1>3, <1>3a, <1>4, <1>5, <1>6 DEF Next

LEMMA ReportInvInit == Init => ReportInv
<1> SUFFICES ASSUME Init PROVE ReportInv
  OBVIOUS
<1>1. /\ phase = "idle" /\ made = {}
      /\ \A t \in Tasks, b \in Branches, n \in Nat : <<t, n>> \notin tip[b]
  BY GitAssumption DEF Init, GitInit, Branches
<1>2. run \in Nat
  BY DEF Init
<1>3. QED
  BY <1>1, <1>2 DEF ReportInv, OrderInv, RunInv, MadeInv, CarriedInv, Active

\* The report never says "merged" of a commit that is not on the integration
\* branch, nor anything else of one that is: through every order of workers,
\* fault, timeout, crash and retried run, wherever HEAD was.
THEOREM ReportIsTrue == Spec => []ReportMatchesMain
<1>1. LossInv /\ ReportInv => ReportMatchesMain
  BY GitAssumption
  DEF LossInv, ReportInv, MadeInv, CarriedInv, ReportMatchesMain, Branches
<1>2. Init => LossInv /\ ReportInv
  BY LossInvInit, ReportInvInit
<1>3. LossInv /\ ReportInv /\ [Next]_vars => LossInv' /\ ReportInv'
  BY LossInvNext, ReportInvNext
<1>4. QED
  BY <1>1, <1>2, <1>3, PTL DEF Spec

----------------------------------------------------------------------------
(* While merge runs, the task the loop is at is one whose worker was ok.   *)

MergingInv == ~Idle(orch) /\ call[orch].op = "merge" => slot[Current] = "ok"

LEMMA OrchestrateMergingInv ==
  ASSUME TypeInv, MergingInv, Orchestrate
  PROVE  MergingInv'
<1> USE DEF TypeInv, TypeOK
<1>1. ASSUME Goto(orch, "idle")  PROVE MergingInv'
  BY <1>1, PipelineAssumption DEF MergingInv, Goto, Idle, CallTypeOK
<1>2. ASSUME NEW f \in Frames, call' = [call EXCEPT ![orch] = f],
             f.op # "merge" \/ slot'[Current'] = "ok"
      PROVE  MergingInv'
  BY <1>2, NewCall DEF MergingInv
<1>3. ASSUME Idle(orch), UNCHANGED call  PROVE MergingInv'
  BY <1>3 DEF MergingInv, Idle
<1>4. CASE CreateNext
  <2>1. Current \in Tasks
    BY <1>4, CurrentType DEF CreateNext
  <2>2. CreateCall(Current) \in Frames /\ CreateCall(Current).op # "merge"
    BY <2>1, NewFrames DEF CreateCall, NoFrame
  <2>3. QED
    BY <1>2, <1>4, <2>2 DEF CreateNext
<1>5. CASE CreateReturned \/ CleanupReturned \/ MergeRaised
  BY <1>1, <1>5 DEF CreateReturned, CleanupReturned, MergeRaised
<1>6. CASE SpawnWorkers \/ WorkersDone \/ Finish \/ IntegrateError \/ VerifyRaise
  BY <1>3, <1>6 DEF SpawnWorkers, WorkersDone, Finish, IntegrateError, VerifyRaise, Integrating,
                    LoopInv
<1>7. ASSUME MaybeKeep(Current), Current \in Tasks
      PROVE  MergingInv'
  <2>1. RemoveCall(Current, TRUE, FALSE) \in Frames /\ RemoveCall(Current, TRUE, FALSE).op # "merge"
    BY <1>7, NewFrames DEF RemoveCall, NoFrame
  <2>2. QED
    BY <1>1, <1>2, <1>7, <2>1 DEF MaybeKeep
<1>8. ASSUME Integrating \/ MergeReturned  PROVE Current \in Tasks
  BY <1>8, CurrentType DEF Integrating, MergeReturned, Returned, LoopInv, Idle, PipeTypeOK, Current
<1>9. CASE IntegrateNotOk \/ VerifyReject \/ MergeRefused
  BY <1>7, <1>8, <1>9 DEF IntegrateNotOk, VerifyReject, MergeRefused
<1>10. CASE VerifyPass
  BY <1>2, <1>8, <1>10, NewFrames DEF VerifyPass, Current
<1>11. CASE MergeLanded
  <2>1. RemoveCall(Current, TRUE, TRUE) \in Frames /\ RemoveCall(Current, TRUE, TRUE).op # "merge"
    BY <1>8, <1>11, NewFrames DEF MergeLanded, RemoveCall, NoFrame
  <2>2. QED
    BY <1>1, <1>2, <1>11, <2>1 DEF MergeLanded
<1>12. CASE Manager
  <2>1. SameCall(orch)
    BY <1>12, PipelineAssumption, ManagerSameCall DEF Manager
  <2>2. QED
    BY <1>12, <2>1 DEF Manager, pipe, SameCall, Idle, MergingInv, Current
<1>13. QED
  BY <1>4, <1>5, <1>6, <1>9, <1>10, <1>11, <1>12 DEF Orchestrate

LEMMA MergingInvNext ==
  ASSUME TypeInv, MergingInv, [Next]_vars
  PROVE  MergingInv'
<1> USE DEF TypeInv, TypeOK
<1>1. CASE StartRun
  BY <1>1 DEF StartRun, MergingInv, LoopInv, Active, Idle
<1>2. CASE Orchestrate
  BY <1>2, OrchestrateMergingInv
<1>3. CASE OsError
  BY <1>3, OsErrorStep DEF MergingInv, Idle
<1>4. CASE Crash
  BY <1>4, PipelineAssumption DEF Crash, MergingInv, Goto, Idle, CallTypeOK
<1>5. ASSUME NEW t \in Tasks, WorkerStart(t) \/ WorkerCommit(t) \/ WorkerReturn(t)
      PROVE  MergingInv'
  BY <1>5 DEF WorkerStart, WorkerCommit, WorkerReturn, LoopInv, MergingInv, Idle
<1>6. CASE UNCHANGED vars
  BY <1>6 DEF vars, pipe, MergingInv, Idle, Current
<1>7. QED
  BY <1>1, <1>2, <1>3, <1>4, <1>5, <1>6 DEF Next

----------------------------------------------------------------------------
(* Where HEAD and the index are when git refuses and times out nothing     *)
(* beyond what the repository's state makes it refuse.  The `checkout      *)
(* prior` of the finally then succeeds: prior was checked out before, no   *)
(* worktree is added while merge runs, and the index is clean by then.     *)

\* The steps of the orchestrator other than git commands: they start or end a
\* call and leave the repository alone.
LEMMA BetweenCalls ==
  ASSUME TypeInv, Orchestrate, ~Manager
  PROVE  /\ phase \in Active /\ phase' # "crashed" /\ UNCHANGED <<git, origin>>
         /\ call[orch].step \in {"idle", "returned"}
         /\ call'[orch].step \in {"idle", "probe", "tree"}
<1> USE DEF TypeInv, TypeOK
<1>1. /\ phase \in Active /\ phase' # "crashed" /\ UNCHANGED <<git, origin>>
      /\ call[orch].step \in {"idle", "returned"}
  BY DEF Orchestrate, Active, CreateNext, CreateReturned, SpawnWorkers, WorkersDone, IntegrateError,
         IntegrateNotOk, VerifyPass, VerifyReject, VerifyRaise, MergeLanded, MergeRefused,
         MergeRaised, CleanupReturned, Finish, Integrating, MergeReturned, Idle, Returned,
         LoopInv, pipe
<1>2. \/ UNCHANGED call /\ Idle(orch)
      \/ Goto(orch, "idle")
      \/ Current \in Tasks /\ \E f \in {CreateCall(Current), MergeCall(Current, Main),
                    RemoveCall(Current, TRUE, TRUE), RemoveCall(Current, TRUE, FALSE)} :
           call' = [call EXCEPT ![orch] = f]
  <2>1. ASSUME Integrating \/ MergeReturned  PROVE Current \in Tasks
    BY <2>1, CurrentType DEF Integrating, MergeReturned, Returned, LoopInv, Idle, PipeTypeOK,
                             Current
  <2>2. CASE CreateNext
    BY <2>2, CurrentType DEF CreateNext
  <2>3. CASE SpawnWorkers \/ WorkersDone \/ Finish \/ IntegrateError \/ VerifyRaise
    BY <2>3 DEF SpawnWorkers, WorkersDone, Finish, IntegrateError, VerifyRaise, Integrating,
                LoopInv
  <2>4. CASE CreateReturned \/ MergeRaised \/ CleanupReturned
    BY <2>4 DEF CreateReturned, MergeRaised, CleanupReturned
  <2>5. CASE IntegrateNotOk \/ VerifyReject \/ MergeRefused
    BY <2>1, <2>5 DEF IntegrateNotOk, VerifyReject, MergeRefused, MaybeKeep
  <2>6. CASE VerifyPass \/ MergeLanded
    BY <2>1, <2>6 DEF VerifyPass, MergeLanded
  <2>7. QED
    BY <2>2, <2>3, <2>4, <2>5, <2>6 DEF Orchestrate
<1>3. ASSUME Current \in Tasks,
             NEW f \in {CreateCall(Current), MergeCall(Current, Main),
                        RemoveCall(Current, TRUE, TRUE), RemoveCall(Current, TRUE, FALSE)},
             call' = [call EXCEPT ![orch] = f]
      PROVE  call'[orch].step \in {"probe", "tree"}
  <2>1. f \in Frames
    BY <1>3, NewFrames
  <2>2. call'[orch] = f
    BY <1>3, <2>1, NewCall
  <2>3. QED
    BY <2>2 DEF CreateCall, MergeCall, RemoveCall, NoFrame
<1>4. Goto(orch, "idle") => call'[orch].step = "idle"
  BY PipelineAssumption DEF Goto, CallTypeOK, Frames
<1>5. QED
  BY <1>1, <1>2, <1>3, <1>4 DEF Idle

HomeInv ==
  LET f == call[orch] IN
  /\ f.step \notin Moved /\ phase # "crashed" => head = origin
  /\ f.step \in Moved => head = f.into
  /\ f.step \in Moved \cup {"checkout"} => f.prior = origin /\ origin \in exists \ admin
  /\ index # "locked"
  /\ f.step \in Moved /\ index = "unmerged" => f.step \in {"diff", "abort"}

LEMMA ManagerHomeInv ==
  ASSUME MaxFaults = 0, LossInv, AdminInv, HomeInv, Manager
  PROVE  HomeInv'
<1> DEFINE f == call[orch]
           g == call'[orch]
<1> USE DEF LossInv, TypeInv, TypeOK
<1>1. /\ orch \in Callers /\ ManagerStep(orch) /\ UNCHANGED <<phase, origin>>
      /\ phase # "crashed"
  BY PipelineAssumption DEF Manager, pipe, Active
<1>2. faults \in Nat /\ ~(faults < MaxFaults)
  BY DEF GitTypeOK
<1>3. UNCHANGED faults
  BY <1>1, <1>2, ManagerFaults
<1>4. index' # "locked"
  BY <1>1, <1>3, ManagerIndex DEF HomeInv
<1>5. g.into = f.into
  BY <1>1, ManagerSameCall DEF SameCall
<1>6. f.step \in Moved /\ g.step \in Moved /\ index' = "unmerged" => g.step \in {"diff", "abort"}
  BY <1>1, <1>3, ManagerIndex DEF HomeInv
<1>7. f.step = "restore" => index = "clean"
  BY DEF HomeInv, Moved, GitTypeOK
<1>8. CASE /\ f.step \notin Moved \cup {"checkout"} /\ g.step \notin Moved
           /\ g.step = "checkout" => g.prior = head /\ UNCHANGED <<exists, admin>>
           /\ UNCHANGED head
  <2>1. head = origin /\ head \in exists /\ head \notin admin
    BY <1>1, <1>8 DEF HomeInv, GitInv, AdminInv
  <2>2. QED
    BY <1>1, <1>4, <1>8, <2>1 DEF HomeInv
<1>9. CASE /\ f.step = "checkout" /\ g.step = "merge" /\ head' = f.into
           /\ g.prior = f.prior /\ index' = "clean"
           /\ UNCHANGED <<exists, admin>>
  BY <1>1, <1>5, <1>9 DEF HomeInv, Moved
<1>10. CASE f.step = "checkout" /\ g.step = "returned" /\ UNCHANGED head
  BY <1>1, <1>4, <1>10 DEF HomeInv, Moved
<1>11. CASE /\ f.step \in Moved /\ g.step \in Moved \ {"merge"}
            /\ g.prior = f.prior
            /\ UNCHANGED <<head, exists, admin>>
  BY <1>1, <1>4, <1>5, <1>6, <1>11 DEF HomeInv
<1>12. CASE /\ f.step = "restore" /\ g.step = "returned"
            /\ \/ f.prior = f.into /\ UNCHANGED head
               \/ head' = f.prior
               \/ ~CanCheckout(f.prior)
  <2>1. f.prior = origin /\ origin \in exists \ admin /\ head = f.into
    BY <1>12 DEF HomeInv, Moved
  <2>2. CanCheckout(f.prior)
    BY <1>7, <1>12, <2>1 DEF CanCheckout
  <2>3. QED
    BY <1>1, <1>4, <1>12, <2>1, <2>2 DEF HomeInv, Moved
<1>13. QED
  BY <1>1, <1>2, <1>8, <1>9, <1>10, <1>11, <1>12, ManagerHead

\* If nothing but this process is killed in the middle of a merge, an unmerged
\* index is one that merge has seen and is about to undo.
IndexInv ==
  /\ phase # "crashed"
  /\ index = "unmerged" => call[orch].step \in {"diff", "abort"}

QuietInv == LossInv /\ AdminInv /\ HomeInv

LEMMA HomeInvNext ==
  ASSUME MaxFaults = 0, QuietInv, [Next]_vars
  PROVE  /\ QuietInv'
         /\ MaxCrashes = 0 /\ IndexInv => IndexInv'
<1> USE DEF QuietInv, LossInv, TypeInv, TypeOK
<1>0. LossInv'
  BY LossInvNext
<1>1. CASE StartRun
  <2>1. /\ UNCHANGED <<git, call>> /\ origin' = head /\ phase' # "crashed"
        /\ call[orch].step = "idle"
    BY <1>1 DEF StartRun, LoopInv, Active, Idle
  <2>2. AdminInv' /\ HomeInv' /\ (IndexInv => IndexInv')
    BY <2>1 DEF AdminInv, HomeInv, IndexInv, Moved, git
  <2>3. QED
    BY <1>0, <2>2
<1>2. CASE Orchestrate /\ ~Manager
  <2>1. AdminInv' /\ HomeInv'
    BY <1>2, BetweenCalls DEF AdminInv, HomeInv, Moved, Active, git
  <2>2. IndexInv => IndexInv'
    BY <1>2, BetweenCalls DEF IndexInv, git
  <2>3. QED
    BY <1>0, <2>1, <2>2
<1>3. CASE Manager
  <2>1. orch \in Callers /\ ManagerStep(orch) /\ UNCHANGED phase
    BY <1>3, PipelineAssumption DEF Manager, pipe
  <2>2. AdminInv' /\ HomeInv'
    BY <1>3, <2>1, ManagerGuard, ManagerHomeInv
  <2>3. UNCHANGED faults
    BY <2>1, ManagerFaults DEF GitTypeOK
  <2>4. IndexInv => IndexInv'
    BY <2>1, <2>3, ManagerIndex DEF IndexInv
  <2>5. QED
    BY <1>0, <2>2, <2>4
<1>4. CASE Crash
  <2>1. /\ UNCHANGED git /\ phase' = "crashed" /\ crashes < MaxCrashes
        /\ call'[orch].step = "idle"
    BY <1>4, PipelineAssumption DEF Crash, Goto, CallTypeOK, Frames
  <2>2. AdminInv' /\ HomeInv'
    BY <2>1 DEF AdminInv, HomeInv, Moved, git
  <2>3. MaxCrashes # 0
    BY <2>1 DEF PipeTypeOK
  <2>4. QED
    BY <1>0, <2>2, <2>3
<1>4a. ~OsError
  BY OsErrorStep DEF GitTypeOK
<1>5. ASSUME \/ \E t \in Tasks : WorkerStart(t) \/ WorkerCommit(t) \/ WorkerReturn(t)
             \/ UNCHANGED vars
      PROVE  AdminInv' /\ HomeInv' /\ (IndexInv => IndexInv')
  <2>1. UNCHANGED <<exists, head, index, admin, call, phase, origin>>
    BY <1>5 DEF WorkerStart, WorkerCommit, WorkerReturn, CommitIn, vars, git, pipe
  <2>2. QED
    BY <2>1 DEF AdminInv, HomeInv, IndexInv
<1>6. QED
  BY <1>0, <1>1, <1>2, <1>3, <1>4, <1>4a, <1>5 DEF Next

LEMMA HomeInvInit == Init => QuietInv /\ IndexInv
<1> SUFFICES ASSUME Init PROVE QuietInv /\ IndexInv
  OBVIOUS
<1>1. call[orch].step = "idle"
  BY PipelineAssumption DEF Init, WorktreeInit, NoFrame
<1>2. QED
  BY <1>1, LossInvInit DEF Init, GitInit, QuietInv, AdminInv, HomeInv, IndexInv, Moved

\* If git refuses no command without a reason of its own and no command times
\* out, every run that ends with a report or an exception has HEAD where its
\* caller had it, whatever conflicts and whatever earlier runs were killed.
THEOREM HeadIsRestored ==
  ASSUME MaxFaults = 0
  PROVE  Spec => []HeadRestored
<1>1. QuietInv => HeadRestored
  BY DEF QuietInv, LossInv, TypeInv, LoopInv, Idle, HomeInv, Moved, HeadRestored
<1>2. Init => QuietInv
  BY HomeInvInit
<1>3. QuietInv /\ [Next]_vars => QuietInv'
  BY HomeInvNext
<1>4. QED
  BY <1>1, <1>2, <1>3, PTL DEF Spec

\* If, besides, no run is killed, no conflict is ever left half merged when the
\* next task is integrated or the run is over.
THEOREM MergesAreWhole ==
  ASSUME MaxFaults = 0, MaxCrashes = 0
  PROVE  Spec => []NeverHalfApplied
<1>1. QuietInv /\ IndexInv => NeverHalfApplied
  BY DEF QuietInv, LossInv, TypeInv, LoopInv, Idle, IndexInv, NeverHalfApplied, Integrating
<1>2. Init => QuietInv /\ IndexInv
  BY HomeInvInit
<1>3. QuietInv /\ IndexInv /\ [Next]_vars => QuietInv' /\ IndexInv'
  BY HomeInvNext
<1>4. QED
  BY <1>1, <1>2, <1>3, PTL DEF Spec

----------------------------------------------------------------------------
(* The worktrees and branches a finished run leaves behind, when git       *)
(* refuses and times out nothing beyond what the repository makes it       *)
(* refuse.  A task whose worktree create returned keeps its worktree and   *)
(* branch until it is reported; the cleanup that follows a report then     *)
(* finds both where `worktree remove --force` and `branch -D` want them.   *)

All == exists \cap admin \cap dirs

\* Slots of a task whose worktree was made.
Standing == {"ready", "running", "ok", "notok"}

\* Statuses of a task whose work did not land though its worktree stands.
Blocked == {"verify_failed", "worker_failed", "conflict"}

TreeInv ==
  \A t \in Tasks : slot[t] \in Standing /\ outcome[t] = "none" => t \in All \ BadIds

CreateInv ==
  LET f == call[orch] IN
  ~Idle(orch) /\ f.op = "create" =>
    /\ f.step # "probe" /\ ~(f.step = "returned" /\ f.res # "ok") => f.task \notin BadIds
    /\ f.step = "head" \/ (f.step = "returned" /\ f.res = "ok") => f.task \in All

CleanInv ==
  LET f == call[orch]
      t == f.task
  IN Cleaning =>
       /\ f.force /\ t \notin BadIds
       /\ IF f.delete_branch THEN outcome[t] = "merged"
          ELSE outcome[t] \in Blocked /\ ~KeepBlocked
       /\ f.step = "tree" => t \in All
       /\ f.step = "branch" => /\ f.delete_branch /\ t \in exists
                               /\ t \notin admin \cup dirs /\ t # head
       /\ f.step = "returned" => t \notin dirs /\ (t \in exists <=> ~f.delete_branch)

Settled(t) ==
  /\ outcome[t] # "none"
  /\ outcome[t] = "merged" /\ CleanupMerged => t \notin exists \cup dirs
  /\ outcome[t] \in Blocked => t \in exists /\ (t \in dirs <=> KeepBlocked)

SettledInv ==
  /\ phase = "integrate" => \A i \in DOMAIN plan : i < at => Settled(plan[i])
  /\ phase = "done" => \A i \in DOMAIN plan : Settled(plan[i])

DebrisInv == TreeInv /\ CreateInv /\ CleanInv /\ SettledInv

LEMMA ManagerDebrisInv ==
  ASSUME MaxFaults = 0, LossInv, AdminInv, OrderInv, DebrisInv, Manager
  PROVE  DebrisInv'
<1> DEFINE f == call[orch]
           g == call'[orch]
           t == f.task
<1> USE DEF LossInv, TypeInv, TypeOK
<1>1. /\ orch \in Callers /\ ManagerStep(orch) /\ UNCHANGED pipe
      /\ phase \in Active /\ ~(faults < MaxFaults)
  BY PipelineAssumption DEF Manager, GitTypeOK
<1>2. SameCall(orch)
  BY <1>1, ManagerSameCall
<1>3. /\ f.step # "idle" /\ g.step # "idle" /\ g.op = f.op /\ g.task = t /\ g.force = f.force
      /\ g.delete_branch = f.delete_branch /\ f.op \in Ops /\ f.step \in Steps
      /\ Cleaning <=> f.op = "remove"
      /\ Cleaning' <=> f.op = "remove"
      /\ ~Idle(orch) /\ ~Idle(orch)'
  BY <1>1, <1>2 DEF SameCall, Idle, Cleaning, CallTypeOK, Frames
<1>4. /\ t \in Tasks /\ t = Current /\ at \in DOMAIN plan
      /\ f.op = "create" <=> phase = "create"
      /\ phase \in {"create", "integrate"}
  BY <1>1, <1>3 DEF LoopInv, CallTypeOK, Frames
<1>5. \A u \in Tasks : u # t => /\ u \in exists' <=> u \in exists
                                /\ u \in admin' <=> u \in admin
                                /\ u \in dirs' <=> u \in dirs
  BY <1>1, ManagerTrees
<1>6. TreeInv'
  <2>1. ASSUME f.op \in {"create", "merge"}
        PROVE  t \in All => t \in All'
    BY <1>1, <2>1, ManagerTrees DEF All
  <2>2. f.op = "remove" => outcome[t] # "none"
    BY <1>3 DEF DebrisInv, CleanInv, Blocked
  <2>3. \A u \in Tasks : u # t => (u \in All <=> u \in All')
    BY <1>5 DEF All
  <2>4. slot' = slot /\ outcome' = outcome
    BY <1>1 DEF pipe
  <2>5. QED
    BY <1>3, <2>1, <2>2, <2>3, <2>4 DEF DebrisInv, TreeInv, Ops
<1>7. SettledInv'
  <2>1. /\ phase' = phase /\ plan' = plan /\ at' = at /\ outcome' = outcome
        /\ phase # "done"
    BY <1>1 DEF pipe, Active
  <2>2. ASSUME NEW i \in DOMAIN plan, i < at, phase = "integrate"
        PROVE  Settled(plan[i])'
    <3>1. plan[i] \in Tasks /\ plan[i] # t
      BY <1>4, <2>2 DEF PipeTypeOK, OrderInv, Active, Duplicated, Current
    <3>2. Settled(plan[i])
      BY <2>2 DEF DebrisInv, SettledInv
    <3>3. QED
      BY <1>5, <2>1, <3>1, <3>2 DEF Settled
  <2>3. QED
    BY <2>1, <2>2 DEF SettledInv
<1>8. CreateInv'
  <2>1. CASE f.op # "create"
    BY <1>3, <2>1 DEF CreateInv
  <2>2. CASE CreateRefused(orch)
    <3>1. g.step = "returned" /\ g.res = "raised"
      BY <1>1, <2>2 DEF CreateRefused, Return, CallTypeOK, Frames
    <3>2. QED
      BY <1>3, <3>1 DEF CreateInv
  <2>3. CASE CreateProbe(orch)
    <3>1. /\ t \notin BadIds
          /\ g.step = "add" \/ (g.step = "returned" /\ g.res = "raised")
      BY <1>1, <2>3 DEF CreateProbe, Return, CallTypeOK, Frames
    <3>2. QED
      BY <1>3, <3>1 DEF CreateInv
  <2>4. CASE CreateAdd(orch)
    <3>1. f.step = "add" /\ t \notin BadIds
      BY <1>3, <2>4 DEF CreateAdd, At, DebrisInv, CreateInv
    <3>2. PICK rc \in {"ok", "failed", "timeout"} :
            /\ WorktreeAdd(t, f.attach, rc)
            /\ IF rc = "ok" THEN Goto(orch, "head") ELSE Return(orch, "raised")
      BY <2>4 DEF CreateAdd
    <3>3. CASE rc = "ok"
      <4>1. t \in All'
        BY <1>1, <3>2, <3>3 DEF WorktreeAdd, CanAdd, NewBranch, All, Mishap
      <4>2. g.step = "head"
        BY <1>1, <3>2, <3>3 DEF Goto, CallTypeOK, Frames
      <4>3. QED
        BY <1>3, <3>1, <4>1, <4>2 DEF CreateInv
    <3>4. CASE rc # "ok"
      <4>1. g.step = "returned" /\ g.res = "raised"
        BY <1>1, <3>2, <3>4 DEF Return, CallTypeOK, Frames
      <4>2. QED
        BY <1>3, <4>1 DEF CreateInv
    <3>5. QED
      BY <3>3, <3>4
  <2>5. CASE CreateHead(orch)
    <3>1. t \in All /\ t \notin BadIds
      BY <1>3, <2>5 DEF CreateHead, At, DebrisInv, CreateInv
    <3>2. t \in All'
      BY <2>5, <3>1 DEF CreateHead, Read, All
    <3>3. QED
      BY <1>3, <3>1, <3>2 DEF CreateInv
  <2>6. QED
    BY <1>1, <2>1, <2>2, <2>3, <2>4, <2>5
    DEF ManagerStep, At, RemoveTree, RemoveBranch, MergeProbe, MergePrior, MergeCheckout,
        MergeMerge, MergeDiff, MergeUndo, MergeRestore
<1>9. CleanInv'
  <2>1. CASE f.op # "remove"
    BY <1>3, <2>1 DEF CleanInv
  <2>2. outcome' = outcome
    BY <1>1 DEF pipe
  <2>3. ASSUME f.op = "remove"
        PROVE  /\ f.force /\ t \notin BadIds
               /\ IF f.delete_branch THEN outcome[t] = "merged"
                  ELSE outcome[t] \in Blocked /\ ~KeepBlocked
               /\ f.delete_branch \in BOOLEAN
    BY <1>1, <1>3, <2>3 DEF DebrisInv, CleanInv, CallTypeOK, Frames
  <2>4. CASE RemoveTree(orch)
    <3>1. f.step = "tree" /\ f.op = "remove"
      BY <2>4 DEF RemoveTree, At
    <3>2. t \in All /\ t # head
      BY <1>3, <3>1 DEF DebrisInv, CleanInv, AdminInv, All
    <3>3. PICK rc \in {"ok", "failed", "timeout"} :
            /\ WorktreeRemove(t, f.force, rc)
            /\ IF rc # "ok" THEN Return(orch, "raised")
               ELSE IF f.delete_branch THEN Goto(orch, "branch")
               ELSE Return(orch, "ok")
      BY <2>3, <2>4, <3>1 DEF RemoveTree
    <3>4. /\ rc = "ok" /\ UNCHANGED <<exists, head>>
          /\ t \notin admin' \cup dirs'
      BY <1>1, <2>3, <3>1, <3>2, <3>3 DEF WorktreeRemove, CanRemove, Mishap, All
    <3>5. g.step = (IF f.delete_branch THEN "branch" ELSE "returned")
      BY <1>1, <2>3, <3>1, <3>3, <3>4 DEF Goto, Return, CallTypeOK, Frames
    <3>6. QED
      BY <1>3, <2>2, <2>3, <3>1, <3>2, <3>4, <3>5 DEF CleanInv, All
  <2>5. CASE RemoveBranch(orch)
    <3>1. f.step = "branch" /\ f.op = "remove"
      BY <2>5 DEF RemoveBranch, At
    <3>2. f.delete_branch /\ t \in exists /\ t \notin admin \cup dirs /\ t # head
      BY <1>3, <3>1 DEF DebrisInv, CleanInv
    <3>3. PICK rc : BranchDelete(t, rc)
      BY <2>5 DEF RemoveBranch
    <3>4. t \notin exists' /\ UNCHANGED dirs
      BY <1>1, <3>2, <3>3 DEF BranchDelete, Mishap
    <3>5. g.step = "returned"
      BY <1>1, <2>5 DEF RemoveBranch, Return, CallTypeOK, Frames
    <3>6. QED
      BY <1>3, <2>2, <2>3, <3>1, <3>2, <3>4, <3>5 DEF CleanInv
  <2>6. QED
    BY <1>1, <2>1, <2>4, <2>5
    DEF ManagerStep, At, CreateRefused, CreateProbe, CreateAdd, CreateHead,
        MergeProbe, MergePrior, MergeCheckout, MergeMerge, MergeDiff, MergeUndo, MergeRestore
<1>10. QED
  BY <1>6, <1>7, <1>8, <1>9 DEF DebrisInv

\* A step of run that reports the task the loop is at, as in ReportsCurrent.
\* Without a cleanup the report must fit the worktree and branch as they are.
LEMMA ReportsSettled ==
  ASSUME LossInv, OrderInv, DebrisInv, phase = "integrate", ~Cleaning, at \in DOMAIN plan,
         NEW status \in Statuses, Report(Current, status),
         UNCHANGED <<git, phase, plan, slot>>,
         \/ /\ at' = at + 1 /\ Goto(orch, "idle")
            /\ status = "merged" => ~CleanupMerged
            /\ status \in Blocked => KeepBlocked /\ Current \in All
         \/ /\ at' = at /\ Current \in All \ BadIds
            /\ \E d \in BOOLEAN :
                 /\ call' = [call EXCEPT ![orch] = RemoveCall(Current, TRUE, d)]
                 /\ IF d THEN status = "merged" ELSE status \in Blocked /\ ~KeepBlocked
  PROVE  DebrisInv'
<1> USE DEF LossInv, TypeInv, TypeOK, PipeTypeOK
<1>1. /\ Current \in Tasks /\ outcome' = [outcome EXCEPT ![Current] = status]
      /\ status # "none"
  BY DEF Current, Report, Statuses
<1>2. \A i \in DOMAIN plan : i # at => plan[i] \in Tasks /\ plan[i] # Current
  BY DEF OrderInv, Duplicated, Active, Current
<1>3. UNCHANGED <<exists, admin, dirs, head>>
  BY DEF git
<1>4. TreeInv'
  BY <1>1, <1>3 DEF DebrisInv, TreeInv, All
<1>5. \A i \in DOMAIN plan : i < at => Settled(plan[i])'
  BY <1>1, <1>2, <1>3 DEF DebrisInv, SettledInv, Settled
<1>6. CASE /\ at' = at + 1 /\ Goto(orch, "idle")
           /\ status = "merged" => ~CleanupMerged
           /\ status \in Blocked => KeepBlocked /\ Current \in All
  <2>1. call'[orch].step = "idle"
    BY <1>6, PipelineAssumption DEF Goto, CallTypeOK, Frames
  <2>2. \A u : u = Current => Settled(u)'
    BY <1>1, <1>3, <1>6 DEF Settled, All, Blocked
  <2>3. SettledInv'
    BY <1>5, <1>6, <2>2 DEF SettledInv, Current
  <2>4. QED
    BY <1>4, <2>1, <2>3 DEF DebrisInv, CreateInv, CleanInv, Cleaning, Idle
<1>7. ASSUME at' = at, Current \in All \ BadIds, NEW d \in BOOLEAN,
             call' = [call EXCEPT ![orch] = RemoveCall(Current, TRUE, d)],
             IF d THEN status = "merged" ELSE status \in Blocked /\ ~KeepBlocked
      PROVE  DebrisInv'
  <2>1. RemoveCall(Current, TRUE, d) \in Frames
    BY <1>1, NewFrames
  <2>2. call'[orch] = RemoveCall(Current, TRUE, d)
    BY <1>7, <2>1, NewCall
  <2>3. /\ call'[orch].op = "remove" /\ call'[orch].step = "tree" /\ call'[orch].force
        /\ call'[orch].delete_branch = d /\ call'[orch].task = Current
    BY <2>2 DEF RemoveCall, NoFrame
  <2>4. CreateInv' /\ CleanInv'
    BY <1>1, <1>3, <1>7, <2>3 DEF CreateInv, CleanInv, All
  <2>5. SettledInv'
    BY <1>5, <1>7 DEF SettledInv
  <2>6. QED
    BY <1>4, <2>4, <2>5 DEF DebrisInv
<1>8. QED
  BY <1>6, <1>7

LEMMA OrchestrateDebrisInv ==
  ASSUME MaxFaults = 0, LossInv, AdminInv, OrderInv, MergingInv, DebrisInv, Orchestrate
  PROVE  DebrisInv'
<1> USE DEF LossInv, TypeInv, TypeOK, PipeTypeOK
<1>1. ASSUME Integrating \/ MergeReturned
      PROVE  /\ phase = "integrate" /\ ~Cleaning /\ at \in DOMAIN plan
             /\ Current \in Tasks /\ outcome[Current] = "none"
  <2>1. phase = "integrate" /\ ~Cleaning /\ at \in DOMAIN plan
    BY <1>1 DEF Integrating, MergeReturned, Returned, Cleaning, Idle, LoopInv
  <2>2. QED
    BY <2>1 DEF Current, OrderInv
<1>2. ASSUME UNCHANGED <<git, outcome>>,
             \A t \in Tasks : slot'[t] \in Standing => slot[t] \in Standing \/ t \in All \ BadIds,
             call'[orch].step = "idle" \/ (call'[orch].step = "probe" /\ call'[orch].op # "remove"),
             UNCHANGED plan,
             phase' = "integrate" => at' = 1 \/ (phase = "integrate" /\ UNCHANGED at),
             phase' = "done" => phase = "integrate" /\ at > Len(plan)
      PROVE  DebrisInv'
  <2>1. TreeInv'
    BY <1>2 DEF DebrisInv, TreeInv, All, git
  <2>2. CreateInv'
    BY <1>2 DEF CreateInv, Idle
  <2>3. CleanInv'
    <3>1. ~Cleaning'
      BY <1>2 DEF Cleaning, Idle
    <3>2. QED
      BY <3>1 DEF CleanInv
  <2>4. \A t : Settled(t) => Settled(t)'
    BY <1>2 DEF Settled, git
  <2>5. \A i \in DOMAIN plan : i >= 1 /\ i <= Len(plan)
    OBVIOUS
  <2>6. SettledInv'
    BY <1>2, <2>4, <2>5 DEF DebrisInv, SettledInv
  <2>7. QED
    BY <2>1, <2>2, <2>3, <2>6 DEF DebrisInv
<1>3. Idle(orch)' <=> call'[orch].step = "idle"
  BY DEF Idle
<1>4. Goto(orch, "idle") => call'[orch].step = "idle"
  BY PipelineAssumption DEF Goto, CallTypeOK, Frames
<1>5. CASE CreateNext \/ VerifyPass
  <2>1. /\ UNCHANGED <<git, phase, plan, at, slot, outcome>>
        /\ phase \in {"create", "integrate"}
        /\ \/ call' = [call EXCEPT ![orch] = CreateCall(Current)]
           \/ call' = [call EXCEPT ![orch] = MergeCall(Current, Main)]
    BY <1>5 DEF CreateNext, VerifyPass, Integrating, pipe
  <2>2. Current \in Tasks
    BY <1>1, <1>5, CurrentType DEF CreateNext, VerifyPass
  <2>3. call'[orch] \in {CreateCall(Current), MergeCall(Current, Main)}
    BY <2>1, <2>2, NewFrames, NewCall
  <2>4. call'[orch].step = "probe" /\ call'[orch].op # "remove"
    BY <2>3 DEF CreateCall, MergeCall, NoFrame
  <2>5. QED
    BY <1>2, <2>1, <2>4
<1>6. CASE CreateReturned
  <2>1. /\ UNCHANGED <<git, phase, plan, outcome>> /\ phase = "create"
        /\ slot' = [slot EXCEPT ![Current] = IF call[orch].res = "ok" THEN "ready" ELSE "error"]
        /\ call'[orch].step = "idle"
    BY <1>4, <1>6 DEF CreateReturned
  <2>2. /\ call[orch].task = Current /\ call[orch].op = "create"
        /\ call[orch].step = "returned" /\ ~Idle(orch) /\ Current \in Tasks
    BY <1>6 DEF CreateReturned, Returned, Idle, LoopInv, Current
  <2>3. call[orch].res = "ok" => Current \in All \ BadIds
    BY <2>2 DEF DebrisInv, CreateInv
  <2>4. \A t \in Tasks : slot'[t] \in Standing => slot[t] \in Standing \/ t \in All \ BadIds
    BY <2>1, <2>3 DEF Standing
  <2>5. QED
    BY <1>2, <2>1, <2>4
<1>7. CASE SpawnWorkers \/ WorkersDone \/ Finish
  BY <1>2, <1>7 DEF SpawnWorkers, WorkersDone, Finish, Idle, LoopInv
<1>8. CASE VerifyRaise \/ MergeRaised
  BY <1>2, <1>4, <1>8 DEF VerifyRaise, MergeRaised, Integrating, Idle
<1>9. CASE IntegrateError
  <2>1. CASE Current \in BadIds
    BY <1>2, <1>9, <2>1 DEF IntegrateError, Integrating, Idle
  <2>2. CASE Current \notin BadIds
    <3>1. /\ UNCHANGED <<git, call, phase, plan, slot>> /\ at' = at + 1
          /\ Integrating /\ Report(Current, "error")
      BY <1>9, <2>2 DEF IntegrateError
    <3>2. Goto(orch, "idle")
      BY <3>1, PipelineAssumption DEF Integrating, Idle, Goto, CallTypeOK, Frames
    <3>3. "error" \in Statuses /\ "error" \notin Blocked
      BY DEF Statuses, Blocked
    <3>4. QED
      BY <1>1, <3>1, <3>2, <3>3, ReportsSettled
  <2>3. QED
    BY <2>1, <2>2
<1>10. ASSUME Integrating \/ MergeReturned, slot[Current] \in {"ok", "notok"},
              NEW status \in Blocked, Report(Current, status), MaybeKeep(Current),
              UNCHANGED <<git, phase, plan, slot>>
       PROVE  DebrisInv'
  <2>1. Current \in All \ BadIds
    BY <1>1, <1>10 DEF DebrisInv, TreeInv, Standing
  <2>2. status \in Statuses /\ status # "merged"
    BY DEF Blocked, Statuses
  <2>3. QED
    BY <1>1, <1>10, <2>1, <2>2, ReportsSettled DEF MaybeKeep
<1>11. CASE IntegrateNotOk \/ VerifyReject
  BY <1>10, <1>11 DEF IntegrateNotOk, VerifyReject, Blocked
<1>12. MergeReturned => slot[Current] = "ok"
  BY DEF MergeReturned, Returned, Idle, MergingInv
<1>13. CASE MergeRefused
  BY <1>10, <1>12, <1>13 DEF MergeRefused, Blocked
<1>14. CASE MergeLanded
  <2>1. /\ MergeReturned /\ UNCHANGED <<git, phase, plan, slot>>
        /\ Report(Current, "merged")
        /\ \/ ~CleanupMerged /\ at' = at + 1 /\ Goto(orch, "idle")
           \/ at' = at /\ call' = [call EXCEPT ![orch] = RemoveCall(Current, TRUE, TRUE)]
    BY <1>14 DEF MergeLanded
  <2>2. Current \in All \ BadIds
    BY <1>1, <1>12, <2>1 DEF DebrisInv, TreeInv, Standing
  <2>3. "merged" \in Statuses /\ "merged" \notin Blocked
    BY DEF Statuses, Blocked
  <2>4. QED
    BY <1>1, <2>1, <2>2, <2>3, ReportsSettled
<1>15. CASE CleanupReturned
  <2>1. /\ UNCHANGED <<git, phase, plan, slot, outcome>> /\ at' = at + 1 /\ phase = "integrate"
        /\ call'[orch].step = "idle"
    BY <1>4, <1>15 DEF CleanupReturned
  <2>2. /\ call[orch].op = "remove" /\ call[orch].step = "returned" /\ Cleaning
        /\ call[orch].task = Current
    BY <1>15 DEF CleanupReturned, Returned, Idle, Cleaning, LoopInv
  <2>3. \A u : u = Current => Settled(u)'
    BY <2>1, <2>2 DEF DebrisInv, CleanInv, Settled, Blocked, git
  <2>4. SettledInv'
    BY <2>1, <2>3 DEF DebrisInv, SettledInv, Settled, Current, git
  <2>5. TreeInv' /\ CreateInv' /\ CleanInv'
    BY <2>1 DEF DebrisInv, TreeInv, CreateInv, CleanInv, Cleaning, Idle, All, git
  <2>6. QED
    BY <2>4, <2>5 DEF DebrisInv
<1>16. CASE Manager
  BY <1>16, ManagerDebrisInv
<1>17. QED
  BY <1>5, <1>6, <1>7, <1>8, <1>9, <1>11, <1>13, <1>14, <1>15, <1>16 DEF Orchestrate

TidyInv == LossInv /\ AdminInv /\ OrderInv /\ MergingInv /\ DebrisInv

LEMMA TidyInvNext ==
  ASSUME MaxFaults = 0, TidyInv, ReportInv, [Next]_vars
  PROVE  TidyInv'
<1> USE DEF TidyInv, LossInv, TypeInv, TypeOK, PipeTypeOK
<1>0. ~OsError
  BY OsErrorStep DEF GitTypeOK
<1>1. LossInv' /\ MergingInv' /\ OrderInv'
  BY LossInvNext, MergingInvNext, ReportInvNext DEF ReportInv
<1>2. AdminInv'
  <2>1. CASE Manager
    BY <2>1, PipelineAssumption, ManagerGuard DEF Manager
  <2>2. CASE ~Manager
    <3>1. UNCHANGED <<exists, head, admin>>
      BY <1>0, <2>2, BetweenCalls DEF Next, StartRun, Crash, WorkerStart, WorkerCommit, WorkerReturn,
                                CommitIn, vars, git
    <3>2. QED
      BY <3>1 DEF AdminInv
  <2>3. QED
    BY <2>1, <2>2
<1>3. DebrisInv'
  <2>1. CASE StartRun
    <3>1. /\ UNCHANGED <<git, call>> /\ phase' \in {"raised", "create"}
          /\ \A t \in Tasks : slot'[t] = "none"
          /\ Idle(orch)
      BY <2>1 DEF StartRun, LoopInv, Active
    <3>2. QED
      BY <3>1 DEF DebrisInv, TreeInv, CreateInv, CleanInv, SettledInv, Cleaning, Idle, Standing
  <2>2. CASE Orchestrate
    BY <2>2, OrchestrateDebrisInv
  <2>3. CASE Crash
    <3>1. /\ UNCHANGED <<git, slot, outcome>> /\ phase' = "crashed"
          /\ call'[orch].step = "idle"
      BY <2>3, PipelineAssumption DEF Crash, Goto, CallTypeOK, Frames
    <3>2. QED
      BY <3>1 DEF DebrisInv, TreeInv, CreateInv, CleanInv, SettledInv, Cleaning, Idle, All, git
  <2>4. ASSUME NEW t \in Tasks, WorkerStart(t) \/ WorkerCommit(t) \/ WorkerReturn(t)
        PROVE  DebrisInv'
    <3>1. /\ UNCHANGED <<exists, admin, dirs, head, call, phase, outcome>> /\ phase = "work"
          /\ \A u \in Tasks : slot'[u] \in Standing => slot[u] \in Standing
      BY <2>4 DEF WorkerStart, WorkerCommit, WorkerReturn, CommitIn, Standing, git
    <3>2. QED
      BY <3>1 DEF DebrisInv, TreeInv, CreateInv, CleanInv, SettledInv, Cleaning, Idle, LoopInv, All
  <2>5. CASE UNCHANGED vars
    BY <2>5 DEF vars, git, pipe, DebrisInv, TreeInv, CreateInv, CleanInv, SettledInv, Settled,
                Cleaning, Idle, All
  <2>6. QED
    BY <1>0, <2>1, <2>2, <2>3, <2>4, <2>5 DEF Next
<1>4. QED
  BY <1>1, <1>2, <1>3

\* If git refuses no command without a reason of its own and no command times
\* out, a run that finishes has reported every task; of a merged one neither
\* worktree nor branch is left (if cleanup_merged), a blocked one has its
\* branch, and its worktree exactly if keep_blocked: also after runs that were
\* killed and left theirs behind.
THEOREM NoDebrisIsLeft ==
  ASSUME MaxFaults = 0
  PROVE  Spec => []NoDebris
<1>1. Init => TidyInv /\ ReportInv
  <2> SUFFICES ASSUME Init PROVE TidyInv /\ ReportInv
    OBVIOUS
  <2>1. call[orch].step = "idle"
    BY PipelineAssumption DEF Init, WorktreeInit, NoFrame
  <2>2. LossInv /\ ReportInv
    BY LossInvInit, ReportInvInit
  <2>3. AdminInv /\ MergingInv
    BY <2>1 DEF Init, GitInit, AdminInv, MergingInv, Idle
  <2>4. DebrisInv
    BY <2>1 DEF Init, DebrisInv, TreeInv, CreateInv, CleanInv, SettledInv, Cleaning, Idle, Standing
  <2>5. QED
    BY <2>2, <2>3, <2>4 DEF TidyInv, ReportInv
<1>2. TidyInv /\ ReportInv /\ [Next]_vars => TidyInv' /\ ReportInv'
  BY TidyInvNext, ReportInvNext DEF TidyInv
<1>3. TidyInv => NoDebris
  BY DEF TidyInv, DebrisInv, SettledInv, Settled, Blocked, NoDebris
<1>4. QED
  BY <1>1, <1>2, <1>3, PTL DEF Spec

(***************************************************************************)
(* The refinement of ReviewGate.  With HEAD on the integration branch when *)
(* the first run starts, and blocked worktrees kept, only reviewed commits *)
(* land.  The argument: a commit no verifier passed can only be on         *)
(* the branch of a task whose worktree is still there, create refuses such *)
(* a task, and HEAD never leaves the integration branch, so that every new *)
(* task branch starts from landed commits alone.  Neither assumption can   *)
(* be dropped: MCPipelineDevHead.cfg and MCPipelineReattach.cfg show why.  *)
(***************************************************************************)

HeadInv == head = Main

\* A branch without a worktree holds nothing that still awaits review.
BranchInv == \A t \in Tasks : t \in exists \ dirs => tip[t] \subseteq approved

\* A worker's branch holds landed work and what it committed in this run.
SlotInv ==
  \A t \in Tasks : slot[t] \in Standing => tip[t] \subseteq approved \cup {<<t, run>>}

FrameInv ==
  LET f == call[orch] IN
  /\ f.op = "create" /\ (f.step = "head" \/ (f.step = "returned" /\ f.res = "ok"))
       => tip[f.task] \subseteq approved
  /\ f.op \in {"merge", "remove"} /\ f.step # "idle" => tip[f.task] \subseteq approved
  /\ f.op = "merge" /\ f.step \in {"checkout", "merge", "diff", "abort", "restore"}
       => f.prior = Main

\* Every commit was there at first or was made by a worker.
SourceInv ==
  \A b \in Branches : tip[b] \subseteq made \cup {<<Main, 0>>, <<Dev, 0>>}

ReviewInv == approved \subseteq made \cup {<<Main, 0>>}

GateInv ==
  /\ TypeInv
  /\ HeadInv /\ OnlyReviewedLands /\ BranchInv /\ SlotInv /\ FrameInv
  /\ SourceInv /\ ReviewInv

\* What a step must do to the integration branch, next to keeping GateInv.
GateStep == [Gate!GateNext]_(Gate!gate)

----------------------------------------------------------------------------
LEMMA GateInvInit ==
  ASSUME HeadAtStart = Main, Init
  PROVE  GateInv /\ Gate!GateInit
<1>1. TypeInv
  BY TypeInvInit
<1>2. head = Main /\ exists \cap Tasks = {} /\ Main \in exists
  BY GitAssumption DEF Init, GitInit
<1>3. tip[Main] = {<<Main, 0>>} /\ approved = {<<Main, 0>>} /\ made = {}
  BY <1>2 DEF Init, GitInit, Branches
<1>4. SourceInv
  BY DEF Init, GitInit, SourceInv, Branches
<1>5. call[orch].step = "idle"
  BY PipelineAssumption DEF Init, WorktreeInit, NoFrame
<1>6. SlotInv
  BY DEF Init, SlotInv, Standing
<1>7. FrameInv
  BY <1>5 DEF FrameInv
<1>8. Gate!GateInit
  BY <1>3 DEF Gate!GateInit
<1>9. QED
  BY <1>1, <1>2, <1>3, <1>4, <1>6, <1>7, <1>8
  DEF GateInv, HeadInv, OnlyReviewedLands, BranchInv, ReviewInv

----------------------------------------------------------------------------
(* Manager steps.                                                          *)

\* Steps of a git command that leaves the branches alone.
LEMMA BranchesKept ==
  ASSUME UNCHANGED <<exists, tip, dirs, head, slot, run, approved, made>>, GateInv,
         TypeInv', FrameInv'
  PROVE  GateInv' /\ GateStep
<1>1. GateInv'
  BY DEF GateInv, HeadInv, OnlyReviewedLands, BranchInv, SlotInv, SourceInv, ReviewInv
<1>2. UNCHANGED Gate!gate
  BY DEF Gate!gate
<1>3. QED
  BY <1>1, <1>2 DEF GateStep

LEMMA CreateGate ==
  ASSUME GateInv, Manager, call[orch].op = "create"
  PROVE  GateInv' /\ GateStep
<1> DEFINE f == call[orch]
           g == call'[orch]
           t == f.task
<1> USE DEF GateInv, TypeInv, TypeOK
<1>0. /\ orch \in Callers
      /\ t \in Tasks /\ t \in Branches /\ Main \in Branches /\ t # Main
  BY PipelineAssumption, GitAssumption DEF CallTypeOK, Frames, Branches
<1>1. TypeInv'
  BY TypeInvNext DEF Next, Orchestrate
<1>2. g.op = "create" /\ g.task = t
  BY <1>0, ManagerSameCall DEF Manager, SameCall
<1>3. UNCHANGED <<slot, run, approved, made>>
  BY DEF Manager, pipe
<1>4. CASE CreateRefused(orch) \/ CreateProbe(orch)
  <2>1. UNCHANGED <<exists, tip, dirs, head>>
    BY <1>4 DEF CreateRefused, CreateProbe, Read, git
  <2>2. g.step = "add" \/ (g.step = "returned" /\ g.res # "ok")
    BY <1>0, <1>4 DEF CreateRefused, CreateProbe, Return, CallTypeOK, Frames
  <2>3. FrameInv'
    BY <1>2, <2>2 DEF FrameInv
  <2>4. QED
    BY <1>1, <1>3, <2>1, <2>3, BranchesKept
<1>5. CASE CreateHead(orch)
  <2>1. UNCHANGED <<exists, tip, dirs, head>> /\ f.step = "head"
    BY <1>5 DEF CreateHead, Read, At
  <2>2. FrameInv'
    BY <1>2, <1>3, <2>1 DEF FrameInv
  <2>3. QED
    BY <1>1, <1>3, <2>1, <2>2, BranchesKept
<1>6. CASE CreateAdd(orch)
  <2>1. PICK rc : WorktreeAdd(t, f.attach, rc) /\ (rc = "ok" \/ Return(orch, "raised"))
    BY <1>6 DEF CreateAdd
  <2>2. UNCHANGED head
    BY <2>1 DEF WorktreeAdd
  \* A failed command may add the branch, never the worktree alone.
  <2>3. \/ UNCHANGED <<exists, tip, dirs>> /\ rc # "ok"
        \/ CanAdd(t, f.attach) /\ UNCHANGED <<exists, tip>> /\ f.attach
             /\ dirs \subseteq dirs'
        \/ CanAdd(t, f.attach) /\ NewBranch(t) /\ dirs \subseteq dirs'
    BY <2>1 DEF WorktreeAdd
  <2>4. CASE UNCHANGED <<exists, tip, dirs>> /\ rc # "ok"
    <3>1. g.step = "returned" /\ g.res = "raised"
      BY <1>0, <2>1, <2>4 DEF Return, CallTypeOK, Frames
    <3>2. FrameInv'
      BY <1>2, <3>1 DEF FrameInv
    <3>3. QED
      BY <1>1, <1>3, <2>2, <2>4, <3>2, BranchesKept
  <2>5. CASE CanAdd(t, f.attach) /\ UNCHANGED <<exists, tip>> /\ f.attach /\ dirs \subseteq dirs'
    <3>1. tip[t] \subseteq approved
      BY <1>0, <2>5 DEF CanAdd, BranchInv
    <3>2. FrameInv'
      BY <1>2, <1>3, <2>5, <3>1 DEF FrameInv
    <3>3. GateInv'
      BY <1>1, <1>3, <2>2, <2>5, <3>2
      DEF HeadInv, OnlyReviewedLands, BranchInv, SlotInv, SourceInv, ReviewInv
    <3>4. QED
      BY <1>3, <2>5, <3>3 DEF GateStep, Gate!gate
  <2>6. CASE CanAdd(t, f.attach) /\ NewBranch(t) /\ dirs \subseteq dirs'
    <3>1. tip' = [tip EXCEPT ![t] = tip[Main]]
      BY <2>6 DEF NewBranch, HeadInv
    <3>2. /\ tip'[t] = tip[Main]
          /\ \A b \in Branches \ {t} : tip'[b] = tip[b]
          /\ tip'[t] \subseteq approved
      BY <1>0, <3>1 DEF GitTypeOK, OnlyReviewedLands
    <3>3. FrameInv'
      BY <1>2, <1>3, <3>2 DEF FrameInv
    <3>4. BranchInv' /\ SlotInv'
      BY <1>3, <2>6, <3>2 DEF BranchInv, SlotInv, NewBranch, Branches
    <3>5. SourceInv'
      BY <1>0, <1>3, <3>2 DEF SourceInv
    <3>6. tip'[Main] = tip[Main]
      BY <1>0, <3>2
    <3>7. GateInv'
      BY <1>1, <1>3, <2>2, <3>3, <3>4, <3>5, <3>6 DEF HeadInv, OnlyReviewedLands, ReviewInv
    <3>8. QED
      BY <1>3, <3>6, <3>7 DEF GateStep, Gate!gate
  <2>7. QED
    BY <2>3, <2>4, <2>5, <2>6
<1>7. QED
  BY <1>4, <1>5, <1>6
  DEF Manager, ManagerStep, At, RemoveTree, RemoveBranch, MergeProbe, MergePrior,
      MergeCheckout, MergeMerge, MergeDiff, MergeUndo, MergeRestore

LEMMA RemoveGate ==
  ASSUME GateInv, Manager, call[orch].op = "remove"
  PROVE  GateInv' /\ GateStep
<1> DEFINE f == call[orch]
           g == call'[orch]
           t == f.task
<1> USE DEF GateInv, TypeInv, TypeOK
<1>0. /\ orch \in Callers
      /\ t \in Tasks /\ t \in Branches /\ Main \in Branches /\ t # Main
  BY PipelineAssumption, GitAssumption DEF CallTypeOK, Frames, Branches
<1>1. TypeInv'
  BY TypeInvNext DEF Next, Orchestrate
<1>2. g.op = "remove" /\ g.task = t /\ f.step # "idle"
  BY <1>0, ManagerSameCall DEF Manager, SameCall
<1>3. UNCHANGED <<slot, run, approved, made>>
  BY DEF Manager, pipe
<1>4. tip[t] \subseteq approved
  BY <1>2 DEF FrameInv
<1>5. CASE RemoveTree(orch)
  <2>1. UNCHANGED <<exists, tip, head>> /\ dirs \ {t} \subseteq dirs'
    BY <1>5 DEF RemoveTree, WorktreeRemove, git
  <2>2. FrameInv'
    BY <1>2, <1>3, <1>4, <2>1 DEF FrameInv
  <2>3. GateInv'
    BY <1>1, <1>3, <1>4, <2>1, <2>2
    DEF HeadInv, OnlyReviewedLands, BranchInv, SlotInv, SourceInv, ReviewInv
  <2>4. QED
    BY <1>3, <2>1, <2>3 DEF GateStep, Gate!gate
<1>6. CASE RemoveBranch(orch)
  <2>1. /\ UNCHANGED <<head, dirs>>
        /\ \/ UNCHANGED <<exists, tip>>
           \/ exists' = exists \ {t} /\ tip' = [tip EXCEPT ![t] = {}]
    BY <1>6 DEF RemoveBranch, BranchDelete
  <2>2. \A b \in Branches \ {t} : tip'[b] = tip[b]
    BY <2>1 DEF GitTypeOK
  <2>3. tip'[t] \subseteq tip[t] /\ tip'[Main] = tip[Main]
    BY <1>0, <2>1 DEF GitTypeOK
  <2>4. FrameInv'
    BY <1>2, <1>3, <1>4, <2>3 DEF FrameInv
  <2>5. BranchInv' /\ SlotInv'
    BY <1>3, <1>4, <2>1, <2>2, <2>3 DEF BranchInv, SlotInv, Branches
  <2>6. SourceInv'
    BY <1>0, <1>3, <2>2, <2>3 DEF SourceInv
  <2>7. GateInv'
    BY <1>1, <1>3, <2>1, <2>3, <2>4, <2>5, <2>6 DEF HeadInv, OnlyReviewedLands, ReviewInv
  <2>8. QED
    BY <1>3, <2>3, <2>7 DEF GateStep, Gate!gate
<1>7. QED
  BY <1>5, <1>6
  DEF Manager, ManagerStep, At, CreateRefused, CreateProbe, CreateAdd, CreateHead,
      MergeProbe, MergePrior, MergeCheckout, MergeMerge, MergeDiff, MergeUndo, MergeRestore

LEMMA MergeGate ==
  ASSUME GateInv, Manager, call[orch].op = "merge"
  PROVE  GateInv' /\ GateStep
<1> DEFINE f == call[orch]
           g == call'[orch]
           t == f.task
<1> USE DEF GateInv, TypeInv, TypeOK
<1>0. /\ orch \in Callers
      /\ t \in Tasks /\ t \in Branches /\ Main \in Branches /\ t # Main
  BY PipelineAssumption, GitAssumption DEF CallTypeOK, Frames, Branches
<1>1. TypeInv'
  BY TypeInvNext DEF Next, Orchestrate
<1>2. g.op = "merge" /\ g.task = t /\ f.step # "idle"
  BY <1>0, ManagerSameCall DEF Manager, SameCall
<1>3. UNCHANGED <<slot, run, approved, made>>
  BY DEF Manager, pipe
<1>4. tip[t] \subseteq approved /\ f.into = Main
  BY <1>2 DEF FrameInv, LoopInv, Idle
\* merge only ever checks out Main, and remembers Main as the prior ref.
<1>5. g.step \in {"checkout", "merge", "diff", "abort", "restore"} => g.prior = Main
  <2>1. CASE MergePrior(orch)
    BY <1>0, <2>1 DEF MergePrior, Return, CallTypeOK, Frames, HeadInv
  <2>2. CASE MergeProbe(orch)
    BY <1>0, <2>2 DEF MergeProbe, Return, Goto, CallTypeOK, Frames
  <2>3. CASE MergeRestore(orch)
    BY <1>0, <2>3 DEF MergeRestore, Return, CallTypeOK, Frames
  <2>4. CASE MergeCheckout(orch)
    <3>1. g.prior = f.prior
      BY <1>0, <2>4 DEF MergeCheckout, Goto, Return, CallTypeOK, Frames
    <3>2. QED
      BY <2>4, <3>1 DEF MergeCheckout, At, FrameInv
  <2>5. CASE MergeMerge(orch) \/ MergeDiff(orch) \/ MergeUndo(orch)
    <3>1. g.prior = f.prior
      BY <1>0, <2>5 DEF MergeMerge, MergeDiff, MergeUndo, Goto, Finally, CallTypeOK, Frames
    <3>2. QED
      BY <2>5, <3>1 DEF MergeMerge, MergeDiff, MergeUndo, At, FrameInv
  <2>6. QED
    BY <2>1, <2>2, <2>3, <2>4, <2>5
    DEF Manager, ManagerStep, At, CreateRefused, CreateProbe, CreateAdd, CreateHead,
        RemoveTree, RemoveBranch
<1>6. /\ UNCHANGED <<exists, dirs, head>>
      /\ UNCHANGED tip \/ Land(t)
  <2>1. CASE MergeCheckout(orch)
    BY <1>4, <2>1 DEF MergeCheckout, Checkout, HeadInv
  <2>2. CASE MergeRestore(orch)
    BY <1>4, <2>2 DEF MergeRestore, At, FrameInv, git
  <2>3. CASE MergeMerge(orch)
    BY <2>3 DEF MergeMerge, Merge
  <2>4. CASE MergeProbe(orch) \/ MergePrior(orch) \/ MergeDiff(orch) \/ MergeUndo(orch)
    BY <2>4 DEF MergeProbe, MergePrior, MergeDiff, MergeUndo, Read, MergeAbort, git
  <2>5. QED
    BY <2>1, <2>2, <2>3, <2>4
    DEF Manager, ManagerStep, At, CreateRefused, CreateProbe, CreateAdd, CreateHead,
        RemoveTree, RemoveBranch
<1>7. CASE UNCHANGED tip
  <2>1. FrameInv'
    BY <1>2, <1>3, <1>4, <1>5, <1>7 DEF FrameInv
  <2>2. QED
    BY <1>1, <1>3, <1>6, <1>7, <2>1, BranchesKept
<1>8. CASE Land(t)
  <2>1. /\ tip'[Main] = tip[Main] \cup tip[t]
        /\ \A b \in Branches \ {Main} : tip'[b] = tip[b]
    BY <1>0, <1>8 DEF Land, GitTypeOK, HeadInv
  <2>2. tip'[t] = tip[t]
    BY <1>0, <2>1
  <2>3. FrameInv'
    BY <1>2, <1>3, <1>4, <1>5, <2>2 DEF FrameInv
  <2>4. OnlyReviewedLands' /\ tip[Main] \subseteq tip'[Main]
    BY <1>3, <1>4, <2>1 DEF OnlyReviewedLands
  <2>5. BranchInv' /\ SlotInv'
    BY <1>3, <1>6, <2>1, GitAssumption DEF BranchInv, SlotInv, Branches
  <2>6. SourceInv'
    BY <1>0, <1>3, <2>1 DEF SourceInv
  <2>7. GateInv'
    BY <1>1, <1>3, <1>6, <2>3, <2>4, <2>5, <2>6 DEF HeadInv, ReviewInv
  <2>8. GateStep
    BY <1>3, <2>4 DEF GateStep, Gate!GateNext, Gate!LandReviewed, OnlyReviewedLands
  <2>9. QED
    BY <2>7, <2>8
<1>9. QED
  BY <1>6, <1>7, <1>8

LEMMA ManagerGate ==
  ASSUME GateInv, Manager
  PROVE  GateInv' /\ GateStep
<1>1. call[orch].op \in Ops
  BY PipelineAssumption DEF GateInv, TypeInv, TypeOK, CallTypeOK, Frames
<1>2. QED
  BY <1>1, CreateGate, RemoveGate, MergeGate DEF Ops

----------------------------------------------------------------------------
(* The orchestrator's and the workers' steps.                              *)

\* A step that changes neither the repository nor the histories and lets no
\* new task hold a worktree.
LEMMA QuietGate ==
  ASSUME GateInv, TypeInv', UNCHANGED <<git, approved, made>>, FrameInv',
         \A t \in Tasks : slot'[t] \in Standing => slot[t] \in Standing /\ run' = run
  PROVE  GateInv' /\ GateStep
<1>1. SlotInv'
  BY DEF GateInv, SlotInv, git
<1>2. GateInv'
  BY <1>1 DEF GateInv, HeadInv, OnlyReviewedLands, BranchInv, SourceInv, ReviewInv, git
<1>3. QED
  BY <1>2 DEF GateStep, Gate!gate, git

LEMMA FrameDropped ==
  ASSUME CallTypeOK, Goto(orch, "idle")
  PROVE  FrameInv'
<1>1. call'[orch].step = "idle"
  BY PipelineAssumption DEF Goto, CallTypeOK, Frames
<1>2. QED
  BY <1>1 DEF FrameInv

LEMMA FrameMadeForReviewed ==
  ASSUME CallTypeOK, NEW t \in Tasks, tip'[t] \subseteq approved',
         \/ call' = [call EXCEPT ![orch] = MergeCall(t, Main)]
         \/ \E force, delete \in BOOLEAN :
              call' = [call EXCEPT ![orch] = RemoveCall(t, force, delete)]
  PROVE  FrameInv'
<1>1. \/ call'[orch] = MergeCall(t, Main)
      \/ \E force, delete \in BOOLEAN : call'[orch] = RemoveCall(t, force, delete)
  BY NewFrames, NewCall
<1>2. QED
  BY <1>1 DEF FrameInv, MergeCall, RemoveCall, NoFrame

LEMMA OrchestrateGate ==
  ASSUME KeepBlocked, GateInv, Orchestrate
  PROVE  GateInv' /\ GateStep
<1> USE DEF GateInv, TypeInv, TypeOK
<1>0. TypeInv' /\ orch \in Callers
  BY TypeInvNext, PipelineAssumption DEF Next
<1>1. ASSUME Integrating \/ MergeReturned  PROVE Current \in Tasks
  BY <1>1, CurrentType DEF Integrating, MergeReturned, Returned, LoopInv, Idle, PipeTypeOK, Current
<1>2. ASSUME UNCHANGED <<git, slot, run, approved, made>>, Goto(orch, "idle")
      PROVE  GateInv' /\ GateStep
  BY <1>0, <1>2, FrameDropped, QuietGate
<1>3. ASSUME UNCHANGED <<git, slot, run, approved, made, call>>
      PROVE  GateInv' /\ GateStep
  BY <1>0, <1>3, QuietGate DEF FrameInv, git
<1>4. CASE CreateNext
  <2>1. Current \in Tasks
    BY <1>4, CurrentType DEF CreateNext
  <2>2. call'[orch] = CreateCall(Current)
    BY <1>4, <2>1, NewFrames, NewCall DEF CreateNext
  <2>3. FrameInv'
    BY <2>2 DEF FrameInv, CreateCall, NoFrame
  <2>4. QED
    BY <1>0, <1>4, <2>3, QuietGate DEF CreateNext, pipe
<1>5. CASE CreateReturned
  <2>1. FrameInv'
    BY <1>5, FrameDropped DEF CreateReturned
  <2>2. call[orch].res = "ok" => tip[Current] \subseteq approved
    BY <1>5 DEF CreateReturned, Returned, FrameInv, LoopInv, Idle
  <2>3. \A t \in Tasks \ {Current} : slot'[t] = slot[t]
    BY <1>5 DEF CreateReturned, PipeTypeOK
  <2>4. Current \in Tasks => (slot'[Current] \in Standing => tip[Current] \subseteq approved)
    BY <1>5, <2>2 DEF CreateReturned, PipeTypeOK, Standing
  <2>5. SlotInv'
    BY <1>5, <2>3, <2>4 DEF SlotInv, CreateReturned, git
  <2>6. GateInv'
    BY <1>0, <1>5, <2>1, <2>5
    DEF CreateReturned, HeadInv, OnlyReviewedLands, BranchInv, SourceInv, ReviewInv, git
  <2>7. QED
    BY <1>5, <2>6 DEF CreateReturned, GateStep, Gate!gate, git
<1>6. CASE SpawnWorkers \/ WorkersDone \/ IntegrateError \/ VerifyRaise \/ Finish
  BY <1>3, <1>6 DEF SpawnWorkers, WorkersDone, IntegrateError, VerifyRaise, Finish
<1>7. CASE IntegrateNotOk \/ VerifyReject \/ MergeRefused
  BY <1>2, <1>7 DEF IntegrateNotOk, VerifyReject, MergeRefused, MaybeKeep
<1>8. CASE MergeRaised \/ CleanupReturned
  BY <1>2, <1>8 DEF MergeRaised, CleanupReturned
<1>9. CASE VerifyPass
  <2>1. Current \in Tasks /\ Current \in Branches /\ Current \notin {Main, Dev}
    BY <1>1, <1>9, GitAssumption DEF VerifyPass, Branches
  <2>2. tip[Current] \subseteq approved \cup {<<Current, run>>}
    BY <1>9, <2>1 DEF VerifyPass, SlotInv, Standing
  <2>3. tip[Current] \subseteq approved' /\ approved \subseteq approved' /\ UNCHANGED <<git, made>>
    BY <1>9, <2>2 DEF VerifyPass, Artifact
  \* What is approved now was made by the worker.
  <2>4. Artifact(Current) \subseteq made
    BY <2>1 DEF Artifact, SourceInv
  <2>5. ReviewInv'
    BY <1>9, <2>4 DEF VerifyPass, ReviewInv
  <2>6. FrameInv'
    BY <1>9, <2>1, <2>3, FrameMadeForReviewed DEF VerifyPass, git
  <2>7. OnlyReviewedLands' /\ BranchInv' /\ SlotInv' /\ SourceInv' /\ HeadInv'
    BY <1>9, <2>3 DEF VerifyPass, OnlyReviewedLands, BranchInv, SlotInv, SourceInv, HeadInv, git
  <2>8. GateStep
    BY <2>3, <2>5 DEF GateStep, Gate!GateNext, Gate!Review, ReviewInv, git
  <2>9. QED
    BY <1>0, <2>5, <2>6, <2>7, <2>8
<1>10. CASE MergeLanded
  <2>1. UNCHANGED <<git, slot, run, approved, made>>
    BY <1>10 DEF MergeLanded
  <2>2. CASE Goto(orch, "idle")
    BY <1>2, <2>1, <2>2
  <2>3. CASE call' = [call EXCEPT ![orch] = RemoveCall(Current, TRUE, TRUE)]
    <3>1. Current \in Tasks /\ call[orch].task = Current
      BY <1>1, <1>10 DEF MergeLanded, MergeReturned, Returned, LoopInv, Idle
    <3>2. tip[Current] \subseteq approved
      BY <1>10, <3>1 DEF MergeLanded, MergeReturned, Returned, FrameInv
    <3>3. FrameInv'
      BY <2>1, <2>3, <3>1, <3>2, FrameMadeForReviewed DEF git
    <3>4. QED
      BY <1>0, <2>1, <3>3, QuietGate
  <2>4. QED
    BY <1>10, <2>2, <2>3 DEF MergeLanded
<1>11. CASE Manager
  BY <1>11, ManagerGate
<1>12. QED
  BY <1>4, <1>5, <1>6, <1>7, <1>8, <1>9, <1>10, <1>11 DEF Orchestrate

LEMMA NextGate ==
  ASSUME KeepBlocked, GateInv, [Next]_vars
  PROVE  GateInv' /\ GateStep
<1> USE DEF GateInv, TypeInv, TypeOK
<1>0. TypeInv'
  BY TypeInvNext
<1>1. CASE StartRun
  <2>1. FrameInv' /\ (\A t \in Tasks : slot'[t] \notin Standing)
    BY <1>1 DEF StartRun, FrameInv, Standing, git
  <2>2. QED
    BY <1>0, <1>1, <2>1, QuietGate DEF StartRun
<1>2. CASE Orchestrate
  BY <1>2, OrchestrateGate
<1>3. CASE Crash
  BY <1>0, <1>3, FrameDropped, QuietGate DEF Crash
<1>3a. CASE OsError
  <2>1. /\ UNCHANGED <<exists, tip, head, dirs, slot, run, approved, made>>
        /\ call'[orch].step = "idle"
    BY <1>3a, OsErrorStep
  <2>2. FrameInv' /\ SlotInv'
    BY <2>1 DEF FrameInv, SlotInv
  <2>3. GateInv'
    BY <1>0, <2>1, <2>2 DEF HeadInv, OnlyReviewedLands, BranchInv, SourceInv, ReviewInv
  <2>4. QED
    BY <2>1, <2>3 DEF GateStep, Gate!gate
<1>4. ASSUME NEW t \in Tasks, WorkerStart(t)  PROVE GateInv' /\ GateStep
  <2>1. FrameInv' /\ (\A u \in Tasks : slot'[u] \in Standing => slot[u] \in Standing)
    BY <1>4 DEF WorkerStart, FrameInv, Standing, git, PipeTypeOK
  <2>2. QED
    BY <1>0, <1>4, <2>1, QuietGate DEF WorkerStart
<1>5. ASSUME NEW t \in Tasks, WorkerReturn(t)  PROVE GateInv' /\ GateStep
  <2>1. FrameInv' /\ SlotInv'
    BY <1>5 DEF WorkerReturn, FrameInv, SlotInv, Standing, PipeTypeOK
  <2>2. GateInv'
    BY <1>0, <1>5, <2>1
    DEF WorkerReturn, HeadInv, OnlyReviewedLands, BranchInv, SourceInv, ReviewInv
  <2>3. QED
    BY <1>5, <2>2 DEF WorkerReturn, GateStep, Gate!gate
<1>6. ASSUME NEW t \in Tasks, WorkerCommit(t)  PROVE GateInv' /\ GateStep
  <2>1. t \in Branches /\ Main \in Branches /\ t # Main /\ t \in dirs
    BY <1>6, GitAssumption DEF WorkerCommit, CommitIn, Branches
  <2>2. /\ tip'[t] = tip[t] \cup {<<t, run>>}
        /\ \A b \in Branches \ {t} : tip'[b] = tip[b]
        /\ made' = made \cup {<<t, run>>}
        /\ UNCHANGED <<exists, head, dirs, slot, run, approved, call>>
    BY <1>6, <2>1 DEF WorkerCommit, CommitIn, GitTypeOK
  <2>3. call[orch].step = "idle"
    BY <1>6 DEF WorkerCommit, LoopInv, Idle
  <2>4. FrameInv'
    BY <2>2, <2>3 DEF FrameInv
  <2>5. SlotInv'
    BY <1>6, <2>2 DEF SlotInv, WorkerCommit, Standing, Branches
  <2>6. BranchInv' /\ SourceInv' /\ ReviewInv'
    BY <2>1, <2>2 DEF BranchInv, SourceInv, ReviewInv, Branches
  <2>7. HeadInv' /\ OnlyReviewedLands' /\ tip'[Main] = tip[Main]
    BY <2>1, <2>2 DEF HeadInv, OnlyReviewedLands
  <2>8. GateStep
    BY <2>2, <2>7 DEF GateStep, Gate!GateNext, Gate!Propose
  <2>9. QED
    BY <1>0, <2>4, <2>5, <2>6, <2>7, <2>8
<1>7. CASE UNCHANGED vars
  BY <1>0, <1>7, QuietGate DEF vars, pipe, FrameInv, git
<1>8. QED
  BY <1>1, <1>2, <1>3, <1>3a, <1>4, <1>5, <1>6, <1>7 DEF Next

----------------------------------------------------------------------------
\* pipeline.py:9: nothing merges before a verifier reviewed it, through every
\* interleaving, fault, crash and restart, if HEAD starts on the integration
\* branch and blocked worktrees are kept.
THEOREM OnlyReviewedCommitsLand ==
  ASSUME HeadAtStart = Main, KeepBlocked
  PROVE  Spec => []OnlyReviewedLands
<1>1. Init => GateInv
  BY GateInvInit
<1>2. GateInv /\ [Next]_vars => GateInv'
  BY NextGate
<1>3. GateInv => OnlyReviewedLands
  BY DEF GateInv
<1>4. QED
  BY <1>1, <1>2, <1>3, PTL DEF Spec

\* Under the same assumptions the whole pipeline implements ReviewGate.
THEOREM PipelineImplementsGate ==
  ASSUME HeadAtStart = Main, KeepBlocked
  PROVE  Spec => ImplementsGate
<1>1. Init => GateInv /\ Gate!GateInit
  BY GateInvInit
<1>2. GateInv /\ [Next]_vars => GateInv'
  BY NextGate
<1>3. GateInv /\ [Next]_vars => [Gate!GateNext]_(Gate!gate)
  BY NextGate DEF GateStep
<1>4. QED
  BY <1>1, <1>2, <1>3, PTL DEF Spec, ImplementsGate, Gate!GateSpec
=============================================================================
