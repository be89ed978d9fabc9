------------------------------ MODULE Worktree ------------------------------
(***************************************************************************)
(* WorktreeManager (harness/stage3_parallel/worktree.py): create, remove   *)
(* and merge, one action per git command they run, so that commands of     *)
(* other processes, crashes and timeouts can fall between any two of them. *)
(* A caller p is a thread of control inside one method at a time; call[p]  *)
(* is its frame: the arguments, the local variables and, in `step`, the    *)
(* statement it is about to execute.                                       *)
(***************************************************************************)
EXTENDS Git

CONSTANTS
  Callers,   \* the threads of control that use a manager on this repository
  BadIds     \* the tasks whose id _TASK_ID_RE rejects

ASSUME WorktreeAssumption == BadIds \subseteq Tasks

VARIABLE call

Ops == {"create", "remove", "merge"}

Steps == {"idle", "probe", "add", "head",                   \* create
          "tree", "branch",                                 \* remove
          "prior", "checkout", "merge", "diff", "abort", "restore",  \* merge
          "returned"}

\* What a call returned: "ok", MergeResult(ok=False) for "conflict" and
\* "nobranch", or a WorktreeError it "raised".
Results == {"none", "ok", "conflict", "nobranch", "raised"}

Frames == [op : Ops, step : Steps, task : Tasks, into : Branches,
           prior : Branches, attach : BOOLEAN, force : BOOLEAN,
           delete_branch : BOOLEAN, res : Results]

CallTypeOK == call \in [Callers -> Frames]

\* Placeholder values of the fields an operation does not use.
NoFrame(t) == [op |-> "create", step |-> "idle", task |-> t, into |-> Main,
               prior |-> Main, attach |-> FALSE, force |-> FALSE,
               delete_branch |-> FALSE, res |-> "none"]

CreateCall(t) == [NoFrame(t) EXCEPT !.step = "probe"]

RemoveCall(t, force, delete) ==
  [NoFrame(t) EXCEPT !.op = "remove", !.step = "tree",
                     !.force = force, !.delete_branch = delete]

MergeCall(t, into) ==
  [NoFrame(t) EXCEPT !.op = "merge", !.step = "probe", !.into = into]

WorktreeInit == call \in [Callers -> {NoFrame(t) : t \in {CHOOSE t \in Tasks : TRUE}}]

Idle(p) == call[p].step = "idle"
Returned(p) == call[p].step = "returned"
At(p, op, step) == call[p].op = op /\ call[p].step = step

Goto(p, step) == call' = [call EXCEPT ![p].step = step]
Return(p, res) == call' = [call EXCEPT ![p].step = "returned", ![p].res = res]

----------------------------------------------------------------------------
(* create(task_id): branch_for, path.exists(), _branch_exists, then one of *)
(* the two `worktree add`s (check=True), then rev-parse in the new tree.   *)

CreateRefused(p) ==
  /\ At(p, "create", "probe")
  /\ call[p].task \in BadIds \cup dirs
  /\ Return(p, "raised")
  /\ UNCHANGED git

CreateProbe(p) ==
  /\ At(p, "create", "probe")
  /\ call[p].task \notin BadIds \cup dirs
  /\ \E rc \in {"ok", "timeout"} :
       /\ Read(rc)
       /\ IF rc = "ok"
          THEN call' = [call EXCEPT ![p].step = "add",
                                    ![p].attach = call[p].task \in exists]
          ELSE Return(p, "raised")

\* (Mutant: check=False, the exit status of `worktree add` is not looked at.)
CreateAddUnchecked(p) ==
  /\ At(p, "create", "add")
  /\ \E rc \in {"ok", "failed", "timeout"} :
       /\ WorktreeAdd(call[p].task, call[p].attach, rc)
       /\ IF rc = "timeout" THEN Return(p, "raised") ELSE Goto(p, "head")

CreateAdd(p) ==
  /\ At(p, "create", "add")
  /\ \E rc \in {"ok", "failed", "timeout"} :
       /\ WorktreeAdd(call[p].task, call[p].attach, rc)
       /\ IF rc = "ok" THEN Goto(p, "head") ELSE Return(p, "raised")

\* The directory may be gone by now: then the subprocess cannot even start.
CreateHead(p) ==
  /\ At(p, "create", "head")
  /\ \E rc \in {"ok", "timeout"} :
       /\ Read(rc)
       /\ Return(p, IF rc = "ok" /\ call[p].task \in dirs THEN "ok" ELSE "raised")

----------------------------------------------------------------------------
(* remove(task_id, force, delete_branch): `worktree remove` (check=True),  *)
(* then `branch -D` (check=False) if asked.                                *)

\* (Mutant: delete_branch is ignored and the branch always goes.)
RemoveTreeAndBranch(p) ==
  /\ At(p, "remove", "tree")
  /\ \E rc \in {"ok", "failed", "timeout"} :
       /\ WorktreeRemove(call[p].task, call[p].force, rc)
       /\ IF rc # "ok" THEN Return(p, "raised") ELSE Goto(p, "branch")

RemoveTree(p) ==
  /\ At(p, "remove", "tree")
  /\ IF call[p].task \in BadIds
     THEN Return(p, "raised") /\ UNCHANGED git
     ELSE \E rc \in {"ok", "failed", "timeout"} :
            /\ WorktreeRemove(call[p].task, call[p].force, rc)
            /\ IF rc # "ok" THEN Return(p, "raised")
               ELSE IF call[p].delete_branch THEN Goto(p, "branch")
               ELSE Return(p, "ok")

RemoveBranch(p) ==
  /\ At(p, "remove", "branch")
  /\ \E rc \in {"ok", "failed", "timeout"} :
       /\ BranchDelete(call[p].task, rc)
       /\ Return(p, IF rc = "timeout" THEN "raised" ELSE "ok")

----------------------------------------------------------------------------
(* merge(task_id, into): _branch_exists, _current_ref, `checkout into`     *)
(* (check=True, before the try), then in the try the merge, and on failure *)
(* the diff and the abort; in the finally, `checkout prior` (check=False). *)

MergeProbe(p) ==
  /\ At(p, "merge", "probe")
  /\ IF call[p].task \in BadIds
     THEN Return(p, "raised") /\ UNCHANGED git
     ELSE \E rc \in {"ok", "timeout"} :
            /\ Read(rc)
            /\ IF rc = "timeout" THEN Return(p, "raised")
               ELSE IF call[p].task \in exists THEN Goto(p, "prior")
               ELSE Return(p, "nobranch")

MergePrior(p) ==
  /\ At(p, "merge", "prior")
  /\ \E rc \in {"ok", "timeout"} :
       /\ Read(rc)
       /\ IF rc = "ok"
          THEN call' = [call EXCEPT ![p].step = "checkout", ![p].prior = head]
          ELSE Return(p, "raised")

MergeCheckout(p) ==
  /\ At(p, "merge", "checkout")
  /\ \E rc \in {"ok", "failed", "timeout"} :
       /\ Checkout(call[p].into, rc)
       /\ IF rc = "ok" THEN Goto(p, "merge") ELSE Return(p, "raised")

\* What the try block will return or raise, kept while the finally runs.
Finally(p, res) ==
  call' = [call EXCEPT ![p].step = "restore", ![p].res = res]

\* (Mutant: the exit status of `git merge` is not looked at.)
MergeUnchecked(p) ==
  /\ At(p, "merge", "merge")
  /\ \E rc \in {"ok", "failed", "timeout"} :
       /\ Merge(call[p].task, rc)
       /\ Finally(p, IF rc = "timeout" THEN "raised" ELSE "ok")

MergeMerge(p) ==
  /\ At(p, "merge", "merge")
  /\ \E rc \in {"ok", "failed", "timeout"} :
       /\ Merge(call[p].task, rc)
       /\ CASE rc = "ok"      -> Finally(p, "ok")
            [] rc = "failed"  -> Goto(p, "diff")
            [] rc = "timeout" -> Finally(p, "raised")

MergeDiff(p) ==
  /\ At(p, "merge", "diff")
  /\ \E rc \in {"ok", "timeout"} :
       /\ Read(rc)
       /\ IF rc = "ok" THEN Goto(p, "abort") ELSE Finally(p, "raised")

\* (Mutant: the conflict is reported but `merge --abort` is forgotten.)
MergeUndoForgotten(p) ==
  /\ At(p, "merge", "abort")
  /\ Finally(p, "conflict")
  /\ UNCHANGED git

MergeUndo(p) ==
  /\ At(p, "merge", "abort")
  /\ \E rc \in {"ok", "failed", "timeout"} :
       /\ MergeAbort(rc)
       /\ Finally(p, IF rc = "timeout" THEN "raised" ELSE "conflict")

\* (Mutant: prior is checked out after a merge that went through, not in a
\* finally.)
MergeRestoreOnSuccess(p) ==
  /\ At(p, "merge", "restore")
  /\ IF call[p].prior = call[p].into \/ call[p].res # "ok"
     THEN Return(p, call[p].res) /\ UNCHANGED git
     ELSE \E rc \in {"ok", "failed", "timeout"} :
            /\ Checkout(call[p].prior, rc)
            /\ Return(p, IF rc = "timeout" THEN "raised" ELSE call[p].res)

MergeRestore(p) ==
  /\ At(p, "merge", "restore")
  /\ IF call[p].prior = call[p].into
     THEN Return(p, call[p].res) /\ UNCHANGED git
     ELSE \E rc \in {"ok", "failed", "timeout"} :
            /\ Checkout(call[p].prior, rc)
            /\ Return(p, IF rc = "timeout" THEN "raised" ELSE call[p].res)

----------------------------------------------------------------------------
ManagerStep(p) ==
  \/ CreateRefused(p) \/ CreateProbe(p) \/ CreateAdd(p) \/ CreateHead(p)
  \/ RemoveTree(p) \/ RemoveBranch(p)
  \/ MergeProbe(p) \/ MergePrior(p) \/ MergeCheckout(p) \/ MergeMerge(p)
  \/ MergeDiff(p) \/ MergeUndo(p) \/ MergeRestore(p)
============================================================================
