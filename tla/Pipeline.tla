------------------------------ MODULE Pipeline ------------------------------
(***************************************************************************)
(* Pipeline.run (harness/stage3_parallel/pipeline.py): create a worktree   *)
(* per task one after the other, run the workers in parallel, then verify  *)
(* and merge in plan order.  One orchestrator runs it, up to MaxRuns times *)
(* on the same repository; between any two git commands the process may    *)
(* crash, and the next run finds whatever it left on disk.                 *)
(*                                                                         *)
(* Workers and the verifier are injected callables: a worker commits at    *)
(* most once, may leave uncommitted files, and returns ok, returns not ok  *)
(* or raises; the verifier passes, rejects or raises.                      *)
(***************************************************************************)
EXTENDS Worktree, Sequences

CONSTANTS
  Plans,          \* the task lists callers pass to run
  KeepBlocked,    \* Pipeline(keep_blocked=...)
  CleanupMerged,  \* Pipeline(cleanup_merged=...)
  MaxParallel,    \* Pipeline(max_parallel=...)
  MaxRuns,        \* bound: calls of run
  MaxCrashes,     \* bound: crashes of the orchestrator process
  orch            \* the one caller of the manager

ASSUME PipelineAssumption ==
  /\ Callers = {orch}
  /\ Plans \subseteq Seq(Tasks)
  /\ KeepBlocked \in BOOLEAN /\ CleanupMerged \in BOOLEAN
  /\ MaxParallel \in Nat /\ MaxRuns \in Nat /\ MaxCrashes \in Nat

VARIABLES
  phase,     \* where run is; "raised" when an exception left it
  plan,      \* the list `tasks`
  at,        \* the task the create or integrate loop is at, 1-based
  slot,      \* slot[t]: t's entry of `prepared`, then of `spawned`
  outcome,   \* outcome[t]: the status in report.outcomes, or "none"
  run,       \* how many times run was called
  crashes,   \* how many times the orchestrator crashed
  approved,  \* history: commits on Main at first, and commits the verifier passed
  made,      \* history: commits workers made
  origin     \* history: the branch checked out when run was called

pipe == <<phase, plan, at, slot, outcome, run, crashes, approved, made, origin>>
vars == <<git, call, pipe>>

Phases == {"idle", "create", "work", "integrate", "done", "raised", "crashed"}
Active == {"create", "work", "integrate"}

\* "ready": Worktree made; "error": no Worktree, or the worker raised.
Slots == {"none", "ready", "error", "running", "ok", "notok"}

Statuses == {"merged", "verify_failed", "worker_failed", "conflict", "error"}

\* max(1, max_parallel)
PoolSize == IF MaxParallel = 0 THEN 1 ELSE MaxParallel

PipeTypeOK ==
  /\ phase \in Phases
  /\ plan \in Seq(Tasks)
  /\ at \in Nat \ {0}
  /\ slot \in [Tasks -> Slots]
  /\ outcome \in [Tasks -> Statuses \cup {"none"}]
  /\ run \in Nat /\ crashes \in Nat
  /\ approved \in SUBSET Commits
  /\ made \in SUBSET Commits
  /\ origin \in Branches

TypeOK == GitTypeOK /\ CallTypeOK /\ PipeTypeOK

Init ==
  /\ GitInit /\ WorktreeInit
  /\ phase = "idle" /\ plan = <<>> /\ at = 1
  /\ slot = [t \in Tasks |-> "none"]
  /\ outcome = [t \in Tasks |-> "none"]
  /\ run = 0 /\ crashes = 0
  /\ approved = tip[Main]
  /\ made = {} /\ origin = head

----------------------------------------------------------------------------
(* The start of run(tasks).                                                *)

Duplicated(p) == \E i, j \in DOMAIN p : i # j /\ p[i] = p[j]

\* run(tasks) up to `report = PipelineReport()`: plan() refuses duplicate ids,
\* and a missing integration branch raises before any worker is started.
StartRun ==
  /\ phase \notin Active
  /\ run < MaxRuns
  /\ run' = run + 1
  /\ \E p \in Plans :
       /\ plan' = p
       /\ phase' = IF Duplicated(p) \/ (p # <<>> /\ Main \notin exists)
                   THEN "raised" ELSE "create"
  /\ at' = 1
  /\ slot' = [t \in Tasks |-> "none"]
  /\ outcome' = [t \in Tasks |-> "none"]
  /\ origin' = head
  /\ UNCHANGED <<git, call, crashes, approved, made>>

Current == plan[at]

----------------------------------------------------------------------------
(* Phase 0: serial worktree creation.                                      *)

CreateNext ==
  /\ phase = "create" /\ at <= Len(plan) /\ Idle(orch)
  /\ call' = [call EXCEPT ![orch] = CreateCall(Current)]
  /\ UNCHANGED <<git, pipe>>

\* A WorktreeError of create becomes this task's error, not the run's; any other
\* exception is OsError's.
CreateReturned ==
  /\ phase = "create" /\ Returned(orch)
  /\ slot' = [slot EXCEPT ![Current] =
                IF call[orch].res = "ok" THEN "ready" ELSE "error"]
  /\ at' = at + 1
  /\ Goto(orch, "idle")
  /\ UNCHANGED <<git, phase, plan, outcome, run, crashes, approved, made, origin>>

SpawnWorkers ==
  /\ phase = "create" /\ at > Len(plan) /\ Idle(orch)
  /\ phase' = "work"
  /\ UNCHANGED <<git, call, plan, at, slot, outcome, run, crashes, approved, made, origin>>

----------------------------------------------------------------------------
(* Phase 1: the thread pool.  An item without a Worktree costs no time.    *)

\* pool.map submits in plan order and runs at most max_workers at once.
WorkerStart(t) ==
  /\ phase = "work" /\ slot[t] = "ready"
  /\ Cardinality({u \in Tasks : slot[u] = "running"}) < PoolSize
  /\ \E i \in DOMAIN plan :
       plan[i] = t /\ \A j \in 1..(i - 1) : slot[plan[j]] # "ready"
  /\ slot' = [slot EXCEPT ![t] = "running"]
  /\ UNCHANGED <<git, call, phase, plan, at, outcome, run, crashes, approved, made, origin>>

\* The agent commits on its own branch, in its own worktree.
WorkerCommit(t) ==
  /\ phase = "work" /\ slot[t] = "running"
  /\ <<t, run>> \notin made
  /\ CommitIn(t, run)
  /\ made' = made \cup {<<t, run>>}
  /\ UNCHANGED <<call, phase, plan, at, slot, outcome, run, crashes, approved, origin>>

\* It returns a WorkerResult or raises, with or without uncommitted files.
WorkerReturn(t) ==
  /\ phase = "work" /\ slot[t] = "running"
  /\ \E result \in {"ok", "notok", "error"} : slot' = [slot EXCEPT ![t] = result]
  /\ dirty' \in {dirty, dirty \cup {t}}
  /\ UNCHANGED <<exists, tip, head, index, admin, dirs, faults, call,
                 phase, plan, at, outcome, run, crashes, approved, made, origin>>

\* list(pool.map(...)) returns when every worker has.
WorkersDone ==
  /\ phase = "work"
  /\ \A t \in Tasks : slot[t] \notin {"ready", "running"}
  /\ phase' = "integrate" /\ at' = 1
  /\ UNCHANGED <<git, call, plan, slot, outcome, run, crashes, approved, made, origin>>

----------------------------------------------------------------------------
(* Phase 2: serialized verify and merge, in plan order.                    *)

Integrating == phase = "integrate" /\ at <= Len(plan) /\ Idle(orch)

Report(t, status) == outcome' = [outcome EXCEPT ![t] = status]

\* _maybe_keep: a blocked task's worktree goes unless keep_blocked; its branch
\* stays.  Otherwise the loop goes on with the next task.
MaybeKeep(t) ==
  IF KeepBlocked
  THEN at' = at + 1 /\ Goto(orch, "idle")
  ELSE UNCHANGED at /\ call' = [call EXCEPT ![orch] = RemoveCall(t, TRUE, FALSE)]

\* The error outcome carries branch_for(task.id), which raises on a bad id.
IntegrateError ==
  /\ Integrating /\ slot[Current] = "error"
  /\ IF Current \in BadIds
     THEN phase' = "raised" /\ UNCHANGED <<at, outcome>>
     ELSE Report(Current, "error") /\ at' = at + 1 /\ UNCHANGED phase
  /\ UNCHANGED <<git, call, plan, slot, run, crashes, approved, made, origin>>

\* (Mutant: result.ok is not looked at, and the work merges unverified.)
IntegrateNotOkAnyway ==
  /\ Integrating /\ slot[Current] = "notok"
  /\ call' = [call EXCEPT ![orch] = MergeCall(Current, Main)]
  /\ UNCHANGED <<git, phase, plan, at, slot, outcome, run, crashes, approved, made, origin>>

IntegrateNotOk ==
  /\ Integrating /\ slot[Current] = "notok"
  /\ Report(Current, "worker_failed")
  /\ MaybeKeep(Current)
  /\ UNCHANGED <<git, phase, plan, slot, run, crashes, approved, made, origin>>

\* The artifact is the worker's diff: what it committed in this run.
Artifact(t) == tip[t] \cap {<<t, run>>}

VerifyPass ==
  /\ Integrating /\ slot[Current] = "ok"
  /\ approved' = approved \cup Artifact(Current)
  /\ call' = [call EXCEPT ![orch] = MergeCall(Current, Main)]
  /\ UNCHANGED <<git, phase, plan, at, slot, outcome, run, crashes, made, origin>>

\* (Mutant: the `continue` after a rejection is missing.)
VerifyRejectFallsThrough ==
  /\ Integrating /\ slot[Current] = "ok"
  /\ Report(Current, "verify_failed")
  /\ call' = [call EXCEPT ![orch] = MergeCall(Current, Main)]
  /\ UNCHANGED <<git, phase, plan, at, slot, run, crashes, approved, made, origin>>

VerifyReject ==
  /\ Integrating /\ slot[Current] = "ok"
  /\ Report(Current, "verify_failed")
  /\ MaybeKeep(Current)
  /\ UNCHANGED <<git, phase, plan, slot, run, crashes, approved, made, origin>>

\* Nothing catches what the verifier raises.
VerifyRaise ==
  /\ Integrating /\ slot[Current] = "ok"
  /\ phase' = "raised"
  /\ UNCHANGED <<git, call, plan, at, slot, outcome, run, crashes, approved, made, origin>>

MergeReturned == phase = "integrate" /\ Returned(orch) /\ call[orch].op = "merge"

\* (Mutant: the cleanup removes the worktree without --force.)
MergeLandedUnforced ==
  /\ MergeReturned /\ call[orch].res = "ok"
  /\ Report(Current, "merged")
  /\ call' = [call EXCEPT ![orch] = RemoveCall(Current, FALSE, TRUE)]
  /\ UNCHANGED <<git, phase, plan, at, slot, run, crashes, approved, made, origin>>

MergeLanded ==
  /\ MergeReturned /\ call[orch].res = "ok"
  /\ Report(Current, "merged")
  /\ IF CleanupMerged
     THEN UNCHANGED at /\ call' = [call EXCEPT ![orch] = RemoveCall(Current, TRUE, TRUE)]
     ELSE at' = at + 1 /\ Goto(orch, "idle")
  /\ UNCHANGED <<git, phase, plan, slot, run, crashes, approved, made, origin>>

MergeRefused ==
  /\ MergeReturned /\ call[orch].res \in {"conflict", "nobranch"}
  /\ Report(Current, "conflict")
  /\ MaybeKeep(Current)
  /\ UNCHANGED <<git, phase, plan, slot, run, crashes, approved, made, origin>>

\* Nothing catches a WorktreeError of merge: it leaves run.
MergeRaised ==
  /\ MergeReturned /\ call[orch].res = "raised"
  /\ phase' = "raised"
  /\ Goto(orch, "idle")
  /\ UNCHANGED <<git, plan, at, slot, outcome, run, crashes, approved, made, origin>>

\* contextlib.suppress(WorktreeError): however the removal ended, go on.
CleanupReturned ==
  /\ phase = "integrate" /\ Returned(orch) /\ call[orch].op = "remove"
  /\ at' = at + 1
  /\ Goto(orch, "idle")
  /\ UNCHANGED <<git, phase, plan, slot, outcome, run, crashes, approved, made, origin>>

Finish ==
  /\ phase = "integrate" /\ at > Len(plan) /\ Idle(orch)
  /\ phase' = "done"
  /\ UNCHANGED <<git, call, plan, at, slot, outcome, run, crashes, approved, made, origin>>

----------------------------------------------------------------------------
Manager == phase \in Active /\ ManagerStep(orch) /\ UNCHANGED pipe

\* The process dies between two git commands; what is on disk stays.
Crash ==
  /\ phase \in Active
  /\ crashes < MaxCrashes
  /\ crashes' = crashes + 1
  /\ phase' = "crashed"
  /\ Goto(orch, "idle")
  /\ UNCHANGED <<git, plan, at, slot, outcome, run, approved, made, origin>>

\* git cannot be started, or a directory made: an OSError, which neither `except
\* WorktreeError` nor suppress(WorktreeError) holds back from leaving run.  (In
\* merge a WorktreeError leaves run as well: MergeRaised is both.)
OsError ==
  /\ phase \in {"create", "integrate"}
  /\ call[orch].op \in {"create", "remove"}
  /\ ~Idle(orch) /\ ~Returned(orch)
  /\ Read("timeout")
  /\ phase' = "raised"
  /\ Goto(orch, "idle")
  /\ UNCHANGED <<plan, at, slot, outcome, run, crashes, approved, made, origin>>

Orchestrate ==
  \/ CreateNext \/ CreateReturned \/ SpawnWorkers \/ WorkersDone
  \/ IntegrateError \/ IntegrateNotOk
  \/ VerifyPass \/ VerifyReject \/ VerifyRaise
  \/ MergeLanded \/ MergeRefused \/ MergeRaised
  \/ CleanupReturned \/ Finish
  \/ Manager

Next ==
  \/ StartRun \/ Orchestrate \/ OsError \/ Crash
  \/ \E t \in Tasks : WorkerStart(t) \/ WorkerCommit(t) \/ WorkerReturn(t)

Spec == Init /\ [][Next]_vars

----------------------------------------------------------------------------
(* What a run promises.                                                    *)

\* "A SEPARATE verifier reviews each worker's artifact against the spec before
\* anything merges" (pipeline.py:9): the integration branch holds only what it
\* held at first and what a verifier passed.  True while HEAD is on the
\* integration branch and blocked worktrees are kept.
OnlyReviewedLands == tip[Main] \subseteq approved

\* Whatever is blocked, cleaned up, retried or cut short by a crash, a commit an
\* agent made stays reachable from some branch: `branch -D` and `worktree
\* remove --force` (pipeline.py:211-214, 228-231) never drop committed work.
NoCommittedWorkLost == made \subseteq UNION {tip[b] : b \in exists}

\* The report tells the truth about the integration branch: a commit of this
\* run is on it if its task is reported "merged" and is not if the task is
\* reported blocked (MergeResult.ok against what git did, pipeline.py:206-225).
ReportMatchesMain ==
  \A t \in Tasks :
    outcome[t] # "none" /\ <<t, run>> \in made
      => (outcome[t] = "merged" <=> <<t, run>> \in tip[Main])

\* "never leave the main repo parked on the integration branch"
\* (worktree.py:206): when run is over, HEAD is where the caller had it.
HeadRestored == phase \in {"done", "raised"} => head = origin

\* "On conflict the merge is aborted cleanly ... never left half-applied for
\* the next task to trip over" (worktree.py:182-184): outside merge itself the
\* main index holds no unfinished merge.
NeverHalfApplied ==
  phase \in {"done", "raised"} \/ Integrating => index # "unmerged"

\* "a failed cleanup must not abort the remaining serialized merges"
\* (pipeline.py:212) and cleanup does its work: at the end of an undisturbed
\* run, a merged task has no worktree and no branch, and a blocked one has its
\* worktree exactly if keep_blocked (a worker that raised leaves it anyway).
NoDebris ==
  phase = "done" => \A i \in DOMAIN plan :
    LET t == plan[i]
    IN /\ outcome[t] # "none"
       /\ outcome[t] = "merged" /\ CleanupMerged => t \notin exists \cup dirs
       /\ outcome[t] \in {"verify_failed", "worker_failed", "conflict"}
            => t \in exists /\ (t \in dirs <=> KeepBlocked)

\* "one failure can't abort the run" (SESSION_REPORT.md:147) and the error
\* status exist so that a task whose worktree or worker failed is reported while
\* the others go on: such a task never ends the run with an exception.
ErrorIsContained ==
  phase = "raised" /\ at \in DOMAIN plan => slot[Current] # "error"

\* The pipeline implements the review gate: runs, workers, git commands, faults
\* and crashes amount to proposing, reviewing and landing commits.
Gate == INSTANCE ReviewGate WITH
  Baseline <- {<<Main, 0>>},
  proposed <- made \cup {<<Main, 0>>},
  reviewed <- approved,
  landed   <- tip[Main]

ImplementsGate == Gate!GateSpec
============================================================================
