# A TLA+ model of the auto-work-harness

The auto-work-harness (`awh`) surrounds coding agents with gates: what an agent
may do, when it may stop, how its work is measured, and how work done in
parallel is reviewed and merged. Most of it is small Python around other
programs: git, the project's test command, the operator's evaluation commands.
Its hard parts are what those programs, other processes, timeouts and crashes do
between two of its own statements. That is what is modelled here.

Paths are given relative to the repository's root; `WT` is
`harness/stage3_parallel/worktree.py`, `PL` is `harness/stage3_parallel/pipeline.py`.

## 1. Inventory

| part | code | state | operations | what makes it correct | here |
|---|---|---|---|---|---|
| Worktree manager (stage 3) | WT | none of its own: branches, HEAD, index, worktrees of a git repository | create, remove, merge, prune, write_isolation; list and disk_usage read | no tree for two creates; a merge lands where it says or leaves no trace; HEAD comes back; nothing is deleted unasked | `Git`, `Worktree`, `WorktreeCLI` |
| Pipeline (stage 3) | PL | the run: prepared, spawned, outcomes | plan, run (serial creates, worker pool, serial verify and merge), cleanup | only reviewed work lands; committed work survives; the report is true; cleanup is complete | `Pipeline`, `ReviewGate` |
| Multi-seed runner (stage 1) | `harness/stage1_measurement/runner.py` | processes it started, verdicts, the tasks' directories | evaluate, run_task, _safe_run, _kill_tree | a pass is an exit status 0; a timeout leaves nothing of the process group behind; it ends | `EvalRunner` |
| Regression gate (stage 1) | `runner.py` gate, `goldenset.py`, `cli.py` eval | the baseline file | load_tasks, gate, `--out`, `--baseline` | drift stays within the tolerance per baseline; improvements pass | `EvalGate` |
| promptfoo gate, statistics | `promptfoo_gate.py`, `common/stats.py` | none | thresholds, pass@k, pass^k, Wilson intervals, power | the estimators are the shares of samples they stand for | `EvalGate` (estimators only) |
| Mutation tester (stage 2) | `harness/stage2_structural/mutation.py` | the target file | mutate_source, run_mutation | a verdict is about its own mutant, as far as Python's cache lets it; the file is restored; it ends | `Mutation` |
| Verifier, scorer mix (stage 2) | `verifier.py`, `scorermix.py` | none | verify, parse_judgment, blend | a garbled answer never helps; a blend stays between its components | `Scoring` |
| Stop hook (stage 0) | `hooks/stop_gate.py`, `config.py` | the host's stop_hook_active | main, find_gate_command | a turn ends green or was blocked once; it ends | `StopGate` |
| Deny policy and hook (stage 0) | `policy.py`, `hooks/pretooluse_deny.py` | policy files | load_policy, evaluate_event | what is denied does not happen, whatever the policy file holds | `Containment` |
| Read-only eval set (stage 0) | `readonly.py` | file modes, `.awh/policy.json` | lock_tests, write_policy_augmentation, make_writable | what the two layers promise to stop is stopped; no lock run shrinks the policy | `Containment` |
| Format hook, egress, settings | `hooks/posttooluse_format.py`, `egress.py`, `settings.template.json` | the container's packet filter | run a formatter; render the firewall script; wire the hooks | what was closed stays closed; success means the list is in force | `Firewall`, `StopGate` (wiring) |
| Evolution ledger (meta) | `harness/maturity.py`, `cli.py` maturity | the JSONL ledger | record_run, read_runs, summarize | READY means that nothing changed lately; a crash loses no history | `MaturityLedger` |
| Sandbox | `sandbox/proxy/credential_proxy.py`, `sandbox/devcontainer/`, `sandbox/seatbelt/` | a thread per connection and one per tunnel; the packet filter | handle, _pump; init-firewall.sh | bytes arrive in order and without a gap; no thread outlives its tunnel | `Proxy`, `Firewall` |
| Adoption, installation | `adopt.py`, `install.sh` | `.claude/settings.json`, `.awh/` | scaffold, _seed | the operator's files that are looked for stay his | `Adoption` |
| Release-safety recipes | `recipes/` | none | limit a version jump | | no |

How the parts meet: the pipeline calls the manager and the injected workers and
verifier; `awh worktree` is a second, unsynchronised caller of the manager on
the same repository. The stop hook and the evaluation runner start the project's
own commands and live with their process trees. `awh adopt` and `install.sh` put the
stop hook and its gate script into a project where agents and the operator are
already at work. The firewall script and the proxy stand between the agent's
container and the network. `awh lock` and the PreToolUse
hook share the file modes and `.awh/policy.json`. `awh eval` and `awh maturity`
meet other processes only in the files they leave (baseline, ledger), the
mutation tester in the target file and in the compiled code Python caches of it.

Hard behaviour, in the order of how much depends on it: git commands of several
processes interleaved on one repository; a git command that times out after
having done its work; a process that dies between two git commands and a next
run that works on what it left; children that outlive or block the command that
started them; a file read, then written, with somebody in between; a script that
fails half-way and is run again; two threads on the same two sockets. `PROJECT.json`
lists each hazard with its line and the properties that watch it.

## 2. Modules

```
Git <- Worktree <- Pipeline <- PipelineProofs
            ^          +-- INSTANCE ReviewGate
            +--- WorktreeCLI <- WorktreeCLIProofs
            +--- WorktreeProofs (lemmas both proof modules extend)
Mutation <- MutationProofs              Containment <- ContainmentProofs
EvalRunner, EvalGate, MaturityLedger, Scoring <- MeasurementProofs
Firewall, Proxy <- SandboxProofs        StopGate <- Adoption <- AdoptionProofs
            +-- INSTANCE Tunnel
```

Every `MC*` module extends its component and holds the values of a TLC instance; the
configurations of Adoption, EvalGate, EvalRunner, MaturityLedger and Mutation need none.
Components that one proof module extends together give their initial predicate and next-state
relation names of their own (`GateInit`, `LedgerNext`, `ProxySpec`, ...).
Operators marked `(Mutant: ...)` are faulty variants of the definition they stand
before; no specification uses them. They record which bug each property notices.

**Git** is the repository as the manager's commands see it: branches (`exists`),
the commits reachable from them (`tip`), HEAD and the index of the main tree,
registered worktrees (`admin`), their directories (`dirs`) and which of them
have uncommitted files (`dirty`). Each command is one operator over an outcome:
"ok", "failed", or "timeout", the 120 s of `_git` (WT:88-101), after which the
command may have had its effect or none of it. Half of it is possible where git works in
steps: a merge, a checkout or a `merge --abort` leaves the index lock behind, and
`worktree add -b` a branch without a worktree; `worktree remove` and `branch -D` are
whole or nothing. A commit is the branch it was
first made on and a number; `auto/wt/<t>` and the directory of task `t` are both
`t`. Two branches conflict when each has a commit the other lacks and these
touch a common file. A detached HEAD is treated as a branch `Dev` of its own.

**Worktree** has one action per git command of create, remove and merge; the
frame `call[p]` of a caller holds its arguments, locals and the statement it is
about to run. So other callers, crashes and faults come between any two commands.

**Pipeline** is `Pipeline.run`: `StartRun` (plan, duplicates, missing integration
branch), `CreateNext`/`CreateReturned`, `SpawnWorkers`, the pool
(`WorkerStart`, `WorkerCommit`, `WorkerReturn`, `WorkersDone`), then per task
`IntegrateError`, `IntegrateNotOk`, `VerifyPass`/`VerifyReject`/`VerifyRaise`,
`MergeLanded`/`MergeRefused`/`MergeRaised`, `CleanupReturned`, and `Finish`. `OsError` is
an OSError in create or in a cleanup, which is no WorktreeError and leaves the run.
`Crash` stops the process anywhere and the next run finds what is there. Workers and
the verifier are injected in the code and arbitrary here: a worker commits at
most once per run, may leave uncommitted files, returns ok or not, raises, or never comes
back: run sets no limit (PL:161-162), and nothing is claimed of its end.

**ReviewGate** is the abstract specification: work is proposed, proposed work is
reviewed, reviewed work lands, nothing goes back. Pipeline implements it with
`proposed <- made`, `reviewed <- approved`, `landed <- tip[Main]`.

**WorktreeCLI** puts several `awh worktree` processes, the agents in the
worktrees, and the user of the main tree on one repository. The user acts only while no
process is running, and `--into` is always `Main`. History variables: `overlapped`, whether
two processes, and whether two merges, have been at work at once since the user last
checked out a branch; `handed`, the tasks whose present worktree some create has returned;
`stale`, the creates whose own worktree was removed before they returned.

**Mutation** is run_mutation. A text of the target is the set of flipped
operators and whether it went through `ast.unparse`. The suite's verdict is any
function of the operators, fixed for a behaviour. Python's cache, which the tool does not
switch off, is modelled as what it does: compiled code counts as current when the source
has the same length and the same modification second. `held` (what the target held, and
when) and `judged` (the code last tested at each site) are history. A target that does not
parse raises before the first write and is left out, and newline translation is the identity.

**EvalRunner** is evaluate: a process group per command with its leader, children that hold the
output pipe, children that do not, and of either kind children that have left the group with
setsid, which `os.killpg` does not reach. The commands are arbitrary: they work on their
directory, fork, exit with any status or never, and print what need not decode, which raises an
exception nobody catches. `Workdirs` groups the tasks by the directory they resolve to: the
seeds of a task share it, and so do all tasks without a workdir of their own. `lost`, `credit`,
`end`, `status` (of a verdict) and `stragglers` are history.

**EvalGate** is `awh eval --baseline`: each change arrives with an arbitrary report (task ->
weight, seeds passed) and lands when the gate passes. Rates are compared in units of
1/SeedCount; every report uses the same number of seeds and noise is left out: the report the
gate sees is the revision's. The weight 0 stands for NaN and infinity, which load_tasks lets
through and which make every comparison of the aggregate false. `Refresh` is the operator
capturing a new baseline, with new tasks or weights; `marks` is history: each task's passes at
its first capture and the captures since. The estimators pass@k and pass^k of `common/stats.py`
are operators over numerator and denominator, compared with counted sets of seeds.

**MaturityLedger** is `awh maturity log` by several recorders, one of which may
die in the write and leave a line without its newline, and summarize over what
can be read. A line is a run or junk.

**StopGate** is the hook of several agents over one tree. `HookRaises` is every exception but
the timeout: the hook exits with 1, which blocks nothing, and the turn is `errored`. Of the
host only what the hook's comments rely on is modelled: stop_hook_active is set by a blocked
stop and cleared by the next prompt. Whether there is a hook and a gate is read from the
project's files: `files` says of `settings.json`, `settings.awh.json` and `gate.sh` whether
they are absent, torn, a scaffolder's or the operator's.

**Adoption** composes StopGate with `awh adopt` (`Tool = "adopt"`) or `install.sh`
(`Tool = "install"`), which write those files: `ChooseSettings`, `SeedGate`, and for each file
`OpenFile` (truncated) and `FillFile`. A scaffolder may die anywhere and is run
again; the operator writes files of his own at any time, `settings.awh.json` among them,
which the scaffolders overwrite without looking. `raced` is history: he wrote
the very file the scaffolder was about to write.

**Proxy** is one connection of the credential proxy: `ReadHeader`, `Connect`, `Answer` of its
handler, then a pump per direction (`Receive`, `Send`, `PumpEnds`). A direction of a
socket is a bounded FIFO; peers send, read, close their sending side or reset
whenever they like. `TimesOut` is the timeout of `create_connection`, which stays on
the upstream socket. `Eager` lets the client send before it is told 200.

**Tunnel** is the abstract specification: a connection to a permitted host is dialled, opened,
and then each side hears what the other has said, in order, as long as it hears anything. Proxy
implements it with `connected <- host`, `open <- status = <<200>>` and, as permitted hosts,
those an entry of the allowlist ends label by label (`ListedOrBelow`), said without
`_host_allowed`.

**Firewall** is the script `egress.py` renders: `Plan` is its sequence of commands, `Step` runs
the next one, `Fails` is `set -e`, `Verify` the check at its end. `conns`, `Open` and `Move`
are the agent's connections and hosts that change their address. A `Restart` of the container
brings a new network namespace. `known`, `answers` and `closed` are history. Left out: FORWARD
and LOG, IPv6, and the udp and tcp rule of a resolver are one command. A dig that finds nothing
and an `ipset add` that fails are the same silence: nothing is answered. The container's
resolver is one of `resolver_ips`, and hosts that share an address are one host to the filter
as to the model.

**Scoring** is parse_judgment, verify and blend. A judge's answer is any function of the
criteria to a score of each kind (finite, in range or not, which `true` and a numeric string
are to `float()` as well; NaN or infinite; a huge integer; no number) and a pass (true, false,
anything else). Quotients are exact where the code rounds. An answer that does not parse fails
closed, or raises what verify does not catch: `json.loads` has other errors than
JSONDecodeError (an integer of more than 4300 digits, nesting too deep).

**Containment** is `awh lock` and the PreToolUse hook on one tree. A lock run clears write bits
and verifies them file by file, seals the scoring files, then reads, truncates and writes
`.awh/policy.json`; it may die anywhere. `MakeWritable` is the operator taking a file's write
protection back between lock runs, which leaves its rule in the policy. A policy file may be
missing, unparsable, not UTF-8 (the hook raises and denies nothing), no object, or have fields
of a wrong type; globs are the sets of files they match. The name of a locked file is its glob,
unless it has [ ] in it: then it may match nothing. An agent's call uses words of the hook's
tables or not, and either a word of it matches the file or none does, as with a directory, a
shell glob or a script; the hook decides, the file system does the rest, and an allowed call
runs later. `RewritePolicy` is an agent writing `.awh/policy.json`, which no rule denies.
`protected`, `sealed` and `guarded` are history: what lock runs that returned 0 deny, what of
it nobody has loosened since, and what was protected when a hook decided. So is `windows`: a
lock run died or a hook looked between truncating and filling the policy, two lock runs
overlapped, a call undid a mode while a lock run was at that file, or an agent rewrote the
policy. The properties speak of behaviours without these; each does break what is locked. What
they say of the rest is what the two layers stop: a call that names a locked file and shows
that it writes, and an open for writing. A recursive `rm`, `mv` or `chmod` of a directory is
stopped by neither (`MCContainmentTools`).

## 3. Runs

| run | question | bounds |
|---|---|---|
| `pipeline_faults` | With a crash and git faults anywhere: does only reviewed work land, is every commit kept, is the report true, is ReviewGate implemented? | 2 tasks that share a file (the second merge conflicts); plans of both, of one alone, and a duplicate; 2 runs; 1 crash; 2 faults (a refusal, a timeout, an OSError) |
| `pipeline_quiet` | Without faults, from another branch, with blocked worktrees removed and `max_parallel=0`: does HEAD come back, is no merge left open, is cleanup complete? | the same, without crash and fault |
| `cli_shared` | Several `awh worktree` processes: what holds in every interleaving (`TreesHandedOnce`, `DeletedOnlyOnRequest`, a clean index in `MainTreeRestored`), and what does as long as no two merges overlap (HEAD in `MainTreeRestored`, `MergeLandsWhereItSays`)? | 2 processes at a time, 4 in all, 2 tasks of which one has a bad id, a commit per branch |
| `mutation` | With Python's cache on: whose code can a verdict be about, are reports complete, is the file restored, does it end? | every suite over 2 sites, one of which changes the length; 2 runs, 1 kill, 2 ticks of the clock |
| `eval_runner` | What can a command and its children do to the verdicts, to later commands and to the end? | 2 tasks in one directory, one with a check, 2 seeds; a leader forks while fewer than 2 processes live |
| `eval_gate` | How far can a sequence of changes and captures walk below where a task began? Does the gate block improvements? Do the estimators count the seeds? | all reports over 2 tasks, weights 1, 3 and not finite, 3 seeds, tolerance 1/3, 2 changes, 1 captured baseline |
| `ledger` | Are flags and READY true, and what does a crash cost? | 2 recorders, 5 runs, 2 torn writes, 2 upgrades, streak 2, window 4, rate 1/4 |
| `stop_gate` | Does an unblocked turn that its hook ends end on a tree that was green, does every turn end, and do the operator's files that are looked for survive the scaffolder? | 2 agents, 3 files; runs, deaths, edits and turns are unbounded |
| `containment` | Do locked files stay as they are against calls that show what they do and opens for writing, do their rules stay in the policy, and does no lock run loosen a denial? | 1 agent, 1 locker, a file of each kind, 2 lock runs with every option, 2 calls, 1 crash, policy files of every shape; states past an open window are not explored, calls alike in their effect are one (`VIEW`) |
| `proxy` | Do bytes arrive in order and without a gap however the tunnel ends, do both pumps end, is Tunnel implemented? | every kind of request, a subdomain of the one entry and a host that only ends like it, 3 chunks each way, buffers of 1 chunk, a client that sends only after 200 |
| `firewall` | Does a closed network stay closed, and does success mean that the list is in force? | 2 domains, a probe, 3 addresses of hosts, a resolver and a subnet; 3 runs of the script, 1 move, 1 restart |
| `scoring` | Does a garbled answer ever help, and does a blend stay between its components? | 2 criteria of different weight, one required; scores in halves and beyond the range; up to 2 deterministic scores |

Why these bounds suffice: in Pipeline and Worktree an interaction is between a task and what
one other task, one earlier run or one fault left behind. Two tasks with a conflict, two runs,
and a crash together with two faults contain each pair of these. Two processes show every race
of two commands, four launches let both come back after a race. In the runner two seeds and two
tasks are the least with a "next seed" and a "next task" that an earlier command can disturb.
The ledger needs a streak plus a run before it plus two torn lines, and a window that is longer
than the streak. The reports of EvalGate are exhaustive for their size, with a tolerance that
is neither nothing nor everything. A locked file can only be lost by what a second lock run,
one crash or one earlier call does to it. A pump that holds a chunk, a full buffer of one and a
chunk that waits are the three places a chunk can be lost between the peers. A third run of the
script meets what a failed second left of a successful first. The gate is memoryless: a third
change compares with the same baseline as the second, and one capture between two changes is
what moves it. Two processes alive are an old child beside a new leader; `EvalRunnerClaims`
needs no more.

CHECK_DEADLOCK is off where the bounds end the behaviours (runs, launches,
records, changes, chunks are used up); EvalRunner has an explicit end and checks it,
and StopGate with Adoption goes on for ever.

### Fairness

* Mutation: weak fairness of run_mutation's steps. A mutant that hangs is part of
  the model; the timeout of `subprocess.run` turns it into a status.
* EvalRunner: weak fairness of the runner and of its timer only. No command and
  no child is obliged to end. An exception is an end too.
* Proxy: weak fairness of the handler and of each pump. No peer is obliged to send,
  read or close, no connection to time out.
* StopGate: the agent tries to stop at some point, and the gate command ends or is
  ended by the hook's timeout.

Nothing is claimed of the end of a pipeline run: its workers may hang, and it has no timeout.

Crashes, kills, faults, edits, commits, scaffolders and the operator are never fair.

## 4. Proofs

All are checked by TLAPS, for every value of the constants the modules' named
assumptions allow: any tasks, plans, pools, seeds, files, agents, recorders, allowlists and
rubrics, any bound on crashes, faults, runs and edits. Every invariant and every action
property a run checks is proved, and the refinements; liveness is not. Where a theorem
assumes more, the assumption is a hypothesis of the theorem, and a configuration of
section 5 shows that it cannot be dropped.

Each proof follows one pattern: a strengthening that is inductive, a lemma per action
that it is kept, and the property from it. What the strengthening has to say is
the content of the proof:

**Git and Worktree** (`WorktreeProofs`). Lemmas both callers of the manager
need: what each git command can do to branches, HEAD and worktrees in each of its
outcomes, that a branch that does not exist reaches nothing (`GitInv`), and that every
registered worktree has a branch, which is not HEAD's (`AdminInv`).

**Pipeline** (`PipelineProofs`).

| theorem | property | assuming | what makes it inductive |
|---|---|---|---|
| `TypeCorrect` | TypeOK | | `LoopInv`: an outstanding call belongs to the task the loop is at, and merges go to the integration branch |
| `CommittedWorkSurvives` | NoCommittedWorkLost | | `LossInv`: from a merge that returned ok to the `branch -D` after it, all of the branch is on the integration branch; which needs that HEAD is there when `git merge` runs |
| `ReportIsTrue` | ReportMatchesMain | | `ReportInv`: what the loop has got through, in the order of the plan; what the run's own work is; and what a merge has carried over by the time its outcome is noted |
| `HeadIsRestored` | HeadRestored | no faults | `QuietInv`, `HomeInv`: at each statement of a merge, where HEAD is and which branch will be checked out last (`MCPipelineRefused`) |
| `MergesAreWhole` | NeverHalfApplied | no faults, no crashes | `IndexInv`: the index is only unmerged between a conflict and its abort (`MCPipelineRefused`; with two runs and a crash, one that is killed there leaves it to the next) |
| `NoDebrisIsLeft` | NoDebris | no faults | `TidyInv`, `DebrisInv`: which branches and directories remain at each point of the cleanup (`MCPipelineRefused`) |
| `OnlyReviewedCommitsLand` | OnlyReviewedLands | HEAD starts on the integration branch, `keep_blocked` | `GateInv`: an unreviewed commit is only on a branch whose worktree still exists; create refuses such a task; HEAD never leaves the integration branch, so new branches start from landed commits (`MCPipelineDevHead`, `MCPipelineReattach`) |
| `PipelineImplementsGate` | ImplementsGate | the same | every step is a step of ReviewGate or a stutter, action by action |

**WorktreeCLI** (`WorktreeCLIProofs`): `TreesAreHandedOnce`, `DeletedOnlyOnRequestHolds`,
`MainTreeRestoredHolds`, `MergeLandsWhereItSaysHolds`, for any number of processes and
launches. `CLIInv` has a part for every interleaving (`BaseInv`; `HandInv`: a create that has
made its worktree and not returned it yet is the only one of its task to have done so, and what
was handed out is still there or registered; `UnmergedInv`: without faults, an unmerged index
is one that a merge at work is about to undo) and a part for a merge that no other merge
overlaps, whatever else is at work (`SoloInv`, `MergeHeadInv`: where HEAD is at each statement
of it; only merges and the user move HEAD). `RestoreInv` says that the branch to go back to is
still there and not checked out elsewhere. A process beside the merge could see to that if it
is a task's branch, so this part also asks that nothing overlapped while the user was on one
(`Undisturbed`). `MCWorktreeCLIRace` has a trace of two merges; section 5 says how a process
takes such a branch.

**Mutation** (`MutationProofs`): `VerdictsOfTheirSecond`, `ReportsMeaningful` and
`TargetRestored`, with a bytecode cache or without. `Cached` says that compiled code is of a
text the target did hold, with the second and the length that are noted beside it; so what a
test process loads is the target's text or one the cache cannot tell from it (`IsOf`). `Placed`
says what the file and the running test process hold at each point, `Progress` which sites have
been judged.

**Containment** (`ContainmentProofs`): `ProtectedStays`, `ProtectedIsDenied`,
`NothingIsLeaked`. `CInv` is the type invariant and, as long as no window has opened,
`QuietInv`: the policy and the text a lock run is about to write hold what is protected and
what was denied at the start; what is sealed, and what a lock run has gone over, has no write
bits; and calls that were allowed and have not yet run do not knowingly touch what was
protected when they were. Commands that name no file may do anything to any file meanwhile.

**Measurement** (`MeasurementProofs`).

* EvalRunner: `PassesAreExitZero`, `CommandsNeverOverlap`, with children that leave the group.
  Together with `WaitInv` (what evaluate knows of its command: no exit status while it is not
  running, none while its leader lives) they are inductive.
* EvalGate: `DriftsAreBounded`, assuming that `--out` is not the baseline's file, and
  `ImprovementsAreNotBlocked`. `DriftInv` (in `FloorInv`): a task of the baseline has lost at most one
  tolerance for each capture since its first, and a landed one at most one more than the baseline.
  `ImprovementsAreNotBlocked` compares weighted sums over any finite set of tasks, which
  needs lemmas about sums (below).
  `EstimatesAreShares`: the estimators are what they estimate, for any number of seeds. A product
  over a set of factors is told by removing any one of them (`ProductLaw`); both estimators are
  quotients of falling products m (m - 1) ... (m - k + 1). By Pascal's rule the number of k-element
  subsets of an m-element set times k! is such a product (`CountSubsets`), and where fewer than k samples
  failed or passed the product has a factor 0, which is the early return (`FallingZero`).
* MaturityLedger: `LedgerInvariant`, `CrashesCostOneRun`, `FlagsTellTheHistory`,
  `ReadyIsConverged`. The invariant is about `Solid`, the runs that are readable whatever is
  appended next: the last line is not among them while its newline is missing. An
  acknowledged run may be lost to a torn line before it or in it, and each crash pays for one.
* Scoring: `ScoringInvariant`, `PassesNeedEvidence`, `BlendsAreBetween`, for any rubric, weights and
  number of scores. `EvidenceOf`: dropping an answer that is worth nothing changes no sum.
  `MeanBetween`: a weighted mean with weights that are not negative lies between
  the least and the greatest of the components that count.

**Sandbox** (`SandboxProofs`).

* Firewall: `FirewallInvariant`, `NeverOpens`, `IsAppliedAsListed`. `Plan` is a concatenation whose length
  depends on the allowlist; lemmas say which command is where. `OpenInv`: once
  closed, the default stays DROP and the rules accept only what was resolved or is listed, at whatever
  command a later run of the script stops. `ScriptInv`: what the commands before `pc` have done is done.
* Proxy: `ProxyInvariant`, `TunnelsAreFaithful`, assuming that the client sends nothing before it
  is told 200 (`MCProxyLossy`). `Flows`: cut in at most three places, the chunks sent in a direction are
  what was read, what is in the peer's buffer, what is in the pump's hand and what the pump has yet to
  read; `Stretch` says of each that it is consecutive.
  `ProxyImplementsTunnel`, assuming the same: what a side reads is the next thing said, by `Flows`; only
  listed hosts are dialled, as `DialInv` follows the host from the check to the 200, and
  `SuffixesAreBelow` says what the label-wise comparison of `_host_allowed` decides.

**Adoption** with StopGate (`AdoptionProofs`): `UnblockedEndsAreGreen`, `FilesAreSpared`, for
any number of agents and either scaffolder. `GreenInv`: a tree that is green while a gate runs,
or that it found green, has been green since the agent tried to stop, whoever edits meanwhile.
`DestInv`: the file a scaffolder is writing was missing when it looked, or was forced, or takes
its name unlooked, or the operator has written it since (`raced`).

Sums, minima and the ledger's lines are recursive definitions, and the library's induction
theorems cannot be instantiated by these provers. The proofs use induction stated with sets:
`SetInduction` (a set of subsets that holds the empty one and grows by single elements holds
them all), from well-foundedness of the proper subsets of a finite set, and sets of naturals
that hold 0 and the successor of each member. From it follow that a sum over a finite set
exists, that it is monotone, and how it scales (`SumExists`, `SumMonotone`, `SumAbove`,
`SumScaled`), what `ReadRuns` does with one more line (`ReadAppend`), that a product over a
finite set does not depend on the order of its factors (`ProductUnique`), and how many subsets
of a size a finite set has.

Model-checked only: all liveness (`RunEnds` of Mutation, `TurnsEnd`, `EvaluationEnds`,
`PumpsEndTogether`), since fairness and ENABLED are out of the provers' reach.

Type invariants are proved as parts of the invariants above; no run spends a property on them.

## 5. Where code and documents disagree

Traces from configurations kept beside the project's runs, to be started by hand with
`tlc -continue -config X.cfg M`, M being the module the name starts with. Each formula named is
violated. Several of them the code's own comments or documents state.

| configuration | shows |
|---|---|
| `MCPipelineReattach` | `OnlyReviewedLands`: with `keep_blocked=False` a rejected commit stays on the task's branch (PL:231), the next run re-attaches it (WT:133-135), and it lands with that run's artifact. PL:9-10 says that a verifier reviews each worker's artifact before anything merges |
| `MCWorktreeCLIRace` | `MergesAreSerialized`: of two overlapping `awh worktree merge`, one lands on the branch to which the other has just restored HEAD (WT:193), and reports success. WT:9 says that merges are serialized |
| `MutationSurvivors` | `SurvivorsAreGaps`: mutants of the same length written in the same second share Python's compiled code; the second is judged by the first's (`mutation.py:198`, against 161-163). Observed with a two-function module whose tests take under a second: 0 of 2 mutants killed by a suite that kills both. With `Mutation.cfg`'s constants, `AuthorsTextRestored`: a kill leaves a mutant, which the next run takes for the author's text if the tests pass on it |
| `MCPipelineBadId` | `ErrorIsContained`: a task whose id the manager rejects takes the whole run down (PL:172 calls branch_for again) after all workers have worked; PL:136 and SESSION_REPORT.md:147 promise the opposite. So does an OSError of a create (PL:157 catches WorktreeError only), whatever the ids |
| `MCPipelineDevHead` | started from another branch, worktrees are cut from that branch (`base="HEAD"`), and its commits land unreviewed |
| `MCPipelineRefused` | `HeadRestored`: a refused final checkout is ignored (`check=False`) and leaves HEAD on the integration branch; `NeverHalfApplied`: a refused `merge --abort` is ignored and leaves the merge open; `NoDebris`: a worktree or branch whose removal is refused stays |
| `EvalRunnerClaims` | `TimeoutNeverPasses`: the cmd of a task with a check may time out and the task pass (runner.py:227 says never); `SeedsAreIndependent`: a seed passes on the end state that an earlier seed, or another task in the same directory, left (runner.py:270 says independent) |
| `EvalRunnerRaises` | `ExceptionsAreFailures`: output that does not decode is a UnicodeDecodeError that ends the whole evaluation, where runner.py:227 counts any exception as a failure |
| `EvalRunnerDaemons` | `DaemonsDieToo`: a child that went into a session of its own survives the kill of the group, against runner.py:158 ("so daemon grandchildren die too"), and lives on beside later seeds |
| `EvalGateClaims` | `NoTaskDropped`: a task the change leaves out is not gated, against goldenset.py:98-99; `AggregateIsGated`: a change that brings a weight of NaN or infinity (goldenset.py:62-63) turns the aggregate's comparison off. With `SameFile = TRUE` in `EvalGate.cfg`, `--out` and `--baseline` the same file, `DriftIsBounded` fails as well: every change passes |
| `MCContainmentTools` | `MutationsBlocked`: `rm -r tests`, `chmod -R u+w tests` or a script change locked files, as the policy denies them by name and a replacement needs no write bit (readonly.py:168; line 14 says that layer 2 blocks Edit/Write/Bash mutations) |
| `MCContainmentBroken` | `BrokenPolicyIsStrict`: a policy file that is not UTF-8 makes the hook raise, which denies nothing; config.py:42 says that a broken policy file falls back on the strict defaults |
| `AdoptionRedGate` | `RedGateBlocks`: a gate that fails and prints what is not UTF-8, or cannot be started, ends the hook with exit status 1, and the turn ends over a red tree; stop_gate.py:6 says that a non-zero exit blocks |
| `AdoptionClobbers` | `NeverClobbers`: `settings.awh.json` is written by every run without looking (adopt.py:142-145, install.sh:26-31), against "Existing files are never clobbered" (adopt.py:13). With `Adoption.cfg`'s constants, `NoHollowGate`: adopt dies between creating and filling gate.sh (adopt.py:115); the empty script passes every stop, and the next run leaves it as it is. With `Tool = "install"` the seeded script checks nothing and exits 0, without any death, although it says to exit non-zero to block (install.sh:39) |
| `MCProxyLossy` | `TunnelIsFaithful` with `Eager`: what the client sends behind its header in the same chunk is dropped; `HalfClosedKeepsReading`: a client that closes its sending side loses the answer (credential_proxy.py:71-74) |
| `MCFirewallFirst` | `FailsClosed`: a first application that fails leaves the network open, as the default policies come last; `OnlyListedConnected`: connections opened before the DROP survive while the script reports that non-allowlisted egress is blocked (egress.py:160) |

Three more need no trace. The second stop of a blocked turn is not checked (`AllowedUnchecked`;
README.md:55-56 says otherwise). While a merge has HEAD, another process can create the
worktree of the very branch the user was on, and the final checkout is refused and the refusal
ignored (WT:208): the reason for `Undisturbed` in WorktreeCLI. A lock run that dies between
truncating and writing policy.json takes every locked file out of the policy (readonly.py:207):
without the conditions on `windows`, and without the constraint, all three properties of
Containment are violated.

Overlapping recorders of the ledger may also write a flag about the wrong
predecessor; `FlagsAreTrue` is stated for recorders that do not overlap.

## 6. Not modelled

* Read-only operations (list, disk_usage, report printing) and file formats (YAML,
  JSON, the text of messages).
* Uncommitted contents: a forced removal after a merge destroys what a worker left
  uncommitted. The model knows only that there was something.
* Port numbers of write_isolation and their collisions; `--base` other than HEAD;
  several commits of one worker in one run.
* The list of destructive commands and malformed events of the PreToolUse hook,
  AWH_POLICY_FILE (a lock run writes the project's policy even when hooks read another
  one), and files that are both tests and scoring files.
* Processes the test command of the mutation tester leaves behind: `subprocess.run` kills
  the shell at the timeout, and a grandchild may work on beside the next mutant.
* A bound for the aggregate over several captured baselines: a weight that is not finite
  switches its gate off.
* The seatbelt profile, the Dockerfile, the recipes, the demos, the format hook: scripts
  and data without state. The golden set and the policy that adopt seeds.
* The promptfoo gate and the real-valued statistics (Wilson, power, sample sizes).
* TCP below the socket calls, other families than IPv4, the text of prompts and the search for
  JSON in a judge's answer.

## 7. Plan

1. The release guard of `recipes/release-safety`, as a function over versions. 2. The time
limits of the hook and of the format hook, once a property depends on them. 3. An abstract
specification of the ledger: a list of acknowledged runs that loses one per crash.
