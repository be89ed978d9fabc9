---------------------------- MODULE WorktreeCLI ----------------------------
(***************************************************************************)
(* `awh worktree create|remove|merge` (harness/cli.py:99-116): each        *)
(* process makes one WorktreeManager, calls one method and exits.  The     *)
(* manager takes no lock, so processes started from several terminals or   *)
(* agents interleave on one repository.  Beside them an agent edits and    *)
(* commits in each worktree, and the user of the main working tree checks  *)
(* out branches, commits, deletes worktree directories by hand, and runs   *)
(* prune().                                                                *)
(***************************************************************************)
EXTENDS Worktree

CONSTANTS
  MaxCommits,    \* bound: commits an agent makes per branch
  MaxLaunches    \* bound: processes started

ASSUME CLIAssumption == MaxCommits \in Nat /\ MaxLaunches \in Nat

VARIABLES
  launches,    \* processes started so far
  userHead,    \* history: the branch the user last checked out
  overlapped,  \* history: what has run at the same time since then: no two
               \* processes ({}), some two ("calls"), two merges ("merges")
  handed,      \* history: tasks whose present worktree a create has handed out
  stale        \* history: creates whose own worktree went before they returned

cli == <<launches, userHead, overlapped>>
history == <<handed, stale>>
vars == <<git, call, cli, history>>

TypeOK ==
  /\ GitTypeOK /\ CallTypeOK
  /\ launches \in Nat
  /\ userHead \in Branches /\ overlapped \in SUBSET {"calls", "merges"}
  /\ handed \in SUBSET Tasks /\ stale \in SUBSET Callers

Init ==
  /\ GitInit /\ WorktreeInit
  /\ launches = 0
  /\ userHead = head /\ overlapped = {}
  /\ handed = {} /\ stale = {}

Quiet == \A p \in Callers : Idle(p)
Merging(p) == ~Idle(p) /\ call[p].op = "merge"

\* _cmd_worktree: argparse picks the method and its arguments; --into defaults
\* to main, --base to HEAD.
Launch(p) ==
  /\ Idle(p) /\ launches < MaxLaunches
  /\ launches' = launches + 1
  /\ \E t \in Tasks :
       \/ call' = [call EXCEPT ![p] = CreateCall(t)]
       \/ \E force, delete \in BOOLEAN :
            call' = [call EXCEPT ![p] = RemoveCall(t, force, delete)]
       \/ call' = [call EXCEPT ![p] = MergeCall(t, Main)]
  /\ overlapped' = overlapped
       \cup {o \in {"calls"} : ~Quiet}
       \cup {o \in {"merges"} : call'[p].op = "merge" /\ \E q \in Callers : Merging(q)}
  /\ UNCHANGED <<git, userHead>>

Step(p) == ManagerStep(p) /\ UNCHANGED cli

\* The process prints its result and ends.
Exit(p) ==
  /\ Returned(p)
  /\ Goto(p, "idle")
  /\ UNCHANGED <<git, cli>>

\* prune(): `git worktree prune` forgets registered worktrees whose directory
\* is gone.
Prune ==
  /\ admin # admin \cap dirs
  /\ admin' = admin \cap dirs
  /\ UNCHANGED <<exists, tip, head, index, dirs, dirty, faults, call, cli>>

\* write_isolation(t): an untracked .env.local in the worktree.
WriteIsolation(t) ==
  /\ t \in dirs \ BadIds
  /\ dirty' = dirty \cup {t}
  /\ UNCHANGED <<exists, tip, head, index, admin, dirs, faults, call, cli>>

----------------------------------------------------------------------------
(* The environment.                                                        *)

AgentCommit(t) ==
  /\ \E n \in 1..MaxCommits : <<t, n>> \notin tip[t] /\ CommitIn(t, n)
  /\ UNCHANGED <<call, cli>>

UserCheckout(b) ==
  /\ Quiet /\ b # head
  /\ CanCheckout(b)
  /\ head' = b /\ userHead' = b /\ overlapped' = {}
  /\ UNCHANGED <<exists, tip, index, admin, dirs, dirty, faults, call, launches>>

\* The user commits on the branch checked out in the main working tree.
UserCommit ==
  /\ Quiet /\ index = "clean"
  /\ \E n \in 1..MaxCommits :
       /\ <<head, n>> \notin tip[head]
       /\ tip' = [tip EXCEPT ![head] = @ \cup {<<head, n>>}]
  /\ UNCHANGED <<exists, head, index, admin, dirs, dirty, faults, call, cli>>

UserDeletesDir(t) ==
  /\ Quiet /\ t \in dirs
  /\ dirs' = dirs \ {t} /\ dirty' = dirty \ {t}
  /\ UNCHANGED <<exists, tip, head, index, admin, faults, call, cli>>

----------------------------------------------------------------------------
\* A create returns the worktree that its own `worktree add` has made.
Hands(p) == /\ call[p].op = "create" /\ call[p].step = "head" /\ p \notin stale
            /\ call'[p].step = "returned" /\ call'[p].res = "ok"

\* A worktree is gone once neither its directory nor its registration is left.
Observe ==
  LET gone == Tasks \ (admin' \cup dirs')
  IN /\ handed' = (handed \cup {call[p].task : p \in {q \in Callers : Hands(q)}}) \ gone
     /\ stale' = {p \in Callers : /\ call'[p].step = "head"
                                  /\ p \in stale \/ call'[p].task \in gone}

Act ==
  \/ \E p \in Callers : Launch(p) \/ Step(p) \/ Exit(p)
  \/ Prune \/ UserCommit
  \/ \E t \in Tasks : WriteIsolation(t) \/ AgentCommit(t) \/ UserDeletesDir(t)
  \/ \E b \in Branches : UserCheckout(b)

Next == Act /\ Observe

Spec == Init /\ [][Next]_vars

----------------------------------------------------------------------------
\* "Raises WorktreeError if the branch is already checked out in another
\* worktree" (worktree.py:125): of creates of one task that overlap, whichever
\* took which path and whatever they found when they looked, no two hand out the
\* same worktree.  (One whose own worktree was removed while it was reading HEAD
\* returns whatever is at the path then.)
TreesHandedOnce == [][\A p \in Callers : Hands(p) => call[p].task \notin handed]_vars

\* No two merges have run at the same time since the user checked out a branch;
\* if it is a task's, no create or remove beside a merge either: it could check
\* that branch out or delete it while HEAD is away.
Undisturbed == /\ "merges" \notin overlapped
               /\ userHead \in Tasks => "calls" \notin overlapped

\* "never left half-applied for the next task to trip over" and "never leave the
\* main repo parked on the integration branch" (worktree.py:184,206): once every
\* process has exited, no unfinished merge is left in the main tree, whichever
\* process's `merge --abort` undid which merge, and HEAD is where the user put
\* it unless merges overlapped.
MainTreeRestored == Quiet /\ faults = 0 =>
  /\ index = "clean"
  /\ Undisturbed => head = userHead

\* When a merge reports success, the task's commits are on the branch it names,
\* whatever creates and removes run beside it, as long as no two merges do.
MergeLandsWhereItSays ==
  [][\A p \in Callers :
       "merges" \notin overlapped /\ call[p].step = "merge" /\ call'[p].res = "ok"
         => tip[call[p].task] \subseteq tip'[call[p].into]]_vars

\* "merges are serialized through the integration branch" (worktree.py:9): the
\* same of merges that overlap.
MergesAreSerialized ==
  [][\A p \in Callers :
       call[p].step = "merge" /\ call'[p].res = "ok"
         => tip[call[p].task] \subseteq tip'[call[p].into]]_vars

\* Removing a worktree keeps the branch unless --delete-branch was given
\* (worktree.py:168-177): a commit becomes unreachable only in the `branch -D`
\* of a process that was told to delete that task's branch.
DeletedOnlyOnRequest ==
  [][\A t \in Tasks : \A c \in tip[t] :
       (\A b \in Branches : c \notin tip'[b])
         => \E p \in Callers : /\ call[p].task = t /\ call[p].delete_branch
                               /\ call[p].step = "branch"]_vars
============================================================================
