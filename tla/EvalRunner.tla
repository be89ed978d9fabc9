----------------------------- MODULE EvalRunner -----------------------------
(***************************************************************************)
(* The multi-seed runner of stage 1 (harness/stage1_measurement/runner.py):*)
(* evaluate goes through the golden tasks in order and runs each at every  *)
(* seed; run_task runs the task's cmd and then, when the task has one, its *)
(* check; _safe_run runs a command in a process group of its own, waits    *)
(* for the end of its output and kills the group at the timeout.           *)
(*                                                                         *)
(* The commands are the operator's: they exit with any status or never,    *)
(* write what need not be UTF-8, and fork children that keep the output    *)
(* pipe open or not, and that stay in the process group or leave it with   *)
(* setsid.  The seeds of a task share its work directory, and so do all    *)
(* tasks that resolve to the same one; dir[t] is the task and seed whose   *)
(* work last brought it to the end state that the check of t looks for.    *)
(***************************************************************************)
EXTENDS Naturals, FiniteSets

CONSTANTS NTasks, NSeeds,   \* golden tasks and seeds, in the order they run
          Checked,          \* the tasks that have a check
          Workdirs,         \* the tasks, grouped by their work directory
          MaxAlive          \* bound on the processes alive when one forks

ASSUME EvalRunnerAssumption ==
    /\ NTasks \in Nat \ {0} /\ NSeeds \in Nat \ {0} /\ Checked \subseteq 1 .. NTasks
    /\ UNION Workdirs = 1 .. NTasks
    /\ \A d, e \in Workdirs : d # e => d \cap e = {}
    /\ MaxAlive \in Nat

Tasks == 1 .. NTasks
Seeds == 1 .. NSeeds
Phases == {"cmd", "check"}
Groups == Tasks \X Seeds \X Phases        \* one process group per command
Holders == {"holder", "daemon_holder"}    \* children with the output pipe
Daemons == {"daemon", "daemon_holder"}    \* children that left the group
Members == {"leader", "quiet"} \cup Holders \cup Daemons

VARIABLES task, seed, phase,  \* where evaluate is
          running,            \* the command of that phase has been started
          raised,             \* evaluate was left by an exception
          status,             \* its leader's exit status, once it has exited
          alive,              \* living processes: a group and a member each
          dir,                \* end states of the tasks' work directories
          results,            \* the verdicts, each with its history
          lost,               \* history: phases of this seed that timed out
                              \* or could not be started
          stragglers          \* history: timed-out groups with a member alive

vars == <<task, seed, phase, running, raised, status, alive, dir, results,
          lost, stragglers>>

Current == <<task, seed, phase>>
Done == task > NTasks \/ raised
Piping(g, processes) == \E m \in Holders : <<g, m>> \in processes

(* A verdict keeps how the scoring command ended (its output, its timeout, *)
(* or no start at all) and the exit status its leader had by then; a pass  *)
(* also the phases lost on its way and whose end state it is for.          *)
Nobody == <<0, 0>>
Pending == [verdict |-> "none", end |-> "none", status |-> "none",
            lost |-> {}, credit |-> Nobody]
Fail(end) == [Pending EXCEPT !.verdict = "fail", !.end = end, !.status = status]
Pass(end, phases, origin) ==
    [verdict |-> "pass", end |-> end, status |-> status, lost |-> phases,
     credit |-> origin]

Init == /\ task = 1 /\ seed = 1 /\ phase = "cmd"
        /\ running = FALSE /\ raised = FALSE /\ status = "none" /\ alive = {}
        /\ dir = [t \in Tasks |-> Nobody]
        /\ results = [r \in Tasks \X Seeds |-> Pending]
        /\ lost = {} /\ stragglers = {}

-----------------------------------------------------------------------------
(* What follows a command's return: after the cmd of a task with a check,  *)
(* the check, whatever the cmd returned; else the verdict, from the exit   *)
(* status, and the next seed or task.                                      *)
Advance == /\ phase' = "cmd"
           /\ IF seed < NSeeds THEN seed' = seed + 1 /\ task' = task
                               ELSE seed' = 1 /\ task' = task + 1

Returned(rc, end, phases) ==
    /\ running' = FALSE /\ status' = "none" /\ raised' = FALSE
    /\ IF phase = "cmd" /\ task \in Checked
         THEN /\ phase' = "check" /\ lost' = phases
              /\ UNCHANGED <<task, seed, results>>
         ELSE /\ results' = [results EXCEPT ![<<task, seed>>] =
                   IF rc # "0" THEN Fail(end)
                   ELSE Pass(end, phases,
                             IF phase = "check" THEN dir[task] ELSE <<task, seed>>)]
              /\ lost' = {}
              /\ Advance

(* Popen, in the task's directory and a new session.                       *)
Launch == /\ ~Done /\ ~running
          /\ running' = TRUE
          /\ alive' = alive \cup {<<Current, "leader">>}
          /\ UNCHANGED <<task, seed, phase, raised, status, dir, results, lost,
                         stragglers>>

(* Popen raises an OSError: 127.                                           *)
LaunchFails == /\ ~Done /\ ~running
               /\ Returned("127", "unstarted", lost \cup {phase})
               /\ UNCHANGED <<alive, dir, stragglers>>

(* The leader exits: the check's status tells whether the directory is in  *)
(* its end state, the cmd's is its own.                                    *)
LeaderExits ==
    /\ <<Current, "leader">> \in alive
    /\ \E rc \in {"0", "1"} :
          /\ phase = "check" => (rc = "0") = (dir[task] # Nobody)
          /\ status' = rc
    /\ alive' = alive \ {<<Current, "leader">>}
    /\ UNCHANGED <<task, seed, phase, running, raised, dir, results, lost,
                   stragglers>>

(* (Mutant: the runner waits for the leader only, not for its output.)     *)
OutputIgnored == /\ running /\ status # "none"
                 /\ Returned(status, "output", lost)
                 /\ UNCHANGED <<alive, dir, stragglers>>

(* communicate returns: the leader has exited and nobody holds the pipe.   *)
OutputEnds == /\ running /\ status # "none" /\ ~Piping(Current, alive)
              /\ Returned(status, "output", lost)
              /\ UNCHANGED <<alive, dir, stragglers>>

(* What communicate does not decode (text=True) is a UnicodeDecodeError,   *)
(* which neither run_task nor evaluate catches.                            *)
Raises == /\ raised' = TRUE /\ running' = FALSE /\ status' = "none"
          /\ UNCHANGED <<task, seed, phase, dir, results, lost>>

OutputUndecodable == /\ running /\ status # "none" /\ ~Piping(Current, alive)
                     /\ Raises
                     /\ UNCHANGED <<alive, stragglers>>

(* (Mutant: only the leader is killed.)                                    *)
KillLeader(g) == alive \ {<<g, "leader">>}

(* The timeout: _kill_tree kills the whole group, which a child that went  *)
(* into a session of its own is not in; the command counts 124.            *)
KillTree(g) == {p \in alive : p[1] # g \/ p[2] \in Daemons}

(* The groups that still have a process in them.                           *)
Living(groups, processes) ==
    {g \in groups : \E p \in processes : p[1] = g /\ p[2] \notin Daemons}

Expire == /\ alive' = KillTree(Current)
          /\ stragglers' = Living(stragglers \cup {Current}, alive')

(* (Mutant: the timeout is only enforced on a leader that is still there,  *)
(* as with a plain subprocess.run whose pipe a child keeps open.)          *)
TimeoutOfLeader == /\ running /\ <<Current, "leader">> \in alive
                   /\ Expire
                   /\ Returned("124", "timeout", lost \cup {phase})
                   /\ UNCHANGED dir

(* (Mutant: the status of a leader that exited before the timeout counts.) *)
TimeoutKeepsStatus ==
    /\ running /\ Expire
    /\ Returned(IF status = "none" THEN "124" ELSE status, "timeout",
                lost \cup {phase})
    /\ UNCHANGED dir

(* A daemon that keeps the pipe costs the second communicate its 5 s, and  *)
(* that TimeoutExpired is suppressed.                                      *)
Timeout == /\ running /\ Expire
           /\ Returned("124", "timeout", lost \cup {phase})
           /\ UNCHANGED dir

(* With nobody left on the pipe the second communicate decodes as well.    *)
TimeoutUndecodable == /\ running /\ Expire /\ ~Piping(Current, alive')
                      /\ Raises

-----------------------------------------------------------------------------
(* The operator's commands: a living process of a task's cmd brings its    *)
(* directory to the end state of one of the tasks that work there, or      *)
(* spoils it; a leader forks; a child exits.                               *)
Work == /\ \E p \in alive, d \in Workdirs : \E t \in d :
             /\ p[1][3] = "cmd" /\ p[1][1] \in d
             /\ \E origin \in {Nobody, <<p[1][1], p[1][2]>>} :
                   dir' = [dir EXCEPT ![t] = origin]
        /\ UNCHANGED <<task, seed, phase, running, raised, status, alive,
                       results, lost, stragglers>>

Fork == /\ <<Current, "leader">> \in alive /\ Cardinality(alive) < MaxAlive
        /\ \E m \in Members \ {"leader"} : alive' = alive \cup {<<Current, m>>}
        /\ UNCHANGED <<task, seed, phase, running, raised, status, dir, results,
                       lost, stragglers>>

ChildExits == /\ \E p \in alive : p[2] # "leader" /\ alive' = alive \ {p}
              /\ stragglers' = Living(stragglers, alive')
              /\ UNCHANGED <<task, seed, phase, running, raised, status, dir,
                             results, lost>>

Next == \/ Launch \/ LaunchFails \/ LeaderExits \/ OutputEnds
        \/ OutputUndecodable \/ Timeout \/ TimeoutUndecodable
        \/ Work \/ Fork \/ ChildExits \/ (Done /\ UNCHANGED vars)

Spec == Init /\ [][Next]_vars
(* The runner goes on and its timer fires; no command is obliged to end.   *)
FairSpec == Spec /\ WF_vars(Launch) /\ WF_vars(OutputEnds) /\ WF_vars(Timeout)
-----------------------------------------------------------------------------
(* Types of every variable.                                                *)
Origins == (Tasks \X Seeds) \cup {Nobody}
Verdicts == [verdict : {"none", "pass", "fail"},
             end : {"none", "output", "timeout", "unstarted"},
             status : {"none", "0", "1"}, lost : SUBSET Phases, credit : Origins]

TypeOK == /\ task \in 1 .. NTasks + 1 /\ seed \in Seeds /\ phase \in Phases
          /\ phase = "check" => task \in Checked
          /\ running \in BOOLEAN /\ raised \in BOOLEAN
          /\ status \in {"none", "0", "1"}
          /\ alive \subseteq (Groups \X Members)
          /\ dir \in [Tasks -> Origins]
          /\ results \in [Tasks \X Seeds -> Verdicts]
          /\ lost \subseteq Phases /\ stragglers \subseteq Groups

(* A task passes at a seed just when the leader of its scoring command     *)
(* (its check, or else its cmd) exited with 0 and the output ended by      *)
(* itself: not if it was still running or some child still held the output *)
(* at the timeout, whatever the leader's status was by then.               *)
PassIsExitZero == \A r \in Tasks \X Seeds :
    results[r].verdict # "none" =>
        (results[r].verdict = "pass") =
        (results[r].status = "0" /\ results[r].end = "output")

(* "Any timeout or exception counts as a failure (never a pass)"           *)
(* (run_task's docstring), of the work as of the check.                    *)
TimeoutNeverPasses == \A r \in Tasks \X Seeds :
    results[r].verdict = "pass" => results[r].lost = {}

(* And so evaluate always comes to its report.                             *)
ExceptionsAreFailures == ~raised

(* The seeds are independent: the end state a seed is passed for is the    *)
(* one its own work reached (evaluate's docstring).                        *)
SeedsAreIndependent == \A r \in Tasks \X Seeds :
    results[r].verdict = "pass" => results[r].credit = r

(* "so daemon grandchildren die too" (_kill_tree's docstring), when their  *)
(* command has timed out.                                                  *)
DaemonsDieToo == \A r \in Tasks \X Seeds, p \in alive :
    results[r].end = "timeout" =>
        p[1] # <<r[1], r[2], IF r[1] \in Checked THEN "check" ELSE "cmd">>

(* Nothing that stayed in the group of a timed-out command lives on ("the  *)
(* WHOLE group is SIGKILLed", _safe_run).                                  *)
TimedOutGroupsAreDead == stragglers = {}

(* Commands of the runner never overlap: when one is started, the leaders  *)
(* of all earlier ones and the holders of their pipes are gone, but for    *)
(* daemons of a command that timed out.                                    *)
NoOverlap == \A p \in alive :
    p[2] \in {"leader", "holder"} => p[1] = Current /\ running

(* Later tasks and seeds run beside nothing of an earlier command but      *)
(* children that let go of the pipe of one that did not time out, and      *)
(* children that left its process group.                                   *)
CommandsRunAlone == NoOverlap /\ TimedOutGroupsAreDead

(* Every evaluation ends, with a report or an exception, whatever the      *)
(* commands and their children do.                                         *)
EvaluationEnds == <>Done
=============================================================================
