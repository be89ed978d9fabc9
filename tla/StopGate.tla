------------------------------ MODULE StopGate ------------------------------
(***************************************************************************)
(* The Stop / SubagentStop hook of stage 0                                 *)
(* (harness/stage0_verification/hooks/stop_gate.py): when an agent tries   *)
(* to end its turn, the host calls the hook, which runs the project's gate *)
(* command and blocks the stop (exit status 2) while it fails.  Several    *)
(* agents share the tree, and their hooks may overlap.                     *)
(*                                                                         *)
(* The host is known by what the hook says of it: it keeps stop_hook_active*)
(* of a turn, sets it once a stop has been blocked, and clears it with the *)
(* next prompt.                                                            *)
(***************************************************************************)
CONSTANT Agents

Trees == {"green", "red", "hangs"}   \* what real checks make of it

(* A file is absent, torn (truncated and not filled yet), of a scaffolder  *)
(* or of the operator: "stub" is a gate that fails on purpose, "echo" one  *)
(* that checks nothing, "harness" the settings with the hooks in them,     *)
(* "merged" the operator's with the hooks added, "own" the operator's.     *)
Files == {"settings.json", "settings.awh.json", "gate.sh"}

VARIABLES env,      \* $AWH_GATE_CMD names a gate command
          files,    \* .claude/settings*.json and .awh/gate.sh
          tree,     \* the working tree
          pc,       \* each agent: new, working, in its stop hook, stopped, or
                    \* stopped after an error of the hook
          active,   \* stop_hook_active of the agent's turn
          seen,     \* the tree the gate run of this try to stop tested, or the
                    \* gate that tested none
          green     \* history: the tree was green at a moment between this try
                    \* to stop and the test of its gate run
vars == <<env, files, tree, pc, active, seen, green>>
project == <<env, files>>
Ended == {"stopped", "errored"}

Init == /\ env \in BOOLEAN /\ tree \in Trees
        /\ files \in {f \in [Files -> {"absent", "own"}] :
                         f["settings.awh.json"] = "absent"}
        /\ pc = [a \in Agents |-> "new"]
        /\ active = [a \in Agents |-> FALSE]
        /\ seen = [a \in Agents |-> "nothing"]
        /\ green = [a \in Agents |-> FALSE]

Prompt(a) == /\ pc[a] \in {"new"} \cup Ended
             /\ pc' = [pc EXCEPT ![a] = "working"]
             /\ active' = [active EXCEPT ![a] = FALSE]
             /\ seen' = [seen EXCEPT ![a] = "nothing"]
             /\ green' = [green EXCEPT ![a] = FALSE]
             /\ UNCHANGED <<project, tree>>

Edit(a) == /\ pc[a] = "working"
           /\ tree' \in Trees
           /\ green' = [b \in Agents |->
                          green[b] \/ (pc[b] = "gating" /\ tree' = "green")]
           /\ UNCHANGED <<project, pc, active, seen>>

(* The hook is called when settings.json has it; find_gate_command takes   *)
(* the variable before the script.                                         *)
Wired == files["settings.json"] \in {"harness", "merged"}
HasGate == env \/ files["gate.sh"] # "absent"

(* (Mutant: the loop guard is missing.)                                    *)
AllowedWithoutGate(a) == ~(Wired /\ HasGate)

(* Up to the gate command: nothing is run when there is no hook, when the  *)
(* turn was blocked before or when there is no gate; the stop is allowed.  *)
AllowedUnchecked(a) == active[a] \/ ~(Wired /\ HasGate)

TryStop(a) == /\ pc[a] = "working"
              /\ pc' = [pc EXCEPT ![a] = IF AllowedUnchecked(a)
                                           THEN "stopped" ELSE "gating"]
              /\ seen' = [seen EXCEPT ![a] = IF Wired /\ HasGate THEN @ ELSE "no gate"]
              /\ green' = [green EXCEPT ![a] = (tree = "green")]
              /\ UNCHANGED <<project, tree, active>>

(* The gate command reads its script and tests the tree at some moment of  *)
(* its run.                                                                *)
GateTests(a) == /\ pc[a] = "gating"
                /\ pc' = [pc EXCEPT ![a] = "tested"]
                /\ seen' = [seen EXCEPT ![a] =
                        IF env \/ files["gate.sh"] = "own" THEN tree ELSE files["gate.sh"]]
                /\ UNCHANGED <<project, tree, active, green>>

(* (Mutant: a gate that did not finish in time lets the agent stop.)       *)
GatePassesOnTimeout(a) == seen[a] \in {"green", "hangs", "torn", "echo"}

(* Exit status 0 lets the agent stop, any other and the timeout block; an  *)
(* empty script exits with 0.                                              *)
GatePasses(a) == seen[a] \in {"green", "torn", "echo"}

HookReturns(a) ==
    /\ pc[a] = "tested"
    /\ IF GatePasses(a)
         THEN pc' = [pc EXCEPT ![a] = "stopped"] /\ UNCHANGED <<active, seen, green>>
         ELSE /\ pc' = [pc EXCEPT ![a] = "working"]
              /\ active' = [active EXCEPT ![a] = TRUE]
              /\ seen' = [seen EXCEPT ![a] = "nothing"]
              /\ green' = [green EXCEPT ![a] = FALSE]
    /\ UNCHANGED <<project, tree>>

(* Only TimeoutExpired is caught: a shell that cannot be started, or output*)
(* of the gate that is not UTF-8 (a UnicodeDecodeError, after a timeout as *)
(* well), ends the hook with exit status 1, which blocks no stop.          *)
HookRaises(a) == /\ pc[a] \in {"gating", "tested"}
                 /\ pc' = [pc EXCEPT ![a] = "errored"]
                 /\ green' = [green EXCEPT ![a] = FALSE]
                 /\ UNCHANGED <<project, tree, active, seen>>

Agent(a) == \/ Prompt(a) \/ Edit(a) \/ TryStop(a) \/ GateTests(a)
            \/ HookReturns(a) \/ HookRaises(a)
-----------------------------------------------------------------------------
(* A turn that was never blocked and ends through the hook, not by an      *)
(* error in it, with a gate that tests trees: the tree was green at a      *)
(* moment after the agent had tried to stop, while others were editing it. *)
(* A red or hanging tree and the stub of awh adopt end no such turn.       *)
UnblockedTurnsEndGreen == \A a \in Agents :
    pc[a] = "stopped" /\ ~active[a] =>
        (seen[a] \in {"no gate", "torn", "echo"} \/ (seen[a] # "stub" /\ green[a]))

(* "if it exits non-zero, block the stop" (stop_gate.py), errors included. *)
RedGateBlocks == \A a \in Agents :
    pc[a] \in Ended /\ ~active[a] => seen[a] \notin {"red", "hangs", "stub"}

(* No test->fix->test loop wedges the session: every turn ends, with a     *)
(* tree that stays red as well.                                            *)
TurnsEnd == \A a \in Agents : pc[a] \notin {"new"} \cup Ended ~> pc[a] \in Ended
=============================================================================
