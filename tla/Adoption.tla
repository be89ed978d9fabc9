------------------------------ MODULE Adoption ------------------------------
(***************************************************************************)
(* How the stop hook gets into a project, composed with StopGate: awh adopt*)
(* (harness/adopt.py scaffold, _seed) and install.sh write the settings and*)
(* the gate script one after the other, while agents and the operator work *)
(* on the same tree; a scaffolder may die at any point, and is run again.  *)
(* The golden set and the policy are seeded as the gate script is, and left*)
(* out: no stop hook reads them.                                           *)
(***************************************************************************)
EXTENDS StopGate

CONSTANT Tool  \* the scaffolder used

ASSUME AdoptionAssumption == Tool \in {"adopt", "install"}

VARIABLES job,       \* the running scaffolder and where it is
          raced      \* history: the operator has written the very file the
                     \* scaffolder found missing and is about to write
allvars == <<vars, job, raced>>
agents == <<env, tree, pc, active, seen, green>>

Idle == [force |-> FALSE, at |-> "end", dest |-> "none"]

AdoptInit == Init /\ job = Idle /\ raced = FALSE

Scaffold == /\ job = Idle
            /\ \E force \in IF Tool = "adopt" THEN BOOLEAN ELSE {FALSE} :
                  job' = [Idle EXCEPT !.force = force, !.at = "settings"]
            /\ UNCHANGED <<vars, raced>>

Exists(f) == files[f] # "absent"
WriteNext(f) == /\ job' = [job EXCEPT !.at = "open", !.dest = f]
                /\ UNCHANGED <<vars, raced>>
Goes(next) == job' = next /\ raced' = FALSE

(* (Mutant: the settings are rendered in place.)                           *)
ChooseSettingsInPlace == job.at = "settings" /\ WriteNext("settings.json")

(* A settings.json that is there is left alone, unless forced.             *)
ChooseSettings ==
    /\ job.at = "settings"
    /\ WriteNext(IF Exists("settings.json") /\ ~job.force
                   THEN "settings.awh.json" ELSE "settings.json")

(* write_text, or a redirection: the file is truncated, then filled.       *)
OpenFile == /\ job.at = "open"
            /\ files' = [files EXCEPT ![job.dest] = "torn"]
            /\ job' = [job EXCEPT !.at = "fill"]
            /\ UNCHANGED <<agents, raced>>

Starter == IF job.dest # "gate.sh" THEN "harness"
           ELSE IF Tool = "adopt" THEN "stub" ELSE "echo"

FillFile == /\ job.at = "fill"
            /\ files' = [files EXCEPT ![job.dest] = Starter]
            /\ Goes(IF job.dest = "gate.sh" THEN Idle ELSE [Idle EXCEPT !.at = "gate"])
            /\ UNCHANGED agents

(* _seed: a gate script that is there is left as it is.                    *)
SeedGate == /\ job.at = "gate"
            /\ IF Exists("gate.sh") THEN Goes(Idle) /\ UNCHANGED vars
                                    ELSE WriteNext("gate.sh")

Dies == job # Idle /\ Goes(Idle) /\ UNCHANGED vars

(* The operator writes a file of his own, or merges the hooks into it.     *)
Operator ==
    /\ \E f \in Files :
          /\ files' = [files EXCEPT ![f] =
                 IF f = "settings.json" /\ files["settings.awh.json"] = "harness"
                   THEN "merged" ELSE "own"]
          /\ raced' = (raced \/ job.dest = f)
    /\ UNCHANGED <<agents, job>>

Scaffolder == ChooseSettings \/ OpenFile \/ FillFile \/ SeedGate
AdoptNext == \/ (\E a \in Agents : Agent(a)) /\ UNCHANGED <<job, raced>>
             \/ Scaffold \/ Scaffolder \/ Dies \/ Operator
(* An agent that has been blocked tries to stop again at some point, and   *)
(* the gate command ends, by itself or by the runner's timeout.            *)
AdoptSpec == /\ AdoptInit /\ [][AdoptNext]_allvars
             /\ \A a \in Agents : /\ WF_vars(TryStop(a))
                                  /\ WF_vars(GateTests(a) \/ HookReturns(a))
-----------------------------------------------------------------------------
(* Of the operator's files the scaffolders look for, what he wrote or      *)
(* merged stays his, however often they run, die and run again, unless     *)
(* forced, and unless he writes the file after it was found missing        *)
(* ("Never clobber a hand-written settings.json", "never clobber an        *)
(* existing one", adopt.py).                                               *)
Spared(f) == files[f] \in {"own", "merged"} /\ ~(raced /\ job.dest = f)
                 /\ ~(job.force /\ f = "settings.json")
             => files'[f] \in {"own", "merged"}
FoundFilesAreSpared == [][\A f \in {"settings.json", "gate.sh"} : Spared(f)]_allvars

(* "Existing files are never clobbered (settings.json is written beside as *)
(* settings.awh.json)" (adopt.py).                                         *)
NeverClobbers == [][\A f \in Files : Spared(f)]_allvars

(* A gate that checks nothing ends no turn.                                *)
NoHollowGate == \A a \in Agents : seen[a] \notin {"torn", "echo"}
=============================================================================
