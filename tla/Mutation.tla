------------------------------ MODULE Mutation ------------------------------
(***************************************************************************)
(* The mutation tester of stage 2 (harness/stage2_structural/mutation.py): *)
(* run_mutation writes one mutant after the other over the target file,    *)
(* runs the test command, and restores the file.  The test command is a    *)
(* process of its own that imports the target; with Bytecode it does so    *)
(* through Python's cache, which takes compiled code for current when the  *)
(* source has the same length and the same modification second.           *)
(*                                                                         *)
(* A text of the target is the set of sites at which its operator is the   *)
(* flipped one, and whether it went through ast.unparse.  What the tests   *)
(* say of a text depends on its operators alone and is fixed in a          *)
(* behaviour ("hangs": longer than the timeout).                           *)
(***************************************************************************)
EXTENDS Integers, FiniteSets

CONSTANTS NSites,     \* mutation sites of the target
          Longer,     \* sites whose flipped operator is a character longer
          Bytecode,   \* the test processes read and write __pycache__
          MaxClock,   \* bound: seconds that pass
          MaxRuns,    \* bound: runs of the tool
          MaxKills    \* bound: SIGTERM or SIGKILL received by the tool

Sites == 1 .. NSites
Texts == [ops : SUBSET Sites, unparsed : BOOLEAN]
Authored == [ops |-> {}, unparsed |-> FALSE]
Verdicts == {"passes", "fails", "hangs"}
NoCode == [text |-> Authored, mtime |-> -1, size |-> -1]

ASSUME MutationAssumption ==
    /\ NSites \in Nat /\ Longer \subseteq 1 .. NSites /\ Bytecode \in BOOLEAN
    /\ MaxClock \in Nat /\ MaxRuns \in Nat /\ MaxKills \in Nat

VARIABLES suite,                   \* operators -> what the test command says
          file, mtime, pyc, clock, \* the target, its compiled code, the time
          pc, original, site,      \* run_mutation: where it is, its locals
          ran,                     \* the code the running test process loaded
          killed, survived, runs, kills,
          held,     \* history: what the target held, with its modification second
          judged    \* history: the code last tested at each site, 0 being the
                    \* baseline, and the modification second of the target

world == <<suite, clock>>
vars == <<suite, file, mtime, pyc, clock, pc, original, site, ran,
          killed, survived, runs, kills, held, judged>>

Resting == {"idle", "returned", "raised"}
Length(text) == Cardinality(text.ops \cap Longer)
                + IF text.unparsed THEN 0 ELSE 1

Init == /\ suite \in [SUBSET Sites -> Verdicts]
        /\ file = Authored /\ original = Authored /\ ran = Authored
        /\ mtime = 0 /\ pyc = NoCode /\ clock = 0
        /\ pc = "idle" /\ site = 1 /\ killed = {} /\ survived = {}
        /\ runs = 0 /\ kills = 0
        /\ held = {<<Authored, 0>>}
        /\ judged = [i \in 0 .. NSites |-> [text |-> Authored, mtime |-> 0]]

(* One mutation of the text: its site is flipped, the rest is unparsed.    *)
Mutant(text, i) == [ops |-> (text.ops \ {i}) \cup ({i} \ text.ops),
                    unparsed |-> TRUE]

(* (Mutant: require_baseline is not honoured.)                             *)
StartUnchecked == /\ pc \in Resting /\ runs < MaxRuns
                  /\ runs' = runs + 1
                  /\ original' = file
                  /\ site' = 1 /\ killed' = {} /\ survived' = {}
                  /\ pc' = IF NSites > 0 THEN "write" ELSE "restore"
                  /\ UNCHANGED <<world, file, mtime, pyc, ran, kills, held,
                                 judged>>

Start == /\ pc \in Resting /\ runs < MaxRuns
         /\ runs' = runs + 1
         /\ original' = file
         /\ site' = 1 /\ killed' = {} /\ survived' = {}
         /\ pc' = "baseline"
         /\ UNCHANGED <<world, file, mtime, pyc, ran, kills, held, judged>>

(* The test process imports the target: compiled code of the same second   *)
(* and the same length is taken for the target's.                          *)
UpToDate == pyc.mtime = mtime /\ pyc.size = Length(file)
Spawn == /\ pc \in {"baseline", "test"}
         /\ ran' = IF Bytecode /\ UpToDate THEN pyc.text ELSE file
         /\ pyc' = IF Bytecode /\ ~UpToDate
                     THEN [text |-> file, mtime |-> mtime, size |-> Length(file)]
                     ELSE pyc
         /\ pc' = IF pc = "baseline" THEN "baseline_runs" ELSE "test_runs"
         /\ judged' = [judged EXCEPT ![IF pc = "baseline" THEN 0 ELSE site] =
                          [text |-> ran', mtime |-> mtime]]
         /\ UNCHANGED <<world, file, mtime, original, site, killed, survived,
                        runs, kills, held>>

(* (Mutant: a timeout is not mapped to 124 but waited out.)                *)
NonZeroUnlessHung == suite[ran.ops] = "fails"

(* The exit status of the test command is not 0: a failure, or the 124 of  *)
(* a timeout.                                                              *)
NonZero == suite[ran.ops] \in {"fails", "hangs"}
Zero == suite[ran.ops] = "passes"

BaselineRed == /\ pc = "baseline_runs" /\ NonZero
               /\ pc' = "raised"
               /\ UNCHANGED <<world, file, mtime, pyc, original, site, ran,
                              killed, survived, runs, kills, held, judged>>

BaselineGreen == /\ pc = "baseline_runs" /\ Zero
                 /\ pc' = IF NSites > 0 THEN "write" ELSE "restore"
                 /\ UNCHANGED <<world, file, mtime, pyc, original, site, ran,
                                killed, survived, runs, kills, held, judged>>

(* write_text: the target holds the text, modified in this second.         *)
Put(text) == /\ file' = text /\ mtime' = clock
             /\ held' = held \cup {<<text, clock>>}

(* (Mutant: mutations pile up on the text the last one left.)              *)
WriteMutantOnMutant == /\ pc = "write"
                       /\ Put(Mutant(file, site))
                       /\ pc' = "test"
                       /\ UNCHANGED <<world, pyc, original, site, ran, killed,
                                      survived, runs, kills, judged>>

WriteMutant == /\ pc = "write"
               /\ Put(Mutant(original, site))
               /\ pc' = "test"
               /\ UNCHANGED <<world, pyc, original, site, ran, killed,
                              survived, runs, kills, judged>>

NextMutant == IF site < NSites THEN site' = site + 1 /\ pc' = "write"
                               ELSE site' = site /\ pc' = "restore"

Judge == /\ pc = "test_runs"
         /\ \/ NonZero /\ killed' = killed \cup {site} /\ UNCHANGED survived
            \/ Zero /\ survived' = survived \cup {site} /\ UNCHANGED killed
         /\ NextMutant
         /\ UNCHANGED <<world, file, mtime, pyc, original, ran, runs, kills,
                        held, judged>>

(* (Mutant: the restore follows the loop and is not in a finally.)         *)
RunnerRaisesPastRestore ==
    /\ pc \in {"baseline", "baseline_runs", "test", "test_runs"}
    /\ pc' = "raised"
    /\ UNCHANGED <<world, file, mtime, pyc, original, site, ran, killed,
                   survived, runs, kills, held, judged>>

(* Any other exception of the runner (an interrupt, a shell that cannot be *)
(* started): before the first write it just propagates, in the loop the    *)
(* finally restores first.                                                 *)
RunnerRaises == /\ pc \in {"baseline", "baseline_runs", "test", "test_runs"}
                /\ pc' = IF pc \in {"test", "test_runs"} THEN "restore_raise"
                                                          ELSE "raised"
                /\ UNCHANGED <<world, file, mtime, pyc, original, site, ran,
                               killed, survived, runs, kills, held, judged>>

Restore == /\ pc \in {"restore", "restore_raise"}
           /\ Put(original)
           /\ pc' = IF pc = "restore" THEN "returned" ELSE "raised"
           /\ UNCHANGED <<world, pyc, original, site, ran, killed, survived,
                          runs, kills, judged>>

(* A signal Python does not turn into an exception: no finally runs.       *)
Kill == /\ pc \notin Resting /\ kills < MaxKills
        /\ kills' = kills + 1
        /\ pc' = "idle"
        /\ UNCHANGED <<world, file, mtime, pyc, original, site, ran, killed,
                       survived, runs, held, judged>>

Tick == /\ clock < MaxClock
        /\ clock' = clock + 1
        /\ UNCHANGED <<suite, file, mtime, pyc, pc, original, site, ran,
                       killed, survived, runs, kills, held, judged>>

Step == \/ Spawn \/ BaselineRed \/ BaselineGreen \/ WriteMutant \/ Judge
        \/ Restore
Next == Start \/ Step \/ RunnerRaises \/ Kill \/ Tick

Spec == Init /\ [][Next]_vars
(* The loop waits for nothing but the test process, which the timeout ends. *)
FairSpec == Spec /\ WF_vars(Step)
-----------------------------------------------------------------------------
(* Types of every variable.                                                *)
TypeOK ==
    /\ suite \in [SUBSET Sites -> Verdicts]
    /\ file \in Texts /\ original \in Texts /\ ran \in Texts
    /\ mtime \in Nat /\ clock \in Nat
    /\ pyc \in [text : Texts, mtime : Int, size : Int]
    /\ pc \in Resting \cup {"baseline", "baseline_runs", "write", "test",
                            "test_runs", "restore", "restore_raise"}
    /\ site \in Nat /\ (pc \in {"write", "test", "test_runs"} => site \in Sites)
    /\ killed \subseteq Sites /\ survived \subseteq Sites
    /\ runs \in Nat /\ kills \in Nat
    /\ held \subseteq (Texts \X Nat)
    /\ judged \in [0 .. NSites -> [text : Texts, mtime : Nat]]

(* What was tested at site i was the text, or else a text of its length    *)
(* that the target held in the second of its modification: Python's        *)
(* bytecode cache, which the tool leaves on, tells no more apart.          *)
IsOf(i, text) == \/ judged[i].text = text
                 \/ /\ Length(judged[i].text) = Length(text)
                    /\ <<judged[i].text, judged[i].mtime>> \in held

(* A verdict is what the tests say of its own mutant of the text the run   *)
(* read, or of another text of that length and of that second: of nothing  *)
(* older, such as a mutant that an earlier run was killed on, and of no    *)
(* other mutation (run_mutation's docstring, "while it is in place").      *)
VerdictsAreOfTheirSecond ==
    /\ \A i \in killed \cup survived : IsOf(i, Mutant(original, i))
    /\ \A i \in killed : suite[judged[i].text.ops] # "passes"
    /\ \A i \in survived : suite[judged[i].text.ops] = "passes"

(* "A surviving mutant means the suite did not detect that change - a gap  *)
(* in the tests" (run_mutation's docstring).                               *)
SurvivorsAreGaps ==
    \A i \in survived : suite[Mutant(original, i).ops] = "passes"

(* A report judges every mutant once, and is only returned when the tests  *)
(* passed on the text the run read ("the suite must PASS on the unmutated  *)
(* source"), as far as the cache let them see it.                          *)
ReportsAreMeaningful ==
    pc = "returned" => /\ suite[judged[0].text.ops] = "passes"
                       /\ IsOf(0, original)
                       /\ killed \cup survived = Sites
                       /\ killed \cap survived = {}

(* However a run ends, short of being killed, the target holds the text    *)
(* the run read ("the original file is always restored").                  *)
OriginalRestored == pc \in {"returned", "raised"} => file = original

(* ... and when the run returns a report, that text is the author's.       *)
AuthorsTextRestored == pc = "returned" => file = Authored

(* A run comes to its end, hanging mutants included: the timeout of the    *)
(* test command bounds each of them.                                       *)
RunEnds == pc \notin Resting ~> pc \in Resting
=============================================================================
