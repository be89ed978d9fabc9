--------------------------- MODULE MutationProofs ---------------------------
(***************************************************************************)
(* Proofs about Mutation, for any number of sites, runs and kills, and     *)
(* with or without a cache of compiled code.                               *)
(***************************************************************************)
EXTENDS Mutation, TLAPS

(* A mutant of a text is a text.                                           *)
LEMMA MutantType ==
    ASSUME NEW text \in Texts, NEW i \in Sites
    PROVE  Mutant(text, i) \in Texts
BY DEF Mutant, Texts

Tested == [text : Texts, mtime : Nat]

(* The part of the types the invariants below need.                        *)
Typed == /\ suite \in [SUBSET Sites -> Verdicts]
         /\ file \in Texts /\ original \in Texts /\ ran \in Texts
         /\ mtime \in Nat /\ clock \in Nat
         /\ site \in Nat /\ site >= 1
         /\ pc \in {"write", "test", "test_runs"} => site \in Sites
         /\ judged \in [0 .. NSites -> Tested]
         /\ pyc.text \in Texts

(* Compiled code is of a text that the target held when it had that        *)
(* modification second and that length.                                    *)
Cached == /\ pyc = NoCode \/ (/\ <<pyc.text, pyc.mtime>> \in held
                              /\ pyc.size = Length(pyc.text))
          /\ <<file, mtime>> \in held

(* What the target holds and what the test process runs, at each point of  *)
(* the run: the text read until the first write, then this site's mutant,  *)
(* then the text read again.                                               *)
Placed ==
    /\ pc \in {"baseline", "baseline_runs", "returned", "raised"}
          => file = original
    /\ pc = "baseline_runs" => ran = judged[0].text /\ IsOf(0, original)
    /\ pc = "test" => file = Mutant(original, site)
    /\ pc = "test_runs" => /\ ran = judged[site].text
                           /\ IsOf(site, Mutant(original, site))

(* The sites judged so far are those before the current one, and the loop  *)
(* is only entered for a text the tests pass on.                           *)
Progress ==
    /\ killed \cap survived = {}
    /\ pc \in {"baseline", "baseline_runs"}
          => site = 1 /\ killed \cup survived = {}
    /\ pc \in {"write", "test", "test_runs"}
          => killed \cup survived = 1 .. site - 1
    /\ pc \in {"restore", "returned"} => killed \cup survived = Sites
    /\ pc \in {"write", "test", "test_runs", "restore", "returned"}
          => suite[judged[0].text.ops] = "passes" /\ IsOf(0, original)

IInv == Typed /\ Cached /\ Placed /\ Progress /\ VerdictsAreOfTheirSecond

LEMMA InitIInv == Init => IInv
<1> SUFFICES ASSUME Init PROVE IInv
  OBVIOUS
<1>1. Typed
  BY DEF Init, Typed, Tested, Authored, Texts, NoCode
<1>2. Cached /\ Placed /\ Progress
  BY DEF Init, Cached, Placed, Progress
<1>3. VerdictsAreOfTheirSecond
  BY DEF Init, VerdictsAreOfTheirSecond
<1> QED
  BY <1>1, <1>2, <1>3 DEF IInv

(* What was judged stays so while the target is written and rewritten.     *)
LEMMA IsOfStays ==
    ASSUME NEW i, NEW text, IsOf(i, text),
           judged'[i] = judged[i], held \subseteq held'
    PROVE  IsOf(i, text)'
BY DEF IsOf, Length

(* A step that tests nothing and judges nothing.                           *)
LEMMA VerdictsStay ==
    ASSUME VerdictsAreOfTheirSecond, held \subseteq held',
           UNCHANGED <<suite, judged, killed, survived, original>>
    PROVE  VerdictsAreOfTheirSecond'
<1>1. ASSUME NEW i \in killed \cup survived PROVE IsOf(i, Mutant(original, i))'
  <2>1. IsOf(i, Mutant(original, i))
    BY DEF VerdictsAreOfTheirSecond
  <2>2. Mutant(original, i)' = Mutant(original, i)
    BY DEF Mutant
  <2> QED
    BY <2>1, <2>2, IsOfStays DEF IsOf, Length
<1> QED
  BY <1>1 DEF VerdictsAreOfTheirSecond

LEMMA StartStep == ASSUME IInv, Start PROVE IInv'
<1> USE DEF IInv, Start, world
<1>1. Typed' /\ Cached'
  BY DEF Typed, Cached, Length
<1>2. Placed' /\ Progress'
  <2>1. pc = "returned" \/ pc = "raised" \/ pc = "idle"
    BY DEF Resting
  <2> QED
    BY <2>1 DEF Placed, Progress
<1>3. VerdictsAreOfTheirSecond'
  BY DEF VerdictsAreOfTheirSecond
<1> QED
  BY <1>1, <1>2, <1>3

(* The code a test process loads is that of the target, or of a text that  *)
(* the cache cannot tell from it.                                          *)
LEMMA SpawnLoads ==
    ASSUME IInv, Spawn,
           NEW i \in 0 .. NSites, judged' = [judged EXCEPT ![i] = [text |-> ran', mtime |-> mtime]]
    PROVE  ran' \in Texts /\ judged'[i].text = ran' /\ IsOf(i, file)'
<1>1. judged'[i] = [text |-> ran', mtime |-> mtime]
  BY DEF IInv, Typed
<1>2. held' = held /\ file' = file
  BY DEF Spawn
<1>3. CASE Bytecode /\ UpToDate
  <2>1. ran' = pyc.text /\ pyc.mtime = mtime /\ pyc.size = Length(file)
    BY <1>3 DEF Spawn, UpToDate
  <2>2. pyc # NoCode
    BY <2>1 DEF NoCode, IInv, Typed
  <2>3. <<pyc.text, mtime>> \in held /\ Length(pyc.text) = Length(file)
    BY <2>1, <2>2 DEF IInv, Cached
  <2> QED
    BY <1>1, <1>2, <2>1, <2>3 DEF IsOf, Length, IInv, Typed
<1>4. CASE ~(Bytecode /\ UpToDate)
  BY <1>1, <1>2, <1>4 DEF Spawn, IsOf, IInv, Typed
<1> QED
  BY <1>3, <1>4

LEMMA SpawnStep == ASSUME IInv, Spawn PROVE IInv'
<1> USE DEF IInv
<1>0. PICK i : i = IF pc = "baseline" THEN 0 ELSE site
  OBVIOUS
<1>1. /\ pc \in {"baseline", "test"} /\ i \in 0 .. NSites
      /\ judged' = [judged EXCEPT ![i] = [text |-> ran', mtime |-> mtime]]
      /\ UNCHANGED <<suite, clock, file, mtime, original, site, killed, survived, held>>
  BY <1>0, MutationAssumption DEF Spawn, world, Typed, Sites
<1>2. ran' \in Texts /\ judged'[i].text = ran' /\ IsOf(i, file)'
  BY <1>1, SpawnLoads
<1>3. \A j \in 0 .. NSites : j # i => judged'[j] = judged[j]
  BY <1>1 DEF Typed
<1>4. Typed' /\ Cached'
  <2>1. judged' \in [0 .. NSites -> Tested]
    BY <1>1, <1>2 DEF Typed, Tested
  <2>2. pyc' = pyc \/ pyc' = [text |-> file, mtime |-> mtime, size |-> Length(file)]
    BY DEF Spawn
  <2>3. pc' = "baseline_runs" \/ (pc = "test" /\ pc' = "test_runs")
    BY <1>1 DEF Spawn
  <2>4. Typed'
    BY <1>1, <1>2, <2>1, <2>2, <2>3 DEF Typed
  <2>5. CASE pyc' = pyc
    BY <1>1, <2>4, <2>5 DEF Cached, Length
  <2>6. CASE pyc' = [text |-> file, mtime |-> mtime, size |-> Length(file)]
    <3>1. pyc'.text = file /\ pyc'.mtime = mtime /\ pyc'.size = Length(file)
      BY <2>6
    <3> QED
      BY <1>1, <2>4, <3>1 DEF Cached, Length
  <2> QED
    BY <2>2, <2>5, <2>6
<1>5. CASE pc = "baseline"
  <2>1. /\ i = 0 /\ pc' = "baseline_runs" /\ file = original
        /\ killed = {} /\ survived = {} /\ site = 1
    BY <1>0, <1>5 DEF Spawn, Placed, Progress
  <2>2. Placed' /\ Progress'
    BY <1>1, <1>2, <2>1 DEF Placed, Progress
  <2>3. VerdictsAreOfTheirSecond'
    BY <1>1, <2>1 DEF VerdictsAreOfTheirSecond
  <2> QED
    BY <1>4, <2>2, <2>3
<1>6. CASE pc = "test"
  <2>1. /\ i = site /\ site \in Sites /\ pc' = "test_runs"
        /\ file = Mutant(original, site) /\ killed \cup survived = 1 .. site - 1
    BY <1>0, <1>6 DEF Spawn, Typed, Placed, Progress
  <2>2. judged'[0] = judged[0] /\ \A j \in killed \cup survived : judged'[j] = judged[j]
    BY <1>3, <2>1, MutationAssumption DEF Sites
  <2>3. Placed'
    BY <1>1, <1>2, <2>1 DEF Placed, Mutant
  <2>4. Progress'
    BY <1>1, <1>6, <2>1, <2>2, IsOfStays DEF Progress, IsOf
  <2>5. VerdictsAreOfTheirSecond'
    <3>1. ASSUME NEW j \in killed \cup survived PROVE IsOf(j, Mutant(original, j))'
      <4>1. IsOf(j, Mutant(original, j)) /\ judged'[j] = judged[j]
        BY <2>2 DEF VerdictsAreOfTheirSecond
      <4>2. Mutant(original, j)' = Mutant(original, j) /\ held' = held
        BY <1>1 DEF Mutant
      <4> QED
        BY <4>1, <4>2 DEF IsOf, Length
    <3> QED
      BY <1>1, <2>2, <3>1 DEF VerdictsAreOfTheirSecond
  <2> QED
    BY <1>4, <2>3, <2>4, <2>5
<1> QED
  BY <1>1, <1>5, <1>6

LEMMA BaselineStep == ASSUME IInv, BaselineRed \/ BaselineGreen PROVE IInv'
<1> USE DEF IInv
<1>1. /\ pc = "baseline_runs"
      /\ UNCHANGED <<suite, clock, file, mtime, pyc, original, site, ran, killed, survived,
                     held, judged>>
  BY DEF BaselineRed, BaselineGreen, world
<1>2. file = original /\ site = 1 /\ killed = {} /\ survived = {}
      /\ ran = judged[0].text /\ IsOf(0, original)
  BY <1>1 DEF Placed, Progress
<1>3. VerdictsAreOfTheirSecond' /\ Cached'
  BY <1>1, VerdictsStay DEF Cached, Length
<1>4. IsOf(0, original)'
  BY <1>1, <1>2 DEF IsOf, Length
<1>5. CASE BaselineRed
  BY <1>1, <1>2, <1>3, <1>5 DEF BaselineRed, Typed, Placed, Progress
<1>6. CASE BaselineGreen
  <2>1. suite[judged[0].text.ops] = "passes"
    BY <1>2, <1>6 DEF BaselineGreen, Zero
  <2>2. \/ pc' = "write" /\ NSites > 0
        \/ pc' = "restore" /\ ~(NSites > 0)
    BY <1>6 DEF BaselineGreen
  <2>3. NSites = 0 => Sites = {}
    BY DEF Sites
  <2>4. 1 .. 0 = {}
    OBVIOUS
  <2>5. Typed'
    BY <1>1, <1>2, <2>2, MutationAssumption DEF Typed, Sites
  <2>6. Placed' /\ Progress'
    BY <1>1, <1>2, <1>4, <2>1, <2>2, <2>3, <2>4, MutationAssumption DEF Placed, Progress
  <2> QED
    BY <1>3, <2>5, <2>6
<1> QED
  BY <1>5, <1>6

(* What a write to the target leaves true.                                 *)
LEMMA PutStep ==
    ASSUME IInv, NEW text \in Texts, Put(text),
           UNCHANGED <<suite, clock, pyc, original, site, ran, killed, survived, judged>>,
           pc' \in {"write", "test", "test_runs"} => site \in Sites
    PROVE  /\ Typed' /\ Cached' /\ VerdictsAreOfTheirSecond'
           /\ IsOf(0, original) => IsOf(0, original)'
<1> USE DEF IInv
<1>1. held \subseteq held' /\ file' = text /\ mtime' = clock /\ <<text, clock>> \in held'
  BY DEF Put
<1>2. Typed' /\ Cached'
  BY <1>1 DEF Typed, Cached, Length
<1>3. VerdictsAreOfTheirSecond'
  BY <1>1, VerdictsStay
<1>4. IsOf(0, original) => IsOf(0, original)'
  BY <1>1 DEF IsOf, Length
<1> QED
  BY <1>2, <1>3, <1>4

LEMMA WriteMutantStep == ASSUME IInv, WriteMutant PROVE IInv'
<1> USE DEF IInv
<1>1. /\ pc = "write" /\ pc' = "test" /\ Put(Mutant(original, site)) /\ site \in Sites
      /\ UNCHANGED <<suite, clock, pyc, original, site, ran, killed, survived, judged>>
  BY DEF WriteMutant, world, Typed
<1>2. Mutant(original, site) \in Texts
  BY <1>1, MutantType DEF Typed
<1>3. /\ Typed' /\ Cached' /\ VerdictsAreOfTheirSecond'
      /\ IsOf(0, original) => IsOf(0, original)'
  BY <1>1, <1>2, PutStep
<1>4. file' = Mutant(original, site)'
  BY <1>1 DEF Put, Mutant
<1> QED
  BY <1>1, <1>3, <1>4 DEF Placed, Progress

LEMMA RestoreStep == ASSUME IInv, Restore PROVE IInv'
<1> USE DEF IInv
<1>1. /\ pc \in {"restore", "restore_raise"} /\ Put(original)
      /\ pc' = (IF pc = "restore" THEN "returned" ELSE "raised")
      /\ UNCHANGED <<suite, clock, pyc, original, site, ran, killed, survived, judged>>
  BY DEF Restore, world
<1>2. /\ Typed' /\ Cached' /\ VerdictsAreOfTheirSecond'
      /\ IsOf(0, original) => IsOf(0, original)'
  BY <1>1, PutStep DEF Typed
<1>3. file' = original
  BY <1>1 DEF Put
<1> QED
  BY <1>1, <1>2, <1>3 DEF Placed, Progress

LEMMA JudgeStep == ASSUME IInv, Judge PROVE IInv'
<1> USE DEF IInv
<1>1. /\ pc = "test_runs" /\ site \in Sites /\ NextMutant
      /\ UNCHANGED <<suite, clock, file, mtime, pyc, original, ran, held, judged>>
  BY DEF Judge, world, Typed
<1>2. /\ ran = judged[site].text /\ IsOf(site, Mutant(original, site))
      /\ killed \cup survived = 1 .. site - 1 /\ killed \cap survived = {}
  BY <1>1 DEF Placed, Progress
<1>3. \/ NonZero /\ killed' = killed \cup {site} /\ survived' = survived
      \/ Zero /\ survived' = survived \cup {site} /\ killed' = killed
  BY DEF Judge
<1>4. /\ killed' \cup survived' = 1 .. site /\ (killed \cap survived = {})'
  <2>1. site \notin 1 .. site - 1 /\ (1 .. site - 1) \cup {site} = 1 .. site
    BY <1>1 DEF Sites
  <2> QED
    BY <1>2, <1>3, <2>1
<1>5. \A i, text : IsOf(i, text)' <=> IsOf(i, text)
  BY <1>1 DEF IsOf, Length
<1>6. VerdictsAreOfTheirSecond'
  BY <1>1, <1>2, <1>3, <1>5 DEF VerdictsAreOfTheirSecond, NonZero, Zero, Mutant, IsOf, Length
<1>7. Typed' /\ Cached'
  <2>1. site' \in Nat /\ site' >= 1 /\ (pc' = "write" => site' \in Sites)
    BY <1>1, MutationAssumption DEF Typed, NextMutant, Sites
  <2>2. pc' \in {"write", "restore"}
    BY <1>1 DEF NextMutant
  <2> QED
    BY <1>1, <2>1, <2>2 DEF Typed, Cached, Length
<1>8. Placed' /\ Progress'
  <2>1. (killed \cap survived = {})' /\ suite[judged[0].text.ops]' = "passes" /\ IsOf(0, original)'
    BY <1>1, <1>4 DEF Progress, IsOf, Length
  <2>2. CASE site < NSites
    <3>1. site' = site + 1 /\ pc' = "write" /\ 1 .. site = 1 .. site' - 1
      BY <1>1, <2>2 DEF NextMutant, Sites
    <3> QED
      BY <1>1, <1>4, <2>1, <3>1 DEF Placed, Progress
  <2>3. CASE ~(site < NSites)
    <3>1. pc' = "restore" /\ site = NSites
      BY <1>1, <2>3, MutationAssumption DEF NextMutant, Sites
    <3> QED
      BY <1>1, <1>4, <2>1, <3>1 DEF Placed, Progress, Sites
  <2> QED
    BY <2>2, <2>3
<1> QED
  BY <1>6, <1>7, <1>8

LEMMA OutsideStep == ASSUME IInv, RunnerRaises \/ Kill \/ Tick \/ UNCHANGED vars PROVE IInv'
<1> USE DEF IInv
<1>1. UNCHANGED <<suite, file, mtime, pyc, original, site, ran, killed, survived, held, judged>>
  BY DEF RunnerRaises, Kill, Tick, vars, world
<1>2. VerdictsAreOfTheirSecond' /\ Cached'
  BY <1>1, VerdictsStay DEF Cached, Length
<1>3. \A i, text : IsOf(i, text)' <=> IsOf(i, text)
  BY <1>1 DEF IsOf, Length
<1>4. \/ pc' \in {pc, "idle", "restore_raise"}
      \/ pc' = "raised" /\ pc \in {"baseline", "baseline_runs"}
  BY DEF RunnerRaises, Kill, Tick, vars
<1>5. clock' \in Nat
  BY DEF RunnerRaises, Kill, Tick, vars, world, Typed
<1>6. Typed'
  BY <1>1, <1>4, <1>5 DEF Typed
<1>7. Placed' /\ Progress'
  BY <1>1, <1>4 DEF Placed, Progress, IsOf, Length, Mutant
<1> QED
  BY <1>2, <1>6, <1>7

LEMMA NextIInv == IInv /\ [Next]_vars => IInv'
BY StartStep, SpawnStep, BaselineStep, WriteMutantStep, RestoreStep, JudgeStep, OutsideStep
DEF Next, Step

THEOREM MutationInvariant == Spec => []IInv
BY InitIInv, NextIInv, PTL DEF Spec

(* For any target, test suite, number of runs and interrupts, with or      *)
(* without a bytecode cache: a verdict is of its own mutant, or of a text  *)
(* of that length and of the same second (VerdictsAreOfTheirSecond).       *)
THEOREM VerdictsOfTheirSecond == Spec => []VerdictsAreOfTheirSecond
<1>1. IInv => VerdictsAreOfTheirSecond
  BY DEF IInv
<1> QED
  BY <1>1, MutationInvariant, PTL

(* ... and a report is returned only after the tests passed on the text    *)
(* read, as far as the cache tells, with every mutant in it once           *)
(* (ReportsAreMeaningful).                                                 *)
THEOREM ReportsMeaningful == Spec => []ReportsAreMeaningful
<1>1. IInv => ReportsAreMeaningful
  BY DEF IInv, Progress, ReportsAreMeaningful
<1> QED
  BY <1>1, MutationInvariant, PTL

(* The target is restored however a run ends (OriginalRestored).           *)
THEOREM TargetRestored == Spec => []OriginalRestored
<1>1. IInv => OriginalRestored
  BY DEF IInv, Placed, OriginalRestored
<1> QED
  BY <1>1, MutationInvariant, PTL
=============================================================================
