--------------------------- MODULE AdoptionProofs ---------------------------
(***************************************************************************)
(* Theorems about Adoption and the StopGate in it, for any agents: what an *)
(* unblocked end of a turn says, and whose files the scaffolders spare.    *)
(***************************************************************************)
EXTENDS Adoption, TLAPS

Contents == {"absent", "torn", "stub", "echo", "harness", "merged", "own"}
Mine == {"own", "merged"}
Looked == {"settings.json", "gate.sh"}   \* the names looked for before a write

TypeOK ==
  /\ files \in [Files -> Contents]
  /\ pc \in [Agents -> {"new", "stopped", "working", "gating", "tested", "errored"}]
  /\ active \in [Agents -> BOOLEAN]
  /\ green \in [Agents -> BOOLEAN]
  /\ seen \in [Agents -> Trees \cup Contents \cup {"nothing", "no gate"}]
  /\ tree \in Trees
  /\ job \in [force : BOOLEAN, at : {"end", "settings", "open", "fill", "gate"},
              dest : Files \cup {"none"}]

\* A tree that was green when a gate tested it, or is while one runs, has been
\* green since the agent tried to stop: edits of other agents are watched.
GreenInv == \A a \in Agents :
  /\ pc[a] = "gating" /\ tree = "green" => green[a]
  /\ pc[a] = "tested" /\ seen[a] = "green" => green[a]

\* The file a scaffolder is about to write is none of the operator's, unless it
\* takes that name without looking (settings.awh.json), was forced to, or he
\* wrote it since it was found missing.
DestInv ==
  job.at \in {"open", "fill"} =>
       /\ job.dest \in Files
       /\ ~raced /\ job.dest \in Looked /\ ~(job.force /\ job.dest = "settings.json")
            => files[job.dest] \notin Mine

IInv == TypeOK /\ GreenInv /\ UnblockedTurnsEndGreen /\ DestInv

\* What FoundFilesAreSpared says of a step.
Spares == \A f \in Looked : Spared(f)

-----------------------------------------------------------------------------
LEMMA IInvInit == AdoptInit => IInv
<1> SUFFICES ASSUME AdoptInit PROVE IInv
  OBVIOUS
<1>1. TypeOK
  BY DEF AdoptInit, Init, TypeOK, Idle, Contents
<1>2. GreenInv /\ UnblockedTurnsEndGreen /\ DestInv
  BY DEF AdoptInit, Init, GreenInv, UnblockedTurnsEndGreen, DestInv, Idle, Mine
<1>3. QED
  BY <1>1, <1>2 DEF IInv

LEMMA AgentStep ==
  ASSUME IInv, NEW a \in Agents, Agent(a), UNCHANGED <<job, raced>>
  PROVE  IInv' /\ Spares
<1>1. UNCHANGED files
  BY DEF Agent, Prompt, Edit, TryStop, GateTests, HookReturns, HookRaises, project
<1>2. TypeOK' /\ GreenInv' /\ UnblockedTurnsEndGreen'
  <2> USE DEF IInv, TypeOK, GreenInv, UnblockedTurnsEndGreen
  <2>1. CASE Prompt(a)
    BY <1>1, <2>1 DEF Prompt
  <2>2. CASE Edit(a)
    BY <1>1, <2>2 DEF Edit
  <2>3. CASE TryStop(a)
    BY <1>1, <2>3 DEF TryStop, AllowedUnchecked
  <2>4. CASE GateTests(a)
    <3>1. (IF env \/ files["gate.sh"] = "own" THEN tree ELSE files["gate.sh"])
            \in Trees \cup Contents
      BY DEF Files
    <3>2. TypeOK'
      BY <1>1, <2>4, <3>1 DEF GateTests
    <3>3. files["gate.sh"] # "green"
      BY DEF Files, Contents
    <3>4. seen'[a] = "green" => tree = "green"
      BY <2>4, <3>3 DEF GateTests
    <3>5. GreenInv'
      BY <1>1, <2>4, <3>4 DEF GateTests
    <3>6. UnblockedTurnsEndGreen'
      BY <1>1, <2>4 DEF GateTests
    <3>7. QED
      BY <3>2, <3>5, <3>6
  <2>5. CASE HookReturns(a)
    <3>1. CASE GatePasses(a)
      <4>1. /\ pc' = [pc EXCEPT ![a] = "stopped"] /\ UNCHANGED <<active, seen, green, tree>>
            /\ pc[a] = "tested" /\ seen[a] \in {"green", "torn", "echo"}
        BY <2>5, <3>1 DEF HookReturns, GatePasses
      <4>2. QED
        BY <1>1, <4>1
    <3>2. CASE ~GatePasses(a)
      <4>1. /\ pc' = [pc EXCEPT ![a] = "working"] /\ UNCHANGED tree
            /\ active' = [active EXCEPT ![a] = TRUE]
            /\ seen' = [seen EXCEPT ![a] = "nothing"]
            /\ green' = [green EXCEPT ![a] = FALSE]
        BY <2>5, <3>2 DEF HookReturns
      <4>2. QED
        BY <1>1, <4>1
    <3>3. QED
      BY <3>1, <3>2
  <2>6. CASE HookRaises(a)
    BY <1>1, <2>6 DEF HookRaises
  <2>7. QED
    BY <2>1, <2>2, <2>3, <2>4, <2>5, <2>6 DEF Agent
<1>3. DestInv' /\ Spares
  BY <1>1 DEF IInv, DestInv, Spares, Spared
<1>4. QED
  BY <1>2, <1>3 DEF IInv

\* The scaffolder, its start and its death, and the operator.
LEMMA ScaffoldStep ==
  ASSUME IInv, Scaffold \/ Scaffolder \/ Dies \/ Operator
  PROVE  IInv' /\ Spares
<1> USE DEF IInv
<1>1. UNCHANGED agents
  BY DEF Scaffold, Scaffolder, ChooseSettings, OpenFile, FillFile, SeedGate, Dies, Operator,
         WriteNext, agents, vars, project
<1>2. UnblockedTurnsEndGreen' /\ GreenInv'
  BY <1>1 DEF agents, UnblockedTurnsEndGreen, GreenInv
<1>3. /\ "settings.json" \in Files /\ "settings.awh.json" \in Files /\ "gate.sh" \in Files
      /\ Idle \in [force : BOOLEAN, at : {"end", "settings", "open", "fill", "gate"},
                   dest : Files \cup {"none"}]
      /\ Idle.at = "end"
  BY DEF Files, Idle
<1>4. CASE Scaffold \/ Dies
  <2>1. UNCHANGED files /\ job'.at \in {"end", "settings"}
        /\ job' \in [force : BOOLEAN, at : {"end", "settings", "open", "fill", "gate"},
                     dest : Files \cup {"none"}]
    BY <1>3, <1>4 DEF Scaffold, Dies, Goes, Idle, vars, project
  <2>2. QED
    BY <1>1, <1>2, <2>1 DEF TypeOK, agents, DestInv, Spares, Spared, Looked, Mine
<1>5. ASSUME NEW f \in {"settings.json", "settings.awh.json", "gate.sh"}, WriteNext(f),
             files[f] = "absent" \/ f = "settings.awh.json"
               \/ (job.force /\ f = "settings.json")
      PROVE  IInv' /\ Spares
  <2>1. UNCHANGED files /\ f \in Files
    BY <1>3, <1>5 DEF WriteNext, vars, project
  <2>2. /\ job' \in [force : BOOLEAN, at : {"end", "settings", "open", "fill", "gate"},
                     dest : Files \cup {"none"}]
        /\ job'.at = "open" /\ job'.dest = f /\ job'.force = job.force /\ raced' = raced
    BY <1>5, <2>1 DEF WriteNext, TypeOK
  <2>3. TypeOK'
    BY <1>1, <2>1, <2>2 DEF TypeOK, agents
  <2>4. DestInv' /\ Spares
    BY <1>5, <2>1, <2>2 DEF DestInv, Spares, Spared, Looked, Mine
  <2>5. QED
    BY <1>2, <2>3, <2>4
<1>6. CASE ChooseSettings
  BY <1>5, <1>6 DEF ChooseSettings, Exists
<1>7. CASE SeedGate
  <2>1. CASE Exists("gate.sh")
    <3>1. job' = Idle /\ UNCHANGED files
      BY <1>7, <2>1 DEF SeedGate, Goes, vars, project
    <3>2. QED
      BY <1>1, <1>2, <1>3, <3>1 DEF TypeOK, agents, DestInv, Spares, Spared, Looked, Mine
  <2>2. CASE ~Exists("gate.sh")
    BY <1>5, <1>7, <2>2 DEF SeedGate, Exists
  <2>3. QED
    BY <2>1, <2>2
<1>8. CASE OpenFile
  <2>1. /\ job.at = "open" /\ files' = [files EXCEPT ![job.dest] = "torn"]
        /\ UNCHANGED raced
        /\ job' \in [force : BOOLEAN, at : {"end", "settings", "open", "fill", "gate"},
                     dest : Files \cup {"none"}]
        /\ job'.at = "fill" /\ job'.dest = job.dest /\ job'.force = job.force
    BY <1>8 DEF OpenFile, TypeOK
  <2>2. job.dest \in Files
    BY <2>1 DEF DestInv
  <2>3. TypeOK'
    BY <1>1, <2>1, <2>2 DEF TypeOK, agents, Contents
  <2>4. files'[job.dest] = "torn" /\ \A f \in Files : f # job.dest => files'[f] = files[f]
    BY <2>1, <2>2 DEF TypeOK
  <2>5. DestInv' /\ Spares
    BY <1>3, <2>1, <2>2, <2>4 DEF DestInv, Spares, Spared, Looked, Mine
  <2>6. QED
    BY <1>2, <2>3, <2>5
<1>9. CASE FillFile
  <2>1. /\ job.at = "fill" /\ files' = [files EXCEPT ![job.dest] = Starter]
        /\ job'.at \in {"end", "gate"}
        /\ job' \in [force : BOOLEAN, at : {"end", "settings", "open", "fill", "gate"},
                     dest : Files \cup {"none"}]
    BY <1>3, <1>9 DEF FillFile, Goes, Idle
  <2>2. job.dest \in Files /\ Starter \in {"harness", "stub", "echo"}
    BY <2>1 DEF DestInv, Starter
  <2>3. TypeOK'
    BY <1>1, <2>1, <2>2 DEF TypeOK, agents, Contents
  <2>4. files'[job.dest] \notin Mine /\ \A f \in Files : f # job.dest => files'[f] = files[f]
    BY <2>1, <2>2 DEF TypeOK, Mine
  <2>5. DestInv' /\ Spares
    BY <1>3, <2>1, <2>2, <2>4 DEF DestInv, Spares, Spared, Looked, Mine
  <2>6. QED
    BY <1>2, <2>3, <2>5
<1>10. CASE Operator
  <2>1. PICK f \in Files, v \in Mine :
          /\ files' = [files EXCEPT ![f] = v] /\ raced' = (raced \/ job.dest = f)
          /\ UNCHANGED job
    BY <1>10 DEF Operator, Mine
  <2>2. /\ files'[f] \in Mine /\ f \in Files
        /\ \A g \in Files : g # f => files'[g] = files[g]
    BY <1>3, <2>1 DEF TypeOK
  <2>3. TypeOK'
    BY <1>1, <2>1, <2>2 DEF TypeOK, agents, Contents, Mine
  <2>4. DestInv' /\ Spares
    BY <1>3, <2>1, <2>2 DEF DestInv, Spares, Spared, Looked, Mine
  <2>5. QED
    BY <1>2, <2>3, <2>4
<1>11. QED
  BY <1>4, <1>6, <1>7, <1>8, <1>9, <1>10 DEF Scaffolder

LEMMA IInvNext == IInv /\ [AdoptNext]_allvars => IInv' /\ [Spares]_allvars
<1> SUFFICES ASSUME IInv, [AdoptNext]_allvars PROVE IInv' /\ [Spares]_allvars
  OBVIOUS
<1>1. CASE AdoptNext
  BY <1>1, AgentStep, ScaffoldStep DEF AdoptNext
<1>2. CASE UNCHANGED allvars
  BY <1>2 DEF allvars, vars, project, IInv, TypeOK, GreenInv, UnblockedTurnsEndGreen, DestInv
<1>3. QED
  BY <1>1, <1>2

THEOREM AdoptionInvariant == AdoptSpec => []IInv
BY IInvInit, IInvNext, PTL DEF AdoptSpec

\* UnblockedTurnsEndGreen, for any agents whose hooks overlap while scaffolders
\* and the operator write the hook's own files.
THEOREM UnblockedEndsAreGreen == AdoptSpec => []UnblockedTurnsEndGreen
<1>1. IInv => UnblockedTurnsEndGreen
  BY DEF IInv
<1>2. QED
  BY <1>1, AdoptionInvariant, PTL

\* FoundFilesAreSpared: no step of a scaffolder takes a file it looks for from
\* the operator, but the ones the property names.
THEOREM FilesAreSpared == AdoptSpec => FoundFilesAreSpared
<1>1. IInv /\ [AdoptNext]_allvars => [Spares]_allvars
  BY IInvNext
<1>2. [Spares]_allvars => [\A f \in {"settings.json", "gate.sh"} : Spared(f)]_allvars
  BY DEF Spares, Looked
<1>3. QED
  BY <1>1, <1>2, AdoptionInvariant, PTL DEF AdoptSpec, FoundFilesAreSpared
=============================================================================
