------------------------- MODULE MeasurementProofs -------------------------
(***************************************************************************)
(* Theorems about what is measured and scored.  EvalRunner, for any golden *)
(* tasks, seeds and checks: what a verdict means and what a timeout leaves *)
(* behind, whatever the commands and their children do.  EvalGate, for any *)
(* tasks, weights and tolerance and any sequence of changes: what landed.  *)
(* MaturityLedger, for any recorders and crashes: what can be read of the  *)
(* ledger.  Scoring, for any rubric, weights and answers of the judge.     *)
(***************************************************************************)
EXTENDS EvalRunner, EvalGate, MaturityLedger, Scoring,
        FiniteSetTheorems, SequenceTheorems, WellFoundedInduction, TLAPS

-----------------------------------------------------------------------------
(* EvalRunner.                                                             *)

\* What evaluate knows of the command it waits for: only it has a leader or a
\* holder of the pipe in its group, and a status means that its leader is gone.
WaitInv ==
  /\ running => ~Done
  /\ ~running => status = "none"
  /\ status # "none" => <<Current, "leader">> \notin alive

IInv == TypeOK /\ WaitInv /\ NoOverlap /\ TimedOutGroupsAreDead /\ PassIsExitZero

-----------------------------------------------------------------------------
LEMMA IInvInit == Init => IInv
<1> SUFFICES ASSUME Init PROVE IInv
  OBVIOUS
<1>1. TypeOK
  <2>1. Pending \in Verdicts /\ Nobody \in Origins
    BY DEF Pending, Verdicts, Origins
  <2>2. results \in [Tasks \X Seeds -> Verdicts] /\ dir \in [Tasks -> Origins]
    BY <2>1 DEF Init
  <2>3. task \in 1 .. NTasks + 1 /\ seed \in Seeds
    BY EvalRunnerAssumption DEF Init, Seeds
  <2>4. QED
    BY <2>2, <2>3 DEF Init, TypeOK, Phases
<1>2. WaitInv
  BY EvalRunnerAssumption DEF Init, WaitInv, Done
<1>3. NoOverlap /\ TimedOutGroupsAreDead /\ PassIsExitZero
  BY DEF Init, NoOverlap, TimedOutGroupsAreDead, PassIsExitZero, Pending
<1>4. QED
  BY <1>1, <1>2, <1>3 DEF IInv

-----------------------------------------------------------------------------
\* The step to the next seed or task stays in range, and so does the verdict.
LEMMA ReturnedTypes ==
  ASSUME TypeOK, ~Done, NEW rc, NEW end \in {"output", "timeout", "unstarted"},
         NEW phases \in SUBSET Phases, Returned(rc, end, phases)
  PROVE  /\ task' \in 1 .. NTasks + 1 /\ seed' \in Seeds /\ phase' \in Phases
         /\ phase' = "check" => task' \in Checked
         /\ results' \in [Tasks \X Seeds -> Verdicts]
         /\ lost' \subseteq Phases
<1>1. task \in Tasks /\ seed \in Seeds /\ Phases = {"cmd", "check"}
  BY EvalRunnerAssumption DEF TypeOK, Done, Tasks, Phases
<1>2. CASE phase = "cmd" /\ task \in Checked
  BY <1>1, <1>2 DEF Returned, TypeOK
<1>3. CASE ~(phase = "cmd" /\ task \in Checked)
  <2>1. task' \in 1 .. NTasks + 1 /\ seed' \in Seeds /\ phase' = "cmd" /\ lost' = {}
    BY <1>1, <1>3, EvalRunnerAssumption DEF Returned, Advance, Tasks, Seeds
  <2>2. dir[task] \in Origins /\ <<task, seed>> \in Origins /\ Nobody \in Origins
    BY <1>1 DEF TypeOK, Origins
  <2>3. Fail(end) \in Verdicts /\ \A s \in Origins : Pass(end, phases, s) \in Verdicts
    BY <2>2 DEF Fail, Pending, Pass, Verdicts, TypeOK
  <2>4. results' \in [Tasks \X Seeds -> Verdicts]
    <3>1. PICK v \in Verdicts : results' = [results EXCEPT ![<<task, seed>>] = v]
      BY <1>3, <2>2, <2>3 DEF Returned
    <3>2. results \in [Tasks \X Seeds -> Verdicts]
      BY DEF TypeOK
    <3>3. QED
      BY <3>1, <3>2
  <2>5. QED
    BY <1>1, <2>1, <2>4
<1>4. QED
  BY <1>2, <1>3

\* A command's return, in whichever way: no leader nor holder in a group is left,
\* and a pass is given for just the status 0 of a leader whose output has ended.
LEMMA ReturnedStep ==
  ASSUME IInv, ~Done, NEW rc, NEW end \in {"output", "timeout", "unstarted"},
         NEW phases \in SUBSET Phases, Returned(rc, end, phases),
         (rc = "0") = (status = "0" /\ end = "output"),
         alive' \subseteq alive, \A p \in alive' : p[2] \notin {"leader", "holder"},
         UNCHANGED dir, stragglers' = {}
  PROVE  IInv'
<1> USE DEF IInv
<1>1. running' = FALSE /\ raised' = FALSE /\ status' = "none"
  BY DEF Returned
<1>2. TypeOK'
  BY <1>1, ReturnedTypes DEF TypeOK
<1>3. WaitInv' /\ NoOverlap' /\ TimedOutGroupsAreDead'
  BY <1>1 DEF WaitInv, NoOverlap, TimedOutGroupsAreDead
<1>4. PassIsExitZero'
  <2>1. CASE UNCHANGED results
    BY <2>1 DEF PassIsExitZero
  <2>2. CASE rc # "0" /\ results' = [results EXCEPT ![<<task, seed>>] = Fail(end)]
    BY <2>2 DEF PassIsExitZero, Fail, Pending, TypeOK
  <2>3. ASSUME NEW s, rc = "0",
               results' = [results EXCEPT ![<<task, seed>>] = Pass(end, phases, s)]
        PROVE  PassIsExitZero'
    BY <2>3 DEF PassIsExitZero, Pass, TypeOK
  <2>4. QED
    BY <2>1, <2>2, <2>3 DEF Returned
<1>5. QED
  BY <1>2, <1>3, <1>4

\* A command whose output does not decode ends evaluate and leaves no verdict.
LEMMA RaisesStep ==
  ASSUME IInv, Raises, alive' \subseteq alive,
         \A p \in alive' : p[2] \notin {"leader", "holder"}, stragglers' = {}
  PROVE  IInv'
<1> USE DEF IInv, Raises
<1>1. TypeOK'
  BY DEF TypeOK
<1>2. WaitInv' /\ NoOverlap' /\ TimedOutGroupsAreDead' /\ PassIsExitZero'
  BY DEF WaitInv, NoOverlap, TimedOutGroupsAreDead, PassIsExitZero
<1>3. QED
  BY <1>1, <1>2

LEMMA LaunchStep == ASSUME IInv, Launch PROVE IInv'
<1> USE DEF IInv
<1>1. Current \in Groups
  BY EvalRunnerAssumption DEF Launch, Current, Groups, TypeOK, Tasks, Done
<1>2. TypeOK'
  BY <1>1 DEF Launch, TypeOK, Members
<1>3. WaitInv'
  BY DEF Launch, WaitInv, Current, Done
<1>4. NoOverlap'
  BY DEF Launch, NoOverlap, Current
<1>5. QED
  BY <1>2, <1>3, <1>4 DEF Launch, TimedOutGroupsAreDead, PassIsExitZero

LEMMA LaunchFailsStep == ASSUME IInv, LaunchFails PROVE IInv'
<1>1. /\ ~Done /\ ~running /\ Returned("127", "unstarted", lost \cup {phase})
      /\ UNCHANGED <<alive, dir, stragglers>>
  BY DEF LaunchFails
<1>2. lost \cup {phase} \in SUBSET Phases
  BY DEF IInv, TypeOK
<1>3. (\A p \in alive : p[2] \notin {"leader", "holder"}) /\ stragglers = {}
  BY <1>1 DEF IInv, NoOverlap, TimedOutGroupsAreDead
<1>4. QED
  BY <1>1, <1>2, <1>3, ReturnedStep

LEMMA LeaderExitsStep == ASSUME IInv, LeaderExits PROVE IInv'
<1> USE DEF IInv
<1>1. running
  BY DEF LeaderExits, NoOverlap
<1>2. TypeOK'
  BY DEF LeaderExits, TypeOK
<1>3. WaitInv'
  BY <1>1 DEF LeaderExits, WaitInv, Current, Done
<1>4. NoOverlap' /\ TimedOutGroupsAreDead' /\ PassIsExitZero'
  BY <1>1 DEF LeaderExits, NoOverlap, Current, TimedOutGroupsAreDead, PassIsExitZero
<1>5. QED
  BY <1>2, <1>3, <1>4

\* Once the leader has exited and the pipe is free, the group has neither.
LEMMA PipeIsFree ==
  ASSUME IInv, status # "none", ~Piping(Current, alive)
  PROVE  \A p \in alive : p[2] \notin {"leader", "holder"}
<1>1. SUFFICES ASSUME NEW p \in alive, p[2] \in {"leader", "holder"} PROVE FALSE
  OBVIOUS
<1>2. p[1] = Current /\ p \in Groups \X Members
  BY <1>1 DEF IInv, NoOverlap, TypeOK
<1>3. p = <<Current, "leader">> \/ p = <<Current, "holder">>
  BY <1>1, <1>2
<1>4. QED
  BY <1>1, <1>3 DEF IInv, WaitInv, Piping, Holders

LEMMA OutputEndsStep == ASSUME IInv, OutputEnds PROVE IInv'
<1>1. /\ running /\ status # "none" /\ ~Piping(Current, alive)
      /\ Returned(status, "output", lost) /\ UNCHANGED <<alive, dir, stragglers>>
  BY DEF OutputEnds
<1>2. ~Done /\ lost \in SUBSET Phases /\ stragglers = {}
  BY <1>1 DEF IInv, WaitInv, TypeOK, TimedOutGroupsAreDead
<1>3. QED
  BY <1>1, <1>2, PipeIsFree, ReturnedStep

LEMMA OutputUndecodableStep == ASSUME IInv, OutputUndecodable PROVE IInv'
<1>1. /\ status # "none" /\ ~Piping(Current, alive)
      /\ Raises /\ UNCHANGED <<alive, stragglers>>
  BY DEF OutputUndecodable
<1>2. stragglers = {}
  BY DEF IInv, TimedOutGroupsAreDead
<1>3. QED
  BY <1>1, <1>2, PipeIsFree, RaisesStep

\* A timeout leaves nothing of the group but what has left it.
LEMMA ExpireLeaves ==
  ASSUME IInv, Expire
  PROVE  /\ alive' \subseteq alive /\ stragglers' = {}
         /\ \A p \in alive' : p[2] \notin {"leader", "holder"}
<1>1. alive' \subseteq alive /\ stragglers = {}
  BY DEF Expire, KillTree, IInv, TimedOutGroupsAreDead
<1>2. \A p \in alive' : p[1] = Current => p[2] \in Daemons
  BY DEF Expire, KillTree
<1>3. stragglers' = {}
  BY <1>1, <1>2 DEF Expire, Living
<1>4. QED
  BY <1>1, <1>2, <1>3 DEF IInv, NoOverlap, Daemons

LEMMA TimeoutStep == ASSUME IInv, Timeout PROVE IInv'
<1>1. /\ running /\ Expire /\ Returned("124", "timeout", lost \cup {phase})
      /\ UNCHANGED dir
  BY DEF Timeout
<1>2. ~Done /\ lost \cup {phase} \in SUBSET Phases
  BY <1>1 DEF IInv, WaitInv, TypeOK
<1>3. QED
  BY <1>1, <1>2, ExpireLeaves, ReturnedStep

LEMMA TimeoutUndecodableStep == ASSUME IInv, TimeoutUndecodable PROVE IInv'
BY ExpireLeaves, RaisesStep DEF TimeoutUndecodable

LEMMA WorkStep == ASSUME IInv, Work PROVE IInv'
<1> USE DEF IInv
<1>1. TypeOK'
  <2>1. PICK p \in alive, d \in Workdirs : \E t \in d, o \in {Nobody, <<p[1][1], p[1][2]>>} :
            dir' = [dir EXCEPT ![t] = o]
    BY DEF Work
  <2>2. PICK t \in d, o \in {Nobody, <<p[1][1], p[1][2]>>} : dir' = [dir EXCEPT ![t] = o]
    BY <2>1
  <2>3. o \in Origins
    BY DEF TypeOK, Groups, Origins
  <2>4. dir' \in [Tasks -> Origins]
    BY <2>2, <2>3 DEF TypeOK
  <2>5. QED
    BY <2>4 DEF Work, TypeOK
<1>2. QED
  BY <1>1
  DEF Work, WaitInv, Current, Done, NoOverlap, TimedOutGroupsAreDead, PassIsExitZero

LEMMA ForkStep == ASSUME IInv, Fork PROVE IInv'
<1> USE DEF IInv
<1>1. /\ UNCHANGED <<task, seed, phase, running, raised, status, dir, results, lost, stragglers>>
      /\ running /\ <<Current, "leader">> \in alive
  BY DEF Fork, NoOverlap
<1>2. PICK m \in Members \ {"leader"} : alive' = alive \cup {<<Current, m>>}
  BY DEF Fork
<1>3. Current \in Groups
  BY <1>1 DEF TypeOK
<1>4. TypeOK'
  BY <1>1, <1>2, <1>3 DEF TypeOK
<1>5. WaitInv' /\ NoOverlap'
  BY <1>1, <1>2 DEF WaitInv, NoOverlap, Current, Done
<1>6. QED
  BY <1>1, <1>4, <1>5 DEF TimedOutGroupsAreDead, PassIsExitZero

LEMMA ChildExitsStep == ASSUME IInv, ChildExits PROVE IInv'
<1> USE DEF IInv
<1>1. /\ UNCHANGED <<task, seed, phase, running, raised, status, dir, results, lost>>
      /\ alive' \subseteq alive
  BY DEF ChildExits
<1>2. stragglers' = {}
  BY DEF ChildExits, Living, TimedOutGroupsAreDead
<1>3. QED
  BY <1>1, <1>2
  DEF TypeOK, WaitInv, Current, Done, NoOverlap, TimedOutGroupsAreDead, PassIsExitZero

LEMMA IInvNext == IInv /\ [Next]_vars => IInv'
<1> SUFFICES ASSUME IInv, [Next]_vars PROVE IInv'
  OBVIOUS
<1>1. CASE UNCHANGED vars
  BY <1>1
  DEF vars, IInv, TypeOK, WaitInv, Current, Done, NoOverlap, TimedOutGroupsAreDead,
      PassIsExitZero
<1>2. QED
  BY <1>1, LaunchStep, LaunchFailsStep, LeaderExitsStep, OutputEndsStep,
     OutputUndecodableStep, TimeoutStep, TimeoutUndecodableStep, WorkStep, ForkStep,
     ChildExitsStep DEF Next

-----------------------------------------------------------------------------
\* The inductive invariant, whose first part is type correctness.
THEOREM RunnerInvariant == Spec => []IInv
BY IInvInit, IInvNext, PTL DEF Spec

\* PassIsExitZero: for any tasks and seeds, a pass is an exit status 0 of the
\* scoring command's leader with the output at its end, and nothing else is.
THEOREM PassesAreExitZero == Spec => []PassIsExitZero
<1>1. IInv => PassIsExitZero
  BY DEF IInv
<1>2. QED
  BY <1>1, RunnerInvariant, PTL

\* CommandsRunAlone: whenever a command runs, the leaders and pipe holders of all
\* earlier ones are gone, and so is every process of one that timed out, but for
\* those that left its process group.
THEOREM CommandsNeverOverlap == Spec => []CommandsRunAlone
<1>1. IInv => CommandsRunAlone
  BY DEF IInv, CommandsRunAlone
<1>2. QED
  BY <1>1, RunnerInvariant, PTL

-----------------------------------------------------------------------------
(* Sums over finite sets.                                                  *)

\* Induction on the numbers, for a set instead of a formula.
LEMMA SetInduction ==
  ASSUME NEW T, 0 \in T, \A n \in Nat : n \in T => n + 1 \in T
  PROVE  \A n \in Nat : n \in T
<1> SUFFICES ASSUME Nat \ T # {}  PROVE FALSE
  OBVIOUS
<1>1. PICK n \in Nat \ T : \A m \in Nat \ T : <<m, n>> \notin OpToRel(<, Nat)
  BY NatLessThanWellFounded, WFMin
<1>2. n \in Nat /\ n \notin T /\ n # 0
  BY <1>1
<1>3. n - 1 \in Nat \ T
  <2>1. n - 1 \in Nat /\ (n - 1) + 1 = n
    BY <1>2
  <2>2. QED
    BY <1>2, <2>1
<1>4. <<n - 1, n>> \in OpToRel(<, Nat)
  BY <1>2, <1>3 DEF OpToRel
<1>5. QED
  BY <1>1, <1>3, <1>4

\* What MapThenSumSet computes of the weights w of S.
Pick(s) == CHOOSE x \in s : TRUE
IsSum(h, w, S) ==
  h = [s \in SUBSET S |-> IF s = {} THEN 0 ELSE w[Pick(s)] + h[s \ {Pick(s)}]]

LEMMA SmallerSubset ==
  ASSUME NEW S, IsFiniteSet(S), NEW s \in SUBSET S, s # {}
  PROVE  /\ Pick(s) \in s /\ s \ {Pick(s)} \in SUBSET S
         /\ Cardinality(s) \in Nat /\ Cardinality(s \ {Pick(s)}) \in Nat
         /\ Cardinality(s) = Cardinality(s \ {Pick(s)}) + 1
<1>1. Pick(s) \in s
  BY DEF Pick
<1>2. IsFiniteSet(s)
  BY FS_Subset
<1>3. /\ IsFiniteSet(s \ {Pick(s)})
      /\ Cardinality(s \ {Pick(s)}) = Cardinality(s) - 1
  BY <1>1, <1>2, FS_RemoveElement
<1>4. Cardinality(s) \in Nat /\ Cardinality(s \ {Pick(s)}) \in Nat
  BY <1>2, <1>3, FS_CardinalityType
<1>5. QED
  BY <1>1, <1>3, <1>4

LEMMA SumExists ==
  ASSUME NEW S, IsFiniteSet(S), NEW w \in [S -> Nat]
  PROVE  \E h : IsSum(h, w, S)
<1> DEFINE Upto(n) == {s \in SUBSET S : Cardinality(s) <= n}
           Body(h, s) == IF s = {} THEN 0 ELSE w[Pick(s)] + h[s \ {Pick(s)}]
           Partial(h, n) == h \in [Upto(n) -> Nat] /\ \A s \in Upto(n) : h[s] = Body(h, s)
           T == {n \in Nat : \E h : Partial(h, n)}
<1>1. \A s \in SUBSET S : Cardinality(s) \in Nat /\ (Cardinality(s) = 0 <=> s = {})
  BY FS_Subset, FS_CardinalityType, FS_EmptySet
<1>2. 0 \in T
  <2>1. Partial([s \in Upto(0) |-> 0], 0)
    BY <1>1
  <2>2. QED
    BY <2>1
<1>3. ASSUME NEW n \in Nat, n \in T  PROVE n + 1 \in T
  <2>1. PICK h : Partial(h, n)
    BY <1>3
  <2>2. \A s \in Upto(n + 1) : s # {} => Pick(s) \in S /\ s \ {Pick(s)} \in Upto(n)
    BY <1>1, SmallerSubset
  <2> DEFINE g == [s \in Upto(n + 1) |-> Body(h, s)]
  <2>3. g \in [Upto(n + 1) -> Nat]
    BY <2>1, <2>2
  <2>4. \A s \in Upto(n) : s \in Upto(n + 1) /\ g[s] = h[s]
    BY <1>1, <2>1
  <2>5. \A s \in Upto(n + 1) : g[s] = Body(g, s)
    BY <2>2, <2>4
  <2>6. Partial(g, n + 1)
    BY <2>3, <2>5
  <2> HIDE DEF g, Partial
  <2>7. QED
    BY <2>6
<1>4. Cardinality(S) \in Nat /\ \A s \in SUBSET S : Cardinality(s) <= Cardinality(S)
  BY FS_CardinalityType, FS_Subset
<1>5. Cardinality(S) \in T
  <2> HIDE DEF T
  <2> QED BY <1>2, <1>3, <1>4, SetInduction
<1>6. PICK h : Partial(h, Cardinality(S))
  BY <1>5
<1>7. Upto(Cardinality(S)) = SUBSET S
  BY <1>4
<1>8. QED
  BY <1>6, <1>7 DEF IsSum

LEMMA SumMonotone ==
  ASSUME NEW S, IsFiniteSet(S), NEW v \in [S -> Nat], NEW w \in [S -> Nat],
         NEW g, NEW h, IsSum(g, v, S), IsSum(h, w, S), \A x \in S : v[x] <= w[x]
  PROVE  g[S] \in Nat /\ h[S] \in Nat /\ g[S] <= h[S]
<1> DEFINE Good(s) == g[s] \in Nat /\ h[s] \in Nat /\ g[s] <= h[s]
           T == {n \in Nat : \A s \in SUBSET S : Cardinality(s) = n => Good(s)}
<1>1. \A s \in SUBSET S : Cardinality(s) \in Nat /\ (Cardinality(s) = 0 <=> s = {})
  BY FS_Subset, FS_CardinalityType, FS_EmptySet
<1>2. /\ g[{}] = 0 /\ h[{}] = 0
      /\ \A s \in SUBSET S : s # {} =>
           /\ g[s] = v[Pick(s)] + g[s \ {Pick(s)}]
           /\ h[s] = w[Pick(s)] + h[s \ {Pick(s)}]
  BY DEF IsSum
<1>3. 0 \in T
  <2>1. \A s \in SUBSET S : Cardinality(s) = 0 => s = {}
    BY <1>1
  <2>2. Good({})
    BY <1>2
  <2>3. QED
    BY <2>1, <2>2
<1>4. ASSUME NEW n \in Nat, n \in T  PROVE n + 1 \in T
  <2> SUFFICES ASSUME NEW s \in SUBSET S, Cardinality(s) = n + 1  PROVE Good(s)
    BY <1>4
  <2>1. /\ s # {} /\ Pick(s) \in S /\ s \ {Pick(s)} \in SUBSET S
        /\ Cardinality(s \ {Pick(s)}) = n
    BY <1>1, SmallerSubset
  <2>2. Good(s \ {Pick(s)})
    BY <1>4, <2>1
  <2>3. v[Pick(s)] \in Nat /\ w[Pick(s)] \in Nat /\ v[Pick(s)] <= w[Pick(s)]
    BY <2>1
  <2>4. /\ g[s] = v[Pick(s)] + g[s \ {Pick(s)}]
        /\ h[s] = w[Pick(s)] + h[s \ {Pick(s)}]
    BY <1>2, <2>1
  <2>5. QED
    BY <2>2, <2>3, <2>4
<1>5. Cardinality(S) \in T
  <2>1. Cardinality(S) \in Nat
    BY FS_CardinalityType
  <2> HIDE DEF T
  <2>2. QED
    BY <1>3, <1>4, <2>1, SetInduction
<1>6. QED
  BY <1>5

LEMMA SumNat ==
  ASSUME NEW S, IsFiniteSet(S), NEW w \in [S -> Nat], NEW h, IsSum(h, w, S)
  PROVE  h[S] \in Nat
<1>1. \A x \in S : w[x] <= w[x]
  OBVIOUS
<1>2. QED
  BY <1>1, SumMonotone

\* A sum of numbers is no less than each of them.
LEMMA SumAbove ==
  ASSUME NEW S, IsFiniteSet(S), NEW w \in [S -> Nat], NEW h, IsSum(h, w, S)
  PROVE  \A x \in S : w[x] <= h[S]
<1> DEFINE Good(s) == h[s] \in Nat /\ \A x \in s : w[x] <= h[s]
           T == {n \in Nat : \A s \in SUBSET S : Cardinality(s) = n => Good(s)}
<1>1. \A s \in SUBSET S : Cardinality(s) \in Nat /\ (Cardinality(s) = 0 <=> s = {})
  BY FS_Subset, FS_CardinalityType, FS_EmptySet
<1>2. /\ h[{}] = 0
      /\ \A s \in SUBSET S : s # {} => h[s] = w[Pick(s)] + h[s \ {Pick(s)}]
  BY DEF IsSum
<1>3. 0 \in T
  <2>1. \A s \in SUBSET S : Cardinality(s) = 0 => s = {}
    BY <1>1
  <2>2. Good({})
    BY <1>2
  <2>3. QED
    BY <2>1, <2>2
<1>4. ASSUME NEW n \in Nat, n \in T  PROVE n + 1 \in T
  <2> SUFFICES ASSUME NEW s \in SUBSET S, Cardinality(s) = n + 1  PROVE Good(s)
    BY <1>4
  <2>1. /\ s # {} /\ Pick(s) \in S /\ s \ {Pick(s)} \in SUBSET S
        /\ Cardinality(s \ {Pick(s)}) = n
    BY <1>1, SmallerSubset
  <2>2. Good(s \ {Pick(s)})
    BY <1>4, <2>1
  <2>3. h[s] = w[Pick(s)] + h[s \ {Pick(s)}] /\ w[Pick(s)] \in Nat
    BY <1>2, <2>1
  <2>4. ASSUME NEW x \in s  PROVE w[x] <= h[s]
    <3>1. CASE x = Pick(s)
      BY <2>2, <2>3, <3>1
    <3>2. CASE x # Pick(s)
      <4>1. w[x] <= h[s \ {Pick(s)}] /\ w[x] \in Nat
        BY <2>2, <3>2
      <4>2. QED
        BY <2>2, <2>3, <4>1
    <3>3. QED
      BY <3>1, <3>2
  <2>5. QED
    BY <2>2, <2>3, <2>4
<1>5. Cardinality(S) \in T
  <2>1. Cardinality(S) \in Nat
    BY FS_CardinalityType
  <2> HIDE DEF T
  <2>2. QED
    BY <1>3, <1>4, <2>1, SetInduction
<1>6. QED
  BY <1>5

LEMMA SumScaled ==
  ASSUME NEW S, IsFiniteSet(S), NEW w \in [S -> Nat], NEW v \in [S -> Nat], NEW m \in Nat,
         NEW g, NEW h, IsSum(g, v, S), IsSum(h, w, S), \A x \in S : v[x] = m * w[x]
  PROVE  g[S] = m * h[S]
<1> DEFINE Good(s) == g[s] \in Nat /\ h[s] \in Nat /\ g[s] = m * h[s]
           T == {n \in Nat : \A s \in SUBSET S : Cardinality(s) = n => Good(s)}
<1>1. \A s \in SUBSET S : Cardinality(s) \in Nat /\ (Cardinality(s) = 0 <=> s = {})
  BY FS_Subset, FS_CardinalityType, FS_EmptySet
<1>2. /\ g[{}] = 0 /\ h[{}] = 0
      /\ \A s \in SUBSET S : s # {} =>
           /\ g[s] = v[Pick(s)] + g[s \ {Pick(s)}]
           /\ h[s] = w[Pick(s)] + h[s \ {Pick(s)}]
  BY DEF IsSum
<1>3. 0 \in T
  <2>1. \A s \in SUBSET S : Cardinality(s) = 0 => s = {}
    BY <1>1
  <2>2. Good({})
    BY <1>2
  <2>3. QED
    BY <2>1, <2>2
<1>4. ASSUME NEW n \in Nat, n \in T  PROVE n + 1 \in T
  <2> SUFFICES ASSUME NEW s \in SUBSET S, Cardinality(s) = n + 1  PROVE Good(s)
    BY <1>4
  <2>1. /\ s # {} /\ Pick(s) \in S /\ s \ {Pick(s)} \in SUBSET S
        /\ Cardinality(s \ {Pick(s)}) = n
    BY <1>1, SmallerSubset
  <2>2. Good(s \ {Pick(s)})
    BY <1>4, <2>1
  <2>3. v[Pick(s)] = m * w[Pick(s)] /\ w[Pick(s)] \in Nat /\ v[Pick(s)] \in Nat
    BY <2>1
  <2>4. /\ g[s] = v[Pick(s)] + g[s \ {Pick(s)}]
        /\ h[s] = w[Pick(s)] + h[s \ {Pick(s)}]
    BY <1>2, <2>1
  <2>5. \A a, b \in Nat : m * (a + b) = m * a + m * b
    OBVIOUS
  <2>6. h[s] \in Nat /\ g[s] \in Nat
    BY <2>2, <2>3, <2>4
  <2>7. g[s] = m * h[s]
    BY <2>2, <2>3, <2>4, <2>5
  <2>8. QED
    BY <2>6, <2>7
<1>5. Cardinality(S) \in T
  <2>1. Cardinality(S) \in Nat
    BY FS_CardinalityType
  <2> HIDE DEF T
  <2>2. QED
    BY <1>3, <1>4, <2>1, SetInduction
<1>6. QED
  BY <1>5

LEMMA MinIs ==
  ASSUME NEW K \in SUBSET Nat, K # {}
  PROVE  \E m \in K : \A k \in K : m <= k
<1>1. PICK m \in K : \A k \in K : <<k, m>> \notin OpToRel(<, Nat)
  BY NatLessThanWellFounded, WFMin
<1>2. ASSUME NEW k \in K  PROVE m <= k
  <2>1. <<k, m>> \notin OpToRel(<, Nat) /\ k \in Nat /\ m \in Nat
    BY <1>1
  <2>2. ~(k < m)
    BY <2>1 DEF OpToRel
  <2>3. \A a, b \in Nat : ~(b < a) => a <= b
    OBVIOUS
  <2>4. QED
    BY <2>1, <2>2, <2>3
<1>3. QED
  BY <1>2

LEMMA MaxIs ==
  ASSUME NEW n \in Nat, NEW K \in SUBSET (0 .. n), K # {}
  PROVE  \E m \in K : \A k \in K : m >= k
<1> DEFINE D == {n - k : k \in K}
<1>1. \A k \in K : k \in Nat /\ n - k \in Nat
  OBVIOUS
<1>2. D \subseteq Nat
  BY <1>1
<1>3. D # {}
  OBVIOUS
<1> HIDE DEF D
<1>4. PICK d \in D : \A e \in D : d <= e
  BY <1>2, <1>3, MinIs
<1>5. PICK m \in K : d = n - m
  BY DEF D
<1>6. ASSUME NEW k \in K  PROVE m >= k
  <2>1. n - k \in D /\ n - k \in Nat /\ n - m \in Nat /\ m \in Nat /\ k \in Nat
    BY <1>1 DEF D
  <2>2. n - m <= n - k
    BY <1>4, <1>5, <2>1
  <2>3. QED
    BY <2>1, <2>2
<1>7. QED
  BY <1>6

LEMMA FunctionIsSeq ==
  ASSUME NEW S, NEW n \in Nat, NEW f \in [1 .. n -> S]
  PROVE  f \in Seq(S) /\ Len(f) = n
<1>1. f \in Seq(S)
  BY SeqDef
<1>2. Len(f) \in Nat /\ DOMAIN f = 1 .. Len(f) /\ DOMAIN f = 1 .. n
  BY <1>1, LenProperties
<1>3. QED
  BY <1>1, <1>2

-----------------------------------------------------------------------------
(* EvalGate.                                                               *)

WeightsOf(r) == [t \in DOMAIN r |-> r[t].weight]
PassesOf(r) == [t \in DOMAIN r |-> r[t].weight * r[t].passes]

LEMMA ReportType ==
  ASSUME NEW r \in Reports
  PROVE  /\ IsFiniteSet(DOMAIN r) /\ DOMAIN r \subseteq TaskIds
         /\ WeightsOf(r) \in [DOMAIN r -> Nat] /\ PassesOf(r) \in [DOMAIN r -> Nat]
         /\ \A t \in DOMAIN r : r[t].weight \in Nat /\ r[t].passes \in Nat
<1>1. IsFiniteSet(TaskIds)
  BY EvalGateAssumption
<1>2. PICK T \in SUBSET TaskIds : r \in [T -> Scores]
  BY DEF Reports
<1>3. \A t \in T : r[t].weight \in Nat /\ r[t].passes \in Nat
  <2>1. Weights \subseteq Nat /\ SeedCount \in Nat
    BY EvalGateAssumption
  <2>2. \A c \in Scores : c.weight \in Weights /\ c.passes \in 0 .. SeedCount
    BY DEF Scores
  <2>3. \A t \in T : r[t] \in Scores
    BY <1>2
  <2>4. \A t \in T : r[t].weight \in Weights /\ r[t].passes \in 0 .. SeedCount
    BY <2>2, <2>3
  <2>5. \A x \in 0 .. SeedCount : x \in Nat
    BY <2>1
  <2>6. \A t \in T : r[t].weight \in Nat
    BY <2>1, <2>4
  <2>7. QED
    BY <2>4, <2>5, <2>6
<1>4. \A t \in T : r[t].weight * r[t].passes \in Nat
  BY <1>3
<1>5. DOMAIN r = T /\ IsFiniteSet(T)
  BY <1>1, <1>2, FS_Subset
<1>6. QED
  BY <1>3, <1>4, <1>5 DEF WeightsOf, PassesOf

LEMMA WeightSumIs ==
  ASSUME NEW r \in Reports
  PROVE  \E h : IsSum(h, WeightsOf(r), DOMAIN r) /\ WeightSum(r) = h[DOMAIN r]
<1> DEFINE Eq(h) == h = [s \in SUBSET DOMAIN r |->
                          IF s = {} THEN 0
                          ELSE r[CHOOSE x \in s : TRUE].weight + h[s \ {CHOOSE x \in s : TRUE}]]
<1>1. \A h : Eq(h) <=> IsSum(h, WeightsOf(r), DOMAIN r)
  BY DEF IsSum, Pick, WeightsOf
<1>2. WeightSum(r) = (CHOOSE h : Eq(h))[DOMAIN r]
  BY DEF WeightSum, MapThenSumSet, MapThenFoldSet
<1> HIDE DEF Eq
<1>3. \E h : Eq(h)
  BY <1>1, ReportType, SumExists
<1>4. QED
  BY <1>1, <1>2, <1>3

LEMMA PassSumIs ==
  ASSUME NEW r \in Reports
  PROVE  \E h : IsSum(h, PassesOf(r), DOMAIN r) /\ PassSum(r) = h[DOMAIN r]
<1> DEFINE Eq(h) == h = [s \in SUBSET DOMAIN r |->
                          IF s = {} THEN 0
                          ELSE r[CHOOSE x \in s : TRUE].weight * r[CHOOSE x \in s : TRUE].passes
                                 + h[s \ {CHOOSE x \in s : TRUE}]]
<1>1. \A h : Eq(h) <=> IsSum(h, PassesOf(r), DOMAIN r)
  BY DEF IsSum, Pick, PassesOf
<1>2. PassSum(r) = (CHOOSE h : Eq(h))[DOMAIN r]
  BY DEF PassSum, MapThenSumSet, MapThenFoldSet
<1> HIDE DEF Eq
<1>3. \E h : Eq(h)
  BY <1>1, ReportType, SumExists
<1>4. QED
  BY <1>1, <1>2, <1>3

LEMMA SumTypes ==
  ASSUME NEW r \in Reports
  PROVE  WeightSum(r) \in Nat /\ PassSum(r) \in Nat
<1>1. PICK g : IsSum(g, WeightsOf(r), DOMAIN r) /\ WeightSum(r) = g[DOMAIN r]
  BY WeightSumIs
<1>2. PICK h : IsSum(h, PassesOf(r), DOMAIN r) /\ PassSum(r) = h[DOMAIN r]
  BY PassSumIs
<1>3. /\ IsFiniteSet(DOMAIN r)
      /\ WeightsOf(r) \in [DOMAIN r -> Nat] /\ PassesOf(r) \in [DOMAIN r -> Nat]
  BY ReportType
<1>4. /\ \A x \in DOMAIN r : WeightsOf(r)[x] <= WeightsOf(r)[x]
      /\ \A x \in DOMAIN r : PassesOf(r)[x] <= PassesOf(r)[x]
  BY <1>3
<1>5. g[DOMAIN r] \in Nat
  BY <1>1, <1>3, <1>4, SumMonotone
<1>6. h[DOMAIN r] \in Nat
  BY <1>2, <1>3, <1>4, SumMonotone
<1>7. QED
  BY <1>1, <1>2, <1>5, <1>6

LEMMA SumsOfImprovement ==
  ASSUME NEW r \in Reports, NEW q \in Reports,
         DOMAIN q = DOMAIN r,
         \A t \in DOMAIN r : q[t].weight = r[t].weight /\ q[t].passes >= r[t].passes
  PROVE  WeightSum(q) = WeightSum(r) /\ PassSum(r) <= PassSum(q)
<1>1. PICK g : IsSum(g, WeightsOf(r), DOMAIN r) /\ WeightSum(r) = g[DOMAIN r]
  BY WeightSumIs
<1>2. PICK h : IsSum(h, WeightsOf(q), DOMAIN r) /\ WeightSum(q) = h[DOMAIN r]
  BY WeightSumIs
<1>3. PICK i : IsSum(i, PassesOf(r), DOMAIN r) /\ PassSum(r) = i[DOMAIN r]
  BY PassSumIs
<1>4. PICK j : IsSum(j, PassesOf(q), DOMAIN r) /\ PassSum(q) = j[DOMAIN r]
  BY PassSumIs
<1>5. /\ IsFiniteSet(DOMAIN r)
      /\ WeightsOf(r) \in [DOMAIN r -> Nat] /\ PassesOf(r) \in [DOMAIN r -> Nat]
      /\ WeightsOf(q) \in [DOMAIN r -> Nat] /\ PassesOf(q) \in [DOMAIN r -> Nat]
  BY ReportType
<1>6. \A x \in DOMAIN r :
        /\ r[x].weight \in Nat /\ r[x].passes \in Nat /\ q[x].passes \in Nat
        /\ WeightsOf(q)[x] = WeightsOf(r)[x] /\ WeightsOf(r)[x] \in Nat
        /\ PassesOf(r)[x] = r[x].weight * r[x].passes
        /\ PassesOf(q)[x] = r[x].weight * q[x].passes
  BY ReportType DEF WeightsOf, PassesOf
<1>7. \A a, b, c \in Nat : b <= c => a * b <= a * c
  OBVIOUS
<1>8. \A x \in DOMAIN r :
        /\ WeightsOf(q)[x] <= WeightsOf(r)[x] /\ WeightsOf(r)[x] <= WeightsOf(q)[x]
        /\ PassesOf(r)[x] <= PassesOf(q)[x]
  BY <1>6, <1>7
<1>9. /\ g[DOMAIN r] \in Nat /\ h[DOMAIN r] \in Nat
      /\ g[DOMAIN r] <= h[DOMAIN r]
  BY <1>1, <1>2, <1>5, <1>8, SumMonotone
<1>10. h[DOMAIN r] <= g[DOMAIN r]
  BY <1>1, <1>2, <1>5, <1>8, SumMonotone
<1>11. i[DOMAIN r] <= j[DOMAIN r]
  BY <1>3, <1>4, <1>5, <1>8, SumMonotone
<1>12. QED
  BY <1>1, <1>2, <1>3, <1>4, <1>9, <1>10, <1>11

-----------------------------------------------------------------------------
\* Every captured task was at most one tolerance lower at each capture since its
\* first, and what has landed is within the gate of the last one.
DriftInv ==
  /\ marks \in [DOMAIN baseline -> [passes : Nat, age : Nat]]
  /\ \A t \in DOMAIN baseline :
        baseline[t].passes + marks[t].age * MaxRegression >= marks[t].passes
  /\ \A t \in DOMAIN main : ~Regresses(t, main, baseline)

FloorInv ==
  /\ main \in Reports /\ baseline \in Reports
  /\ ~SameFile => DriftInv

LEMMA PassesAreNat ==
  ASSUME NEW r \in Reports
  PROVE  \A t \in DOMAIN r : r[t].passes \in Nat
BY ReportType

\* A report captured for the first time starts without a drift.
LEMMA FreshIs ==
  ASSUME NEW r \in Reports, NEW t \in DOMAIN r
  PROVE  /\ Fresh(r[t]) \in [passes : Nat, age : Nat]
         /\ r[t].passes + Fresh(r[t]).age * MaxRegression >= Fresh(r[t]).passes
<1>1. r[t].passes \in Nat /\ MaxRegression \in Nat /\ 0 * MaxRegression = 0
  BY PassesAreNat, EvalGateAssumption
<1>2. QED
  BY <1>1 DEF Fresh

LEMMA DriftInvInit == GateInit => FloorInv
<1> SUFFICES ASSUME GateInit PROVE FloorInv
  OBVIOUS
<1>1. main \in Reports /\ baseline = main
  BY DEF GateInit
<1>2. marks \in [DOMAIN baseline -> [passes : Nat, age : Nat]]
  BY <1>1, FreshIs DEF GateInit
<1>3. \A t \in DOMAIN baseline :
         baseline[t].passes + marks[t].age * MaxRegression >= marks[t].passes
  BY <1>1, FreshIs DEF GateInit
<1>4. \A t \in DOMAIN main : ~Regresses(t, main, baseline)
  BY <1>1, PassesAreNat, EvalGateAssumption DEF Regresses
<1>5. QED
  BY <1>1, <1>2, <1>3, <1>4 DEF FloorInv, DriftInv

\* A task that was captured before has one capture more behind it.
LEMMA RefreshStep ==
  ASSUME FloorInv, DriftInv, NEW r \in Reports, Refresh(r)
  PROVE  DriftInv'
<1>1. /\ baseline' = r /\ main' = r
      /\ main \in Reports /\ baseline \in Reports /\ MaxRegression \in Nat
  BY EvalGateAssumption DEF Refresh, FloorInv
<1>2. \A t \in DOMAIN r : r[t].passes \in Nat
  BY PassesAreNat
<1>3. ASSUME NEW t \in DOMAIN r
      PROVE  /\ marks'[t] \in [passes : Nat, age : Nat]
             /\ r[t].passes + marks'[t].age * MaxRegression >= marks'[t].passes
  <2>1. CASE t \in DOMAIN main \cap DOMAIN marks
    <3>1. /\ marks'[t] = [marks[t] EXCEPT !.age = marks[t].age + 1]
          /\ r[t].passes = main[t].passes
      BY <2>1 DEF Refresh
    <3>2. marks[t] \in [passes : Nat, age : Nat] /\ t \in DOMAIN baseline
      BY <2>1 DEF DriftInv
    <3>3. /\ marks'[t] \in [passes : Nat, age : Nat]
          /\ marks'[t].passes = marks[t].passes /\ marks'[t].age = marks[t].age + 1
      BY <3>1, <3>2
    <3>4. baseline[t].passes - main[t].passes <= MaxRegression
      BY <1>1, <2>1, <3>2, PassesAreNat DEF DriftInv, Regresses
    <3>5. baseline[t].passes + marks[t].age * MaxRegression >= marks[t].passes
      BY <3>2 DEF DriftInv
    <3>6. ASSUME NEW a \in Nat, NEW M \in Nat
          PROVE  (a + 1) * M = a * M + M /\ a * M \in Nat
      OBVIOUS
    <3>7. /\ marks[t].age \in Nat /\ marks[t].passes \in Nat
          /\ baseline[t].passes \in Nat /\ main[t].passes \in Nat
      BY <1>1, <2>1, <3>2, PassesAreNat
    <3>8. /\ (marks[t].age + 1) * MaxRegression = marks[t].age * MaxRegression + MaxRegression
          /\ marks[t].age * MaxRegression \in Nat
      BY <1>1, <3>6, <3>7
    <3>9. main[t].passes + (marks[t].age * MaxRegression + MaxRegression) >= marks[t].passes
      BY <1>1, <3>4, <3>5, <3>7, <3>8
    <3>10. QED
      BY <3>1, <3>3, <3>8, <3>9
  <2>2. CASE t \notin DOMAIN main \cap DOMAIN marks
    BY <2>2, FreshIs DEF Refresh
  <2>3. QED
    BY <2>1, <2>2
<1>4. marks' \in [DOMAIN r -> [passes : Nat, age : Nat]]
  <2>1. marks' = [t \in DOMAIN r |-> marks'[t]]
    BY DEF Refresh
  <2>2. QED
    BY <1>3, <2>1
<1>5. \A t \in DOMAIN r : ~Regresses(t, r, r)
  BY <1>1, <1>2 DEF Regresses
<1>6. QED
  BY <1>1, <1>3, <1>4, <1>5 DEF DriftInv

LEMMA GateStep ==
  ASSUME FloorInv, NEW r \in Reports, Gate(r)
  PROVE  FloorInv'
<1>1. main' \in Reports /\ baseline' \in Reports
  BY DEF FloorInv, Gate
<1>2. ASSUME ~SameFile  PROVE DriftInv'
  <2>1. baseline' = baseline /\ marks' = marks /\ DriftInv
    BY <1>2 DEF FloorInv, Gate
  <2>2. main' = main \/ (main' = r /\ GatePasses(r, baseline))
    BY <2>1 DEF Gate
  <2>3. \A t \in DOMAIN main' : ~Regresses(t, main', baseline)
    BY <2>1, <2>2 DEF DriftInv, GatePasses
  <2>4. QED
    BY <2>1, <2>3 DEF DriftInv, Regresses
<1>3. QED
  BY <1>1, <1>2 DEF FloorInv

LEMMA FloorInvHolds == GateSpec => []FloorInv
<1>1. FloorInv /\ [GateNext]_gateVars => FloorInv'
  <2> SUFFICES ASSUME FloorInv, [GateNext]_gateVars PROVE FloorInv'
    OBVIOUS
  <2>1. CASE UNCHANGED gateVars
    BY <2>1 DEF FloorInv, DriftInv, Regresses, gateVars
  <2>2. ASSUME NEW r \in Reports, Refresh(r)  PROVE FloorInv'
    BY <2>2, RefreshStep DEF FloorInv, Refresh
  <2>3. QED
    BY <2>1, <2>2, GateStep DEF GateNext
<1>2. QED
  BY <1>1, DriftInvInit, PTL DEF GateSpec

\* gate(): however many changes land and however often a new baseline is captured,
\* no task drifts by more than one tolerance for each capture, and one more.
\* With --out on the baseline's own file this is false (EvalGateClaims).
THEOREM DriftsAreBounded ==
  ASSUME ~SameFile
  PROVE  GateSpec => []DriftIsBounded
<1>1. ASSUME FloorInv  PROVE DriftIsBounded
  <2>1. SUFFICES ASSUME NEW t \in DOMAIN main
                 PROVE  /\ t \in DOMAIN marks
                        /\ main[t].passes >= marks[t].passes - (marks[t].age + 1) * MaxRegression
    BY DEF DriftIsBounded
  <2>2. /\ DriftInv /\ main \in Reports /\ baseline \in Reports /\ MaxRegression \in Nat
        /\ t \in DOMAIN baseline /\ baseline[t].passes - main[t].passes <= MaxRegression
    BY <1>1, PassesAreNat, EvalGateAssumption DEF FloorInv, DriftInv, Regresses
  <2>3. /\ marks[t].passes \in Nat /\ marks[t].age \in Nat
        /\ main[t].passes \in Nat /\ baseline[t].passes \in Nat
        /\ baseline[t].passes + marks[t].age * MaxRegression >= marks[t].passes
    BY <2>2, PassesAreNat DEF DriftInv
  <2>4. ASSUME NEW a \in Nat, NEW M \in Nat
        PROVE  (a + 1) * M = a * M + M /\ a * M \in Nat
    OBVIOUS
  <2>5. /\ (marks[t].age + 1) * MaxRegression = marks[t].age * MaxRegression + MaxRegression
        /\ marks[t].age * MaxRegression \in Nat
    BY <2>2, <2>3, <2>4
  <2>6. QED
    BY <2>2, <2>3, <2>5 DEF DriftInv
<1>2. QED
  BY <1>1, FloorInvHolds, PTL

\* gate() refuses no report with the tasks and weights of the baseline that is
\* nowhere worse, whatever the baseline file has become.
THEOREM ImprovementsAreNotBlocked == GateSpec => []ImprovementsPass
<1>1. ASSUME NEW M \in Nat, NEW P \in Nat, NEW W \in Nat, NEW Q \in Nat, Q <= P
      PROVE  ~(Q * W - P * W > M * W * W)
  <2>1. Q * W \in Nat /\ P * W \in Nat /\ M * W \in Nat /\ Q * W <= P * W
    BY <1>1
  <2>2. (M * W) * W \in Nat
    BY <2>1
  <2>3. QED
    BY <2>1, <2>2
<1>2. ASSUME FloorInv, NEW r \in Reports, DOMAIN r = DOMAIN baseline,
             \A t \in DOMAIN r : /\ r[t].weight = baseline[t].weight
                                 /\ r[t].passes >= baseline[t].passes
      PROVE  GatePasses(r, baseline)
  <2>1. baseline \in Reports /\ MaxRegression \in Nat
    BY <1>2, EvalGateAssumption DEF FloorInv
  <2>2. \A t \in DOMAIN r : r[t].passes \in Nat /\ baseline[t].passes \in Nat
    BY <1>2, <2>1, ReportType
  <2>3. \A t \in DOMAIN r : ~Regresses(t, r, baseline)
    BY <1>2, <2>1, <2>2 DEF Regresses
  <2>4. WeightSum(r) = WeightSum(baseline) /\ PassSum(baseline) <= PassSum(r)
    BY <1>2, <2>1, SumsOfImprovement
  <2>5. /\ WeightSum(baseline) \in Nat /\ PassSum(baseline) \in Nat
        /\ PassSum(r) \in Nat
    BY <2>1, SumTypes
  <2>6. ~AggregateRegressed(r, baseline)
    BY <1>1, <2>1, <2>4, <2>5 DEF AggregateRegressed
  <2>7. QED
    BY <2>3, <2>6 DEF GatePasses
<1>3. FloorInv => ImprovementsPass
  BY <1>2 DEF ImprovementsPass
<1>4. QED
  BY <1>3, FloorInvHolds, PTL

-----------------------------------------------------------------------------
(* EvalGate: pass@k and pass^k.                                            *)

\* What ProductOver computes of the factors w of S, for some order of picking.
IsProduct(h, w, S) ==
  h = [s \in SUBSET S |-> IF s = {} THEN 1 ELSE h[s \ {Pick(s)}] * w[Pick(s)]]

LEMMA ProductExists ==
  ASSUME NEW S, IsFiniteSet(S), NEW w \in [S -> Int]
  PROVE  \E h : IsProduct(h, w, S)
<1> DEFINE Upto(n) == {s \in SUBSET S : Cardinality(s) <= n}
           Body(h, s) == IF s = {} THEN 1 ELSE h[s \ {Pick(s)}] * w[Pick(s)]
           Partial(h, n) == h \in [Upto(n) -> Int] /\ \A s \in Upto(n) : h[s] = Body(h, s)
           T == {n \in Nat : \E h : Partial(h, n)}
<1>1. \A s \in SUBSET S : Cardinality(s) \in Nat /\ (Cardinality(s) = 0 <=> s = {})
  BY FS_Subset, FS_CardinalityType, FS_EmptySet
<1>2. 0 \in T
  <2>1. Partial([s \in Upto(0) |-> 1], 0)
    BY <1>1
  <2>2. QED
    BY <2>1
<1>3. ASSUME NEW n \in Nat, n \in T  PROVE n + 1 \in T
  <2>1. PICK h : Partial(h, n)
    BY <1>3
  <2>2. \A s \in Upto(n + 1) : s # {} => Pick(s) \in S /\ s \ {Pick(s)} \in Upto(n)
    BY <1>1, SmallerSubset
  <2> DEFINE g == [s \in Upto(n + 1) |-> Body(h, s)]
  <2>3. g \in [Upto(n + 1) -> Int]
    BY <2>1, <2>2
  <2>4. \A s \in Upto(n) : s \in Upto(n + 1) /\ g[s] = h[s]
    BY <1>1, <2>1
  <2>5. \A s \in Upto(n + 1) : g[s] = Body(g, s)
    BY <2>2, <2>4
  <2>6. Partial(g, n + 1)
    BY <2>3, <2>5
  <2> HIDE DEF g, Partial
  <2>7. QED
    BY <2>6
<1>4. Cardinality(S) \in Nat /\ \A s \in SUBSET S : Cardinality(s) <= Cardinality(S)
  BY FS_CardinalityType, FS_Subset
<1>5. Cardinality(S) \in T
  <2> HIDE DEF T
  <2> QED BY <1>2, <1>3, <1>4, SetInduction
<1>6. PICK h : Partial(h, Cardinality(S))
  BY <1>5
<1>7. Upto(Cardinality(S)) = SUBSET S
  BY <1>4
<1>8. QED
  BY <1>6, <1>7 DEF IsProduct

LEMMA SubsetWithout ==
  ASSUME NEW S, IsFiniteSet(S), NEW s \in SUBSET S, NEW x \in s
  PROVE  /\ s \ {x} \in SUBSET S /\ Cardinality(s \ {x}) \in Nat
         /\ Cardinality(s) = Cardinality(s \ {x}) + 1
<1>1. IsFiniteSet(s) /\ IsFiniteSet(s \ {x}) /\ Cardinality(s \ {x}) = Cardinality(s) - 1
  BY FS_Subset, FS_RemoveElement
<1>2. Cardinality(s) \in Nat /\ Cardinality(s \ {x}) \in Nat
  BY <1>1, FS_CardinalityType
<1>3. QED
  BY <1>1, <1>2

\* Whatever element is taken out first, the product is the same.
AnyFirst(h, w, s) == h[s] \in Int /\ \A x \in s : h[s] = h[s \ {x}] * w[x]

LEMMA ProductWithout ==
  ASSUME NEW S, IsFiniteSet(S), NEW w \in [S -> Int], NEW h, IsProduct(h, w, S)
  PROVE  \A s \in SUBSET S : AnyFirst(h, w, s)
<1> DEFINE Good(s) == h[s] \in Int /\ \A x \in s : h[s] = h[s \ {x}] * w[x]
           T == {n \in Nat : \A s \in SUBSET S : Cardinality(s) <= n => Good(s)}
<1>1. \A s \in SUBSET S : Cardinality(s) \in Nat /\ (Cardinality(s) = 0 <=> s = {})
  BY FS_Subset, FS_CardinalityType, FS_EmptySet
<1>2. /\ h[{}] = 1
      /\ \A s \in SUBSET S : s # {} => h[s] = h[s \ {Pick(s)}] * w[Pick(s)]
  BY DEF IsProduct
<1>3. 0 \in T
  <2>1. \A s \in SUBSET S : Cardinality(s) <= 0 => s = {}
    BY <1>1
  <2>2. Good({})
    BY <1>2
  <2>3. QED
    BY <2>1, <2>2
<1>4. ASSUME NEW n \in Nat, n \in T  PROVE n + 1 \in T
  <2>1. \A u \in SUBSET S : Cardinality(u) <= n => Good(u)
    BY <1>4
  <2>2. ASSUME NEW s \in SUBSET S, Cardinality(s) = n + 1  PROVE Good(s)
    <3> DEFINE p == Pick(s)
    <3>1. s # {} /\ p \in s /\ h[s] = h[s \ {p}] * w[p] /\ w[p] \in Int
      BY <1>1, <1>2, <2>2, SmallerSubset
    <3> HIDE DEF p
    <3>2. ASSUME NEW x \in s  PROVE s \ {x} \in SUBSET S /\ Good(s \ {x})
      <4>1. Cardinality(s \ {x}) \in Nat /\ Cardinality(s) = Cardinality(s \ {x}) + 1
        BY SubsetWithout
      <4>2. Cardinality(s \ {x}) <= n /\ s \ {x} \in SUBSET S
        BY <2>2, <4>1
      <4> HIDE DEF Good, T
      <4>3. QED
        BY <2>1, <4>2
    <3>3. ASSUME NEW x \in s, x # p  PROVE h[s] = h[s \ {x}] * w[x]
      <4> DEFINE u == (s \ {p}) \ {x}
      <4>1. u = (s \ {x}) \ {p} /\ u \in SUBSET S /\ x \in s \ {p} /\ p \in s \ {x}
        BY <3>1, <3>3
      <4>2. h[u] \in Int
        <5>1. /\ Cardinality(s) = Cardinality(s \ {p}) + 1 /\ Cardinality(s \ {p}) \in Nat
              /\ Cardinality(s \ {p}) = Cardinality(u) + 1 /\ Cardinality(u) \in Nat
          BY <3>1, <4>1, SubsetWithout
        <5>2. Cardinality(u) <= n
          BY <2>2, <5>1
        <5> HIDE DEF u
        <5>3. QED
          BY <2>1, <4>1, <5>2
      <4>3. h[s \ {p}] = h[u] * w[x] /\ h[s \ {x}] = h[u] * w[p] /\ w[x] \in Int
        BY <3>1, <3>2, <4>1
      <4> HIDE DEF u
      <4>4. \A a, b, d \in Int : (a * b) * d = (a * d) * b
        OBVIOUS
      <4>5. QED
        BY <3>1, <4>2, <4>3, <4>4
    <3>4. h[s] \in Int
      <4>1. h[s \ {p}] \in Int
        BY <3>1, <3>2
      <4>2. \A a, b \in Int : a * b \in Int
        OBVIOUS
      <4>3. QED
        BY <3>1, <4>1, <4>2
    <3>5. QED
      BY <3>1, <3>3, <3>4
  <2>3. ASSUME NEW s \in SUBSET S, Cardinality(s) <= n + 1  PROVE Good(s)
    <3>1. Cardinality(s) <= n \/ Cardinality(s) = n + 1
      BY <1>1, <2>3
    <3> HIDE DEF Good
    <3>2. QED
      BY <2>1, <2>2, <3>1
  <2> HIDE DEF Good
  <2>4. QED
    BY <2>3
<1>5. ASSUME NEW s \in SUBSET S  PROVE Good(s)
  <2>1. Cardinality(s) \in Nat /\ Cardinality(s) <= Cardinality(s)
    BY <1>1
  <2>2. Cardinality(s) \in T
    <3> HIDE DEF T
    <3> QED BY <1>3, <1>4, <2>1, SetInduction
  <2> HIDE DEF Good
  <2>3. QED
    BY <2>1, <2>2
<1>6. QED
  BY <1>5 DEF AnyFirst

\* The product depends on the factors of its own set only.
LEMMA ProductUnique ==
  ASSUME NEW S, IsFiniteSet(S), NEW R \in SUBSET S,
         NEW w \in [S -> Int], NEW v \in [R -> Int], \A x \in R : v[x] = w[x],
         NEW h, IsProduct(h, w, S), NEW g, IsProduct(g, v, R)
  PROVE  \A s \in SUBSET R : g[s] = h[s]
<1> DEFINE T == {n \in Nat : \A s \in SUBSET R : Cardinality(s) = n => g[s] = h[s]}
<1>1. \A s \in SUBSET R : Cardinality(s) \in Nat /\ (Cardinality(s) = 0 <=> s = {})
  BY FS_Subset, FS_CardinalityType, FS_EmptySet
<1>2. /\ g[{}] = 1 /\ h[{}] = 1
      /\ \A s \in SUBSET R : s # {} => /\ g[s] = g[s \ {Pick(s)}] * v[Pick(s)]
                                       /\ h[s] = h[s \ {Pick(s)}] * w[Pick(s)]
  BY DEF IsProduct
<1>3. 0 \in T
  BY <1>1, <1>2
<1>4. ASSUME NEW n \in Nat, n \in T  PROVE n + 1 \in T
  <2> SUFFICES ASSUME NEW s \in SUBSET R, Cardinality(s) = n + 1  PROVE g[s] = h[s]
    OBVIOUS
  <2>1. /\ s # {} /\ Pick(s) \in R /\ s \ {Pick(s)} \in SUBSET R
        /\ Cardinality(s \ {Pick(s)}) = n
    BY <1>1, FS_Subset, SmallerSubset
  <2>2. g[s \ {Pick(s)}] = h[s \ {Pick(s)}]
    BY <1>4, <2>1
  <2>3. QED
    BY <1>2, <2>1, <2>2
<1>5. ASSUME NEW s \in SUBSET R  PROVE g[s] = h[s]
  <2>1. Cardinality(s) \in Nat
    BY <1>1
  <2>2. Cardinality(s) \in T
    <3> HIDE DEF T
    <3> QED BY <1>3, <1>4, <2>1, SetInduction
  <2>3. QED
    BY <2>2
<1>6. QED
  BY <1>5

-----------------------------------------------------------------------------
\* What ProductOver(k, ...) is for a function of factors.
IsProductTo(p, k, w) == \E h : IsProduct(h, w, 0 .. k - 1) /\ p = h[0 .. k - 1]

LastFactor(p, q, f) == q \in Int /\ p = q * f

LEMMA ProductLaw ==
  ASSUME NEW S, IsFiniteSet(S), NEW x \in S,
         NEW w \in [S -> Int], NEW v \in [S \ {x} -> Int], \A y \in S \ {x} : v[y] = w[y],
         NEW h, IsProduct(h, w, S), NEW g, IsProduct(g, v, S \ {x})
  PROVE  LastFactor(h[S], g[S \ {x}], w[x])
<1>1. S \ {x} \in SUBSET S /\ S \in SUBSET S /\ S \ {x} \in SUBSET (S \ {x})
  OBVIOUS
<1>2. g[S \ {x}] = h[S \ {x}]
  BY <1>1, ProductUnique
<1>3. AnyFirst(h, w, S) /\ AnyFirst(h, w, S \ {x})
  BY <1>1, ProductWithout
<1>4. QED
  BY <1>2, <1>3 DEF AnyFirst, LastFactor

LEMMA ProductToLaw ==
  ASSUME NEW k \in Nat, NEW w \in [0 .. k -> Int], NEW v \in [0 .. k - 1 -> Int],
         \A i \in 0 .. k - 1 : v[i] = w[i],
         NEW p, IsProductTo(p, k + 1, w), NEW q, IsProductTo(q, k, v)
  PROVE  p = q * w[k] /\ q \in Int
<1> DEFINE S == 0 .. k
           R == 0 .. k - 1
<1>1. (k + 1) - 1 = k /\ R \in SUBSET S /\ S \in SUBSET S /\ R \in SUBSET R
      /\ k \in S /\ S \ {k} = R
  OBVIOUS
<1>2. IsFiniteSet(S) /\ IsFiniteSet(R)
  BY FS_Interval
<1>3. PICK h : IsProduct(h, w, S) /\ p = h[S]
  BY <1>1 DEF IsProductTo
<1>4. PICK g : IsProduct(g, v, R) /\ q = g[R]
  BY DEF IsProductTo
<1>5. w \in [S -> Int] /\ v \in [R -> Int] /\ \A i \in R : v[i] = w[i]
  OBVIOUS
<1> HIDE DEF S, R
<1>6. IsProduct(g, v, S \ {k}) /\ v \in [S \ {k} -> Int] /\ \A i \in S \ {k} : v[i] = w[i]
  BY <1>1, <1>4, <1>5
<1>7. LastFactor(h[S], g[S \ {k}], w[k])
  BY <1>1, <1>2, <1>3, <1>5, <1>6, ProductLaw
<1>8. QED
  BY <1>1, <1>3, <1>4, <1>7 DEF LastFactor

LEMMA ProductToZero ==
  ASSUME NEW w, NEW p, IsProductTo(p, 0, w)
  PROVE  p = 1
<1>1. 0 .. 0 - 1 = {} /\ {} \in SUBSET {}
  OBVIOUS
<1>2. QED
  BY <1>1 DEF IsProductTo, IsProduct

Falling(m, k) == ProductOver(k, LAMBDA i : m - i)
Factorial(k) == ProductOver(k, LAMBDA i : i + 1)

LEMMA FallingIs ==
  ASSUME NEW m \in Int, NEW k \in Nat
  PROVE  IsProductTo(Falling(m, k), k, [i \in 0 .. k - 1 |-> m - i])
<1> DEFINE w == [i \in 0 .. k - 1 |-> m - i]
           Eq(h) == h = [s \in SUBSET (0 .. k - 1) |->
                          IF s = {} THEN 1
                          ELSE h[s \ {CHOOSE x \in s : TRUE}] * (m - (CHOOSE x \in s : TRUE))]
<1>1. \A h : Eq(h) <=> IsProduct(h, w, 0 .. k - 1)
  <2>1. \A s \in SUBSET (0 .. k - 1) : s # {} => w[Pick(s)] = m - Pick(s)
    BY DEF Pick
  <2> HIDE DEF w
  <2>2. QED
    BY <2>1 DEF IsProduct, Pick
<1>2. Falling(m, k) = (CHOOSE h : Eq(h))[0 .. k - 1]
  BY DEF Falling, ProductOver, FoldSet, MapThenFoldSet
<1> HIDE DEF Eq
<1>3. \E h : Eq(h)
  <2>1. w \in [0 .. k - 1 -> Int] /\ IsFiniteSet(0 .. k - 1)
    BY FS_Interval
  <2> HIDE DEF w
  <2>2. QED
    BY <1>1, <2>1, ProductExists
<1>4. QED
  BY <1>1, <1>2, <1>3 DEF IsProductTo

LEMMA FactorialIs ==
  ASSUME NEW k \in Nat
  PROVE  IsProductTo(Factorial(k), k, [i \in 0 .. k - 1 |-> i + 1])
<1> DEFINE w == [i \in 0 .. k - 1 |-> i + 1]
           Eq(h) == h = [s \in SUBSET (0 .. k - 1) |->
                          IF s = {} THEN 1
                          ELSE h[s \ {CHOOSE x \in s : TRUE}] * ((CHOOSE x \in s : TRUE) + 1)]
<1>1. \A h : Eq(h) <=> IsProduct(h, w, 0 .. k - 1)
  <2>1. \A s \in SUBSET (0 .. k - 1) : s # {} => w[Pick(s)] = Pick(s) + 1
    BY DEF Pick
  <2> HIDE DEF w
  <2>2. QED
    BY <2>1 DEF IsProduct, Pick
<1>2. Factorial(k) = (CHOOSE h : Eq(h))[0 .. k - 1]
  BY DEF Factorial, ProductOver, FoldSet, MapThenFoldSet
<1> HIDE DEF Eq
<1>3. \E h : Eq(h)
  <2>1. w \in [0 .. k - 1 -> Int] /\ IsFiniteSet(0 .. k - 1)
    BY FS_Interval
  <2> HIDE DEF w
  <2>2. QED
    BY <1>1, <2>1, ProductExists
<1>4. QED
  BY <1>1, <1>2, <1>3 DEF IsProductTo

LEMMA FallingLaw ==
  ASSUME NEW m \in Int, NEW k \in Nat
  PROVE  /\ Falling(m, 0) = 1 /\ Falling(m, k) \in Int
         /\ Falling(m, k + 1) = Falling(m, k) * (m - k)
<1> DEFINE w == [i \in 0 .. k |-> m - i]
           v == [i \in 0 .. k - 1 |-> m - i]
<1>1. /\ w \in [0 .. k -> Int] /\ v \in [0 .. k - 1 -> Int]
      /\ \A i \in 0 .. k - 1 : v[i] = w[i]
      /\ w[k] = m - k /\ k + 1 \in Nat /\ 0 .. (k + 1) - 1 = 0 .. k
  OBVIOUS
<1>2. IsProductTo(Falling(m, k + 1), k + 1, [i \in 0 .. (k + 1) - 1 |-> m - i])
  BY <1>1, FallingIs
<1>3. IsProductTo(Falling(m, k + 1), k + 1, w) /\ IsProductTo(Falling(m, k), k, v)
  BY <1>1, <1>2, FallingIs
<1>4. Falling(m, 0) = 1
  <2>1. IsProductTo(Falling(m, 0), 0, [i \in 0 .. 0 - 1 |-> m - i])
    BY FallingIs
  <2>2. QED
    BY <2>1, ProductToZero
<1> HIDE DEF w, v
<1>5. Falling(m, k + 1) = Falling(m, k) * w[k] /\ Falling(m, k) \in Int
  BY <1>1, <1>3, ProductToLaw
<1>6. QED
  BY <1>1, <1>4, <1>5

LEMMA FactorialLaw ==
  ASSUME NEW k \in Nat
  PROVE  /\ Factorial(0) = 1 /\ Factorial(k) \in Int
         /\ Factorial(k + 1) = Factorial(k) * (k + 1)
<1> DEFINE w == [i \in 0 .. k |-> i + 1]
           v == [i \in 0 .. k - 1 |-> i + 1]
<1>1. /\ w \in [0 .. k -> Int] /\ v \in [0 .. k - 1 -> Int]
      /\ \A i \in 0 .. k - 1 : v[i] = w[i]
      /\ w[k] = k + 1 /\ k + 1 \in Nat /\ 0 .. (k + 1) - 1 = 0 .. k
  OBVIOUS
<1>2. IsProductTo(Factorial(k + 1), k + 1, [i \in 0 .. (k + 1) - 1 |-> i + 1])
  BY <1>1, FactorialIs
<1>3. IsProductTo(Factorial(k + 1), k + 1, w) /\ IsProductTo(Factorial(k), k, v)
  BY <1>1, <1>2, FactorialIs
<1>4. Factorial(0) = 1
  <2>1. IsProductTo(Factorial(0), 0, [i \in 0 .. 0 - 1 |-> i + 1])
    BY FactorialIs
  <2>2. QED
    BY <2>1, ProductToZero
<1> HIDE DEF w, v
<1>5. Factorial(k + 1) = Factorial(k) * w[k] /\ Factorial(k) \in Int
  BY <1>1, <1>3, ProductToLaw
<1>6. QED
  BY <1>1, <1>4, <1>5

LEMMA FactorialPositive == \A k \in Nat : Factorial(k) \in Nat \ {0}
<1> DEFINE T == {k \in Nat : Factorial(k) \in Nat \ {0}}
<1>1. 0 \in T
  BY FactorialLaw
<1>2. ASSUME NEW k \in Nat, k \in T  PROVE k + 1 \in T
  <2>1. \A a, b \in Nat \ {0} : a * b \in Nat \ {0}
    OBVIOUS
  <2>2. Factorial(k + 1) = Factorial(k) * (k + 1) /\ Factorial(k) \in Nat \ {0}
    BY <1>2, FactorialLaw
  <2>3. k + 1 \in Nat \ {0}
    OBVIOUS
  <2>4. QED
    BY <2>1, <2>2, <2>3
<1>3. \A k \in Nat : k \in T
  <2> HIDE DEF T
  <2> QED BY <1>1, <1>2, SetInduction
<1>4. QED
  BY <1>3

\* More factors than numbers left: one of them is zero.
LEMMA FallingZero == \A k \in Nat : Falling(0, k + 1) = 0
<1> DEFINE T == {k \in Nat : Falling(0, k + 1) = 0}
<1>1. 0 \in T
  <2>1. Falling(0, 0 + 1) = Falling(0, 0) * (0 - 0) /\ Falling(0, 0) \in Int
    BY FallingLaw
  <2>2. QED
    BY <2>1
<1>2. ASSUME NEW k \in Nat, k \in T  PROVE k + 1 \in T
  <2>1. Falling(0, (k + 1) + 1) = Falling(0, k + 1) * (0 - (k + 1))
    BY FallingLaw
  <2>2. 0 * (0 - (k + 1)) = 0
    OBVIOUS
  <2>3. QED
    BY <1>2, <2>1, <2>2
<1>3. \A k \in Nat : k \in T
  <2> HIDE DEF T
  <2> QED BY <1>1, <1>2, SetInduction
<1>4. QED
  BY <1>3

\* The factors taken from the other end.
LEMMA FallingHead ==
  ASSUME NEW m \in Nat
  PROVE  \A k \in Nat : Falling(m + 1, k + 1) = (m + 1) * Falling(m, k)
<1> DEFINE T == {k \in Nat : Falling(m + 1, k + 1) = (m + 1) * Falling(m, k)}
<1>1. 0 \in T
  <2>1. /\ Falling(m + 1, 0 + 1) = Falling(m + 1, 0) * ((m + 1) - 0)
        /\ Falling(m + 1, 0) = 1 /\ Falling(m, 0) = 1
    BY FallingLaw
  <2>2. 1 * ((m + 1) - 0) = (m + 1) * 1
    OBVIOUS
  <2>3. QED
    BY <2>1, <2>2
<1>2. ASSUME NEW k \in Nat, k \in T  PROVE k + 1 \in T
  <2>1. /\ Falling(m + 1, (k + 1) + 1) = Falling(m + 1, k + 1) * ((m + 1) - (k + 1))
        /\ Falling(m, k + 1) = Falling(m, k) * (m - k) /\ Falling(m, k) \in Int
    BY FallingLaw
  <2>2. (m + 1) - (k + 1) = m - k
    OBVIOUS
  <2>3. \A a, b, d \in Int : (a * b) * d = a * (b * d)
    OBVIOUS
  <2>4. Falling(m + 1, k + 1) = (m + 1) * Falling(m, k)
    BY <1>2
  <2>5. ((m + 1) * Falling(m, k)) * (m - k) = (m + 1) * (Falling(m, k) * (m - k))
    BY <2>1, <2>3
  <2>6. QED
    BY <2>1, <2>2, <2>4, <2>5
<1>3. \A k \in Nat : k \in T
  <2> HIDE DEF T
  <2> QED BY <1>1, <1>2, SetInduction
<1>4. QED
  BY <1>3

-----------------------------------------------------------------------------
\* How many sets of k elements there are: those without x, and those with it.
LEMMA SubsetsFinite ==
  ASSUME NEW S, IsFiniteSet(S), NEW k
  PROVE  IsFiniteSet(kSubset(k, S)) /\ Cardinality(kSubset(k, S)) \in Nat
<1>1. IsFiniteSet(SUBSET S) /\ kSubset(k, S) \in SUBSET SUBSET S
  BY FS_SUBSET DEF kSubset
<1>2. IsFiniteSet(kSubset(k, S))
  BY <1>1, FS_Subset
<1>3. QED
  BY <1>2, FS_CardinalityType

LEMMA SubsetsEmpty ==
  ASSUME NEW S, IsFiniteSet(S)
  PROVE  Cardinality(kSubset(0, S)) = 1
<1>1. \A s \in SUBSET S : IsFiniteSet(s) /\ (Cardinality(s) = 0 <=> s = {})
  BY FS_Subset, FS_EmptySet
<1>2. kSubset(0, S) = {{}}
  BY <1>1 DEF kSubset
<1>3. QED
  BY <1>2, FS_Singleton

LEMMA Pascal ==
  ASSUME NEW S, IsFiniteSet(S), NEW x, x \notin S, NEW k \in Nat
  PROVE  Cardinality(kSubset(k + 1, S \cup {x}))
           = Cardinality(kSubset(k + 1, S)) + Cardinality(kSubset(k, S))
<1> DEFINE T == S \cup {x}
           without == kSubset(k + 1, S)
           with == {s \in kSubset(k + 1, T) : x \in s}
<1>1. \A s \in SUBSET S : IsFiniteSet(s) /\ Cardinality(s) \in Nat
                           /\ Cardinality(s \cup {x}) = Cardinality(s) + 1
  BY FS_Subset, FS_AddElement, FS_CardinalityType
<1>2. IsFiniteSet(T)
  BY FS_AddElement
<1>3. kSubset(k + 1, T) = without \cup with /\ without \cap with = {}
  BY DEF kSubset
<1>4. ExistsBijection(kSubset(k, S), with)
  <2> DEFINE f == [s \in kSubset(k, S) |-> s \cup {x}]
  <2>1. ASSUME NEW s \in kSubset(k, S)  PROVE s \cup {x} \in with
    BY <1>1 DEF kSubset
  <2>2. \A s, u \in kSubset(k, S) : s \cup {x} = u \cup {x} => s = u
    BY DEF kSubset
  <2>3. ASSUME NEW t \in with  PROVE \E s \in kSubset(k, S) : t = s \cup {x}
    <3>1. t \ {x} \in SUBSET S /\ t = (t \ {x}) \cup {x} /\ Cardinality(t) = k + 1
      BY DEF kSubset
    <3>2. Cardinality(t \ {x}) \in Nat /\ k + 1 = Cardinality(t \ {x}) + 1
      BY <1>1, <3>1
    <3>3. Cardinality(t \ {x}) = k
      BY <3>2
    <3>4. QED
      BY <3>1, <3>3 DEF kSubset
  <2>4. f \in Bijection(kSubset(k, S), with)
    <3>1. f \in [kSubset(k, S) -> with]
      BY <2>1
    <3>2. f \in Injection(kSubset(k, S), with)
      BY <2>2, <3>1 DEF Injection, IsInjective
    <3>3. f \in Surjection(kSubset(k, S), with)
      BY <2>3, <3>1 DEF Surjection
    <3>4. QED
      BY <3>2, <3>3 DEF Bijection
  <2>5. QED
    BY <2>4 DEF ExistsBijection
<1>5. IsFiniteSet(with) /\ Cardinality(with) = Cardinality(kSubset(k, S))
  BY <1>4, SubsetsFinite, FS_Bijection
<1>6. IsFiniteSet(without) /\ Cardinality(without) \in Nat /\ Cardinality(with) \in Nat
  BY <1>5, SubsetsFinite
<1> HIDE DEF T, with, without
<1>7. Cardinality(without \cup with)
        = Cardinality(without) + Cardinality(with) - Cardinality(without \cap with)
  BY <1>5, <1>6, FS_Union
<1>8. Cardinality(kSubset(k + 1, T)) = Cardinality(without) + Cardinality(with)
  <2>1. Cardinality({}) = 0
    BY FS_EmptySet
  <2>2. Cardinality(without \cap with) = 0
    BY <1>3, <2>1
  <2>3. Cardinality(kSubset(k + 1, T)) = Cardinality(without \cup with)
    BY <1>3, Zenon
  <2>4. Cardinality(kSubset(k + 1, T)) = Cardinality(without) + Cardinality(with) - 0
    BY <1>7, <2>2, <2>3, Zenon
  <2>5. QED
    BY <1>6, <2>4
<1>9. QED
  BY <1>5, <1>8 DEF T, without

\* The number of sets of k of n elements, times the orders of k elements, is the
\* number of ways to draw k of n elements one after the other.
LEMMA CountSubsets ==
  ASSUME NEW S, IsFiniteSet(S), NEW k \in Nat
  PROVE  Cardinality(kSubset(k, S)) * Factorial(k) = Falling(Cardinality(S), k)
<1> DEFINE Good(s, j) == Cardinality(kSubset(j, s)) * Factorial(j) = Falling(Cardinality(s), j)
           T == {n \in Nat : \A s \in SUBSET S : Cardinality(s) = n =>
                               \A j \in Nat : Good(s, j)}
<1>1. \A s \in SUBSET S :
        /\ IsFiniteSet(s) /\ Cardinality(s) \in Nat /\ (Cardinality(s) = 0 <=> s = {})
  BY FS_Subset, FS_CardinalityType, FS_EmptySet
<1>2. ASSUME NEW s \in SUBSET S  PROVE Good(s, 0)
  <2>1. Cardinality(kSubset(0, s)) = 1
    BY <1>1, SubsetsEmpty
  <2>2. Cardinality(s) \in Int
    BY <1>1
  <2>3. Falling(Cardinality(s), 0) = 1
    BY <2>2, FallingLaw
  <2>4. Factorial(0) = 1
    BY FactorialLaw
  <2>5. QED
    BY <2>1, <2>3, <2>4
<1>3. 0 \in T
  <2> SUFFICES ASSUME NEW s \in SUBSET S, s = {}, NEW j \in Nat  PROVE Good(s, j)
    BY <1>1
  <2>1. CASE j = 0
    <3> HIDE DEF Good
    <3> QED BY <1>2, <2>1
  <2>2. CASE j # 0
    <3>1. j - 1 \in Nat /\ (j - 1) + 1 = j
      BY <2>2
    <3>2. Cardinality({}) = 0 /\ kSubset(j, {}) = {}
      BY <2>2, FS_EmptySet DEF kSubset
    <3>3. Falling(0, j) = 0 /\ Factorial(j) \in Nat
      BY <3>1, FallingZero, FactorialPositive
    <3>4. 0 * Factorial(j) = 0
      BY <3>3
    <3>5. QED
      BY <3>2, <3>3, <3>4
  <2>3. QED
    BY <2>1, <2>2
<1>4. ASSUME NEW n \in Nat, n \in T  PROVE n + 1 \in T
  <2>1. \A u \in SUBSET S : Cardinality(u) = n => \A j \in Nat : Good(u, j)
    BY <1>4
  <2> SUFFICES ASSUME NEW s \in SUBSET S, Cardinality(s) = n + 1, NEW j \in Nat
               PROVE Good(s, j)
    OBVIOUS
  <2>2. CASE j = 0
    <3> HIDE DEF Good
    <3> QED BY <1>2, <2>2
  <2>3. CASE j # 0
    <3> DEFINE i == j - 1
    <3>1. i \in Nat /\ i + 1 = j
      BY <2>3
    <3>2. PICK x \in s : TRUE
      BY <1>1
    <3> DEFINE u == s \ {x}
    <3>3. /\ u \in SUBSET S /\ x \notin u /\ u \cup {x} = s
          /\ IsFiniteSet(u) /\ Cardinality(u) = n
      BY <1>1, <3>2, SubsetWithout
    <3> HIDE DEF i, u
    <3> DEFINE A == Cardinality(kSubset(i + 1, u))
               B == Cardinality(kSubset(i, u))
               F == Falling(n, i)
               P == Factorial(i)
    <3>4. Cardinality(kSubset(i + 1, s)) = A + B
      BY <3>1, <3>3, Pascal
    <3>5. Good(u, i + 1) /\ Good(u, i)
      <4> HIDE DEF Good
      <4> QED BY <2>1, <3>1, <3>3
    <3>6. /\ Factorial(i + 1) = P * (i + 1) /\ Falling(n, i + 1) = F * (n - i)
          /\ Falling(n + 1, i + 1) = (n + 1) * F /\ F \in Int /\ P \in Int
      <4>1. n \in Int
        OBVIOUS
      <4>2. Falling(n, i + 1) = F * (n - i) /\ F \in Int
        BY <3>1, <4>1, FallingLaw
      <4>3. Factorial(i + 1) = P * (i + 1) /\ P \in Int
        BY <3>1, FactorialLaw
      <4>4. Falling(n + 1, i + 1) = (n + 1) * F
        BY <3>1, FallingHead
      <4> HIDE DEF F, P
      <4>5. QED
        BY <4>2, <4>3, <4>4
    <3>7. A \in Nat /\ B \in Nat
      BY <3>3, SubsetsFinite
    <3>8. A * (P * (i + 1)) = F * (n - i) /\ B * P = F
      BY <3>3, <3>5, <3>6
    <3> HIDE DEF A, B, F, P
    <3>9. (A + B) * (P * (i + 1)) = A * (P * (i + 1)) + (B * P) * (i + 1)
      <4>1. \A a, b, d, e \in Int : (a + b) * (d * e) = a * (d * e) + (b * d) * e
        OBVIOUS
      <4>2. QED
        BY <3>1, <3>6, <3>7, <4>1
    <3>10. F * (n - i) + F * (i + 1) = (n + 1) * F
      BY <3>1, <3>6
    <3>11. (A + B) * (P * (i + 1)) = (n + 1) * F
      BY <3>8, <3>9, <3>10
    <3>12. QED
      BY <3>1, <3>4, <3>6, <3>11
  <2>4. QED
    BY <2>2, <2>3
<1>5. Cardinality(S) \in T
  <2>1. Cardinality(S) \in Nat
    BY FS_CardinalityType
  <2> HIDE DEF T
  <2>2. QED
    BY <1>3, <1>4, <2>1, SetInduction
<1>6. QED
  BY <1>5

-----------------------------------------------------------------------------
LEMMA QuotientOfProduct ==
  ASSUME NEW a \in Nat, NEW b \in Nat \ {0}
  PROVE  (a * b) \div b = a
<1>1. /\ (a * b) \div b \in Int /\ (a * b) % b \in 0 .. b - 1
      /\ a * b = b * ((a * b) \div b) + ((a * b) % b)
  OBVIOUS
<1> QED
  BY <1>1

LEMMA EstimatorsAre ==
  ASSUME NEW n \in Nat, NEW c \in Nat, NEW k \in Nat
  PROVE  /\ n - c < k => PassAtK(n, c, k) = [num |-> 1, den |-> 1]
         /\ ~(n - c < k) => PassAtK(n, c, k) = [num |-> Falling(n, k) - Falling(n - c, k),
                                                den |-> Falling(n, k)]
         /\ c < k => PassHatK(n, c, k) = [num |-> 0, den |-> 1]
         /\ ~(c < k) => PassHatK(n, c, k) = [num |-> Falling(c, k) \div Factorial(k),
                                             den |-> Falling(n, k) \div Factorial(k)]
<1>1. Comb(c, k) = Falling(c, k) \div Factorial(k) /\ Comb(n, k) = Falling(n, k) \div Factorial(k)
  BY DEF Comb, Falling, Factorial
<1>2. n - c < k => PassAtK(n, c, k) = [num |-> 1, den |-> 1]
  BY DEF PassAtK
<1>3. ~(n - c < k) => PassAtK(n, c, k) = [num |-> Falling(n, k) - Falling(n - c, k),
                                          den |-> Falling(n, k)]
  BY DEF PassAtK, Falling
<1>4. QED
  BY <1>1, <1>2, <1>3 DEF PassHatK

\* A task with c passes out of n seeds: how many sets of k seeds meet 1 .. c, and
\* how many lie within it.
LEMMA SamplesCounted ==
  ASSUME NEW n \in Nat, NEW c \in 0 .. n, NEW k \in Nat
  PROVE  LET samples == kSubset(k, 1 .. n)
         IN /\ {S \in samples : S \subseteq 1 .. c} = kSubset(k, 1 .. c)
            /\ {S \in samples : S \cap (1 .. c) # {}} = samples \ kSubset(k, c + 1 .. n)
            /\ kSubset(k, c + 1 .. n) \subseteq samples
            /\ c < k => kSubset(k, 1 .. c) = {}
            /\ n - c < k => kSubset(k, c + 1 .. n) = {}
            /\ IsFiniteSet(samples)
            /\ Cardinality(samples) * Factorial(k) = Falling(n, k)
            /\ Cardinality(kSubset(k, 1 .. c)) * Factorial(k) = Falling(c, k)
            /\ Cardinality(kSubset(k, c + 1 .. n)) * Factorial(k) = Falling(n - c, k)
<1> DEFINE samples == kSubset(k, 1 .. n)
<1>1. /\ 1 .. c \subseteq 1 .. n /\ c + 1 .. n \subseteq 1 .. n /\ c \in Nat
      /\ (1 .. n) \ (1 .. c) = c + 1 .. n /\ n - c \in Nat /\ (1 .. c) \cap (c + 1 .. n) = {}
  OBVIOUS
<1>2. /\ IsFiniteSet(1 .. n) /\ Cardinality(1 .. n) = n
      /\ IsFiniteSet(1 .. c) /\ Cardinality(1 .. c) = c
      /\ IsFiniteSet(c + 1 .. n) /\ Cardinality(c + 1 .. n) = n - c
  <2>1. ASSUME NEW a \in Nat, NEW b \in Nat, a <= b + 1
        PROVE  IsFiniteSet(a .. b) /\ Cardinality(a .. b) = b - a + 1
    <3>1. a \in Int /\ b \in Int /\ (a > b => b - a + 1 = 0)
      BY <2>1
    <3>2. QED
      BY <3>1, FS_Interval
  <2>2. /\ 1 <= n + 1 /\ n - 1 + 1 = n /\ 1 <= c + 1 /\ c - 1 + 1 = c
        /\ c + 1 \in Nat /\ c + 1 <= n + 1 /\ n - (c + 1) + 1 = n - c
    BY <1>1
  <2>3. /\ IsFiniteSet(1 .. n) /\ Cardinality(1 .. n) = n - 1 + 1
        /\ IsFiniteSet(1 .. c) /\ Cardinality(1 .. c) = c - 1 + 1
    BY <1>1, <2>1, <2>2
  <2>4. IsFiniteSet(c + 1 .. n) /\ Cardinality(c + 1 .. n) = n - (c + 1) + 1
    BY <2>1, <2>2
  <2>5. QED
    BY <2>2, <2>3, <2>4
<1>3. ASSUME NEW T, IsFiniteSet(T), NEW m \in Nat, Cardinality(T) = m, m < k
      PROVE  kSubset(k, T) = {}
  <2> SUFFICES ASSUME NEW s \in SUBSET T, Cardinality(s) = k  PROVE FALSE
    BY DEF kSubset
  <2>1. Cardinality(s) <= Cardinality(T)
    BY <1>3, FS_Subset
  <2>2. QED
    BY <1>3, <2>1
<1>4. c < k => kSubset(k, 1 .. c) = {}
  BY <1>1, <1>2, <1>3
<1>5. n - c < k => kSubset(k, c + 1 .. n) = {}
  BY <1>1, <1>2, <1>3
<1>6. {S \in samples : S \subseteq 1 .. c} = kSubset(k, 1 .. c)
  BY <1>1 DEF kSubset
<1>7. /\ {S \in samples : S \cap (1 .. c) # {}} = samples \ kSubset(k, c + 1 .. n)
      /\ kSubset(k, c + 1 .. n) \subseteq samples
  <2> DEFINE all == 1 .. n
             hit == 1 .. c
             miss == c + 1 .. n
  <2>1. all \ hit = miss /\ miss \subseteq all /\ hit \cap miss = {}
    BY <1>1
  <2> HIDE DEF all, hit, miss
  <2>2. /\ {S \in kSubset(k, all) : S \cap hit # {}} = kSubset(k, all) \ kSubset(k, miss)
        /\ kSubset(k, miss) \subseteq kSubset(k, all)
    BY <2>1 DEF kSubset
  <2>3. QED
    BY <2>2 DEF all, hit, miss
<1>8. /\ Cardinality(samples) * Factorial(k) = Falling(n, k)
      /\ Cardinality(kSubset(k, 1 .. c)) * Factorial(k) = Falling(c, k)
      /\ Cardinality(kSubset(k, c + 1 .. n)) * Factorial(k) = Falling(n - c, k)
  <2>1. ASSUME NEW T, IsFiniteSet(T)
        PROVE  Cardinality(kSubset(k, T)) * Factorial(k) = Falling(Cardinality(T), k)
    BY <2>1, CountSubsets
  <2>2. QED
    BY <1>2, <2>1
<1>9. IsFiniteSet(samples)
  BY <1>2, SubsetsFinite
<1>10. QED
  BY <1>4, <1>5, <1>6, <1>7, <1>8, <1>9

\* q is the share of the samples that S is.
IsShare(q, S, samples) == q.num * Cardinality(samples) = q.den * Cardinality(S)
OnePasses(n, c, k) == {S \in kSubset(k, 1 .. n) : S \cap (1 .. c) # {}}
AllPass(n, c, k) == {S \in kSubset(k, 1 .. n) : S \subseteq 1 .. c}

\* Of the sets of k seeds, the share that the estimators give.
LEMMA PassAtKCounts ==
  ASSUME NEW n \in Nat, NEW c \in 0 .. n, NEW k \in Nat
  PROVE  IsShare(PassAtK(n, c, k), OnePasses(n, c, k), kSubset(k, 1 .. n))
<1> DEFINE samples == kSubset(k, 1 .. n)
           miss == kSubset(k, c + 1 .. n)
           A == Cardinality(samples)
           M == Cardinality(miss)
           P == Factorial(k)
<1>1. /\ OnePasses(n, c, k) = samples \ miss
      /\ miss \subseteq samples /\ IsFiniteSet(samples)
      /\ n - c < k => miss = {}
      /\ A * P = Falling(n, k) /\ M * P = Falling(n - c, k)
  <2>1. OnePasses(n, c, k) = samples \ miss
    BY SamplesCounted DEF OnePasses
  <2>2. miss \subseteq samples /\ IsFiniteSet(samples)
    BY SamplesCounted
  <2>3. n - c < k => miss = {}
    BY SamplesCounted
  <2>4. A * P = Falling(n, k) /\ M * P = Falling(n - c, k)
    BY SamplesCounted
  <2>5. QED
    BY <2>1, <2>2, <2>3, <2>4
<1>2. A \in Nat /\ M \in Nat /\ P \in Nat /\ c \in Nat
  <2>1. IsFiniteSet(miss)
    BY <1>1, FS_Subset
  <2>2. QED
    BY <1>1, <2>1, FS_CardinalityType, FactorialPositive
<1> HIDE DEF A, M, P, miss, samples
<1>3. Cardinality(samples \ miss) = A - M
  <2>1. samples \cap miss = miss
    BY <1>1
  <2>2. Cardinality(samples \ miss) = Cardinality(samples) - Cardinality(samples \cap miss)
    BY <1>1, FS_Difference
  <2>3. QED
    BY <2>1, <2>2 DEF A, M
<1>4. CASE n - c < k
  <2>1. Cardinality(samples \ miss) = A
    <3>1. samples \ miss = samples
      BY <1>1, <1>4
    <3>2. QED
      BY <3>1 DEF A
  <2>2. PassAtK(n, c, k).num = 1 /\ PassAtK(n, c, k).den = 1
    BY <1>2, <1>4, EstimatorsAre
  <2>3. QED
    BY <1>1, <1>2, <2>1, <2>2 DEF A, IsShare, samples
<1>5. CASE ~(n - c < k)
  <2>1. PassAtK(n, c, k).num = A * P - M * P /\ PassAtK(n, c, k).den = A * P
    BY <1>1, <1>2, <1>5, EstimatorsAre
  <2>2. (A * P - M * P) * A = (A * P) * (A - M)
    BY <1>2
  <2>3. QED
    BY <1>1, <1>3, <2>1, <2>2 DEF A, IsShare, samples
<1>6. QED
  BY <1>4, <1>5

LEMMA PassHatKCounts ==
  ASSUME NEW n \in Nat, NEW c \in 0 .. n, NEW k \in Nat
  PROVE  IsShare(PassHatK(n, c, k), AllPass(n, c, k), kSubset(k, 1 .. n))
<1> DEFINE samples == kSubset(k, 1 .. n)
           hit == kSubset(k, 1 .. c)
           A == Cardinality(samples)
           B == Cardinality(hit)
           P == Factorial(k)
<1>1. /\ AllPass(n, c, k) = hit
      /\ IsFiniteSet(samples)
      /\ c < k => hit = {}
      /\ A * P = Falling(n, k) /\ B * P = Falling(c, k)
  <2>1. AllPass(n, c, k) = hit
    BY SamplesCounted DEF AllPass
  <2>2. IsFiniteSet(samples) /\ (c < k => hit = {})
    BY SamplesCounted
  <2>3. A * P = Falling(n, k) /\ B * P = Falling(c, k)
    BY SamplesCounted
  <2>4. QED
    BY <2>1, <2>2, <2>3
<1>2. A \in Nat /\ B \in Nat /\ P \in Nat \ {0} /\ c \in Nat
  <2>1. IsFiniteSet(1 .. c)
    BY FS_Interval
  <2>2. B \in Nat
    BY <2>1, SubsetsFinite
  <2>3. QED
    BY <1>1, <2>2, FS_CardinalityType, FactorialPositive
<1> HIDE DEF A, B, P, hit, samples
<1>3. CASE c < k
  <2>1. B = 0
    BY <1>1, <1>3, FS_EmptySet DEF B
  <2>2. PassHatK(n, c, k).num = 0 /\ PassHatK(n, c, k).den = 1
    BY <1>2, <1>3, EstimatorsAre
  <2>3. 0 * A = 1 * B
    BY <1>2, <2>1
  <2>4. QED
    BY <1>1, <2>2, <2>3 DEF A, B, IsShare, samples
<1>4. CASE ~(c < k)
  <2>1. /\ PassHatK(n, c, k).num = (B * P) \div P
        /\ PassHatK(n, c, k).den = (A * P) \div P
    <3>1. /\ PassHatK(n, c, k).num = Falling(c, k) \div Factorial(k)
          /\ PassHatK(n, c, k).den = Falling(n, k) \div Factorial(k)
      BY <1>2, <1>4, EstimatorsAre
    <3>2. QED
      BY <1>1, <3>1 DEF P
  <2>2. (B * P) \div P = B /\ (A * P) \div P = A
    BY <1>2, QuotientOfProduct
  <2>3. B * A = A * B
    BY <1>2
  <2>4. QED
    BY <1>1, <2>1, <2>2, <2>3 DEF A, B, IsShare, samples
<1>5. QED
  BY <1>3, <1>4

\* pass_at_k and pass_hat_k: pass@k and pass^k of a reported task are the shares of
\* the sets of k seeds of which one passes, and of which all pass, for any number of
\* seeds, and any passes: the product formula and the early returns count the same.
THEOREM EstimatesAreShares == GateSpec => []EstimatorsCountSamples
<1>1. ASSUME FloorInv  PROVE EstimatorsCountSamples
  <2>1. ASSUME NEW t \in DOMAIN main, NEW k \in 1 .. SeedCount
        PROVE  /\ IsShare(PassAtK(SeedCount, main[t].passes, k),
                          OnePasses(SeedCount, main[t].passes, k), kSubset(k, 1 .. SeedCount))
               /\ IsShare(PassHatK(SeedCount, main[t].passes, k),
                          AllPass(SeedCount, main[t].passes, k), kSubset(k, 1 .. SeedCount))
    <3>1. SeedCount \in Nat /\ k \in Nat
      BY EvalGateAssumption
    <3>2. main[t].passes \in 0 .. SeedCount
      BY <1>1 DEF FloorInv, Reports, Scores
    <3>3. QED
      BY <3>1, <3>2, PassAtKCounts, PassHatKCounts
  <2>2. QED
    BY <2>1 DEF EstimatorsCountSamples, IsShare, OnePasses, AllPass
<1>2. QED
  BY <1>1, FloorInvHolds, PTL

-----------------------------------------------------------------------------
(* MaturityLedger.                                                         *)

\* What read_runs has kept after each line of f.
IsRead(g, f) ==
  g = [n \in 0 .. Len(f) |->
         IF n = 0 THEN <<>>
         ELSE IF IsRun(f[n]) THEN Append(g[n - 1], f[n]) ELSE g[n - 1]]

Lines == Run \cup {Junk}

LEMMA ReadExists ==
  ASSUME NEW f \in Seq(Lines)
  PROVE  \E g : IsRead(g, f)
<1> DEFINE Kept(s, n) == IF IsRun(f[n]) THEN Append(s, f[n]) ELSE s
           Upto(g, m) == /\ g \in [0 .. m -> Seq(Lines)] /\ g[0] = <<>>
                         /\ \A n \in 1 .. m : g[n] = Kept(g[n - 1], n)
           T == {m \in Nat : m <= Len(f) => \E g : Upto(g, m)}
<1>1. Len(f) \in Nat /\ \A n \in 1 .. Len(f) : f[n] \in Lines
  BY LenProperties, ElementOfSeq
<1>2. \A n \in 1 .. Len(f), s \in Seq(Lines) : Kept(s, n) \in Seq(Lines)
  BY <1>1, AppendProperties
<1> HIDE DEF Kept
<1>3. \A g : Upto(g, Len(f)) =>
        g = [n \in 0 .. Len(f) |-> IF n = 0 THEN <<>> ELSE Kept(g[n - 1], n)]
  <2> SUFFICES ASSUME NEW g, Upto(g, Len(f))
               PROVE  g = [n \in 0 .. Len(f) |-> IF n = 0 THEN <<>> ELSE Kept(g[n - 1], n)]
    OBVIOUS
  <2>1. ASSUME NEW n \in 0 .. Len(f)
        PROVE  g[n] = IF n = 0 THEN <<>> ELSE Kept(g[n - 1], n)
    BY <1>1
  <2>2. g = [n \in 0 .. Len(f) |-> g[n]]
    BY <1>1
  <2>3. QED
    BY <2>1, <2>2
<1> HIDE DEF Upto
<1>4. 0 \in T
  <2>1. Upto([n \in 0 .. 0 |-> <<>>], 0)
    BY EmptySeq DEF Upto
  <2>2. QED
    BY <2>1
<1>5. \A m \in Nat : m \in T => m + 1 \in T
  <2> SUFFICES ASSUME NEW m \in Nat, m \in T  PROVE m + 1 \in T
    OBVIOUS
  <2>1. CASE ~(m + 1 <= Len(f))
    BY <2>1
  <2>2. CASE m + 1 <= Len(f)
    <3>1. PICK g : Upto(g, m)
      BY <1>1, <2>2
    <3> DEFINE h == [n \in 0 .. m + 1 |-> IF n <= m THEN g[n] ELSE Kept(g[m], m + 1)]
    <3>2. Kept(g[m], m + 1) \in Seq(Lines)
      BY <1>1, <1>2, <2>2, <3>1 DEF Upto
    <3>3. h \in [0 .. m + 1 -> Seq(Lines)] /\ h[0] = <<>>
      BY <3>1, <3>2 DEF Upto
    <3>4. ASSUME NEW n \in 1 .. m + 1  PROVE h[n] = Kept(h[n - 1], n)
      <4>1. n \in 0 .. m + 1 /\ n - 1 \in 0 .. m + 1 /\ n - 1 <= m
        OBVIOUS
      <4>2. h[n - 1] = g[n - 1]
        BY <4>1
      <4>3. CASE n = m + 1
        BY <4>1, <4>2, <4>3
      <4>4. CASE n # m + 1
        BY <3>1, <4>1, <4>2, <4>4 DEF Upto
      <4>5. QED
        BY <4>3, <4>4
    <3> HIDE DEF h
    <3>5. Upto(h, m + 1)
      BY <3>3, <3>4 DEF Upto
    <3>6. QED
      BY <3>5
  <2>3. QED
    BY <2>1, <2>2
<1>6. \E g : Upto(g, Len(f))
  <2> HIDE DEF T
  <2>1. Len(f) \in T
    BY <1>1, <1>4, <1>5, SetInduction
  <2>2. QED
    BY <1>1, <2>1 DEF T
<1>7. QED
  BY <1>3, <1>6 DEF Kept, IsRead

LEMMA ReadIs ==
  ASSUME NEW f \in Seq(Lines)
  PROVE  \E g : IsRead(g, f) /\ ReadRuns(f) = g[Len(f)]
<1>1. ReadRuns(f) = (CHOOSE g : IsRead(g, f))[Len(f)]
  BY DEF ReadRuns, IsRead
<1>2. QED
  BY <1>1, ReadExists

\* One more line is one more run, or nothing.
LEMMA ReadAppend ==
  ASSUME NEW f \in Seq(Lines), NEW x \in Lines
  PROVE  ReadRuns(Append(f, x)) =
           IF IsRun(x) THEN Append(ReadRuns(f), x) ELSE ReadRuns(f)
<1> DEFINE e == Append(f, x)
<1>1. /\ e \in Seq(Lines) /\ Len(f) \in Nat /\ Len(e) = Len(f) + 1
      /\ \A i \in 1 .. Len(f) : e[i] = f[i]
      /\ e[Len(f) + 1] = x
  BY AppendProperties, LenProperties
<1>2. PICK g : IsRead(g, f) /\ ReadRuns(f) = g[Len(f)]
  BY ReadIs
<1>3. PICK h : IsRead(h, e) /\ ReadRuns(e) = h[Len(e)]
  BY <1>1, ReadIs
<1> DEFINE T == {n \in Nat : n <= Len(f) => h[n] = g[n]}
<1> HIDE DEF e
<1>4. h[0] = <<>> /\ g[0] = <<>>
  BY <1>1, <1>2, <1>3 DEF IsRead
<1>5. \A n \in 0 .. Len(f) :
        n # 0 => g[n] = IF IsRun(f[n]) THEN Append(g[n - 1], f[n]) ELSE g[n - 1]
  BY <1>1, <1>2 DEF IsRead
<1>6. \A n \in 0 .. Len(e) :
        n # 0 => h[n] = IF IsRun(e[n]) THEN Append(h[n - 1], e[n]) ELSE h[n - 1]
  BY <1>1, <1>3 DEF IsRead
<1>7. \A n \in Nat : n \in T => n + 1 \in T
  <2> SUFFICES ASSUME NEW n \in Nat, n \in T, n + 1 <= Len(f)  PROVE h[n + 1] = g[n + 1]
    OBVIOUS
  <2>1. n + 1 \in 0 .. Len(f) /\ n + 1 \in 0 .. Len(e) /\ n + 1 # 0 /\ (n + 1) - 1 = n
    BY <1>1
  <2>2. h[n] = g[n] /\ e[n + 1] = f[n + 1]
    BY <1>1
  <2>3. QED
    BY <1>5, <1>6, <2>1, <2>2
<1>8. 0 \in T
  BY <1>4
<1>9. h[Len(f)] = g[Len(f)]
  <2> HIDE DEF T
  <2>1. Len(f) \in T
    BY <1>1, <1>7, <1>8, SetInduction
  <2>2. QED
    BY <1>1, <2>1 DEF T
<1>10. h[Len(e)] = IF IsRun(x) THEN Append(h[Len(f)], x) ELSE h[Len(f)]
  <2>1. Len(e) \in 0 .. Len(e) /\ Len(e) # 0 /\ Len(e) - 1 = Len(f) /\ e[Len(e)] = x
    BY <1>1
  <2>2. QED
    BY <1>6, <2>1
<1>11. QED
  BY <1>2, <1>3, <1>9, <1>10 DEF e

LEMMA ReadType ==
  ASSUME NEW f \in Seq(Lines)
  PROVE  ReadRuns(f) \in Seq(Run)
<1>1. PICK g : IsRead(g, f) /\ ReadRuns(f) = g[Len(f)]
  BY ReadIs
<1>2. Len(f) \in Nat /\ \A n \in 1 .. Len(f) : f[n] \in Lines
  BY LenProperties, ElementOfSeq
<1>3. g[0] = <<>>
  BY <1>1, <1>2 DEF IsRead
<1>4. \A n \in 0 .. Len(f) :
        n # 0 => g[n] = IF IsRun(f[n]) THEN Append(g[n - 1], f[n]) ELSE g[n - 1]
  BY <1>1, <1>2 DEF IsRead
<1> DEFINE T == {n \in Nat : n <= Len(f) => g[n] \in Seq(Run)}
<1>5. 0 \in T
  BY <1>3, EmptySeq
<1>6. \A n \in Nat : n \in T => n + 1 \in T
  <2> SUFFICES ASSUME NEW n \in Nat, n \in T, n + 1 <= Len(f)
               PROVE  g[n + 1] \in Seq(Run)
    OBVIOUS
  <2>1. /\ n + 1 \in 0 .. Len(f) /\ n + 1 \in 1 .. Len(f) /\ n + 1 # 0 /\ (n + 1) - 1 = n
    BY <1>2
  <2>2. g[n] \in Seq(Run) /\ f[n + 1] \in Lines
    BY <1>2, <2>1
  <2>3. IsRun(f[n + 1]) => f[n + 1] \in Run
    BY <2>2 DEF Lines, IsRun
  <2>4. IsRun(f[n + 1]) => Append(g[n], f[n + 1]) \in Seq(Run)
    BY <2>2, <2>3, AppendProperties
  <2>5. g[n + 1] = IF IsRun(f[n + 1]) THEN Append(g[n], f[n + 1]) ELSE g[n]
    BY <1>4, <2>1
  <2>6. QED
    BY <2>2, <2>4, <2>5
<1> HIDE DEF T
<1>7. Len(f) \in T
  BY <1>2, <1>5, <1>6, SetInduction
<1>8. QED
  BY <1>1, <1>2, <1>7 DEF T

-----------------------------------------------------------------------------
\* The ledger without its last line, and what is readable whatever comes next:
\* a line without its newline is lost with the next append.
Front(f) == SubSeq(f, 1, Len(f) - 1)
Solid == IF cut THEN ReadRuns(Front(lines)) ELSE Readable

LedgerTypeOK ==
  /\ lines \in Seq(Lines) /\ cut \in BOOLEAN /\ (cut => lines # <<>>)
  /\ harness \in Versions
  /\ pc \in [Recorders -> {"idle", "write"}] /\ run \in [Recorders -> Lines]
  /\ \A p \in Recorders : pc[p] = "write" => run[p] \in Run
  /\ IsFiniteSet(acked) /\ overlapped \in BOOLEAN /\ records \in Nat /\ crashes \in Nat

FlagsTrue(runs) == \A i \in DOMAIN runs :
  runs[i].changed = (i > 1 /\ runs[i].version # runs[i - 1].version)

\* One recorder at a time: what it is about to write is right of what is there.
FlagInv == ~overlapped =>
  /\ FlagsTrue(Readable) /\ FlagsTrue(Solid)
  /\ \A p \in Recorders :
        pc[p] = "write" => /\ run[p].changed = Changed(run[p].version, Readable)
                           /\ \A q \in Recorders : pc[q] = "write" => q = p

\* A line without its newline has yet to take an acknowledged run with it.
LedgerLossInv ==
  Cardinality(acked \ Ids(Solid)) + (IF cut THEN 1 ELSE 0) <= crashes

LedgerInv == LedgerTypeOK /\ FlagInv /\ LedgerLossInv

LEMMA RunsAreRuns ==
  \A x \in Lines : (IsRun(x) <=> x \in Run)
<1>1. Junk \notin Run
  BY MaturityAssumption DEF Junk, Run
<1>2. QED
  BY <1>1 DEF Lines, IsRun

LEMMA FrontProperties ==
  ASSUME NEW f \in Seq(Lines)
  PROVE  /\ f # <<>> => /\ Front(f) \in Seq(Lines) /\ f[Len(f)] \in Lines
                        /\ f = Append(Front(f), f[Len(f)])
         /\ \A x \in Lines : Front(Append(f, x)) = f
<1>1. Len(f) \in Nat /\ \A n \in 1 .. Len(f) : f[n] \in Lines
  BY LenProperties, ElementOfSeq
<1>2. ASSUME f # <<>>
      PROVE  Front(f) \in Seq(Lines) /\ f[Len(f)] \in Lines /\ f = Append(Front(f), f[Len(f)])
  <2>1. Len(f) \in Nat \ {0}
    BY <1>2, EmptySeq
  <2>2. /\ Front(f) \in Seq(Lines) /\ Len(Front(f)) = Len(f) - 1
        /\ \A i \in 1 .. Len(f) - 1 : Front(f)[i] = f[i]
    <3> DEFINE m == Len(f) - 1
    <3>1. m \in Nat /\ \A i \in 1 .. m : f[i] \in Lines
      BY <1>1, <2>1
    <3> HIDE DEF m
    <3>2. /\ SubSeq(f, 1, m) \in Seq(Lines)
          /\ Len(SubSeq(f, 1, m)) = IF 1 <= m THEN m - 1 + 1 ELSE 0
          /\ \A i \in 1 .. m - 1 + 1 : SubSeq(f, 1, m)[i] = f[1 + i - 1]
      BY <3>1, SubSeqProperties
    <3>3. /\ Len(SubSeq(f, 1, m)) = m
          /\ \A i \in 1 .. m : SubSeq(f, 1, m)[i] = f[i]
      BY <3>1, <3>2
    <3>4. QED
      BY <3>2, <3>3 DEF Front, m
  <2>3. f[Len(f)] \in Lines
    BY <1>1, <2>1
  <2>4. /\ Append(Front(f), f[Len(f)]) \in Seq(Lines)
        /\ Len(Append(Front(f), f[Len(f)])) = Len(f)
        /\ \A i \in 1 .. Len(f) : Append(Front(f), f[Len(f)])[i] = f[i]
    <3>1. /\ Append(Front(f), f[Len(f)]) \in Seq(Lines)
          /\ Len(Append(Front(f), f[Len(f)])) = Len(Front(f)) + 1
          /\ \A i \in 1 .. Len(Front(f)) : Append(Front(f), f[Len(f)])[i] = Front(f)[i]
          /\ Append(Front(f), f[Len(f)])[Len(Front(f)) + 1] = f[Len(f)]
      BY <2>2, <2>3, AppendProperties
    <3>2. QED
      BY <2>1, <2>2, <3>1
  <2>5. f = Append(Front(f), f[Len(f)])
    BY <2>4, SeqEqual
  <2>6. QED
    BY <2>2, <2>3, <2>5
<1>3. ASSUME NEW x \in Lines  PROVE Front(Append(f, x)) = f
  <2> DEFINE e == Append(f, x)
  <2>1. /\ e \in Seq(Lines) /\ Len(e) = Len(f) + 1
        /\ \A i \in 1 .. Len(f) : e[i] = f[i]
    BY AppendProperties
  <2> HIDE DEF e
  <2>2. \A i \in 1 .. Len(f) : e[i] \in Lines
    BY <1>1, <2>1
  <2>3. /\ SubSeq(e, 1, Len(f)) \in Seq(Lines)
        /\ Len(SubSeq(e, 1, Len(f))) = IF 1 <= Len(f) THEN Len(f) - 1 + 1 ELSE 0
        /\ \A i \in 1 .. Len(f) - 1 + 1 : SubSeq(e, 1, Len(f))[i] = e[1 + i - 1]
    BY <1>1, <2>2, SubSeqProperties
  <2>4. /\ Len(SubSeq(e, 1, Len(f))) = Len(f)
        /\ \A i \in 1 .. Len(f) : SubSeq(e, 1, Len(f))[i] = f[i]
    BY <1>1, <2>1, <2>3
  <2>5. SubSeq(e, 1, Len(f)) = f
    BY <2>3, <2>4, SeqEqual
  <2>6. Len(e) - 1 = Len(f)
    BY <1>1, <2>1
  <2>7. QED
    BY <2>5, <2>6 DEF Front, e
<1>4. QED
  BY <1>2, <1>3

\* What an append leaves to be read, now and for good.
LEMMA AppendedIs ==
  ASSUME LedgerTypeOK, NEW x \in Lines
  PROVE  LET f == Appended(x)
         IN  /\ f \in Seq(Lines) /\ f # <<>>
             /\ ReadRuns(f) =
                  IF ~cut /\ IsRun(x) THEN Append(Solid, x) ELSE Solid
             /\ ReadRuns(Front(f)) = Solid
<1>1. lines \in Seq(Lines) /\ cut \in BOOLEAN /\ (cut => lines # <<>>)
  BY DEF LedgerTypeOK
<1>2. Junk \in Lines /\ ~IsRun(Junk)
  BY DEF Lines, IsRun
<1>3. CASE cut
  <2>1. Front(lines) \in Seq(Lines)
    BY <1>1, <1>3, FrontProperties
  <2>2. Appended(x) = Append(Front(lines), Junk)
    BY <1>2, <1>3, <2>1, AppendIsConcat DEF Appended, Front
  <2>3. Solid = ReadRuns(Front(lines))
    BY <1>3 DEF Solid
  <2>4. QED
    BY <1>2, <1>3, <2>1, <2>2, <2>3, ReadAppend, FrontProperties, AppendProperties
<1>4. CASE ~cut
  <2>1. Appended(x) = Append(lines, x)
    BY <1>4 DEF Appended
  <2>2. Solid = ReadRuns(lines)
    BY <1>4 DEF Solid, Readable
  <2>3. QED
    BY <1>1, <1>4, <2>1, <2>2, ReadAppend, FrontProperties, AppendProperties
<1>5. QED
  BY <1>3, <1>4

\* The run that is lost with a missing newline is the last one.
LEMMA SolidIs ==
  ASSUME LedgerTypeOK
  PROVE  /\ Solid \in Seq(Run) /\ Readable \in Seq(Run)
         /\ ~cut => Readable = Solid
         /\ \/ Readable = Solid
            \/ \E x \in Run : Readable = Append(Solid, x)
<1>1. lines \in Seq(Lines) /\ cut \in BOOLEAN /\ (cut => lines # <<>>)
  BY DEF LedgerTypeOK
<1>2. CASE cut
  <2>1. /\ Front(lines) \in Seq(Lines) /\ lines[Len(lines)] \in Lines
        /\ lines = Append(Front(lines), lines[Len(lines)])
    BY <1>1, <1>2, FrontProperties
  <2>2. ReadRuns(Append(Front(lines), lines[Len(lines)])) =
          IF IsRun(lines[Len(lines)]) THEN Append(Solid, lines[Len(lines)]) ELSE Solid
    BY <1>2, <2>1, ReadAppend DEF Solid
  <2>3. Readable = ReadRuns(Append(Front(lines), lines[Len(lines)]))
    BY <2>1 DEF Readable
  <2>4. IsRun(lines[Len(lines)]) => lines[Len(lines)] \in Run
    BY <2>1, RunsAreRuns
  <2>5. QED
    BY <1>1, <1>2, <2>1, <2>2, <2>3, <2>4, ReadType DEF Solid, Readable
<1>3. CASE ~cut
  BY <1>1, <1>3, ReadType DEF Solid, Readable
<1>4. QED
  BY <1>2, <1>3

LEMMA IdsAppend ==
  ASSUME NEW s \in Seq(Run), NEW x \in Run
  PROVE  Ids(Append(s, x)) = Ids(s) \cup {x.id}
<1> DEFINE e == Append(s, x)
<1>1. /\ Len(s) \in Nat /\ DOMAIN s = 1 .. Len(s)
      /\ Len(e) = Len(s) + 1 /\ DOMAIN e = 1 .. Len(e)
      /\ \A i \in 1 .. Len(s) : e[i] = s[i]
      /\ e[Len(s) + 1] = x
  BY AppendProperties, LenProperties
<1> HIDE DEF e
<1>2. DOMAIN e = DOMAIN s \cup {Len(s) + 1}
  BY <1>1
<1>3. Ids(e) = Ids(s) \cup {x.id}
  BY <1>1, <1>2 DEF Ids
<1>4. QED
  BY <1>3 DEF e

LEMMA FlagsAppend ==
  ASSUME NEW s \in Seq(Run), NEW x \in Run, FlagsTrue(s),
         x.changed = Changed(x.version, s)
  PROVE  FlagsTrue(Append(s, x))
<1> DEFINE e == Append(s, x)
<1>1. /\ Len(s) \in Nat /\ DOMAIN s = 1 .. Len(s)
      /\ Len(e) = Len(s) + 1 /\ DOMAIN e = 1 .. Len(e)
      /\ \A i \in 1 .. Len(s) : e[i] = s[i]
      /\ e[Len(s) + 1] = x
  BY AppendProperties, LenProperties
<1>2. s # <<>> <=> Len(s) + 1 > 1
  BY <1>1, EmptySeq
<1> HIDE DEF e
<1>3. ASSUME NEW i \in DOMAIN e
      PROVE  e[i].changed = (i > 1 /\ e[i].version # e[i - 1].version)
  <2>1. CASE i = Len(s) + 1
    <3>1. x.changed = (s # <<>> /\ s[Len(s)].version # x.version)
      BY DEF Changed
    <3>2. Len(s) + 1 > 1 => e[i - 1] = s[Len(s)]
      BY <1>1, <2>1
    <3>3. QED
      BY <1>1, <1>2, <2>1, <3>1, <3>2
  <2>2. CASE i \in 1 .. Len(s)
    <3>1. s[i].changed = (i > 1 /\ s[i].version # s[i - 1].version)
      BY <1>1, <2>2 DEF FlagsTrue
    <3>2. e[i] = s[i] /\ (i > 1 => e[i - 1] = s[i - 1])
      BY <1>1, <2>2
    <3>3. QED
      BY <3>1, <3>2
  <2>3. QED
    BY <1>1, <2>1, <2>2
<1>4. FlagsTrue(e)
  BY <1>3 DEF FlagsTrue
<1>5. QED
  BY <1>4 DEF e

-----------------------------------------------------------------------------
LEMMA LedgerInvInit == LedgerInit => LedgerInv
<1> SUFFICES ASSUME LedgerInit  PROVE LedgerInv
  OBVIOUS
<1>1. <<>> \in Seq(Lines) /\ Len(<<>>) = 0 /\ Junk \in Lines
  BY EmptySeq DEF Lines
<1>2. LedgerTypeOK
  BY <1>1, FS_EmptySet DEF LedgerInit, LedgerTypeOK
<1>3. Readable = <<>> /\ Solid = <<>>
  <2>1. PICK g : IsRead(g, <<>>) /\ ReadRuns(<<>>) = g[0]
    BY <1>1, ReadIs
  <2>2. g[0] = <<>>
    BY <1>1, <2>1 DEF IsRead
  <2>3. QED
    BY <2>1, <2>2 DEF LedgerInit, Readable, Solid
<1>4. FlagInv
  BY <1>1, <1>3 DEF LedgerInit, FlagInv, FlagsTrue
<1>5. LedgerLossInv
  <2>1. acked \ Ids(Solid) = {} /\ Cardinality({}) = 0
    BY FS_EmptySet DEF LedgerInit
  <2>2. QED
    BY <2>1 DEF LedgerInit, LedgerLossInv
<1>6. QED
  BY <1>2, <1>4, <1>5 DEF LedgerInv

\* Nothing is appended.
LEMMA SameLedger ==
  ASSUME UNCHANGED <<lines, cut>>
  PROVE  Readable' = Readable /\ Solid' = Solid
BY DEF Readable, Solid

LEMMA ReadStep ==
  ASSUME LedgerInv, NEW p \in Recorders, Read(p)
  PROVE  LedgerInv'
<1> USE DEF LedgerInv
<1>1. Readable' = Readable /\ Solid' = Solid
  BY SameLedger DEF Read
<1> DEFINE flag == Changed(harness, ReadRuns(lines))
<1>2. flag \in BOOLEAN
  <2>1. Readable \in Seq(Run)
    BY SolidIs
  <2>2. QED
    BY DEF Changed
<1>3. PICK category \in BOOLEAN :
        run' = [run EXCEPT ![p] = [id |-> records + 1, version |-> harness,
                                   changed |-> flag, category |-> category]]
  BY DEF Read
<1>4. /\ run'[p] = [id |-> records + 1, version |-> harness,
                    changed |-> flag, category |-> category]
      /\ \A q \in Recorders : q # p => run'[q] = run[q]
      /\ run'[p] \in Run /\ run' \in [Recorders -> Lines]
  BY <1>2, <1>3 DEF LedgerTypeOK, Run, Lines
<1>5. /\ pc' = [pc EXCEPT ![p] = "write"] /\ pc[p] = "idle"
      /\ overlapped' = (overlapped \/ \E q \in Recorders : pc[q] # "idle")
      /\ UNCHANGED <<lines, cut, harness, acked, crashes>> /\ records' = records + 1
  BY DEF Read
<1>6. LedgerTypeOK'
  <2>1. pc' \in [Recorders -> {"idle", "write"}] /\ overlapped' \in BOOLEAN /\ records' \in Nat
    BY <1>5 DEF LedgerTypeOK
  <2>2. \A q \in Recorders : pc'[q] = "write" => run'[q] \in Run
    BY <1>4, <1>5 DEF LedgerTypeOK
  <2>3. QED
    BY <1>4, <1>5, <2>1, <2>2 DEF LedgerTypeOK
<1>7. FlagInv'
  <2> SUFFICES ASSUME ~overlapped'
               PROVE  (/\ FlagsTrue(Readable) /\ FlagsTrue(Solid)
                       /\ \A q \in Recorders :
                             pc[q] = "write" =>
                               /\ run[q].changed = Changed(run[q].version, Readable)
                               /\ \A r \in Recorders : pc[r] = "write" => r = q)'
    BY DEF FlagInv
  <2>1. ~overlapped /\ \A q \in Recorders : pc[q] = "idle"
    BY <1>5
  <2>2. \A q \in Recorders : pc'[q] = "write" => q = p
    BY <1>5, <2>1 DEF LedgerTypeOK
  <2>3. run'[p].changed = Changed(run'[p].version, Readable')
    BY <1>1, <1>4 DEF Readable
  <2>4. FlagsTrue(Readable') /\ FlagsTrue(Solid')
    BY <1>1, <2>1 DEF FlagInv
  <2>5. QED
    BY <2>2, <2>3, <2>4
<1>8. LedgerLossInv'
  BY <1>1, <1>5 DEF LedgerLossInv
<1>9. QED
  BY <1>6, <1>7, <1>8

\* After a write, whole or not: what is left of the invariant to show is the loss.
LEMMA AppendStep ==
  ASSUME LedgerInv, NEW p \in Recorders, pc[p] = "write",
         NEW part \in {Junk, run[p]}, lines' = Appended(part),
         cut' \in BOOLEAN, ~cut' => part = run[p],
         pc' = [pc EXCEPT ![p] = "idle"], run' = [run EXCEPT ![p] = Junk],
         UNCHANGED <<harness, overlapped, records>>, IsFiniteSet(acked'), crashes' \in Nat
  PROVE  /\ LedgerTypeOK' /\ FlagInv'
         /\ cut' => Solid' = Solid
         /\ ~cut' => Solid' = IF cut THEN Solid ELSE Append(Solid, run[p])
<1> USE DEF LedgerInv
<1>1. run[p] \in Run /\ Junk \in Lines /\ part \in Lines
  BY DEF LedgerTypeOK, Lines
<1>2. IsRun(part) => part = run[p]
  BY DEF IsRun
<1>3. IsRun(run[p])
  BY <1>1, RunsAreRuns DEF Lines
<1>4. /\ lines' \in Seq(Lines) /\ lines' # <<>>
      /\ ReadRuns(lines') = IF ~cut /\ IsRun(part) THEN Append(Solid, part) ELSE Solid
      /\ ReadRuns(Front(lines')) = Solid
  BY <1>1, AppendedIs
<1>5. Readable' = ReadRuns(lines')
  BY DEF Readable
<1>6. /\ cut' => Solid' = Solid
      /\ ~cut' => Solid' = Readable'
  <2>1. Solid' = IF cut' THEN ReadRuns(Front(lines')) ELSE Readable'
    BY DEF Solid
  <2>2. QED
    BY <1>4, <2>1
<1>7. ~cut' => Solid' = IF cut THEN Solid ELSE Append(Solid, run[p])
  BY <1>2, <1>3, <1>4, <1>5, <1>6 DEF LedgerTypeOK
<1>8. LedgerTypeOK'
  <2>1. pc' \in [Recorders -> {"idle", "write"}] /\ run' \in [Recorders -> Lines]
    BY <1>1 DEF LedgerTypeOK
  <2>2. \A q \in Recorders : pc'[q] = "write" => run'[q] \in Run
    BY DEF LedgerTypeOK
  <2>3. QED
    BY <1>4, <2>1, <2>2 DEF LedgerTypeOK
<1>9. FlagInv'
  <2> SUFFICES ASSUME ~overlapped'
               PROVE  (/\ FlagsTrue(Readable) /\ FlagsTrue(Solid)
                       /\ \A q \in Recorders :
                             pc[q] = "write" =>
                               /\ run[q].changed = Changed(run[q].version, Readable)
                               /\ \A r \in Recorders : pc[r] = "write" => r = q)'
    BY DEF FlagInv
  <2>1. /\ FlagsTrue(Readable) /\ FlagsTrue(Solid)
        /\ run[p].changed = Changed(run[p].version, Readable)
        /\ \A q \in Recorders : pc[q] = "write" => q = p
    BY DEF FlagInv
  <2>2. \A q \in Recorders : pc'[q] # "write"
    BY <2>1 DEF LedgerTypeOK
  <2>3. Solid \in Seq(Run) /\ (~cut => Readable = Solid)
    BY SolidIs
  <2>4. ~cut => FlagsTrue(Append(Solid, run[p]))
    BY <1>1, <2>1, <2>3, FlagsAppend
  <2>5. FlagsTrue(Readable')
    BY <1>2, <1>4, <1>5, <2>1, <2>4
  <2>6. FlagsTrue(Solid')
    BY <1>6, <2>1, <2>5
  <2>7. QED
    BY <2>2, <2>5, <2>6
<1>10. QED
  BY <1>6, <1>7, <1>8, <1>9

LEMMA WriteStep ==
  ASSUME LedgerInv, NEW p \in Recorders, Write(p)
  PROVE  LedgerInv'
<1>1. IsFiniteSet(acked) /\ run[p] \in Run /\ crashes \in Nat /\ cut \in BOOLEAN
  BY DEF LedgerInv, LedgerTypeOK, Write
<1>2. IsFiniteSet(acked') /\ acked' = acked \cup {run[p].id}
  BY <1>1, FS_AddElement DEF Write
<1>3. /\ LedgerTypeOK' /\ FlagInv'
      /\ Solid' = IF cut THEN Solid ELSE Append(Solid, run[p])
  <2>1. run[p] \in {Junk, run[p]} /\ crashes' \in Nat /\ ~cut' /\ cut' \in BOOLEAN
    BY <1>1 DEF Write
  <2>2. QED
    BY <1>2, <2>1, AppendStep DEF Write
<1>4. LedgerLossInv'
  <2>1. /\ IsFiniteSet(acked \ Ids(Solid))
        /\ Cardinality(acked \ Ids(Solid)) + (IF cut THEN 1 ELSE 0) <= crashes
    BY <1>1, FS_Difference DEF LedgerInv, LedgerLossInv
  <2>2. ~cut' /\ crashes' = crashes
    BY DEF Write
  <2>3. CASE cut
    <3>1. acked' \ Ids(Solid') \subseteq (acked \ Ids(Solid)) \cup {run[p].id}
      BY <1>2, <1>3, <2>3
    <3>2. /\ IsFiniteSet((acked \ Ids(Solid)) \cup {run[p].id})
          /\ Cardinality((acked \ Ids(Solid)) \cup {run[p].id})
               <= Cardinality(acked \ Ids(Solid)) + 1
      <4> DEFINE old == acked \ Ids(Solid)
      <4>1. IsFiniteSet(old) /\ Cardinality(old) \in Nat
        BY <2>1, FS_CardinalityType
      <4> HIDE DEF old
      <4>2. /\ IsFiniteSet(old \cup {run[p].id})
            /\ Cardinality(old \cup {run[p].id})
                 = IF run[p].id \in old THEN Cardinality(old) ELSE Cardinality(old) + 1
        BY <4>1, FS_AddElement
      <4>3. Cardinality(old \cup {run[p].id}) <= Cardinality(old) + 1
        BY <4>1, <4>2
      <4>4. QED
        BY <4>2, <4>3 DEF old
    <3>3. /\ Cardinality(acked' \ Ids(Solid'))
               <= Cardinality((acked \ Ids(Solid)) \cup {run[p].id})
          /\ Cardinality(acked' \ Ids(Solid')) \in Nat
      BY <3>1, <3>2, FS_Subset, FS_CardinalityType
    <3>4. Cardinality((acked \ Ids(Solid)) \cup {run[p].id}) \in Nat
          /\ Cardinality(acked \ Ids(Solid)) \in Nat
      BY <2>1, <3>2, FS_CardinalityType
    <3>5. Cardinality(acked' \ Ids(Solid')) <= crashes
      BY <1>1, <2>1, <2>3, <3>2, <3>3, <3>4
    <3>6. QED
      BY <1>1, <2>2, <3>3, <3>5 DEF LedgerLossInv
  <2>4. CASE ~cut
    <3>1. Solid \in Seq(Run)
      BY SolidIs DEF LedgerInv
    <3>2. acked' \ Ids(Solid') \subseteq acked \ Ids(Solid)
      BY <1>1, <1>2, <1>3, <2>4, <3>1, IdsAppend
    <3>3. /\ Cardinality(acked' \ Ids(Solid')) <= Cardinality(acked \ Ids(Solid))
          /\ Cardinality(acked' \ Ids(Solid')) \in Nat
          /\ Cardinality(acked \ Ids(Solid)) \in Nat
      BY <2>1, <3>2, FS_Subset, FS_CardinalityType
    <3>4. QED
      BY <1>1, <2>1, <2>2, <2>4, <3>3 DEF LedgerLossInv
  <2>5. QED
    BY <2>3, <2>4
<1>5. QED
  BY <1>3, <1>4 DEF LedgerInv

LEMMA WriteCutStep ==
  ASSUME LedgerInv, NEW p \in Recorders, WriteCut(p)
  PROVE  LedgerInv'
<1>1. IsFiniteSet(acked) /\ crashes \in Nat /\ cut \in BOOLEAN
  BY DEF LedgerInv, LedgerTypeOK
<1>2. PICK part \in {Junk, run[p]} : lines' = Appended(part)
  BY DEF WriteCut
<1>3. LedgerTypeOK' /\ FlagInv' /\ Solid' = Solid
  <2>1. IsFiniteSet(acked') /\ crashes' \in Nat /\ cut' /\ cut' \in BOOLEAN
    BY <1>1 DEF WriteCut
  <2>2. QED
    BY <1>2, <2>1, AppendStep DEF WriteCut
<1>4. LedgerLossInv'
  <2>1. acked' \ Ids(Solid') = acked \ Ids(Solid)
    BY <1>3 DEF WriteCut
  <2>2. Cardinality(acked \ Ids(Solid)) \in Nat
    BY <1>1, FS_Difference, FS_CardinalityType
  <2>3. cut' = TRUE /\ crashes' = crashes + 1
    BY DEF WriteCut
  <2>4. Cardinality(acked' \ Ids(Solid')) = Cardinality(acked \ Ids(Solid))
    BY <2>1
  <2>5. Cardinality(acked \ Ids(Solid)) + (IF cut THEN 1 ELSE 0) <= crashes
    BY DEF LedgerInv, LedgerLossInv
  <2>6. Cardinality(acked' \ Ids(Solid')) + 1 <= crashes'
    BY <1>1, <2>2, <2>3, <2>4, <2>5
  <2>7. QED
    BY <2>3, <2>6 DEF LedgerLossInv
<1>5. QED
  BY <1>3, <1>4 DEF LedgerInv

\* The ledger's inductive invariant, for any number of recorders and crashes.
THEOREM LedgerInvariant == LedgerSpec => []LedgerInv
<1>1. LedgerInit => LedgerInv
  BY LedgerInvInit
<1>2. ASSUME LedgerInv, [LedgerNext]_ledgerVars  PROVE LedgerInv'
  <2>1. ASSUME NEW p \in Recorders, Read(p) \/ Write(p) \/ WriteCut(p)
        PROVE  LedgerInv'
    BY <1>2, <2>1, ReadStep, WriteStep, WriteCutStep
  <2>2. CASE Upgrade \/ UNCHANGED ledgerVars
    <3>1. /\ UNCHANGED <<lines, cut, pc, run, acked, overlapped, records, crashes>>
          /\ harness' \in Versions
      BY <1>2, <2>2 DEF Upgrade, ledgerVars, LedgerInv, LedgerTypeOK
    <3>2. Readable' = Readable /\ Solid' = Solid
      BY <3>1, SameLedger
    <3>3. QED
      BY <1>2, <3>1, <3>2 DEF LedgerInv, LedgerTypeOK, FlagInv, LedgerLossInv
  <2>3. QED
    BY <1>2, <2>1, <2>2 DEF LedgerNext
<1>3. QED
  BY <1>1, <1>2, PTL DEF LedgerSpec

\* The torn-write tolerance of read_runs: a recorder that dies costs at most one
\* acknowledged run besides its own, in any interleaving.
THEOREM CrashesCostOneRun == LedgerSpec => []OneLossPerCrash
<1>1. ASSUME LedgerInv  PROVE OneLossPerCrash
  <2>1. Solid \in Seq(Run) /\ Ids(Solid) \subseteq Ids(Readable)
    BY <1>1, SolidIs, IdsAppend DEF LedgerInv
  <2>2. IsFiniteSet(acked) /\ crashes \in Nat
    BY <1>1 DEF LedgerInv, LedgerTypeOK
  <2>3. /\ Cardinality(acked \ Ids(Readable))
             <= Cardinality(acked \ Ids(Solid))
        /\ Cardinality(acked \ Ids(Readable)) \in Nat
        /\ Cardinality(acked \ Ids(Solid)) \in Nat
    <3>1. IsFiniteSet(acked \ Ids(Solid))
      BY <2>2, FS_Difference
    <3>2. acked \ Ids(Readable) \in SUBSET (acked \ Ids(Solid))
      BY <2>1
    <3>3. QED
      BY <3>1, <3>2, FS_Subset, FS_CardinalityType
  <2>4. Cardinality(acked \ Ids(Solid)) + (IF cut THEN 1 ELSE 0) <= crashes
    BY <1>1 DEF LedgerInv, LedgerLossInv
  <2>5. Cardinality(acked \ Ids(Readable)) <= crashes
    BY <2>2, <2>3, <2>4
  <2>6. QED
    BY <2>5 DEF OneLossPerCrash
<1>2. QED
  BY <1>1, LedgerInvariant, PTL

\* "auto-derived from the harness git sha between runs": the flag of every readable
\* run compares it with the readable run before it, lost lines in between or not,
\* as long as recorders come one after the other.
THEOREM FlagsTellTheHistory == LedgerSpec => []FlagsAreTrue
<1>1. LedgerInv => FlagsAreTrue
  BY DEF LedgerInv, FlagInv, FlagsTrue, FlagsAreTrue
<1>2. QED
  BY <1>1, LedgerInvariant, PTL

-----------------------------------------------------------------------------
\* The verdict.

LEMMA StreakIs ==
  ASSUME NEW s \in Seq(Run)
  PROVE  /\ Streak(s) \in 0 .. Len(s)
         /\ \A i \in Len(s) - Streak(s) + 1 .. Len(s) : ~IsEvolution(s[i])
<1> DEFINE n == Len(s)
           K == {k \in 0 .. n : \A i \in n - k + 1 .. n : ~IsEvolution(s[i])}
<1>1. n \in Nat
  BY LenProperties
<1>2. 0 \in K /\ K \in SUBSET (0 .. n)
  BY <1>1
<1>3. Streak(s) = CHOOSE m \in K : \A k \in K : m >= k
  BY DEF Streak, Max
<1> HIDE DEF K
<1>4. Streak(s) \in K
  BY <1>1, <1>2, <1>3, MaxIs
<1>5. QED
  BY <1>4 DEF K

\* READY is said only when the last ready_streak runs kept the version of the run
\* before and folded nothing back, and the recent runs changed no more than
\* max_rate allows: judged by the versions, not by the flags summarize looks at.
THEOREM ReadyIsConverged == LedgerSpec => []ReadyMeansConverged
<1>1. ASSUME LedgerInv  PROVE ReadyMeansConverged
  <2> DEFINE s == Readable
             n == Len(s)
             recent == Recent(s)
  <2> SUFFICES ASSUME ~overlapped, Verdict(s) = "READY"
               PROVE  /\ n >= ReadyStreak
                      /\ \A i \in n - ReadyStreak + 1 .. n : CleanAt(i)
                      /\ Cardinality({i \in recent : ~CleanAt(i)}) * RateDen
                            <= RateNum * Cardinality(recent)
    BY DEF ReadyMeansConverged
  <2>1. s \in Seq(Run) /\ n \in Nat /\ DOMAIN s = 1 .. n /\ ReadyStreak \in Nat
    BY <1>1, SolidIs, LenProperties, MaturityAssumption DEF LedgerInv
  <2>2. ~(n < ReadyStreak) /\ Streak(s) >= ReadyStreak /\ RateLow(s)
    BY DEF Verdict
  <2>3. FlagsTrue(s)
    BY <1>1 DEF LedgerInv, FlagInv
  <2>4. ASSUME NEW i \in 1 .. n  PROVE CleanAt(i) = ~IsEvolution(s[i])
    <3>1. s[i].changed = (i > 1 /\ s[i].version # s[i - 1].version)
      BY <2>1, <2>3, <2>4 DEF FlagsTrue
    <3>2. s[i].changed \in BOOLEAN /\ s[i].category \in BOOLEAN
      <4>1. s[i] \in Run
        BY <2>1, <2>4, ElementOfSeq
      <4>2. QED
        BY <4>1 DEF Run
    <3>3. QED
      BY <3>1, <3>2 DEF CleanAt, IsEvolution
  <2>5. ASSUME NEW i \in n - ReadyStreak + 1 .. n  PROVE CleanAt(i)
    <3>1. Streak(s) \in 0 .. n /\ n - Streak(s) + 1 \in Int
          /\ \A k \in n - Streak(s) + 1 .. n : ~IsEvolution(s[k])
      BY <2>1, StreakIs
    <3>2. i \in n - Streak(s) + 1 .. n /\ i \in 1 .. n
      BY <2>1, <2>2, <2>5, <3>1
    <3>3. QED
      BY <2>4, <3>1, <3>2
  <2>6. recent \subseteq 1 .. n
    BY <2>1, MaturityAssumption DEF Recent
  <2>7. {i \in recent : ~CleanAt(i)} = {i \in recent : IsEvolution(s[i])}
    <3>1. \A i \in 1 .. n : CleanAt(i) \in BOOLEAN /\ IsEvolution(s[i]) \in BOOLEAN
      BY DEF CleanAt, IsEvolution
    <3>2. QED
      BY <2>4, <2>6, <3>1
  <2>8. Cardinality({i \in recent : IsEvolution(s[i])}) * RateDen
          <= RateNum * Cardinality(recent)
    BY <2>2 DEF RateLow, EvolvedIn
  <2>9. n >= ReadyStreak
    BY <2>1, <2>2
  <2> HIDE DEF s, n, recent
  <2>10. QED
    BY <2>5, <2>7, <2>8, <2>9
<1>2. QED
  BY <1>1, LedgerInvariant, PTL

-----------------------------------------------------------------------------
(* Scoring.                                                                *)

LEMMA Clamp ==
  ASSUME NEW v \in Int
  PROVE  Max({0, Min({Scale, v})})
           = IF v < 0 THEN 0 ELSE IF v > Scale THEN Scale ELSE v
<1>1. Scale \in Nat
  BY ScoringAssumption
<1> DEFINE low == IF v > Scale THEN Scale ELSE v
<1>2. Min({Scale, v}) = low
  <2>1. low \in {Scale, v} /\ \A y \in {Scale, v} : low <= y
    BY <1>1
  <2>2. \A x \in {Scale, v} : (\A y \in {Scale, v} : x <= y) => x = low
    BY <1>1
  <2> HIDE DEF low
  <2>3. QED
    BY <2>1, <2>2 DEF Min
<1> DEFINE high == IF low < 0 THEN 0 ELSE low
<1>3. Max({0, low}) = high
  <2>1. low \in Int
    BY <1>1
  <2> HIDE DEF low
  <2>2. high \in {0, low} /\ \A y \in {0, low} : high >= y
    BY <2>1
  <2>3. \A x \in {0, low} : (\A y \in {0, low} : x >= y) => x = high
    BY <2>1
  <2> HIDE DEF high
  <2>4. QED
    BY <2>2, <2>3 DEF Max
<1>4. high = IF v < 0 THEN 0 ELSE IF v > Scale THEN Scale ELSE v
  BY <1>1
<1> HIDE DEF low, high
<1>5. QED
  BY <1>2, <1>3, <1>4

LEMMA CleanIs ==
  ASSUME NEW n \in Numbers
  PROVE  /\ Clean(n) \in Nat
         /\ n.kind # "finite" => Clean(n) = 0
         /\ n.kind = "finite" => n.value \in Int /\ (Clean(n) > 0 => Clean(n) <= n.value)
<1>1. Scale \in Nat
  BY ScoringAssumption
<1>2. CASE n.kind = "finite"
  <2>1. n.value \in Int
    <3>1. CASE n \in [kind : {"finite"}, value : -1 .. Scale + 1]
      <4>1. n.value \in -1 .. Scale + 1
        BY <3>1
      <4>2. QED
        BY <1>1, <4>1
    <3>2. CASE n \in [kind : {"not finite", "huge", "none"}, value : {0}]
      <4>1. n.value \in {0}
        BY <3>2
      <4>2. QED
        BY <4>1
    <3>3. QED
      BY <3>1, <3>2 DEF Numbers
  <2>2. Clean(n) = IF n.value < 0 THEN 0 ELSE IF n.value > Scale THEN Scale ELSE n.value
    BY <1>2, <2>1, Clamp DEF Clean
  <2>3. QED
    BY <1>1, <1>2, <2>1, <2>2
<1>3. CASE n.kind # "finite"
  BY <1>3 DEF Clean
<1>4. QED
  BY <1>2, <1>3

\* The sums: what each criterion weighs, and what it contributes.
WeightOf == [c \in Criteria |-> Weight[c]]
WorthOf(r) == [c \in Criteria |-> Weight[c] * Clean(r[c].score)]

LEMMA CriteriaAre ==
  /\ IsFiniteSet(Criteria)
  /\ \A c \in Criteria : Weight[c] \in Nat
<1>1. Weight \in Seq(Nat)
  BY ScoringAssumption
<1>2. Len(Weight) \in Nat /\ DOMAIN Weight = 1 .. Len(Weight)
      /\ \A c \in 1 .. Len(Weight) : Weight[c] \in Nat
  BY <1>1, LenProperties, ElementOfSeq
<1>3. QED
  BY <1>2, FS_Interval DEF Criteria

LEMMA WorthTypes ==
  ASSUME NEW r \in [Criteria -> Entries]
  PROVE  /\ WeightOf \in [Criteria -> Nat] /\ WorthOf(r) \in [Criteria -> Nat]
         /\ \A c \in Criteria : r[c].score \in Numbers
<1>1. \A c \in Criteria : r[c].score \in Numbers
  BY DEF Entries
<1>2. \A c \in Criteria : Weight[c] \in Nat /\ Clean(r[c].score) \in Nat
  BY <1>1, CleanIs, CriteriaAre
<1>3. \A c \in Criteria : Weight[c] * Clean(r[c].score) \in Nat
  BY <1>2
<1>4. QED
  BY <1>1, <1>2, <1>3 DEF WeightOf, WorthOf

LEMMA TotalIs ==
  TotalWeight \in Nat /\ TotalWeight > 0
<1> DEFINE S == Criteria
           Eq(h) == h = [s \in SUBSET S |->
                          IF s = {} THEN 0
                          ELSE Weight[CHOOSE x \in s : TRUE] + h[s \ {CHOOSE x \in s : TRUE}]]
           sum == MapThenSumSet(LAMBDA c : Weight[c], S)
<1>1. \A h : Eq(h) <=> IsSum(h, WeightOf, S)
  BY DEF IsSum, Pick, WeightOf
<1>2. sum = (CHOOSE h : Eq(h))[S]
  BY DEF MapThenSumSet, MapThenFoldSet
<1>3. IsFiniteSet(S) /\ WeightOf \in [S -> Nat]
  BY CriteriaAre DEF WeightOf
<1> HIDE DEF Eq, S
<1>4. sum \in Nat
  BY <1>1, <1>2, <1>3, SumExists, SumNat
<1>5. TotalWeight = IF sum = 0 THEN 1 ELSE sum
  BY DEF TotalWeight, S
<1> HIDE DEF sum
<1>6. QED
  BY <1>4, <1>5

LEMMA WeightedIs ==
  ASSUME NEW r \in [Criteria -> Entries]
  PROVE  \E h : IsSum(h, WorthOf(r), Criteria) /\ Weighted(r) = h[Criteria]
<1> DEFINE S == Criteria
           Eq(h) == h = [s \in SUBSET S |->
                          IF s = {} THEN 0
                          ELSE Weight[CHOOSE x \in s : TRUE]
                                 * Clean(r[CHOOSE x \in s : TRUE].score)
                               + h[s \ {CHOOSE x \in s : TRUE}]]
<1>1. \A h : Eq(h) <=> IsSum(h, WorthOf(r), S)
  BY DEF IsSum, Pick, WorthOf
<1>2. Weighted(r) = (CHOOSE h : Eq(h))[S]
  BY DEF Weighted, MapThenSumSet, MapThenFoldSet
<1> HIDE DEF Eq
<1>3. \E h : Eq(h)
  BY <1>1, CriteriaAre, WorthTypes, SumExists
<1>4. QED
  BY <1>1, <1>2, <1>3

-----------------------------------------------------------------------------
\* What is blended has parts with a number each, and a judgment is the response's.
ScoreInv ==
  /\ response \in {<<>>} \cup [Criteria -> Entries]
  /\ step # "asked" /\ ~verdict.raised => verdict = Judgment(response)
  /\ step = "blended" =>
       \E w \in [Components -> Nat], D \in (SUBSET Components) \ {{}} :
         \E q \in [D -> [num : Nat]] :
           mix = [parts |-> q, weights |-> w, blended |-> Mean(w, q)]

LEMMA JudgmentIs ==
  ASSUME NEW r \in [Criteria -> Entries], r # <<>>
  PROVE  LET j == Judgment(r)
             huge == \E c \in Criteria : r[c].score.kind = "huge"
         IN  /\ j.raised = huge
             /\ ~huge => /\ j.overall = Weighted(r)
                         /\ j.passed = (/\ Weighted(r) >= Threshold * TotalWeight
                                        /\ \A c \in Required : CriterionPasses(r[c]))
BY DEF Judgment, FailClosed

LEMMA WithoutIs ==
  ASSUME NEW r \in [Criteria -> Entries],
         NEW c \in Criteria
  PROVE  LET s == Without(r, c)
         IN  /\ s \in [Criteria -> Entries] /\ s # <<>>
             /\ s[c] = Absent /\ \A d \in Criteria : d # c => s[d] = r[d]
<1> DEFINE s == Without(r, c)
<1>1. Absent \in Entries
  <2>1. [kind |-> "none", value |-> 0] \in Numbers
    BY DEF Numbers
  <2>2. QED
    BY <2>1 DEF Absent, Entries
<1>2. /\ s \in [Criteria -> Entries]
      /\ s[c] = Absent /\ \A d \in Criteria : d # c => s[d] = r[d]
  BY <1>1 DEF Without
<1>3. s # <<>>
  <2>1. DOMAIN s # {}
    BY <1>2
  <2>2. DOMAIN <<>> = {}
    BY EmptySeq, LenProperties
  <2>3. QED
    BY <2>1, <2>2
<1>4. QED
  BY <1>2, <1>3

\* Verifier.verify fails closed: nothing an answer leaves out or garbles counts, and a
\* required criterion passes by a yes or by a real score of at least a half.
LEMMA EvidenceOf ==
  ASSUME NEW r \in [Criteria -> Entries], r # <<>>,
         ~Judgment(r).raised, NEW c \in Criteria
  PROVE  LET v == Judgment(r)
             less == Judgment(Without(r, c))
         IN  /\ less.passed => v.passed
             /\ IF r[c].score.kind = "finite" THEN less.overall <= v.overall
                                              ELSE less.overall = v.overall
             /\ v.passed /\ c \in Required =>
                  r[c].pass = "yes" \/ (r[c].score.kind = "finite" /\ 2 * r[c].score.value >= Scale)
<1> DEFINE v == Judgment(r)
           s == Without(r, c)
           less == Judgment(s)
<1>1. /\ s \in [Criteria -> Entries] /\ s # <<>>
      /\ s[c] = Absent /\ \A d \in Criteria : d # c => s[d] = r[d]
  BY WithoutIs
<1> HIDE DEF s
<1>2. /\ Absent.score \in Numbers /\ Clean(Absent.score) = 0
      /\ Absent.score.kind = "none" /\ Absent.pass = "unclear"
  BY DEF Absent, Clean, Numbers
<1>3. \A d \in Criteria : r[d].score.kind # "huge" /\ s[d].score.kind # "huge"
  BY <1>1, <1>2, JudgmentIs
<1>4. /\ v.overall = Weighted(r)
      /\ v.passed = (/\ Weighted(r) >= Threshold * TotalWeight
                     /\ \A d \in Required : CriterionPasses(r[d]))
  BY <1>3, JudgmentIs
<1>5. /\ less.overall = Weighted(s)
      /\ less.passed = (/\ Weighted(s) >= Threshold * TotalWeight
                        /\ \A d \in Required : CriterionPasses(s[d]))
  BY <1>1, <1>3, JudgmentIs
<1>6. Required \subseteq Criteria /\ Scale \in Nat \ {0} /\ Threshold \in Nat
  BY ScoringAssumption DEF Criteria
<1>7. /\ WorthOf(s) \in [Criteria -> Nat] /\ WorthOf(r) \in [Criteria -> Nat]
      /\ \A d \in Criteria : WorthOf(s)[d] <= WorthOf(r)[d]
      /\ r[c].score.kind # "finite" => WorthOf(s) = WorthOf(r)
  <2>1. /\ WorthOf(s) \in [Criteria -> Nat] /\ WorthOf(r) \in [Criteria -> Nat]
        /\ \A d \in Criteria : r[d].score \in Numbers
    BY <1>1, WorthTypes
  <2>2. WorthOf(s)[c] = 0
    <3>1. Weight[c] \in Nat
      BY CriteriaAre
    <3>2. WorthOf(s)[c] = Weight[c] * 0
      BY <1>1, <1>2 DEF WorthOf
    <3>3. QED
      BY <3>1, <3>2
  <2>3. \A d \in Criteria : d # c => WorthOf(s)[d] = WorthOf(r)[d]
    BY <1>1 DEF WorthOf
  <2>4. r[c].score.kind # "finite" => WorthOf(r)[c] = 0
    <3>1. Weight[c] \in Nat
      BY CriteriaAre
    <3>2. r[c].score.kind # "finite" => WorthOf(r)[c] = Weight[c] * 0
      BY DEF WorthOf, Clean
    <3>3. QED
      BY <3>1, <3>2
  <2>5. \A d \in Criteria : WorthOf(s)[d] <= WorthOf(r)[d]
    BY <2>1, <2>2, <2>3
  <2>6. r[c].score.kind # "finite" => WorthOf(s) = WorthOf(r)
    BY <2>1, <2>2, <2>3, <2>4
  <2>7. QED
    BY <2>1, <2>5, <2>6
<1>8. PICK g : IsSum(g, WorthOf(s), Criteria) /\ Weighted(s) = g[Criteria]
  BY <1>1, WeightedIs
<1>9. PICK h : IsSum(h, WorthOf(r), Criteria) /\ Weighted(r) = h[Criteria]
  BY WeightedIs
<1>10. Weighted(s) \in Nat /\ Weighted(r) \in Nat /\ Weighted(s) <= Weighted(r)
  <2>1. IsSum(g, WorthOf(s), Criteria) /\ IsSum(h, WorthOf(r), Criteria)
    BY <1>8, <1>9
  <2>2. /\ g[Criteria] \in Nat /\ h[Criteria] \in Nat
        /\ g[Criteria] <= h[Criteria]
    BY <1>7, <2>1, CriteriaAre, SumMonotone
  <2>3. QED
    BY <1>8, <1>9, <2>2
<1>11. r[c].score.kind # "finite" => Weighted(s) = Weighted(r)
  <2> SUFFICES ASSUME r[c].score.kind # "finite"  PROVE Weighted(s) = Weighted(r)
    OBVIOUS
  <2>1. IsSum(g, WorthOf(r), Criteria) /\ \A d \in Criteria : WorthOf(r)[d] <= WorthOf(r)[d]
    BY <1>7, <1>8
  <2>2. h[Criteria] <= g[Criteria]
    <3>1. IsSum(h, WorthOf(r), Criteria)
      BY <1>9
    <3>2. QED
      BY <1>7, <2>1, <3>1, CriteriaAre, SumMonotone
  <2>3. QED
    BY <1>8, <1>9, <1>10, <2>2
<1>12. less.passed => v.passed
  <2> SUFFICES ASSUME less.passed  PROVE v.passed
    OBVIOUS
  <2>1. Weighted(s) >= Threshold * TotalWeight /\ Threshold * TotalWeight \in Nat
    <3>1. Threshold \in Nat /\ TotalWeight \in Nat /\ \A a, b \in Nat : a * b \in Nat
      BY <1>6, TotalIs
    <3>2. Threshold * TotalWeight \in Nat
      BY <3>1
    <3>3. QED
      BY <1>5, <3>2
  <2>2. Weighted(r) >= Threshold * TotalWeight
    BY <1>10, <2>1
  <2>3. ~CriterionPasses(s[c])
    BY <1>1, <1>2, <1>6 DEF CriterionPasses
  <2>4. ASSUME NEW d \in Required  PROVE CriterionPasses(r[d])
    BY <1>1, <1>5, <1>6, <2>3
  <2>5. QED
    BY <1>4, <2>2, <2>4
<1>13. v.passed /\ c \in Required =>
         r[c].pass = "yes" \/ (r[c].score.kind = "finite" /\ 2 * r[c].score.value >= Scale)
  <2> SUFFICES ASSUME v.passed, c \in Required, r[c].pass # "yes"
               PROVE  r[c].score.kind = "finite" /\ 2 * r[c].score.value >= Scale
    OBVIOUS
  <2>1. 2 * Clean(r[c].score) >= Scale
    BY <1>4 DEF CriterionPasses
  <2>2. /\ Clean(r[c].score) \in Nat
        /\ r[c].score.kind # "finite" => Clean(r[c].score) = 0
        /\ r[c].score.kind = "finite" =>
             /\ r[c].score.value \in Int
             /\ Clean(r[c].score) > 0 => Clean(r[c].score) <= r[c].score.value
    BY WorthTypes, CleanIs
  <2>3. Clean(r[c].score) > 0
    BY <1>6, <2>1, <2>2
  <2>4. QED
    BY <1>6, <2>1, <2>2, <2>3
<1> HIDE DEF v, less
<1>14. IF r[c].score.kind = "finite" THEN less.overall <= v.overall ELSE less.overall = v.overall
  BY <1>4, <1>5, <1>10, <1>11
<1>15. QED
  BY <1>12, <1>13, <1>14 DEF v, less, s

-----------------------------------------------------------------------------
\* The blend.

\* The sums of Mean.
PlainSum(u, D) == MapThenSumSet(LAMBDA k : u[k], D)
ProductSum(u, q, D) == MapThenSumSet(LAMBDA k : u[k] * q[k].num, D)
Used(w, D) == [k \in D |-> IF PlainSum(w, D) = 0 THEN 1 ELSE w[k]]

LEMMA MeanSums ==
  ASSUME NEW w, NEW q
  PROVE  Mean(w, q) = [num |-> ProductSum(Used(w, DOMAIN q), q, DOMAIN q),
                             den |-> PlainSum(Used(w, DOMAIN q), DOMAIN q)]
BY DEF Mean, Used, PlainSum, ProductSum

LEMMA MapSum ==
  ASSUME NEW D, IsFiniteSet(D), NEW w, NEW u \in [D -> Nat], \A k \in D : u[k] = w[k]
  PROVE  \E h : IsSum(h, u, D) /\ PlainSum(w, D) = h[D]
<1> DEFINE Eq(h) == h = [s \in SUBSET D |->
                          IF s = {} THEN 0
                          ELSE w[CHOOSE x \in s : TRUE] + h[s \ {CHOOSE x \in s : TRUE}]]
<1>1. \A s \in SUBSET D : s # {} => u[Pick(s)] = w[Pick(s)]
  BY SmallerSubset
<1>2. \A h : Eq(h) <=> IsSum(h, u, D)
  BY <1>1 DEF IsSum, Pick
<1>3. PlainSum(w, D) = (CHOOSE h : Eq(h))[D]
  BY DEF PlainSum, MapThenSumSet, MapThenFoldSet
<1> HIDE DEF Eq
<1>4. \E h : Eq(h)
  BY <1>2, SumExists
<1>5. QED
  BY <1>2, <1>3, <1>4

LEMMA MapProductSum ==
  ASSUME NEW D, IsFiniteSet(D), NEW u, NEW q, NEW f \in [D -> Nat],
         \A k \in D : f[k] = u[k] * q[k].num
  PROVE  \E h : IsSum(h, f, D) /\ ProductSum(u, q, D) = h[D]
<1> DEFINE Eq(h) == h = [s \in SUBSET D |->
                          IF s = {} THEN 0
                          ELSE u[CHOOSE x \in s : TRUE] * q[CHOOSE x \in s : TRUE].num
                               + h[s \ {CHOOSE x \in s : TRUE}]]
<1>1. \A s \in SUBSET D : s # {} => f[Pick(s)] = u[Pick(s)] * q[Pick(s)].num
  BY SmallerSubset
<1>2. \A h : Eq(h) <=> IsSum(h, f, D)
  BY <1>1 DEF IsSum, Pick
<1>3. ProductSum(u, q, D) = (CHOOSE h : Eq(h))[D]
  BY DEF ProductSum, MapThenSumSet, MapThenFoldSet
<1> HIDE DEF Eq
<1>4. \E h : Eq(h)
  BY <1>2, SumExists
<1>5. QED
  BY <1>2, <1>3, <1>4

\* A weighted mean of numbers, the weights of which are not all zero, lies between
\* any bounds of the numbers that have a weight.
LEMMA MeanBetween ==
  ASSUME NEW D, IsFiniteSet(D), NEW u \in [D -> Nat], NEW q \in [D -> [num : Nat]],
         \E k \in D : u[k] > 0
  PROVE  LET den == PlainSum(u, D)
             num == ProductSum(u, q, D)
         IN  /\ den > 0
             /\ \A m \in Nat : (\A k \in D : u[k] > 0 => m <= q[k].num) => m * den <= num
             /\ \A m \in Nat : (\A k \in D : u[k] > 0 => q[k].num <= m) => num <= m * den
<1> DEFINE den == PlainSum(u, D)
           num == ProductSum(u, q, D)
           f == [k \in D |-> u[k] * q[k].num]
<1>1. \A a, b \in Nat : a * b \in Nat /\ a * b = b * a
  OBVIOUS
<1>2. \A k \in D : u[k] \in Nat /\ q[k].num \in Nat
  OBVIOUS
<1>3. f \in [D -> Nat] /\ \A k \in D : f[k] = u[k] * q[k].num
  BY <1>1, <1>2
<1> HIDE DEF f
<1>4. PICK hd : IsSum(hd, u, D) /\ den = hd[D]
  BY <1>2, MapSum
<1>5. PICK hn : IsSum(hn, f, D) /\ num = hn[D]
  BY <1>3, MapProductSum
<1> HIDE DEF den, num
<1>6. IsSum(hd, u, D) /\ IsSum(hn, f, D)
  BY <1>4, <1>5
<1>7. hd[D] \in Nat /\ \A k \in D : u[k] <= hd[D]
  BY <1>6, SumNat, SumAbove
<1>8. den > 0
  BY <1>2, <1>4, <1>7
<1>9. ASSUME NEW m \in Nat
      PROVE  /\ (\A k \in D : u[k] > 0 => m <= q[k].num) => m * den <= num
             /\ (\A k \in D : u[k] > 0 => q[k].num <= m) => num <= m * den
  <2> DEFINE v == [k \in D |-> m * u[k]]
  <2>1. v \in [D -> Nat] /\ \A k \in D : v[k] = m * u[k]
    BY <1>1, <1>2
  <2> HIDE DEF v
  <2>2. PICK g : IsSum(g, v, D)
    BY <2>1, SumExists
  <2>3. g[D] = m * hd[D]
    BY <1>6, <2>1, <2>2, SumScaled
  <2>4. \A a, b, c \in Nat : (a > 0 => b <= c) => b * a <= a * c
    OBVIOUS
  <2>5. \A a, b, c \in Nat : (a > 0 => c <= b) => a * c <= b * a
    OBVIOUS
  <2>6. ASSUME \A k \in D : u[k] > 0 => m <= q[k].num  PROVE m * den <= num
    <3>1. \A k \in D : v[k] <= f[k]
      BY <1>2, <1>3, <2>1, <2>4, <2>6
    <3>2. g[D] <= hn[D]
      BY <1>3, <1>6, <2>1, <2>2, <3>1, SumMonotone
    <3>3. QED
      BY <1>4, <1>5, <2>3, <3>2
  <2>7. ASSUME \A k \in D : u[k] > 0 => q[k].num <= m  PROVE num <= m * den
    <3>1. \A k \in D : f[k] <= v[k]
      BY <1>2, <1>3, <2>1, <2>5, <2>7
    <3>2. hn[D] <= g[D]
      BY <1>3, <1>6, <2>1, <2>2, <3>1, SumMonotone
    <3>3. QED
      BY <1>4, <1>5, <2>3, <3>2
  <2>8. QED
    BY <2>6, <2>7
<1>10. QED
  BY <1>8, <1>9 DEF den, num

\* Renormalised, or a plain mean when all weights are zero.
LEMMA MeanIs ==
  ASSUME NEW D, D # {}, IsFiniteSet(D), NEW w, \A k \in D : w[k] \in Nat,
         NEW q \in [D -> [num : Nat]]
  PROVE  LET mean == Mean(w, q)
             counts == {k \in D : w[k] > 0}
             C == IF counts = {} THEN D ELSE counts
         IN  /\ mean.den > 0
             /\ \A m \in Nat : (\A k \in C : m <= q[k].num) => m * mean.den <= mean.num
             /\ \A m \in Nat : (\A k \in C : q[k].num <= m) => mean.num <= m * mean.den
<1> DEFINE mean == Mean(w, q)
           counts == {k \in D : w[k] > 0}
           C == IF counts = {} THEN D ELSE counts
           t == [k \in D |-> w[k]]
           sum == PlainSum(w, D)
           u == Used(w, D)
<1>1. t \in [D -> Nat] /\ \A k \in D : t[k] = w[k]
  OBVIOUS
<1>2. \E h : IsSum(h, t, D) /\ sum = h[D]
  BY <1>1, MapSum
<1>3. u \in [D -> {1} \cup Nat] /\ \A k \in D : u[k] = IF sum = 0 THEN 1 ELSE w[k]
  BY DEF Used
<1>4. mean.den = PlainSum(u, D) /\ mean.num = ProductSum(u, q, D)
  BY MeanSums
<1> HIDE DEF t, sum, mean, u
<1>5. PICK h : IsSum(h, t, D) /\ sum = h[D]
  BY <1>2
<1>6. h[D] \in Nat /\ \A k \in D : t[k] <= h[D]
  BY <1>1, <1>5, SumNat, SumAbove
<1>7. sum # 0 => counts # {}
  <2> SUFFICES ASSUME counts = {}  PROVE sum = 0
    OBVIOUS
  <2>1. \A k \in D : t[k] = 0 * t[k]
    BY <1>1
  <2>2. IsSum(h, t, D)
    BY <1>5
  <2>3. h[D] = 0 * h[D]
    BY <1>1, <2>1, <2>2, SumScaled
  <2>4. QED
    BY <1>5, <1>6, <2>3
<1>8. sum = 0 => counts = {}
  BY <1>1, <1>5, <1>6
<1>9. u \in [D -> Nat] /\ (\E k \in D : u[k] > 0) /\ \A k \in D : u[k] > 0 => k \in C
  BY <1>3, <1>7, <1>8
<1>10. /\ mean.den > 0
       /\ \A m \in Nat : (\A k \in D : u[k] > 0 => m <= q[k].num) => m * mean.den <= mean.num
       /\ \A m \in Nat : (\A k \in D : u[k] > 0 => q[k].num <= m) => mean.num <= m * mean.den
  BY <1>4, <1>9, MeanBetween
<1> HIDE DEF C, counts
<1>11. QED
  BY <1>9, <1>10 DEF mean, C, counts

LEMMA OverallType ==
  ASSUME NEW r \in {<<>>} \cup [Criteria -> Entries],
         ~Judgment(r).raised
  PROVE  Judgment(r).overall \in Nat
<1>1. CASE r = <<>>
  BY <1>1 DEF Judgment, FailClosed
<1>2. CASE r # <<>>
  <2>1. r \in [Criteria -> Entries]
    BY <1>2
  <2>2. Judgment(r).overall = Weighted(r)
    BY <1>2, <2>1, JudgmentIs
  <2>3. PICK h : IsSum(h, WorthOf(r), Criteria) /\ Weighted(r) = h[Criteria]
    BY <2>1, WeightedIs
  <2>4. h[Criteria] \in Nat
    <3>1. IsSum(h, WorthOf(r), Criteria)
      BY <2>3
    <3>2. QED
      BY <2>1, <3>1, WorthTypes, CriteriaAre, SumNat
  <2>5. QED
    BY <2>2, <2>3, <2>4
<1>3. QED
  BY <1>1, <1>2

LEMMA PartsType ==
  ASSUME verdict.overall \in Nat,
         NEW D \in SUBSET Components, NEW n \in Nat, NEW det \in [1 .. n -> Inputs],
         NEW human \in Inputs
  PROVE  BlendParts(D, det, human) \in [D -> [num : Nat]]
<1>1. det \in Seq(Inputs) /\ Len(det) = n /\ DOMAIN det = 1 .. n
  BY FunctionIsSeq
<1>2. \A a, b \in Nat : a * b \in Nat
  OBVIOUS
<1>3. Inputs \subseteq Numbers
  BY ScoringAssumption
<1> DEFINE most == Max({1, Len(det)})
           sum == MapThenSumSet(LAMBDA i : Clean(det[i]), DOMAIN det)
<1>4. most \in Nat
  <2> DEFINE high == IF 1 >= n THEN 1 ELSE n
  <2>1. high \in {1, n} /\ \A y \in {1, n} : high >= y
    OBVIOUS
  <2>2. \A x \in {1, n} : (\A y \in {1, n} : x >= y) => x = high
    OBVIOUS
  <2>3. high \in Nat
    OBVIOUS
  <2> HIDE DEF high
  <2>4. most = high
    BY <1>1, <2>1, <2>2 DEF Max
  <2>5. QED
    BY <2>3, <2>4
<1>5. sum \in Nat
  <2> DEFINE S == 1 .. n
             u == [i \in S |-> Clean(det[i])]
             Eq(h) == h = [s \in SUBSET S |->
                            IF s = {} THEN 0
                            ELSE Clean(det[CHOOSE x \in s : TRUE])
                                 + h[s \ {CHOOSE x \in s : TRUE}]]
  <2>1. IsFiniteSet(S)
    BY FS_Interval
  <2>2. \A i \in S : det[i] \in Numbers
    BY <1>3
  <2>3. u \in [S -> Nat]
    BY <2>2, CleanIs
  <2>4. \A h : Eq(h) <=> IsSum(h, u, S)
    BY DEF IsSum, Pick
  <2>5. sum = (CHOOSE h : Eq(h))[S]
    BY <1>1 DEF MapThenSumSet, MapThenFoldSet
  <2> HIDE DEF Eq, S, u, sum
  <2>6. QED
    BY <2>1, <2>3, <2>4, <2>5, SumExists, SumNat
<1>6. Clean(human) \in Nat /\ TotalWeight \in Nat
  BY <1>3, CleanIs, TotalIs
<1> HIDE DEF most, sum
<1>7. /\ sum * TotalWeight \in Nat /\ verdict.overall * most \in Nat
      /\ Clean(human) * most * TotalWeight \in Nat
  <2>1. Clean(human) * most \in Nat
    BY <1>2, <1>4, <1>6
  <2>2. QED
    BY <1>2, <1>4, <1>5, <1>6, <2>1
<1>8. BlendParts(D, det, human) =
        [k \in D |->
          [num |-> CASE k = "deterministic" -> sum * TotalWeight
                     [] k = "judge" -> verdict.overall * most
                     [] k = "human" -> Clean(human) * most * TotalWeight]]
  BY DEF BlendParts, most, sum
<1> DEFINE part(k) == CASE k = "deterministic" -> sum * TotalWeight
                        [] k = "judge" -> verdict.overall * most
                        [] k = "human" -> Clean(human) * most * TotalWeight
<1>9. ASSUME NEW k \in D  PROVE part(k) \in Nat
  <2>1. CASE k = "deterministic"
    BY <1>7, <2>1
  <2>2. CASE k = "judge"
    BY <1>7, <2>2
  <2>3. CASE k = "human"
    BY <1>7, <2>3
  <2>4. QED
    BY <2>1, <2>2, <2>3 DEF Components
<1>10. BlendParts(D, det, human) = [k \in D |-> [num |-> part(k)]]
  BY <1>8
<1> HIDE DEF part
<1>11. QED
  BY <1>9, <1>10

LEMMA VerifyStep ==
  ASSUME ScoreInv, Verify
  PROVE  ScoreInv'
BY DEF ScoreInv, Verify, FailClosed

LEMMA BlendStep ==
  ASSUME ScoreInv, Blend
  PROVE  ScoreInv'
<1>1. /\ step = "judged" /\ ~verdict.raised /\ step' = "blended"
      /\ UNCHANGED <<response, verdict>>
  BY DEF Blend
<1>2. /\ response \in {<<>>} \cup [Criteria -> Entries]
      /\ verdict = Judgment(response)
  BY <1>1 DEF ScoreInv
<1>3. PICK w \in BlendWeights, D \in (SUBSET Components) \ {{}}, n \in Lengths,
           human \in Inputs :
        \E det \in [1 .. n -> Inputs] :
          /\ \A k \in Components : w[k] >= 0
          /\ LET parts == BlendParts(D, det, human) IN
             mix' = [parts |-> parts, weights |-> w, blended |-> Mean(w, parts)]
  BY DEF Blend
<1>4. PICK det \in [1 .. n -> Inputs] :
        /\ \A k \in Components : w[k] >= 0
        /\ LET parts == BlendParts(D, det, human) IN
           mix' = [parts |-> parts, weights |-> w, blended |-> Mean(w, parts)]
  BY <1>3
<1>5. w \in [Components -> Nat]
  <2>1. w \in [Components -> Int]
    BY ScoringAssumption
  <2>2. QED
    BY <1>4, <2>1
<1> DEFINE q == BlendParts(D, det, human)
<1>6. q \in [D -> [num : Nat]]
  <2>1. verdict.overall \in Nat
    BY <1>1, <1>2, OverallType
  <2>2. n \in Nat
    BY ScoringAssumption
  <2>3. QED
    BY <2>1, <2>2, PartsType
<1>7. mix' = [parts |-> q, weights |-> w, blended |-> Mean(w, q)]
  BY <1>4
<1> HIDE DEF q
<1>8. \E v \in [Components -> Nat], E \in (SUBSET Components) \ {{}} :
        \E r \in [E -> [num : Nat]] :
          mix' = [parts |-> r, weights |-> v, blended |-> Mean(v, r)]
  BY <1>5, <1>6, <1>7
<1>9. QED
  BY <1>1, <1>2, <1>8 DEF ScoreInv

\* What Verify and Blend leave, for any answer, weights and scores.
THEOREM ScoringInvariant == ScoreSpec => []ScoreInv
<1>1. ScoreInit => ScoreInv
  BY DEF ScoreInit, ScoreInv
<1>2. ASSUME ScoreInv, [ScoreNext]_scoreVars  PROVE ScoreInv'
  <2>1. CASE UNCHANGED scoreVars
    BY <1>2, <2>1 DEF ScoreInv, scoreVars
  <2>2. QED
    BY <1>2, <2>1, VerifyStep, BlendStep DEF ScoreNext
<1>3. QED
  BY <1>1, <1>2, PTL DEF ScoreSpec

\* Verifier.verify fails closed, for any rubric and any answer of the judge: see
\* PassNeedsEvidence.
THEOREM PassesNeedEvidence == ScoreSpec => []PassNeedsEvidence
<1>1. ASSUME ScoreInv  PROVE PassNeedsEvidence
  <2> SUFFICES ASSUME step # "asked", ~verdict.raised  PROVE PassNeedsEvidence
    BY DEF PassNeedsEvidence
  <2>1. /\ response \in {<<>>} \cup [Criteria -> Entries]
        /\ verdict = Judgment(response)
    BY <1>1 DEF ScoreInv
  <2>2. response = <<>> => ~verdict.passed
    BY <2>1 DEF Judgment, FailClosed
  <2>3. ASSUME response # <<>>, NEW c \in Criteria
        PROVE  LET e == response[c]
                   less == Judgment(Without(response, c)) IN
               /\ less.passed => verdict.passed
               /\ IF e.score.kind = "finite" THEN less.overall <= verdict.overall
                                             ELSE less.overall = verdict.overall
               /\ verdict.passed /\ c \in Required =>
                     e.pass = "yes" \/ (e.score.kind = "finite" /\ 2 * e.score.value >= Scale)
    <3>1. response \in [Criteria -> Entries] /\ ~Judgment(response).raised
      BY <2>1, <2>3
    <3>2. QED
      BY <2>1, <2>3, <3>1, EvidenceOf
  <2>4. QED
    BY <2>2, <2>3 DEF PassNeedsEvidence
<1>2. QED
  BY <1>1, ScoringInvariant, PTL

\* blend() stays between the worst and the best component that has a weight, for any
\* weights and scores, whatever is left out.
THEOREM BlendsAreBetween == ScoreSpec => []BlendIsBetween
<1>1. ASSUME ScoreInv  PROVE BlendIsBetween
  <2> SUFFICES ASSUME step = "blended"  PROVE BlendIsBetween
    BY DEF BlendIsBetween
  <2>1. PICK w \in [Components -> Nat], D \in (SUBSET Components) \ {{}} :
          \E q \in [D -> [num : Nat]] :
            mix = [parts |-> q, weights |-> w, blended |-> Mean(w, q)]
    BY <1>1 DEF ScoreInv
  <2>2. PICK q \in [D -> [num : Nat]] :
          mix = [parts |-> q, weights |-> w, blended |-> Mean(w, q)]
    BY <2>1
  <2> DEFINE counts == {k \in D : w[k] > 0}
             C == IF counts = {} THEN D ELSE counts
             nums == {q[k].num : k \in C}
             mean == Mean(w, q)
  <2>3. IsFiniteSet(D) /\ D # {} /\ \A k \in D : w[k] \in Nat /\ q[k].num \in Nat
    <3>1. IsFiniteSet({"deterministic"} \cup {"judge"}) /\ IsFiniteSet({"deterministic"})
      BY FS_Singleton, FS_AddElement
    <3>2. IsFiniteSet(({"deterministic"} \cup {"judge"}) \cup {"human"})
      BY <3>1, FS_AddElement
    <3>3. Components = ({"deterministic"} \cup {"judge"}) \cup {"human"}
      BY DEF Components
    <3>4. IsFiniteSet(Components)
      BY <3>2, <3>3
    <3>5. IsFiniteSet(D) /\ D # {}
      BY <3>4, FS_Subset
    <3>6. \A k \in D : w[k] \in Nat /\ q[k].num \in Nat
      OBVIOUS
    <3>7. QED
      BY <3>5, <3>6
  <2>4. /\ mean.den > 0
        /\ \A m \in Nat : (\A k \in C : m <= q[k].num) => m * mean.den <= mean.num
        /\ \A m \in Nat : (\A k \in C : q[k].num <= m) => mean.num <= m * mean.den
    BY <2>3, MeanIs
  <2>5. C # {} /\ C \subseteq D
    BY <2>3
  <2> HIDE DEF C, mean
  <2>6. nums \subseteq Nat /\ nums # {}
    BY <2>3, <2>5
  <2>7. Min(nums) \in nums /\ \A x \in nums : Min(nums) <= x
    BY <2>6, MinIs DEF Min
  <2>8. Max(nums) \in nums /\ \A x \in nums : x <= Max(nums)
    <3> DEFINE f == [k \in D |-> q[k].num]
    <3>1. f \in [D -> Nat] /\ \A k \in D : f[k] = q[k].num
      BY <2>3
    <3> HIDE DEF f
    <3>2. PICK h : IsSum(h, f, D)
      BY <2>3, <3>1, SumExists
    <3>3. h[D] \in Nat /\ \A k \in D : f[k] <= h[D]
      BY <2>3, <3>1, <3>2, SumNat, SumAbove
    <3>4. \A x \in nums : x \in 0 .. h[D]
      BY <2>3, <2>5, <3>1, <3>3
    <3>5. \E m \in nums : \A x \in nums : m >= x
      <4> HIDE DEF nums
      <4>1. nums \in SUBSET (0 .. h[D])
        BY <3>4
      <4>2. QED
        BY <2>6, <3>3, <4>1, MaxIs
    <3>6. Max(nums) \in nums /\ \A x \in nums : Max(nums) >= x
      <4> HIDE DEF nums
      <4>1. QED
        BY <3>5 DEF Max
    <3>7. \A x \in nums : x <= Max(nums)
      <4> HIDE DEF nums
      <4>1. QED
        BY <2>6, <3>6
    <3>8. QED
      BY <3>6, <3>7
  <2>9. \A k \in C : q[k].num \in nums
    OBVIOUS
  <2> HIDE DEF nums
  <2>10. Min(nums) \in Nat /\ Max(nums) \in Nat
    BY <2>6, <2>7, <2>8
  <2>11. \A k \in C : Min(nums) <= q[k].num /\ q[k].num <= Max(nums)
    BY <2>7, <2>8, <2>9
  <2>12. mean.num >= Min(nums) * mean.den /\ mean.num <= Max(nums) * mean.den
    <3>1. Min(nums) * mean.den <= mean.num /\ mean.num <= Max(nums) * mean.den
      BY <2>4, <2>10, <2>11
    <3>2. QED
      BY <3>1
  <2>13. /\ mix.blended = mean /\ DOMAIN mix.parts = D
         /\ {k \in DOMAIN mix.parts : mix.weights[k] > 0} = counts
         /\ {mix.parts[k].num : k \in IF counts = {} THEN DOMAIN mix.parts ELSE counts} = nums
    BY <2>2 DEF mean, nums, C
  <2> HIDE DEF counts
  <2>14. QED
    BY <2>4, <2>12, <2>13 DEF BlendIsBetween
<1>2. QED
  BY <1>1, ScoringInvariant, PTL
=============================================================================
