------------------------------ MODULE EvalGate ------------------------------
(***************************************************************************)
(* The regression gate of stage 1: `awh eval` scores the golden set of a   *)
(* change (harness/cli.py _cmd_eval, goldenset.py load_tasks), may write   *)
(* the report, and compares it with a baseline report (runner.py gate);    *)
(* a change lands on exit status 0.  From time to time the operator        *)
(* captures a new baseline of what has landed, with new tasks or weights.  *)
(*                                                                         *)
(* What the gate sees of a revision is its report: for every task the      *)
(* golden set lists, its weight and the number of seeds it passes at.      *)
(* Rates are compared in units of 1/SeedCount.  A weight is compared with  *)
(* 0 only, which NaN and infinity pass: the weight 0 stands for these two. *)
(***************************************************************************)
EXTENDS Integers, FiniteSets, FiniteSetsExt

CONSTANTS TaskIds, SeedCount, Weights,
          MaxRegression,  \* --max-regression, in 1/SeedCount
          SameFile,       \* --out names the baseline's own file
          MaxRefresh,     \* bound: baselines the operator captures
          MaxChanges      \* bound: changes brought to the gate

ASSUME EvalGateAssumption ==
    /\ IsFiniteSet(TaskIds) /\ SeedCount \in Nat \ {0}
    /\ Weights \subseteq Nat /\ MaxRegression \in 0 .. SeedCount
    /\ SameFile \in BOOLEAN /\ MaxRefresh \in Nat /\ MaxChanges \in Nat

VARIABLES main,      \* the report of the landed revision
          baseline,  \* the report in the baseline file
          marks,     \* history: of every task captured last, its passes
                     \* when it was first, and the captures since
          refreshes, changes
gateVars == <<main, baseline, marks, refreshes, changes>>

Scores == [weight : Weights, passes : 0 .. SeedCount]
(* load_tasks refuses a set that lists no task and a weight that is zero   *)
(* or negative; evaluate refuses an empty list of seeds.                   *)
Reports == UNION {[T -> Scores] : T \in (SUBSET TaskIds) \ {{}}}

(* weighted_pass_at_1, as numerator and denominator; with a weight that is *)
(* not finite it is not a number.                                          *)
Finite(r) == \A t \in DOMAIN r : r[t].weight # 0
WeightSum(r) == MapThenSumSet(LAMBDA t : r[t].weight, DOMAIN r)
PassSum(r) == MapThenSumSet(LAMBDA t : r[t].weight * r[t].passes, DOMAIN r)

(* A task regresses when its rate dropped by more than the tolerance, or   *)
(* when the baseline does not know it.                                     *)
Regresses(t, current, base) ==
    \/ t \notin DOMAIN base
    \/ base[t].passes - current[t].passes > MaxRegression

(* A comparison with what is not a number is false.                        *)
(* (Mutant: the sign of the delta is lost: gains count as losses.)         *)
AggregateRegressedReversed(current, base) ==
    /\ Finite(current) /\ Finite(base)
    /\ PassSum(current) * WeightSum(base) - PassSum(base) * WeightSum(current)
          > MaxRegression * WeightSum(base) * WeightSum(current)

AggregateRegressed(current, base) ==
    /\ Finite(current) /\ Finite(base)
    /\ PassSum(base) * WeightSum(current) - PassSum(current) * WeightSum(base)
          > MaxRegression * WeightSum(base) * WeightSum(current)

(* (Mutant: only the aggregate is gated.)                                  *)
GateOnAggregate(current, base) == ~AggregateRegressed(current, base)

GatePasses(current, base) ==
    /\ \A t \in DOMAIN current : ~Regresses(t, current, base)
    /\ ~AggregateRegressed(current, base)

-----------------------------------------------------------------------------
(* common/stats.py: what a report says of the reliability of a task that   *)
(* passes at c of n seeds, as numerator and denominator.                   *)
ProductOver(k, Factor(_)) == FoldSet(LAMBDA i, p : p * Factor(i), 1, 0 .. k - 1)

(* (Mutant: the samples are drawn with replacement.)                       *)
PassAtKWithReplacement(n, c, k) ==
    [num |-> ProductOver(k, LAMBDA i : n) - ProductOver(k, LAMBDA i : n - c),
     den |-> ProductOver(k, LAMBDA i : n)]

(* pass_at_k: one less the product of the chances that each sample fails.  *)
PassAtK(n, c, k) ==
    IF n - c < k THEN [num |-> 1, den |-> 1]
    ELSE LET all == ProductOver(k, LAMBDA i : n - i)
         IN  [num |-> all - ProductOver(k, LAMBDA i : n - c - i), den |-> all]

Comb(n, k) == ProductOver(k, LAMBDA i : n - i) \div ProductOver(k, LAMBDA i : i + 1)
PassHatK(n, c, k) == IF c < k THEN [num |-> 0, den |-> 1]
                              ELSE [num |-> Comb(c, k), den |-> Comb(n, k)]

-----------------------------------------------------------------------------
Fresh(score) == [passes |-> score.passes, age |-> 0]

GateInit == /\ main \in Reports /\ baseline = main
            /\ marks = [t \in DOMAIN main |-> Fresh(main[t])]
            /\ refreshes = 0 /\ changes = 0

(* A change is evaluated; --out is written before --baseline is read.      *)
Gate(report) ==
    /\ changes < MaxChanges
    /\ changes' = changes + 1
    /\ baseline' = IF SameFile THEN report ELSE baseline
    /\ main' = IF GatePasses(report, baseline') THEN report ELSE main
    /\ UNCHANGED <<marks, refreshes>>

(* `awh eval --out` of what has landed, without a gate: the operator may   *)
(* have added tasks to the golden set or weighted it anew.                 *)
Refresh(report) ==
    /\ refreshes < MaxRefresh
    /\ DOMAIN main \subseteq DOMAIN report
    /\ \A t \in DOMAIN main : report[t].passes = main[t].passes
    /\ refreshes' = refreshes + 1
    /\ baseline' = report /\ main' = report
    /\ marks' = [t \in DOMAIN report |->
                    IF t \in DOMAIN main \cap DOMAIN marks
                      THEN [marks[t] EXCEPT !.age = @ + 1]
                      ELSE Fresh(report[t])]
    /\ UNCHANGED changes

GateNext == \E report \in Reports : Gate(report) \/ Refresh(report)
GateSpec == GateInit /\ [][GateNext]_gateVars
-----------------------------------------------------------------------------
(* However many changes land between two captures, a task loses at most    *)
(* the tolerance there ("fail if any task (or the aggregate) dropped by    *)
(* more than max_regression vs the baseline"): a listed task was measured, *)
(* and is no further below its passes at its first capture than one        *)
(* tolerance for each capture since, and one more.                         *)
DriftIsBounded == \A t \in DOMAIN main :
    /\ t \in DOMAIN marks
    /\ main[t].passes >= marks[t].passes - (marks[t].age + 1) * MaxRegression

(* The gate blocks nothing that is nowhere worse than the baseline.        *)
ImprovementsPass == \A report \in Reports :
    /\ DOMAIN report = DOMAIN baseline
    /\ \A t \in DOMAIN report :
          /\ report[t].weight = baseline[t].weight
          /\ report[t].passes >= baseline[t].passes
    => GatePasses(report, baseline)

(* pass@k and pass^k of a reported task are the shares of the sets of k    *)
(* seeds of which one passes, and of which all do, at every k up to the    *)
(* number of seeds.                                                        *)
EstimatorsCountSamples == \A t \in DOMAIN main : \A k \in 1 .. SeedCount :
    LET c == main[t].passes
        samples == kSubset(k, 1 .. SeedCount)
        Share(q, S) == q.num * Cardinality(samples) = q.den * Cardinality(S)
    IN  /\ Share(PassAtK(SeedCount, c, k), {S \in samples : S \cap (1 .. c) # {}})
        /\ Share(PassHatK(SeedCount, c, k), {S \in samples : S \subseteq 1 .. c})

(* No task of the captured baseline stops being gated because a change     *)
(* leaves it out ("a silently-dropped eval task is a silently-weakened     *)
(* gate", load_tasks).                                                     *)
NoTaskDropped == DOMAIN marks \subseteq DOMAIN main

(* Nor does the aggregate stop being gated.                                *)
AggregateIsGated == Finite(baseline) => Finite(main)
=============================================================================
