------------------------------- MODULE Scoring -------------------------------
(***************************************************************************)
(* How stage 2 turns a judge's answer into a verdict and a score: Verifier *)
(* .verify and parse_judgment (harness/stage2_structural/verifier.py), and *)
(* blend (scorermix.py), which mixes the judge's score with deterministic  *)
(* ones and a human's.  The judge is a model: its answer may be anything.  *)
(*                                                                         *)
(* A score is counted in 1/Scale; a quotient is kept as numerator and      *)
(* denominator, where the code rounds to floats.                           *)
(***************************************************************************)
EXTENDS Integers, Sequences, FiniteSetsExt

CONSTANTS Weight,        \* the rubric: the weight of each criterion, in order
          Required,      \* the criteria whose failure fails the whole
          Threshold,     \* pass_threshold, in 1/Scale
          Scale,
          BlendWeights,  \* the weights blend is given, one function each
          Inputs,        \* bound: scores the other scorers return
          Lengths        \* bound: lengths of a sequence of deterministic scores

Criteria == DOMAIN Weight
Components == {"deterministic", "judge", "human"}

(* What stands where a score is expected: something float takes (a number, *)
(* in range or not, true, or a string such as "0.9"), something not finite *)
(* (json.loads reads NaN and Infinity), an integer too long for a float, or*)
(* nothing float takes.                                                    *)
Numbers == [kind : {"finite"}, value : -1 .. Scale + 1]
           \cup [kind : {"not finite", "huge", "none"}, value : {0}]
Entries == [score : Numbers, pass : {"yes", "no", "unclear"}]
Absent == [score |-> [kind |-> "none", value |-> 0], pass |-> "unclear"]

ASSUME ScoringAssumption ==
    /\ Weight \in Seq(Nat) /\ Required \subseteq DOMAIN Weight
    /\ Scale \in Nat \ {0} /\ Threshold \in 0 .. Scale
    /\ BlendWeights \subseteq [Components -> Int] /\ Lengths \subseteq Nat
    /\ Inputs \subseteq {n \in Numbers : n.kind # "huge"}

VARIABLES step,      \* asked, judged, blended
          response,  \* the judge's entries; <<>> if it raised, or its answer
                     \* holds no object of the right shape or breaks json.loads
          verdict,   \* a VerifierResult, or that verify raised
          mix        \* the components, the weights and the blend of them
scoreVars == <<step, response, verdict, mix>>

-----------------------------------------------------------------------------
(* (Mutant: a score that is not finite falls through to the clamp.)        *)
CleanUnchecked(n) == IF n.kind = "not finite" THEN Scale ELSE Max({0, Min({Scale, n.value})})

(* float, isfinite and the clamp; also _clamp of scorermix.py.             *)
Clean(n) == IF n.kind = "finite" THEN Max({0, Min({Scale, n.value})}) ELSE 0

(* Only a boolean is honoured, else the score decides.                     *)
CriterionPasses(e) == \/ e.pass = "yes"
                      \/ e.pass = "unclear" /\ 2 * Clean(e.score) >= Scale

TotalWeight == LET total == MapThenSumSet(LAMBDA c : Weight[c], Criteria)
               IN  IF total = 0 THEN 1 ELSE total
Weighted(r) == MapThenSumSet(LAMBDA c : Weight[c] * Clean(r[c].score), Criteria)

FailClosed == [raised |-> FALSE, passed |-> FALSE, overall |-> 0]

(* float of a huge integer raises an OverflowError, which nobody catches.  *)
Judgment(r) ==
    IF r = <<>> THEN FailClosed
    ELSE IF \E c \in Criteria : r[c].score.kind = "huge"
      THEN [FailClosed EXCEPT !.raised = TRUE]
      ELSE [raised |-> FALSE, overall |-> Weighted(r),
            passed |-> /\ Weighted(r) >= Threshold * TotalWeight
                       /\ \A c \in Required : CriterionPasses(r[c])]

ScoreInit == /\ step = "asked" /\ verdict = FailClosed /\ mix = <<>>
             /\ response \in {<<>>} \cup [Criteria -> Entries]

(* A parse error that is no JSONDecodeError (an integer with too many      *)
(* digits, nesting too deep) escapes verify.                               *)
Verify == /\ step = "asked" /\ step' = "judged"
          /\ \/ verdict' = Judgment(response)
             \/ response = <<>> /\ verdict' = [FailClosed EXCEPT !.raised = TRUE]
          /\ UNCHANGED <<response, mix>>

-----------------------------------------------------------------------------
(* (Mutant: the weights are not renormalised over what is present.)        *)
BlendOverAll(w, parts) ==
    [num |-> MapThenSumSet(LAMBDA k : w[k] * parts[k].num, DOMAIN parts),
     den |-> MapThenSumSet(LAMBDA k : w[k], Components)]

(* Renormalised weights, or a plain mean if all of them are zero; parts    *)
(* are over the same denominator, which is left out.                       *)
Mean(w, parts) ==
    LET sum == MapThenSumSet(LAMBDA k : w[k], DOMAIN parts)
        used == [k \in DOMAIN parts |-> IF sum = 0 THEN 1 ELSE w[k]]
    IN  [num |-> MapThenSumSet(LAMBDA k : used[k] * parts[k].num, DOMAIN parts),
         den |-> MapThenSumSet(LAMBDA k : used[k], DOMAIN parts)]

(* blend of the judge's overall score, a sequence of deterministic scores  *)
(* and a human's, each of which may be left out; it raises on a negative   *)
(* weight and on nothing to blend.                                         *)
BlendParts(present, det, human) ==
    LET n == Max({1, Len(det)}) IN
    [k \in present |->
        [num |-> CASE k = "deterministic" ->
                        MapThenSumSet(LAMBDA i : Clean(det[i]), DOMAIN det) * TotalWeight
                   [] k = "judge" -> verdict.overall * n
                   [] k = "human" -> Clean(human) * n * TotalWeight]]

Blend == /\ step = "judged" /\ ~verdict.raised /\ step' = "blended"
         /\ \E w \in BlendWeights, present \in (SUBSET Components) \ {{}},
               n \in Lengths, human \in Inputs :
            \E det \in [1 .. n -> Inputs] :
              /\ \A k \in Components : w[k] >= 0
              /\ LET parts == BlendParts(present, det, human) IN
                 mix' = [parts |-> parts, weights |-> w, blended |-> Mean(w, parts)]
         /\ UNCHANGED <<response, verdict>>

ScoreNext == Verify \/ Blend
ScoreSpec == ScoreInit /\ [][ScoreNext]_scoreVars
-----------------------------------------------------------------------------
Without(r, c) == [r EXCEPT ![c] = Absent]

(* The verifier fails closed: what the judge garbled or left out is worth  *)
(* nothing, no answer gains by an entry being left out, and a pass has, for*)
(* every required criterion, a yes or a real score of at least a half.     *)
PassNeedsEvidence == step # "asked" /\ ~verdict.raised =>
    /\ response = <<>> => ~verdict.passed
    /\ response # <<>> => \A c \in Criteria :
          LET e == response[c]
              less == Judgment(Without(response, c)) IN
          /\ less.passed => verdict.passed
          /\ IF e.score.kind = "finite" THEN less.overall <= verdict.overall
                                        ELSE less.overall = verdict.overall
          /\ verdict.passed /\ c \in Required =>
                e.pass = "yes" \/ (e.score.kind = "finite" /\ 2 * e.score.value >= Scale)

(* A blend lies between the worst and the best component that counts,      *)
(* whatever is left out: neither an absent scorer nor a broken one moves it*)
(* outside of what was measured.                                           *)
BlendIsBetween == step = "blended" =>
    LET counts == {k \in DOMAIN mix.parts : mix.weights[k] > 0}
        nums == {mix.parts[k].num : k \in IF counts = {} THEN DOMAIN mix.parts ELSE counts}
    IN  /\ mix.blended.den > 0
        /\ mix.blended.num >= Min(nums) * mix.blended.den
        /\ mix.blended.num <= Max(nums) * mix.blended.den
=============================================================================
