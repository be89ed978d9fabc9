----------------------------- MODULE MCScoring ------------------------------
(* Instances of Scoring for TLC: an optional criterion that outweighs a    *)
(* required one, the default weights of blend in tenths, and a human only. *)
EXTENDS Scoring

MCWeight == <<3, 1>>
MCBlendWeights == {[deterministic |-> 6, judge |-> 3, human |-> 1],
                   [deterministic |-> 0, judge |-> 0, human |-> 1],
                   [deterministic |-> 1, judge |-> -1, human |-> 0]}
MCInputs == {[kind |-> "finite", value |-> 0], [kind |-> "finite", value |-> 3],
             [kind |-> "not finite", value |-> 0]}
=============================================================================
