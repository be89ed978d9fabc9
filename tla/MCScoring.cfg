SPECIFICATION ScoreSpec
CONSTANTS
    Weight <- MCWeight
    Required = {2}
    Threshold = 1
    Scale = 2
    BlendWeights <- MCBlendWeights
    Inputs <- MCInputs
    Lengths = {0, 1, 2}
INVARIANTS PassNeedsEvidence BlendIsBetween
CHECK_DEADLOCK FALSE
