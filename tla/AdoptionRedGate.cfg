SPECIFICATION AdoptSpec
CONSTANTS
    Agents = {main}
    Tool = "adopt"
INVARIANT RedGateBlocks
