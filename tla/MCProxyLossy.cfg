SPECIFICATION ProxyFairSpec
CONSTANTS
    Asked <- MCAsked
    AllowList <- MCAllow
    MaxChunks = 1
    Cap = 1
    Eager = TRUE
    Timeouts = FALSE
INVARIANTS TunnelIsFaithful HalfClosedKeepsReading
CHECK_DEADLOCK FALSE
