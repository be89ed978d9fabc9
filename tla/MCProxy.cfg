SPECIFICATION ProxyFairSpec
CONSTANTS
    Asked <- MCAsked
    AllowList <- MCAllow
    MaxChunks = 3
    Cap = 1
    Eager = FALSE
    Timeouts = TRUE
INVARIANTS TunnelIsFaithful
PROPERTIES PumpsEndTogether ImplementsTunnel
CHECK_DEADLOCK FALSE
