SPECIFICATION Spec
CONSTANTS
    github = github pypi = pypi example = example
    a1 = a1 a2 = a2 a3 = a3 r1 = r1 proxy = proxy
    Domains <- MCDomains
    Hosts <- MCHosts
    Probe = example
    Addresses <- MCAddresses
    Resolvers <- MCResolvers
    Subnets <- MCSubnets
    MaxRuns = 3
    MaxMoves = 1
    MaxStarts = 1
SYMMETRY Symmetry
INVARIANTS NeverOpensAgain AppliedAsListed
CHECK_DEADLOCK FALSE
