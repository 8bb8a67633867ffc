SPECIFICATION FairSpec
CONSTANTS
    Callers = {1, 2, 3}
    IpLiteral <- MCIpLiteral
    Scenarios <- MCScenarios
    PublicAddresses <- MCPublic
INVARIANTS StaysWithinPolicy  OneClientPerSocket PeersConfined ResultMatchesPeers
PROPERTY EverythingEnds
CHECK_DEADLOCK FALSE
