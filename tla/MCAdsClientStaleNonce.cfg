CONSTANTS
    NumServers <- MCNumServers
    BadUrl = {}
    Versions <- MCVersions
    ChanCap <- MCChanCap
    MaxFaults <- MCMaxFaults
    MaxResponses <- MCMaxResponses
    InitialInterval <- MCInitialInterval
    Multiplier <- MCMultiplier
    MaxInterval <- MCMaxInterval
    MaxElapsed <- MCMaxElapsed

SPECIFICATION Spec
INVARIANT NoStaleNonce
