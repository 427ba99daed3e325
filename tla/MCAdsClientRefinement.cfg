CONSTANTS
    NumServers = 3
    BadUrl = {2}
    Versions <- MCVersions
    ChanCap <- MCChanCap
    MaxFaults <- MCMaxFaults
    MaxResponses <- MCMaxResponses
    InitialInterval <- MCInitialInterval
    Multiplier <- MCMultiplier
    MaxInterval <- MCMaxInterval
    MaxElapsed <- MCMaxElapsed
SPECIFICATION FairSpec
PROPERTY DiscoveryRefinement
