CONSTANTS
    c1 = c1
    c2 = c2
    Clients <- MCClients
    Mode = "Proxy"
    Linux = TRUE
SPECIFICATION FairSpec
PROPERTY RoutesAsSpecified
