CONSTANTS
    i1 = i1
    i2 = i2
    h = h
    IPs <- MCIPs
    Unresolved <- MCUnresolved
    Cidrs <- MCCidrs
    Ranges <- MCRanges
    Ports <- MCPorts
    MaxRules <- MCMaxRules
SPECIFICATION Spec
INVARIANT FirstMatchDecides
