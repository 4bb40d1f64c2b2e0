CONSTANTS
    c1 = c1
    c2 = c2
    relay = relay
    other = other
    Calls <- MCCalls
    Peers <- MCPeers
    Relay = relay
    HasToken = TRUE

SPECIFICATION Spec

INVARIANT RelayTokenOnlyToRelay
