SPECIFICATION PartSpec
CONSTANTS
    Server = {m1, m2}
    None = None
    Torn = Torn
    MaxKey = 2
    NoPairing = NoPairing
    Pairing <- MCPairing
    PeerOf <- MCPeerOf
    IpOf <- MCIpOf
INVARIANT InitReconciles
