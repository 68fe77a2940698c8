SPECIFICATION FairSpec
CONSTANTS
    Agent = {a1, a2}
    Uid = {u1, u2}
    Addr = {c1, c2}
    None = None
    SubTimeout = 1
    MaxCmds = 3

  
PROPERTIES
  ForwardedAsAsked
  RelayRecovers
