\* One client is enough, and no peers: it allocates and refreshes.
CONSTANTS
  Client = {c1}
  MinPort = 2
  MaxPort = 3
  Word = 8
  RelayFamily = "IPv4"
  Addr = {a1}
  ForeignAddr = {a6}
  PeerPort = {e1}
  Number = {n1}
  Txn = {x1}
  MaxPeers = 0
SPECIFICATION Spec
PROPERTY RefusedFamilyIsUnsupported
