\* Two clients compete for one even-and-next pair of ports; a peer address with
\* two ports and one of the other family; two transaction ids, so that an
\* Allocate request is repeated or another one.
CONSTANTS
  Client = {c1, c2}
  MinPort = 2
  MaxPort = 3
  Word = 8
  RelayFamily = "IPv4"
  Addr = {a1}
  ForeignAddr = {a6}
  PeerPort = {e1, e2}
  Number = {n1}
  Txn = {x1, x2}
  MaxPeers = 2
SYMMETRY Symmetry
SPECIFICATION Spec
INVARIANT TypeOK
INVARIANT AcknowledgedIsEffective
INVARIANT OnlyAskedPeers
PROPERTY ClientsApart
