\* Two addresses with two ports each and two numbers: a binding is refused for
\* its number, for its peer and for both, and two bindings share a permission.
\* Permissions last shorter than bindings, as they do by default; both can be
\* renewed early and just in time. Two handlers of one entry queued at a time,
\* so that a stale one coexists with a current one.
CONSTANTS
  Addr = {a1, a2}
  PeerPort = {1, 2}
  Number = {n1, n2}
  Lifetime = 1
  ChannelLifetime = 2
  MaxQueued = 2
SPECIFICATION AllocationSpec
INVARIANT EntriesTypeOK
INVARIANT ExpiryScheduled
INVARIANT ChannelExpiryScheduled
INVARIANT LookupsAgree
INVARIANT BoundPeersPermitted
PROPERTY ImplementsLease
PROPERTY ChannelsImplementLease
