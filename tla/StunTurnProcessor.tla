-------------------------- MODULE StunTurnProcessor --------------------------
(***************************************************************************)
(* StunTurnProcessor: what each kind of packet of a client does to the     *)
(* allocations, and what a relay does with data of peers. Composes the     *)
(* session map, the permissions and channels of each UdpAllocation, the    *)
(* reservations and the stored success responses.                          *)
(*                                                                         *)
(* Clients may send any packet at any time, an earlier one once more too:  *)
(* lost, repeated and reordered packets need no state of their own. Times  *)
(* are those of AllocationManager, PermissionManager and ChannelManager;   *)
(* here an entry may be over at any time.                                  *)
(*                                                                         *)
(* A handler is one action: the methods it calls on an allocation are      *)
(* locked one by one, and what may come between them, the expiry of the    *)
(* allocation or of one of its entries, has the same effect after them.    *)
(*                                                                         *)
(* In the code permissions, channels and the stored response are members   *)
(* of an allocation. Here they are kept under its relay port, which only   *)
(* one allocation that exists can have; Release empties them.              *)
(***************************************************************************)
EXTENDS Naturals, Sequences

CONSTANTS Client,             \* clients, by their five-tuples
          MinPort, MaxPort,   \* turn.relay_port_min and relay_port_max
          Word,               \* number of ports, 2^16 in the code
          RelayFamily,        \* the family of turn.relay_ip
          Addr,               \* peer addresses of that family
          ForeignAddr,        \* peer addresses of the other one
          PeerPort,           \* ports of peers
          Number,             \* channel numbers
          Txn,                \* transaction ids
          MaxPeers            \* bound: peers in one CreatePermission request

VARIABLES
  session,        \* session_map_, as the set of its client-port pairs
  running,        \* allocations whose relay coroutine has not ended
  reservations,   \* ports of the reserved sockets; a port stands for its token
  permissions,    \* permissions of the allocation on each port
  channels,       \* its channels_, as number-peer pairs
  stored,         \* its success message: the transaction and what it tells
  out,            \* the message just sent, to a client or to a peer
  granted,        \* history: what success responses gave each client
  asked           \* history: what each client ever asked for, refused or not

vars == <<session, running, reservations, permissions, channels, stored,
          out, granted, asked>>

table == <<session, running, reservations, permissions, channels, stored>>

\* The ports of the configured range, a proper one: no socket is opened on
\* another port, see PortsInRange of AllocationManager.
Port == MinPort .. MaxPort
Allocation == Client \X Port
Peer == (Addr \cup ForeignAddr) \X PeerPort

\* What a client can have: a relay, a permission, a channel.
Relay(p) == <<"relay", p>>
Permission(a) == <<"permission", a>>
Channel(n, e) == <<"channel", n, e>>

Grant == {Relay(p) : p \in Port} \cup {Permission(a) : a \in Addr}
           \cup {Channel(n, e) : n \in Number, e \in Addr \X PeerPort}

Error == {"AuthError", "BadRequest", "AllocationMismatch", "UnsupportedTransport",
          "UnknownAttribute", "AddressFamNotSupported", "InsufficientCapacity"}

\* number: the channel data came on, if any.
Out ==
  [kind : {"none"}]
    \cup [kind : {"reply"}, to : Client, result : Error \cup {"Success"}]
    \cup [kind : {"data"}, to : Client, peer : Peer, number : SUBSET Number]
    \cup [kind : {"peer"}, relay : Port, peer : Peer]

NoOut == [kind |-> "none"]

\* A success message of an allocation: its relay and the reserved port.
Success(txn, p, token) == [txn |-> txn, relay |-> p, token |-> token]
NoMessage == [txn |-> "none"]

TypeOK ==
  /\ session \in SUBSET Allocation
  /\ running \in SUBSET Allocation
  /\ reservations \in SUBSET Port
  /\ permissions \in [Port -> SUBSET Addr]
  /\ channels \in [Port -> SUBSET (Number \X (Addr \X PeerPort))]
  /\ stored \in [Port -> {NoMessage} \cup
                   [txn : Txn, relay : Port, token : SUBSET Port]]
  /\ out \in Out
  /\ granted \in [Client -> SUBSET Grant]
  /\ asked \in [Client -> SUBSET Grant]

Init ==
  /\ session = {}
  /\ running = {}
  /\ reservations = {}
  /\ permissions = [p \in Port |-> {}]
  /\ channels = [p \in Port |-> {}]
  /\ stored = [p \in Port |-> NoMessage]
  /\ out = NoOut
  /\ granted = [c \in Client |-> {}]
  /\ asked = [c \in Client |-> {}]
-----------------------------------------------------------------------------
Generator == INSTANCE RelayAddressGenerator

getAllocation(c) == {a \in session : a[1] = c}

\* Mutation: a reserved port can be opened once more.
BoundByAllocations == {a[2] : a \in session \cup running}

\* Allocations exist while the map or their coroutine holds them.
Bound == {a[2] : a \in session \cup running} \cup reservations

supportsFamily(family) == family = RelayFamily

\* A handler rejects with the error of the first of its checks that applies.
Verdict(checks) ==
  LET applies == {i \in DOMAIN checks : checks[i][1]}
  IN  IF applies = {} THEN "Success"
      ELSE checks[CHOOSE i \in applies : \A j \in applies : i <= j][2]

Reply(c, result) == out' = [kind |-> "reply", to |-> c, result |-> result]

\* sendErrorMessage, and nothing else.
Reject(c, error) ==
  /\ Reply(c, error)
  /\ UNCHANGED <<table, granted, asked>>

Acknowledge(c, grants) ==
  /\ Reply(c, "Success")
  /\ granted' = [granted EXCEPT ![c] = @ \cup grants]

Asks(c, grants) == asked' = [asked EXCEPT ![c] = @ \cup grants]

\* authenticate has sent an error itself; any request but Binding.
Unauthenticated(c) == Reject(c, "AuthError")

handleBindingRequest(c) ==
  /\ Reply(c, "Success")
  /\ UNCHANGED <<table, granted, asked>>

\* A request of another method.
UnknownMethod(c) == Reject(c, "BadRequest")
-----------------------------------------------------------------------------
(***************************************************************************)
(* Allocate. The attributes are judged after the session map has been      *)
(* looked up, and ask for a reserved port or for a port policy.            *)
(***************************************************************************)
OptionalFamily == {"none", "IPv4", "IPv6"}

AllocateRequest ==
  [transport  : {"none", "UDP", "other"},
   df         : BOOLEAN,
   token      : {{}} \cup {{p} : p \in Port},
   even       : {"none", "even", "pair"},
   family     : OptionalFamily,
   additional : OptionalFamily]

alloc_family(r) == IF r.family = "none" THEN "IPv4" ELSE r.family

AttributeVerdict(r) ==
  Verdict(<<
    <<r.transport = "none", "BadRequest">>,
    <<r.transport # "UDP", "UnsupportedTransport">>,
    <<r.df, "UnknownAttribute">>,
    <<r.token # {} /\ {r.even, r.family, r.additional} # {"none"}, "BadRequest">>,
    <<r.family # "none" /\ r.additional # "none", "BadRequest">>,
    <<r.token = {} /\ ~ supportsFamily(alloc_family(r)), "AddressFamNotSupported">>,
    <<r.even = "pair" /\ r.additional # "none", "BadRequest">>,
    <<r.additional = "IPv4", "BadRequest">> >>)

port_policy(r) ==
  CASE r.even = "none" -> "Any"
    [] r.even = "even" -> "Even"
    [] r.even = "pair" -> "EvenAndReserveNext"

\* What the requests there can be come to.
AllocateRejections == {AttributeVerdict(r) : r \in AllocateRequest} \ {"Success"}

Granted == {r \in AllocateRequest : AttributeVerdict(r) = "Success"}
Tokens == UNION {r.token : r \in Granted}
Policies == {port_policy(r) : r \in {s \in Granted : s.token = {}}}

\* Mutation: the session map is not asked.
NeverInUse(c) == FALSE

InUse(c) == getAllocation(c) # {}

\* The request that made the allocation, once more: its response, once more.
Retransmitted(c, txn) ==
  \E a \in getAllocation(c) :
    /\ stored[a[2]].txn = txn
    /\ Acknowledge(c, {Relay(stored[a[2]].relay)})
    /\ UNCHANGED <<table, asked>>

AllocationMismatch(c, txn) ==
  /\ InUse(c)
  /\ \A a \in getAllocation(c) : stored[a[2]].txn # txn
  /\ Reject(c, "AllocationMismatch")

RejectAllocate(c, error) ==
  /\ ~ InUse(c)
  /\ Reject(c, error)

\* Registers and starts a new allocation on port p; token: the reserved port
\* the response tells of.
Install(c, txn, p, token) ==
  /\ session' = (session \ getAllocation(c)) \cup {<<c, p>>}
  /\ running' = running \cup {<<c, p>>}
  /\ stored' = [stored EXCEPT ![p] = Success(txn, p, token)]
  /\ Acknowledge(c, {Relay(p)})
  /\ UNCHANGED <<permissions, channels, asked>>

ClaimReservation(c, txn, p) ==
  /\ ~ InUse(c)
  /\ p \in reservations
  /\ reservations' = reservations \ {p}
  /\ Install(c, txn, p, {})

CreateAllocation(c, txn, policy) ==
  /\ ~ InUse(c)
  /\ \E p \in Generator!GenerateUdpRelay(MinPort, MaxPort, policy, Port \ Bound) :
       LET next == Generator!Opened(p, policy) \ {p}
       IN  /\ reservations' = reservations \cup next
           /\ Install(c, txn, p, next)

\* No such reservation, or no port found: the tries are random, so that they
\* may fail although a port is free.
InsufficientCapacity(c) == RejectAllocate(c, "InsufficientCapacity")

handleAllocationRequest(c, txn) ==
  \/ Retransmitted(c, txn)
  \/ AllocationMismatch(c, txn)
  \/ \E error \in AllocateRejections : RejectAllocate(c, error)
  \/ \E p \in Tokens : ClaimReservation(c, txn, p)
  \/ \E policy \in Policies : CreateAllocation(c, txn, policy)
  \/ InsufficientCapacity(c)
-----------------------------------------------------------------------------
\* Refresh; the timer is a matter of AllocationManager.
handleRefreshRequest(c, family) ==
  LET verdict == Verdict(<<
        <<getAllocation(c) = {}, "AllocationMismatch">>,
        <<family # "none" /\ supportsFamily(family), "AddressFamNotSupported">> >>)
  IN  /\ Reply(c, verdict)
      /\ UNCHANGED <<table, granted, asked>>

\* Mutation: the family of a peer is looked at after its permission is there.
UpToForeign(peers) ==
  {peers[i] : i \in {j \in DOMAIN peers : \A k \in 1 .. j - 1 : peers[k] \in Addr}}

\* CreatePermission installs the peers that come before the first one of a
\* family the relay does not have.
Installable(peers) ==
  {peers[i] : i \in {j \in DOMAIN peers : \A k \in 1 .. j : peers[k] \in Addr}}

PeerList == UNION {[1 .. n -> Addr \cup ForeignAddr] : n \in 0 .. MaxPeers}

handlePermissionRequest(c, peers) ==
  LET grants == {Permission(peers[i]) : i \in {j \in DOMAIN peers : peers[j] \in Addr}}
  IN  \/ /\ getAllocation(c) = {}
         /\ Reject(c, "AllocationMismatch")
      \/ /\ getAllocation(c) # {}
         /\ peers = <<>>
         /\ Reject(c, "BadRequest")
      \/ \E a \in getAllocation(c) :
         /\ peers # <<>>
         /\ permissions' = [permissions EXCEPT ![a[2]] = @ \cup Installable(peers)]
         /\ Asks(c, grants)
         /\ IF \A i \in DOMAIN peers : peers[i] \in Addr
            THEN Acknowledge(c, grants)
            ELSE Reply(c, "BadRequest") /\ UNCHANGED granted
         /\ UNCHANGED <<session, running, reservations, channels, stored>>

\* ChannelManager::addChannel succeeds.
Bindable(p, n, e) ==
  \/ <<n, e>> \in channels[p]
  \/ \A b \in channels[p] : b[1] # n /\ b[2] # e

\* UdpAllocation::addChannel, successful: a permission is added as well.
addChannel(p, n, e) ==
  /\ channels' = [channels EXCEPT ![p] = @ \cup {<<n, e>>}]
  /\ permissions' = [permissions EXCEPT ![p] = @ \cup {e[1]}]

handleChannelBindRequest(c, n, e) ==
  LET grants == {Channel(n, e), Permission(e[1])}
  IN  \/ /\ getAllocation(c) = {}
         /\ Reject(c, "AllocationMismatch")
      \/ /\ getAllocation(c) # {}
         /\ e[1] \in ForeignAddr
         /\ Reject(c, "AddressFamNotSupported")
      \/ \E a \in getAllocation(c) :
         /\ e[1] \in Addr
         /\ IF Bindable(a[2], n, e)
            THEN /\ addChannel(a[2], n, e)
                 /\ Asks(c, grants)
                 /\ Acknowledge(c, grants)
                 /\ UNCHANGED <<session, running, reservations, stored>>
            ELSE Reject(c, "BadRequest")

\* ChannelBind without a number or without a peer.
IncompleteChannelBind(c) ==
  Reject(c, IF InUse(c) THEN "BadRequest" ELSE "AllocationMismatch")
-----------------------------------------------------------------------------
\* UdpAllocation::sendToPeer
SendToPeer(p, e) ==
  /\ out' = [kind |-> "peer", relay |-> p, peer |-> e]
  /\ UNCHANGED <<table, granted, asked>>

\* Data on a channel that is not bound, or without an allocation, is dropped.
handleChannelData(c, n) ==
  \E a \in getAllocation(c) : \E b \in channels[a[2]] :
    /\ b[1] = n
    /\ SendToPeer(a[2], b[2])

handleSendIndication(c, e) == \E a \in getAllocation(c) : SendToPeer(a[2], e)

channelByAddress(p, e) == {b[1] : b \in {x \in channels[p] : x[2] = e}}

hasPermission(p, a) == a \in permissions[p]

\* Data of peer e comes in on the relay of a: forwarded on the channel of the
\* peer, or as an indication if its address has a permission, or dropped.
processPeerMessage(a, e) ==
  /\ a \in running
  /\ channelByAddress(a[2], e) # {} \/ hasPermission(a[2], e[1])
  /\ out' = [kind |-> "data", to |-> a[1], peer |-> e,
             number |-> channelByAddress(a[2], e)]
  /\ UNCHANGED <<table, granted, asked>>
-----------------------------------------------------------------------------
\* The grants of the client are over when those of its allocation are.
Lapse(p, grants) ==
  /\ granted' = [c \in Client |->
                   IF <<c, p>> \in session THEN granted[c] \ grants ELSE granted[c]]
  /\ out' = NoOut
  /\ UNCHANGED asked

removePermission(p, a) ==
  /\ a \in permissions[p]
  /\ permissions' = [permissions EXCEPT ![p] = @ \ {a}]
  /\ Lapse(p, {Permission(a)})
  /\ UNCHANGED <<session, running, reservations, channels, stored>>

removeChannel(p, b) ==
  /\ b \in channels[p]
  /\ channels' = [channels EXCEPT ![p] = @ \ {b}]
  /\ Lapse(p, {Channel(b[1], b[2])})
  /\ UNCHANGED <<session, running, reservations, permissions, stored>>

\* Mutation: what is known of a port outlives its allocation.
KeepEntries(entries, a) == entries

\* The managers of an allocation go with it, and their entries with them.
WithoutEntries(entries, a) == [entries EXCEPT ![a[2]] = {}]

\* ~UdpAllocation, when neither the map nor the coroutine holds a any more.
Release(a, holders) ==
  IF a \in holders
  THEN UNCHANGED <<permissions, channels, stored>>
  ELSE /\ permissions' = WithoutEntries(permissions, a)
       /\ channels' = WithoutEntries(channels, a)
       /\ stored' = [stored EXCEPT ![a[2]] = NoMessage]

\* The relay goes on after its allocation has left the map, see
\* AllocationManager. Reservations do not expire, see ReservationManager.
expireAllocation(a) ==
  /\ a \in session
  /\ session' = session \ {a}
  /\ Release(a, running)
  /\ Lapse(a[2], Grant)
  /\ UNCHANGED <<running, reservations>>

RelayEnds(a) ==
  /\ a \in running
  /\ running' = running \ {a}
  /\ Release(a, session)
  /\ out' = NoOut
  /\ UNCHANGED <<session, reservations, granted, asked>>

\* processPacket. What cannot be decoded and other indications are dropped.
processPacket(c) ==
  \/ handleBindingRequest(c)
  \/ UnknownMethod(c)
  \/ Unauthenticated(c)
  \/ \E txn \in Txn : handleAllocationRequest(c, txn)
  \/ \E family \in OptionalFamily : handleRefreshRequest(c, family)
  \/ \E peers \in PeerList : handlePermissionRequest(c, peers)
  \/ \E n \in Number, e \in Peer : handleChannelBindRequest(c, n, e)
  \/ IncompleteChannelBind(c)
  \/ \E n \in Number : handleChannelData(c, n)
  \/ \E e \in Peer : handleSendIndication(c, e)

Next ==
  \/ \E c \in Client : processPacket(c)
  \/ \E a \in Allocation, e \in Peer : processPeerMessage(a, e)
  \/ \E a \in Allocation : expireAllocation(a) \/ RelayEnds(a)
  \/ \E p \in Port :
       \/ \E a \in Addr : removePermission(p, a)
       \/ \E b \in Number \X Peer : removeChannel(p, b)

Spec == Init /\ [][Next]_vars
-----------------------------------------------------------------------------
\* What the server does for a client now.
Effective(c) ==
  UNION {{Relay(a[2])} \cup {Permission(x) : x \in permissions[a[2]]}
           \cup {Channel(b[1], b[2]) : b \in channels[a[2]]} : a \in getAllocation(c)}

(***************************************************************************)
(* What a success response gave a client, its relay, permissions and       *)
(* channels, is there until it expires, whatever the client and others     *)
(* send in between: repeated Allocate requests, which are answered with    *)
(* the stored response, refused ones, and requests that claim or reserve   *)
(* the ports next to it.                                                   *)
(***************************************************************************)
AcknowledgedIsEffective == \A c \in Client : granted[c] \subseteq Effective(c)

(***************************************************************************)
(* Data of a peer goes only to a client that itself asked for the address  *)
(* of that peer, and under a channel number only if the client asked for   *)
(* that number with that very peer. About the choice processPeerMessage    *)
(* makes between channel and permission, also for relays that go on        *)
(* although their allocation has left the session map.                     *)
(***************************************************************************)
OnlyAskedPeers ==
  out.kind = "data" =>
    IF out.number = {}
    THEN Permission(out.peer[1]) \in asked[out.to]
    ELSE \A n \in out.number : Channel(n, out.peer) \in asked[out.to]

(***************************************************************************)
(* Requests of one client do not touch what another one has: the relay,    *)
(* permissions and channels of a client become more only by a request of   *)
(* its own, also one that is refused in the end, and less only by expiry.  *)
(* About Allocate requests, which must not replace an entry of the session *)
(* map, pairs of ports shared by two clients, and relays that outlive      *)
(* their allocation.                                                       *)
(***************************************************************************)
ClientsApart ==
  [][\A c \in Client : Effective(c)' # Effective(c) =>
       \/ out' = NoOut /\ Effective(c)' \subseteq Effective(c)
       \/ out'.kind = "reply" /\ out'.to = c /\ Effective(c) \subseteq Effective(c)']_vars

\* The allocations that exist, see AllocationManager.
Live == session \cup running

\* A port has one owner, and a client one allocation in the map.
OneOwner ==
  /\ \A a, b \in Live : a[2] = b[2] => a = b
  /\ \A a \in Live : a[2] \notin reservations
  /\ \A a, b \in session : a[1] = b[1] => a = b

\* The entries of a port are those of its allocation, which the client asked
\* for, and there are none without an allocation.
EntriesAsked ==
  /\ \A p \in Port : (\A a \in Live : a[2] # p) => permissions[p] = {} /\ channels[p] = {}
  /\ \A a \in Live :
       /\ \A x \in permissions[a[2]] : Permission(x) \in asked[a[1]]
       /\ \A b \in channels[a[2]] : Channel(b[1], b[2]) \in asked[a[1]]

\* The stored response tells of the allocation it is stored with.
StoredOwn ==
  \A a \in Live : stored[a[2]] \in [txn : Txn, relay : {a[2]}, token : SUBSET Port]

\* The inductive invariant.
IInv ==
  /\ TypeOK
  /\ OneOwner
  /\ EntriesAsked
  /\ StoredOwn
  /\ AcknowledgedIsEffective
  /\ OnlyAskedPeers

(***************************************************************************)
(* A Refresh is refused for the family it names when the allocation does   *)
(* not support that family, and only then ("requested unsupported address  *)
(* family", StunTurnProcessor.cpp, handleRefreshRequest; ChannelBind tests *)
(* it so). Violated: the condition lacks the negation, so that a client    *)
(* that names the family of its own relay cannot refresh it.               *)
(***************************************************************************)
RefusedFamilyIsUnsupported ==
  [][\A c \in Client, family \in OptionalFamily \ {"none"} :
       handleRefreshRequest(c, family) /\ InUse(c) =>
         (out'.result = "AddressFamNotSupported" <=> ~ supportsFamily(family))]_vars
=============================================================================
