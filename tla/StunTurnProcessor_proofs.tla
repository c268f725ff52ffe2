---------------------- MODULE StunTurnProcessor_proofs ----------------------
(***************************************************************************)
(* What the handlers do to the allocations of all clients together, for    *)
(* any sets of clients, peers, channel numbers and transactions and any    *)
(* port range.                                                             *)
(***************************************************************************)
EXTENDS StunTurnProcessor, WellFoundedInduction, TLAPS

\* An allocation is determined by its client and its port.
LEMMA AllocationParts ==
  ASSUME NEW a \in Allocation
  PROVE  a[1] \in Client /\ a[2] \in Port /\ a = <<a[1], a[2]>>
  BY DEF Allocation

\* Among the checks that apply there is a first one.
LEMMA LeastElement ==
  ASSUME NEW T, T \subseteq Nat, T # {}
  PROVE  \E i \in T : \A j \in T : i <= j
<1> DEFINE Less == {x \in Nat \X Nat : x[1] < x[2]}
<1>1. IsWellFoundedOn(Less, Nat)
  BY NatLessThanWellFounded DEF OpToRel
<1>2. PICK i \in T : \A j \in T : <<j, i>> \notin Less
  BY <1>1, WFMin
<1>3. ASSUME NEW j \in T PROVE i <= j
  <2>1. i \in Nat /\ j \in Nat
    OBVIOUS
  <2>2. ~ (j < i)
    BY <1>2, <2>1
  <2>3. QED
    BY <2>1, <2>2
<1>4. QED
  BY <1>3

\* A handler's verdict is one of the errors of its checks, or success.
LEMMA VerdictType ==
  ASSUME NEW n \in Nat, NEW checks, DOMAIN checks = 1 .. n,
         \A i \in 1 .. n : checks[i][2] \in Error
  PROVE  Verdict(checks) \in Error \cup {"Success"}
<1> DEFINE applies == {i \in DOMAIN checks : checks[i][1]}
<1>1. CASE applies = {}
  BY <1>1 DEF Verdict
<1>2. CASE applies # {}
  <2> DEFINE first == CHOOSE i \in applies : \A j \in applies : i <= j
  <2>1. applies \subseteq Nat
    OBVIOUS
  <2>2. first \in applies
    BY <1>2, <2>1, LeastElement
  <2>3. Verdict(checks) = checks[first][2]
    BY <1>2 DEF Verdict
  <2>4. QED
    BY <2>2, <2>3
<1>3. QED
  BY <1>1, <1>2

\* What the attributes of an Allocate request are rejected with.
LEMMA AttributeVerdictType ==
  ASSUME NEW r \in AllocateRequest
  PROVE  AttributeVerdict(r) \in Error \cup {"Success"}
<1> DEFINE checks == <<
      <<r.transport = "none", "BadRequest">>,
      <<r.transport # "UDP", "UnsupportedTransport">>,
      <<r.df, "UnknownAttribute">>,
      <<r.token # {} /\ {r.even, r.family, r.additional} # {"none"}, "BadRequest">>,
      <<r.family # "none" /\ r.additional # "none", "BadRequest">>,
      <<r.token = {} /\ ~ supportsFamily(alloc_family(r)), "AddressFamNotSupported">>,
      <<r.even = "pair" /\ r.additional # "none", "BadRequest">>,
      <<r.additional = "IPv4", "BadRequest">> >>
<1>1. DOMAIN checks = 1 .. 8
  OBVIOUS
<1>2. \A i \in 1 .. 8 : checks[i][2] \in Error
  BY DEF Error
<1> HIDE DEF checks
<1>3. Verdict(checks) \in Error \cup {"Success"}
  BY <1>1, <1>2, VerdictType
<1>4. QED
  BY <1>3 DEF AttributeVerdict, checks

\* The same of a Refresh request.
LEMMA RefreshVerdictType ==
  ASSUME NEW p, NEW q
  PROVE  Verdict(<<<<p, "AllocationMismatch">>, <<q, "AddressFamNotSupported">>>>)
           \in Error \cup {"Success"}
<1> DEFINE checks == <<<<p, "AllocationMismatch">>, <<q, "AddressFamNotSupported">>>>
<1>1. DOMAIN checks = 1 .. 2 /\ \A i \in 1 .. 2 : checks[i][2] \in Error
  BY DEF Error
<1> HIDE DEF checks
<1>2. Verdict(checks) \in Error \cup {"Success"}
  BY <1>1, VerdictType
<1>3. QED
  BY <1>2 DEF checks

\* What a client can use: the relay of its allocation, and the entries of that.
LEMMA EffectiveParts ==
  ASSUME NEW c, NEW g
  PROVE  /\ g \in Effective(c) <=>
              \E a \in session :
                /\ a[1] = c
                /\ \/ g = Relay(a[2])
                   \/ \E x \in permissions[a[2]] : g = Permission(x)
                   \/ \E b \in channels[a[2]] : g = Channel(b[1], b[2])
         /\ (g \in Effective(c))' <=>
              \E a \in session' :
                /\ a[1] = c
                /\ \/ g = Relay(a[2])
                   \/ \E x \in permissions'[a[2]] : g = Permission(x)
                   \/ \E b \in channels'[a[2]] : g = Channel(b[1], b[2])
  BY DEF Effective, getAllocation

\* Messages other than the data of a peer leave everything as it is.
LEMMA TableKept ==
  ASSUME IInv, UNCHANGED <<table, granted, asked>>, out' \in Out, out'.kind # "data"
  PROVE  IInv'
<1> USE DEF IInv, table
<1>1. TypeOK' /\ OneOwner' /\ EntriesAsked' /\ StoredOwn'
  BY DEF TypeOK, OneOwner, EntriesAsked, StoredOwn, Live
<1>2. AcknowledgedIsEffective'
  BY DEF AcknowledgedIsEffective, Effective, getAllocation
<1>3. OnlyAskedPeers'
  BY DEF OnlyAskedPeers
<1>4. QED
  BY <1>1, <1>2, <1>3

\* The initial state.
LEMMA InitIInv == Init => IInv
<1> SUFFICES ASSUME Init PROVE IInv
  OBVIOUS
<1>1. TypeOK
  BY DEF Init, TypeOK, Out, NoOut
<1>2. OneOwner /\ EntriesAsked /\ StoredOwn
  BY DEF Init, OneOwner, EntriesAsked, StoredOwn, Live
<1>3. AcknowledgedIsEffective /\ OnlyAskedPeers
  BY DEF Init, AcknowledgedIsEffective, OnlyAskedPeers, NoOut
<1>4. QED
  BY <1>1, <1>2, <1>3 DEF IInv

\* A new allocation for a client that has none, on a port that is nobody's.
LEMMA InstallIInv ==
  ASSUME IInv, NEW c \in Client, NEW txn \in Txn, NEW p \in Port, NEW token \in SUBSET Port,
         ~ InUse(c), Install(c, txn, p, token),
         reservations' \in SUBSET Port, p \notin reservations',
         \A a \in Live : a[2] # p /\ a[2] \notin reservations'
  PROVE  IInv'
<1> USE DEF IInv, Install, Acknowledge, Reply
<1> DEFINE new == <<c, p>>
<1>1. new \in Allocation /\ new[1] = c /\ new[2] = p
  BY DEF Allocation
<1>2. session' = session \cup {new} /\ Live' = Live \cup {new}
  BY DEF InUse, getAllocation, Live
<1>3. TypeOK'
  <2>1. Relay(p) \in Grant
    BY DEF Grant
  <2>2. Success(txn, p, token) \in [txn : Txn, relay : Port, token : SUBSET Port]
    BY DEF Success
  <2>3. stored' \in [Port -> {NoMessage} \cup [txn : Txn, relay : Port, token : SUBSET Port]]
    BY <2>2 DEF TypeOK
  <2>4. granted' \in [Client -> SUBSET Grant]
    BY <2>1 DEF TypeOK
  <2>5. out' \in Out
    BY DEF Out
  <2>6. QED
    BY <1>1, <1>2, <2>3, <2>4, <2>5 DEF TypeOK
<1>4. OneOwner'
  BY <1>1, <1>2 DEF OneOwner, InUse, getAllocation
<1>5. EntriesAsked'
  <2>1. permissions[p] = {} /\ channels[p] = {}
    BY DEF EntriesAsked
  <2>2. QED
    BY <1>1, <1>2, <2>1 DEF EntriesAsked
<1>6. StoredOwn'
  <2>1. stored'[p] \in [txn : Txn, relay : {p}, token : SUBSET Port]
    BY DEF TypeOK, Success
  <2>2. ASSUME NEW a \in Live PROVE stored'[a[2]] = stored[a[2]]
    BY DEF TypeOK
  <2>3. QED
    BY <1>1, <1>2, <2>1, <2>2 DEF StoredOwn
<1>7. AcknowledgedIsEffective'
  <2> SUFFICES ASSUME NEW d \in Client, NEW g \in granted'[d]
               PROVE  (g \in Effective(d))'
    BY DEF AcknowledgedIsEffective
  <2>1. CASE g = Relay(p) /\ d = c
    BY <1>1, <1>2, <2>1, EffectiveParts
  <2>2. CASE g \in granted[d]
    <3>1. g \in Effective(d)
      BY <2>2 DEF AcknowledgedIsEffective
    <3>2. QED
      BY <1>2, <3>1, EffectiveParts
  <2>3. QED
    BY <2>1, <2>2 DEF TypeOK
<1>8. OnlyAskedPeers'
  BY DEF OnlyAskedPeers
<1>9. QED
  BY <1>3, <1>4, <1>5, <1>6, <1>7, <1>8

\* New entries for the allocation a, P and B: its client asked for G, and the
\* response tells it of H, or is an error and tells of none.
EntriesAdded(a, P, B, G, H) ==
  /\ P \in SUBSET Addr /\ B \in SUBSET (Number \X (Addr \X PeerPort))
  /\ G \in SUBSET Grant /\ H \in SUBSET G
  /\ \A x \in P : Permission(x) \in G
  /\ \A b \in B : Channel(b[1], b[2]) \in G
  /\ \A g \in H : (\E x \in P : g = Permission(x)) \/ (\E b \in B : g = Channel(b[1], b[2]))
  /\ permissions' = [permissions EXCEPT ![a[2]] = @ \cup P]
  /\ channels' = [channels EXCEPT ![a[2]] = @ \cup B]
  /\ asked' = [asked EXCEPT ![a[1]] = @ \cup G]
  /\ granted' = [granted EXCEPT ![a[1]] = @ \cup H]
  /\ UNCHANGED <<session, running, reservations, stored>>
  /\ out' \in Out /\ out'.kind # "data"

\* Entries that the client of an allocation asked for keep the invariant.
LEMMA AddEntriesIInv ==
  ASSUME IInv, NEW a \in session, NEW P, NEW B, NEW G, NEW H, EntriesAdded(a, P, B, G, H)
  PROVE  IInv'
<1> USE DEF IInv, EntriesAdded
<1>1. a \in Live /\ a \in Allocation /\ a[1] \in Client /\ a[2] \in Port
  BY AllocationParts DEF Live, TypeOK
<1>2. Live' = Live /\ Live \subseteq Allocation
  BY DEF Live, TypeOK
<1>3. TypeOK'
  <2>1. permissions' \in [Port -> SUBSET Addr]
    BY DEF TypeOK
  <2>2. channels' \in [Port -> SUBSET (Number \X (Addr \X PeerPort))]
    BY DEF TypeOK
  <2>3. granted' \in [Client -> SUBSET Grant] /\ asked' \in [Client -> SUBSET Grant]
    BY DEF TypeOK
  <2>4. QED
    BY <2>1, <2>2, <2>3 DEF TypeOK
<1>4. OneOwner' /\ StoredOwn'
  BY <1>2 DEF OneOwner, StoredOwn
<1>5. EntriesAsked'
  <2>1. ASSUME NEW p \in Port, \A b \in Live : b[2] # p
        PROVE  permissions'[p] = {} /\ channels'[p] = {}
    BY <1>1, <2>1 DEF EntriesAsked, TypeOK
  <2>2. ASSUME NEW b \in Live, b # a
        PROVE  permissions'[b[2]] = permissions[b[2]] /\ channels'[b[2]] = channels[b[2]]
    BY <1>1, <1>2, <2>2, AllocationParts DEF OneOwner, TypeOK
  <2>3. \A c \in Client : asked[c] \subseteq asked'[c]
    BY DEF TypeOK
  <2>4. ASSUME NEW b \in Live
        PROVE  /\ \A x \in permissions'[b[2]] : Permission(x) \in asked'[b[1]]
               /\ \A e \in channels'[b[2]] : Channel(e[1], e[2]) \in asked'[b[1]]
    <3>1. CASE b = a
      BY <1>1, <3>1 DEF EntriesAsked, TypeOK
    <3>2. CASE b # a
      BY <1>2, <2>2, <2>3, <3>2, AllocationParts DEF EntriesAsked
    <3>3. QED
      BY <3>1, <3>2
  <2>5. QED
    BY <1>2, <2>1, <2>4 DEF EntriesAsked
<1>6. AcknowledgedIsEffective'
  <2> SUFFICES ASSUME NEW d \in Client, NEW g \in granted'[d]
               PROVE  (g \in Effective(d))'
    BY DEF AcknowledgedIsEffective
  <2>1. \A p \in Port : permissions[p] \subseteq permissions'[p] /\ channels[p] \subseteq channels'[p]
    BY DEF TypeOK
  <2>2. CASE g \in granted[d]
    <3>1. g \in Effective(d)
      BY <2>2 DEF AcknowledgedIsEffective
    <3>2. \A b \in session : b[2] \in Port
      BY AllocationParts DEF TypeOK
    <3>3. QED
      BY <2>1, <3>1, <3>2, EffectiveParts
  <2>3. CASE g \in H /\ d = a[1]
    <3>1. P \subseteq permissions'[a[2]] /\ B \subseteq channels'[a[2]]
      BY <1>1 DEF TypeOK
    <3>2. QED
      BY <1>1, <2>3, <3>1, EffectiveParts
  <2>4. QED
    BY <2>2, <2>3 DEF TypeOK
<1>7. OnlyAskedPeers'
  BY DEF OnlyAskedPeers
<1>8. QED
  BY <1>3, <1>4, <1>5, <1>6, <1>7

\* Entries of a port are over, and so are the grants of its client: what is left
\* of permissions and channels is all but the entries of Gone.
LEMMA LapseIInv ==
  ASSUME IInv, NEW p \in Port, NEW Gone,
         permissions' \in [Port -> SUBSET Addr],
         channels' \in [Port -> SUBSET (Number \X (Addr \X PeerPort))],
         \A q \in Port : permissions'[q] \subseteq permissions[q] /\ channels'[q] \subseteq channels[q],
         \A q \in Port \ {p} : permissions'[q] = permissions[q] /\ channels'[q] = channels[q],
         \A x \in permissions[p] : x \in permissions'[p] \/ Permission(x) \in Gone,
         \A b \in channels[p] : b \in channels'[p] \/ Channel(b[1], b[2]) \in Gone,
         Lapse(p, Gone),
         UNCHANGED <<session, running, reservations, stored>>
  PROVE  IInv'
<1> USE DEF IInv, Lapse
<1>1. Live' = Live /\ Live \subseteq Allocation /\ session \subseteq Live
  BY DEF Live, TypeOK
<1>2. \A b \in Live : b[1] \in Client /\ b[2] \in Port /\ b = <<b[1], b[2]>>
  BY <1>1, AllocationParts
<1>3. TypeOK'
  <2>1. granted' \in [Client -> SUBSET Grant]
    BY DEF TypeOK
  <2>2. out' \in Out
    BY DEF Out, NoOut
  <2>3. QED
    BY <2>1, <2>2 DEF TypeOK
<1>4. OneOwner' /\ StoredOwn'
  BY <1>1 DEF OneOwner, StoredOwn
<1>5. EntriesAsked'
  BY <1>1, <1>2 DEF EntriesAsked
<1>6. AcknowledgedIsEffective'
  <2> SUFFICES ASSUME NEW d \in Client, NEW g \in granted'[d]
               PROVE  (g \in Effective(d))'
    BY DEF AcknowledgedIsEffective
  <2>1. g \in granted[d] /\ (<<d, p>> \in session => g \notin Gone)
    BY DEF TypeOK
  <2>2. PICK a \in session :
          /\ a[1] = d
          /\ \/ g = Relay(a[2])
             \/ \E x \in permissions[a[2]] : g = Permission(x)
             \/ \E b \in channels[a[2]] : g = Channel(b[1], b[2])
    BY <2>1, EffectiveParts DEF AcknowledgedIsEffective
  <2>3. CASE a[2] = p
    <3>1. g \notin Gone
      BY <1>1, <1>2, <2>1, <2>2, <2>3
    <3>2. QED
      BY <2>2, <2>3, <3>1, EffectiveParts
  <2>4. CASE a[2] # p
    BY <1>1, <1>2, <2>2, <2>4, EffectiveParts
  <2>5. QED
    BY <2>3, <2>4
<1>7. OnlyAskedPeers'
  BY DEF OnlyAskedPeers, NoOut
<1>8. QED
  BY <1>3, <1>4, <1>5, <1>6, <1>7

\* One of the holders of an allocation lets go of it. What is kept with the
\* other allocations is not touched, and if it was the last holder nothing is
\* kept with this one's port.
LEMMA ReleaseEntries ==
  ASSUME IInv, NEW a \in Live, NEW holders, Release(a, holders),
         Live' = IF a \in holders THEN Live ELSE Live \ {a},
         session' \subseteq session, UNCHANGED <<reservations, asked>>
  PROVE  /\ permissions' \in [Port -> SUBSET Addr]
         /\ channels' \in [Port -> SUBSET (Number \X (Addr \X PeerPort))]
         /\ stored' \in [Port -> {NoMessage} \cup [txn : Txn, relay : Port, token : SUBSET Port]]
         /\ \A b \in Live' : /\ permissions'[b[2]] = permissions[b[2]]
                             /\ channels'[b[2]] = channels[b[2]]
         /\ OneOwner' /\ EntriesAsked' /\ StoredOwn'
<1> USE DEF IInv
<1>1. Live \subseteq Allocation /\ Live' \subseteq Live
  BY DEF Live, TypeOK
<1>2. \A b \in Live : b[1] \in Client /\ b[2] \in Port
  BY <1>1, AllocationParts
<1>3. OneOwner'
  BY <1>1 DEF OneOwner
<1>4. CASE a \in holders
  BY <1>3, <1>4 DEF Release, TypeOK, EntriesAsked, StoredOwn
<1>5. CASE a \notin holders
  <2>1. /\ permissions' = [permissions EXCEPT ![a[2]] = {}]
        /\ channels' = [channels EXCEPT ![a[2]] = {}]
        /\ stored' = [stored EXCEPT ![a[2]] = NoMessage]
        /\ Live' = Live \ {a}
    BY <1>5 DEF Release, WithoutEntries
  <2>2. /\ permissions' \in [Port -> SUBSET Addr]
        /\ channels' \in [Port -> SUBSET (Number \X (Addr \X PeerPort))]
        /\ stored' \in [Port -> {NoMessage} \cup [txn : Txn, relay : Port, token : SUBSET Port]]
    BY <2>1 DEF TypeOK
  <2>3. ASSUME NEW b \in Live'
        PROVE  /\ b \in Live /\ b[2] # a[2]
               /\ permissions'[b[2]] = permissions[b[2]] /\ channels'[b[2]] = channels[b[2]]
               /\ stored'[b[2]] = stored[b[2]]
    BY <1>2, <2>1 DEF OneOwner, TypeOK
  <2>4. ASSUME NEW p \in Port, \A b \in Live' : b[2] # p
        PROVE  permissions'[p] = {} /\ channels'[p] = {}
    <3>1. CASE p = a[2]
      BY <1>2, <2>1, <3>1 DEF TypeOK
    <3>2. CASE p # a[2]
      BY <2>1, <2>4, <3>2 DEF TypeOK, EntriesAsked
    <3>3. QED
      BY <3>1, <3>2
  <2>5. EntriesAsked'
    BY <2>3, <2>4 DEF EntriesAsked
  <2>6. StoredOwn'
    BY <2>3 DEF StoredOwn
  <2>7. QED
    BY <1>3, <2>2, <2>3, <2>5, <2>6
<1>6. QED
  BY <1>4, <1>5

\* Allocate, in all its outcomes.
LEMMA AllocationRequestIInv ==
  ASSUME IInv, NEW c \in Client, NEW txn \in Txn, handleAllocationRequest(c, txn)
  PROVE  IInv'
<1> USE DEF IInv
<1>1. ASSUME NEW error \in Error, Reject(c, error)
      PROVE  IInv'
  BY <1>1, TableKept DEF Reject, Reply, Out
<1>2. CASE Retransmitted(c, txn)
  <2>1. PICK a \in session : /\ a[1] = c
                             /\ Acknowledge(c, {Relay(stored[a[2]].relay)})
                             /\ UNCHANGED <<table, asked>>
    BY <1>2 DEF Retransmitted, getAllocation
  <2>2. a \in Live /\ a[2] \in Port /\ stored[a[2]].relay = a[2]
    BY AllocationParts DEF Live, StoredOwn, TypeOK
  <2>3. TypeOK'
    <3>1. Relay(a[2]) \in Grant
      BY <2>2 DEF Grant
    <3>2. granted' \in [Client -> SUBSET Grant]
      BY <2>1, <2>2, <3>1 DEF Acknowledge, TypeOK
    <3>3. out' \in Out
      BY <2>1 DEF Acknowledge, Reply, Out
    <3>4. QED
      BY <2>1, <3>2, <3>3 DEF TypeOK, table
  <2>4. OneOwner' /\ EntriesAsked' /\ StoredOwn'
    BY <2>1 DEF OneOwner, EntriesAsked, StoredOwn, Live, table
  <2>5. AcknowledgedIsEffective'
    <3> SUFFICES ASSUME NEW d \in Client, NEW g \in granted'[d]
                 PROVE  (g \in Effective(d))'
      BY DEF AcknowledgedIsEffective
    <3>1. g \in granted[d] \/ (d = c /\ g = Relay(a[2]))
      BY <2>1, <2>2 DEF Acknowledge, TypeOK
    <3>2. g \in Effective(d)
      BY <2>1, <3>1, EffectiveParts DEF AcknowledgedIsEffective
    <3>3. QED
      BY <2>1, <3>2 DEF Effective, getAllocation, table
  <2>6. OnlyAskedPeers'
    BY <2>1 DEF OnlyAskedPeers, Acknowledge, Reply
  <2>7. QED
    BY <2>3, <2>4, <2>5, <2>6
<1>3. CASE AllocationMismatch(c, txn)
  BY <1>1, <1>3 DEF AllocationMismatch, Error
<1>4. ASSUME NEW error \in AllocateRejections, RejectAllocate(c, error)
      PROVE  IInv'
  <2>1. error \in Error
    BY AttributeVerdictType DEF AllocateRejections
  <2>2. QED
    BY <1>1, <1>4, <2>1 DEF RejectAllocate
<1>5. ASSUME NEW p \in Tokens, ClaimReservation(c, txn, p)
      PROVE  IInv'
  <2>1. p \in reservations /\ p \in Port
    BY <1>5 DEF ClaimReservation, TypeOK
  <2>2. reservations' \in SUBSET Port /\ p \notin reservations'
    BY <1>5 DEF ClaimReservation, TypeOK
  <2>3. \A a \in Live : a[2] # p /\ a[2] \notin reservations'
    BY <1>5, <2>1 DEF ClaimReservation, OneOwner
  <2>4. QED
    BY <1>5, <2>1, <2>2, <2>3, InstallIInv DEF ClaimReservation
<1>6. ASSUME NEW policy \in Policies, CreateAllocation(c, txn, policy)
      PROVE  IInv'
  <2> DEFINE free == Port \ Bound
  <2>1. PICK p \in Generator!GenerateUdpRelay(MinPort, MaxPort, policy, free) :
          /\ reservations' = reservations \cup (Generator!Opened(p, policy) \ {p})
          /\ Install(c, txn, p, Generator!Opened(p, policy) \ {p})
    BY <1>6 DEF CreateAllocation
  <2>2. p \in free /\ Generator!Opened(p, policy) \subseteq free
    BY DEF Generator!GenerateUdpRelay, Generator!Opened
  <2>3. \A a \in Live : a[2] \in Bound
    BY DEF Live, Bound
  <2>4. reservations \subseteq Bound /\ reservations \in SUBSET Port
    BY DEF Bound, TypeOK
  <2>5. /\ reservations' \in SUBSET Port /\ p \notin reservations'
        /\ \A a \in Live : a[2] # p /\ a[2] \notin reservations'
    BY <2>1, <2>2, <2>3, <2>4 DEF OneOwner
  <2>6. ~ InUse(c)
    BY <1>6 DEF CreateAllocation
  <2>7. QED
    BY <2>1, <2>2, <2>5, <2>6, InstallIInv
<1>7. CASE InsufficientCapacity(c)
  BY <1>1, <1>7 DEF InsufficientCapacity, RejectAllocate, Error
<1>8. QED
  BY <1>2, <1>3, <1>4, <1>5, <1>6, <1>7 DEF handleAllocationRequest

\* CreatePermission: installs peers also when it is answered with an error.
LEMMA PermissionRequestIInv ==
  ASSUME IInv, NEW c \in Client, NEW peers \in PeerList, handlePermissionRequest(c, peers)
  PROVE  IInv'
<1> USE DEF IInv
<1> DEFINE grants == {Permission(peers[i]) : i \in {j \in DOMAIN peers : peers[j] \in Addr}}
<1>1. CASE Reject(c, "AllocationMismatch") \/ Reject(c, "BadRequest")
  BY <1>1, TableKept DEF Reject, Reply, Out, Error
<1>2. CASE \E a \in getAllocation(c) :
             /\ permissions' = [permissions EXCEPT ![a[2]] = @ \cup Installable(peers)]
             /\ Asks(c, grants)
             /\ IF \A i \in DOMAIN peers : peers[i] \in Addr
                THEN Acknowledge(c, grants)
                ELSE Reply(c, "BadRequest") /\ UNCHANGED granted
             /\ UNCHANGED <<session, running, reservations, channels, stored>>
  <2>1. PICK a \in session :
             /\ a[1] = c
             /\ permissions' = [permissions EXCEPT ![a[2]] = @ \cup Installable(peers)]
             /\ Asks(c, grants)
             /\ IF \A i \in DOMAIN peers : peers[i] \in Addr
                THEN Acknowledge(c, grants)
                ELSE Reply(c, "BadRequest") /\ UNCHANGED granted
             /\ UNCHANGED <<session, running, reservations, channels, stored>>
    BY <1>2 DEF getAllocation
  <2> DEFINE P == Installable(peers)
  <2> DEFINE H == IF \A i \in DOMAIN peers : peers[i] \in Addr THEN grants ELSE {}
  <2>2. PICK n \in 0 .. MaxPeers : peers \in [1 .. n -> Addr \cup ForeignAddr]
    BY DEF PeerList
  <2>3. /\ P \in SUBSET Addr
        /\ grants \in SUBSET Grant
        /\ \A x \in P : Permission(x) \in grants
    BY <2>2 DEF Installable, Grant
  <2>4. H \in SUBSET grants /\ \A g \in H : \E x \in P : g = Permission(x)
    BY <2>2 DEF Installable
  <2>5. a[2] \in Port /\ a[1] \in Client
    BY AllocationParts DEF TypeOK
  <2> DEFINE B == {}
  <2>6. /\ channels' = [channels EXCEPT ![a[2]] = @ \cup B]
        /\ B \in SUBSET (Number \X (Addr \X PeerPort))
        /\ \A b \in B : Channel(b[1], b[2]) \in grants
    BY <2>1, <2>5 DEF TypeOK
  <2>7. asked' = [asked EXCEPT ![a[1]] = @ \cup grants]
    BY <2>1 DEF Asks
  <2>8. granted' = [granted EXCEPT ![a[1]] = @ \cup H]
    BY <2>1, <2>5 DEF Acknowledge, TypeOK
  <2>9. out' \in Out /\ out'.kind # "data"
    BY <2>1 DEF Acknowledge, Reply, Out, Error
  <2>10. /\ permissions' = [permissions EXCEPT ![a[2]] = @ \cup P]
         /\ UNCHANGED <<session, running, reservations, stored>>
    BY <2>1
  <2> HIDE DEF P, B, H, grants, IInv
  <2>11. EntriesAdded(a, P, B, grants, H)
    BY <2>3, <2>4, <2>6, <2>7, <2>8, <2>9, <2>10 DEF EntriesAdded
  <2>12. QED
    BY <2>11, AddEntriesIInv
<1>3. QED
  BY <1>1, <1>2 DEF handlePermissionRequest

\* ChannelBind: a binding and a permission, or nothing.
LEMMA ChannelBindRequestIInv ==
  ASSUME IInv, NEW c \in Client, NEW n \in Number, NEW e \in Peer,
         handleChannelBindRequest(c, n, e)
  PROVE  IInv'
<1> USE DEF IInv
<1> DEFINE grants == {Channel(n, e), Permission(e[1])}
<1>1. CASE \E error \in Error : Reject(c, error)
  BY <1>1, TableKept DEF Reject, Reply, Out
<1>2. CASE \E a \in getAllocation(c) :
             /\ e[1] \in Addr
             /\ addChannel(a[2], n, e)
             /\ Asks(c, grants)
             /\ Acknowledge(c, grants)
             /\ UNCHANGED <<session, running, reservations, stored>>
  <2>1. PICK a \in session :
             /\ a[1] = c
             /\ e[1] \in Addr
             /\ addChannel(a[2], n, e)
             /\ Asks(c, grants)
             /\ Acknowledge(c, grants)
             /\ UNCHANGED <<session, running, reservations, stored>>
    BY <1>2 DEF getAllocation
  <2> DEFINE P == {e[1]}
  <2> DEFINE B == {<<n, e>>}
  <2>2. e \in Addr \X PeerPort
    BY <2>1 DEF Peer
  <2>3. /\ P \in SUBSET Addr /\ B \in SUBSET (Number \X (Addr \X PeerPort))
        /\ grants \in SUBSET Grant
    BY <2>1, <2>2 DEF Grant
  <2>4. /\ \A x \in P : Permission(x) \in grants
        /\ \A b \in B : Channel(b[1], b[2]) \in grants
        /\ \A g \in grants : (\E x \in P : g = Permission(x)) \/ (\E b \in B : g = Channel(b[1], b[2]))
    OBVIOUS
  <2>5. /\ permissions' = [permissions EXCEPT ![a[2]] = @ \cup P]
        /\ channels' = [channels EXCEPT ![a[2]] = @ \cup B]
        /\ asked' = [asked EXCEPT ![a[1]] = @ \cup grants]
        /\ granted' = [granted EXCEPT ![a[1]] = @ \cup grants]
    BY <2>1 DEF addChannel, Asks, Acknowledge
  <2>6. out' \in Out /\ out'.kind # "data"
    BY <2>1 DEF Acknowledge, Reply, Out
  <2>7. UNCHANGED <<session, running, reservations, stored>>
    BY <2>1
  <2> HIDE DEF P, B, grants, IInv
  <2>8. EntriesAdded(a, P, B, grants, grants)
    BY <2>3, <2>4, <2>5, <2>6, <2>7 DEF EntriesAdded
  <2>9. QED
    BY <2>8, AddEntriesIInv
<1>3. QED
  BY <1>1, <1>2 DEF handleChannelBindRequest, Error

\* Data of a peer, by the channel or the permission that is there.
LEMMA PeerMessageIInv ==
  ASSUME IInv, NEW a \in Allocation, NEW e \in Peer, processPeerMessage(a, e)
  PROVE  IInv'
<1> USE DEF IInv, processPeerMessage, table
<1> DEFINE number == channelByAddress(a[2], e)
<1>1. a \in Live /\ a[1] \in Client /\ a[2] \in Port
  BY AllocationParts DEF Live
<1>2. \A n \in number : n \in Number /\ Channel(n, e) \in asked[a[1]]
  BY <1>1 DEF channelByAddress, EntriesAsked, TypeOK
<1>3. number = {} => Permission(e[1]) \in asked[a[1]]
  BY <1>1 DEF hasPermission, EntriesAsked
<1> HIDE DEF number
<1>4. out' = [kind |-> "data", to |-> a[1], peer |-> e, number |-> number]
  BY DEF number
<1>5. out' \in Out
  BY <1>1, <1>2, <1>4 DEF Out
<1>6. TypeOK' /\ OneOwner' /\ EntriesAsked' /\ StoredOwn'
  BY <1>5 DEF TypeOK, OneOwner, EntriesAsked, StoredOwn, Live
<1>7. AcknowledgedIsEffective'
  BY DEF AcknowledgedIsEffective, Effective, getAllocation
<1>8. OnlyAskedPeers'
  BY <1>2, <1>3, <1>4 DEF OnlyAskedPeers
<1>9. QED
  BY <1>6, <1>7, <1>8

\* The allocation leaves the session map, its relay may go on.
LEMMA ExpireIInv ==
  ASSUME IInv, NEW a \in Allocation, expireAllocation(a)
  PROVE  IInv'
<1> USE DEF IInv, expireAllocation, Lapse
<1>1. a \in Live /\ a = <<a[1], a[2]>> /\ a[1] \in Client
  BY AllocationParts DEF Live
<1>2. Live' = (IF a \in running THEN Live ELSE Live \ {a})
  BY DEF Live
<1>3. /\ permissions' \in [Port -> SUBSET Addr]
      /\ channels' \in [Port -> SUBSET (Number \X (Addr \X PeerPort))]
      /\ stored' \in [Port -> {NoMessage} \cup [txn : Txn, relay : Port, token : SUBSET Port]]
      /\ \A b \in Live' : /\ permissions'[b[2]] = permissions[b[2]]
                          /\ channels'[b[2]] = channels[b[2]]
      /\ OneOwner' /\ EntriesAsked' /\ StoredOwn'
  <2>1. Release(a, running) /\ session' \subseteq session /\ UNCHANGED <<reservations, asked>>
    OBVIOUS
  <2> HIDE DEF IInv, expireAllocation, Lapse
  <2>2. QED
    BY <1>1, <1>2, <2>1, ReleaseEntries
<1>4. TypeOK'
  <2>1. granted' \in [Client -> SUBSET Grant]
    BY DEF TypeOK
  <2>2. out' \in Out
    BY DEF Out, NoOut
  <2>3. QED
    BY <1>3, <2>1, <2>2 DEF TypeOK
<1>5. AcknowledgedIsEffective'
  <2> SUFFICES ASSUME NEW d \in Client, NEW g \in granted'[d]
               PROVE  (g \in Effective(d))'
    BY DEF AcknowledgedIsEffective
  <2>1. g \in granted[d] /\ <<d, a[2]>> \notin session
    BY DEF TypeOK
  <2>2. d # a[1]
    BY <1>1, <2>1
  <2>3. PICK b \in session :
          /\ b[1] = d
          /\ \/ g = Relay(b[2])
             \/ \E x \in permissions[b[2]] : g = Permission(x)
             \/ \E k \in channels[b[2]] : g = Channel(k[1], k[2])
    BY <2>1, EffectiveParts DEF AcknowledgedIsEffective
  <2>4. b \in session' /\ b \in Live'
    BY <2>2, <2>3 DEF Live
  <2>5. QED
    BY <1>3, <2>3, <2>4, EffectiveParts
<1>6. OnlyAskedPeers'
  BY DEF OnlyAskedPeers, NoOut
<1>7. QED
  BY <1>3, <1>4, <1>5, <1>6

\* The coroutine of the relay returns.
LEMMA RelayEndsIInv ==
  ASSUME IInv, NEW a \in Allocation, RelayEnds(a)
  PROVE  IInv'
<1> USE DEF IInv, RelayEnds
<1>1. a \in Live
  BY DEF Live
<1>2. Live' = (IF a \in session THEN Live ELSE Live \ {a})
  BY DEF Live
<1>3. /\ permissions' \in [Port -> SUBSET Addr]
      /\ channels' \in [Port -> SUBSET (Number \X (Addr \X PeerPort))]
      /\ stored' \in [Port -> {NoMessage} \cup [txn : Txn, relay : Port, token : SUBSET Port]]
      /\ \A b \in Live' : /\ permissions'[b[2]] = permissions[b[2]]
                          /\ channels'[b[2]] = channels[b[2]]
      /\ OneOwner' /\ EntriesAsked' /\ StoredOwn'
  <2>1. Release(a, session) /\ session' \subseteq session /\ UNCHANGED <<reservations, asked>>
    OBVIOUS
  <2> HIDE DEF IInv, RelayEnds
  <2>2. QED
    BY <1>1, <1>2, <2>1, ReleaseEntries
<1>4. TypeOK'
  <2>1. out' \in Out
    BY DEF Out, NoOut
  <2>2. QED
    BY <1>3, <2>1 DEF TypeOK
<1>5. AcknowledgedIsEffective'
  <2> SUFFICES ASSUME NEW d \in Client, NEW g \in granted'[d]
               PROVE  (g \in Effective(d))'
    BY DEF AcknowledgedIsEffective
  <2>1. g \in Effective(d)
    BY DEF AcknowledgedIsEffective
  <2>2. session' = session /\ \A b \in session : b \in Live'
    BY DEF Live
  <2>3. QED
    BY <1>3, <2>1, <2>2, EffectiveParts
<1>6. OnlyAskedPeers'
  BY DEF OnlyAskedPeers, NoOut
<1>7. QED
  BY <1>3, <1>4, <1>5, <1>6

\* A permission or a channel expires.
LEMMA EntryIInv ==
  ASSUME IInv, NEW p \in Port
  PROVE  /\ \A x \in Addr : removePermission(p, x) => IInv'
         /\ \A b \in Number \X Peer : removeChannel(p, b) => IInv'
<1>1. ASSUME NEW x \in Addr, removePermission(p, x)
      PROVE  IInv'
  <2> USE <1>1 DEF removePermission
  <2>1. /\ permissions' \in [Port -> SUBSET Addr]
        /\ channels' \in [Port -> SUBSET (Number \X (Addr \X PeerPort))]
    BY DEF IInv, TypeOK
  <2>2. /\ \A q \in Port : permissions'[q] \subseteq permissions[q] /\ channels'[q] \subseteq channels[q]
        /\ \A q \in Port \ {p} : permissions'[q] = permissions[q] /\ channels'[q] = channels[q]
    BY DEF IInv, TypeOK
  <2>3. /\ \A y \in permissions[p] : y \in permissions'[p] \/ Permission(y) \in {Permission(x)}
        /\ \A b \in channels[p] : b \in channels'[p] \/ Channel(b[1], b[2]) \in {Permission(x)}
    BY DEF IInv, TypeOK
  <2>4. QED
    BY <2>1, <2>2, <2>3, LapseIInv
<1>2. ASSUME NEW b \in Number \X Peer, removeChannel(p, b)
      PROVE  IInv'
  <2> USE <1>2 DEF removeChannel
  <2>1. /\ permissions' \in [Port -> SUBSET Addr]
        /\ channels' \in [Port -> SUBSET (Number \X (Addr \X PeerPort))]
    BY DEF IInv, TypeOK
  <2>2. /\ \A q \in Port : permissions'[q] \subseteq permissions[q] /\ channels'[q] \subseteq channels[q]
        /\ \A q \in Port \ {p} : permissions'[q] = permissions[q] /\ channels'[q] = channels[q]
    BY DEF IInv, TypeOK
  <2>3. /\ \A y \in permissions[p] : y \in permissions'[p] \/ Permission(y) \in {Channel(b[1], b[2])}
        /\ \A k \in channels[p] : k \in channels'[p] \/ Channel(k[1], k[2]) \in {Channel(b[1], b[2])}
    BY DEF IInv, TypeOK
  <2>4. QED
    BY <2>1, <2>2, <2>3, LapseIInv
<1>3. QED
  BY <1>1, <1>2

\* Every packet of a client.
LEMMA PacketIInv ==
  ASSUME IInv, NEW c \in Client, processPacket(c)
  PROVE  IInv'
<1>1. ASSUME NEW result \in Error \cup {"Success"}, Reply(c, result),
             UNCHANGED <<table, granted, asked>>
      PROVE  IInv'
  BY <1>1, TableKept DEF Reply, Out
<1>2. ASSUME NEW p \in Port, NEW e \in Peer, SendToPeer(p, e)
      PROVE  IInv'
  BY <1>2, TableKept DEF SendToPeer, Out
<1>3. \A a \in getAllocation(c) : a[2] \in Port
  BY AllocationParts DEF IInv, TypeOK, getAllocation
<1>4. CASE handleBindingRequest(c)
  BY <1>1, <1>4 DEF handleBindingRequest
<1>5. CASE UnknownMethod(c) \/ Unauthenticated(c) \/ IncompleteChannelBind(c)
  BY <1>1, <1>5 DEF UnknownMethod, Unauthenticated, IncompleteChannelBind, Reject, Error
<1>6. CASE \E txn \in Txn : handleAllocationRequest(c, txn)
  BY <1>6, AllocationRequestIInv
<1>7. CASE \E family \in OptionalFamily : handleRefreshRequest(c, family)
  <2>1. PICK family \in OptionalFamily : handleRefreshRequest(c, family)
    BY <1>7
  <2>2. QED
    BY <1>1, <2>1, RefreshVerdictType DEF handleRefreshRequest
<1>8. CASE \E peers \in PeerList : handlePermissionRequest(c, peers)
  BY <1>8, PermissionRequestIInv
<1>9. CASE \E n \in Number, e \in Peer : handleChannelBindRequest(c, n, e)
  BY <1>9, ChannelBindRequestIInv
<1>10. CASE \E n \in Number : handleChannelData(c, n)
  <2>1. PICK a \in getAllocation(c) : \E b \in channels[a[2]] : SendToPeer(a[2], b[2])
    BY <1>10 DEF handleChannelData
  <2>2. PICK b \in channels[a[2]] : SendToPeer(a[2], b[2])
    BY <2>1
  <2>3. b[2] \in Peer
    BY <1>3, <2>1, <2>2 DEF IInv, TypeOK, Peer
  <2>4. QED
    BY <1>2, <1>3, <2>1, <2>2, <2>3
<1>11. CASE \E e \in Peer : handleSendIndication(c, e)
  BY <1>2, <1>3, <1>11 DEF handleSendIndication
<1>12. QED
  BY <1>4, <1>5, <1>6, <1>7, <1>8, <1>9, <1>10, <1>11 DEF processPacket

\* The invariant is inductive.
THEOREM Inductive == Spec => []IInv
<1>1. ASSUME IInv, [Next]_vars
      PROVE  IInv'
  <2>1. ASSUME NEW c \in Client, processPacket(c)
        PROVE  IInv'
    BY <1>1, <2>1, PacketIInv
  <2>2. ASSUME NEW a \in Allocation, NEW e \in Peer, processPeerMessage(a, e)
        PROVE  IInv'
    BY <1>1, <2>2, PeerMessageIInv
  <2>3. ASSUME NEW a \in Allocation, expireAllocation(a) \/ RelayEnds(a)
        PROVE  IInv'
    BY <1>1, <2>3, ExpireIInv, RelayEndsIInv
  <2>4. ASSUME NEW p \in Port, NEW a \in Addr, removePermission(p, a)
        PROVE  IInv'
    BY <1>1, <2>4, EntryIInv
  <2>5. ASSUME NEW p \in Port, NEW b \in Number \X Peer, removeChannel(p, b)
        PROVE  IInv'
    BY <1>1, <2>5, EntryIInv
  <2>6. CASE UNCHANGED vars
    <3> USE <1>1, <2>6 DEF vars, IInv
    <3>1. TypeOK' /\ OneOwner' /\ EntriesAsked' /\ StoredOwn'
      BY DEF TypeOK, OneOwner, EntriesAsked, StoredOwn, Live
    <3>2. AcknowledgedIsEffective' /\ OnlyAskedPeers'
      BY DEF AcknowledgedIsEffective, Effective, getAllocation, OnlyAskedPeers
    <3>3. QED
      BY <3>1, <3>2
  <2>7. QED
    BY <1>1, <2>1, <2>2, <2>3, <2>4, <2>5, <2>6 DEF Next
<1>2. QED
  BY <1>1, InitIInv, PTL DEF Spec

\* The tables, the stored responses and the messages sent have their types,
\* whatever clients and peers send.
THEOREM TypeCorrect == Spec => []TypeOK
<1>1. IInv => TypeOK
  BY DEF IInv
<1>2. QED
  BY <1>1, Inductive, PTL

\* What a success response gave a client is there until it expires, with any
\* number of clients that retransmit, refuse and claim in any order.
THEOREM AcknowledgedStays == Spec => []AcknowledgedIsEffective
<1>1. IInv => AcknowledgedIsEffective
  BY DEF IInv
<1>2. QED
  BY <1>1, Inductive, PTL

\* Data of a peer goes only to a client that asked for this peer, also on a
\* port that had another owner and after the allocation has left the map.
THEOREM ServesAskedPeers == Spec => []OnlyAskedPeers
<1>1. IInv => OnlyAskedPeers
  BY DEF IInv
<1>2. QED
  BY <1>1, Inductive, PTL
-----------------------------------------------------------------------------
\* What ClientsApart says of one client and one step.
Apart(c) ==
  Effective(c)' # Effective(c) =>
    \/ out' = NoOut /\ Effective(c)' \subseteq Effective(c)
    \/ out'.kind = "reply" /\ out'.to = c /\ Effective(c) \subseteq Effective(c)'

\* What a client has depends on the map and on the entries alone.
LEMMA SameTableApart ==
  ASSUME NEW c \in Client, UNCHANGED <<session, permissions, channels>>
  PROVE  Apart(c)
<1>1. Effective(c)' = Effective(c)
  BY DEF Effective, getAllocation
<1>2. QED
  BY <1>1 DEF Apart

\* A new allocation concerns its client alone.
LEMMA InstallApart ==
  ASSUME IInv, NEW c \in Client, NEW txn, NEW p, NEW token,
         ~ InUse(c), Install(c, txn, p, token), NEW d \in Client
  PROVE  Apart(d)
<1>1. session' = session \cup {<<c, p>>} /\ UNCHANGED <<permissions, channels>>
  BY DEF Install, InUse, getAllocation
<1>2. CASE d = c
  <2>1. out'.kind = "reply" /\ out'.to = d
    BY <1>2 DEF Install, Acknowledge, Reply
  <2>2. Effective(d) \subseteq Effective(d)'
    BY <1>1, EffectiveParts
  <2>3. QED
    BY <2>1, <2>2 DEF Apart
<1>3. CASE d # c
  <2>1. \A g : g \in Effective(d) <=> g \in Effective(d)'
    BY <1>1, <1>3, EffectiveParts
  <2>2. Effective(d)' = Effective(d)
    BY <2>1
  <2>3. QED
    BY <2>2 DEF Apart
<1>4. QED
  BY <1>2, <1>3

\* Entries that are added to an allocation concern its client alone, because no
\* other one has an allocation on that port.
LEMMA OwnPortApart ==
  ASSUME IInv, NEW a \in session, session' = session,
         \A q \in Port : permissions[q] \subseteq permissions'[q] /\ channels[q] \subseteq channels'[q],
         \A q \in Port \ {a[2]} : permissions'[q] = permissions[q] /\ channels'[q] = channels[q],
         out'.kind = "reply", out'.to = a[1], NEW d \in Client
  PROVE  Apart(d)
<1>1. \A b \in session : b \in Live /\ b[2] \in Port
  BY AllocationParts DEF IInv, TypeOK, Live
<1>2. CASE d = a[1]
  <2>1. Effective(d) \subseteq Effective(d)'
    BY <1>1, EffectiveParts
  <2>2. QED
    BY <1>2, <2>1 DEF Apart
<1>3. CASE d # a[1]
  <2>1. \A b \in session : b[1] = d => permissions'[b[2]] = permissions[b[2]] /\ channels'[b[2]] = channels[b[2]]
    BY <1>1, <1>3 DEF IInv, OneOwner
  <2>2. \A g : g \in Effective(d) <=> g \in Effective(d)'
    BY <2>1, EffectiveParts
  <2>3. Effective(d)' = Effective(d)
    BY <2>2
  <2>4. QED
    BY <2>3 DEF Apart
<1>4. QED
  BY <1>2, <1>3

\* Expiry and the end of a relay take away and give nothing.
LEMMA LossApart ==
  ASSUME IInv, session' \subseteq session, out' = NoOut,
         \A b \in session' : permissions'[b[2]] \subseteq permissions[b[2]] /\ channels'[b[2]] \subseteq channels[b[2]],
         NEW d \in Client
  PROVE  Apart(d)
<1>1. Effective(d)' \subseteq Effective(d)
  BY EffectiveParts
<1>2. QED
  BY <1>1 DEF Apart

\* Every packet of a client.
LEMMA PacketApart ==
  ASSUME IInv, NEW c \in Client, processPacket(c), NEW d \in Client
  PROVE  Apart(d)
<1>1. ASSUME NEW error, Reject(c, error)
      PROVE  Apart(d)
  BY <1>1, SameTableApart DEF Reject, table
<1>2. \A a \in getAllocation(c) : a \in session /\ a[1] = c /\ a[2] \in Port
  BY AllocationParts DEF IInv, TypeOK, getAllocation
<1>3. CASE handleBindingRequest(c) \/ UnknownMethod(c) \/ Unauthenticated(c)
             \/ IncompleteChannelBind(c)
  BY <1>1, <1>3, SameTableApart
     DEF handleBindingRequest, UnknownMethod, Unauthenticated, IncompleteChannelBind, table
<1>4. ASSUME NEW txn \in Txn, handleAllocationRequest(c, txn)
      PROVE  Apart(d)
  <2>1. CASE Retransmitted(c, txn)
    BY <2>1, SameTableApart DEF Retransmitted, table
  <2>2. CASE AllocationMismatch(c, txn) \/ InsufficientCapacity(c)
               \/ \E error \in AllocateRejections : RejectAllocate(c, error)
    BY <1>1, <2>2 DEF AllocationMismatch, InsufficientCapacity, RejectAllocate
  <2>3. CASE \E p \in Tokens : ClaimReservation(c, txn, p)
    BY <2>3, InstallApart DEF ClaimReservation
  <2>4. CASE \E policy \in Policies : CreateAllocation(c, txn, policy)
    BY <2>4, InstallApart DEF CreateAllocation
  <2>5. QED
    BY <1>4, <2>1, <2>2, <2>3, <2>4 DEF handleAllocationRequest
<1>5. CASE \E family \in OptionalFamily : handleRefreshRequest(c, family)
  BY <1>5, SameTableApart DEF handleRefreshRequest, table
<1>6. ASSUME NEW peers \in PeerList, handlePermissionRequest(c, peers)
      PROVE  Apart(d)
  <2>1. CASE \E error : Reject(c, error)
    BY <1>1, <2>1
  <2>2. CASE \E a \in getAllocation(c) :
               /\ permissions' = [permissions EXCEPT ![a[2]] = @ \cup Installable(peers)]
               /\ \E result : Reply(c, result)
               /\ UNCHANGED <<session, channels>>
    <3>1. PICK a \in getAllocation(c) :
               /\ permissions' = [permissions EXCEPT ![a[2]] = @ \cup Installable(peers)]
               /\ \E result : Reply(c, result)
               /\ UNCHANGED <<session, channels>>
      BY <2>2
    <3>2. a \in session /\ a[1] = c /\ a[2] \in Port
      BY <1>2, <3>1
    <3>3. out'.kind = "reply" /\ out'.to = a[1]
      BY <3>1, <3>2 DEF Reply
    <3>4. /\ \A q \in Port : permissions[q] \subseteq permissions'[q] /\ channels[q] \subseteq channels'[q]
          /\ \A q \in Port \ {a[2]} : permissions'[q] = permissions[q] /\ channels'[q] = channels[q]
      BY <3>1, <3>2 DEF IInv, TypeOK
    <3>5. QED
      BY <3>1, <3>2, <3>3, <3>4, OwnPortApart
  <2>3. QED
    BY <1>6, <2>1, <2>2 DEF handlePermissionRequest, Acknowledge
<1>7. ASSUME NEW n \in Number, NEW e \in Peer, handleChannelBindRequest(c, n, e)
      PROVE  Apart(d)
  <2>1. CASE \E error : Reject(c, error)
    BY <1>1, <2>1
  <2>2. CASE \E a \in getAllocation(c) :
               addChannel(a[2], n, e) /\ Reply(c, "Success") /\ session' = session
    <3>1. PICK a \in getAllocation(c) :
               addChannel(a[2], n, e) /\ Reply(c, "Success") /\ session' = session
      BY <2>2
    <3>2. a \in session /\ a[1] = c /\ a[2] \in Port
      BY <1>2, <3>1
    <3>3. out'.kind = "reply" /\ out'.to = a[1]
      BY <3>1, <3>2 DEF Reply
    <3>4. /\ \A q \in Port : permissions[q] \subseteq permissions'[q] /\ channels[q] \subseteq channels'[q]
          /\ \A q \in Port \ {a[2]} : permissions'[q] = permissions[q] /\ channels'[q] = channels[q]
      BY <3>1, <3>2 DEF IInv, TypeOK, addChannel
    <3>5. QED
      BY <3>1, <3>2, <3>3, <3>4, OwnPortApart
  <2>3. QED
    BY <1>7, <2>1, <2>2 DEF handleChannelBindRequest, Acknowledge
<1>8. CASE (\E n \in Number : handleChannelData(c, n)) \/ (\E e \in Peer : handleSendIndication(c, e))
  BY <1>8, SameTableApart DEF handleChannelData, handleSendIndication, SendToPeer, table
<1>9. QED
  BY <1>3, <1>4, <1>5, <1>6, <1>7, <1>8 DEF processPacket

\* Requests of one client never change what another one has, with any number of
\* clients on any range of ports.
THEOREM ClientsAreApart == Spec => ClientsApart
<1>1. ASSUME IInv, [Next]_vars
      PROVE  [\A c \in Client : Apart(c)]_vars
  <2> SUFFICES ASSUME Next, NEW d \in Client PROVE Apart(d)
    BY <1>1
  <2>1. ASSUME NEW c \in Client, processPacket(c)
        PROVE  Apart(d)
    BY <1>1, <2>1, PacketApart
  <2>2. ASSUME NEW a \in Allocation, NEW e \in Peer, processPeerMessage(a, e)
        PROVE  Apart(d)
    BY <2>2, SameTableApart DEF processPeerMessage, table
  <2>3. \A b \in session : b[2] \in Port
    BY <1>1, AllocationParts DEF IInv, TypeOK
  <2>4. ASSUME NEW a \in Allocation, expireAllocation(a) \/ RelayEnds(a)
        PROVE  Apart(d)
    <3>1. session' \subseteq session /\ out' = NoOut /\ \E holders : Release(a, holders)
      BY <2>4 DEF expireAllocation, RelayEnds, Lapse
    <3>2. a[2] \in Port
      BY AllocationParts
    <3>3. \A q \in Port : permissions'[q] \subseteq permissions[q] /\ channels'[q] \subseteq channels[q]
      <4>1. \/ UNCHANGED <<permissions, channels>>
            \/ /\ permissions' = [permissions EXCEPT ![a[2]] = {}]
               /\ channels' = [channels EXCEPT ![a[2]] = {}]
        BY <3>1 DEF Release, WithoutEntries
      <4>2. QED
        BY <1>1, <3>2, <4>1 DEF IInv, TypeOK
    <3>4. QED
      BY <1>1, <2>3, <3>1, <3>3, LossApart
  <2>5. ASSUME NEW p \in Port,
               \/ \E a \in Addr : removePermission(p, a)
               \/ \E b \in Number \X Peer : removeChannel(p, b)
        PROVE  Apart(d)
    <3>1. session' = session /\ out' = NoOut
      BY <2>5 DEF removePermission, removeChannel, Lapse
    <3>2. \A q \in Port : permissions'[q] \subseteq permissions[q] /\ channels'[q] \subseteq channels[q]
      BY <1>1, <2>5 DEF removePermission, removeChannel, IInv, TypeOK
    <3>3. QED
      BY <1>1, <2>3, <3>1, <3>2, LossApart
  <2>6. QED
    BY <2>1, <2>2, <2>4, <2>5 DEF Next
<1>2. QED
  BY <1>1, Inductive, PTL DEF Spec, ClientsApart, Apart
=============================================================================
