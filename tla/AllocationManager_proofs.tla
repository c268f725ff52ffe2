------------------------ MODULE AllocationManager_proofs ------------------------
(***************************************************************************)
(* The life of allocations, for any set of clients, any port range, any    *)
(* lifetimes and any number of threads and queued callbacks; and what      *)
(* holds besides when one thread runs the io_context.                      *)
(***************************************************************************)
EXTENDS AllocationManager, TLAPS

\* An allocation is determined by its tuple and its port.
LEMMA AllocationParts ==
  ASSUME NEW a \in Allocation
  PROVE  a[1] \in Tuple /\ a[2] \in Port /\ a = <<a[1], a[2]>>
  BY DEF Allocation

\* computeLifetime answers with a lifetime of the configuration, never 0.
LEMMA ComputeLifetimeType ==
  ASSUME NEW r \in Requested
  PROVE  computeLifetime(r) \in Lifetime /\ computeLifetime(r) > 0
  BY LifetimeAssumption DEF computeLifetime, Lifetime, Requested

\* generateUdpRelay returns sockets that nobody had: the primary one and, for
\* a pair, another one.
LEMMA RelayIsFree ==
  ASSUME NEW policy \in Generator!PortPolicy, NEW free,
         NEW p \in Generator!GenerateUdpRelay(MinPort, MaxPort, policy, free)
  PROVE  p \in free /\ Generator!Opened(p, policy) \subseteq free
  BY DEF Generator!GenerateUdpRelay, Generator!Opened

\* Rounding to an even number.
LEMMA EvenFloorBounds ==
  ASSUME NEW x \in Nat
  PROVE  /\ Generator!EvenFloor(x) \in Nat /\ Generator!EvenFloor(x) % 2 = 0
         /\ x - 1 <= Generator!EvenFloor(x) /\ Generator!EvenFloor(x) <= x
  BY DEF Generator!EvenFloor

\* A number below the modulus is not changed by it.
LEMMA ModSmall ==
  ASSUME NEW n \in Nat \ {0}, NEW x \in Nat, x < n
  PROVE  x % n = x
  BY SMT

\* In a proper range the bounds of the distribution are those of the range,
\* the lower one rounded up and the upper one rounded down: nothing wraps.
LEMMA DistributionBounds ==
  ASSUME ProperRange, NEW policy \in Generator!PortPolicy
  PROVE  LET lo == Generator!port_min(MinPort, policy)
             hi == Generator!port_max(MaxPort, policy)
         IN  lo \in Nat /\ hi \in Nat /\ MinPort <= lo /\ lo <= hi /\ hi <= MaxPort
<1>1. PICK e \in MinPort .. MaxPort : e % 2 = 0
  BY DEF ProperRange
<1>2. e \in Nat /\ MinPort <= e /\ e <= MaxPort /\ MinPort <= MaxPort
  BY <1>1, PortAssumption
<1>3. CASE ~ Generator!require_even(policy)
  BY <1>2, <1>3, PortAssumption DEF Generator!port_min, Generator!port_max
<1>4. CASE Generator!require_even(policy)
  <2> DEFINE lo == Generator!EvenFloor(MinPort + 1)
  <2> DEFINE hi == Generator!EvenFloor(MaxPort)
  <2>1. /\ lo \in Nat /\ lo % 2 = 0 /\ MinPort <= lo /\ lo <= MinPort + 1
        /\ hi \in Nat /\ hi % 2 = 0 /\ MaxPort - 1 <= hi /\ hi <= MaxPort
    BY EvenFloorBounds, PortAssumption
  <2> HIDE DEF lo, hi
  <2>2. lo <= e /\ e <= hi
    BY <1>1, <1>2, <2>1, PortAssumption
  <2>3. lo % Word = lo
    BY <1>2, <2>1, <2>2, ModSmall, PortAssumption DEF ProperRange
  <2>4. Generator!port_min(MinPort, policy) = lo /\ Generator!port_max(MaxPort, policy) = hi
    BY <1>4, <2>3 DEF Generator!port_min, Generator!port_max, lo, hi
  <2>5. QED
    BY <1>2, <2>1, <2>2, <2>4, PortAssumption
<1>5. QED
  BY <1>3, <1>4

\* Every socket that is opened is in the range, and the second one of a pair
\* on an odd port.
LEMMA RelayInRange ==
  ASSUME ProperRange, NEW policy \in Generator!PortPolicy, NEW free,
         NEW p \in Generator!GenerateUdpRelay(MinPort, MaxPort, policy, free)
  PROVE  /\ p \in MinPort .. MaxPort
         /\ \A q \in Generator!Opened(p, policy) \ {p} : q \in MinPort .. MaxPort /\ q % 2 = 1
<1> DEFINE lo == Generator!port_min(MinPort, policy)
<1> DEFINE hi == Generator!port_max(MaxPort, policy)
<1>1. lo \in Nat /\ hi \in Nat /\ MinPort <= lo /\ lo <= hi /\ hi <= MaxPort
  BY DistributionBounds
<1>2. /\ p \in 0 .. Word - 1 /\ (lo <= hi => lo <= p /\ p <= hi)
      /\ p % (IF Generator!require_even(policy) THEN 2 ELSE 1) = 0
      /\ Generator!reserve_next(policy) => p + 1 <= MaxPort
  BY DEF Generator!GenerateUdpRelay, Generator!Candidates, Generator!Drawn
<1> HIDE DEF lo, hi
<1>3. p \in Nat /\ p \in MinPort .. MaxPort
  BY <1>1, <1>2, PortAssumption
<1>4. ASSUME NEW q \in Generator!Opened(p, policy) \ {p}
      PROVE  q \in MinPort .. MaxPort /\ q % 2 = 1
  <2>1. Generator!reserve_next(policy) /\ q = p + 1
    BY DEF Generator!Opened
  <2>2. p % 2 = 0
    BY <1>2, <2>1 DEF Generator!reserve_next, Generator!require_even
  <2>3. QED
    BY <1>2, <1>3, <2>1, <2>2, PortAssumption
<1>5. QED
  BY <1>3, <1>4

\* The initial state satisfies the inductive invariant.
LEMMA InitIInv == Init => IInv
<1> SUFFICES ASSUME Init PROVE IInv
  OBVIOUS
<1>1. TypeOK
  BY LifetimeAssumption DEF Init, TypeOK, Lifetime
<1>2. ReaderState /\ OneOwner /\ PortsInRange /\ ExpiryScheduled
  BY DEF Init, ReaderState, OneOwner, PortsInRange, ExpiryScheduled, Live
<1>3. QED
  BY <1>1, <1>2 DEF IInv

\* Putting a new allocation into the map, on a port that no allocation has and
\* that will not be a reservation's.
LEMMA InsertIInv ==
  ASSUME IInv, NEW t \in Tuple, NEW p \in Port, Insert(t, p),
         \A a \in Live : a[2] # p,
         reservations' \in SUBSET Port, p \notin reservations',
         \A a \in Live : a[2] \notin reservations',
         ProperRange => p \in MinPort .. MaxPort,
         ProperRange => \A q \in reservations' : q \in MinPort .. MaxPort /\ q % 2 = 1
  PROVE  IInv'
<1> USE DEF IInv, Insert
<1>1. <<t, p>> \in Allocation
  BY DEF Allocation
<1>2. TypeOK'
  BY <1>1, LifetimeAssumption DEF TypeOK, Lifetime
<1>3. Live' = Live \cup {<<t, p>>}
  BY DEF Live, ReaderState
<1>4. ReaderState'
  <2>1. p \notin waiting
    BY DEF ReaderState
  <2>2. <<t, p>> \notin running
    BY DEF Live
  <2>3. QED
    BY <1>3, <2>1, <2>2 DEF ReaderState
<1>5. OneOwner'
  BY <1>3 DEF OneOwner, getAllocation
<1>6. ExpiryScheduled'
  <2> SUFFICES ASSUME NEW b \in session', b # <<t, p>>
               PROVE  b[2] \in waiting' \/ (expired(b)' /\ handlers'[b[1]] > 0)
    BY DEF ExpiryScheduled
  <2>1. b \in session /\ b \in Live /\ b[2] # p
    BY DEF Live
  <2>2. QED
    BY <2>1 DEF ExpiryScheduled, expired, TypeOK
<1>7. PortsInRange'
  BY <1>3 DEF PortsInRange, ProperRange
<1>8. QED
  BY <1>2, <1>4, <1>5, <1>6, <1>7

\* Steps that make no new allocation and no new reservation open no socket.
LEMMA NoNewSocket ==
  ASSUME PortsInRange, Live' \subseteq Live, reservations' \subseteq reservations
  PROVE  PortsInRange'
  BY DEF PortsInRange, ProperRange

\* Every step preserves the invariant, whatever the number of threads.
LEMMA NextIInv == IInv /\ [Next]_vars => IInv'
<1> SUFFICES ASSUME IInv, [Next]_vars
             PROVE  IInv'
  OBVIOUS
<1> USE DEF IInv
<1>1. ASSUME NEW t \in Tuple, NEW policy \in Generator!PortPolicy,
             CreateAllocation(t, policy)
      PROVE  IInv'
  <2>1. PICK p \in Generator!GenerateUdpRelay(MinPort, MaxPort, policy, Port \ Bound) :
          /\ Insert(t, p)
          /\ reservations' = reservations \cup (Generator!Opened(p, policy) \ {p})
    BY <1>1 DEF CreateAllocation
  <2>2. p \in Port \ Bound /\ Generator!Opened(p, policy) \subseteq Port \ Bound
    BY RelayIsFree
  <2>3. reservations' \in SUBSET Port /\ p \notin reservations'
    BY <2>1, <2>2 DEF TypeOK, Bound
  <2>4. \A a \in Live : a[2] # p /\ a[2] \notin reservations'
    BY <2>1, <2>2 DEF Bound, OneOwner
  <2>5. ProperRange =>
          /\ p \in MinPort .. MaxPort
          /\ \A q \in reservations' : q \in MinPort .. MaxPort /\ q % 2 = 1
    BY <2>1, RelayInRange DEF PortsInRange
  <2>6. QED
    BY <2>1, <2>2, <2>3, <2>4, <2>5, InsertIInv
<1>2. ASSUME NEW t \in Tuple, NEW p \in Port, ClaimReservation(t, p)
      PROVE  IInv'
  <2>1. \A a \in Live : a[2] # p /\ a[2] \notin reservations'
    BY <1>2 DEF ClaimReservation, Claim, OneOwner
  <2>2. reservations' \in SUBSET Port /\ p \notin reservations'
    BY <1>2 DEF ClaimReservation, Claim, TypeOK
  <2>3. ProperRange =>
          /\ p \in MinPort .. MaxPort
          /\ \A q \in reservations' : q \in MinPort .. MaxPort /\ q % 2 = 1
    BY <1>2 DEF ClaimReservation, Claim, PortsInRange
  <2>4. QED
    BY <1>2, <2>1, <2>2, <2>3, InsertIInv DEF ClaimReservation
<1>3. ASSUME NEW a \in held, NEW r \in Requested, Start(a, computeLifetime(r))
      PROVE  IInv'
  <2> USE <1>3 DEF Start, Wait
  <2>1. a \in Allocation /\ a[1] \in Tuple /\ a[2] \in Port /\ held = {a} /\ a \in Live
    BY AllocationParts DEF TypeOK, ReaderState, Live
  <2>2. TypeOK'
    BY <2>1, ComputeLifetimeType DEF TypeOK
  <2>3. Live' = Live
    BY <2>1 DEF Live
  <2>4. ReaderState'
    BY <2>1, <2>3 DEF ReaderState
  <2>5. OneOwner'
    BY <2>3 DEF OneOwner
  <2>6. ExpiryScheduled'
    <3> SUFFICES ASSUME NEW b \in session', b # a
                 PROVE  b[2] \in waiting' \/ (expired(b)' /\ handlers'[b[1]] > 0)
      BY <2>1 DEF ExpiryScheduled
    <3>1. b \in session /\ b \in Live /\ b[2] # a[2] /\ b \notin held
      BY <2>1 DEF Live, OneOwner
    <3>2. QED
      BY <3>1 DEF ExpiryScheduled, expired, TypeOK
  <2>7. PortsInRange'
    BY <2>3, NoNewSocket
  <2>8. QED
    BY <2>2, <2>4, <2>5, <2>6, <2>7
<1>4. ASSUME NEW t \in Tuple, RefreshLookup(t)
      PROVE  IInv'
  <2> USE <1>4 DEF RefreshLookup, getAllocation
  <2>1. Live' = Live
    BY DEF Live, ReaderState
  <2>2. TypeOK'
    BY DEF TypeOK
  <2>3. ReaderState'
    BY <2>1 DEF ReaderState, OneOwner
  <2>4. OneOwner' /\ ExpiryScheduled'
    BY <2>1 DEF OneOwner, ExpiryScheduled, expired
  <2>5. PortsInRange'
    BY <2>1, NoNewSocket
  <2>6. QED
    BY <2>2, <2>3, <2>4, <2>5
<1>5. ASSUME NEW a \in held, NEW r \in Requested, Refresh(a, computeLifetime(r))
      PROVE  IInv'
  <2> DEFINE orphan == a \notin session \cup running
  <2> USE <1>5 DEF Refresh, Wait
  <2>1. a \in Allocation /\ a[1] \in Tuple /\ a[2] \in Port /\ held = {a} /\ a \in Live
    BY AllocationParts DEF TypeOK, ReaderState, Live
  <2>2. TypeOK'
    BY <2>1, ComputeLifetimeType DEF TypeOK
  <2>3. Live' = IF orphan THEN Live \ {a} ELSE Live
    BY <2>1 DEF Live
  <2>4. ReaderState'
    <3>1. \A p \in waiting' : \E b \in Live' : b[2] = p
      BY <2>1, <2>3 DEF ReaderState
    <3>2. QED
      BY <3>1 DEF ReaderState
  <2>5. OneOwner'
    BY <2>3 DEF OneOwner
  <2>6. ExpiryScheduled'
    <3>1. ASSUME NEW b \in session', b # a
          PROVE  b[2] \in waiting' \/ (expired(b)' /\ handlers'[b[1]] > 0)
      <4>1. b \in session /\ b \in Live /\ b[2] # a[2] /\ b \in Allocation
        BY <2>1, <3>1 DEF Live, OneOwner, TypeOK
      <4>2. handlers'[b[1]] >= handlers[b[1]] /\ handlers[b[1]] \in Nat /\ handlers'[b[1]] \in Nat
        BY <2>1, <2>2, <4>1, AllocationParts DEF TypeOK
      <4>3. QED
        BY <4>1, <4>2 DEF ExpiryScheduled, expired, TypeOK
    <3>2. a \in session' => a[2] \in waiting'
      BY <2>1
    <3>3. QED
      BY <3>1, <3>2 DEF ExpiryScheduled
  <2>7. PortsInRange'
    BY <2>3, NoNewSocket
  <2>8. QED
    BY <2>2, <2>4, <2>5, <2>6, <2>7
<1>6. ASSUME NEW a \in Allocation, TimerFires(a)
      PROVE  IInv'
  <2> USE <1>6, AllocationParts DEF TimerFires, expired
  <2>1. TypeOK'
    BY DEF TypeOK
  <2>2. Live' = Live
    BY DEF Live
  <2>3. ReaderState' /\ OneOwner'
    BY <2>2 DEF ReaderState, OneOwner
  <2>4. ExpiryScheduled'
    <3>1. ASSUME NEW b \in session', b # a, ~ (op = "start" /\ b \in held)
          PROVE  b[2] \in waiting' \/ (expired(b)' /\ handlers'[b[1]] > 0)
      <4>1. b \in session /\ b[2] # a[2] /\ b \in Allocation
        BY <3>1 DEF Live, OneOwner, TypeOK
      <4>2. handlers'[b[1]] >= handlers[b[1]] /\ handlers[b[1]] \in Nat /\ handlers'[b[1]] \in Nat
        BY <2>1, <4>1 DEF TypeOK
      <4>3. QED
        BY <3>1, <4>1, <4>2 DEF ExpiryScheduled
    <3>2. expired(a)' /\ handlers'[a[1]] > 0
      BY DEF TypeOK
    <3>3. QED
      BY <3>1, <3>2 DEF ExpiryScheduled
  <2>5. PortsInRange'
    BY <2>2, NoNewSocket
  <2>6. QED
    BY <2>1, <2>3, <2>4, <2>5
<1>7. ASSUME NEW t \in Tuple, ExpireAllocation(t)
      PROVE  IInv'
  <2> DEFINE aborted == {a \in Erasable(t) \ (running \cup held) : a[2] \in waiting}
  <2>1. /\ handlers[t] > 0
        /\ session' = session \ Erasable(t)
        /\ waiting' = waiting \ {a[2] : a \in aborted}
        /\ handlers' = [handlers EXCEPT ![t] = IF aborted = {} THEN @ - 1 ELSE @]
        /\ UNCHANGED <<running, left, reservations, op, held, threads, promised>>
    BY <1>7 DEF ExpireAllocation
  <2>2. Erasable(t) = {a \in session : a[1] = t /\ left[a[2]] = 0}
    BY DEF Erasable, getAllocation, expired
  <2>3. \A a : a \in aborted <=> /\ a \in Erasable(t)
                                 /\ a \notin running \cup held
                                 /\ a[2] \in waiting
    OBVIOUS
  <2> HIDE DEF aborted
  <2>4. TypeOK'
    BY <2>1 DEF TypeOK
  <2>5. Live' \subseteq Live
    BY <2>1 DEF Live
  <2>6. \A a \in Live : a \in Live' \/ a[2] \notin waiting'
    BY <2>1, <2>2, <2>3 DEF Live
  <2>7. ReaderState'
    BY <2>1, <2>6 DEF ReaderState
  <2>8. OneOwner'
    BY <2>1, <2>5 DEF OneOwner
  <2>9. ExpiryScheduled'
    <3> SUFFICES ASSUME NEW b \in session', ~ (op = "start" /\ b \in held)
                 PROVE  b[2] \in waiting' \/ (expired(b)' /\ handlers'[b[1]] > 0)
      BY <2>1 DEF ExpiryScheduled
    <3>1. b \in session /\ b \notin Erasable(t) /\ b \in Live /\ b \in Allocation
      BY <2>1 DEF Live, TypeOK
    <3>2. \A a \in aborted : a[2] # b[2]
      BY <2>2, <2>3, <3>1 DEF OneOwner, Live
    <3>3. b[2] \in waiting => b[2] \in waiting'
      BY <2>1, <3>2
    <3>4. CASE b[1] = t
      BY <2>2, <3>1, <3>3, <3>4 DEF ExpiryScheduled, expired
    <3>5. CASE b[1] # t
      BY <2>1, <3>1, <3>3, <3>5 DEF ExpiryScheduled, expired, TypeOK
    <3>6. QED
      BY <3>4, <3>5
  <2>10. PortsInRange'
    BY <2>1, <2>5, NoNewSocket
  <2>11. QED
    BY <2>4, <2>7, <2>8, <2>9, <2>10
<1>8. ASSUME NEW a \in Allocation, RelayEnds(a)
      PROVE  IInv'
  <2> DEFINE aborted == a \notin session \cup held /\ a[2] \in waiting
  <2> USE <1>8, AllocationParts DEF RelayEnds
  <2>1. TypeOK'
    BY DEF TypeOK
  <2>2. Live' \subseteq Live /\ (\A b \in Live : b \in Live' \/ b = a) /\ a \in Live
    BY DEF Live
  <2>3. a \in Live' \/ a[2] \notin waiting'
    BY DEF Live
  <2>4. ReaderState'
    BY <2>2, <2>3 DEF ReaderState
  <2>5. OneOwner'
    BY <2>2 DEF OneOwner
  <2>6. ExpiryScheduled'
    <3> SUFFICES ASSUME NEW b \in session', ~ (op = "start" /\ b \in held)
                 PROVE  b[2] \in waiting' \/ (expired(b)' /\ handlers'[b[1]] > 0)
      BY DEF ExpiryScheduled
    <3>1. b \in session /\ b \in Live /\ b \in Allocation
      BY DEF Live, TypeOK
    <3>2. b[2] \in waiting => b[2] \in waiting'
      BY <2>2, <3>1 DEF OneOwner
    <3>3. handlers'[b[1]] >= handlers[b[1]] /\ handlers[b[1]] \in Nat /\ handlers'[b[1]] \in Nat
      BY <2>1, <3>1 DEF TypeOK
    <3>4. QED
      BY <3>1, <3>2, <3>3 DEF ExpiryScheduled, expired
  <2>7. PortsInRange'
    BY <2>2, NoNewSocket
  <2>8. QED
    BY <2>1, <2>4, <2>5, <2>6, <2>7
<1>9. CASE Tick
  <2> USE <1>9 DEF Tick
  <2>1. TypeOK'
    BY LifetimeAssumption DEF TypeOK, Lifetime
  <2>2. Live' = Live
    BY DEF Live
  <2>3. ReaderState' /\ OneOwner'
    BY <2>2 DEF ReaderState, OneOwner
  <2>4. \A a \in session : a[2] \in Port /\ (expired(a) => expired(a)')
    BY AllocationParts DEF TypeOK, expired
  <2>5. ExpiryScheduled'
    BY <2>4 DEF ExpiryScheduled
  <2>6. PortsInRange'
    BY <2>2, NoNewSocket
  <2>7. QED
    BY <2>1, <2>3, <2>5, <2>6
<1>10. CASE UNCHANGED vars
  BY <1>10
  DEF vars, TypeOK, ReaderState, OneOwner, PortsInRange, ProperRange, ExpiryScheduled,
      Live, expired
<1>11. QED
  BY <1>1, <1>2, <1>3, <1>4, <1>5, <1>6, <1>7, <1>8, <1>9, <1>10
  DEF Next, StartAny, RefreshAny

\* Type correctness, the ownership of sockets and the scheduled expiry of
\* every entry, in every reachable state.
THEOREM Invariance == Spec => []IInv
  BY InitIInv, NextIInv, PTL DEF Spec

\* No relay socket is ever shared by two allocations, or by an allocation and
\* a reservation, and no tuple has two entries in the session map.
THEOREM SocketsHaveOneOwner == Spec => []OneOwner
<1>1. IInv => OneOwner
  BY DEF IInv
<1>2. QED
  BY <1>1, Invariance, PTL

\* No entry of the session map is ever left without a wait or a callback that
\* will erase it.
THEOREM NoPermanentAllocation == Spec => []ExpiryScheduled
<1>1. IInv => ExpiryScheduled
  BY DEF IInv
<1>2. QED
  BY <1>1, Invariance, PTL
-----------------------------------------------------------------------------
\* With one thread, nothing runs between the two steps of a request, and every
\* step keeps what the clients were told.
LEMMA NextHonoured == IInv /\ threads = 1 /\ Honoured /\ [Next]_vars => Honoured'
<1> SUFFICES ASSUME IInv, threads = 1, Honoured, [Next]_vars
             PROVE  Honoured'
  OBVIOUS
<1> USE DEF IInv
<1>1. ASSUME NEW t \in Tuple, NEW p \in Port, Insert(t, p), \A a \in Live : a[2] # p
      PROVE  Honoured'
  <2> USE <1>1 DEF Insert
  <2>1. held' \subseteq session'
    OBVIOUS
  <2>2. ASSUME NEW u \in Tuple, promised'[u] > 0
        PROVE  \E a \in session' : a[1] = u /\ left'[a[2]] >= promised'[u]
    <3>1. PICK a \in session : a[1] = u /\ left[a[2]] >= promised[u]
      BY <2>2 DEF Honoured
    <3>2. a[2] # p /\ a[2] \in Port
      BY AllocationParts DEF Live, TypeOK
    <3>3. QED
      BY <3>1, <3>2 DEF TypeOK
  <2>3. QED
    BY <2>1, <2>2 DEF Honoured
<1>2. ASSUME NEW t \in Tuple, NEW policy \in Generator!PortPolicy,
             CreateAllocation(t, policy)
      PROVE  Honoured'
  <2>1. PICK p \in Generator!GenerateUdpRelay(MinPort, MaxPort, policy, Port \ Bound) :
          Insert(t, p)
    BY <1>2 DEF CreateAllocation
  <2>2. p \in Port /\ \A a \in Live : a[2] # p
    BY RelayIsFree DEF Bound
  <2>3. QED
    BY <1>1, <2>1, <2>2
<1>3. ASSUME NEW t \in Tuple, NEW p \in Port, ClaimReservation(t, p)
      PROVE  Honoured'
  BY <1>1, <1>3 DEF ClaimReservation, OneOwner
<1>4. ASSUME NEW a \in held, NEW lifetime \in Lifetime, op' = "idle", held' = {},
             left' = [left EXCEPT ![a[2]] = lifetime],
             promised' = [promised EXCEPT ![a[1]] = lifetime],
             session' = session
      PROVE  Honoured'
  <2>1. a \in session /\ a[1] \in Tuple /\ a[2] \in Port
    BY AllocationParts DEF Honoured, TypeOK
  <2>2. ASSUME NEW u \in Tuple, promised'[u] > 0
        PROVE  \E b \in session' : b[1] = u /\ left'[b[2]] >= promised'[u]
    <3>1. CASE u = a[1]
      BY <1>4, <2>1, <3>1 DEF TypeOK, Lifetime
    <3>2. CASE u # a[1]
      <4>1. promised'[u] = promised[u]
        BY <1>4, <3>2 DEF TypeOK
      <4>2. PICK b \in session : b[1] = u /\ left[b[2]] >= promised[u]
        BY <2>2, <4>1 DEF Honoured
      <4>3. b[2] # a[2] /\ b[2] \in Port
        BY <2>1, <3>2, <4>2, AllocationParts DEF OneOwner, Live, TypeOK
      <4>4. QED
        BY <1>4, <4>1, <4>2, <4>3 DEF TypeOK
    <3>3. QED
      BY <3>1, <3>2
  <2>3. QED
    BY <1>4, <2>2 DEF Honoured
<1>5. ASSUME NEW a \in held, NEW r \in Requested, Start(a, computeLifetime(r))
      PROVE  Honoured'
  BY <1>4, <1>5, ComputeLifetimeType DEF Start
<1>6. ASSUME NEW a \in held, NEW r \in Requested, Refresh(a, computeLifetime(r))
      PROVE  Honoured'
  BY <1>4, <1>6, ComputeLifetimeType DEF Refresh
<1>7. ASSUME NEW t \in Tuple, RefreshLookup(t)
      PROVE  Honoured'
  BY <1>7 DEF RefreshLookup, getAllocation, Honoured
<1>8. ASSUME NEW a \in Allocation, TimerFires(a)
      PROVE  Honoured'
  BY <1>8 DEF TimerFires, Honoured
<1>9. ASSUME NEW t \in Tuple, ExpireAllocation(t)
      PROVE  Honoured'
  <2>1. op = "idle" /\ held' = {}
    BY <1>9 DEF ExpireAllocation, Scheduled, ReaderState
  <2>2. \A a \in session : a \in session' \/ left[a[2]] = 0
    BY <1>9 DEF ExpireAllocation, Erasable, expired
  <2>3. left' = left /\ promised' = promised
    BY <1>9 DEF ExpireAllocation
  <2>4. ASSUME NEW u \in Tuple, promised'[u] > 0
        PROVE  \E a \in session' : a[1] = u /\ left'[a[2]] >= promised'[u]
    <3>1. PICK a \in session : a[1] = u /\ left[a[2]] >= promised[u]
      BY <2>3, <2>4 DEF Honoured
    <3>2. promised[u] \in Nat
      BY LifetimeAssumption DEF TypeOK, Lifetime
    <3>3. QED
      BY <2>2, <2>3, <2>4, <3>1, <3>2
  <2>5. QED
    BY <2>1, <2>4 DEF Honoured
<1>10. ASSUME NEW a \in Allocation, RelayEnds(a)
       PROVE  Honoured'
  BY <1>10 DEF RelayEnds, Honoured
<1>11. CASE Tick
  <2>1. held' \subseteq session'
    BY <1>11 DEF Tick, Honoured
  <2>2. ASSUME NEW u \in Tuple, promised'[u] > 0
        PROVE  \E a \in session' : a[1] = u /\ left'[a[2]] >= promised'[u]
    <3>1. promised[u] \in Nat /\ promised[u] > 0 /\ promised'[u] = promised[u] - 1
      BY <1>11, <2>2, LifetimeAssumption DEF Tick, TypeOK, Lifetime
    <3>2. PICK a \in session : a[1] = u /\ left[a[2]] >= promised[u]
      BY <3>1 DEF Honoured
    <3>3. a[2] \in Port /\ left[a[2]] \in Nat
      BY AllocationParts, LifetimeAssumption DEF TypeOK, Lifetime
    <3>4. left'[a[2]] = left[a[2]] - 1
      BY <1>11, <3>1, <3>2, <3>3 DEF Tick
    <3>5. QED
      BY <1>11, <3>1, <3>2, <3>3, <3>4 DEF Tick
  <2>3. QED
    BY <2>1, <2>2 DEF Honoured
<1>12. CASE UNCHANGED vars
  BY <1>12 DEF vars, Honoured
<1>13. QED
  BY <1>2, <1>3, <1>5, <1>6, <1>7, <1>8, <1>9, <1>10, <1>11, <1>12
  DEF Next, StartAny, RefreshAny

\* The number of threads never changes.
LEMMA ThreadsFixed == [Next]_vars => threads' = threads
  BY DEF Next, vars, CreateAllocation, ClaimReservation, Insert, StartAny, Start,
         RefreshLookup, RefreshAny, Refresh, TimerFires, ExpireAllocation, RelayEnds, Tick

\* With one thread a client keeps its allocation for as long as it was told,
\* at any configuration: no aborted or late callback erases it.
THEOREM SingleThreadKeepsPromises == Spec => []SingleThreadStays
<1> DEFINE Kept == threads = 1 => Honoured
<1>1. Init => Kept
  BY DEF Init, Honoured
<1>2. IInv /\ Kept /\ [Next]_vars => Kept'
  BY NextHonoured, ThreadsFixed
<1>3. Kept => SingleThreadStays
  BY DEF SingleThreadStays, Honoured, AcknowledgedStays, getAllocation
<1> HIDE DEF Kept
<1>4. QED
  BY <1>1, <1>2, <1>3, Invariance, PTL DEF Spec

\* The sockets of relays and reservations are on ports of the range, whatever
\* the range is, if it has an even port.
THEOREM RelayPortsInRange == Spec => []PortsInRange
<1>1. IInv => PortsInRange
  BY DEF IInv
<1>2. QED
  BY <1>1, Invariance, PTL

\* Every reachable state has the types declared for it: no lifetime exceeds the
\* configured ones.
THEOREM TypeCorrect == Spec => []TypeOK
<1>1. IInv => TypeOK
  BY DEF IInv
<1>2. QED
  BY <1>1, Invariance, PTL
=============================================================================
