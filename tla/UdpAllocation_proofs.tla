------------------------- MODULE UdpAllocation_proofs -------------------------
(***************************************************************************)
(* The permissions and the channels of one allocation together, for any    *)
(* sets of addresses, ports and numbers and any two lifetimes. What is     *)
(* proved of each manager is taken over: every step of the allocation is a *)
(* step of either manager or leaves it alone.                              *)
(***************************************************************************)
EXTENDS UdpAllocation, PermissionManager_proofs

\* The facts about channels, in terms of the variables of an allocation.
ChannelFacts == INSTANCE ChannelManager_proofs
  WITH Lifetime <- ChannelLifetime, left <- channelLeft, waiting <- channelWaiting,
       queued <- channelQueued, age <- channelAge

\* Channels and ChannelFacts have the same definitions.
LEMMA SameInvariant ==
  /\ Channels!IInv <=> ChannelFacts!IInv
  /\ Channels!IInv' <=> ChannelFacts!IInv'
  BY DEF Channels!IInv, ChannelFacts!IInv,
      Channels!TypeOK, ChannelFacts!TypeOK,
      Channels!OneToOne, ChannelFacts!OneToOne,
      Channels!TimerMatchesAge, ChannelFacts!TimerMatchesAge,
      Channels!ExpiryScheduled, ChannelFacts!ExpiryScheduled,
      Channels!Binding, ChannelFacts!Binding,
      Channels!Timer!TypeOK, ChannelFacts!Timer!TypeOK

LEMMA SameInit == Channels!Init <=> ChannelFacts!Init
  BY DEF Channels!Init, ChannelFacts!Init, Channels!Binding, ChannelFacts!Binding,
      Channels!Timer!Init, ChannelFacts!Timer!Init

LEMMA SameStep ==
  [Channels!Next]_(Channels!vars) <=> [ChannelFacts!Next]_(ChannelFacts!vars)
  BY DEF Channels!Next, ChannelFacts!Next,
      Channels!vars, ChannelFacts!vars,
      Channels!AddChannel, ChannelFacts!AddChannel,
      Channels!Bindable, ChannelFacts!Bindable,
      Channels!getEndpoint, ChannelFacts!getEndpoint,
      Channels!channelByAddress, ChannelFacts!channelByAddress,
      Channels!StartTimer, ChannelFacts!StartTimer,
      Channels!TimerFires, ChannelFacts!TimerFires,
      Channels!RemoveChannel, ChannelFacts!RemoveChannel,
      Channels!Removable, ChannelFacts!Removable,
      Channels!Destroy, ChannelFacts!Destroy,
      Channels!Tick, ChannelFacts!Tick,
      Channels!Binding, ChannelFacts!Binding,
      Channels!Timer!Arm, ChannelFacts!Timer!Arm,
      Channels!Timer!Fires, ChannelFacts!Timer!Fires,
      Channels!Timer!Expired, ChannelFacts!Timer!Expired,
      Channels!Timer!Runs, ChannelFacts!Timer!Runs,
      Channels!Timer!Cancel, ChannelFacts!Timer!Cancel,
      Channels!Timer!Elapse, ChannelFacts!Timer!Elapse

LEMMA SameLeaseStep ==
  [Channels!Leases!Next]_(Channels!Leases!vars)
    <=> [ChannelFacts!Leases!Next]_(ChannelFacts!Leases!vars)
  BY DEF Channels!Leases!Next, ChannelFacts!Leases!Next,
      Channels!Leases!vars, ChannelFacts!Leases!vars,
      Channels!Leases!Grant, ChannelFacts!Leases!Grant,
      Channels!Leases!Expire, ChannelFacts!Leases!Expire,
      Channels!Leases!Close, ChannelFacts!Leases!Close,
      Channels!Leases!Tick, ChannelFacts!Leases!Tick,
      Channels!Binding, ChannelFacts!Binding

\* Every step of the allocation is a step of its permissions, or none.
LEMMA PermissionStep == [AllocationNext]_allocationVars => [Next]_vars
<1> SUFFICES ASSUME AllocationNext PROVE [Next]_vars
  BY DEF allocationVars, permissionVars, vars
<1>1. ASSUME NEW a \in Addr,
             \/ addPermission(a) \/ permitPeer(a)
             \/ PermissionTimerFires(a) \/ removePermission(a)
      PROVE  Next
  BY <1>1
  DEF addPermission, permitPeer, Permit, PermissionTimerFires, removePermission, Next
<1>2. ASSUME NEW n \in Number, NEW p \in Endpoint, addChannel(n, p)
      PROVE  UNCHANGED vars
  BY <1>2 DEF addChannel, Channels!AddChannel, permissionVars, vars
<1>3. ASSUME NEW n \in Number, ChannelTimerFires(n) \/ removeChannel(n)
      PROVE  UNCHANGED vars
  BY <1>3
  DEF ChannelTimerFires, removeChannel, Channels!TimerFires, Channels!RemoveChannel,
      permissionVars, vars
<1>4. CASE DestroyAllocation \/ AllocationTick
  BY <1>4 DEF DestroyAllocation, AllocationTick, Next
<1>5. QED
  BY <1>1, <1>2, <1>3, <1>4 DEF AllocationNext

\* Every step of the allocation is a step of its channels, or none.
LEMMA ChannelStep == [AllocationNext]_allocationVars => [Channels!Next]_(Channels!vars)
<1> SUFFICES ASSUME AllocationNext PROVE [Channels!Next]_(Channels!vars)
  BY DEF allocationVars, channelVars, Channels!vars
<1>1. ASSUME NEW a \in Addr, addPermission(a) \/ permitPeer(a)
      PROVE  UNCHANGED Channels!vars
  BY <1>1 DEF addPermission, permitPeer, Permit, AddPermission, channelVars, Channels!vars
<1>2. ASSUME NEW a \in Addr, PermissionTimerFires(a) \/ removePermission(a)
      PROVE  UNCHANGED Channels!vars
  BY <1>2
  DEF PermissionTimerFires, removePermission, TimerFires, RemovePermission,
      channelVars, Channels!vars
<1>3. ASSUME NEW n \in Number, NEW p \in Endpoint, addChannel(n, p)
      PROVE  Channels!Next
  BY <1>3 DEF addChannel, Channels!Next
<1>4. ASSUME NEW n \in Number, ChannelTimerFires(n) \/ removeChannel(n)
      PROVE  Channels!Next
  BY <1>4 DEF ChannelTimerFires, removeChannel, Channels!Next
<1>5. CASE DestroyAllocation \/ AllocationTick
  BY <1>5 DEF DestroyAllocation, AllocationTick, Channels!Next
<1>6. QED
  BY <1>1, <1>2, <1>3, <1>4, <1>5 DEF AllocationNext

\* One request at a time: at most one address waits for its permission.
OnePermitting ==
  /\ permitting \in SUBSET Addr
  /\ \A a, c \in permitting : a = c

\* The inductive invariant.
AllocationIInv == IInv /\ Channels!IInv /\ OnePermitting /\ PermittedInTime

\* Nothing is bound or permitted when the allocation is made.
LEMMA AllocationInitIInv == AllocationInit => AllocationIInv
<1> SUFFICES ASSUME AllocationInit PROVE AllocationIInv
  OBVIOUS
<1>1. IInv
  BY InitIInv DEF AllocationInit
<1>2. Channels!IInv
  BY ChannelFacts!InitIInv, SameInit, SameInvariant, ChannelLifetimeAssumption DEF AllocationInit
<1>3. OnePermitting
  BY DEF AllocationInit, OnePermitting
<1>4. PermittedInTime
  BY LifetimeAssumption DEF AllocationInit, Init, Channels!Init, PermittedInTime
<1>5. QED
  BY <1>1, <1>2, <1>3, <1>4 DEF AllocationIInv

\* The facts about the two tables that their types and timers give.
LEMMA EntryFacts ==
  ASSUME AllocationIInv
  PROVE  /\ age \in [Addr -> 0 .. Lifetime] /\ left \in [Addr -> 0 .. Lifetime]
         /\ channelAge \in [Number \X Endpoint -> 0 .. ChannelLifetime]
         /\ \A a \in permissions : left[a] + age[a] = Lifetime
         /\ \A b \in channels : b \in Number \X Endpoint /\ b[2][1] \in Addr
         /\ alive \/ channels = {}
<1>1. /\ age \in [Addr -> 0 .. Lifetime] /\ left \in [Addr -> 0 .. Lifetime]
      /\ \A a \in permissions : left[a] + age[a] = Lifetime
  BY DEF AllocationIInv, IInv, TypeOK, TimerMatchesAge, Timer!TypeOK
<1>2. /\ channelAge \in [Number \X Endpoint -> 0 .. ChannelLifetime]
      /\ channels \in SUBSET (Number \X Endpoint)
      /\ alive \/ channels = {}
  BY DEF AllocationIInv, Channels!IInv, Channels!TypeOK, Channels!TimerMatchesAge, Channels!Binding
<1>3. \A b \in Number \X Endpoint : b[2][1] \in Addr
  BY DEF Endpoint
<1>4. QED
  BY <1>1, <1>2, <1>3

\* A permission is renewed no earlier than the binding it came with, and is not
\* removed before its time.
LEMMA PermittedStep ==
  ASSUME AllocationIInv, AllocationNext
  PROVE  OnePermitting' /\ PermittedInTime'
<1> USE EntryFacts, LifetimeAssumption, ChannelLifetimeAssumption
    DEF OnePermitting, PermittedInTime
<1>0. OnePermitting /\ PermittedInTime
  BY DEF AllocationIInv
<1>1. ASSUME NEW a \in Addr, addPermission(a)
      PROVE  OnePermitting' /\ PermittedInTime'
  BY <1>0, <1>1 DEF addPermission, AddPermission, channelVars
<1>2. ASSUME NEW a \in Addr, permitPeer(a)
      PROVE  OnePermitting' /\ PermittedInTime'
  BY <1>0, <1>2 DEF permitPeer, Permit, AddPermission, channelVars
<1>3. ASSUME NEW a \in Addr, PermissionTimerFires(a)
      PROVE  OnePermitting' /\ PermittedInTime'
  BY <1>0, <1>3 DEF PermissionTimerFires, TimerFires, channelVars
<1>4. ASSUME NEW a \in Addr, removePermission(a)
      PROVE  OnePermitting' /\ PermittedInTime'
  BY <1>0, <1>4 DEF removePermission, RemovePermission, Removable, Timer!Expired, channelVars
<1>5. ASSUME NEW n \in Number, NEW p \in Endpoint, addChannel(n, p)
      PROVE  OnePermitting' /\ PermittedInTime'
  <2>1. /\ channels' = channels \cup {<<n, p>>}
        /\ channelAge' = [channelAge EXCEPT ![<<n, p>>] = 0]
        /\ permitting = {} /\ permitting' = {p[1]} /\ alive' = alive
        /\ permissions' = permissions /\ age' = age
    BY <1>5 DEF addChannel, Channels!AddChannel, permissionVars
  <2>2. p[1] \in Addr
    BY DEF Endpoint
  <2>3. QED
    BY <1>0, <2>1, <2>2
<1>6. ASSUME NEW n \in Number, ChannelTimerFires(n) \/ removeChannel(n)
      PROVE  OnePermitting' /\ PermittedInTime'
  <2>1. /\ channels' \subseteq channels /\ channelAge' = channelAge /\ alive' = alive
        /\ permitting' = permitting /\ permissions' = permissions /\ age' = age
    BY <1>6
    DEF ChannelTimerFires, removeChannel, Channels!TimerFires, Channels!RemoveChannel, permissionVars
  <2>2. QED
    BY <1>0, <2>1
<1>7. CASE DestroyAllocation
  BY <1>0, <1>7 DEF DestroyAllocation, Destroy, Channels!Destroy
<1>8. CASE AllocationTick
  <2>1. /\ age' = [a \in Addr |-> IF age[a] < Lifetime THEN age[a] + 1 ELSE Lifetime]
        /\ channelAge' = [b \in Number \X Endpoint |->
             IF channelAge[b] < ChannelLifetime THEN channelAge[b] + 1 ELSE ChannelLifetime]
        /\ permissions' = permissions /\ channels' = channels
        /\ alive' = alive /\ permitting' = permitting
    BY <1>8 DEF AllocationTick, Tick, Channels!Tick, Channels!Binding
  <2>2. QED
    BY <1>0, <2>1
<1>9. QED
  BY <1>1, <1>2, <1>3, <1>4, <1>5, <1>6, <1>7, <1>8 DEF AllocationNext

\* The invariants of both managers, and of what joins them, in every state.
THEOREM AllocationInvariance == AllocationSpec => []AllocationIInv
<1>1. ASSUME AllocationIInv, [AllocationNext]_allocationVars
      PROVE  AllocationIInv'
  <2>1. IInv'
    BY <1>1, PermissionStep, NextIInv DEF AllocationIInv
  <2>2. Channels!IInv'
    BY <1>1, ChannelStep, ChannelFacts!NextIInv, SameInvariant, SameStep,
       ChannelLifetimeAssumption
    DEF AllocationIInv
  <2>3. OnePermitting' /\ PermittedInTime'
    <3>1. CASE AllocationNext
      BY <1>1, <3>1, PermittedStep
    <3>2. CASE UNCHANGED allocationVars
      BY <1>1, <3>2
      DEF AllocationIInv, allocationVars, permissionVars, channelVars, OnePermitting, PermittedInTime
    <3>3. QED
      BY <1>1, <3>1, <3>2
  <2>4. QED
    BY <2>1, <2>2, <2>3 DEF AllocationIInv
<1>2. QED
  BY <1>1, AllocationInitIInv, PTL DEF AllocationSpec

\* Permissions, channels and the request under way have their types in every
\* state of an allocation; no timer is set for longer than its lifetime.
THEOREM EntriesTypeCorrect == AllocationSpec => []EntriesTypeOK
<1>1. AllocationIInv => EntriesTypeOK
  BY DEF AllocationIInv, IInv, Channels!IInv, OnePermitting, EntriesTypeOK
<1>2. QED
  BY <1>1, AllocationInvariance, PTL

\* Neither a permission nor a binding of an allocation becomes permanent.
THEOREM NoPermanentEntry == AllocationSpec => [](ExpiryScheduled /\ ChannelExpiryScheduled)
<1>1. AllocationIInv => ExpiryScheduled /\ ChannelExpiryScheduled
  BY DEF AllocationIInv, IInv, Channels!IInv, ChannelExpiryScheduled
<1>2. QED
  BY <1>1, AllocationInvariance, PTL

\* From the answer to a ChannelBind on, its peer is permitted for the whole
\* permission lifetime, whichever handlers run between the two steps of
\* UdpAllocation::addChannel and after them.
THEOREM BindsPermit == AllocationSpec => []BoundPeersPermitted
<1>1. ASSUME AllocationIInv PROVE BoundPeersPermitted
  <2> SUFFICES ASSUME NEW b \in channels, WithinBoth(b)
               PROVE  b[2][1] \in permissions \cup permitting
    BY DEF BoundPeersPermitted
  <2>1. PermittedInTime
    BY <1>1 DEF AllocationIInv
  <2>2. /\ alive /\ b[2][1] \in Addr
        /\ channelAge[b] \in 0 .. ChannelLifetime /\ age[b[2][1]] \in 0 .. Lifetime
    BY <1>1, EntryFacts
  <2>3. QED
    BY <2>1, <2>2, LifetimeAssumption, ChannelLifetimeAssumption DEF PermittedInTime, WithinBoth
<1>2. QED
  BY <1>1, AllocationInvariance, PTL

\* Client data and peer data of a channel take the same binding, through all
\* binds, expiries and rebinds of an allocation.
THEOREM BindingsOneToOne == AllocationSpec => []LookupsAgree
<1>1. Channels!LookupsAgree <=> ChannelFacts!LookupsAgree
  BY DEF Channels!LookupsAgree, ChannelFacts!LookupsAgree,
      Channels!getEndpoint, ChannelFacts!getEndpoint,
      Channels!channelByAddress, ChannelFacts!channelByAddress
<1>2. AllocationIInv => LookupsAgree
  BY <1>1, ChannelFacts!OneToOneLookups, SameInvariant, ChannelLifetimeAssumption
  DEF AllocationIInv, LookupsAgree
<1>3. QED
  BY <1>2, AllocationInvariance, PTL

\* Both tables of an allocation implement the safety part of Lease: no handler
\* and no request, of either table, takes an entry away before its time.
THEOREM EntriesAreLeases ==
  AllocationSpec => Leases!Safety /\ Channels!Leases!Safety
<1>1. AllocationInit => Leases!Init /\ Channels!Leases!Init
  BY DEF AllocationInit, Init, Channels!Init, Leases!Init, Channels!Leases!Init
<1>2. AllocationIInv /\ [AllocationNext]_allocationVars => [Leases!Next]_(Leases!vars)
  BY PermissionStep, StepSimulation DEF AllocationIInv
<1>3. AllocationIInv /\ [AllocationNext]_allocationVars =>
        [Channels!Leases!Next]_(Channels!Leases!vars)
  BY ChannelStep, ChannelFacts!StepSimulation, SameInvariant, SameStep, SameLeaseStep,
     ChannelLifetimeAssumption
  DEF AllocationIInv
<1>4. QED
  BY <1>1, <1>2, <1>3, AllocationInvariance, PTL
  DEF AllocationSpec, Leases!Safety, Channels!Leases!Safety
=============================================================================
