------------------------- MODULE ChannelManager_proofs -------------------------
(***************************************************************************)
(* The channels of an allocation, for any sets of numbers and peers, any   *)
(* lifetime and any number of queued handlers.                             *)
(***************************************************************************)
EXTENDS ChannelManager, TLAPS

\* The initial state satisfies the inductive invariant.
LEMMA InitIInv == Init => IInv
  BY LifetimeAssumption
  DEF Init, IInv, TypeOK, OneToOne, TimerMatchesAge, ExpiryScheduled,
      Timer!Init, Timer!TypeOK

\* A binding is a pair of a number and a peer, and is determined by them.
LEMMA BindingParts ==
  ASSUME NEW b \in Binding
  PROVE  b[1] \in Number /\ b[2] \in Endpoint /\ b = <<b[1], b[2]>>
  BY DEF Binding

\* addChannel with an unused number and peer, or on a binding that exists,
\* keeps the map one-to-one.
LEMMA BindableKeepsOneToOne ==
  ASSUME TypeOK, OneToOne, NEW n \in Number, NEW p \in Endpoint, Bindable(n, p)
  PROVE  \A b \in channels : b[1] = n <=> b[2] = p
<1>1. CASE <<n, p>> \in channels
  BY <1>1 DEF OneToOne
<1>2. CASE getEndpoint(n) = {} /\ channelByAddress(p) = {}
  BY <1>2 DEF getEndpoint, channelByAddress
<1>3. QED
  BY <1>1, <1>2 DEF Bindable

\* Every step of the manager, its timers and its owner preserves it.
LEMMA NextIInv == IInv /\ [Next]_vars => IInv'
<1> SUFFICES ASSUME IInv, [Next]_vars
             PROVE  IInv'
  OBVIOUS
<1>1. ASSUME NEW n \in Number, NEW p \in Endpoint, AddChannel(n, p)
      PROVE  IInv'
  <2> USE <1>1, BindingParts DEF AddChannel, StartTimer, Timer!Arm
  <2>1. \A b \in channels : b[1] = n <=> b[2] = p
    BY BindableKeepsOneToOne DEF IInv
  <2>2. <<n, p>> \in Binding
    BY DEF Binding
  <2>3. TypeOK'
    BY <2>2, LifetimeAssumption DEF IInv, TypeOK, Timer!TypeOK
  <2>4. OneToOne'
    BY <2>1 DEF IInv, OneToOne
  <2>5. \A b \in channels : b[1] = n => b = <<n, p>>
    BY <2>1 DEF IInv, TypeOK
  <2>6. TimerMatchesAge'
    BY <2>2, <2>5, LifetimeAssumption DEF IInv, TypeOK, Timer!TypeOK, TimerMatchesAge
  <2>7. ExpiryScheduled'
    BY <2>5 DEF IInv, TypeOK, Timer!TypeOK, ExpiryScheduled
  <2>8. QED
    BY <2>3, <2>4, <2>6, <2>7 DEF IInv
<1>2. ASSUME NEW n \in Number, TimerFires(n)
      PROVE  IInv'
  BY <1>2, BindingParts
  DEF TimerFires, Timer!Fires, IInv, TypeOK, OneToOne, TimerMatchesAge,
      ExpiryScheduled, Timer!TypeOK, Timer!Expired
<1>3. ASSUME NEW n \in Number, RemoveChannel(n)
      PROVE  IInv'
  <2> DEFINE gone == IF alive THEN Removable(n) ELSE {}
  <2>1. /\ Timer!Runs(n, {b[1] : b \in gone})
        /\ channels' = channels \ gone
        /\ UNCHANGED <<alive, age>>
    BY <1>3 DEF RemoveChannel
  <2>2. \A b \in channels : b \in gone <=> b[1] = n /\ left[n] = 0
    BY DEF IInv, TimerMatchesAge, Removable, Timer!Expired
  <2>3. gone \subseteq channels
    BY DEF Removable
  <2> HIDE DEF gone
  <2> USE <2>1, <2>2, <2>3, BindingParts DEF Timer!Runs
  <2>4. TypeOK'
    BY DEF IInv, TypeOK, Timer!TypeOK
  <2>5. OneToOne'
    BY DEF IInv, OneToOne
  <2>6. TimerMatchesAge'
    <3>1. \A m \in waiting' : \E b \in channels' : b[1] = m
      <4> SUFFICES ASSUME NEW m \in waiting'
                   PROVE  \E b \in channels' : b[1] = m
        OBVIOUS
      <4>1. PICK b \in channels : b[1] = m
        BY DEF IInv, TimerMatchesAge
      <4>2. b \notin gone
        BY <4>1
      <4>3. QED
        BY <4>1, <4>2
    <3>2. QED
      BY <3>1 DEF IInv, TypeOK, TimerMatchesAge
  <2>7. ExpiryScheduled'
    <3> SUFFICES ASSUME NEW b \in channels'
                 PROVE  b[1] \in waiting' \/ (left'[b[1]] = 0 /\ queued'[b[1]] > 0)
      BY DEF ExpiryScheduled
    <3>1. b \in channels /\ b \notin gone /\ b[1] \in Number
      BY DEF IInv, TypeOK
    <3>2. \A c \in gone : c[1] # b[1]
      BY <3>1
    <3>3. QED
      BY <3>1, <3>2 DEF IInv, TypeOK, Timer!TypeOK, ExpiryScheduled
  <2>8. QED
    BY <2>4, <2>5, <2>6, <2>7 DEF IInv
<1>4. CASE Destroy
  <2> USE <1>4 DEF Destroy, Timer!Cancel
  <2>1. waiting' = {}
    BY DEF IInv, TimerMatchesAge
  <2>2. TypeOK'
    BY <2>1 DEF IInv, TypeOK, Timer!TypeOK
  <2>3. OneToOne' /\ TimerMatchesAge' /\ ExpiryScheduled'
    BY <2>1 DEF OneToOne, TimerMatchesAge, ExpiryScheduled
  <2>4. QED
    BY <2>2, <2>3 DEF IInv
<1>5. CASE Tick
  <2> USE <1>5, BindingParts, LifetimeAssumption DEF Tick, Timer!Elapse
  <2>1. TypeOK'
    BY DEF IInv, TypeOK, Timer!TypeOK
  <2>2. TimerMatchesAge'
    BY DEF IInv, TypeOK, Timer!TypeOK, TimerMatchesAge
  <2>3. OneToOne' /\ ExpiryScheduled'
    BY DEF IInv, TypeOK, Timer!TypeOK, OneToOne, ExpiryScheduled
  <2>4. QED
    BY <2>1, <2>2, <2>3 DEF IInv
<1>6. CASE UNCHANGED vars
  BY <1>6
  DEF vars, IInv, TypeOK, OneToOne, TimerMatchesAge, ExpiryScheduled, Timer!TypeOK
<1>7. QED
  BY <1>1, <1>2, <1>3, <1>4, <1>5, <1>6 DEF Next

\* Type correctness, the one-to-one map and the scheduled expiry of every
\* binding, in every reachable state.
THEOREM Invariance == Spec => []IInv
  BY InitIInv, NextIInv, PTL DEF Spec

\* Every reachable state has the types declared for it: no timer is set for
\* longer than the lifetime.
THEOREM TypeCorrect == Spec => []TypeOK
<1>1. IInv => TypeOK
  BY DEF IInv
<1>2. QED
  BY <1>1, Invariance, PTL

\* addChannel and removeChannel never leave a binding that no timer and no
\* handler will remove.
THEOREM NoPermanentChannel == Spec => []ExpiryScheduled
<1>1. IInv => ExpiryScheduled
  BY DEF IInv
<1>2. QED
  BY <1>1, Invariance, PTL

\* In a one-to-one map the two lookups are inverse to each other.
LEMMA OneToOneLookups == IInv => LookupsAgree
<1> SUFFICES ASSUME IInv, NEW n \in Number, NEW p \in Endpoint
             PROVE  getEndpoint(n) = {p} <=> channelByAddress(p) = {n}
  BY DEF LookupsAgree
<1>1. getEndpoint(n) = {p} <=> <<n, p>> \in channels
  BY BindingParts DEF IInv, TypeOK, OneToOne, getEndpoint
<1>2. channelByAddress(p) = {n} <=> <<n, p>> \in channels
  BY BindingParts DEF IInv, TypeOK, OneToOne, channelByAddress
<1>3. QED
  BY <1>1, <1>2

\* Client data and peer data of a channel take the same binding, always.
THEOREM LookupsAlwaysAgree == Spec => []LookupsAgree
  BY OneToOneLookups, Invariance, PTL

\* Every step of the manager is a step of the abstract lease table: only a
\* binding whose lifetime since the last addChannel is over is removed.
LEMMA StepSimulation == IInv /\ [Next]_vars => [Leases!Next]_(Leases!vars)
<1> SUFFICES ASSUME IInv, [Next]_vars
             PROVE  [Leases!Next]_(Leases!vars)
  OBVIOUS
<1>1. ASSUME NEW n \in Number, NEW p \in Endpoint, AddChannel(n, p)
      PROVE  <<n, p>> \in Binding /\ Leases!Grant(<<n, p>>)
  BY <1>1 DEF AddChannel, Leases!Grant, Binding
<1>2. ASSUME NEW n \in Number, TimerFires(n)
      PROVE  UNCHANGED Leases!vars
  BY <1>2 DEF TimerFires, Leases!vars
<1>3. ASSUME NEW n \in Number, RemoveChannel(n)
      PROVE  (\E b \in Binding : Leases!Expire(b)) \/ UNCHANGED Leases!vars
  <2>1. channels' = channels \/ channels' = channels \ Removable(n)
    BY <1>3 DEF RemoveChannel
  <2>2. age' = age /\ alive' = alive
    BY <1>3 DEF RemoveChannel
  <2>3. CASE Removable(n) = {}
    BY <2>1, <2>2, <2>3 DEF Leases!vars
  <2>4. CASE Removable(n) # {}
    <3>1. PICK b \in Removable(n) : TRUE
      BY <2>4
    <3>2. b \in channels /\ b \in Binding /\ b[1] = n /\ left[n] = 0
      BY <3>1 DEF Removable, Timer!Expired, IInv, TypeOK
    <3>3. Removable(n) = {b}
      BY <3>1, <3>2, BindingParts DEF Removable, IInv, TypeOK, OneToOne
    <3>4. age[b] = Lifetime
      BY <3>2, LifetimeAssumption DEF IInv, TypeOK, TimerMatchesAge
    <3>5. QED
      BY <2>1, <2>2, <3>2, <3>3, <3>4 DEF Leases!Expire, Leases!vars
  <2>5. QED
    BY <2>3, <2>4
<1>4. CASE Destroy
  BY <1>4 DEF Destroy, Leases!Close, Leases!Next
<1>5. CASE Tick
  BY <1>5 DEF Tick, Leases!Tick, Leases!Next
<1>6. CASE UNCHANGED vars
  BY <1>6 DEF vars, Leases!vars
<1>7. QED
  BY <1>1, <1>2, <1>3, <1>4, <1>5, <1>6 DEF Next, Leases!Next

\* The manager implements the safety part of Lease for all constants: no
\* handler, however late, takes a binding away before its time.
THEOREM Refinement == Spec => Leases!Safety
<1>1. Init => Leases!Init
  BY DEF Init, Leases!Init
<1>2. QED
  BY <1>1, StepSimulation, Invariance, PTL DEF Spec, Leases!Safety
=============================================================================
