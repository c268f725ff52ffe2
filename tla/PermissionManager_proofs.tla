----------------------- MODULE PermissionManager_proofs -----------------------
(***************************************************************************)
(* The permissions of an allocation, for any set of addresses, any         *)
(* lifetime and any number of queued handlers.                             *)
(***************************************************************************)
EXTENDS PermissionManager, TLAPS

\* The initial state satisfies the inductive invariant.
LEMMA InitIInv == Init => IInv
  BY LifetimeAssumption
  DEF Init, IInv, TypeOK, TimerMatchesAge, ExpiryScheduled, Timer!Init, Timer!TypeOK

\* Every step of the manager, its timers and its owner preserves it.
LEMMA NextIInv == IInv /\ [Next]_vars => IInv'
<1> SUFFICES ASSUME IInv, [Next]_vars
             PROVE  IInv'
  OBVIOUS
<1> USE LifetimeAssumption
    DEF IInv, TypeOK, TimerMatchesAge, ExpiryScheduled, Timer!TypeOK, Timer!Expired
<1>1. ASSUME NEW a \in Addr, AddPermission(a)
      PROVE  IInv'
  BY <1>1 DEF AddPermission, NewTimer, Timer!Arm
<1>2. ASSUME NEW a \in Addr, TimerFires(a)
      PROVE  IInv'
  BY <1>2 DEF TimerFires, Timer!Fires
<1>3. ASSUME NEW a \in Addr, RemovePermission(a)
      PROVE  IInv'
  <2>1. CASE Removable(a)
    BY <1>3, <2>1 DEF RemovePermission, Removable, Timer!Runs
  <2>2. CASE ~ Removable(a)
    BY <1>3, <2>2 DEF RemovePermission, Removable, Timer!Runs
  <2>3. QED
    BY <2>1, <2>2
<1>4. CASE Destroy
  BY <1>4 DEF Destroy, Timer!Cancel
<1>5. CASE Tick
  BY <1>5 DEF Tick, Timer!Elapse
<1>6. CASE UNCHANGED vars
  BY <1>6 DEF vars
<1>7. QED
  BY <1>1, <1>2, <1>3, <1>4, <1>5, <1>6 DEF Next

\* Type correctness together with the fact that no permission becomes
\* permanent, in every reachable state.
THEOREM Invariance == Spec => []IInv
  BY InitIInv, NextIInv, PTL DEF Spec

\* Every reachable state has the types declared for it: no timer is set for
\* longer than the lifetime.
THEOREM TypeCorrect == Spec => []TypeOK
<1>1. IInv => TypeOK
  BY DEF IInv
<1>2. QED
  BY <1>1, Invariance, PTL

\* addPermission and removePermission never leave an entry that no timer and
\* no handler will remove.
THEOREM NoPermanentPermission == Spec => []ExpiryScheduled
<1>1. IInv => ExpiryScheduled
  BY DEF IInv
<1>2. QED
  BY <1>1, Invariance, PTL

\* Every step of the manager is a step of the abstract lease table: only an
\* entry whose lifetime since the last addPermission is over is removed.
LEMMA StepSimulation == IInv /\ [Next]_vars => [Leases!Next]_(Leases!vars)
<1> SUFFICES ASSUME IInv, [Next]_vars
             PROVE  [Leases!Next]_(Leases!vars)
  OBVIOUS
<1> USE LifetimeAssumption
    DEF IInv, TypeOK, TimerMatchesAge, Timer!Expired, Leases!vars, Leases!Next
<1>1. ASSUME NEW a \in Addr, AddPermission(a)
      PROVE  Leases!Grant(a)
  BY <1>1 DEF AddPermission, Leases!Grant
<1>2. ASSUME NEW a \in Addr, TimerFires(a)
      PROVE  UNCHANGED Leases!vars
  BY <1>2 DEF TimerFires, Timer!Fires
<1>3. ASSUME NEW a \in Addr, RemovePermission(a)
      PROVE  Leases!Expire(a) \/ UNCHANGED Leases!vars
  BY <1>3 DEF RemovePermission, Removable, Leases!Expire
<1>4. CASE Destroy
  BY <1>4 DEF Destroy, Leases!Close
<1>5. CASE Tick
  BY <1>5 DEF Tick, Leases!Tick
<1>6. CASE UNCHANGED vars
  BY <1>6 DEF vars
<1>7. QED
  BY <1>1, <1>2, <1>3, <1>4, <1>5, <1>6 DEF Next

\* The manager implements the safety part of Lease for all constants: no
\* handler, however late, takes a permission away before its time.
THEOREM Refinement == Spec => Leases!Safety
<1>1. Init => Leases!Init
  BY DEF Init, Leases!Init
<1>2. QED
  BY <1>1, StepSimulation, Invariance, PTL DEF Spec, Leases!Safety
=============================================================================
