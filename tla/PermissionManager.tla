-------------------------- MODULE PermissionManager --------------------------
(***************************************************************************)
(* PermissionManager: the peers an allocation accepts data from, each with *)
(* a steady_timer that removes it when its lifetime is over.               *)
(*                                                                         *)
(* Every method holds mutex_ from its first line to its last, so each is   *)
(* one action. What interleaves is the timer service: the handler of an    *)
(* expired wait may run long after it was queued, when the permission has  *)
(* been added again and has another timer.                                 *)
(***************************************************************************)
EXTENDS TimedTable

CONSTANT Addr   \* peer IP addresses

VARIABLES
  permissions,             \* the keys of permissions_
  left, waiting, queued,   \* their timers, see SteadyTimer
  alive,                   \* the manager exists: weak_self.lock() succeeds
  age                      \* history: time since the last addPermission

vars == <<permissions, left, waiting, queued, alive, age>>

Timer == INSTANCE SteadyTimer WITH Key <- Addr

TypeOK ==
  /\ permissions \in SUBSET Addr
  /\ Timer!TypeOK
  /\ alive \in BOOLEAN
  /\ age \in [Addr -> 0 .. Lifetime]

Init ==
  /\ permissions = {}
  /\ Timer!Init
  /\ alive = TRUE
  /\ age = [a \in Addr |-> Lifetime]
-----------------------------------------------------------------------------
\* Mutation: a permission that exists is given a new timer nobody waits on.
RefreshWithoutWait(a) ==
  /\ left' = [left EXCEPT ![a] = Lifetime]
  /\ waiting' = IF a \in permissions THEN waiting \ {a} ELSE waiting \cup {a}
  /\ UNCHANGED queued

\* Mutation: the lifetime is added to what is left of the old one.
ExtendTimer(a) ==
  /\ left' = [left EXCEPT ![a] = @ + Lifetime]
  /\ waiting' = waiting \cup {a}
  /\ UNCHANGED queued

\* The old timer, if any, is erased and a new one armed for a full lifetime.
NewTimer(a) == Timer!Arm(a)

AddPermission(a) ==
  /\ alive
  /\ permissions' = permissions \cup {a}
  /\ NewTimer(a)
  /\ age' = [age EXCEPT ![a] = 0]
  /\ UNCHANGED alive

TimerFires(a) ==
  /\ Timer!Fires(a)
  /\ UNCHANGED <<permissions, alive, age>>

\* Mutation: the handler trusts that its own timer is the one in the map.
RemovableAnyway(a) == a \in permissions

\* removePermission erases an entry only if the timer the entry has now,
\* which need not be the one that fired, is over.
Removable(a) == a \in permissions /\ Timer!Expired(a)

\* A queued handler runs; it does nothing once the manager is destroyed.
RemovePermission(a) ==
  LET gone == IF alive /\ Removable(a) THEN {a} ELSE {}
  IN  /\ Timer!Runs(a, gone)
      /\ permissions' = permissions \ gone
      /\ UNCHANGED <<alive, age>>

\* ~PermissionManager.
Destroy ==
  /\ alive
  /\ alive' = FALSE
  /\ permissions' = {}
  /\ Timer!Cancel(permissions)
  /\ UNCHANGED age

Tick ==
  /\ Timer!Elapse
  /\ age' = [a \in Addr |-> IF age[a] < Lifetime THEN age[a] + 1 ELSE Lifetime]
  /\ UNCHANGED <<permissions, alive>>

Next ==
  \/ \E a \in Addr : AddPermission(a) \/ TimerFires(a) \/ RemovePermission(a)
  \/ Destroy
  \/ Tick

\* The io_context keeps running: expired waits are queued and queued handlers
\* are run. Nothing obliges a client to add permissions.
Fairness ==
  \A a \in Addr : WF_vars(TimerFires(a)) /\ WF_vars(RemovePermission(a))

Spec == Init /\ [][Next]_vars /\ Fairness
-----------------------------------------------------------------------------
(***************************************************************************)
(* No permission can become permanent: each one has a wait pending on its  *)
(* timer, or is over and has a queued handler that will find it so. About  *)
(* addPermission replacing the timer while the old one's handler is queued. *)
(***************************************************************************)
ExpiryScheduled ==
  \A a \in permissions :
    a \in waiting \/ (left[a] = 0 /\ queued[a] > 0)

\* Only entries have a timer with a wait, and that timer measures the time
\* since the last addPermission.
TimerMatchesAge ==
  /\ waiting \subseteq permissions
  /\ \A a \in permissions : left[a] + age[a] = Lifetime
  /\ alive \/ permissions = {}

\* The inductive invariant of the proofs.
IInv == TypeOK /\ TimerMatchesAge /\ ExpiryScheduled

Leases == INSTANCE Lease WITH Key <- Addr, open <- alive, held <- permissions

(***************************************************************************)
(* The manager implements Lease: a permission survives its full lifetime   *)
(* after the last addPermission, whatever stale handlers run in between    *)
(* (test/Permission_test.cpp, PermissionRefreshPreventsExpiry), and one    *)
(* that is not renewed goes away (PermissionExpiresAfterLifetime).         *)
(***************************************************************************)
ImplementsLease == Leases!Spec
=============================================================================
