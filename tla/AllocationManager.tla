--------------------------- MODULE AllocationManager ---------------------------
(***************************************************************************)
(* AllocationManager and the life of an Allocation: the session map, the   *)
(* expiry timers and their callbacks, the shared_ptrs that keep an         *)
(* allocation and its relay socket alive, and the two requests that use    *)
(* them, Allocate and Refresh.                                             *)
(*                                                                         *)
(* Requests are handled one at a time by the coroutine Server::reader.     *)
(* Expiry callbacks and the relay coroutines run on the same io_context:   *)
(* with one thread never in the middle of a request, with more threads     *)
(* between any two steps that no lock joins.                               *)
(*                                                                         *)
(* An allocation is named by its five-tuple and its relay port. It exists  *)
(* as long as the session map, its own relay coroutine or the reader holds *)
(* a shared_ptr to it; its relay port is bound as long as it exists.       *)
(***************************************************************************)
EXTENDS Naturals

CONSTANTS Tuple,             \* five-tuples of clients
          MinPort, MaxPort,  \* turn.relay_port_min and relay_port_max
          Word,              \* number of ports, 2^16 in the code
          DefaultLifetime,   \* turn.allocation_lifetime, in ticks
          MaxLifetime,       \* turn.max_allocation_lifetime
          Threads,           \* numbers of threads that may run the io_context
          MaxHandlers        \* bound: a tuple with so many queued callbacks
                             \* gets no more from timers and requests

ASSUME LifetimeAssumption == DefaultLifetime \in Nat \ {0} /\ MaxLifetime \in Nat

ASSUME PortAssumption == MinPort \in Nat /\ MaxPort \in Nat /\ Word \in Nat \ {0}

ASSUME ThreadAssumption == Threads \subseteq Nat \ {0}

VARIABLES
  session,       \* session_map_, as the set of its tuple-port pairs
  running,       \* allocations whose relay coroutine has not ended
  left,          \* time to the expiry() of the timer_ of each allocation
  waiting,       \* ports whose allocation has a pending async_wait
  handlers,      \* expiry callbacks of each tuple queued on the io_context
  reservations,  \* reservations_, as the set of the ports of their sockets
  op,            \* what the reader is in the middle of
  held,          \* the allocation the reader has a shared_ptr to, if any
  threads,       \* threads that run the io_context
  promised       \* history: what is left of the lifetime a client was told

vars == <<session, running, left, waiting, handlers, reservations, op, held,
          threads, promised>>

Port == 0 .. Word - 1
Allocation == Tuple \X Port
Lifetime == 0 .. (IF MaxLifetime > DefaultLifetime THEN MaxLifetime ELSE DefaultLifetime)

TypeOK ==
  /\ session \in SUBSET Allocation
  /\ running \in SUBSET Allocation
  /\ left \in [Port -> Lifetime]
  /\ waiting \in SUBSET Port
  /\ handlers \in [Tuple -> Nat]
  /\ reservations \in SUBSET Port
  /\ op \in {"idle", "start", "refresh"}
  /\ held \in SUBSET Allocation
  /\ threads \in Threads
  /\ promised \in [Tuple -> Lifetime]

Init ==
  /\ session = {}
  /\ running = {}
  /\ left = [p \in Port |-> 0]
  /\ waiting = {}
  /\ handlers = [t \in Tuple |-> 0]
  /\ reservations = {}
  /\ op = "idle"
  /\ held = {}
  /\ threads \in Threads
  /\ promised = [t \in Tuple |-> 0]
-----------------------------------------------------------------------------
\* The allocations that exist: something holds a shared_ptr to them.
Live == session \cup running \cup held

Bound == {a[2] : a \in Live} \cup reservations

getAllocation(t) == {a \in session : a[1] = t}

expired(a) == left[a[2]] = 0

\* A callback or a coroutine gets a thread.
Scheduled == op = "idle" \/ threads > 1

\* Mutation: a long request is not cut to the maximum.
UncappedLifetime(requested) ==
  IF requested > DefaultLifetime THEN requested ELSE DefaultLifetime

\* A requested lifetime of 0 stands for no LIFETIME attribute as well.
computeLifetime(requested) ==
  LET computed == IF requested < MaxLifetime THEN requested ELSE MaxLifetime
  IN  IF requested > 0 /\ computed > DefaultLifetime THEN computed ELSE DefaultLifetime

Requested == 0 .. MaxLifetime + 1

Generator == INSTANCE RelayAddressGenerator
-----------------------------------------------------------------------------
(***************************************************************************)
(* An Allocate request, up to the end of the locked insertion: the tuple   *)
(* has no allocation, a new object is put into the map. Its timer has not  *)
(* been set yet, so expired() holds.                                       *)
(***************************************************************************)
Insert(t, p) ==
  /\ op = "idle"
  /\ getAllocation(t) = {}
  /\ session' = session \cup {<<t, p>>}
  /\ held' = {<<t, p>>}
  /\ left' = [left EXCEPT ![p] = 0]
  /\ op' = "start"
  /\ UNCHANGED <<running, waiting, handlers, threads, promised>>

CreateAllocation(t, policy) ==
  \E p \in Generator!GenerateUdpRelay(MinPort, MaxPort, policy, Port \ Bound) :
    /\ Insert(t, p)
    /\ reservations' = reservations \cup (Generator!Opened(p, policy) \ {p})

\* Mutation: the reservation stays when its socket has been handed over.
Keep(p) == reservations

\* ReservationManager::claimReservation erases the entry of the token.
Claim(p) == reservations \ {p}

ClaimReservation(t, p) ==
  /\ p \in reservations
  /\ Insert(t, p)
  /\ reservations' = Claim(p)

\* Mutation: the timer is set and nobody waits on it.
WaitForgotten(p) == waiting

\* async_wait
Wait(p) == waiting \cup {p}

\* UdpAllocation::start and the success response.
Start(a, lifetime) ==
  /\ op = "start"
  /\ a \in held
  /\ left' = [left EXCEPT ![a[2]] = lifetime]
  /\ waiting' = Wait(a[2])
  /\ running' = running \cup {a}
  /\ promised' = [promised EXCEPT ![a[1]] = lifetime]
  /\ op' = "idle"
  /\ held' = {}
  /\ UNCHANGED <<session, handlers, reservations, threads>>

\* A Refresh request finds the allocation, under the shared lock.
RefreshLookup(t) ==
  /\ op = "idle"
  /\ handlers[t] < MaxHandlers
  /\ getAllocation(t) # {}
  /\ held' = getAllocation(t)
  /\ op' = "refresh"
  /\ UNCHANGED <<session, running, left, waiting, handlers, reservations, threads, promised>>

\* Allocation::refresh, without a lock, and the success response. Setting the
\* timer aborts a pending wait, whose callback is queued all the same; if the
\* map and the coroutine have let go of the allocation, it is destroyed here
\* and the new wait is aborted in its turn.
Refresh(a, lifetime) ==
  LET orphan == a \notin session \cup running
  IN  /\ op = "refresh"
      /\ a \in held
      /\ left' = [left EXCEPT ![a[2]] = lifetime]
      /\ waiting' = IF orphan THEN waiting \ {a[2]} ELSE Wait(a[2])
      /\ handlers' = [handlers EXCEPT ![a[1]] =
                        @ + (IF a[2] \in waiting THEN 1 ELSE 0)
                          + (IF orphan THEN 1 ELSE 0)]
      /\ promised' = [promised EXCEPT ![a[1]] = lifetime]
      /\ op' = "idle"
      /\ held' = {}
      /\ UNCHANGED <<session, running, reservations, threads>>
-----------------------------------------------------------------------------
\* The timer service: an expired wait becomes a queued callback.
TimerFires(a) ==
  /\ a \in Live
  /\ a[2] \in waiting
  /\ expired(a)
  /\ handlers[a[1]] < MaxHandlers
  /\ waiting' = waiting \ {a[2]}
  /\ handlers' = [handlers EXCEPT ![a[1]] = @ + 1]
  /\ UNCHANGED <<session, running, left, reservations, op, held, threads, promised>>

\* Mutation: the callback trusts that the allocation of its tuple is over.
ErasableAnyway(t) == getAllocation(t)

\* Mutation: an allocation that still relays is not taken out of the map.
ErasableWhenStopped(t) == {a \in getAllocation(t) \ running : expired(a)}

\* What expireAllocation erases: the entry its tuple has now, if expired.
Erasable(t) == {a \in getAllocation(t) : expired(a)}

\* A queued callback runs, whether its wait expired or was aborted. An entry
\* nothing else holds is destroyed; a wait pending on it is aborted.
ExpireAllocation(t) ==
  LET aborted == {a \in Erasable(t) \ (running \cup held) : a[2] \in waiting}
  IN  /\ Scheduled
      /\ handlers[t] > 0
      /\ session' = session \ Erasable(t)
      /\ waiting' = waiting \ {a[2] : a \in aborted}
      /\ handlers' = [handlers EXCEPT ![t] = IF aborted = {} THEN @ - 1 ELSE @]
      /\ UNCHANGED <<running, left, reservations, op, held, threads, promised>>

\* The relay coroutine ends once both its reader and its writer have met a
\* socket error; nothing else ends it, since nobody calls stop().
RelayEnds(a) ==
  LET aborted == a \notin session \cup held /\ a[2] \in waiting
  IN  /\ Scheduled
      /\ a \in running
      /\ handlers[a[1]] < MaxHandlers
      /\ running' = running \ {a}
      /\ waiting' = IF aborted THEN waiting \ {a[2]} ELSE waiting
      /\ handlers' = [handlers EXCEPT ![a[1]] = IF aborted THEN @ + 1 ELSE @]
      /\ UNCHANGED <<session, left, reservations, op, held, threads, promised>>

Tick ==
  /\ left' = [p \in Port |-> IF left[p] > 0 THEN left[p] - 1 ELSE 0]
  /\ promised' = [t \in Tuple |-> IF promised[t] > 0 THEN promised[t] - 1 ELSE 0]
  /\ UNCHANGED <<session, running, waiting, handlers, reservations, op, held, threads>>

StartAny == \E a \in held, r \in Requested : Start(a, computeLifetime(r))
RefreshAny == \E a \in held, r \in Requested : Refresh(a, computeLifetime(r))

Next ==
  \/ \E t \in Tuple :
       \/ \E policy \in Generator!PortPolicy : CreateAllocation(t, policy)
       \/ \E p \in Port : ClaimReservation(t, p)
       \/ RefreshLookup(t)
       \/ ExpireAllocation(t)
  \/ StartAny
  \/ RefreshAny
  \/ \E a \in Allocation : TimerFires(a) \/ RelayEnds(a)
  \/ Tick

\* A request that has begun is carried on to its response; timers fire; the
\* io_context runs what is queued on it in turn, so that a callback is not
\* passed over for ever by requests (strong fairness). No client is obliged to
\* send anything, and no socket to fail.
Fairness ==
  /\ WF_vars(StartAny)
  /\ WF_vars(RefreshAny)
  /\ \A a \in Allocation : WF_vars(TimerFires(a))
  /\ \A t \in Tuple : SF_vars(ExpireAllocation(t))

Spec == Init /\ [][Next]_vars /\ Fairness
-----------------------------------------------------------------------------
\* The reader holds one allocation, and only inside a request; the one it has
\* just inserted has neither a wait nor a relay coroutine yet. Waits are only
\* pending on the timers of allocations that exist.
ReaderState ==
  /\ op = "idle" => held = {}
  /\ \A a, b \in held : a = b
  /\ op = "start" => \A a \in held : a \notin running /\ a[2] \notin waiting
  /\ \A p \in waiting : \E a \in Live : a[2] = p

(***************************************************************************)
(* Each relay socket belongs to one owner, an allocation that exists or a  *)
(* reservation, and a tuple has one allocation in the map. About the even- *)
(* and-next pairs, whose second socket moves from the generator to a       *)
(* reservation and from there to the allocation that claims it, while      *)
(* allocations that have left the map still hold theirs.                   *)
(***************************************************************************)
OneOwner ==
  /\ \A a, b \in Live : a[2] = b[2] => a = b
  /\ \A a \in Live : a[2] \notin reservations
  /\ \A a, b \in session : a[1] = b[1] => a = b

\* The range of the configuration begins above 0 and has an even port.
ProperRange ==
  /\ 0 < MinPort /\ MaxPort < Word
  /\ \E p \in MinPort .. MaxPort : p % 2 = 0

(***************************************************************************)
(* The sockets of relays and reservations are on ports of the configured   *)
(* range, and those of reservations on odd ones, the second of a pair.     *)
(* About the bounds of the random draws, which are rounded to even numbers *)
(* in 16 bits. Nothing checks that the range of the configuration is a     *)
(* proper one: with an odd port alone, the bounds are the wrong way round. *)
(***************************************************************************)
PortsInRange ==
  ProperRange =>
    /\ \A a \in Live : a[2] \in MinPort .. MaxPort
    /\ \A p \in reservations : p \in MinPort .. MaxPort /\ p % 2 = 1

(***************************************************************************)
(* No entry of the session map can stay for ever: outside the window       *)
(* between its insertion and start(), its allocation has a wait pending,   *)
(* or is expired and a callback that will erase it is queued. About        *)
(* refresh() re-arming the timer while callbacks of earlier waits, expired *)
(* or aborted, are queued.                                                 *)
(***************************************************************************)
ExpiryScheduled ==
  \A a \in session :
    \/ op = "start" /\ a \in held
    \/ a[2] \in waiting
    \/ expired(a) /\ handlers[a[1]] > 0

(***************************************************************************)
(* A client that was told a lifetime has its allocation as long as that    *)
(* lasts, from the first response to its request: neither an aborted nor a *)
(* late callback of an earlier wait takes it away. Violated with more than *)
(* one thread. A response that is repeated, see StunTurnProcessor, tells   *)
(* the same lifetime and does not prolong it.                              *)
(***************************************************************************)
AcknowledgedStays == \A t \in Tuple : promised[t] > 0 => getAllocation(t) # {}

(***************************************************************************)
(* A client keeps its allocation for as long as it was told, if one thread *)
(* runs the io_context, as main does on a machine with one core.           *)
(***************************************************************************)
SingleThreadStays == threads = 1 => AcknowledgedStays

\* The inductive invariant, for any number of threads.
IInv == TypeOK /\ ReaderState /\ OneOwner /\ PortsInRange /\ ExpiryScheduled

\* What makes AcknowledgedStays inductive with one thread: the allocation in
\* the map is the one the client was told about, and the one the reader uses.
Honoured ==
  /\ held \subseteq session
  /\ \A t \in Tuple : promised[t] > 0 =>
       \E a \in session : a[1] = t /\ left[a[2]] >= promised[t]

(***************************************************************************)
(* An entry whose lifetime is over leaves the map, unless it is refreshed. *)
(***************************************************************************)
LapsedLeaves ==
  \A t \in Tuple :
    (getAllocation(t) # {} /\ promised[t] = 0) ~>
      (getAllocation(t) = {} \/ promised[t] > 0)

(***************************************************************************)
(* "The server checks if the 5-tuple is currently in use by an existing    *)
(* allocation" (StunTurnProcessor.cpp, handleAllocationRequest): a second  *)
(* allocation is never made for a tuple while the first one exists and     *)
(* relays. Violated: expireAllocation drops the map's reference and leaves *)
(* the relay coroutine running.                                            *)
(***************************************************************************)
OneRelayPerTuple == \A a, b \in running : a[1] = b[1] => a = b
=============================================================================
