---------------------------- MODULE ChannelManager ----------------------------
(***************************************************************************)
(* ChannelManager: the channel numbers an allocation has bound to peers,   *)
(* each binding with a steady_timer that removes it.                       *)
(*                                                                         *)
(* The map is looked up in both directions: by number for the data of the  *)
(* client (getEndpoint), by peer for the data of the peer                  *)
(* (channelByAddress, a linear search). Every method is one action, since  *)
(* it holds mutex_ throughout; handlers of expired waits run at any later  *)
(* time.                                                                   *)
(***************************************************************************)
EXTENDS TimedTable

CONSTANTS Number,      \* channel numbers
          Endpoint     \* peer transport addresses

Binding == Number \X Endpoint

VARIABLES
  channels,                \* channels_, as the set of its number-peer pairs
  left, waiting, queued,   \* the timers of the numbers, see SteadyTimer
  alive,                   \* the manager exists: weak_self.lock() succeeds
  age                      \* history: time since each binding was last made

vars == <<channels, left, waiting, queued, alive, age>>

Timer == INSTANCE SteadyTimer WITH Key <- Number

TypeOK ==
  /\ channels \in SUBSET Binding
  /\ Timer!TypeOK
  /\ alive \in BOOLEAN
  /\ age \in [Binding -> 0 .. Lifetime]

Init ==
  /\ channels = {}
  /\ Timer!Init
  /\ alive = TRUE
  /\ age = [b \in Binding |-> Lifetime]
-----------------------------------------------------------------------------
getEndpoint(n) == {b[2] : b \in {c \in channels : c[1] = n}}

channelByAddress(p) == {b[1] : b \in {c \in channels : c[2] = p}}

\* Mutation: the search for another channel of the same peer is forgotten.
NumberFree(n, p) == getEndpoint(n) \subseteq {p}

\* addChannel succeeds on a binding that exists, and on a new one when
\* neither its number nor its peer is in use.
Bindable(n, p) ==
  \/ <<n, p>> \in channels
  \/ getEndpoint(n) = {} /\ channelByAddress(p) = {}

\* Mutation: a binding that exists is extended without a new async_wait, and
\* expires_after has cancelled the old one.
ExtendWithoutWait(n) ==
  /\ left' = [left EXCEPT ![n] = Lifetime]
  /\ waiting' = IF getEndpoint(n) = {} THEN waiting \cup {n} ELSE waiting \ {n}
  /\ UNCHANGED queued

\* expires_after on the timer of the entry, old or new, and async_wait.
StartTimer(n) == Timer!Arm(n)

AddChannel(n, p) ==
  /\ alive
  /\ Bindable(n, p)
  /\ channels' = channels \cup {<<n, p>>}
  /\ StartTimer(n)
  /\ age' = [age EXCEPT ![<<n, p>>] = 0]
  /\ UNCHANGED alive

TimerFires(n) ==
  /\ Timer!Fires(n)
  /\ UNCHANGED <<channels, alive, age>>

\* Mutation: the handler does not look at the timer the entry has now.
RemovableAnyway(n) == {b \in channels : b[1] = n}

\* What removeChannel erases: the entry of the number, whichever peer it has
\* by now, if its timer is over.
Removable(n) == {b \in channels : b[1] = n /\ Timer!Expired(n)}

\* A queued handler runs; it does nothing once the manager is destroyed.
RemoveChannel(n) ==
  LET gone == IF alive THEN Removable(n) ELSE {}
  IN  /\ Timer!Runs(n, {b[1] : b \in gone})
      /\ channels' = channels \ gone
      /\ UNCHANGED <<alive, age>>

\* ~ChannelManager.
Destroy ==
  /\ alive
  /\ alive' = FALSE
  /\ channels' = {}
  /\ Timer!Cancel({b[1] : b \in channels})
  /\ UNCHANGED age

Tick ==
  /\ Timer!Elapse
  /\ age' = [b \in Binding |-> IF age[b] < Lifetime THEN age[b] + 1 ELSE Lifetime]
  /\ UNCHANGED <<channels, alive>>

Next ==
  \/ \E n \in Number, p \in Endpoint : AddChannel(n, p)
  \/ \E n \in Number : TimerFires(n) \/ RemoveChannel(n)
  \/ Destroy
  \/ Tick

\* The io_context keeps running; no client is obliged to bind channels.
Fairness ==
  \A n \in Number : WF_vars(TimerFires(n)) /\ WF_vars(RemoveChannel(n))

Spec == Init /\ [][Next]_vars /\ Fairness
-----------------------------------------------------------------------------
(***************************************************************************)
(* The two lookups are inverse to each other: data from the peer of a      *)
(* channel goes to the client under the very number on which the client    *)
(* sends to that peer, through every sequence of binds, expiries and       *)
(* rebinds. About addChannel and the linear search of channelByAddress,    *)
(* which would otherwise pick an arbitrary match.                          *)
(***************************************************************************)
LookupsAgree ==
  \A n \in Number, p \in Endpoint :
    getEndpoint(n) = {p} <=> channelByAddress(p) = {n}

(***************************************************************************)
(* No binding can become permanent, which would block its number and its   *)
(* peer for good: a wait is pending on its timer, or the timer is over and *)
(* a handler that will find it so is queued.                               *)
(***************************************************************************)
ExpiryScheduled ==
  \A b \in channels :
    b[1] \in waiting \/ (left[b[1]] = 0 /\ queued[b[1]] > 0)

\* channels_ is a one-to-one map.
OneToOne == \A b, c \in channels : b[1] = c[1] <=> b[2] = c[2]

\* Only bound numbers have a timer with a wait, and that timer measures the
\* time since the binding was last made.
TimerMatchesAge ==
  /\ \A n \in waiting : \E b \in channels : b[1] = n
  /\ \A b \in channels : left[b[1]] + age[b] = Lifetime
  /\ alive \/ channels = {}

\* The inductive invariant of the proofs.
IInv == TypeOK /\ OneToOne /\ TimerMatchesAge /\ ExpiryScheduled

Leases == INSTANCE Lease WITH Key <- Binding, open <- alive, held <- channels

(***************************************************************************)
(* The manager implements Lease for number-peer pairs: a stale handler of  *)
(* a number never removes a binding before its full lifetime since the     *)
(* last addChannel, even when the number was bound to another peer in      *)
(* between, and a binding that is not renewed goes away.                   *)
(***************************************************************************)
ImplementsLease == Leases!Spec
=============================================================================
