----------------------------- MODULE SteadyTimer -----------------------------
(***************************************************************************)
(* boost::asio::steady_timer and the io_context that runs its handlers, as *)
(* the managers use them: one timer per key, with at most one async_wait   *)
(* pending on it.                                                          *)
(*                                                                         *)
(* A wait that expires becomes a handler queued on the io_context, which   *)
(* nothing can recall: destroying or re-arming the timer only cancels a    *)
(* wait that is still pending. The handlers of cancelled waits get an      *)
(* error code, on which the managers' handlers return at once, and are     *)
(* left out.                                                               *)
(*                                                                         *)
(* Time is relative: left[k] is the time from now to the expiry() of the   *)
(* timer of k, and 0 stands for expiry() <= now.                           *)
(***************************************************************************)
EXTENDS Naturals

CONSTANTS Key,
          Lifetime,    \* what expires_after is called with, in ticks
          MaxQueued    \* bound: handlers of one key queued at a time

VARIABLES left,        \* time to the expiry of the timer of each key
          waiting,     \* keys whose timer has a pending async_wait
          queued       \* expired waits of each key whose handler has not run

TypeOK ==
  /\ left \in [Key -> 0 .. Lifetime]
  /\ waiting \in SUBSET Key
  /\ queued \in [Key -> Nat]

Init ==
  /\ left = [k \in Key |-> 0]
  /\ waiting = {}
  /\ queued = [k \in Key |-> 0]

Expired(k) == left[k] = 0

\* expires_after, on a new timer or one in use, then async_wait.
Arm(k) ==
  /\ left' = [left EXCEPT ![k] = Lifetime]
  /\ waiting' = waiting \cup {k}
  /\ UNCHANGED queued

\* The timer service: the wait of an expired timer becomes a queued handler.
Fires(k) ==
  /\ k \in waiting
  /\ Expired(k)
  /\ queued[k] < MaxQueued
  /\ waiting' = waiting \ {k}
  /\ queued' = [queued EXCEPT ![k] = @ + 1]
  /\ UNCHANGED left

\* A thread takes a handler of k from the queue; running it destroys the
\* timers of the keys in gone.
Runs(k, gone) ==
  /\ queued[k] > 0
  /\ queued' = [queued EXCEPT ![k] = @ - 1]
  /\ waiting' = waiting \ gone
  /\ UNCHANGED left

\* Timers are destroyed, their pending waits with them.
Cancel(gone) ==
  /\ waiting' = waiting \ gone
  /\ UNCHANGED <<left, queued>>

Elapse ==
  /\ left' = [k \in Key |-> IF left[k] > 0 THEN left[k] - 1 ELSE 0]
  /\ UNCHANGED <<waiting, queued>>
=============================================================================
