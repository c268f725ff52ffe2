-------------------------- MODULE ReservationManager --------------------------
(***************************************************************************)
(* ReservationManager: sockets set aside for the second port of an         *)
(* even-and-next pair, each under a token, until an Allocate request with  *)
(* the token claims it.                                                    *)
(*                                                                         *)
(* createReservation draws tokens until it has one that is not in use. A   *)
(* value of Token stands for one drawn token at a time: after a claim, for *)
(* a new one.                                                              *)
(***************************************************************************)
EXTENDS Naturals

CONSTANTS Token,
          Lifetime,    \* reservation_lifetime_, in ticks
          MaxQueued    \* bound: handlers of one token queued at a time

VARIABLES
  reservations,            \* the keys of reservations_
  left, waiting, queued    \* the timers of the reservations, see SteadyTimer

vars == <<reservations, left, waiting, queued>>

Timer == INSTANCE SteadyTimer WITH Key <- Token

Init ==
  /\ reservations = {}
  /\ Timer!Init

CreateReservation(k) ==
  /\ k \notin reservations
  /\ reservations' = reservations \cup {k}
  /\ Timer!Arm(k)

\* The entry is erased and its timer cancelled, whether it is over or not.
ClaimReservation(k) ==
  /\ k \in reservations
  /\ reservations' = reservations \ {k}
  /\ Timer!Cancel({k})

TimerFires(k) ==
  /\ Timer!Fires(k)
  /\ UNCHANGED reservations

\* The manager is a plain member of AllocationManager, owned by no shared_ptr,
\* so that weak_from_this() is empty and weak_self.lock() fails.
weak_self_locks == FALSE

\* The handler of an expired wait: expireReservation, if there is a manager.
ExpireReservation(k) ==
  LET gone == IF weak_self_locks THEN {k} ELSE {}
  IN  /\ Timer!Runs(k, gone)
      /\ reservations' = reservations \ gone

Tick ==
  /\ Timer!Elapse
  /\ UNCHANGED reservations

Next ==
  \/ \E k \in Token : \/ CreateReservation(k)
                      \/ ClaimReservation(k)
                      \/ TimerFires(k)
                      \/ ExpireReservation(k)
  \/ Tick

\* The io_context keeps running; nobody is obliged to claim a reservation.
Fairness ==
  \A k \in Token : WF_vars(TimerFires(k)) /\ WF_vars(ExpireReservation(k))

Spec == Init /\ [][Next]_vars /\ Fairness
-----------------------------------------------------------------------------
(***************************************************************************)
(* A reservation that nobody claims goes away when its lifetime is over    *)
(* (config/config.ini: "reservation_lifetime"), so that its token is       *)
(* refused and its port comes free ("508 if invalid/expired",              *)
(* StunTurnProcessor.cpp, handleAllocationRequest). Violated: the handler  *)
(* never reaches the manager.                                              *)
(***************************************************************************)
LapsedReservationLeaves ==
  \A k \in Token :
    (k \in reservations /\ Timer!Expired(k)) ~>
      (k \notin reservations \/ ~ Timer!Expired(k))
=============================================================================
