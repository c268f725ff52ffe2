------------------------- MODULE RelayAddressGenerator -------------------------
(***************************************************************************)
(* RelayAddressGenerator::generateUdpRelay: which ports it may return for  *)
(* a port policy. Ports are unsigned integers modulo Word.                 *)
(*                                                                         *)
(* The retries of the code are one choice here: a try that finds a port    *)
(* taken closes what it opened and changes nothing, so a call returns any  *)
(* candidate whose ports are free, or nothing.                             *)
(***************************************************************************)
EXTENDS Naturals

CONSTANT Word   \* number of ports: 2^16 in the code, the range of a uint16_t

PortPolicy == {"Any", "Even", "EvenAndReserveNext"}

require_even(policy) == policy \in {"Even", "EvenAndReserveNext"}
reserve_next(policy) == policy = "EvenAndReserveNext"

\* x & ~1
EvenFloor(x) == x - (x % 2)

\* The sum is an int, the assignment truncates it to a port again.
port_min(min, policy) ==
  IF require_even(policy) THEN EvenFloor(min + 1) % Word ELSE min

port_max(max, policy) ==
  IF require_even(policy) THEN EvenFloor(max) ELSE max

\* Mutation: of an even port the half is drawn, and not doubled.
HalvesDrawn(min, max, policy) ==
  LET half == IF require_even(policy) THEN 2 ELSE 1
  IN  port_min(min, policy) \div half .. port_max(max, policy) \div half

\* What the distribution can draw. With its bounds the wrong way round it is
\* undefined, and the unsigned arithmetic of the library draws any value.
Drawn(min, max, policy) ==
  LET lo   == port_min(min, policy)
      hi   == port_max(max, policy)
      step == IF require_even(policy) THEN 2 ELSE 1
  IN  {p \in 0 .. Word - 1 : p % step = 0 /\ (lo <= hi => lo <= p /\ p <= hi)}

\* The draws that are not skipped.
Candidates(min, max, policy) ==
  {p \in Drawn(min, max, policy) : reserve_next(policy) => p + 1 <= max}

\* The sockets a successful try with port p opens.
Opened(p, policy) == IF reserve_next(policy) THEN {p, p + 1} ELSE {p}

\* The primary ports a call may return, given the ports that can be bound.
GenerateUdpRelay(min, max, policy, free) ==
  {p \in Candidates(min, max, policy) : Opened(p, policy) \subseteq free}
=============================================================================
