-------------------------------- MODULE Lease --------------------------------
(***************************************************************************)
(* What a table of timed entries promises to its users, whatever timers,   *)
(* callbacks and locks it is made of: an entry that was granted stays for  *)
(* the whole Lifetime after its last grant, and does not stay for ever.    *)
(*                                                                         *)
(* PermissionManager and ChannelManager are shown to implement it.         *)
(***************************************************************************)
EXTENDS Naturals

CONSTANTS Key,       \* what is leased: a peer address, a channel binding
          Lifetime   \* how long a grant lasts, in ticks

VARIABLES open,      \* the owner of the table exists
          held,      \* the keys present in the table
          age        \* time since the last grant of each key, up to Lifetime

vars == <<open, held, age>>

TypeOK ==
  /\ open \in BOOLEAN
  /\ held \in SUBSET Key
  /\ age \in [Key -> 0 .. Lifetime]

Init ==
  /\ open = TRUE
  /\ held = {}
  /\ age = [k \in Key |-> Lifetime]

\* A grant, first or repeated, starts the lifetime afresh.
Grant(k) ==
  /\ open
  /\ held' = held \cup {k}
  /\ age' = [age EXCEPT ![k] = 0]
  /\ UNCHANGED open

\* An entry may disappear only when its lifetime is over.
Expire(k) ==
  /\ k \in held
  /\ age[k] = Lifetime
  /\ held' = held \ {k}
  /\ UNCHANGED <<open, age>>

\* The table goes away with its owner, once and for all: only this step drops
\* entries that are not over, and nothing is granted after it.
Close ==
  /\ open
  /\ open' = FALSE
  /\ held' = {}
  /\ UNCHANGED age

Tick ==
  /\ age' = [k \in Key |-> IF age[k] < Lifetime THEN age[k] + 1 ELSE Lifetime]
  /\ UNCHANGED <<open, held>>

Next ==
  \/ \E k \in Key : Grant(k) \/ Expire(k)
  \/ Close
  \/ Tick

\* An entry whose lifetime is over, and that nobody renews, is dropped.
Fairness == \A k \in Key : WF_vars(Expire(k))

Safety == Init /\ [][Next]_vars

Spec == Safety /\ Fairness
=============================================================================
