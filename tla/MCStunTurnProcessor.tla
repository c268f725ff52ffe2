------------------------- MODULE MCStunTurnProcessor -------------------------
(***************************************************************************)
(* StunTurnProcessor for TLC. Clients, transaction ids and ports of peers  *)
(* are compared with each other and with nothing else, so that any two of  *)
(* them may change places.                                                 *)
(***************************************************************************)
EXTENDS StunTurnProcessor, TLC

Symmetry == Permutations(Client) \cup Permutations(Txn) \cup Permutations(PeerPort)
=============================================================================
