------------------------------ MODULE TimedTable ------------------------------
(***************************************************************************)
(* What PermissionManager and ChannelManager are made with.                *)
(***************************************************************************)
EXTENDS Naturals

CONSTANTS Lifetime,   \* lifetime_seconds_, in ticks
          MaxQueued   \* bound: handlers of one entry queued at a time

ASSUME LifetimeAssumption == Lifetime \in Nat
=============================================================================
