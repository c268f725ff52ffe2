----------------------------- MODULE UdpAllocation -----------------------------
(***************************************************************************)
(* The permissions and the channels of one allocation together. Both       *)
(* tables have timers of their own on the same clock and go with the       *)
(* allocation. Requests are handled one at a time; a ChannelBind changes   *)
(* first the channels and then the permissions, under two mutexes, so that *)
(* timer handlers of either table may run in between.                      *)
(***************************************************************************)
EXTENDS PermissionManager

CONSTANTS Number,            \* channel numbers
          PeerPort,          \* ports of peers
          ChannelLifetime    \* turn.channel_lifetime; Lifetime is that of permissions

ASSUME ChannelLifetimeAssumption == ChannelLifetime \in Nat

Endpoint == Addr \X PeerPort

VARIABLES
  channels, channelLeft, channelWaiting, channelQueued, channelAge,  \* see ChannelManager
  permitting   \* the address a ChannelBind has yet to add a permission for

permissionVars == <<permissions, left, waiting, queued, age>>
channelVars == <<channels, channelLeft, channelWaiting, channelQueued, channelAge>>

allocationVars == <<permissionVars, channelVars, alive, permitting>>

Channels == INSTANCE ChannelManager
  WITH Lifetime <- ChannelLifetime, left <- channelLeft, waiting <- channelWaiting,
       queued <- channelQueued, age <- channelAge

EntriesTypeOK ==
  /\ TypeOK
  /\ Channels!TypeOK
  /\ permitting \in SUBSET Addr

AllocationInit ==
  /\ Init
  /\ Channels!Init
  /\ permitting = {}
-----------------------------------------------------------------------------
\* A CreatePermission request, or one address of it.
addPermission(a) ==
  /\ permitting = {}
  /\ AddPermission(a)
  /\ UNCHANGED <<channelVars, permitting>>

\* UdpAllocation::addChannel, up to the end of ChannelManager::addChannel. A
\* bind that is refused changes nothing.
addChannel(n, p) ==
  /\ permitting = {}
  /\ Channels!AddChannel(n, p)
  /\ permitting' = {p[1]}
  /\ UNCHANGED permissionVars

\* Mutation: an address that has a permission is left as it is.
PermitUnlessPresent(a) ==
  IF a \in permissions THEN UNCHANGED vars ELSE AddPermission(a)

\* The permission a bind adds, or renews.
Permit(a) == AddPermission(a)

\* The rest of addChannel.
permitPeer(a) ==
  /\ a \in permitting
  /\ Permit(a)
  /\ permitting' = {}
  /\ UNCHANGED channelVars

PermissionTimerFires(a) == TimerFires(a) /\ UNCHANGED <<channelVars, permitting>>
ChannelTimerFires(n) == Channels!TimerFires(n) /\ UNCHANGED <<permissionVars, permitting>>

removePermission(a) == RemovePermission(a) /\ UNCHANGED <<channelVars, permitting>>
removeChannel(n) == Channels!RemoveChannel(n) /\ UNCHANGED <<permissionVars, permitting>>

\* ~UdpAllocation: nothing holds the allocation, hence no request uses it.
DestroyAllocation ==
  /\ permitting = {}
  /\ Destroy
  /\ Channels!Destroy
  /\ UNCHANGED permitting

AllocationTick == Tick /\ Channels!Tick /\ UNCHANGED permitting

AllocationNext ==
  \/ \E a \in Addr : \/ addPermission(a) \/ permitPeer(a)
                     \/ PermissionTimerFires(a) \/ removePermission(a)
  \/ \E n \in Number : \/ \E p \in Endpoint : addChannel(n, p)
                       \/ ChannelTimerFires(n) \/ removeChannel(n)
  \/ DestroyAllocation
  \/ AllocationTick

\* The io_context keeps running, and a request that has begun is carried on.
AllocationFairness ==
  /\ \A a \in Addr : /\ WF_allocationVars(PermissionTimerFires(a))
                     /\ WF_allocationVars(removePermission(a))
                     /\ WF_allocationVars(permitPeer(a))
  /\ \A n \in Number : /\ WF_allocationVars(ChannelTimerFires(n))
                       /\ WF_allocationVars(removeChannel(n))

AllocationSpec ==
  AllocationInit /\ [][AllocationNext]_allocationVars /\ AllocationFairness
-----------------------------------------------------------------------------
(***************************************************************************)
(* The same as ExpiryScheduled, for the bindings: none becomes permanent.  *)
(***************************************************************************)
ChannelExpiryScheduled == Channels!ExpiryScheduled

(***************************************************************************)
(* The two lookups of ChannelManager are inverse to each other, whatever   *)
(* requests and handlers come between.                                     *)
(***************************************************************************)
LookupsAgree == Channels!LookupsAgree

\* Time a binding and the permission that came with it have in common.
WithinBoth(b) == channelAge[b] < Lifetime /\ channelAge[b] < ChannelLifetime

(***************************************************************************)
(* A bind is good for both tables: from the answer to a ChannelBind on its *)
(* peer has a permission for the full permission lifetime, as long as the  *)
(* binding lasts, even if it had one already that was about to expire or   *)
(* whose handler was queued. About UdpAllocation::addChannel, which is two *)
(* steps under two mutexes. Once the permission lifetime is over the       *)
(* channel may well be left without one.                                   *)
(***************************************************************************)
BoundPeersPermitted ==
  \A b \in channels :
    WithinBoth(b) => b[2][1] \in permissions \cup permitting

\* What makes this inductive: a permission in its time is there, and the peer
\* of a binding had its permission renewed no earlier than the binding.
PermittedInTime ==
  /\ \A a \in Addr : alive /\ age[a] < Lifetime => a \in permissions
  /\ \A b \in channels :
       \/ channelAge[b] = ChannelLifetime
       \/ age[b[2][1]] <= channelAge[b]
       \/ b[2][1] \in permitting

(***************************************************************************)
(* The channels of an allocation implement Lease, next to the permissions  *)
(* (ImplementsLease): what happens in one table does not shorten the life  *)
(* of what is in the other.                                                *)
(***************************************************************************)
ChannelsImplementLease == Channels!ImplementsLease
=============================================================================
