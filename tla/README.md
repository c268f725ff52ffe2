# A TLA+ model of Taser

Taser is a TURN/STUN server over UDP, written with Boost.Asio coroutines.
This directory holds TLA+ modules that model its core, TLC configurations that
check them on small instances, and TLAPS proofs of the most important
properties for every instance. Paths below are relative to the repository's
root (`server/...`, `test/...`).

## 1. The system

### Components, their state and operations

| Component | State | Operations |
|---|---|---|
| `PermissionManager` (one per allocation) | `permissions_`: peer address -> `steady_timer` | `addPermission`, `hasPermission`, `removePermission` (timer handler), destructor |
| `ChannelManager` (one per allocation) | `channels_`: channel number -> peer and timer | `addChannel`, `getEndpoint`, `channelByAddress`, `removeChannel` (timer handler), destructor |
| `Allocation`, `UdpAllocation` | expiry timer, relay socket, `channel_` (15 messages) to the peer, stored success response, the two managers | `start`, `refresh`, `expired`, `sendToPeer`, `processPeerMessage`, coroutine `reader() \|\| writer()`, `stop` |
| `AllocationManager` | `session_map_`: five-tuple -> `shared_ptr<Allocation>`, under a `shared_mutex` | `createAllocation`, `getAllocation`, `expireAllocation` (timer callback) |
| `ReservationManager` | `reservations_`: token -> socket and timer | `createReservation`, `claimReservation`, `expireReservation` (timer callback) |
| `RelayAddressGenerator` | none but the port range | `generateUdpRelay`, `generateTcpAcceptor` (not called) |
| `Authenticator`, `AuthKey` | server key, realm, users | `generateNonce`, `validateNonce`, password algorithms, message integrity |
| `StunTurnProcessor` | none of its own | `processPacket`, `authenticate`, one handler per STUN method, ChannelData |
| `Server` | UDP socket, `channel_` (128 messages) to the clients | coroutine `reader() \|\| writer()`, `asyncSend`, `stop` |
| `main` | the threads, the `io_context`, the signal wait | creation of threads, signal handler, `run`, joins |
| `Config` | realm, users, lifetimes, port range | `loadConfig` |
| `Endpoint`, `FiveTuple`, `Message`, logging | values | comparison, hashing, output |

### How they interact

`Server::reader` receives a packet and awaits `StunTurnProcessor::processPacket`,
so requests of all clients are handled one after the other. A handler answers
through `asyncSend`, which puts a message into `Server::channel_` and waits
while that is full; `Server::writer` empties it. Data for a peer goes into the
`channel_` of one allocation, emptied by that relay's `writer`; data from a peer
is read by the relay's `reader` and put into `Server::channel_`. The timers of
allocations, permissions, channels and reservations queue their handlers on the
same `io_context`, which `main` runs on `hardware_concurrency()` threads. So a
timer handler, a relay coroutine and a request may be under way at the same
time, and the only things that join their steps are the mutexes of the managers.

### What is hard here

- A handler that is queued cannot be recalled. Between its queuing and its run,
  the entry it was made for may have been renewed or replaced.
- A handler is queued for a wait that is aborted, too. `PermissionManager` and
  `ChannelManager` look at the error code, `Allocation` does not.
- A request looks an allocation up under a lock and uses it after the lock.
- An allocation is kept alive by three kinds of `shared_ptr`, from the map, from
  its own coroutine and from the reader. Leaving the map does not end it.
- Bounded channels make coroutines wait for each other, and errors end some of
  the coroutines that others wait for.
- A nonce is text and binary in one string, and is parsed without a separator;
  its cookie decides about algorithms and is not covered by its HMAC.
- Binding a channel changes two tables with timers of their own, one after the
  other.

`PROJECT.json` lists these hazards line by line, with the properties about them.

### What makes each component correct

- Permissions and channels: an entry lasts its full lifetime since its last
  renewal, and then goes away; channel numbers and peers are one-to-one; a bind
  gives its peer a permission, too.
- Allocations: a client has what a response told it, for as long as it was told;
  no entry is permanent; a relay socket has one owner; a tuple has one relay.
- Reservations: claimed at most once, gone when their lifetime is over.
- Relay ports: inside the configured range, pairs on an even port and the next.
- Server: bounded queues; every request is answered; no relay is passed over.
- The process: it ends when it is told to, whatever its coroutines wait for.
- Authentication: a request is accepted exactly when it has the right key and a
  nonce of the server in its time.

## 2. The modules

| Module | Models | Remarks |
|---|---|---|
| `Lease` | nothing; it is the abstract specification | a table of timed entries: granted, renewed, dropped only when over, or all at once and for good with its owner |
| `TimedTable` | the constants of the two managers | a lifetime and a bound |
| `SteadyTimer` | `boost::asio::steady_timer` and the handler queue (external) | used with `INSTANCE` by three managers |
| `PermissionManager` | `server/channel/PermissionManager.*` | implements `Lease` |
| `ChannelManager` | `server/channel/ChannelManager.*` | implements `Lease` for number-peer pairs |
| `UdpAllocation` | `UdpAllocation::addChannel`, `Allocation::addPermission`, destructor | composes the two managers: one clock, one life |
| `RelayAddressGenerator` | `generateUdpRelay` | constant operators, used by `AllocationManager` |
| `AllocationManager` | `AllocationManager.*`, `Allocation.*`, `UdpAllocation::start`, the use of the map by the Allocate and Refresh handlers | with the reservations of sockets |
| `ReservationManager` | `ReservationManager.*` | its timers, in detail |
| `Server` | `Server.*`, the coroutines of `UdpAllocation` | what waits for what, and what ends what |
| `Main` | `main.cpp` | extends `Server`: its coroutines run on the threads of `main` |
| `Authenticator` | `Authenticator.*`, `StunTurnProcessor::authenticate`, `loadConfig` for realm and users | one decision and the nonces issued |
| `StunTurnProcessor` | `processPacket` and the handlers, `UdpAllocation::addChannel` and `processPeerMessage` | composes the session map, the entries of each allocation, the reservations and the stored responses |
| `MCStunTurnProcessor` | nothing; the symmetry of the run | |
| `*_proofs` | theorems about the module of that name | checked by TLAPS |

### Correspondence with the code

*Atomicity.* Every method of `PermissionManager`, `ChannelManager` and
`ReservationManager` holds its mutex from beginning to end, and is one action.
`UdpAllocation::addChannel` calls one method of each manager, hence is two
actions, `addChannel` and `permitPeer`; requests are handled one at a time, but
timer handlers of both tables may come in between. The destructor of an
allocation ends both managers (`DestroyAllocation`); it is the only step that
`Lease` sees as `Close`, because `open` is mapped to `alive`.
In `AllocationManager` an Allocate request is two actions, because
`createAllocation` inserts the entry under the lock (`CreateAllocation` or
`ClaimReservation`) and calls `start()` after it (`Start`); a Refresh request is
two actions because the handler looks the allocation up under the shared lock
(`RefreshLookup`) and calls `refresh()` without one (`Refresh`). The
variable `threads` is the number of threads, chosen at the start and never
changed; with one, callbacks run only between requests (`Scheduled`). In
`Server` an action is what a coroutine does between two suspensions.

*Time* is relative: `left` is what remains to the expiry of a timer, 0 meaning
`expiry() <= now`, so the state space is finite without a bound on the clock.
`Tick` may come at any time, so handlers may be arbitrarily late.

*Timers.* Arming a timer cancels the wait that is pending on it. A wait that
expires becomes a queued handler (`TimerFires`), which runs later
(`RemovePermission`, `RemoveChannel`, `ExpireAllocation`, `ExpireReservation`).
Handlers of cancelled waits return at once in the first two managers and are
left out there; the callback of an allocation ignores the error code, so there
they are queued as well.

*Object lifetimes.* In `AllocationManager` an allocation exists while it is in
`session`, in `running` (its coroutine holds it) or in `held` (the reader does).
Where the last of these lets go, the action includes what the destructor does to
the pending wait. The relay port is bound as long as the allocation exists.

*Channels.* In `Server` a channel is one sequence; the entries beyond its
capacity are the senders that wait, in their order. A coroutine with an entry
there does nothing else.

*Errors.* `reader() || writer()` waits for one of the two to succeed. A return,
which is what `Server` does on an error of its socket, ends both; an exception
ends only the one that throws it. So an exception out of `processPacket`
(`HandlerThrows`, on any packet, because the decoders are library code) leaves a
server that reads nothing and still sends, and a send error of a relay leaves a
relay that reads and does not send.

*Threads and shutdown.* In `Main` the coroutines take steps while some thread is
inside `run()`, which a worker is before `main` is. A signal stops the server's
coroutines and the `io_context`; then every `run()` returns and the threads are
joined. `hardware_concurrency()` may be 0, and `threads - 1` is taken modulo
`Modulus`. A thread that cannot be created ends the process: with threads in the
vector by `std::terminate`, otherwise through the handler in `main`.

*Ports.* `RelayAddressGenerator` has the rounding and the truncation to 16 bits
as they are coded, and any port for a distribution whose bounds are the wrong way
round. No code checks the range of the configuration, so the models allow any;
`ProperRange` says which ones are meant (from above 0, below 2^16, with an even
port), and `PortsInRange` is about those.

*Configuration.* `loadConfig` in `Authenticator` reads the key `realm` outside
all sections, as the code does, and the users; a file that cannot be read leaves
the default realm and no users. All other entries are constants of the models.

*Nonces.* `validateNonce` reads the longest run of digits as the expiry. All that
matters of the HMAC is whether it is the one of the expiry (`genuine`), and
whether it begins with a digit byte (`DigitLed`); the model keeps just that. The
cookie is another field: `validateNonce` skips it, `hasPasswordAlgorithmsBit`
reads it, and a client may send any.

*Handlers.* In `StunTurnProcessor` the permissions, the channels and the stored
response of an allocation, which are its members, are kept under its relay port:
only one allocation that exists can have it. A handler is one action; its checks are a
sequence of which the first that applies decides (`Verdict`). The attributes of
an Allocate request are judged by `AttributeVerdict`, over all their
combinations; what they come to is either a rejection, a token or a port policy.
Clients may send any packet at any time, which includes sending one again, so
loss, repetition and reordering need no state. Times are left to the modules
above: an entry may be over at any time. That a handler is atomic is no loss:
the only things that may come between its calls are expiries, and these have the
same effect on an allocation after it. The one place where this is not so, the
setting of the timer, is what `AllocationManager` splits.

*Histories.* `granted` and `asked` in `StunTurnProcessor` record what success
responses gave a client and what it ever asked for. `age` in the two managers and `promised` in `AllocationManager` are
not in the code. They record what a client knows: the time since its last
renewal, and what is left of the lifetime it was told.

## 3. The runs

| Run | Expected | What it shows |
|---|---|---|
| `entries` | pass | `UdpAllocation`. `ImplementsLease`, `ChannelsImplementLease`: whatever late handlers of either table run, a permission and a binding last their lifetimes since the last renewal, also when a number has been bound to another peer in between, and then go away. `ExpiryScheduled`, `ChannelExpiryScheduled`: none becomes permanent. `LookupsAgree`: the two lookups of channels are inverse to each other. `BoundPeersPermitted`: from the answer to a ChannelBind on, its peer has a permission for the permission lifetime. |
| `allocations` | pass | one thread or two. `OneOwner` of relay sockets through the even-and-next pairs; `PortsInRange`; `ExpiryScheduled`; `SingleThreadStays`: with one thread a client has its allocation as long as a response told it; `LapsedLeaves`: an entry that is over leaves the map. |
| `refresh_race` | violation | `AcknowledgedStays`, the same promise with two threads, see below. |
| `relay_leak` | violation | `OneRelayPerTuple`, see below. |
| `unclaimed_reservation` | violation | `LapsedReservationLeaves`, see below. |
| `pipeline` | pass | `Main` with all kinds of errors. `BackPressure`: what is queued for the clients is bounded by the capacity and one message per sender; `AnsweredOnce`: no request is lost or answered twice between the coroutines; `StuckOnlyOnDeadRelay`: they never all wait for each other, except for a relay whose writer has ended; `AnsweredWhileHealthy`: under any load every request is answered until a writer or the reader ends with an error; `NoSenderStarves`: a relay that waits for room gets its turn, even when the reader has ended or is stuck; `ExitsOnSignal`: a signal ends the process, whenever it comes; `EndsOnlyOnSignal`: nothing else does, once it has its threads. |
| `relay_send_error` | violation | `AnsweredWhileServing`, see below. |
| `authentication` | pass | one of the nonces has an HMAC that begins with a digit. `AcceptedIsAuthentic`: whoever is accepted has the key, the algorithm it chose and the expiry and HMAC of an issued nonce in its time; of the cookie it says only what it does to the algorithm. `AnswerAcceptedUnlessDigit`: an answer to a challenge that comes in time is accepted, unless the HMAC begins with a digit. |
| `nonce_round_trip` | violation | `AnswerAccepted`, the same without the exception, see below. |
| `tampered_nonce` | violation | `OnlyIssuedNonces`, see below. |
| `handlers` | pass | `AcknowledgedIsEffective`: what success responses gave a client is there until it expires, whatever is sent again or by others. `OnlyAskedPeers`: data of a peer goes only to a client that asked for that peer, although relays outlive their allocations. `ClientsApart`: what a client has grows only by its own requests and shrinks only by expiry. |
| `refresh_family` | violation | `RefusedFamilyIsUnsupported`, see below. |

### The disagreements found

- **Refresh against expiry** (`refresh_race`). `handleRefreshRequest` gets the
  allocation (`StunTurnProcessor.cpp:371`) and refreshes it later (line 401). On
  another thread `expireAllocation` can see it expired in between and erase it;
  the response then tells a lifetime for an allocation that is no longer found.
  The same window exists for a new allocation: it is inserted
  (`AllocationManager.cpp:93`) before `start()` sets its timer (line 96), so a
  callback left over from an earlier allocation of the tuple finds it expired.
  With one thread neither can happen, and that is proved.
- **Relay of an expired allocation** (`relay_leak`). `expireAllocation` erases
  the map's entry. The relay coroutine holds its own `shared_ptr`, nobody calls
  `stop()`, and the relay goes on with its port bound while the same client gets
  a second one.
- **Unclaimed reservations** (`unclaimed_reservation`). `ReservationManager` is a
  plain member of `AllocationManager`, so its `weak_from_this()` is empty and
  its timer handler does nothing.
- **Send error on a relay** (`relay_send_error`). `UdpAllocation::writer` ends
  with an exception while `reader() || writer()` keeps waiting for the reader.
  Nothing empties that relay's `channel_` any more; when it is full
  `sendToPeer` suspends `Server::reader`, and with it all clients.
- **Nonces that are refused at once** (`nonce_round_trip`). When the HMAC begins
  with a byte that is an ASCII digit, `validateNonce` reads that byte as part of
  the expiry.
- **Nonces with another cookie** (`tampered_nonce`). `validateNonce` skips the 13
  characters of the cookie and the HMAC is that of the expiry alone, so that a
  nonce altered in its cookie is valid. The test `TamperedNonceFails`
  (`test/Authenticator_test.cpp:71-78`) alters just such a byte, `nonce[5]`, and
  expects it to be refused. The cookie has an effect: without it
  `hasPasswordAlgorithmsBit` is false and the request is judged under MD5,
  whatever algorithm it names.
- **Refresh with a family** (`refresh_family`). `handleRefreshRequest` (line 387)
  refuses a Refresh that names the family of the allocation and accepts one that
  names the other; the condition lacks the `!` that the ChannelBind handler has
  at line 559.

Things met while modelling that no run is about:

- A repeated Allocate request is answered with the stored response (line 134),
  whose LIFETIME attribute is that of the first answer. It does not prolong
  anything, so `AcknowledgedStays` counts from the first response.
- A LIFETIME attribute of 0 has the effect of none (`computeLifetime`): a Refresh
  with it renews the allocation, and no request deletes one.
- `config/config.ini` has `realm` in the section `[auth]`, and the code reads it
  outside all sections; it names `maximum_allocation_lifetime`, and the code reads
  `max_allocation_lifetime`; `nonce_lifetime` is loaded, and `generateNonce`
  uses 3600.
- A permission may expire long before a channel to the same peer;
  `processPeerMessage` forwards data on the channel all the same.
- A CreatePermission request with several peers that is refused for one of them
  has installed those before it (line 472).
- An error when sending to one client ends `Server::writer` and `reader` (line
  102); the process goes on and answers nobody (`WriterFails`).
- With `hardware_concurrency()` = 0, or when a thread cannot be created, the
  process ends at start-up (`ReserveFails`, `SpawnFails`).

### Bounds and why they are enough

- Keys: in `entries` two numbers and two addresses with two ports each, so that a
  binding can be refused for its number, its peer or both, with peers left over,
  and two bindings share a permission.
  Two tuples and two or three ports for allocations: one even-and-next pair, and
  with three ports an allocation that left the map, a reservation and a new
  allocation at once. Two clients and one relay for the server: requests of
  clients wait behind each other, and the reader and the relay compete for the
  channel. A second relay would be one more competitor of the same kind; `Server`
  alone passes with two (823,680 states), with the threads of `Main` they are too
  many states for a run.
- Lifetimes of one and two ticks in `entries`: permissions are over before
  bindings, and renewals come early, at the last moment and after the handler has
  been queued. (With 2 and 3 ticks the run passes as well, with 545,957 states;
  that is too long for every day.) The allocation lifetimes are 1 (default)
  and 2 (maximum); requested ones go from 0 to one beyond the maximum.
- `MaxQueued` and `MaxHandlers` bound the handlers of one key that are queued at
  a time. Two are enough for a stale handler to coexist with a current one;
  a third has the same choice of effects as the second. The bounds stand in the
  guards of timers and requests only; nothing that is queued is dropped.
- Capacities of 1 for the channels of 128 and 15 messages: what matters is
  whether a sender has to wait, which happens at once. `MaxInbox` bounds the
  socket's buffer.
- The clock of `Authenticator` runs to `MaxTime = 2` with a nonce lifetime of 1:
  answers in time, in the last second and too late. Requests range over every
  combination of the attributes the code looks at.
- `handlers`: two clients, one pair of ports, which they reserve, claim and
  reuse; an address with two ports, so that a permission covers more than a
  channel; an address of the other family, and lists of two peers, so that a
  request fails after its first peer; two transaction ids, so that an Allocate
  is a repetition or a mismatch. One channel number is enough: the competition
  of numbers for peers is checked in `entries`. Clients, transactions and peer
  ports are symmetric.
- `Word`, the number of ports, is 2^16 in the code and 8 in the runs, and the
  range is one even-and-next pair inside it, of which only the upper bound is
  rounded; every range is in the proof.
- `pipeline` has machines of one core, of two, and of an unknown number; one
  thread besides `main` may be created, so two cores are the most that succeed
  and 0 the case that fails. `Modulus` is 4 instead of 2^32: all that matters is
  that 0 - 1 is more than can be created.

### Deadlock

Deadlock is checked everywhere except in `pipeline` and `relay_send_error`: the
process ends, after an error of the server's own socket the code really comes to
a stop, and after one of a relay it may. `StuckOnlyOnDeadRelay` says that this is
the only way for the coroutines to be stuck while a client waits.

### Fairness

- Timers fire and queued handlers run (weak fairness): the `io_context` runs
  until the process ends.
- `ExpireAllocation` has strong fairness. With one thread it is disabled
  while a request is being handled; the queue of an `io_context` is first in
  first out, so requests cannot pass a callback over for ever.
- A request that has begun is carried on to its end; coroutines that can go on
  do (weak fairness); the kernel accepts a datagram or reports an error.
- In `Main` threads that can go on do: they are created, enter `run()`, return
  from it and are joined. Coroutines are carried on only while some thread is
  inside `run()`. No signal need come, and `ReserveFails` has no fairness, because
  the reservation may succeed.
- Nothing is assumed of clients, peers or clocks: no request need ever come, and
  no socket need ever fail or work. `Tick` has no fairness, since "over" in the
  liveness properties already says that the time has passed.

## 4. The proofs

Each `*_proofs` module holds one inductive invariant, the proof that `Init`
implies it and that every action preserves it, and the theorems that follow. The
only assumptions are on the constants, and TLC evaluates them in the runs:

- lifetimes, the bound of the clock and the capacities of the channels are
  naturals (the default allocation lifetime not zero);
- the bounds of the port range and the number of ports are naturals (the latter
  not zero); there is at least one thread, in `Main` a limit on threads that is a
  natural and a modulus of unsigned numbers that is not zero;
- there are finitely many relays, and no packet is both a request and data for a
  relay; no user is called by the value that stands for a missing attribute.

All sets, the number of threads and the bounds on handlers are otherwise
arbitrary.

- **PermissionManager.** `ExpiryScheduled` is not inductive: that a handler finds
  the entry over needs `TimerMatchesAge`, by which only entries have waits, and
  `left + age = Lifetime` for each. `TypeCorrect` and
  `NoPermanentPermission` (`Spec => []ExpiryScheduled`) follow from it.
  `Refinement` shows that the module implements the safety part of `Lease`: with
  `left + age = Lifetime` an entry that may be erased is exactly one whose age is
  `Lifetime`. `Lease` lets the whole table go only when its owner does, so that
  an early removal cannot pass for its end.
- **ChannelManager.** The same, with `OneToOne` for the map. A timer belongs to a
  number and the lease to a number-peer pair, so one-to-one is what carries the
  refinement over rebindings. Theorems: `TypeCorrect`, `NoPermanentChannel`,
  `LookupsAlwaysAgree`, `Refinement`.
- **UdpAllocation.** Every step of an allocation is a step of either manager or
  leaves it alone (`PermissionStep`, `ChannelStep`), so that the invariants and
  the simulations of both carry over; `ChannelFacts` instantiates the proofs about
  channels with the variables of the allocation. What joins the tables is
  `PermittedInTime`: a permission whose age is below its lifetime is there, and
  the permission of a bound peer is no older than the binding, unless the second
  half of the bind is still to come. `BindsPermit` (`BoundPeersPermitted`) follows
  for any two lifetimes, with `EntriesTypeCorrect`, `NoPermanentEntry`,
  `BindingsOneToOne` and `EntriesAreLeases`.
- **AllocationManager.** `IInv` adds `ReaderState`: the reader holds at most one
  allocation, one that was just inserted has neither wait nor coroutine, and
  waits belong to allocations that exist. Without it a port could be reused
  under a wait of its former owner. Theorems for any number of threads:
  `TypeCorrect`, `SocketsHaveOneOwner`, `NoPermanentAllocation`,
  `RelayPortsInRange`. The last rests on lemmas about the generator:
  `EvenFloorBounds` and `ModSmall` (rounding down loses at most one, and a sum
  below the word size is not truncated), `DistributionBounds` (a proper range
  gives the draws bounds the right way round, inside the range) and
  `RelayInRange` (so is every port that is opened, and the second of a pair is
  odd). `SingleThreadKeepsPromises` is `SingleThreadStays`: by `ThreadsFixed` the
  number of threads does not change, and with one `Honoured` is kept: the map has
  an allocation of the tuple with at least as much time left as the client was
  told, and what the reader holds is in the map. With two threads it is
  `held \subseteq session` that fails first.

- **StunTurnProcessor.** Neither property is inductive. A client keeps what it was
  given because nobody else has its port (`OneOwner`, of allocations that exist
  and of reservations) and because a repeated Allocate is answered with the
  response of the very allocation (`StoredOwn`). Data goes to whoever asked
  because all entries of a port were asked for by the client of its allocation,
  and a port without an allocation has none (`EntriesAsked`): the destructor of
  the last holder makes this so when a relay outlives its place in the map.
  `IInv` joins these with the two properties. The lemmas follow what handlers
  have in common: they leave the table alone (`TableKept`), make an allocation
  (`InstallIInv`), add entries (`AddEntriesIInv`) or end something (`LapseIInv`,
  `ReleaseEntries`); `VerdictType` says that a sequence of checks comes to one of
  its errors. Theorems: `TypeCorrect`, `AcknowledgedStays`, `ServesAskedPeers`,
  and the action property `ClientsAreApart`, by the same split.
- **Main and Server.** The coroutines are proved once and for every step of `Next`
  and of `stop()`; what `main` does is one of these or leaves them alone. The
  invariant has `WaitersDiffer`, by which the entries beyond the capacity are of
  different coroutines and at most one is the reader's; the bound on the length
  is then the pigeonhole principle (`WaitersBounded`). `Fate` says for each
  client where its one message is, in terms of `Has` and `Once`, for which there
  are lemmas about appending, taking and joining; `AnsweredOnce` and
  `StuckOnlyOnDeadRelay` both follow from it, the latter because wherever the
  message is some coroutine can take it on. `MainInv` adds that only the signal
  handler stops the `io_context`; `EnoughThreads` shows that the unsigned
  `threads - 1` does not exceed the limit on a machine that is small enough.
  Theorems about `MainSpec`: `TypeCorrect`, `QueueBounded`, `EachAnsweredOnce`,
  `StuckOnDeadRelayAlone`, `SignalEnds`; and `ServerCorrect` about the coroutines
  alone.
- **Authenticator.** `AcceptedPassesAll` and `WellFormedOutcome` are about the
  checks of `authenticate`, in both directions. `OnlyAuthenticAccepted` is
  `AcceptedIsAuthentic`: it speaks of the expiry and the HMAC of an issued nonce,
  not of the nonce as a whole, because `OnlyIssuedNonces` does not hold.
  `AnswerAccepted` does not hold either; what holds is `RoundTripUnlessDigit`: of
  the well-formed answers in time those are accepted whose expiry is not in
  `DigitLed`, and no others.

Every invariant and every action property that a run expects to hold is stated by
a theorem. Only model-checked: everything about liveness (the fairness part of
`Lease`, `LapsedLeaves`, `AnsweredWhileHealthy`, `NoSenderStarves`,
`ExitsOnSignal`), which is out of the prover's reach.

## 5. What is not modelled

- Message coding, Base64, HMAC and digests: library code, represented by what
  the code in the repository does with the results; `libstunxx` is a submodule
  whose code is not part of the repository, so that which packets make it throw
  is left open. The bytes of packets are not in the models, hence neither is what
  a short packet finds in a buffer that has been used before.
- The entries of `Config` other than realm and users: constants of the models.
- `Endpoint`, `FiveTuple`, `Message`: values with equality and a hash; members of
  sets. Logging: output only.
- Failures before `server->start()`, such as an address that cannot be bound: they
  end `main` and nothing else.
- `generateTcpAcceptor`, `UdpAllocation::stop`, `checkChannel` and
  `getChannelByAddress`, which nothing calls.

## 6. Plan

In this order; the first eight are done.

1. `SteadyTimer`, `Lease`, `PermissionManager`, `ChannelManager` and their
   composition `UdpAllocation`, with proofs.
2. `AllocationManager` with `RelayAddressGenerator`, with proofs.
3. `ReservationManager`.
4. `Server`, and `Main` on top of it.
5. `Authenticator`, with the part of `loadConfig` it uses.
6. `StunTurnProcessor`.
7. The port range: `PortsInRange`, checked and proved.
8. Proofs for `Server` and `Main`, `StunTurnProcessor` and `Authenticator`.
9. `AllocationManager` and `StunTurnProcessor` describe the same session map, one
   with times and threads, the other with what is kept with an allocation: a
   common abstract specification of it that both are shown to implement.
