\* Two clients, so that a request waits behind another, and one relay, which
\* competes with the reader for the server's channel; capacities of 1 for the
\* channels of 128 and 15 messages; all kinds of errors. Machines of one core and
\* of two, one whose number of cores is unknown, and one thread besides main,
\* which is enough for the former two. The process may stop: at a signal, or as
\* its coroutines wait for ever.
CONSTANTS
  Client = {c1, c2}
  Relay = {r1}
  Cap = 1
  RelayCap = 1
  MaxInbox = 2
  Errors = {"server", "relay", "handler"}
  Concurrency = {0, 1, 2}
  Modulus = 4
  ThreadLimit = 1
SPECIFICATION MainSpec
INVARIANT MainTypeOK
INVARIANT BackPressure
INVARIANT AnsweredOnce
INVARIANT StuckOnlyOnDeadRelay
INVARIANT EndsOnlyOnSignal
PROPERTY AnsweredWhileHealthy
PROPERTY NoSenderStarves
PROPERTY ExitsOnSignal
CHECK_DEADLOCK FALSE
