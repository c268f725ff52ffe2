\* Two threads: an expiry callback may run between the two steps of a request.
CONSTANTS
  Tuple = {t1, t2}
  MinPort = 2
  MaxPort = 4
  Word = 8
  DefaultLifetime = 1
  MaxLifetime = 2
  Threads = {2}
  MaxHandlers = 1
SPECIFICATION Spec
INVARIANT AcknowledgedStays
