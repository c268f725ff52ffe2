\* One thread is enough: the relay of an expired allocation is never stopped.
CONSTANTS
  Tuple = {t1, t2}
  MinPort = 2
  MaxPort = 4
  Word = 8
  DefaultLifetime = 1
  MaxLifetime = 2
  Threads = {1}
  MaxHandlers = 1
SPECIFICATION Spec
INVARIANT OneRelayPerTuple
