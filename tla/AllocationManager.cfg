\* Two clients and two relay ports, which make one even-and-next pair; two
\* lifetimes to be told; one thread, or two, so that callbacks run inside
\* requests; two queued callbacks of a tuple, so that one of an aborted wait
\* coexists with one of an expired wait.
CONSTANTS
  Tuple = {t1, t2}
  MinPort = 2
  MaxPort = 3
  Word = 8
  DefaultLifetime = 1
  MaxLifetime = 2
  Threads = {1, 2}
  MaxHandlers = 2
SPECIFICATION Spec
INVARIANT TypeOK
INVARIANT OneOwner
INVARIANT PortsInRange
INVARIANT ExpiryScheduled
INVARIANT SingleThreadStays
PROPERTY LapsedLeaves
