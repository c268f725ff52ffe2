--------------------------------- MODULE Main ---------------------------------
(***************************************************************************)
(* main: the threads that run the io_context, and with it the coroutines   *)
(* of Server, from their creation to the signal that ends the process.     *)
(*                                                                         *)
(* The threads of the vector v run the io_context as soon as they exist,   *)
(* the main thread when it has created them all. The pending signal wait   *)
(* and the relays keep run() from returning on its own.                    *)
(***************************************************************************)
EXTENDS Server, Integers

CONSTANTS Concurrency,   \* values hardware_concurrency() may return, 0 if unknown
          Modulus,       \* of an unsigned int: 2^32 in the code
          ThreadLimit    \* threads besides main that the system lets it create

ASSUME ThreadLimitAssumption == ThreadLimit \in Nat
ASSUME UnsignedAssumption == Modulus \in Nat \ {0} /\ Concurrency \subseteq Nat

VARIABLES
  hardware,   \* what hardware_concurrency() returned
  phase,      \* how far the main thread is
  created,    \* number of threads in v
  workers,    \* number of those that are inside run()
  signalled,  \* the signal handler has run; another signal is not waited for
  stopped     \* the io_context is stopped

mainVars == <<hardware, phase, created, workers, signalled, stopped>>

MainTypeOK ==
  /\ TypeOK
  /\ hardware \in Concurrency
  /\ phase \in {"spawning", "running", "joining", "exited", "terminated"}
  /\ created \in 0 .. ThreadLimit
  /\ workers \in 0 .. created
  /\ signalled \in BOOLEAN
  /\ stopped \in BOOLEAN

MainInit ==
  /\ Init
  /\ hardware \in Concurrency
  /\ phase = "spawning"
  /\ created = 0
  /\ workers = 0
  /\ signalled = FALSE
  /\ stopped = FALSE
-----------------------------------------------------------------------------
\* threads - 1, in unsigned arithmetic.
Wanted == (hardware - 1) % Modulus

\* Some thread runs the handlers that are queued.
Running ==
  /\ ~ stopped
  /\ phase \in {"spawning", "running"}
  /\ workers > 0 \/ phase = "running"

\* A step of the coroutines, on any thread that runs the io_context.
OnThread(A) == Running /\ A /\ UNCHANGED mainVars

\* Mutation: only the coroutines keep the io_context running.
CoroutinesOnly == serving \/ relayUp \cup relayReading # {}

\* What there is to wait for: a signal, the coroutines of the server and of
\* relays.
Outstanding == ~ signalled \/ serving \/ relayUp \cup relayReading # {}

\* run() returns, or begins and returns at once.
RunReturns == stopped \/ ~ Outstanding

\* The process ends without another step of the coroutines.
End(how) ==
  /\ phase' = how
  /\ Stop
  /\ UNCHANGED <<hardware, created, workers, signalled, stopped>>

\* v.emplace_back
Spawn ==
  /\ phase = "spawning"
  /\ created < Wanted
  /\ created < ThreadLimit
  /\ created' = created + 1
  /\ workers' = workers + 1
  /\ UNCHANGED <<vars, hardware, phase, signalled, stopped>>

\* std::thread throws: the threads in v are joinable when it is destroyed,
\* which is std::terminate; with none in v, the exception is caught.
SpawnFails ==
  /\ phase = "spawning"
  /\ created < Wanted
  /\ created = ThreadLimit
  /\ End(IF created > 0 THEN "terminated" ELSE "exited")

\* v.reserve of a number that has wrapped may throw, before any thread exists.
ReserveFails ==
  /\ phase = "spawning"
  /\ hardware = 0
  /\ created = 0
  /\ End("exited")

\* The main thread calls run() as well.
MainRuns ==
  /\ phase = "spawning"
  /\ created = Wanted
  /\ phase' = "running"
  /\ UNCHANGED <<vars, hardware, created, workers, signalled, stopped>>

\* Mutation: the server is stopped and the io_context is not.
StopServerOnly == FALSE

\* io_context.stop()
StopContext == TRUE

\* The handler of SIGINT and SIGTERM, on any thread, also while main is still
\* creating threads. What stop() aborts is not run any more.
Signal ==
  /\ Running
  /\ ~ signalled
  /\ Stop
  /\ signalled' = TRUE
  /\ stopped' = StopContext
  /\ UNCHANGED <<hardware, phase, created, workers>>

WorkerReturns ==
  /\ phase # "terminated"
  /\ workers > 0
  /\ RunReturns
  /\ workers' = workers - 1
  /\ UNCHANGED <<vars, hardware, phase, created, signalled, stopped>>

MainReturns ==
  /\ phase = "running"
  /\ RunReturns
  /\ phase' = "joining"
  /\ UNCHANGED <<vars, hardware, created, workers, signalled, stopped>>

\* All threads joined: main returns.
Exit ==
  /\ phase = "joining"
  /\ workers = 0
  /\ phase' = "exited"
  /\ UNCHANGED <<vars, hardware, created, workers, signalled, stopped>>

MainNext ==
  \/ OnThread(Next)
  \/ Spawn
  \/ SpawnFails
  \/ ReserveFails
  \/ MainRuns
  \/ Signal
  \/ WorkerReturns
  \/ MainReturns
  \/ Exit

allVars == <<vars, mainVars>>

\* Threads that can go on do so, and so do the coroutines they run, as in
\* Server. No signal need come.
MainFairness ==
  /\ WF_allVars(Spawn)
  /\ WF_allVars(SpawnFails)
  /\ WF_allVars(MainRuns)
  /\ WF_allVars(WorkerReturns)
  /\ WF_allVars(MainReturns)
  /\ WF_allVars(Exit)
  /\ WF_allVars(OnThread(ReadRequest))
  /\ WF_allVars(OnThread(ReadData))
  /\ WF_allVars(OnThread(WriterReceives))
  /\ WF_allVars(OnThread(WriterSends))
  /\ \A r \in Relay : WF_allVars(OnThread(RelayWriterReceives(r)))
                      /\ WF_allVars(OnThread(RelayWriterSends(r)))

MainSpec == MainInit /\ [][MainNext]_allVars /\ MainFairness
-----------------------------------------------------------------------------
(***************************************************************************)
(* A process that got its threads exits after a signal, whenever it comes, *)
(* and whatever its coroutines wait for: relays that are never stopped, a  *)
(* reader that waits for ever for a relay, threads that are still being    *)
(* created.                                                                *)
(***************************************************************************)
ExitsOnSignal ==
  (hardware \in 1 .. ThreadLimit + 1 /\ signalled) ~> phase = "exited"

(***************************************************************************)
(* A process that got its threads ends at a signal only, and not through   *)
(* std::terminate, although all coroutines may have ended with errors      *)
(* before: the wait for a signal keeps run() from returning.               *)
(***************************************************************************)
EndsOnlyOnSignal ==
  hardware \in 1 .. ThreadLimit + 1 =>
    /\ phase # "terminated"
    /\ phase \in {"joining", "exited"} => signalled
=============================================================================
