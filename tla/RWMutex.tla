------------------------------- MODULE RWMutex -------------------------------
(***************************************************************************)
(* sync.RWMutex of the Go runtime, as the code uses it (external: modelled *)
(* from its documented behaviour).  Lock first announces the writer, which *)
(* keeps later readers out, and then waits for the readers inside to leave.*)
(***************************************************************************)
CONSTANTS
  Threads,    \* the goroutines that use the lock
  NoThread    \* no goroutine

VARIABLES
  readers,    \* the goroutines that hold the lock for reading
  writer      \* the goroutine that holds it, or waits for it, for writing

lockVars == <<readers, writer>>

LockInit == readers = {} /\ writer = NoThread

LockTypeOK == readers \subseteq Threads /\ writer \in Threads \cup {NoThread}

RLock(t) ==
  /\ writer = NoThread
  /\ readers' = readers \cup {t}
  /\ UNCHANGED writer

RUnlock(t) ==
  /\ readers' = readers \ {t}
  /\ UNCHANGED writer

Announce(t) ==
  /\ writer = NoThread
  /\ writer' = t
  /\ UNCHANGED readers

\* The announced writer is alone: Lock returns.
Drained(t) == writer = t /\ readers = {}

Unlock(t) ==
  /\ writer' = NoThread
  /\ UNCHANGED readers
=============================================================================
