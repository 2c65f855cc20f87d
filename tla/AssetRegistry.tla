---------------------------- MODULE AssetRegistry ----------------------------
(***************************************************************************)
(* The registry of images of internal/content/assets.go: AssetManager.     *)
(* Rendering a post calls Obfuscate for each local image, which gives the  *)
(* image's path a UUID and remembers both directions in two maps; the      *)
(* asset handler finds the path again with GetRelativePath and Retrieve.   *)
(* Both are called by concurrent requests, and Obfuscate checks under the  *)
(* read lock, computes, and checks again under the write lock.             *)
(*                                                                         *)
(* A UUID is UUIDv5 of the namespace and the cleaned path: a function of   *)
(* the path, taken to be injective (SHA-1 does not collide).               *)
(*                                                                         *)
(* A definition whose name has a suffix _Mutant... is a plausible slip; no *)
(* action uses it.                                                         *)
(***************************************************************************)
EXTENDS Functions

CONSTANTS
  Threads,    \* the request goroutines
  NoThread,   \* no goroutine
  RawPaths,   \* image paths as they are written in posts
  Paths,      \* cleaned paths
  Clean,      \* filepath.Clean, a function from RawPaths to Paths
  NoPath      \* no path: an error is returned

ASSUME CleanAssumption == Clean \in [RawPaths -> Paths]
ASSUME NoPathAssumption == NoPath \notin Paths /\ NoThread \notin Threads

VARIABLES
  uuidToPath, \* AssetManager.uuidToPath, a function on the known UUIDs
  pathToUuid, \* AssetManager.pathToUuid, a function on the known paths
  readers,    \* the RWMutex mu: who reads
  writer,     \*   and who writes, or waits to
  pc,         \* where each goroutine is in Obfuscate or in a lookup
  path,       \* the cleaned path a goroutine obfuscates
  uuid,       \* the UUID a goroutine looks up
  found,      \* what its last lookup returned
  returned,   \* history: the UUIDs Obfuscate has returned
  known       \* history: the goroutines whose lookup began after that

vars == <<uuidToPath, pathToUuid, readers, writer, pc, path, uuid, found, returned, known>>
maps == <<uuidToPath, pathToUuid>>
locals == <<path, uuid, found, returned, known>>

Mu == INSTANCE RWMutex

NewV5(p) == <<"v5", p>>
Uuids == {NewV5(p) : p \in Paths}

Put(f, x, y) == [z \in DOMAIN f \cup {x} |-> IF z = x THEN y ELSE f[z]]

Goto(t, l) == pc' = [pc EXCEPT ![t] = l]

Init ==
  /\ uuidToPath = [u \in {} |-> NoPath]
  /\ pathToUuid = [p \in {} |-> NoPath]
  /\ Mu!LockInit
  /\ pc = [t \in Threads |-> "idle"]
  /\ path = [t \in Threads |-> NoPath]
  /\ uuid = [t \in Threads |-> NoPath]
  /\ found = [t \in Threads |-> NoPath]
  /\ returned = {}
  /\ known = {}

-----------------------------------------------------------------------------
(* Obfuscate.  The empty path is refused before anything happens.          *)

ObfuscateCall(t, raw) ==
  /\ pc[t] = "idle"
  /\ path' = [path EXCEPT ![t] = Clean[raw]]
  /\ Goto(t, "rlock")
  /\ UNCHANGED <<maps, readers, writer, uuid, found, returned, known>>

ObfuscateRLock(t) ==
  /\ pc[t] = "rlock"
  /\ Mu!RLock(t)
  /\ Goto(t, "check")
  /\ UNCHANGED <<maps, locals>>

ObfuscateReturn(t, u) ==
  /\ returned' = returned \cup {u}
  /\ path' = [path EXCEPT ![t] = NoPath]
  /\ Goto(t, "idle")
  /\ UNCHANGED <<uuid, found, known>>

\* Slip: the first check's early return keeps the read lock.
ObfuscateCheck_MutantNoRUnlock(t) ==
  /\ pc[t] = "check"
  /\ IF path[t] \in DOMAIN pathToUuid
       THEN ObfuscateReturn(t, pathToUuid[path[t]]) /\ UNCHANGED <<readers, writer>>
       ELSE Goto(t, "lock") /\ Mu!RUnlock(t) /\ UNCHANGED locals
  /\ UNCHANGED maps

\* The check under the read lock, which is released in both cases.
ObfuscateCheck(t) ==
  /\ pc[t] = "check"
  /\ IF path[t] \in DOMAIN pathToUuid
       THEN ObfuscateReturn(t, pathToUuid[path[t]])
       ELSE Goto(t, "lock") /\ UNCHANGED locals
  /\ Mu!RUnlock(t)
  /\ UNCHANGED maps

\* Slip: the lock is taken for reading, which keeps no reader out.
ObfuscateLock_MutantShared(t) ==
  /\ pc[t] = "lock"
  /\ Mu!RLock(t)
  /\ Goto(t, "recheck")
  /\ UNCHANGED <<maps, locals>>

ObfuscateLock(t) ==
  /\ pc[t] = "lock"
  /\ Mu!Announce(t)
  /\ Goto(t, "drain")
  /\ UNCHANGED <<maps, locals>>

ObfuscateLocked(t) ==
  /\ pc[t] = "drain"
  /\ Mu!Drained(t)
  /\ Goto(t, "recheck")
  /\ UNCHANGED <<maps, readers, writer, locals>>

\* Slip: an early return of the second check without its deferred Unlock.
ObfuscateRecheck_MutantNoUnlock(t) ==
  /\ pc[t] = "recheck"
  /\ IF path[t] \in DOMAIN pathToUuid
       THEN ObfuscateReturn(t, pathToUuid[path[t]])
       ELSE Goto(t, "putPath") /\ UNCHANGED locals
  /\ UNCHANGED <<maps, readers, writer>>

\* The second check, under the write lock.
ObfuscateRecheck(t) ==
  /\ pc[t] = "recheck"
  /\ IF path[t] \in DOMAIN pathToUuid
       THEN ObfuscateReturn(t, pathToUuid[path[t]]) /\ Mu!Unlock(t)
       ELSE Goto(t, "putPath") /\ UNCHANGED <<readers, writer, locals>>
  /\ UNCHANGED maps

ObfuscatePutPath(t) ==
  /\ pc[t] = "putPath"
  /\ pathToUuid' = Put(pathToUuid, path[t], NewV5(path[t]))
  /\ Goto(t, "putUuid")
  /\ UNCHANGED <<uuidToPath, readers, writer, locals>>

\* Slip: the entry of the reverse map is forgotten.
ObfuscatePutUuid_MutantForgotten(t) ==
  /\ pc[t] = "putUuid"
  /\ ObfuscateReturn(t, NewV5(path[t]))
  /\ Mu!Unlock(t)
  /\ UNCHANGED maps

ObfuscatePutUuid(t) ==
  /\ pc[t] = "putUuid"
  /\ uuidToPath' = Put(uuidToPath, NewV5(path[t]), path[t])
  /\ ObfuscateReturn(t, NewV5(path[t]))
  /\ Mu!Unlock(t)
  /\ UNCHANGED pathToUuid

-----------------------------------------------------------------------------
(* GetRelativePath and the lookup of Retrieve (the nil UUID is refused     *)
(* before anything happens).  A client may ask for any UUID.               *)

LookupCall(t, u) ==
  /\ pc[t] = "idle"
  /\ uuid' = [uuid EXCEPT ![t] = u]
  /\ known' = IF u \in returned THEN known \cup {t} ELSE known
  /\ Goto(t, "lookup")
  /\ UNCHANGED <<maps, readers, writer, path, found, returned>>

LookupRLock(t) ==
  /\ pc[t] = "lookup"
  /\ Mu!RLock(t)
  /\ Goto(t, "read")
  /\ UNCHANGED <<maps, locals>>

LookupRead(t) ==
  /\ pc[t] = "read"
  /\ found' = [found EXCEPT ![t] =
                 IF uuid[t] \in DOMAIN uuidToPath THEN uuidToPath[uuid[t]] ELSE NoPath]
  /\ Goto(t, "answered")
  /\ Mu!RUnlock(t)
  /\ UNCHANGED <<maps, path, uuid, returned, known>>

LookupReturn(t) ==
  /\ pc[t] = "answered"
  /\ uuid' = [uuid EXCEPT ![t] = NoPath]
  /\ found' = [found EXCEPT ![t] = NoPath]
  /\ known' = known \ {t}
  /\ Goto(t, "idle")
  /\ UNCHANGED <<maps, readers, writer, path, returned>>

-----------------------------------------------------------------------------
Acquire(t) == ObfuscateRLock(t) \/ ObfuscateLock(t) \/ LookupRLock(t)

Proceed(t) ==
  \/ ObfuscateCheck(t) \/ ObfuscateLocked(t) \/ ObfuscateRecheck(t)
  \/ ObfuscatePutPath(t) \/ ObfuscatePutUuid(t) \/ LookupRead(t) \/ LookupReturn(t)

Next ==
  \E t \in Threads :
    \/ \E raw \in RawPaths : ObfuscateCall(t, raw)
    \/ \E u \in Uuids : LookupCall(t, u)
    \/ Acquire(t)
    \/ Proceed(t)

(* A goroutine that can run does.  sync.RWMutex lets the readers a writer  *)
(* kept out in before the next writer, and sync.Mutex, which orders the    *)
(* writers, hands over to one that has waited long: strong fairness.       *)
Fairness == \A t \in Threads : SF_vars(Acquire(t)) /\ WF_vars(Proceed(t))

Spec == Init /\ [][Next]_vars /\ Fairness

-----------------------------------------------------------------------------
(* Properties.                                                             *)

Critical == {"recheck", "putPath", "putUuid"}
Obfuscating == {"rlock", "check", "lock", "drain"} \cup Critical
LookingUp == {"lookup", "read", "answered"}

\* Types, and who holds the lock: readers in their two reads, a writer from
\* its announcement to the end of the critical section.
TypeOK ==
  /\ uuidToPath \in UNION {[U -> Paths] : U \in SUBSET Uuids}
  /\ pathToUuid \in UNION {[P -> Uuids] : P \in SUBSET Paths}
  /\ Mu!LockTypeOK
  /\ readers = {t \in Threads : pc[t] \in {"check", "read"}}
  /\ \A t \in Threads : pc[t] \in {"drain"} \cup Critical <=> writer = t
  /\ pc \in [Threads -> {"idle"} \cup Obfuscating \cup LookingUp]
  /\ path \in [Threads -> Paths \cup {NoPath}]
  /\ uuid \in [Threads -> Uuids \cup {NoPath}]
  /\ found \in [Threads -> Paths \cup {NoPath}]
  /\ returned \subseteq Uuids
  /\ known \subseteq Threads

(* The two maps are each other's inverse whenever no goroutine is between  *)
(* the two assignments of Obfuscate, however many obfuscate the same path  *)
(* at the same time.                                                       *)
MapsAgree ==
  (\A t \in Threads : pc[t] # "putUuid") =>
    /\ Range(pathToUuid) = DOMAIN uuidToPath
    /\ \A p \in DOMAIN pathToUuid : uuidToPath[pathToUuid[p]] = p

(* A reader never meets the maps between the two assignments: the read     *)
(* lock is held only while no goroutine is in the critical section.        *)
ReadersSeeWholeEntries ==
  \A t \in Threads : pc[t] \in {"check", "read"} =>
    \A s \in Threads : pc[s] \notin Critical

(* The URL a page was given works: a lookup that begins after Obfuscate    *)
(* returned the UUID finds that UUID's path.                               *)
ReturnedIdResolves ==
  \A t \in known : pc[t] = "answered" => NewV5(found[t]) = uuid[t]

(* No call is left waiting for the lock for ever.                          *)
CallsReturn == \A t \in Threads : pc[t] # "idle" ~> pc[t] = "idle"
=============================================================================
