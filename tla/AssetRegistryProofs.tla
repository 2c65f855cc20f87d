-------------------------- MODULE AssetRegistryProofs --------------------------
(***************************************************************************)
(* Proofs about AssetRegistry, for any goroutines, paths and ways to write *)
(* them.                                                                   *)
(***************************************************************************)
EXTENDS AssetRegistry, TLAPS

-----------------------------------------------------------------------------
\* A goroutine has a path while it obfuscates, and no reader is inside while
\* a writer is.
GoroutinesOK ==
  \A t \in Threads :
    /\ pc[t] \in Obfuscating => path[t] \in Paths
    /\ pc[t] \in LookingUp => uuid[t] \in Uuids
    /\ pc[t] \in Critical => readers = {}

\* Entries are only ever made of a path and its own UUID, and the reverse
\* map lacks at most the entry its writer is about to make.
EntriesOK ==
  /\ \A p \in DOMAIN pathToUuid : pathToUuid[p] = NewV5(p)
  /\ \A u \in DOMAIN uuidToPath : u = NewV5(uuidToPath[u]) /\ uuidToPath[u] \in DOMAIN pathToUuid
  /\ \A p \in DOMAIN pathToUuid :
       NewV5(p) \in DOMAIN uuidToPath \/ \E t \in Threads : pc[t] = "putUuid" /\ path[t] = p
  /\ \A t \in Threads : pc[t] = "putUuid" => path[t] \in DOMAIN pathToUuid

\* What was returned is there for good, also for who asked for it since.
ReturnedOK ==
  /\ returned \subseteq DOMAIN uuidToPath
  /\ \A t \in known :
       /\ pc[t] \in LookingUp /\ uuid[t] \in returned
       /\ pc[t] = "answered" => NewV5(found[t]) = uuid[t]

IInv == TypeOK /\ GoroutinesOK /\ EntriesOK /\ ReturnedOK

-----------------------------------------------------------------------------
\* Two paths do not share a UUID.
LEMMA NewV5Facts ==
  ASSUME NEW p \in Paths, NEW q \in Paths
  PROVE  NewV5(p) \in Uuids /\ (NewV5(p) = NewV5(q) => p = q)
BY DEF NewV5, Uuids

\* The types of the maps, as facts about their entries.
LEMMA MapTypes ==
  ASSUME TypeOK
  PROVE  /\ DOMAIN uuidToPath \subseteq Uuids /\ \A u \in DOMAIN uuidToPath : uuidToPath[u] \in Paths
         /\ DOMAIN pathToUuid \subseteq Paths /\ \A p \in DOMAIN pathToUuid : pathToUuid[p] \in Uuids
<1>1. PICK U \in SUBSET Uuids : uuidToPath \in [U -> Paths]
  BY DEF TypeOK
<1>2. PICK P \in SUBSET Paths : pathToUuid \in [P -> Uuids]
  BY DEF TypeOK
<1> QED
  BY <1>1, <1>2

LEMMA InitIInv == Init => IInv
<1> SUFFICES ASSUME Init
             PROVE  IInv
  OBVIOUS
<1>1. /\ uuidToPath \in [{} -> Paths] /\ pathToUuid \in [{} -> Uuids]
  BY DEF Init
<1>2. /\ uuidToPath \in UNION {[U -> Paths] : U \in SUBSET Uuids}
      /\ pathToUuid \in UNION {[P -> Uuids] : P \in SUBSET Paths}
  BY <1>1
<1>3. TypeOK
  BY <1>2, NoPathAssumption DEF Init, TypeOK, Mu!LockInit, Mu!LockTypeOK, Critical
<1> QED
  BY <1>1, <1>3
  DEF Init, IInv, GoroutinesOK, EntriesOK, ReturnedOK, Obfuscating, LookingUp, Critical

-----------------------------------------------------------------------------
(* Steps that change neither the maps nor what was returned, of a goroutine*)
(* that neither enters nor leaves the gap between the two assignments.     *)
LEMMA EntriesKept ==
  ASSUME IInv, NEW t \in Threads, NEW l, pc' = [pc EXCEPT ![t] = l],
         pc[t] # "putUuid", l # "putUuid",
         \A s \in Threads \ {t} : path'[s] = path[s],
         UNCHANGED maps
  PROVE  EntriesOK'
<1>1. \A s \in Threads : /\ pc'[s] = "putUuid" <=> pc[s] = "putUuid"
                         /\ pc[s] = "putUuid" => path'[s] = path[s]
  BY DEF IInv, TypeOK
<1> QED
  BY <1>1 DEF IInv, EntriesOK, maps

LEMMA ReturnedKept ==
  ASSUME IInv, NEW t \in Threads, NEW l, pc' = [pc EXCEPT ![t] = l],
         pc[t] \notin LookingUp,
         UNCHANGED <<maps, uuid, found, returned, known>>
  PROVE  ReturnedOK'
BY DEF IInv, TypeOK, ReturnedOK, maps

(* The steps of Obfuscate that only move on or change the lock.            *)
LEMMA ObfuscateMovesKeep ==
  ASSUME IInv, NEW t \in Threads,
         \/ \E raw \in RawPaths : ObfuscateCall(t, raw)
         \/ ObfuscateRLock(t) \/ ObfuscateLock(t) \/ ObfuscateLocked(t)
  PROVE  IInv'
<1> USE DEF IInv, Goto, locals
<1>1. PICK l \in {"rlock", "check", "drain", "recheck"} : pc' = [pc EXCEPT ![t] = l]
  BY DEF ObfuscateCall, ObfuscateRLock, ObfuscateLock, ObfuscateLocked
<1>2. /\ pc[t] \notin LookingUp /\ pc[t] # "putUuid"
      /\ \A s \in Threads \ {t} : path'[s] = path[s]
      /\ UNCHANGED <<maps, uuid, found, returned, known>>
  BY DEF ObfuscateCall, ObfuscateRLock, ObfuscateLock, ObfuscateLocked, LookingUp, TypeOK
<1>3. EntriesOK' /\ ReturnedOK'
  BY <1>1, <1>2, EntriesKept, ReturnedKept
<1>4. TypeOK' /\ GoroutinesOK'
  <2> USE DEF TypeOK, GoroutinesOK, Mu!LockTypeOK, Critical, Obfuscating, LookingUp, maps
  <2>1. ASSUME NEW raw \in RawPaths, ObfuscateCall(t, raw)
        PROVE  TypeOK' /\ GoroutinesOK'
    BY <2>1, CleanAssumption, NoPathAssumption DEF ObfuscateCall
  <2>2. CASE ObfuscateRLock(t)
    BY <2>2, NoPathAssumption DEF ObfuscateRLock, Mu!RLock
  <2>3. CASE ObfuscateLock(t)
    <3>1. /\ \A s \in Threads \ {t} : pc'[s] = pc[s]
          /\ pc[t] \in {"lock", "drain"} /\ pc'[t] \in {"drain", "recheck"}
      BY <2>3 DEF ObfuscateLock
    <3>2. readers' = readers /\ readers' = {s \in Threads : pc'[s] \in {"check", "read"}}
      BY <2>3, <3>1 DEF ObfuscateLock, Mu!Announce
    <3>3. \A s \in Threads : pc'[s] \in {"drain"} \cup Critical <=> writer' = s
      BY <2>3, <3>1, NoPathAssumption DEF ObfuscateLock, Mu!Announce
    <3>4. TypeOK'
      BY <2>3, <3>2, <3>3 DEF ObfuscateLock, Mu!Announce
    <3>5. GoroutinesOK'
      BY <2>3, <3>1, <3>2 DEF ObfuscateLock, Mu!Announce
    <3> QED
      BY <3>4, <3>5
  <2>4. CASE ObfuscateLocked(t)
    <3>1. /\ \A s \in Threads \ {t} : pc'[s] = pc[s]
          /\ pc[t] \in {"lock", "drain"} /\ pc'[t] \in {"drain", "recheck"}
      BY <2>4 DEF ObfuscateLocked
    <3>2. readers' = readers /\ readers' = {s \in Threads : pc'[s] \in {"check", "read"}}
      BY <2>4, <3>1 DEF ObfuscateLocked, Mu!Drained
    <3>3. \A s \in Threads : pc'[s] \in {"drain"} \cup Critical <=> writer' = s
      BY <2>4, <3>1, NoPathAssumption DEF ObfuscateLocked, Mu!Drained
    <3>4. TypeOK'
      BY <2>4, <3>2, <3>3 DEF ObfuscateLocked, Mu!Drained
    <3>5. GoroutinesOK'
      BY <2>4, <3>1, <3>2 DEF ObfuscateLocked, Mu!Drained
    <3> QED
      BY <3>4, <3>5
  <2> QED
    BY <2>1, <2>2, <2>3, <2>4
<1> QED
  BY <1>3, <1>4

(* ObfuscateCheck and ObfuscateRecheck: an entry that is found under a     *)
(* lock is complete, because nobody is between the two assignments.        *)
LEMMA CompleteEntries ==
  ASSUME IInv, NEW t \in Threads, pc[t] \in {"check", "read", "recheck"}
  PROVE  /\ \A s \in Threads : pc[s] # "putUuid"
         /\ \A p \in DOMAIN pathToUuid : NewV5(p) \in DOMAIN uuidToPath
         /\ \A p \in DOMAIN pathToUuid : pathToUuid[p] \in DOMAIN uuidToPath
<1>1. \A s \in Threads : pc[s] # "putUuid"
  BY NoPathAssumption DEF IInv, TypeOK, GoroutinesOK, Critical
<1> QED
  BY <1>1 DEF IInv, EntriesOK

LEMMA ObfuscateChecksKeep ==
  ASSUME IInv, NEW t \in Threads, ObfuscateCheck(t) \/ ObfuscateRecheck(t)
  PROVE  IInv'
<1> USE DEF IInv, Goto, locals, ObfuscateReturn
<1>1. PICK l \in {"idle", "lock", "putPath"} : pc' = [pc EXCEPT ![t] = l]
  BY DEF ObfuscateCheck, ObfuscateRecheck
<1>2. /\ pc[t] \in {"check", "recheck"}
      /\ \A s \in Threads \ {t} : pc'[s] = pc[s] /\ path'[s] = path[s]
      /\ path' \in [Threads -> Paths \cup {NoPath}]
      /\ path[t] \in Paths /\ (l # "idle" => path'[t] \in Paths)
      /\ UNCHANGED <<maps, uuid, found, known>>
  BY <1>1
  DEF ObfuscateCheck, ObfuscateRecheck, TypeOK, GoroutinesOK, Obfuscating, Critical, maps
<1>3. EntriesOK'
  BY <1>1, <1>2, EntriesKept
<1>4. returned' \subseteq DOMAIN uuidToPath /\ returned \subseteq returned'
  BY <1>2, CompleteEntries DEF ObfuscateCheck, ObfuscateRecheck, ReturnedOK
<1>5. ReturnedOK'
  BY <1>1, <1>2, <1>4 DEF ReturnedOK, LookingUp, maps, TypeOK
<1>6. /\ readers' = {s \in Threads : pc'[s] \in {"check", "read"}}
      /\ readers' \subseteq readers
      /\ \A s \in Threads : pc'[s] \in {"drain"} \cup Critical <=> writer' = s
      /\ writer' \in Threads \cup {NoThread}
  <2>1. CASE ObfuscateCheck(t)
    BY <1>1, <1>2, <2>1, NoPathAssumption
    DEF ObfuscateCheck, Mu!RUnlock, TypeOK, Critical, Mu!LockTypeOK
  <2>2. CASE ObfuscateRecheck(t)
    BY <1>1, <1>2, <2>2, NoPathAssumption
    DEF ObfuscateRecheck, Mu!Unlock, TypeOK, Critical, Mu!LockTypeOK
  <2> QED
    BY <2>1, <2>2
<1>7. GoroutinesOK'
  <2>1. pc[t] = "check" => l # "putPath"
    BY <1>1, <1>2 DEF ObfuscateCheck, ObfuscateRecheck, TypeOK
  <2> QED
    BY <1>1, <1>2, <1>6, <2>1
    DEF TypeOK, GoroutinesOK, Obfuscating, LookingUp, Critical, maps
<1>8. TypeOK'
  <2>1. returned' \subseteq Uuids
    BY <1>4, MapTypes
  <2>2. pc' \in [Threads -> {"idle"} \cup Obfuscating \cup LookingUp]
    BY <1>1 DEF TypeOK, Obfuscating, Critical
  <2> QED
    BY <1>2, <1>6, <2>1, <2>2 DEF TypeOK, Mu!LockTypeOK, maps
<1> QED
  BY <1>3, <1>5, <1>7, <1>8

(* The two assignments.  Only one goroutine is in the critical section.    *)
LEMMA ObfuscatePutPathKeeps ==
  ASSUME IInv, NEW t \in Threads, ObfuscatePutPath(t)
  PROVE  IInv'
<1> USE DEF IInv, Goto, locals
<1>1. /\ pc[t] = "putPath" /\ pc' = [pc EXCEPT ![t] = "putUuid"]
      /\ path[t] \in Paths /\ NewV5(path[t]) \in Uuids
      /\ UNCHANGED <<uuidToPath, readers, writer, locals>>
  BY NewV5Facts
  DEF ObfuscatePutPath, TypeOK, GoroutinesOK, Obfuscating, Critical
<1>2. /\ pathToUuid' \in UNION {[P -> Uuids] : P \in SUBSET Paths}
      /\ DOMAIN pathToUuid' = DOMAIN pathToUuid \cup {path[t]}
      /\ pathToUuid'[path[t]] = NewV5(path[t])
      /\ \A p \in DOMAIN pathToUuid \ {path[t]} : pathToUuid'[p] = pathToUuid[p]
  <2>1. PICK P \in SUBSET Paths : pathToUuid \in [P -> Uuids]
    BY DEF TypeOK
  <2>2. pathToUuid' = Put(pathToUuid, path[t], NewV5(path[t]))
    BY DEF ObfuscatePutPath
  <2>3. pathToUuid' \in [P \cup {path[t]} -> Uuids]
    BY <1>1, <2>1, <2>2 DEF Put
  <2>4. pathToUuid' \in UNION {[Q -> Uuids] : Q \in SUBSET Paths}
    BY <1>1, <2>1, <2>3
  <2>5. pathToUuid'[path[t]] = NewV5(path[t])
    BY <1>1, <2>1, <2>2 DEF Put
  <2>6. \A z \in P \ {path[t]} : pathToUuid'[z] = pathToUuid[z]
    BY <1>1, <2>1, <2>2 DEF Put
  <2>7. DOMAIN pathToUuid = P /\ DOMAIN pathToUuid' = P \cup {path[t]}
    BY <2>1, <2>3
  <2> QED
    BY <2>4, <2>5, <2>6, <2>7
<1>3. TypeOK' /\ GoroutinesOK'
  BY <1>1, <1>2
  DEF TypeOK, GoroutinesOK, Obfuscating, LookingUp, Critical, Mu!LockTypeOK
<1>4. EntriesOK'
  BY <1>1, <1>2 DEF TypeOK, EntriesOK
<1>5. ReturnedOK'
  BY <1>1 DEF TypeOK, ReturnedOK, LookingUp
<1> QED
  BY <1>3, <1>4, <1>5

LEMMA ObfuscatePutUuidKeeps ==
  ASSUME IInv, NEW t \in Threads, ObfuscatePutUuid(t)
  PROVE  IInv'
<1> USE DEF IInv, Goto, ObfuscateReturn
<1>1. /\ pc[t] = "putUuid" /\ pc' = [pc EXCEPT ![t] = "idle"]
      /\ path[t] \in Paths /\ NewV5(path[t]) \in Uuids
      /\ path' = [path EXCEPT ![t] = NoPath]
      /\ writer = t /\ \A s \in Threads \ {t} : pc[s] \notin {"drain"} \cup Critical
      /\ UNCHANGED <<pathToUuid, uuid, found, known, readers>>
      /\ writer' = NoThread
      /\ returned' = returned \cup {NewV5(path[t])}
  BY NewV5Facts
  DEF ObfuscatePutUuid, TypeOK, GoroutinesOK, Obfuscating, Critical, Mu!Unlock
<1>2. /\ uuidToPath' \in UNION {[U -> Paths] : U \in SUBSET Uuids}
      /\ DOMAIN uuidToPath' = DOMAIN uuidToPath \cup {NewV5(path[t])}
      /\ uuidToPath'[NewV5(path[t])] = path[t]
      /\ \A u \in DOMAIN uuidToPath \ {NewV5(path[t])} : uuidToPath'[u] = uuidToPath[u]
  <2>1. PICK U \in SUBSET Uuids : uuidToPath \in [U -> Paths]
    BY DEF TypeOK
  <2>2. uuidToPath' = Put(uuidToPath, NewV5(path[t]), path[t])
    BY DEF ObfuscatePutUuid
  <2>3. uuidToPath' \in [U \cup {NewV5(path[t])} -> Paths]
    BY <1>1, <2>1, <2>2 DEF Put
  <2>4. uuidToPath' \in UNION {[V -> Paths] : V \in SUBSET Uuids}
    BY <1>1, <2>1, <2>3
  <2>5. uuidToPath'[NewV5(path[t])] = path[t]
    BY <1>1, <2>1, <2>2 DEF Put
  <2>6. \A z \in U \ {NewV5(path[t])} : uuidToPath'[z] = uuidToPath[z]
    BY <1>1, <2>1, <2>2 DEF Put
  <2>7. DOMAIN uuidToPath = U /\ DOMAIN uuidToPath' = U \cup {NewV5(path[t])}
    BY <2>1, <2>3
  <2> QED
    BY <2>4, <2>5, <2>6, <2>7
<1>3. TypeOK'
  <2>1. readers' = {s \in Threads : pc'[s] \in {"check", "read"}}
    BY <1>1 DEF TypeOK
  <2>2. \A s \in Threads : pc'[s] \in {"drain"} \cup Critical <=> writer' = s
    BY <1>1, NoPathAssumption DEF TypeOK, Critical
  <2> QED
    BY <1>1, <1>2, <2>1, <2>2 DEF TypeOK, Mu!LockTypeOK
<1>4. GoroutinesOK'
  BY <1>1 DEF TypeOK, GoroutinesOK, Obfuscating, LookingUp, Critical
<1>5. EntriesOK'
  BY <1>1, <1>2 DEF TypeOK, EntriesOK, Critical
<1>6. ReturnedOK'
  BY <1>1, <1>2 DEF TypeOK, ReturnedOK, LookingUp
<1> QED
  BY <1>3, <1>4, <1>5, <1>6

(* The lookups.                                                            *)
LEMMA LookupKeeps ==
  ASSUME IInv, NEW t \in Threads,
         \/ \E u \in Uuids : LookupCall(t, u)
         \/ LookupRLock(t) \/ LookupRead(t) \/ LookupReturn(t)
  PROVE  IInv'
<1> USE DEF IInv, Goto, locals
<1>1. PICK l \in {"lookup", "read", "answered", "idle"} : pc' = [pc EXCEPT ![t] = l]
  BY DEF LookupCall, LookupRLock, LookupRead, LookupReturn
<1>2. EntriesOK'
  <2>1. /\ pc[t] # "putUuid"
        /\ \A s \in Threads \ {t} : path'[s] = path[s]
        /\ UNCHANGED maps
    BY DEF LookupCall, LookupRLock, LookupRead, LookupReturn
  <2> QED
    BY <1>1, <2>1, EntriesKept
<1>3. TypeOK' /\ GoroutinesOK'
  <2> USE DEF TypeOK, GoroutinesOK, Mu!LockTypeOK, Critical, Obfuscating, LookingUp, maps
  <2>1. ASSUME NEW u \in Uuids, LookupCall(t, u)
        PROVE  TypeOK' /\ GoroutinesOK'
    BY <2>1 DEF LookupCall
  <2>2. CASE LookupRLock(t)
    BY <2>2, NoPathAssumption DEF LookupRLock, Mu!RLock
  <2>3. CASE LookupRead(t)
    BY <2>3, MapTypes DEF LookupRead, Mu!RUnlock
  <2>4. CASE LookupReturn(t)
    BY <2>4 DEF LookupReturn
  <2> QED
    BY <2>1, <2>2, <2>3, <2>4
<1>4. ReturnedOK'
  <2> USE DEF TypeOK, ReturnedOK, LookingUp, maps
  <2>1. ASSUME NEW u \in Uuids, LookupCall(t, u)
        PROVE  ReturnedOK'
    BY <2>1 DEF LookupCall
  <2>2. CASE LookupRLock(t)
    BY <2>2 DEF LookupRLock
  <2>3. CASE LookupRead(t)
    BY <2>3 DEF LookupRead, EntriesOK
  <2>4. CASE LookupReturn(t)
    BY <2>4 DEF LookupReturn
  <2> QED
    BY <2>1, <2>2, <2>3, <2>4
<1> QED
  BY <1>2, <1>3, <1>4

LEMMA StepIInv == IInv /\ [Next]_vars => IInv'
<1> SUFFICES ASSUME IInv, [Next]_vars
             PROVE  IInv'
  OBVIOUS
<1>1. CASE UNCHANGED vars
  BY <1>1
  DEF vars, maps, IInv, TypeOK, GoroutinesOK, EntriesOK, ReturnedOK, Mu!LockTypeOK
<1> QED
  BY <1>1, ObfuscateMovesKeep, ObfuscateChecksKeep, ObfuscatePutPathKeeps,
     ObfuscatePutUuidKeeps, LookupKeeps
  DEF Next, Acquire, Proceed

-----------------------------------------------------------------------------
(* The entries, the lock and the goroutines fit together at every moment.  *)
THEOREM Inductive == Spec => []IInv
<1>1. Init => IInv
  BY InitIInv
<1>2. IInv /\ [Next]_vars => IInv'
  BY StepIInv
<1> QED
  BY <1>1, <1>2, PTL DEF Spec

(* A goroutine holds the lock exactly in its reads and its critical section. *)
THEOREM TypeCorrect == Spec => []TypeOK
<1>1. IInv => TypeOK
  BY DEF IInv
<1> QED
  BY <1>1, Inductive, PTL

LEMMA MapsFromInv == IInv => MapsAgree
<1> SUFFICES ASSUME IInv, \A t \in Threads : pc[t] # "putUuid"
             PROVE  /\ Range(pathToUuid) = DOMAIN uuidToPath
                    /\ \A p \in DOMAIN pathToUuid : uuidToPath[pathToUuid[p]] = p
  BY DEF MapsAgree
<1>1. \A p \in DOMAIN pathToUuid : pathToUuid[p] \in DOMAIN uuidToPath
  BY DEF IInv, EntriesOK
<1>2. \A u \in DOMAIN uuidToPath : u = pathToUuid[uuidToPath[u]] /\ uuidToPath[u] \in DOMAIN pathToUuid
  BY DEF IInv, EntriesOK
<1>3. Range(pathToUuid) = DOMAIN uuidToPath
  BY <1>1, <1>2 DEF Range
<1>4. \A p \in DOMAIN pathToUuid : uuidToPath[pathToUuid[p]] = p
  BY <1>1, MapTypes, NewV5Facts DEF IInv, EntriesOK
<1> QED
  BY <1>3, <1>4

(* The maps are each other's inverse outside the two assignments.          *)
THEOREM MapsInverse == Spec => []MapsAgree
BY MapsFromInv, Inductive, PTL

(* No reader is inside while a goroutine is in the critical section.       *)
THEOREM WholeEntries == Spec => []ReadersSeeWholeEntries
<1>1. IInv => ReadersSeeWholeEntries
  BY DEF IInv, TypeOK, GoroutinesOK, ReadersSeeWholeEntries
<1> QED
  BY <1>1, Inductive, PTL

(* A UUID that was returned before a lookup began is found by it.          *)
THEOREM Resolves == Spec => []ReturnedIdResolves
<1>1. IInv => ReturnedIdResolves
  BY DEF IInv, ReturnedOK, ReturnedIdResolves
<1> QED
  BY <1>1, Inductive, PTL
=============================================================================
