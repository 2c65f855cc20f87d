---------------------------- MODULE PostCacheProofs ----------------------------
(***************************************************************************)
(* Theorems about PostCache, for any number of goroutines, any post and    *)
(* any other posts rendered beside it.                                     *)
(*                                                                         *)
(* Each step of PostCache is a step of AssetRegistry or leaves it alone,   *)
(* so its invariant IInv holds here too.  CInv adds that a goroutine past  *)
(* Lock is alone with the post, that it only loads what is missing, and    *)
(* that each image its walk has passed was given a UUID the registry       *)
(* knows, but for the one whose call of Obfuscate still runs.              *)
(***************************************************************************)
EXTENDS PostCache, AssetRegistryProofs, SequenceTheorems

\* The page names image i by a UUID that was returned.
Returned(i) == PostImages[i] \in RawPaths /\ NewV5(Clean[PostImages[i]]) \in returned

\* Goroutine t is in the call of Obfuscate for image i.
Asking(t, i) ==
  /\ i = image[t] - 1 /\ PostImages[i] \in RawPaths
  /\ pc[t] \in Obfuscating /\ path[t] = Clean[PostImages[i]]

Alone == \A t \in Threads : cpc[t] \in {"recheck"} \cup Loading => preaders = {}
LoadsMissing == \A t \in Threads : cpc[t] \in Loading => content = NoContent
WalkOK ==
  \A t \in Threads : cpc[t] = "render" =>
    /\ pc[t] \in {"idle"} \cup Obfuscating
    /\ \A i \in 1..(image[t] - 1) : Returned(i) \/ Asking(t, i)
ContentOK == content # NoContent => \A i \in 1..content : Returned(i)

CInv == IInv /\ CacheTypeOK /\ Alone /\ LoadsMissing /\ WalkOK /\ ContentOK

-----------------------------------------------------------------------------
(* The registry's steps.                                                   *)

LEMMA ImageTypes ==
  ASSUME NEW i \in 1..Len(PostImages), PostImages[i] # NoPath
  PROVE  PostImages[i] \in RawPaths /\ Clean[PostImages[i]] \in Paths
BY PostImagesAssumption, CleanAssumption, ElementOfSeq

(* The calls of the registry's goroutines: others stay where they are, and *)
(* an Obfuscate goes on with its path or returns the path's UUID.          *)
LEMMA RegistryMoves ==
  ASSUME IInv, NEW t \in Threads, Acquire(t) \/ Proceed(t)
  PROVE  /\ Next /\ pc[t] # "idle" /\ returned \subseteq returned'
         /\ \A s \in Threads \ {t} : pc'[s] = pc[s] /\ path'[s] = path[s]
         /\ pc[t] \in Obfuscating =>
              \/ pc'[t] \in Obfuscating /\ path'[t] = path[t]
              \/ pc'[t] = "idle" /\ NewV5(path[t]) \in returned'
<1> USE DEF Goto, locals, ObfuscateReturn
<1>1. pc \in [Threads -> {"idle"} \cup Obfuscating \cup LookingUp] /\ path \in [Threads -> Paths \cup {NoPath}]
  BY DEF IInv, TypeOK
<1>2. Next
  BY DEF Next
<1>3. CASE ObfuscateRLock(t) \/ ObfuscateLock(t) \/ ObfuscateLocked(t) \/ ObfuscatePutPath(t)
  BY <1>1, <1>2, <1>3
  DEF ObfuscateRLock, ObfuscateLock, ObfuscateLocked, ObfuscatePutPath, Obfuscating, Critical
<1>4. CASE LookupRLock(t) \/ LookupRead(t) \/ LookupReturn(t)
  BY <1>1, <1>2, <1>4
  DEF LookupRLock, LookupRead, LookupReturn, Obfuscating, Critical
<1>5. CASE ObfuscateCheck(t) \/ ObfuscateRecheck(t)
  <2>1. \A p \in DOMAIN pathToUuid : pathToUuid[p] = NewV5(p)
    BY DEF IInv, EntriesOK
  <2> QED BY <1>1, <1>2, <1>5, <2>1 DEF ObfuscateCheck, ObfuscateRecheck, Obfuscating, Critical
<1>6. CASE ObfuscatePutUuid(t)
  BY <1>1, <1>2, <1>6 DEF ObfuscatePutUuid, Obfuscating, Critical
<1> QED BY <1>3, <1>4, <1>5, <1>6 DEF Acquire, Proceed

LEMMA RegistryKeeps ==
  ASSUME CInv, NEW t \in Threads, Acquire(t) \/ Proceed(t), UNCHANGED cacheVars
  PROVE  CInv'
<1>1. /\ Next /\ pc[t] # "idle" /\ returned \subseteq returned'
      /\ \A s \in Threads \ {t} : pc'[s] = pc[s] /\ path'[s] = path[s]
      /\ pc[t] \in Obfuscating =>
           \/ pc'[t] \in Obfuscating /\ path'[t] = path[t]
           \/ pc'[t] = "idle" /\ NewV5(path[t]) \in returned'
  BY RegistryMoves DEF CInv
<1>2. IInv'
  BY <1>1, StepIInv DEF CInv
<1>3. CacheTypeOK'
  <2>1. cpc[t] \in {"idle", "render"}
    BY <1>1 DEF CInv, CacheTypeOK
  <2> QED BY <1>1, <2>1 DEF CInv, CacheTypeOK, cacheVars, PMu!LockTypeOK
<1>4. Alone' /\ LoadsMissing'
  BY DEF CInv, Alone, LoadsMissing, cacheVars
<1>5. ContentOK'
  BY <1>1 DEF CInv, ContentOK, Returned, cacheVars
<1>6. ASSUME NEW s \in Threads, cpc[s] = "render"
      PROVE  /\ pc'[s] \in {"idle"} \cup Obfuscating
             /\ \A i \in 1..(image[s] - 1) : Returned(i)' \/ Asking(s, i)'
  <2>1. CASE s # t
    BY <1>1, <1>6, <2>1 DEF CInv, WalkOK, Returned, Asking, cacheVars
  <2>2. CASE s = t
    BY <1>1, <1>6, <2>2 DEF CInv, WalkOK, Returned, Asking, cacheVars
  <2> QED BY <2>1, <2>2
<1>7. WalkOK'
  BY <1>6 DEF WalkOK, cacheVars
<1> QED BY <1>2, <1>3, <1>4, <1>5, <1>7 DEF CInv

LEMMA OtherCallKeeps ==
  ASSUME CInv, NEW t \in Threads, OtherCall(t)
  PROVE  CInv'
<1>1. Next /\ UNCHANGED cacheVars /\ cpc[t] = "idle"
  BY DEF OtherCall, Next
<1>2. IInv'
  BY <1>1, StepIInv DEF CInv
<1>3. /\ returned' = returned
      /\ \A s \in Threads \ {t} : pc'[s] = pc[s] /\ path'[s] = path[s]
  BY DEF OtherCall, ObfuscateCall, LookupCall, Goto, CInv, IInv, TypeOK
<1> QED BY <1>1, <1>2, <1>3
  DEF CInv, CacheTypeOK, PMu!LockTypeOK, Alone, LoadsMissing, WalkOK, ContentOK, Returned, Asking, cacheVars

-----------------------------------------------------------------------------
(* The cache's own steps.                                                  *)

\* A goroutine that moves without loading, and leaves the registry alone.
LEMMA CacheMoveKeeps ==
  ASSUME CInv, NEW t \in Threads, UNCHANGED <<vars, content, image>>,
         NEW l, cpc' = [cpc EXCEPT ![t] = l],
         cpc[t] # "render", l # "render",
         CacheTypeOK', Alone', LoadsMissing'
  PROVE  CInv'
<1>1. IInv'
  BY StepIInv DEF CInv
<1>2. \A s \in Threads : cpc'[s] = "render" <=> cpc[s] = "render"
  BY DEF CInv, CacheTypeOK
<1>3. WalkOK' /\ ContentOK'
  BY <1>2 DEF CInv, WalkOK, ContentOK, Returned, Asking, vars
<1> QED BY <1>1, <1>3 DEF CInv

LEMMA CacheLockStepsKeep ==
  ASSUME CInv, NEW t \in Threads,
         \/ GetContent(t) \/ CacheRLock(t) \/ CacheCheck(t) \/ CacheLock(t) \/ CacheLocked(t)
         \/ CacheRecheck(t)
  PROVE  CInv'
<1> USE DEF CacheGoto
<1>1. PICK l \in {"rlock", "check", "lock", "idle", "drain", "recheck", "load"} :
        cpc' = [cpc EXCEPT ![t] = l]
  BY DEF GetContent, CacheRLock, CacheCheck, CacheLock, CacheLocked, CacheRecheck, CacheReturn
<1>2. /\ UNCHANGED <<vars, content, image>> /\ cpc[t] # "render"
      /\ l = "load" => content = NoContent /\ cpc[t] = "recheck"
      /\ l \notin {"idle"} => pc[t] = "idle"
  BY <1>1
  DEF GetContent, CacheRLock, CacheCheck, CacheLock, CacheLocked, CacheRecheck, CacheReturn,
      CInv, CacheTypeOK, Loading
<1>3. \A s \in Threads \ {t} : cpc'[s] = cpc[s]
  BY <1>1 DEF CInv, CacheTypeOK
<1>4. LoadsMissing'
  BY <1>1, <1>2, <1>3 DEF CInv, CacheTypeOK, LoadsMissing, Loading
<1>5. /\ preaders' \subseteq Threads /\ pwriter' \in Threads \cup {NoThread}
      /\ preaders' = {s \in Threads : cpc'[s] = "check"}
      /\ \A s \in Threads : cpc'[s] \in {"drain", "recheck"} \cup Loading <=> pwriter' = s
      /\ Alone'
  <2> USE NoPathAssumption, <1>1, <1>3 DEF CInv, CacheTypeOK, PMu!LockTypeOK, Alone, Loading
  <2>1. CASE GetContent(t)
    BY <2>1 DEF GetContent
  <2>2. CASE CacheRLock(t)
    BY <2>2 DEF CacheRLock, PMu!RLock
  <2>3. CASE CacheCheck(t)
    BY <2>3 DEF CacheCheck, PMu!RUnlock
  <2>4. CASE CacheLock(t)
    BY <2>4 DEF CacheLock, PMu!Announce
  <2>5. CASE CacheLocked(t)
    BY <2>5 DEF CacheLocked, PMu!Drained
  <2>6. CASE CacheRecheck(t)
    BY <2>6 DEF CacheRecheck, CacheReturn, PMu!Unlock
  <2> QED BY <2>1, <2>2, <2>3, <2>4, <2>5, <2>6
<1>6. \A s \in Threads :
        /\ image'[s] \in IF cpc'[s] = "render" THEN 1..(Len(PostImages) + 1) ELSE {0}
        /\ cpc'[s] \notin {"idle", "render"} => pc'[s] = "idle"
  BY <1>1, <1>2, <1>3 DEF CInv, CacheTypeOK, vars
<1>7. CacheTypeOK'
  BY <1>1, <1>2, <1>5, <1>6 DEF CInv, CacheTypeOK, PMu!LockTypeOK, Loading
<1> QED BY <1>1, <1>2, <1>4, <1>5, <1>7, CacheMoveKeeps

(* A goroutine that renders is the only one past Lock.                     *)
LEMMA OneRenders ==
  ASSUME CInv, NEW t \in Threads, cpc[t] \in Loading
  PROVE  /\ pwriter = t /\ preaders = {} /\ content = NoContent
         /\ \A s \in Threads \ {t} : cpc[s] \notin {"drain", "recheck", "check"} \cup Loading
BY NoPathAssumption DEF CInv, CacheTypeOK, Alone, LoadsMissing, Loading

LEMMA LoadKeeps ==
  ASSUME CInv, NEW t \in Threads, Load(t)
  PROVE  CInv'
<1> USE DEF CacheGoto
<1>1. /\ cpc[t] = "load" /\ cpc[t] \in Loading /\ UNCHANGED <<vars, content>> /\ pc[t] = "idle"
      /\ pwriter = t /\ preaders = {} /\ content = NoContent
      /\ \A s \in Threads \ {t} : cpc[s] \notin {"drain", "recheck", "check"} \cup Loading
  <2>1. cpc[t] = "load" /\ UNCHANGED <<vars, content>>
    BY DEF Load
  <2> QED BY <2>1, OneRenders DEF Loading, CInv, CacheTypeOK
<1>2. CASE CacheReturn(t) /\ UNCHANGED image
  <2>1. /\ cpc' = [cpc EXCEPT ![t] = "idle"] /\ pwriter' = NoThread /\ preaders' = preaders
        /\ \A s \in Threads \ {t} : cpc'[s] = cpc[s]
    BY <1>2 DEF CacheReturn, PMu!Unlock, CInv, CacheTypeOK
  <2>2. CacheTypeOK' /\ Alone' /\ LoadsMissing'
    BY <1>1, <1>2, <2>1, NoPathAssumption
    DEF CInv, CacheTypeOK, PMu!LockTypeOK, Alone, LoadsMissing, Loading, vars
  <2> QED BY <1>1, <1>2, <2>1, <2>2, CacheMoveKeeps
<1>3. CASE /\ cpc' = [cpc EXCEPT ![t] = "render"] /\ image' = [image EXCEPT ![t] = 1]
           /\ UNCHANGED <<preaders, pwriter>>
  <2>1. IInv'
    BY <1>1, StepIInv DEF CInv
  <2>2. Len(PostImages) \in Nat
    BY PostImagesAssumption, LenProperties
  <2>3. CacheTypeOK'
    BY <1>1, <1>3, <2>2 DEF CInv, CacheTypeOK, PMu!LockTypeOK, Loading, vars
  <2>4. Alone' /\ LoadsMissing' /\ ContentOK'
    BY <1>1, <1>3 DEF CInv, CacheTypeOK, Alone, LoadsMissing, ContentOK, Returned, Loading, vars
  <2>5. WalkOK'
    <3>1. \A s \in Threads \ {t} : cpc'[s] # "render"
      BY <1>1, <1>3 DEF CInv, CacheTypeOK, Loading
    <3>2. image'[t] = 1 /\ pc'[t] = "idle"
      BY <1>1, <1>3 DEF CInv, CacheTypeOK, vars
    <3>3. 1..(1 - 1) = {}
      OBVIOUS
    <3> QED BY <3>1, <3>2, <3>3 DEF WalkOK
  <2> QED BY <2>1, <2>3, <2>4, <2>5 DEF CInv
<1> QED BY <1>2, <1>3 DEF Load

LEMMA TransformKeeps ==
  ASSUME CInv, NEW t \in Threads, Transform(t)
  PROVE  CInv'
<1> PICK n : n = image[t]
  OBVIOUS
<1>0. Len(PostImages) \in Nat
  BY PostImagesAssumption, LenProperties
<1>1. /\ cpc[t] = "render" /\ cpc[t] \in Loading /\ pc[t] = "idle"
      /\ n \in 1..Len(PostImages) /\ PostImages[n] # NoPath
      /\ image' = [image EXCEPT ![t] = n + 1]
      /\ UNCHANGED <<content, preaders, pwriter, cpc>>
  BY <1>0 DEF Transform, Walking, Loading, CInv, CacheTypeOK
<1>2. PostImages[n] \in RawPaths
  BY <1>1, ImageTypes
<1>3. Next /\ IInv'
  <2>1. Next
    BY <1>2 DEF Transform, Next
  <2> QED BY <2>1, StepIInv DEF CInv
<1>4. /\ pc' = [pc EXCEPT ![t] = "rlock"] /\ path' = [path EXCEPT ![t] = Clean[PostImages[n]]]
      /\ returned' = returned
      /\ \A s \in Threads \ {t} : cpc[s] # "render" /\ pc'[s] = pc[s]
      /\ pc'[t] = "rlock" /\ path'[t] = Clean[PostImages[n]]
  <2>1. /\ pc' = [pc EXCEPT ![t] = "rlock"] /\ path' = [path EXCEPT ![t] = Clean[PostImages[n]]]
        /\ returned' = returned
    BY DEF Transform, ObfuscateCall, Goto
  <2> QED BY <1>1, <2>1, OneRenders DEF CInv, IInv, TypeOK, Loading
<1>5. CacheTypeOK'
  BY <1>0, <1>1, <1>4 DEF CInv, CacheTypeOK, PMu!LockTypeOK, Loading
<1>6. Alone' /\ LoadsMissing' /\ ContentOK'
  BY <1>1, <1>4 DEF CInv, Alone, LoadsMissing, ContentOK, Returned
<1>7. WalkOK'
  <2>1. image'[t] = n + 1 /\ n + 1 - 1 = n
    BY <1>1 DEF CInv, CacheTypeOK
  <2>2. ASSUME NEW i \in 1..n
        PROVE  Returned(i)' \/ Asking(t, i)'
    <3>1. CASE i = n
      BY <1>2, <1>4, <2>1, <3>1 DEF Asking, Obfuscating
    <3>2. CASE i # n
      <4>1. i \in 1..(image[t] - 1)
        BY <1>1, <3>2
      <4>2. Returned(i) \/ Asking(t, i)
        BY <1>1, <4>1 DEF CInv, WalkOK
      <4>3. Returned(i)
        BY <1>1, <4>2 DEF Asking, Obfuscating, Critical
      <4> QED BY <1>4, <4>3 DEF Returned
    <3> QED BY <3>1, <3>2
  <2> QED BY <1>1, <1>4, <2>1, <2>2 DEF WalkOK, Obfuscating
<1> QED BY <1>3, <1>5, <1>6, <1>7 DEF CInv

LEMMA RenderedKeeps ==
  ASSUME CInv, NEW t \in Threads, Rendered(t)
  PROVE  CInv'
<1> PICK n : n = image[t]
  OBVIOUS
<1>0. Len(PostImages) \in Nat
  BY PostImagesAssumption, LenProperties
<1>1. /\ cpc[t] = "render" /\ cpc[t] \in Loading /\ pc[t] = "idle"
      /\ n \in 1..(Len(PostImages) + 1)
      /\ content' \in {NoContent, n - 1} /\ image' = [image EXCEPT ![t] = 0]
      /\ cpc' = [cpc EXCEPT ![t] = "idle"] /\ pwriter' = NoThread /\ preaders' = preaders
      /\ UNCHANGED vars
  <2>1. /\ cpc[t] = "render" /\ pc[t] = "idle" /\ UNCHANGED vars
        /\ content' \in {NoContent, n - 1} /\ image' = [image EXCEPT ![t] = 0]
        /\ cpc' = [cpc EXCEPT ![t] = "idle"] /\ pwriter' = NoThread /\ preaders' = preaders
    BY DEF Rendered, WalkEnded, CacheReturn, CacheGoto, PMu!Unlock
  <2>2. n \in 1..(Len(PostImages) + 1)
    BY <2>1 DEF CInv, CacheTypeOK
  <2> QED BY <2>1, <2>2 DEF Loading
<1>2. /\ pwriter = t /\ preaders = {} /\ content = NoContent
      /\ \A s \in Threads \ {t} :
           cpc[s] \notin {"drain", "recheck", "check"} \cup Loading /\ cpc'[s] = cpc[s]
      /\ cpc'[t] = "idle" /\ image'[t] = 0
  BY <1>1, OneRenders DEF CInv, CacheTypeOK
<1>3. IInv'
  BY <1>1, StepIInv DEF CInv
<1>4. CacheTypeOK'
  <2>1. content' \in {NoContent} \cup 0..Len(PostImages)
    BY <1>0, <1>1
  <2>2. preaders' = {s \in Threads : cpc'[s] = "check"}
    BY <1>1, <1>2
  <2>3. \A s \in Threads : cpc'[s] \in {"drain", "recheck"} \cup Loading <=> pwriter' = s
    BY <1>1, <1>2, NoPathAssumption DEF Loading
  <2> QED BY <1>1, <1>2, <2>1, <2>2, <2>3 DEF CInv, CacheTypeOK, PMu!LockTypeOK, Loading, vars
<1>5. \A s \in Threads : cpc'[s] \notin {"recheck"} \cup Loading
  BY <1>2 DEF Loading
<1>6. Alone' /\ LoadsMissing' /\ WalkOK'
  BY <1>5 DEF Alone, LoadsMissing, WalkOK, Loading
<1>7. ContentOK'
  <2> SUFFICES ASSUME content' = n - 1, NEW i \in 1..(n - 1)
               PROVE  Returned(i)'
    BY <1>1 DEF ContentOK
  <2>1. Returned(i) \/ Asking(t, i)
    BY <1>1 DEF CInv, WalkOK
  <2> QED BY <1>1, <2>1 DEF Asking, Obfuscating, Critical, Returned, vars
<1> QED BY <1>3, <1>4, <1>6, <1>7 DEF CInv

LEMMA CacheStep ==
  ASSUME CInv, [CacheNext]_allVars
  PROVE  CInv'
<1>1. ASSUME NEW t \in Threads, GetContent(t) \/ OtherCall(t) \/ CacheAcquire(t) \/ CacheProceed(t)
      PROVE  CInv'
  BY <1>1, RegistryKeeps, OtherCallKeeps, CacheLockStepsKeep, LoadKeeps, TransformKeeps, RenderedKeeps
  DEF CacheAcquire, CacheProceed
<1>2. CASE UNCHANGED allVars
  <2>1. IInv'
    BY <1>2, StepIInv DEF allVars, CInv
  <2> QED BY <1>2, <2>1
    DEF allVars, vars, cacheVars, CInv, CacheTypeOK, PMu!LockTypeOK, Alone, LoadsMissing, WalkOK,
        ContentOK, Returned, Asking
<1> QED BY <1>1, <1>2 DEF CacheNext

LEMMA CacheStart == CacheInit => CInv
<1> SUFFICES ASSUME CacheInit
             PROVE  CInv
  OBVIOUS
<1>1. IInv
  BY InitIInv DEF CacheInit
<1>2. CacheTypeOK
  BY NoPathAssumption DEF CacheInit, Init, CacheTypeOK, PMu!LockInit, PMu!LockTypeOK, Loading
<1> QED BY <1>1, <1>2
  DEF CacheInit, CInv, Alone, LoadsMissing, WalkOK, ContentOK, Loading

LEMMA CacheInvariant == CacheSpec => []CInv
<1>1. CInv /\ [CacheNext]_allVars => CInv'
  BY CacheStep
<1> QED BY <1>1, CacheStart, PTL DEF CacheSpec

-----------------------------------------------------------------------------
(* The theorems.                                                           *)

(* Exactly the goroutine between Lock and its Unlock is the writer of the  *)
(* post, also while it waits for the registry.                             *)
THEOREM CacheTypes == CacheSpec => []CacheTypeOK
<1>1. CInv => CacheTypeOK
  BY DEF CInv
<1> QED BY <1>1, CacheInvariant, PTL

(* However many goroutines found the content missing, one loads it, and    *)
(* none is reading meanwhile.                                              *)
THEOREM CacheLoadsOnce == CacheSpec => []LoadedOnce
<1>1. CInv => LoadedOnce
  BY OneRenders DEF LoadedOnce
<1> QED BY <1>1, CacheInvariant, PTL

(* Every image the cached page names by a UUID is found by that UUID.      *)
THEOREM CacheResolves == CacheSpec => []CachedPageResolves
<1>1. ASSUME CInv, content # NoContent, NEW i \in 1..content
      PROVE  LET p == Clean[PostImages[i]] IN
               NewV5(p) \in DOMAIN uuidToPath /\ uuidToPath[NewV5(p)] = p
  <2> DEFINE p == Clean[PostImages[i]]
  <2>1. p \in Paths /\ NewV5(p) \in returned
    BY <1>1, CleanAssumption DEF CInv, ContentOK, Returned
  <2>2. NewV5(p) \in DOMAIN uuidToPath
    BY <1>1, <2>1 DEF CInv, IInv, ReturnedOK
  <2>3. NewV5(p) = NewV5(uuidToPath[NewV5(p)]) /\ uuidToPath[NewV5(p)] \in Paths
    BY <1>1, <2>2, MapTypes DEF CInv, IInv, EntriesOK
  <2> HIDE DEF p
  <2>4. uuidToPath[NewV5(p)] = p
    BY <2>1, <2>3, NewV5Facts
  <2> QED BY <2>2, <2>4 DEF p
<1>2. CInv => CachedPageResolves
  BY <1>1 DEF CachedPageResolves
<1> QED BY <1>2, CacheInvariant, PTL

(* Content that is there is never taken away or changed.                   *)
THEOREM CacheStays == CacheSpec => CachedStays
<1>1. ASSUME CInv, CacheNext, content # NoContent
      PROVE  content' = content
  <2>1. \A t \in Threads : cpc[t] # "render"
    BY <1>1 DEF CInv, LoadsMissing, Loading
  <2>2. PICK t \in Threads : GetContent(t) \/ OtherCall(t) \/ CacheAcquire(t) \/ CacheProceed(t)
    BY <1>1 DEF CacheNext
  <2>3. ~Transform(t) /\ ~Rendered(t)
    BY <2>1 DEF Transform, Walking, Rendered, WalkEnded
  <2> QED BY <2>2, <2>3
    DEF GetContent, OtherCall, CacheAcquire, CacheProceed, CacheRLock, CacheLock, CacheCheck,
        CacheLocked, CacheRecheck, Load, cacheVars
<1>2. CInv /\ [CacheNext]_allVars => [content # NoContent => content' = content]_allVars
  BY <1>1
<1> QED BY <1>2, CacheInvariant, PTL DEF CacheSpec, CachedStays

(* The registry keeps its promises while the cache uses it.                *)
THEOREM CacheRegistry ==
  CacheSpec => [](TypeOK /\ MapsAgree /\ ReadersSeeWholeEntries /\ ReturnedIdResolves)
<1>1. CInv => TypeOK /\ ReadersSeeWholeEntries
  BY DEF CInv, IInv, TypeOK, GoroutinesOK, ReadersSeeWholeEntries
<1>2. CInv => MapsAgree
  BY MapsFromInv DEF CInv
<1>3. CInv => ReturnedIdResolves
  BY DEF CInv, IInv, ReturnedOK, ReturnedIdResolves
<1> QED BY <1>1, <1>2, <1>3, CacheInvariant, PTL
================================================================================
