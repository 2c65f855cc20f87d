------------------------------- MODULE PostCache -------------------------------
(***************************************************************************)
(* Post.GetContentWithMetrics of internal/content/disk_loader.go: a post   *)
(* of the disk repository is read from its file and rendered by the first  *)
(* request for it and kept in Post.Content, behind an RWMutex of its own.  *)
(* The render runs under that lock and obfuscates the images of the post   *)
(* one after the other, each under the lock of AssetRegistry: two locks,   *)
(* one inside the other, while other goroutines render posts of their own  *)
(* and look images up.                                                     *)
(*                                                                         *)
(* Each post has its own lock and content; the module follows one.         *)
(*                                                                         *)
(* A definition whose name has a suffix _Mutant... is a plausible slip; no *)
(* action uses it.                                                         *)
(***************************************************************************)
EXTENDS AssetRegistry, Sequences, Naturals

CONSTANTS
  PostImages, \* the local images of the post, in the order of the walk, as
              \* written; NoPath for one with an empty destination
  NoContent   \* a nil Content

ASSUME PostImagesAssumption == PostImages \in Seq(RawPaths \cup {NoPath})
ASSUME NoContentAssumption == NoContent \notin Nat

VARIABLES
  content,    \* Post.Content: nil, or how many of its images the rendered
              \* page names by their UUIDs
  preaders, pwriter, \* the RWMutex Post.mu
  cpc,        \* where each goroutine is in GetContentWithMetrics
  image       \* the index of the image its walk comes to next

cacheVars == <<content, preaders, pwriter, cpc, image>>
allVars == <<vars, cacheVars>>

PMu == INSTANCE RWMutex WITH readers <- preaders, writer <- pwriter

CacheInit ==
  /\ Init
  /\ content = NoContent
  /\ PMu!LockInit
  /\ cpc = [t \in Threads |-> "idle"]
  /\ image = [t \in Threads |-> 0]

CacheGoto(t, l) == cpc' = [cpc EXCEPT ![t] = l]

-----------------------------------------------------------------------------
(* The two checks.                                                         *)

GetContent(t) ==
  /\ cpc[t] = "idle" /\ pc[t] = "idle"
  /\ CacheGoto(t, "rlock")
  /\ UNCHANGED <<vars, content, preaders, pwriter, image>>

CacheRLock(t) ==
  /\ cpc[t] = "rlock"
  /\ PMu!RLock(t)
  /\ CacheGoto(t, "check")
  /\ UNCHANGED <<vars, content, image>>

\* Slip: the read lock is kept where the content is missing.
CacheCheck_MutantNoRUnlock(t) ==
  /\ cpc[t] = "check"
  /\ IF content = NoContent
       THEN CacheGoto(t, "lock") /\ UNCHANGED <<preaders, pwriter>>
       ELSE CacheGoto(t, "idle") /\ PMu!RUnlock(t)
  /\ UNCHANGED <<vars, content, image>>

CacheCheck(t) ==
  /\ cpc[t] = "check"
  /\ CacheGoto(t, IF content = NoContent THEN "lock" ELSE "idle")
  /\ PMu!RUnlock(t)
  /\ UNCHANGED <<vars, content, image>>

\* Slip: the render runs under the read lock.
CacheLock_MutantShared(t) ==
  /\ cpc[t] = "lock"
  /\ PMu!RLock(t)
  /\ CacheGoto(t, "recheck")
  /\ UNCHANGED <<vars, content, image>>

CacheLock(t) ==
  /\ cpc[t] = "lock"
  /\ PMu!Announce(t)
  /\ CacheGoto(t, "drain")
  /\ UNCHANGED <<vars, content, image>>

CacheLocked(t) ==
  /\ cpc[t] = "drain"
  /\ PMu!Drained(t)
  /\ CacheGoto(t, "recheck")
  /\ UNCHANGED <<vars, content, preaders, pwriter, image>>

\* Every return below this point runs the deferred Unlock.
CacheReturn(t) == CacheGoto(t, "idle") /\ PMu!Unlock(t)

\* Slip: the content is not looked at again.
CacheRecheck_MutantNone(t) ==
  /\ cpc[t] = "recheck"
  /\ CacheGoto(t, "load")
  /\ UNCHANGED <<vars, content, preaders, pwriter, image>>

CacheRecheck(t) ==
  /\ cpc[t] = "recheck"
  /\ IF content = NoContent
       THEN CacheGoto(t, "load") /\ UNCHANGED <<preaders, pwriter>>
       ELSE CacheReturn(t)
  /\ UNCHANGED <<vars, content, image>>

-----------------------------------------------------------------------------
(* The load and the render.                                                *)

\* Open, Stat, the limit of 10 MB and ReadAll; each may end the call.
Load(t) ==
  /\ cpc[t] = "load"
  /\ \/ CacheReturn(t) /\ UNCHANGED image
     \/ /\ CacheGoto(t, "render")
        /\ image' = [image EXCEPT ![t] = 1]
        /\ UNCHANGED <<preaders, pwriter>>
  /\ UNCHANGED <<vars, content>>

Walking(t) == cpc[t] = "render" /\ pc[t] = "idle" /\ image[t] <= Len(PostImages)

\* Slip: the UUID is computed here and the registry never told of it.
Transform_MutantOwnId(t) ==
  /\ Walking(t)
  /\ PostImages[image[t]] # NoPath
  /\ image' = [image EXCEPT ![t] = @ + 1]
  /\ UNCHANGED <<vars, content, preaders, pwriter, cpc>>

\* assetTransformer.Transform's step for an image: the call of Obfuscate, which
\* AssetRegistry goes on with.
Transform(t) ==
  /\ Walking(t)
  /\ PostImages[image[t]] # NoPath
  /\ ObfuscateCall(t, PostImages[image[t]])
  /\ image' = [image EXCEPT ![t] = @ + 1]
  /\ UNCHANGED <<content, preaders, pwriter, cpc>>

\* The walk has come to its end, or to an image whose empty path Obfuscate
\* refuses: that ends the walk, and Transform drops its error.
WalkEnded(t) ==
  /\ cpc[t] = "render" /\ pc[t] = "idle"
  /\ image[t] <= Len(PostImages) => PostImages[image[t]] = NoPath

\* Content is what Render returned: nil where it failed, and perhaps where it had
\* nothing to render.
Rendered(t) ==
  /\ WalkEnded(t)
  /\ content' \in {NoContent, image[t] - 1}
  /\ image' = [image EXCEPT ![t] = 0]
  /\ CacheReturn(t)
  /\ UNCHANGED vars

-----------------------------------------------------------------------------
CacheAcquire(t) ==
  \/ CacheRLock(t) \/ CacheLock(t)
  \/ Acquire(t) /\ UNCHANGED cacheVars

CacheProceed(t) ==
  \/ CacheCheck(t) \/ CacheLocked(t) \/ CacheRecheck(t) \/ Load(t)
  \/ Transform(t) \/ Rendered(t)
  \/ Proceed(t) /\ UNCHANGED cacheVars

\* Lookups of the asset handler, and renders that do not come from this cache.
OtherCall(t) ==
  /\ cpc[t] = "idle"
  /\ \/ \E raw \in RawPaths : ObfuscateCall(t, raw)
     \/ \E u \in Uuids : LookupCall(t, u)
  /\ UNCHANGED cacheVars

CacheNext ==
  \E t \in Threads : GetContent(t) \/ OtherCall(t) \/ CacheAcquire(t) \/ CacheProceed(t)

\* As in AssetRegistry, of both locks.
CacheFairness ==
  \A t \in Threads : SF_allVars(CacheAcquire(t)) /\ WF_allVars(CacheProceed(t))

CacheSpec == CacheInit /\ [][CacheNext]_allVars /\ CacheFairness

-----------------------------------------------------------------------------
(* Properties.                                                             *)

Loading == {"load", "render"}

\* Types, and who holds the post's lock.
CacheTypeOK ==
  /\ content \in {NoContent} \cup 0..Len(PostImages)
  /\ PMu!LockTypeOK
  /\ cpc \in [Threads -> {"idle", "rlock", "check", "lock", "drain", "recheck"} \cup Loading]
  /\ image \in [Threads -> 0..(Len(PostImages) + 1)]
  /\ preaders = {t \in Threads : cpc[t] = "check"}
  /\ \A t \in Threads : cpc[t] \in {"drain", "recheck"} \cup Loading <=> pwriter = t
  /\ \A t \in Threads :
       /\ image[t] \in IF cpc[t] = "render" THEN 1..(Len(PostImages) + 1) ELSE {0}
       /\ cpc[t] \notin {"idle", "render"} => pc[t] = "idle"

(* The post is rendered once: where the content is there no goroutine      *)
(* loads it again, and no two ever load it at the same time, however many  *)
(* found it missing together.                                              *)
LoadedOnce ==
  \A t \in Threads : cpc[t] \in Loading =>
    content = NoContent /\ \A s \in Threads \ {t} : cpc[s] \notin Loading \cup {"check"}

(* What was cached stays: no later call whose load or render fails takes   *)
(* the content away from the readers.                                      *)
CachedStays == [][content # NoContent => content' = content]_allVars

(* Every image the cached page names by a UUID can be looked up, for as    *)
(* long as the page is in the cache.                                       *)
CachedPageResolves ==
  content # NoContent =>
    \A i \in 1..content :
      LET p == Clean[PostImages[i]] IN
        NewV5(p) \in DOMAIN uuidToPath /\ uuidToPath[NewV5(p)] = p

(* No call is left waiting for ever, also where one lock is taken inside   *)
(* the other.                                                              *)
CacheCallsReturn == \A t \in Threads : cpc[t] # "idle" ~> cpc[t] = "idle"
=============================================================================
