---------------------------- MODULE AssetPipeline ----------------------------
(***************************************************************************)
(* GET /assets/{uuid}_{width}: internal/handlers/assets.go composed with   *)
(* the image processor, the registry of images and the object store, with  *)
(* clients that leave, requests that time out, store calls that fail, the  *)
(* shutdown and the restart of the process.                                *)
(*                                                                         *)
(* The processor is ImageProcessor, its callers the requests.  The         *)
(* registry is taken as atomic (AssetRegistry shows what its lock gives):  *)
(* the images some render has obfuscated in this run of the process.  Only *)
(* the object store outlives the process.                                  *)
(*                                                                         *)
(* A definition whose name has a suffix _Mutant... is a plausible slip; no *)
(* action uses it.                                                         *)
(***************************************************************************)
EXTENDS Naturals, Sequences

CONSTANTS
  Images,     \* image sources, each with its UUID
  Widths,     \* wantedWidths, in the order of the loop
  Requests,   \* request goroutines
  Workers, QueueCap,
  NoJob

ASSUME WidthsAssumption == Widths \in Seq(Nat)
ASSUME QueueCapAssumption == QueueCap \in Nat \ {0}

VARIABLES
  jobs, closed, inFlight, ctxDone, variants,       \* ImageProcessor's
  cpc, cjob, cres, wpc, wjob, closer,
  registered, \* images in the registry's maps
  sources,    \* images whose source is in the object store
  rpc,        \* where each request is in ServeHTTP
  rkey,       \* the <<image, width>> it asks for
  rnext,      \* the index in Widths of its next Enqueue
  rres,       \* how it was answered
  clientGone, \* requests whose client has left: r.Context() is done
  timedOut,   \* requests whose bgCtx has lived for ten seconds
  failed,     \* history: requests that met a failing store call
  known       \* history: requests that came when the image was registered
              \* or the variant stored

procVars == <<jobs, closed, inFlight, ctxDone, variants,
              cpc, cjob, cres, wpc, wjob, closer>>
storeVars == <<registered, sources>>
ctxVars == <<clientGone, timedOut>>
reqVars == <<rpc, rkey, rnext, rres, failed, known>>
vars == <<procVars, storeVars, ctxVars, reqVars>>

Jobs == Images \X {Widths[i] : i \in 1..Len(Widths)}

ASSUME NoJobAssumption == NoJob \notin Jobs

P == INSTANCE ImageProcessor WITH Callers <- Requests

Init ==
  /\ P!Init
  /\ variants = {}
  /\ sources \in SUBSET Images
  /\ registered = {}
  /\ rpc = [r \in Requests |-> "idle"]
  /\ rkey = [r \in Requests |-> NoJob]
  /\ rnext = [r \in Requests |-> 1]
  /\ rres = [r \in Requests |-> "none"]
  /\ clientGone = {} /\ timedOut = {}
  /\ failed = {} /\ known = {}

-----------------------------------------------------------------------------
(* ServeHTTP.  A malformed key or an unsupported width is answered before  *)
(* anything is read or changed; the model's requests have good keys.       *)

Arrive(r, key) ==
  /\ rpc[r] = "idle"
  /\ rpc' = [rpc EXCEPT ![r] = "exists"]
  /\ rkey' = [rkey EXCEPT ![r] = key]
  /\ known' = IF key[1] \in registered \/ key \in variants
                THEN known \cup {r} ELSE known
  /\ UNCHANGED <<procVars, storeVars, ctxVars, rnext, rres, failed>>

Goto(r, l) ==
  /\ rpc' = [rpc EXCEPT ![r] = l]
  /\ UNCHANGED rres

Answer(r, res) ==
  /\ rpc' = [rpc EXCEPT ![r] = "done"]
  /\ rres' = [rres EXCEPT ![r] = res]

(* A store call on an object that is there: it succeeds, or fails for a    *)
(* reason of the store or because the request's context is done.           *)
StoreCall(r, there, ok, missing) ==
  \/ there /\ r \notin clientGone /\ ok /\ UNCHANGED failed
  \/ ~there /\ missing /\ UNCHANGED failed
  \/ missing /\ failed' = failed \cup {r}

\* Slip: the registry is asked before the store.
Exists_MutantRegistryFirst(r) ==
  /\ rpc[r] = "exists"
  /\ IF rkey[r][1] \in registered
       THEN StoreCall(r, rkey[r] \in variants, Goto(r, "retrieveKey"), Goto(r, "lookup"))
       ELSE Answer(r, "notFound") /\ UNCHANGED failed
  /\ UNCHANGED <<procVars, storeVars, ctxVars, rkey, rnext, known>>

Exists(r) ==
  /\ rpc[r] = "exists"
  /\ StoreCall(r, rkey[r] \in variants, Goto(r, "retrieveKey"), Goto(r, "lookup"))
  /\ UNCHANGED <<procVars, storeVars, ctxVars, rkey, rnext, known>>

RetrieveKey(r) ==
  /\ rpc[r] = "retrieveKey"
  /\ StoreCall(r, rkey[r] \in variants, Answer(r, "variant"), Answer(r, "notFound"))
  /\ UNCHANGED <<procVars, storeVars, ctxVars, rkey, rnext, known>>

\* Slip: the jobs are enqueued before the registry is asked.
GetRelativePath_MutantLate(r) ==
  /\ rpc[r] = "lookup"
  /\ Goto(r, "enqueue") /\ failed' = failed \ {r}
  /\ UNCHANGED <<procVars, storeVars, ctxVars, rkey, rnext, known>>

\* GetRelativePath: only images obfuscated in this run of the process are found.
GetRelativePath(r) ==
  /\ rpc[r] = "lookup"
  /\ IF rkey[r][1] \in registered
       THEN Goto(r, "enqueue") /\ failed' = failed \ {r}
       ELSE Answer(r, "notFound") /\ UNCHANGED failed
  /\ UNCHANGED <<procVars, storeVars, ctxVars, rkey, rnext, known>>

\* The loop over wantedWidths: one Enqueue after the other, results ignored.
EnqueueNext(r) ==
  /\ rpc[r] = "enqueue"
  /\ rnext[r] <= Len(Widths)
  /\ P!LoadOrStore(r, <<rkey[r][1], Widths[rnext[r]]>>)
  /\ rnext' = [rnext EXCEPT ![r] = @ + 1]
  /\ UNCHANGED <<storeVars, ctxVars, rpc, rkey, rres, failed, known>>

\* bgCtx is derived from the request's context and lives for ten seconds.
BgCtxDone(r) == r \in clientGone \cup timedOut

\* A panic unwinds the handler; the Recover middleware answers 500.
EnqueueSelect(r) ==
  /\ rpc[r] = "enqueue"
  /\ P!Select(r, BgCtxDone(r))
  /\ IF cres'[r] = "panic"
       THEN Answer(r, "internalError")
       ELSE UNCHANGED <<rpc, rres>>
  /\ UNCHANGED <<storeVars, ctxVars, rkey, rnext, failed, known>>

EnqueueUndo(r) ==
  /\ rpc[r] = "enqueue"
  /\ P!Undo(r)
  /\ UNCHANGED <<storeVars, ctxVars, reqVars>>

\* Slip: the Enqueues run in goroutines of their own.
Retrieve_MutantAsync(r) ==
  /\ rpc[r] = "enqueue"
  /\ rnext[r] > Len(Widths)
  /\ StoreCall(r, rkey[r][1] \in sources, Answer(r, "source"), Answer(r, "notFound"))
  /\ UNCHANGED <<procVars, storeVars, ctxVars, rkey, rnext, known>>

\* The source itself is the answer while the variants are being made.
Retrieve(r) ==
  /\ rpc[r] = "enqueue"
  /\ rnext[r] > Len(Widths)
  /\ cpc[r] = "idle"
  /\ StoreCall(r, rkey[r][1] \in sources, Answer(r, "source"), Answer(r, "notFound"))
  /\ clientGone' = clientGone \ {r}
  /\ timedOut' = timedOut \ {r}
  /\ rnext' = [rnext EXCEPT ![r] = 1]
  /\ cres' = [cres EXCEPT ![r] = "none"]
  /\ UNCHANGED <<jobs, closed, inFlight, ctxDone, variants, cpc, cjob, wpc, wjob, closer,
                 storeVars, rkey, known>>

\* The response is written; the goroutine serves its next request later.
Finish(r) ==
  /\ rpc[r] = "done"
  /\ rpc' = [rpc EXCEPT ![r] = "idle"]
  /\ rkey' = [rkey EXCEPT ![r] = NoJob]
  /\ rnext' = [rnext EXCEPT ![r] = 1]
  /\ rres' = [rres EXCEPT ![r] = "none"]
  /\ cres' = [cres EXCEPT ![r] = "none"]
  /\ clientGone' = clientGone \ {r}
  /\ timedOut' = timedOut \ {r}
  /\ failed' = failed \ {r}
  /\ known' = known \ {r}
  /\ UNCHANGED <<jobs, closed, inFlight, ctxDone, variants, cpc, cjob, wpc, wjob, closer, storeVars>>

-----------------------------------------------------------------------------
(* The rest of the program and its environment.                            *)

\* (A client that leaves earlier is seen as a failing store call and then as
\* one that leaves here.)
ClientLeaves(r) ==
  /\ cpc[r] = "select"
  /\ clientGone' = clientGone \cup {r}
  /\ UNCHANGED <<procVars, storeVars, timedOut, reqVars>>

TimesOut(r) ==
  /\ cpc[r] = "select"
  /\ timedOut' = timedOut \cup {r}
  /\ UNCHANGED <<procVars, storeVars, clientGone, reqVars>>

\* A post is rendered: its images are obfuscated.
Render(image) ==
  /\ image \notin registered
  /\ registered' = registered \cup {image}
  /\ UNCHANGED <<procVars, sources, ctxVars, reqVars>>

\* A worker opens only a source that is there.
WorkerStep(w) ==
  /\ P!Worker(w)
  /\ wpc'[w] = "generate" => wjob[w][1] \in sources
  /\ UNCHANGED <<storeVars, ctxVars, reqVars>>

\* The signal cancels the processor's context; requests are still drained, and
\* some may even arrive before the server's listener is closed.
Signal ==
  /\ P!Cancel
  /\ UNCHANGED <<storeVars, ctxVars, reqVars>>

CloserStep ==
  /\ P!Closer
  /\ UNCHANGED <<storeVars, ctxVars, reqVars>>

(* The process ends, by a crash or after the shutdown, and starts anew:    *)
(* the registry, the marks and the queue are gone, the store is not, and   *)
(* SyncAssets may add sources.                                             *)
Restart ==
  /\ jobs' = <<>> /\ closed' = FALSE /\ inFlight' = {} /\ ctxDone' = FALSE
  /\ cpc' = [r \in Requests |-> "idle"]
  /\ cjob' = [r \in Requests |-> NoJob]
  /\ cres' = [r \in Requests |-> "none"]
  /\ wpc' = [w \in Workers |-> "idle"]
  /\ wjob' = [w \in Workers |-> NoJob]
  /\ closer' = "waiting"
  /\ sources' \in {S \in SUBSET Images : sources \subseteq S}
  /\ registered' = {}
  /\ rpc' = [r \in Requests |-> "idle"]
  /\ rkey' = [r \in Requests |-> NoJob]
  /\ rnext' = [r \in Requests |-> 1]
  /\ rres' = [r \in Requests |-> "none"]
  /\ clientGone' = {} /\ timedOut' = {}
  /\ failed' = {} /\ known' = {}
  /\ UNCHANGED variants

-----------------------------------------------------------------------------
Handle(r) ==
  \/ Exists(r) \/ RetrieveKey(r) \/ GetRelativePath(r)
  \/ EnqueueNext(r) \/ EnqueueSelect(r) \/ EnqueueUndo(r) \/ Retrieve(r)

Next ==
  \/ \E r \in Requests :
       \/ \E key \in Jobs : Arrive(r, key)
       \/ Handle(r) \/ Finish(r) \/ ClientLeaves(r) \/ TimesOut(r)
  \/ \E image \in Images : Render(image)
  \/ \E w \in Workers : WorkerStep(w)
  \/ Signal \/ CloserStep \/ Restart

Spec == Init /\ [][Next]_vars

-----------------------------------------------------------------------------
(* Properties.                                                             *)

\* Types of the handler's state; the processor's are ImageProcessor's.
TypeOK ==
  /\ P!TypeOK
  /\ registered \subseteq Images /\ sources \subseteq Images
  /\ rpc \in [Requests -> {"idle", "exists", "retrieveKey", "lookup", "enqueue", "done"}]
  /\ rkey \in [Requests -> Jobs \cup {NoJob}]
  /\ rnext \in [Requests -> 1..(Len(Widths) + 1)]
  /\ rres \in [Requests -> {"none", "variant", "source", "notFound", "internalError"}]
  /\ \A S \in {clientGone, timedOut, failed, known} : S \subseteq Requests
  /\ \A r \in Requests : cpc[r] # "idle" => rpc[r] = "enqueue"

(* The image of a page is served: a request for an image that a render     *)
(* registered, or for a variant that is stored (also by an earlier run of  *)
(* the process, whose registry is gone), is never answered 404, unless a   *)
(* store call failed or the source was never uploaded.                     *)
KnownImageServed ==
  \A r \in known :
    rres[r] = "notFound" /\ rpc[r] = "done" => r \in failed \/ rkey[r][1] \notin sources

(* Only images of rendered posts keep the processor busy: whatever UUID a  *)
(* client sends, no job is made of it before the registry knows it.        *)
JobsOfRegisteredImages ==
  \A image \in Images \ registered :
    \A j \in Jobs : j[1] = image => ~P!Outstanding(j)

(* assets.go:102: a "context that doesn't die when the user leaves the     *)
(* page" lets Enqueue be refused by its ten seconds only.                  *)
EnqueueOutlivesClient ==
  \A r \in Requests : cres[r] = "ctx" => r \in timedOut
=============================================================================
