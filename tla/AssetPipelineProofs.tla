-------------------------- MODULE AssetPipelineProofs --------------------------
(***************************************************************************)
(* Proofs about AssetPipeline, for any images, widths, requests, workers   *)
(* and capacity, and any number of restarts.                               *)
(***************************************************************************)
EXTENDS AssetPipeline, SequenceTheorems, TLAPS

\* The processor's definitions with their theorems.
PP == INSTANCE ImageProcessorProofs WITH Callers <- Requests

(* What a request has learned by the time it is at each of its calls.  The *)
(* variants and, within a run of the process, the registry only grow, so   *)
(* it still holds at the next call.                                        *)
Learned(r) ==
  /\ rpc[r] # "idle" => rkey[r] \in Jobs
  /\ rpc[r] = "retrieveKey" => rkey[r] \in variants
  /\ rpc[r] = "enqueue" => rkey[r][1] \in registered

(* The same for a request whose image was known when it came: unless a     *)
(* call failed, the handler knows of it still.                             *)
StillKnown(r) ==
  /\ rpc[r] # "idle"
  /\ rpc[r] = "exists" => rkey[r][1] \in registered \/ rkey[r] \in variants
  /\ rpc[r] = "lookup" => rkey[r][1] \in registered \/ r \in failed

HeldRegistered == \A j \in Jobs : PP!Outstanding(j) => j[1] \in registered

(* The processor's invariant holds across restarts.  For the handler: only *)
(* a request that found its image in the registry enqueues, and a job      *)
(* stays of a registered image while it is held.                           *)
HandlerInv ==
  /\ \A r \in Requests : Learned(r)
  /\ \A r \in known : StillKnown(r)
  /\ KnownImageServed
  /\ HeldRegistered

\* The types without the processor's.
HandlerTypes ==
  /\ registered \subseteq Images /\ sources \subseteq Images
  /\ rpc \in [Requests -> {"idle", "exists", "retrieveKey", "lookup", "enqueue", "done"}]
  /\ rkey \in [Requests -> Jobs \cup {NoJob}]
  /\ rnext \in [Requests -> 1..(Len(Widths) + 1)]
  /\ rres \in [Requests -> {"none", "variant", "source", "notFound", "internalError"}]
  /\ clientGone \subseteq Requests /\ timedOut \subseteq Requests
  /\ failed \subseteq Requests /\ known \subseteq Requests
  /\ \A r \in Requests : cpc[r] # "idle" => rpc[r] = "enqueue"

PInv == PP!IInv /\ HandlerTypes /\ HandlerInv

-----------------------------------------------------------------------------
(* The two instances of ImageProcessor define the same.                    *)

LEMMA SameTypes == P!TypeOK <=> PP!TypeOK
BY DEF P!TypeOK, PP!TypeOK, P!Keys, PP!Keys, P!EnqueueKey, PP!EnqueueKey,
       P!WorkerKey, PP!WorkerKey, P!CallerPC, PP!CallerPC, P!Results, PP!Results,
       P!WorkerPC, PP!WorkerPC, P!Busy, PP!Busy

LEMMA SameOutstanding ==
  ASSUME NEW j
  PROVE  P!Outstanding(j) <=> PP!Outstanding(j)
BY DEF P!Outstanding, PP!Outstanding, P!Claimed, PP!Claimed, P!Queued, PP!Queued,
       P!Running, PP!Running, P!Claims, PP!Claims, P!Processes, PP!Processes,
       P!Busy, PP!Busy

LEMMA SameLoadOrStore ==
  ASSUME NEW r, NEW j
  PROVE  P!LoadOrStore(r, j) <=> PP!LoadOrStore(r, j)
BY DEF P!LoadOrStore, PP!LoadOrStore, P!EnqueueKey, PP!EnqueueKey, P!Return, PP!Return,
       P!workerVars, PP!workerVars

LEMMA SameEnqueueing ==
  ASSUME NEW r
  PROVE  /\ P!Undo(r) => PP!Enqueueing(r)
         /\ P!Select(r, BgCtxDone(r)) => PP!Enqueueing(r)
<1>1. P!Undo(r) <=> PP!Undo(r)
  BY DEF P!Undo, PP!Undo, P!EnqueueKey, PP!EnqueueKey, P!Return, PP!Return,
         P!workerVars, PP!workerVars
<1>2. BgCtxDone(r) \in BOOLEAN
  BY DEF BgCtxDone
<1>3. ASSUME NEW d \in BOOLEAN
      PROVE  P!Select(r, d) <=> PP!Select(r, d)
  BY DEF P!Select, PP!Select, P!SelectDone, PP!SelectDone, P!SelectSend, PP!SelectSend,
         P!SelectClosed, PP!SelectClosed, P!SelectDefault, PP!SelectDefault,
         P!Refuse, PP!Refuse, P!Return, PP!Return, P!workerVars, PP!workerVars
<1> QED
  BY <1>1, <1>2, <1>3 DEF PP!Enqueueing

LEMMA SameWorker ==
  ASSUME NEW w
  PROVE  P!Worker(w) <=> PP!Worker(w)
BY DEF P!Worker, PP!Worker, P!WorkerExit, PP!WorkerExit, P!WorkerReceive, PP!WorkerReceive,
       P!ProcessExists, PP!ProcessExists, P!ProcessCtxErr, PP!ProcessCtxErr,
       P!ProcessOpen, PP!ProcessOpen, P!ProcessGenerate, PP!ProcessGenerate,
       P!ProcessSave, PP!ProcessSave, P!WorkerDelete, PP!WorkerDelete, P!Goto, PP!Goto,
       P!WorkerKey, PP!WorkerKey, P!callerVars, PP!callerVars

LEMMA SameShutdown == (P!Cancel <=> PP!Cancel) /\ (P!Closer <=> PP!Closer)
BY DEF P!Cancel, PP!Cancel, P!Closer, PP!Closer, P!CloseJobs, PP!CloseJobs,
       P!WgWait, PP!WgWait, P!callerVars, PP!callerVars, P!workerVars, PP!workerVars

-----------------------------------------------------------------------------
(* The processor.                                                          *)

USE NoJobAssumption, QueueCapAssumption

LEMMA ProcessorStepKeeps ==
  ASSUME PP!IInv, [PP!Next]_(PP!vars)
  PROVE  PP!IInv'
BY PP!StepIInv

\* A step that touches nothing of the processor but a request's last result.
LEMMA ResultOnlyKeeps ==
  ASSUME PP!IInv, cres' \in [Requests -> PP!Results],
         UNCHANGED <<jobs, closed, inFlight, ctxDone, variants, cpc, cjob, wpc, wjob, closer>>
  PROVE  PP!IInv' /\ \A j : PP!Outstanding(j)' <=> PP!Outstanding(j)
<1>1. PP!TypeOK'
  BY DEF PP!IInv, PP!TypeOK
<1>2. \A j : PP!Outstanding(j)' <=> PP!Outstanding(j)
  BY DEF PP!Outstanding, PP!Claimed, PP!Queued, PP!Running, PP!Claims, PP!Processes
<1>3. PP!NoDuplicateJobs'
  BY DEF PP!IInv, PP!NoDuplicateJobs, PP!Queued, PP!Claims, PP!Processes
<1>4. PP!OutstandingMarked'
  BY <1>2 DEF PP!IInv, PP!OutstandingMarked, PP!EnqueueKey
<1> QED BY <1>1, <1>2, <1>3, <1>4 DEF PP!IInv

LEMMA RestartKeepsProcessor ==
  ASSUME PP!IInv, Restart
  PROVE  PP!IInv' /\ \A j \in Jobs : ~PP!Outstanding(j)'
<1>1. PP!Init'
  BY DEF Restart, PP!Init, PP!IInv, PP!TypeOK
<1>2. PP!Init' => PP!IInv'
  BY PP!InitIInv, PTL
<1>3. \A j \in Jobs : ~PP!Outstanding(j)'
  BY <1>1 DEF PP!Init, PP!Outstanding, PP!Claimed, PP!Queued, PP!Running,
              PP!Claims, PP!Processes, PP!Busy
<1> QED BY <1>1, <1>2, <1>3

-----------------------------------------------------------------------------
(* The handler.                                                            *)

LEMMA TypeParts == TypeOK <=> PP!TypeOK /\ HandlerTypes
BY SameTypes DEF TypeOK, HandlerTypes

LEMMA WidthFacts ==
  /\ Len(Widths) \in Nat
  /\ \A j \in Jobs : j[1] \in Images
  /\ \A i \in 1..Len(Widths), image \in Images :
       <<image, Widths[i]>> \in Jobs /\ <<image, Widths[i]>>[1] = image
BY WidthsAssumption, LenProperties DEF Jobs

\* A step of the handler that leaves the processor alone.
LEMMA LookupKeeps ==
  ASSUME PInv, NEW r \in Requests,
         \/ \E key \in Jobs : Arrive(r, key)
         \/ Exists(r) \/ RetrieveKey(r) \/ GetRelativePath(r)
  PROVE  HandlerTypes' /\ HandlerInv'
<1> USE WidthFacts DEF HandlerTypes
<1>0. HandlerTypes /\ HandlerInv /\ cpc[r] = "idle"
  <2>1. HandlerTypes /\ HandlerInv
    BY DEF PInv
  <2>2. rpc[r] # "enqueue"
    BY DEF Arrive, Exists, RetrieveKey, GetRelativePath
  <2> QED BY <2>1, <2>2
<1>1. HeldRegistered'
  <2>1. \A j : PP!Outstanding(j)' <=> PP!Outstanding(j)
    BY DEF Arrive, Exists, RetrieveKey, GetRelativePath, procVars,
           PP!Outstanding, PP!Claimed, PP!Queued, PP!Running, PP!Claims, PP!Processes
  <2>2. registered' = registered
    BY DEF Arrive, Exists, RetrieveKey, GetRelativePath, storeVars
  <2> QED BY <1>0, <2>1, <2>2 DEF HandlerInv, HeldRegistered
<1>2. ASSUME NEW key \in Jobs, Arrive(r, key)
      PROVE  HandlerTypes' /\ HandlerInv'
  <2>1. HandlerTypes'
    BY <1>0, <1>2 DEF Arrive, procVars, storeVars, ctxVars
  <2>2. /\ rpc' = [rpc EXCEPT ![r] = "exists"] /\ rkey' = [rkey EXCEPT ![r] = key]
        /\ known \subseteq known' /\ known' \subseteq known \cup {r}
        /\ r \in known' \ known => key[1] \in registered \/ key \in variants
        /\ rpc[r] = "idle"
        /\ UNCHANGED <<registered, variants, sources, rres, failed>>
    BY <1>2 DEF Arrive, procVars, storeVars
  <2>3. r \notin known
    BY <1>0, <2>2 DEF HandlerInv, StillKnown
  <2>4. \A s \in Requests : Learned(s)'
    BY <1>0, <2>2 DEF HandlerInv, Learned
  <2>5. \A s \in known' : StillKnown(s)'
    BY <1>0, <2>2, <2>3 DEF HandlerInv, StillKnown
  <2>6. KnownImageServed'
    BY <1>0, <2>2, <2>3 DEF HandlerInv, KnownImageServed
  <2> QED BY <1>1, <2>1, <2>4, <2>5, <2>6 DEF HandlerInv
<1>3. CASE Exists(r)
  <2>1. HandlerTypes'
    BY <1>0, <1>3 DEF Exists, StoreCall, Goto, procVars, storeVars, ctxVars
  <2>2. /\ \/ /\ rkey[r] \in variants
              /\ rpc' = [rpc EXCEPT ![r] = "retrieveKey"]
              /\ failed' = failed
           \/ /\ rkey[r] \notin variants \/ r \in failed'
              /\ rpc' = [rpc EXCEPT ![r] = "lookup"]
              /\ failed \subseteq failed'
        /\ rpc[r] = "exists"
        /\ UNCHANGED <<registered, variants, sources, rkey, rres, known>>
    BY <1>3 DEF Exists, StoreCall, Goto, procVars, storeVars
  <2>3. \A s \in Requests : Learned(s)'
    BY <1>0, <2>2 DEF HandlerInv, Learned
  <2>4. \A s \in known' : StillKnown(s)'
    BY <1>0, <2>2 DEF HandlerInv, StillKnown
  <2>5. KnownImageServed'
    BY <1>0, <2>2 DEF HandlerInv, KnownImageServed
  <2> QED BY <1>1, <2>1, <2>3, <2>4, <2>5 DEF HandlerInv
<1>4. CASE RetrieveKey(r)
  <2>1. HandlerTypes'
    BY <1>0, <1>4 DEF RetrieveKey, StoreCall, Answer, procVars, storeVars, ctxVars
  <2>2. /\ rpc[r] = "retrieveKey" /\ rpc' = [rpc EXCEPT ![r] = "done"]
        /\ \/ rres' = [rres EXCEPT ![r] = "variant"] /\ failed' = failed
           \/ /\ rres' = [rres EXCEPT ![r] = "notFound"]
              /\ rkey[r] \notin variants \/ r \in failed'
              /\ failed \subseteq failed'
        /\ UNCHANGED <<registered, variants, sources, rkey, known>>
    BY <1>4 DEF RetrieveKey, StoreCall, Answer, procVars, storeVars
  <2>3. \A s \in Requests : Learned(s)'
    BY <1>0, <2>2 DEF HandlerInv, Learned
  <2>4. \A s \in known' : StillKnown(s)'
    BY <1>0, <2>2 DEF HandlerInv, StillKnown
  <2>5. KnownImageServed'
    BY <1>0, <2>2 DEF HandlerInv, KnownImageServed, Learned
  <2> QED BY <1>1, <2>1, <2>3, <2>4, <2>5 DEF HandlerInv
<1>5. CASE GetRelativePath(r)
  <2>1. /\ rpc[r] = "lookup"
        /\ \/ /\ rkey[r][1] \in registered
              /\ rpc' = [rpc EXCEPT ![r] = "enqueue"] /\ rres' = rres
              /\ failed' = failed \ {r}
           \/ /\ rkey[r][1] \notin registered
              /\ rpc' = [rpc EXCEPT ![r] = "done"]
              /\ rres' = [rres EXCEPT ![r] = "notFound"]
              /\ failed' = failed
        /\ UNCHANGED <<procVars, registered, sources, ctxVars, rkey, rnext, known>>
    BY <1>5 DEF GetRelativePath, Goto, Answer, storeVars
  <2>2. HandlerTypes'
    BY <1>0, <2>1 DEF procVars, ctxVars
  <2>3. \A s \in Requests : Learned(s)'
    BY <1>0, <2>1 DEF HandlerInv, Learned, procVars
  <2>4. \A s \in known' : StillKnown(s)'
    BY <1>0, <2>1 DEF HandlerInv, StillKnown, procVars
  <2>5. KnownImageServed'
    BY <1>0, <2>1 DEF HandlerInv, KnownImageServed, StillKnown
  <2> QED BY <1>1, <2>2, <2>3, <2>4, <2>5 DEF HandlerInv
<1> QED BY <1>2, <1>3, <1>4, <1>5

\* A step of the processor's that no request and no registry sees: of a worker
\* or of the shutdown.
LEMMA BackgroundKeeps ==
  ASSUME PInv, (\E w \in Workers : WorkerStep(w)) \/ Signal \/ CloserStep \/ UNCHANGED vars
  PROVE  PInv'
<1> USE DEF HandlerTypes
<1>1. /\ \/ \E w \in Workers : PP!Worker(w)
         \/ PP!Cancel \/ PP!Closer \/ UNCHANGED PP!vars
      /\ UNCHANGED <<storeVars, ctxVars, reqVars, cpc, cjob, cres>>
  BY SameWorker, SameShutdown
  DEF WorkerStep, Signal, CloserStep, vars, procVars, PP!vars,
      PP!Cancel, PP!Closer, PP!CloseJobs, PP!WgWait, PP!Worker, PP!WorkerExit,
      PP!WorkerReceive, PP!ProcessExists, PP!ProcessCtxErr, PP!ProcessOpen,
      PP!ProcessGenerate, PP!ProcessSave, PP!WorkerDelete, PP!callerVars, PP!workerVars
<1>2. [PP!Next]_(PP!vars)
  BY <1>1 DEF PP!Next
<1>3. PP!IInv'
  BY <1>2, ProcessorStepKeeps DEF PInv
<1>4. \A j \in Jobs : PP!Outstanding(j)' => PP!Outstanding(j)
  BY <1>1, PP!OnlyClaimsAdd DEF PInv, PP!IInv
<1>5. variants \subseteq variants'
  BY <1>1
  DEF PP!Cancel, PP!Closer, PP!CloseJobs, PP!WgWait, PP!Worker, PP!WorkerExit,
      PP!WorkerReceive, PP!ProcessExists, PP!ProcessCtxErr, PP!ProcessOpen,
      PP!ProcessGenerate, PP!ProcessSave, PP!WorkerDelete, PP!vars
<1>6. HandlerTypes'
  BY <1>1 DEF PInv, storeVars, ctxVars, reqVars
<1>7. HandlerInv'
  <2>1. \A r \in Requests : Learned(r)'
    BY <1>1, <1>5 DEF PInv, HandlerInv, Learned, storeVars, reqVars
  <2>2. \A r \in known' : StillKnown(r)'
    BY <1>1, <1>5 DEF PInv, HandlerInv, StillKnown, storeVars, reqVars
  <2>3. KnownImageServed'
    BY <1>1 DEF PInv, HandlerInv, KnownImageServed, storeVars, reqVars
  <2>4. HeldRegistered'
    BY <1>1, <1>4 DEF PInv, HandlerInv, HeldRegistered, storeVars
  <2> QED BY <2>1, <2>2, <2>3, <2>4 DEF HandlerInv
<1> QED BY <1>3, <1>6, <1>7 DEF PInv

\* A client leaves, its time is over, or a post is rendered.
LEMMA EnvironmentKeeps ==
  ASSUME PInv,
         \/ \E r \in Requests : ClientLeaves(r) \/ TimesOut(r)
         \/ \E image \in Images : Render(image)
  PROVE  PInv'
<1>1. /\ UNCHANGED <<procVars, sources, reqVars>>
      /\ registered \subseteq registered' /\ registered' \subseteq registered \cup Images
      /\ clientGone' \subseteq clientGone \cup Requests
      /\ timedOut' \subseteq timedOut \cup Requests
  BY DEF ClientLeaves, TimesOut, Render, ctxVars, storeVars
<1>2. PP!IInv' /\ \A j : PP!Outstanding(j)' <=> PP!Outstanding(j)
  BY <1>1, ResultOnlyKeeps DEF PInv, PP!IInv, PP!TypeOK, procVars
<1>3. HandlerTypes'
  BY <1>1 DEF PInv, HandlerTypes, procVars, reqVars
<1>4. HandlerInv'
  <2>1. \A r \in Requests : Learned(r)'
    BY <1>1 DEF PInv, HandlerInv, Learned, procVars, reqVars
  <2>2. \A r \in known' : StillKnown(r)'
    BY <1>1 DEF PInv, HandlerInv, StillKnown, procVars, reqVars
  <2>3. KnownImageServed'
    BY <1>1 DEF PInv, HandlerInv, KnownImageServed, reqVars
  <2>4. HeldRegistered'
    BY <1>1, <1>2 DEF PInv, HandlerInv, HeldRegistered
  <2> QED BY <2>1, <2>2, <2>3, <2>4 DEF HandlerInv
<1> QED BY <1>2, <1>3, <1>4 DEF PInv

LEMMA RestartKeeps ==
  ASSUME PInv, Restart
  PROVE  PInv'
<1>1. PP!IInv' /\ \A j \in Jobs : ~PP!Outstanding(j)'
  BY RestartKeepsProcessor DEF PInv
<1>2. HandlerTypes'
  BY WidthFacts DEF Restart, HandlerTypes
<1>3. HandlerInv'
  BY <1>1 DEF Restart, HandlerInv, Learned, KnownImageServed, HeldRegistered
<1> QED BY <1>1, <1>2, <1>3 DEF PInv

-----------------------------------------------------------------------------
(* The loop of Enqueues, and the answer after it.                          *)

LEMMA EnqueueNextKeeps ==
  ASSUME PInv, NEW r \in Requests, EnqueueNext(r)
  PROVE  PInv'
<1> DEFINE j == <<rkey[r][1], Widths[rnext[r]]>>
<1>1. /\ PP!IInv /\ HandlerTypes /\ HandlerInv
      /\ rpc[r] = "enqueue" /\ rnext[r] \in 1..Len(Widths) /\ Len(Widths) \in Nat
      /\ UNCHANGED <<storeVars, ctxVars, rpc, rkey, rres, failed, known>>
      /\ rnext' = [rnext EXCEPT ![r] = @ + 1]
  BY WidthFacts DEF PInv, HandlerTypes, EnqueueNext
<1>2. rkey[r] \in Jobs /\ rkey[r][1] \in registered
  BY <1>1 DEF HandlerInv, Learned
<1>3. j \in Jobs /\ j[1] \in registered
  BY <1>1, <1>2, WidthFacts
<1>4. PP!LoadOrStore(r, j)
  BY SameLoadOrStore DEF EnqueueNext
<1>5. PP!IInv'
  <2>1. [PP!Next]_(PP!vars)
    BY <1>3, <1>4 DEF PP!Next
  <2> QED BY <1>1, <2>1, ProcessorStepKeeps
<1>6. /\ UNCHANGED <<jobs, variants, wpc, wjob>>
      /\ \A s \in Requests \ {r} : cpc'[s] = cpc[s] /\ cjob'[s] = cjob[s]
      /\ cpc'[r] # "idle" => cjob'[r] = j
  BY <1>1, <1>4 DEF PP!IInv, PP!TypeOK, PP!LoadOrStore, PP!Return, PP!workerVars
<1>7. HandlerTypes'
  <2>1. \A s \in Requests : cpc'[s] # "idle" => rpc'[s] = "enqueue"
    BY <1>1, <1>6 DEF HandlerTypes
  <2> QED BY <1>1, <2>1 DEF HandlerTypes, storeVars, ctxVars
<1>8. HeldRegistered'
  <2>1. \A k \in Jobs : PP!Outstanding(k)' => PP!Outstanding(k) \/ k = j
    <3> TAKE k \in Jobs
    <3> HAVE PP!Outstanding(k)'
    <3>1. CASE PP!Claimed(k)'
      BY <1>6, <3>1 DEF PP!Outstanding, PP!Claimed, PP!Claims
    <3>2. CASE PP!Queued(k)' \/ PP!Running(k)'
      BY <1>6, <3>2 DEF PP!Outstanding, PP!Queued, PP!Running, PP!Processes
    <3> QED BY <3>1, <3>2 DEF PP!Outstanding
  <2> QED BY <1>1, <1>3, <2>1 DEF HandlerInv, HeldRegistered, storeVars
<1>9. HandlerInv'
  <2>1. \A s \in Requests : Learned(s)'
    BY <1>1, <1>6 DEF HandlerInv, Learned, storeVars
  <2>2. \A s \in known' : StillKnown(s)'
    BY <1>1, <1>6 DEF HandlerInv, StillKnown, storeVars
  <2>3. KnownImageServed'
    BY <1>1 DEF HandlerInv, KnownImageServed, storeVars
  <2> QED BY <1>8, <2>1, <2>2, <2>3 DEF HandlerInv
<1> QED BY <1>5, <1>7, <1>9 DEF PInv

LEMMA EnqueueEndKeeps ==
  ASSUME PInv, NEW r \in Requests, EnqueueSelect(r) \/ EnqueueUndo(r)
  PROVE  PInv'
<1>1. /\ PP!IInv /\ HandlerTypes /\ HandlerInv
      /\ rpc[r] = "enqueue"
      /\ UNCHANGED <<storeVars, ctxVars, rkey, rnext, failed, known>>
  BY DEF PInv, EnqueueSelect, EnqueueUndo, reqVars
<1>2. PP!Enqueueing(r)
  BY SameEnqueueing DEF EnqueueSelect, EnqueueUndo
<1>3. PP!IInv'
  <2>1. [PP!Next]_(PP!vars)
    BY <1>2 DEF PP!Next
  <2> QED BY <1>1, <2>1, ProcessorStepKeeps
<1>4. /\ variants' = variants
      /\ \A s \in Requests \ {r} : cpc'[s] = cpc[s]
      /\ cpc'[r] # "idle" => cres'[r] \in {"ctx", "full"}
  BY <1>1, <1>2
  DEF PP!IInv, PP!TypeOK, PP!Enqueueing, PP!Select, PP!SelectDone, PP!SelectSend,
      PP!SelectClosed, PP!SelectDefault, PP!Refuse, PP!Return, PP!Undo
<1>5. \/ UNCHANGED <<rpc, rres>>
      \/ /\ cres'[r] = "panic"
         /\ rpc' = [rpc EXCEPT ![r] = "done"]
         /\ rres' = [rres EXCEPT ![r] = "internalError"]
  BY DEF EnqueueSelect, EnqueueUndo, reqVars, Answer
<1>6. HandlerTypes'
  <2>1. \A s \in Requests : cpc'[s] # "idle" => rpc'[s] = "enqueue"
    BY <1>1, <1>4, <1>5 DEF HandlerTypes
  <2> QED BY <1>1, <1>5, <2>1 DEF HandlerTypes, storeVars, ctxVars
<1>7. HeldRegistered'
  <2>1. \A k \in Jobs : PP!Outstanding(k)' => PP!Outstanding(k)
    BY <1>1, <1>2, PP!OnlyClaimsAdd DEF PP!IInv
  <2> QED BY <1>1, <2>1 DEF HandlerInv, HeldRegistered, storeVars
<1>8. HandlerInv'
  <2>1. \A s \in Requests : Learned(s)'
    BY <1>1, <1>4, <1>5 DEF HandlerTypes, HandlerInv, Learned, storeVars
  <2>2. \A s \in known' : StillKnown(s)'
    BY <1>1, <1>4, <1>5 DEF HandlerTypes, HandlerInv, StillKnown, storeVars
  <2>3. KnownImageServed'
    BY <1>1, <1>5 DEF HandlerTypes, HandlerInv, KnownImageServed, storeVars
  <2> QED BY <1>7, <2>1, <2>2, <2>3 DEF HandlerInv
<1> QED BY <1>3, <1>6, <1>8 DEF PInv

\* The answer after the Enqueues, and the end of the request.
LEMMA EndKeeps ==
  ASSUME PInv, NEW r \in Requests, Retrieve(r) \/ Finish(r)
  PROVE  PInv'
<1>1. /\ PP!IInv /\ HandlerTypes /\ HandlerInv /\ rpc[r] # "idle"
      /\ UNCHANGED <<jobs, closed, inFlight, ctxDone, variants, cpc, cjob, wpc, wjob, closer>>
      /\ UNCHANGED <<registered, sources>>
      /\ rnext' = [rnext EXCEPT ![r] = 1]
      /\ cres' = [cres EXCEPT ![r] = "none"]
      /\ clientGone' = clientGone \ {r} /\ timedOut' = timedOut \ {r}
      /\ cpc[r] = "idle"
  BY DEF PInv, HandlerTypes, Retrieve, Finish, storeVars
<1>2. PP!IInv' /\ \A j : PP!Outstanding(j)' <=> PP!Outstanding(j)
  BY <1>1, ResultOnlyKeeps DEF PP!IInv, PP!TypeOK, PP!Results
<1>3. HeldRegistered'
  BY <1>1, <1>2 DEF HandlerInv, HeldRegistered
<1>4. CASE Retrieve(r)
  <2>1. /\ rpc[r] = "enqueue" /\ rpc' = [rpc EXCEPT ![r] = "done"]
        /\ UNCHANGED <<rkey, known>>
        /\ \/ /\ rres' = [rres EXCEPT ![r] = "source"]
              /\ failed' = failed
           \/ /\ rres' = [rres EXCEPT ![r] = "notFound"]
              /\ failed' \in {failed, failed \cup {r}}
              /\ rkey[r][1] \notin sources \/ r \in failed'
    BY <1>4 DEF Retrieve, StoreCall, Answer
  <2>2. HandlerTypes'
    <3>1. \A s \in Requests : cpc'[s] # "idle" => rpc'[s] = "enqueue"
      BY <1>1, <2>1 DEF HandlerTypes
    <3>2. failed' \subseteq Requests
      BY <1>1, <2>1 DEF HandlerTypes
    <3>3. rres' \in [Requests -> {"none", "variant", "source", "notFound", "internalError"}]
      BY <1>1, <2>1 DEF HandlerTypes
    <3> QED BY <1>1, <2>1, <3>1, <3>2, <3>3, WidthFacts DEF HandlerTypes
  <2>3. \A s \in Requests : Learned(s)'
    BY <1>1, <2>1 DEF HandlerTypes, HandlerInv, Learned
  <2>4. \A s \in known' : StillKnown(s)'
    BY <1>1, <2>1 DEF HandlerTypes, HandlerInv, StillKnown
  <2>5. KnownImageServed'
    BY <1>1, <2>1 DEF HandlerTypes, HandlerInv, KnownImageServed
  <2> QED BY <1>2, <1>3, <2>2, <2>3, <2>4, <2>5 DEF PInv, HandlerInv
<1>5. CASE Finish(r)
  <2>1. /\ rpc' = [rpc EXCEPT ![r] = "idle"] /\ rkey' = [rkey EXCEPT ![r] = NoJob]
        /\ rres' = [rres EXCEPT ![r] = "none"]
        /\ failed' = failed \ {r} /\ known' = known \ {r}
    BY <1>5 DEF Finish
  <2>2. HandlerTypes'
    <3>1. \A s \in Requests : cpc'[s] # "idle" => rpc'[s] = "enqueue"
      BY <1>1, <2>1 DEF HandlerTypes
    <3> QED BY <1>1, <2>1, <3>1, WidthFacts DEF HandlerTypes
  <2>3. \A s \in Requests : Learned(s)'
    BY <1>1, <2>1 DEF HandlerTypes, HandlerInv, Learned
  <2>4. \A s \in known' : StillKnown(s)'
    BY <1>1, <2>1 DEF HandlerTypes, HandlerInv, StillKnown
  <2>5. KnownImageServed'
    BY <1>1, <2>1 DEF HandlerTypes, HandlerInv, KnownImageServed
  <2> QED BY <1>2, <1>3, <2>2, <2>3, <2>4, <2>5 DEF PInv, HandlerInv
<1> QED BY <1>4, <1>5

-----------------------------------------------------------------------------
LEMMA PInit == Init => PInv
<1> SUFFICES ASSUME Init
             PROVE  PInv
  OBVIOUS
<1>1. PP!Init
  BY DEF Init, P!Init, PP!Init
<1>2. PP!IInv
  BY <1>1, PP!InitIInv
<1>3. HandlerTypes
  BY <1>1, WidthFacts DEF Init, HandlerTypes, PP!Init
<1>4. \A j \in Jobs : ~PP!Outstanding(j)
  BY <1>1 DEF PP!Init, PP!Outstanding, PP!Claimed, PP!Queued, PP!Running,
              PP!Claims, PP!Processes, PP!Busy
<1>5. HandlerInv
  BY <1>4 DEF Init, HandlerInv, Learned, KnownImageServed, HeldRegistered
<1> QED BY <1>2, <1>3, <1>5 DEF PInv

LEMMA PStep == PInv /\ [Next]_vars => PInv'
<1> SUFFICES ASSUME PInv, [Next]_vars
             PROVE  PInv'
  OBVIOUS
<1>1. ASSUME NEW r \in Requests,
             \/ \E key \in Jobs : Arrive(r, key)
             \/ Exists(r) \/ RetrieveKey(r) \/ GetRelativePath(r)
      PROVE  PInv'
  <2>1. UNCHANGED PP!vars
    BY <1>1 DEF Arrive, Exists, RetrieveKey, GetRelativePath, procVars, PP!vars
  <2> QED BY <1>1, <2>1, LookupKeeps, ProcessorStepKeeps DEF PInv
<1> QED
  BY <1>1, EnqueueNextKeeps, EnqueueEndKeeps, EndKeeps, BackgroundKeeps, EnvironmentKeeps,
     RestartKeeps
  DEF Next, Handle

LEMMA PInvariant == Spec => []PInv
BY PInit, PStep, PTL DEF Spec

(* Types of handler and processor: in particular a request is in the       *)
(* middle of an Enqueue only while its handler runs the loop of them.      *)
THEOREM PipelineTypes == Spec => []TypeOK
<1>1. PInv => TypeOK
  BY TypeParts DEF PInv, PP!IInv
<1> QED BY <1>1, PInvariant, PTL

(* The promise of a rendered page: whatever overtakes a request between    *)
(* its calls, a known image is answered 404 only where a store call failed *)
(* or the source is not there.                                             *)
THEOREM KnownServed == Spec => []KnownImageServed
<1>1. PInv => KnownImageServed
  BY DEF PInv, HandlerInv
<1> QED BY <1>1, PInvariant, PTL

(* No request, whatever UUID it names, makes the processor hold a job of   *)
(* an image that no post of this run of the process shows.                 *)
THEOREM JobsRegistered == Spec => []JobsOfRegisteredImages
<1>1. PInv => JobsOfRegisteredImages
  BY SameOutstanding DEF PInv, HandlerInv, HeldRegistered, JobsOfRegisteredImages
<1> QED BY <1>1, PInvariant, PTL

(* What ImageProcessor guarantees of itself holds in the composition too,  *)
(* in which requests reuse their goroutines and the process restarts: no   *)
(* job is held twice, and held jobs have their marks.                      *)
THEOREM ProcessorInPipeline == Spec => [](P!NoDuplicateJobs /\ P!OutstandingMarked)
<1>1. PInv => P!NoDuplicateJobs
  BY DEF PInv, PP!IInv, P!NoDuplicateJobs, PP!NoDuplicateJobs, P!Claims, PP!Claims,
         P!Queued, PP!Queued, P!Processes, PP!Processes, P!Busy, PP!Busy
<1>2. PInv => P!OutstandingMarked
  BY SameOutstanding DEF PInv, PP!IInv, P!OutstandingMarked, PP!OutstandingMarked,
         P!EnqueueKey, PP!EnqueueKey
<1> QED BY <1>1, <1>2, PInvariant, PTL
=============================================================================
