---------------------------- MODULE ImageProcessor ----------------------------
(***************************************************************************)
(* The image worker pool of internal/content/webp_processor.go: Processor. *)
(* Request goroutines (Callers) call Enqueue, which claims a job in the    *)
(* sync.Map inFlight and sends it, without ever waiting, to the buffered   *)
(* channel jobs.  A fixed pool of worker goroutines receives the jobs and  *)
(* writes the WebP variants to the object store.  The cancellation of the  *)
(* context given to NewProcessor stops the workers, and a closer goroutine *)
(* closes the channel and waits for them.                                  *)
(*                                                                         *)
(* A job stands for the pair (ID, Width) of ImageJob.  Its two keys are    *)
(* kept apart because the code formats them differently: Enqueue uses      *)
(* "%s_%d" and the worker "%s_%d.webp".                                    *)
(*                                                                         *)
(* A definition whose name has a suffix _Mutant... is a plausible slip in  *)
(* the code.  No action uses it; put in the place of the definition that   *)
(* follows it, it breaks the property that PROJECT.json names.             *)
(***************************************************************************)
EXTENDS Naturals, Sequences

CONSTANTS
  Jobs,       \* the (image id, width) pairs a request may ask for
  NoJob,      \* the job of a goroutine that handles none
  Callers,    \* the request goroutines that call Enqueue
  Workers,    \* the worker goroutines, workercount of NewProcessor
  QueueCap    \* the buffer of the channel, 25 in NewProcessor

ASSUME NoJobAssumption == NoJob \notin Jobs
ASSUME QueueCapAssumption == QueueCap \in Nat \ {0}

VARIABLES
  jobs,       \* the buffered channel, oldest job first
  closed,     \* close(p.jobs) has been executed
  inFlight,   \* the keys of the sync.Map
  ctxDone,    \* the context given to NewProcessor is cancelled
  variants,   \* the jobs whose WebP object is in the store
  cpc,        \* where each caller is in Enqueue
  cjob,       \* the job each caller is enqueueing
  cres,       \* how each caller's last Enqueue ended
  wpc,        \* where each worker is in worker and ProcessJob
  wjob,       \* the job each worker holds
  closer      \* where the closing goroutine of NewProcessor is

vars == <<jobs, closed, inFlight, ctxDone, variants,
          cpc, cjob, cres, wpc, wjob, closer>>
callerVars == <<cpc, cjob, cres>>
workerVars == <<wpc, wjob>>

(* The key under which Enqueue claims a job, and the key the worker        *)
(* removes when it is done with one.                                       *)
EnqueueKey(j) == <<j, "">>
WorkerKey(j) == <<j, ".webp">>
Keys == {EnqueueKey(j) : j \in Jobs} \cup {WorkerKey(j) : j \in Jobs}

\* The error Enqueue returned, or none yet.
Results == {"none", "nil", "ctx", "full", "panic"}
CallerPC == {"idle", "select", "undo"}
Busy == {"exists", "ctxErr", "open", "generate", "save", "delete"}
WorkerPC == {"idle", "exited"} \cup Busy

Init ==
  /\ jobs = <<>>
  /\ closed = FALSE
  /\ inFlight = {}
  /\ ctxDone = FALSE
  /\ variants \in SUBSET Jobs      \* the store outlives the process
  /\ cpc = [c \in Callers |-> "idle"]
  /\ cjob = [c \in Callers |-> NoJob]
  /\ cres = [c \in Callers |-> "none"]
  /\ wpc = [w \in Workers |-> "idle"]
  /\ wjob = [w \in Workers |-> NoJob]
  /\ closer = "waiting"

-----------------------------------------------------------------------------
(* Enqueue.                                                                *)

Return(c, res) ==
  /\ cpc' = [cpc EXCEPT ![c] = "idle"]
  /\ cjob' = [cjob EXCEPT ![c] = NoJob]
  /\ cres' = [cres EXCEPT ![c] = res]

\* Slips: the claim is not looked at; every return removes the mark, also
\* that of a job another goroutine claimed.
LoadOrStore_MutantUnchecked(c, j) ==
  /\ cpc[c] = "idle"
  /\ inFlight' = inFlight \cup {EnqueueKey(j)}
  /\ cpc' = [cpc EXCEPT ![c] = "select"]
  /\ cjob' = [cjob EXCEPT ![c] = j]
  /\ UNCHANGED <<jobs, closed, ctxDone, variants, cres, workerVars, closer>>

LoadOrStore_MutantForeignDelete(c, j) ==
  /\ cpc[c] = "idle"
  /\ inFlight' = IF EnqueueKey(j) \in inFlight THEN inFlight \ {EnqueueKey(j)}
                 ELSE inFlight \cup {EnqueueKey(j)}
  /\ IF EnqueueKey(j) \in inFlight
       THEN Return(c, "nil")
       ELSE /\ cpc' = [cpc EXCEPT ![c] = "select"]
            /\ cjob' = [cjob EXCEPT ![c] = j]
            /\ cres' = [cres EXCEPT ![c] = "none"]
  /\ UNCHANGED <<jobs, closed, ctxDone, variants, workerVars, closer>>

\* LoadOrStore: a key that is already there makes Enqueue return nil.
LoadOrStore(c, j) ==
  /\ cpc[c] = "idle"
  /\ IF EnqueueKey(j) \in inFlight
       THEN /\ Return(c, "nil")
            /\ UNCHANGED inFlight
       ELSE /\ inFlight' = inFlight \cup {EnqueueKey(j)}
            /\ cpc' = [cpc EXCEPT ![c] = "select"]
            /\ cjob' = [cjob EXCEPT ![c] = j]
            /\ cres' = [cres EXCEPT ![c] = "none"]
  /\ UNCHANGED <<jobs, closed, ctxDone, variants, workerVars, closer>>

\* An error return: the claim is removed by a later step.
Refuse(c, res) ==
  /\ cpc' = [cpc EXCEPT ![c] = "undo"]
  /\ cres' = [cres EXCEPT ![c] = res]
  /\ UNCHANGED <<cjob, jobs>>

(* The select of Enqueue.  Among the ready cases one is taken at random,   *)
(* the default only if none is ready; a send on a closed channel is ready  *)
(* and panics.  callerDone says whether the caller's own context is done.  *)
SelectDone(c, callerDone) ==
  /\ callerDone
  /\ Refuse(c, "ctx")

\* Slip: an unbounded queue.
SelectSend_MutantUnbounded(c) ==
  /\ ~closed
  /\ jobs' = Append(jobs, cjob[c])
  /\ Return(c, "nil")

SelectSend(c) ==
  /\ ~closed
  /\ Len(jobs) < QueueCap
  /\ jobs' = Append(jobs, cjob[c])
  /\ Return(c, "nil")

SelectClosed(c) ==
  /\ closed
  /\ Return(c, "panic")
  /\ UNCHANGED jobs

\* Slip: no default, so that the select waits for room.
SelectDefault_MutantDropped(c, callerDone) == FALSE /\ UNCHANGED vars

SelectDefault(c, callerDone) ==
  /\ ~callerDone /\ ~closed
  /\ Len(jobs) = QueueCap
  /\ Refuse(c, "full")

Select(c, callerDone) ==
  /\ cpc[c] = "select"
  /\ \/ SelectDone(c, callerDone)
     \/ SelectSend(c)
     \/ SelectClosed(c)
     \/ SelectDefault(c, callerDone)
  /\ UNCHANGED <<closed, inFlight, ctxDone, variants, workerVars, closer>>

\* inFlight.Delete of the two error cases.
Undo(c) ==
  /\ cpc[c] = "undo"
  /\ inFlight' = inFlight \ {EnqueueKey(cjob[c])}
  /\ Return(c, cres[c])
  /\ UNCHANGED <<jobs, closed, ctxDone, variants, workerVars, closer>>

-----------------------------------------------------------------------------
(* worker and ProcessJob.                                                  *)

Goto(w, pc) ==
  /\ wpc' = [wpc EXCEPT ![w] = pc]
  /\ UNCHANGED wjob

\* Slip: a default case ends the worker when there is nothing to do.
WorkerExit_MutantWhenEmpty(w) ==
  /\ wpc[w] = "idle"
  /\ ctxDone \/ jobs = <<>>
  /\ Goto(w, "exited")
  /\ UNCHANGED <<jobs, closed, inFlight, ctxDone, variants, callerVars, closer>>

\* The select of worker: with both cases ready either is taken.
WorkerExit(w) ==
  /\ wpc[w] = "idle"
  /\ ctxDone \/ (closed /\ jobs = <<>>)
  /\ Goto(w, "exited")
  /\ UNCHANGED <<jobs, closed, inFlight, ctxDone, variants, callerVars, closer>>

\* Slip: the mark is removed when the job is received, not when it is done.
WorkerReceive_MutantEarlyDelete(w) ==
  /\ wpc[w] = "idle"
  /\ jobs # <<>>
  /\ jobs' = Tail(jobs)
  /\ inFlight' = inFlight \ {EnqueueKey(Head(jobs))}
  /\ wjob' = [wjob EXCEPT ![w] = Head(jobs)]
  /\ wpc' = [wpc EXCEPT ![w] = "exists"]
  /\ UNCHANGED <<closed, ctxDone, variants, callerVars, closer>>

WorkerReceive(w) ==
  /\ wpc[w] = "idle"
  /\ jobs # <<>>
  /\ jobs' = Tail(jobs)
  /\ wjob' = [wjob EXCEPT ![w] = Head(jobs)]
  /\ wpc' = [wpc EXCEPT ![w] = "exists"]
  /\ UNCHANGED <<closed, inFlight, ctxDone, variants, callerVars, closer>>

\* store.Exists answers false for a missing object and for every error, and
\* a request under a cancelled context is an error.
ProcessExists(w) ==
  /\ wpc[w] = "exists"
  /\ \/ /\ wjob[w] \in variants /\ ~ctxDone
        /\ Goto(w, "delete")
     \/ Goto(w, "ctxErr")
  /\ UNCHANGED <<jobs, closed, inFlight, ctxDone, variants, callerVars, closer>>

\* Slip: a cancelled context is retried like any other failure.
ProcessCtxErr_MutantRetry(w) ==
  /\ wpc[w] = "ctxErr"
  /\ Goto(w, IF ctxDone THEN "exists" ELSE "open")
  /\ UNCHANGED <<jobs, closed, inFlight, ctxDone, variants, callerVars, closer>>

ProcessCtxErr(w) ==
  /\ wpc[w] = "ctxErr"
  /\ Goto(w, IF ctxDone THEN "delete" ELSE "open")
  /\ UNCHANGED <<jobs, closed, inFlight, ctxDone, variants, callerVars, closer>>

\* store.Open fails for a missing source, a store error or a cancelled context.
ProcessOpen(w) ==
  /\ wpc[w] = "open"
  /\ \/ /\ ~ctxDone
        /\ Goto(w, "generate")
     \/ Goto(w, "delete")
  /\ UNCHANGED <<jobs, closed, inFlight, ctxDone, variants, callerVars, closer>>

\* generateVariant fails on an image it cannot decode or encode, and tests
\* the context after decoding.
ProcessGenerate(w) ==
  /\ wpc[w] = "generate"
  /\ \/ /\ ~ctxDone
        /\ Goto(w, "save")
     \/ Goto(w, "delete")
  /\ UNCHANGED <<jobs, closed, inFlight, ctxDone, variants, callerVars, closer>>

\* store.Save: the upload may take effect or not, whatever the error says (an
\* upload under way may land after the cancellation); the error is only logged.
ProcessSave(w) ==
  /\ wpc[w] = "save"
  /\ variants' \in {variants, variants \cup {wjob[w]}}
  /\ Goto(w, "delete")
  /\ UNCHANGED <<jobs, closed, inFlight, ctxDone, callerVars, closer>>

\* inFlight.Delete after ProcessJob, with the worker's key.
WorkerDelete(w) ==
  /\ wpc[w] = "delete"
  /\ inFlight' = inFlight \ {WorkerKey(wjob[w])}
  /\ wpc' = [wpc EXCEPT ![w] = "idle"]
  /\ wjob' = [wjob EXCEPT ![w] = NoJob]
  /\ UNCHANGED <<jobs, closed, ctxDone, variants, callerVars, closer>>

-----------------------------------------------------------------------------
(* Shutdown: the signal cancels the context, the closer closes the channel *)
(* and waits for the workers.                                              *)

Cancel ==
  /\ ~ctxDone
  /\ ctxDone' = TRUE
  /\ UNCHANGED <<jobs, closed, inFlight, variants, callerVars, workerVars, closer>>

CloseJobs ==
  /\ closer = "waiting"
  /\ ctxDone
  /\ closed' = TRUE
  /\ closer' = "wgWait"
  /\ UNCHANGED <<jobs, inFlight, ctxDone, variants, callerVars, workerVars>>

WgWait ==
  /\ closer = "wgWait"
  /\ \A w \in Workers : wpc[w] = "exited"
  /\ closer' = "complete"
  /\ UNCHANGED <<jobs, closed, inFlight, ctxDone, variants, callerVars, workerVars>>

-----------------------------------------------------------------------------
Enqueueing(c) == (\E callerDone \in BOOLEAN : Select(c, callerDone)) \/ Undo(c)

Worker(w) ==
  \/ WorkerExit(w)
  \/ WorkerReceive(w)
  \/ ProcessExists(w)
  \/ ProcessCtxErr(w)
  \/ ProcessOpen(w)
  \/ ProcessGenerate(w)
  \/ ProcessSave(w)
  \/ WorkerDelete(w)

Closer == CloseJobs \/ WgWait

Next ==
  \/ \E c \in Callers : (\E j \in Jobs : LoadOrStore(c, j)) \/ Enqueueing(c)
  \/ \E w \in Workers : Worker(w)
  \/ Cancel
  \/ Closer

Spec == Init /\ [][Next]_vars

(* The scheduler runs a goroutine that can run.  An Enqueue that has begun *)
(* runs on, without counting on its caller's timeout; nobody need ever     *)
(* begin one, and the signal need not come.                                *)
CallerFairness == \A c \in Callers : WF_vars(Select(c, FALSE) \/ Undo(c))
PoolFairness == (\A w \in Workers : WF_vars(Worker(w))) /\ WF_vars(Closer)

FairSpec == Spec /\ CallerFairness

-----------------------------------------------------------------------------
(* Properties.                                                             *)

\* Types; a goroutine in the middle of Enqueue or ProcessJob, and only such a
\* one, holds a job; the channel respects its capacity.
TypeOK ==
  /\ jobs \in Seq(Jobs) /\ Len(jobs) <= QueueCap
  /\ closed \in BOOLEAN
  /\ inFlight \subseteq Keys
  /\ ctxDone \in BOOLEAN
  /\ variants \subseteq Jobs
  /\ cpc \in [Callers -> CallerPC]
  /\ cjob \in [Callers -> Jobs \cup {NoJob}]
  /\ cres \in [Callers -> Results]
  /\ wpc \in [Workers -> WorkerPC]
  /\ wjob \in [Workers -> Jobs \cup {NoJob}]
  /\ closer \in {"waiting", "wgWait", "complete"}
  /\ \A c \in Callers : cpc[c] # "idle" <=> cjob[c] \in Jobs
  /\ \A w \in Workers : wpc[w] \in Busy <=> wjob[w] \in Jobs

Claims(c, j) == cpc[c] # "idle" /\ cjob[c] = j
Queued(j) == \E i \in 1..Len(jobs) : jobs[i] = j
Processes(w, j) == wpc[w] \in Busy /\ wjob[w] = j

Claimed(j) == \E c \in Callers : Claims(c, j)
Running(j) == \E w \in Workers : Processes(w, j)

\* A job some goroutine or the channel still holds.
Outstanding(j) == Claimed(j) \/ Queued(j) \/ Running(j)

(* Enqueue's "no duplicated jobs": however the callers and the workers are *)
(* interleaved, a job is never held twice, whether by two callers, twice   *)
(* in the channel, by two workers (which would write the same object at    *)
(* the same time), or by two of these places.                              *)
NoDuplicateJobs ==
  \A j \in Jobs :
    /\ \A c1, c2 \in Callers : Claims(c1, j) /\ Claims(c2, j) => c1 = c2
    /\ \A i, k \in 1..Len(jobs) : jobs[i] = j /\ jobs[k] = j => i = k
    /\ \A w1, w2 \in Workers : Processes(w1, j) /\ Processes(w2, j) => w1 = w2
    /\ \A c \in Callers : Claims(c, j) =>
         ~Queued(j) /\ \A w \in Workers : ~Processes(w, j)
    /\ \A w \in Workers : Processes(w, j) => ~Queued(j)

(* The sync.Map knows of every job that is held: the mark is set before    *)
(* the send and no other goroutine's Delete takes it away meanwhile.       *)
OutstandingMarked == \A j \in Jobs : Outstanding(j) => EnqueueKey(j) \in inFlight

(* The select of Enqueue has a default: an Enqueue that has begun returns, *)
(* even if no worker ever takes a step and the queue stays full.           *)
EnqueueReturns == \A c \in Callers : cpc[c] # "idle" ~> cpc[c] = "idle"

(* After the signal every worker exits and the closer's wg.Wait returns,   *)
(* whatever is still in the channel and whoever still sends.               *)
ShutdownCompletes == PoolFairness => (ctxDone ~> closer = "complete")

(* Until shutdown, a job that Enqueue accepted is taken by a worker: none  *)
(* is left in the channel for ever.                                        *)
AcceptedIsTaken ==
  PoolFairness => \A j \in Jobs : Queued(j) ~> (~Queued(j) \/ ctxDone)

(* What "no duplicated jobs" asks of inFlight besides: outside shutdown a  *)
(* job is only refused as a duplicate while it is being worked on.  The    *)
(* worker deletes another key than Enqueue stored, so this is violated.    *)
MarkMeansOutstanding ==
  ~ctxDone => \A j \in Jobs : EnqueueKey(j) \in inFlight => Outstanding(j)

(* The README's graceful shutdown lets in-flight requests complete: no     *)
(* request's Enqueue may panic.  The closer closes the channel while       *)
(* requests are being drained, so this is violated.                        *)
NoEnqueuePanics == \A c \in Callers : cres[c] # "panic"

-----------------------------------------------------------------------------
(* Refinement: the life of a job as its claim, channel and worker show it. *)

LifeOf(j) ==
  IF Claimed(j) THEN "claimed"
  ELSE IF Queued(j) THEN "queued"
  ELSE IF Running(j) THEN "running"
  ELSE IF EnqueueKey(j) \in inFlight THEN "spent"
  ELSE "free"

life == [j \in Jobs |-> LifeOf(j)]

Lifecycle == INSTANCE VariantLifecycle

(* The pool implements the life of a variant: every step of every goroutine *)
(* is one step in the life of one job or none at all, so a job runs at most *)
(* once in the life of the process and its variant is stored only by its    *)
(* own run.                                                                 *)
ImplementsLifecycle == Lifecycle!LSpec
=============================================================================
