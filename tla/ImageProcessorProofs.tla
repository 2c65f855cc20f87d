------------------------- MODULE ImageProcessorProofs -------------------------
(***************************************************************************)
(* Proofs about ImageProcessor, for every set of jobs, callers and workers *)
(* and every capacity of the channel.                                      *)
(***************************************************************************)
EXTENDS ImageProcessor, SequenceTheorems, TLAPS

(* The three invariants are inductive together.  A second claim of a job   *)
(* is impossible because every holder's mark is in inFlight; a mark stays  *)
(* there while the job is held because only the claiming caller deletes    *)
(* the key Enqueue stored, and that caller is the job's only holder.       *)
IInv == TypeOK /\ NoDuplicateJobs /\ OutstandingMarked

LEMMA KeyFacts ==
  ASSUME NEW j \in Jobs, NEW k \in Jobs
  PROVE  /\ EnqueueKey(j) \in Keys
         /\ WorkerKey(j) \in Keys
         /\ EnqueueKey(j) # WorkerKey(k)
         /\ EnqueueKey(j) = EnqueueKey(k) => j = k
BY DEF EnqueueKey, WorkerKey, Keys

(* The initial states satisfy the type invariant. *)
LEMMA InitTypeOK == Init => TypeOK
<1> SUFFICES ASSUME Init
             PROVE  TypeOK
  OBVIOUS
<1>1. jobs \in Seq(Jobs) /\ Len(jobs) <= QueueCap
  BY QueueCapAssumption DEF Init
<1>2. inFlight \subseteq Keys
  BY DEF Init
<1> QED
  BY <1>1, <1>2, NoJobAssumption DEF Init, TypeOK, CallerPC, Results, WorkerPC, Busy

LEMMA StepTypeOK == TypeOK /\ [Next]_vars => TypeOK'
<1> SUFFICES ASSUME TypeOK, [Next]_vars
             PROVE  TypeOK'
  OBVIOUS
<1> USE NoJobAssumption, QueueCapAssumption
<1>1. ASSUME NEW c \in Callers, NEW j \in Jobs, LoadOrStore(c, j)
      PROVE  TypeOK'
  <2>1. CASE EnqueueKey(j) \in inFlight
    BY <1>1, <2>1 DEF TypeOK, LoadOrStore, Return, CallerPC, Results, workerVars
  <2>2. CASE EnqueueKey(j) \notin inFlight
    BY <1>1, <2>2, KeyFacts DEF TypeOK, LoadOrStore, CallerPC, Results, workerVars
  <2> QED
    BY <2>1, <2>2
<1>2. ASSUME NEW c \in Callers, NEW d \in BOOLEAN, Select(c, d)
      PROVE  TypeOK'
  <2>1. cjob[c] \in Jobs
    BY <1>2 DEF Select, TypeOK
  <2>2. CASE SelectDone(c, d) \/ SelectDefault(c, d)
    BY <1>2, <2>1, <2>2
    DEF TypeOK, Select, SelectDone, SelectDefault, Refuse, CallerPC, Results, workerVars
  <2>3. CASE SelectSend(c)
    <3>1. /\ jobs' \in Seq(Jobs)
          /\ Len(jobs') = Len(jobs) + 1
      BY <2>1, <2>3, AppendProperties DEF TypeOK, SelectSend
    <3>2. Len(jobs') <= QueueCap
      BY <3>1, <2>3, LenProperties DEF TypeOK, SelectSend
    <3> QED
      BY <1>2, <2>1, <2>3, <3>1, <3>2
      DEF TypeOK, Select, SelectSend, Return, CallerPC, Results, workerVars
  <2>4. CASE SelectClosed(c)
    BY <1>2, <2>4
    DEF TypeOK, Select, SelectClosed, Return, CallerPC, Results, workerVars
  <2> QED
    BY <1>2, <2>2, <2>3, <2>4 DEF Select
<1>3. ASSUME NEW c \in Callers, Undo(c)
      PROVE  TypeOK'
  BY <1>3 DEF TypeOK, Undo, Return, CallerPC, workerVars
<1>4. ASSUME NEW w \in Workers, Worker(w)
      PROVE  TypeOK'
  <2>1. CASE WorkerReceive(w)
    <3>1. /\ Head(jobs) \in Jobs
          /\ Tail(jobs) \in Seq(Jobs)
          /\ Len(Tail(jobs)) = Len(jobs) - 1
      BY <2>1, HeadTailProperties DEF TypeOK, WorkerReceive
    <3>2. Len(jobs') <= QueueCap
      BY <2>1, <3>1, LenProperties DEF TypeOK, WorkerReceive
    <3> QED
      BY <2>1, <3>1, <3>2 DEF TypeOK, WorkerReceive, WorkerPC, Busy, callerVars
  <2>2. CASE WorkerExit(w)
    BY <2>2 DEF TypeOK, WorkerExit, Goto, WorkerPC, Busy, callerVars
  <2>3. CASE \/ ProcessExists(w) \/ ProcessCtxErr(w) \/ ProcessOpen(w) \/ ProcessGenerate(w)
    BY <2>3
    DEF TypeOK, ProcessExists, ProcessCtxErr, ProcessOpen, ProcessGenerate, Goto,
        WorkerPC, Busy, callerVars
  <2>4. CASE ProcessSave(w)
    BY <2>4 DEF TypeOK, ProcessSave, Goto, WorkerPC, Busy, callerVars
  <2>5. CASE WorkerDelete(w)
    BY <2>5 DEF TypeOK, WorkerDelete, WorkerPC, Busy, callerVars
  <2> QED
    BY <1>4, <2>1, <2>2, <2>3, <2>4, <2>5 DEF Worker
<1>5. CASE Cancel \/ Closer
  BY <1>5 DEF TypeOK, Cancel, Closer, CloseJobs, WgWait, callerVars, workerVars
<1>6. CASE UNCHANGED vars
  BY <1>6 DEF TypeOK, vars
<1> QED
  BY <1>1, <1>2, <1>3, <1>4, <1>5, <1>6 DEF Next, Enqueueing

(* The channel stays within its capacity and every goroutine in the middle *)
(* of Enqueue or ProcessJob holds a job.                                   *)
THEOREM TypeCorrect == Spec => []TypeOK
<1>1. Init => TypeOK
  BY InitTypeOK
<1>2. TypeOK /\ [Next]_vars => TypeOK'
  BY StepTypeOK
<1> QED
  BY <1>1, <1>2, PTL DEF Spec
-----------------------------------------------------------------------------
(* NoDuplicateJobs and OutstandingMarked.                                  *)

(* A step after which no goroutine holds a job it did not hold before, and *)
(* which leaves the channel and the marks of held jobs alone.              *)
LEMMA HoldersOnlyLeave ==
  ASSUME NoDuplicateJobs, OutstandingMarked,
         jobs' = jobs,
         \A c \in Callers, j \in Jobs : Claims(c, j)' => Claims(c, j),
         \A w \in Workers, j \in Jobs : Processes(w, j)' => Processes(w, j),
         \A j \in Jobs : Outstanding(j)' /\ EnqueueKey(j) \in inFlight
                           => EnqueueKey(j) \in inFlight'
  PROVE  NoDuplicateJobs' /\ OutstandingMarked'
<1>1. \A j \in Jobs : Queued(j)' <=> Queued(j)
  BY DEF Queued
<1>2. NoDuplicateJobs'
  BY <1>1 DEF NoDuplicateJobs
<1>3. \A j \in Jobs : Outstanding(j)' => Outstanding(j)
  BY <1>1 DEF Outstanding, Claimed, Running
<1>4. OutstandingMarked'
  BY <1>3 DEF OutstandingMarked, EnqueueKey
<1> QED
  BY <1>2, <1>4

LEMMA LoadOrStoreKeeps ==
  ASSUME IInv, NEW c \in Callers, NEW j \in Jobs, LoadOrStore(c, j)
  PROVE  NoDuplicateJobs' /\ OutstandingMarked'
<1> USE DEF IInv
<1>1. CASE EnqueueKey(j) \in inFlight
  <2>1. /\ jobs' = jobs /\ inFlight' = inFlight
        /\ \A d \in Callers, k \in Jobs : Claims(d, k)' => Claims(d, k)
        /\ \A w \in Workers, k \in Jobs : Processes(w, k)' => Processes(w, k)
    BY <1>1 DEF TypeOK, LoadOrStore, Return, Claims, Processes, workerVars
  <2> QED
    BY <2>1, HoldersOnlyLeave
<1>2. CASE EnqueueKey(j) \notin inFlight
  <2>1. ~Outstanding(j)
    BY <1>2 DEF OutstandingMarked
  <2>2. /\ jobs' = jobs /\ inFlight' = inFlight \cup {EnqueueKey(j)}
        /\ \A d \in Callers, k \in Jobs :
             Claims(d, k)' <=> Claims(d, k) \/ (d = c /\ k = j)
        /\ \A w \in Workers, k \in Jobs : Processes(w, k)' <=> Processes(w, k)
    BY <1>2 DEF TypeOK, LoadOrStore, Claims, Processes, workerVars
  <2>3. \A k \in Jobs : Queued(k)' <=> Queued(k)
    BY <2>2 DEF Queued
  <2>4. NoDuplicateJobs'
    BY <2>1, <2>2, <2>3 DEF NoDuplicateJobs, Outstanding, Claimed, Running
  <2>5. \A k \in Jobs : Outstanding(k)' => Outstanding(k) \/ k = j
    BY <2>2, <2>3 DEF Outstanding, Claimed, Running
  <2>6. OutstandingMarked'
    BY <2>2, <2>5 DEF OutstandingMarked, EnqueueKey
  <2> QED
    BY <2>4, <2>6
<1> QED
  BY <1>1, <1>2

LEMMA SelectKeeps ==
  ASSUME IInv, NEW c \in Callers, NEW d \in BOOLEAN, Select(c, d)
  PROVE  NoDuplicateJobs' /\ OutstandingMarked'
<1> USE DEF IInv
<1>1. inFlight' = inFlight /\ \A w \in Workers, k \in Jobs : Processes(w, k)' <=> Processes(w, k)
  BY DEF Select, Processes, workerVars
<1>2. CASE SelectDone(c, d) \/ SelectDefault(c, d)
  <2>1. jobs' = jobs /\ \A e \in Callers, k \in Jobs : Claims(e, k)' => Claims(e, k)
    BY <1>2 DEF TypeOK, Select, SelectDone, SelectDefault, Refuse, Claims
  <2> QED
    BY <1>1, <2>1, HoldersOnlyLeave
<1>3. CASE SelectClosed(c)
  <2>1. jobs' = jobs /\ \A e \in Callers, k \in Jobs : Claims(e, k)' => Claims(e, k)
    BY <1>3 DEF TypeOK, SelectClosed, Return, Claims
  <2> QED
    BY <1>1, <2>1, HoldersOnlyLeave
<1>4. CASE SelectSend(c)
  <2> DEFINE j == cjob[c]
  <2>1. j \in Jobs /\ Claims(c, j)
    BY DEF Select, TypeOK, Claims
  <2>2. /\ \A w \in Workers : ~Processes(w, j)
        /\ ~Queued(j)
        /\ \A e \in Callers : Claims(e, j) => e = c
    BY <2>1 DEF NoDuplicateJobs
  <2>3. /\ Len(jobs') = Len(jobs) + 1
        /\ \A i \in 1..Len(jobs) : jobs'[i] = jobs[i]
        /\ jobs'[Len(jobs) + 1] = j
        /\ Len(jobs) \in Nat
    BY <1>4, <2>1, AppendProperties, LenProperties DEF TypeOK, SelectSend
  <2>4. \A k \in Jobs : Queued(k)' <=> Queued(k) \/ k = j
    BY <2>3 DEF Queued
  <2>5. \A e \in Callers, k \in Jobs : Claims(e, k)' <=> Claims(e, k) /\ e # c
    BY <1>4 DEF TypeOK, SelectSend, Return, Claims
  <2>6. \A k \in Jobs : \A i, l \in 1..Len(jobs') : jobs'[i] = k /\ jobs'[l] = k => i = l
    <3> TAKE k \in Jobs
    <3> TAKE i, l \in 1..Len(jobs')
    <3> HAVE jobs'[i] = k /\ jobs'[l] = k
    <3>1. CASE k = j
      BY <2>2, <2>3, <3>1 DEF Queued
    <3>2. CASE k # j
      <4>1. i \in 1..Len(jobs) /\ l \in 1..Len(jobs)
        BY <2>3, <3>2
      <4> QED
        BY <2>3, <4>1 DEF NoDuplicateJobs
    <3> QED
      BY <3>1, <3>2
  <2>7. NoDuplicateJobs'
    BY <1>1, <2>1, <2>2, <2>4, <2>5, <2>6 DEF NoDuplicateJobs
  <2>8. \A k \in Jobs : Outstanding(k)' => Outstanding(k)
    BY <1>1, <2>1, <2>4, <2>5 DEF Outstanding, Claimed, Running
  <2>9. OutstandingMarked'
    BY <1>1, <2>8 DEF OutstandingMarked, EnqueueKey
  <2> QED
    BY <2>7, <2>9
<1> QED
  BY <1>2, <1>3, <1>4 DEF Select

LEMMA UndoKeeps ==
  ASSUME IInv, NEW c \in Callers, Undo(c)
  PROVE  NoDuplicateJobs' /\ OutstandingMarked'
<1> USE DEF IInv
<1>1. PICK j \in Jobs : cjob[c] = j /\ Claims(c, j)
  BY DEF Undo, TypeOK, Claims
<1>2. /\ jobs' = jobs /\ inFlight' = inFlight \ {EnqueueKey(j)}
      /\ \A e \in Callers, k \in Jobs : Claims(e, k)' => Claims(e, k) /\ e # c
      /\ \A w \in Workers, k \in Jobs : Processes(w, k)' => Processes(w, k)
  BY <1>1 DEF TypeOK, Undo, Return, Claims, Processes, workerVars
<1>3. ~Outstanding(j)'
  <2>1. /\ ~Queued(j)
        /\ \A w \in Workers : ~Processes(w, j)
        /\ \A e \in Callers : Claims(e, j) => e = c
    BY <1>1 DEF NoDuplicateJobs
  <2>2. ~Queued(j)'
    BY <1>2, <2>1 DEF Queued
  <2> QED
    BY <1>2, <2>1, <2>2 DEF Outstanding, Claimed, Running
<1>4. \A k \in Jobs : Outstanding(k)' /\ EnqueueKey(k) \in inFlight
                        => EnqueueKey(k) \in inFlight'
  BY <1>1, <1>2, <1>3, KeyFacts
<1> QED
  BY <1>2, <1>4, HoldersOnlyLeave

LEMMA WorkerKeeps ==
  ASSUME IInv, NEW w \in Workers, Worker(w)
  PROVE  NoDuplicateJobs' /\ OutstandingMarked'
<1> USE DEF IInv
<1>0. \A c \in Callers, k \in Jobs : Claims(c, k)' <=> Claims(c, k)
  BY DEF Worker, WorkerExit, WorkerReceive, ProcessExists, ProcessCtxErr, ProcessOpen,
         ProcessGenerate, ProcessSave, WorkerDelete, callerVars, Claims
<1>1. CASE \/ WorkerExit(w) \/ ProcessExists(w) \/ ProcessCtxErr(w) \/ ProcessOpen(w)
           \/ ProcessGenerate(w) \/ ProcessSave(w)
  <2>1. /\ jobs' = jobs /\ inFlight' = inFlight
        /\ \A v \in Workers, k \in Jobs : Processes(v, k)' => Processes(v, k)
    BY <1>1
    DEF TypeOK, WorkerExit, ProcessExists, ProcessCtxErr, ProcessOpen, ProcessGenerate,
        ProcessSave, Goto, Processes, Busy
  <2> QED
    BY <1>0, <2>1, HoldersOnlyLeave
<1>2. CASE WorkerDelete(w)
  <2>1. /\ jobs' = jobs /\ inFlight' = inFlight \ {WorkerKey(wjob[w])}
        /\ \A v \in Workers, k \in Jobs : Processes(v, k)' => Processes(v, k)
        /\ wjob[w] \in Jobs
    BY <1>2 DEF TypeOK, WorkerDelete, Processes, Busy
  <2>2. \A k \in Jobs : EnqueueKey(k) \in inFlight => EnqueueKey(k) \in inFlight'
    BY <2>1, KeyFacts
  <2> QED
    BY <1>0, <2>1, <2>2, HoldersOnlyLeave
<1>3. CASE WorkerReceive(w)
  <2> DEFINE j == Head(jobs)
  <2>1. /\ j \in Jobs /\ j = jobs[1] /\ jobs' = Tail(jobs)
        /\ Len(jobs) \in Nat /\ Len(jobs) > 0 /\ Len(jobs') = Len(jobs) - 1
        /\ \A i \in 1..Len(jobs') : jobs'[i] = jobs[i + 1]
    BY <1>3, HeadTailProperties, LenProperties, EmptySeq DEF TypeOK, WorkerReceive
  <2>2. Queued(j)
    BY <2>1 DEF Queued
  <2>3. \A k \in Jobs : \A i, l \in 1..Len(jobs') : jobs'[i] = k /\ jobs'[l] = k => i = l
    <3> TAKE k \in Jobs
    <3> TAKE i, l \in 1..Len(jobs')
    <3> HAVE jobs'[i] = k /\ jobs'[l] = k
    <3>1. /\ i + 1 \in 1..Len(jobs) /\ l + 1 \in 1..Len(jobs)
          /\ jobs[i + 1] = k /\ jobs[l + 1] = k
      BY <2>1
    <3>2. i + 1 = l + 1
      BY <3>1 DEF NoDuplicateJobs
    <3> QED
      BY <3>2
  <2>4. \A k \in Jobs : Queued(k)' => Queued(k) /\ k # j
    <3> TAKE k \in Jobs
    <3> HAVE Queued(k)'
    <3>1. PICK i \in 1..Len(jobs') : jobs'[i] = k
      BY DEF Queued
    <3>2. i + 1 \in 1..Len(jobs) /\ jobs[i + 1] = k /\ i + 1 # 1
      BY <2>1, <3>1
    <3>3. k # j
      BY <2>1, <3>2 DEF NoDuplicateJobs
    <3> QED
      BY <3>2, <3>3 DEF Queued
  <2>5. \A v \in Workers, k \in Jobs :
          Processes(v, k)' <=> Processes(v, k) \/ (v = w /\ k = j)
    BY <1>3, <2>1 DEF TypeOK, WorkerReceive, Processes, Busy
  <2>6. /\ \A c \in Callers : ~Claims(c, j)
        /\ \A v \in Workers : ~Processes(v, j)
    BY <2>1, <2>2 DEF NoDuplicateJobs
  <2>7. NoDuplicateJobs'
    BY <1>0, <2>1, <2>3, <2>4, <2>5, <2>6 DEF NoDuplicateJobs
  <2>8. \A k \in Jobs : Outstanding(k)' => Outstanding(k)
    BY <1>0, <2>2, <2>4, <2>5 DEF Outstanding, Claimed, Running
  <2>9. inFlight' = inFlight
    BY <1>3 DEF WorkerReceive
  <2>10. OutstandingMarked'
    BY <2>8, <2>9 DEF OutstandingMarked, EnqueueKey
  <2> QED
    BY <2>7, <2>10
<1> QED
  BY <1>1, <1>2, <1>3 DEF Worker

LEMMA OthersKeep ==
  ASSUME IInv, Cancel \/ Closer \/ UNCHANGED vars
  PROVE  NoDuplicateJobs' /\ OutstandingMarked'
<1>1. /\ jobs' = jobs /\ inFlight' = inFlight
      /\ \A c \in Callers, k \in Jobs : Claims(c, k)' => Claims(c, k)
      /\ \A w \in Workers, k \in Jobs : Processes(w, k)' => Processes(w, k)
  BY DEF Cancel, Closer, CloseJobs, WgWait, vars, callerVars, workerVars, Claims, Processes
<1> QED
  BY <1>1, HoldersOnlyLeave DEF IInv

(* Only a claim makes a job one that is held: every other step passes a    *)
(* held job on or lets it go.                                              *)
LEMMA OnlyClaimsAdd ==
  ASSUME TypeOK, NEW k \in Jobs,
         \/ \E c \in Callers : Enqueueing(c)
         \/ \E w \in Workers : Worker(w)
         \/ Cancel \/ Closer \/ UNCHANGED vars
  PROVE  Outstanding(k)' => Outstanding(k)
<1> USE DEF Outstanding, Claimed, Running, Claims, Processes
<1>1. ASSUME NEW c \in Callers, Enqueueing(c)
      PROVE  Outstanding(k)' => Outstanding(k)
  <2>1. \A w \in Workers : Processes(w, k)' => Processes(w, k)
    BY <1>1 DEF Enqueueing, Select, Undo, workerVars
  <2>2. CASE \E d \in BOOLEAN : Select(c, d) /\ SelectSend(c)
    <3>1. cjob[c] \in Jobs /\ cpc[c] # "idle"
      BY <2>2 DEF Select, TypeOK
    <3>2. /\ Len(jobs') = Len(jobs) + 1
          /\ \A i \in 1..Len(jobs) : jobs'[i] = jobs[i]
          /\ jobs'[Len(jobs) + 1] = cjob[c]
          /\ Len(jobs) \in Nat
      BY <2>2, <3>1, AppendProperties, LenProperties DEF TypeOK, SelectSend
    <3>3. Queued(k)' => Queued(k) \/ k = cjob[c]
      BY <3>2 DEF Queued
    <3>4. \A e \in Callers : Claims(e, k)' => Claims(e, k)
      BY <2>2 DEF TypeOK, SelectSend, Return
    <3> QED
      BY <2>1, <3>1, <3>3, <3>4
  <2>3. CASE ~ \E d \in BOOLEAN : Select(c, d) /\ SelectSend(c)
    <3>1. jobs' = jobs /\ \A e \in Callers : Claims(e, k)' => Claims(e, k)
      BY <1>1, <2>3
      DEF TypeOK, Enqueueing, Select, SelectDone, SelectClosed, SelectDefault, Undo,
          Refuse, Return
    <3> QED
      BY <2>1, <3>1 DEF Queued
  <2> QED
    BY <2>2, <2>3
<1>2. ASSUME NEW w \in Workers, Worker(w)
      PROVE  Outstanding(k)' => Outstanding(k)
  <2>1. \A c \in Callers : Claims(c, k)' => Claims(c, k)
    BY <1>2 DEF Worker, WorkerExit, WorkerReceive, ProcessExists, ProcessCtxErr, ProcessOpen,
         ProcessGenerate, ProcessSave, WorkerDelete, callerVars
  <2>2. CASE WorkerReceive(w)
    <3>1. /\ Head(jobs) = jobs[1] /\ jobs' = Tail(jobs)
          /\ Len(jobs) \in Nat /\ Len(jobs) > 0 /\ Len(jobs') = Len(jobs) - 1
          /\ \A i \in 1..Len(jobs') : jobs'[i] = jobs[i + 1]
      BY <2>2, HeadTailProperties, LenProperties, EmptySeq DEF TypeOK, WorkerReceive
    <3>2. Queued(k)' => Queued(k)
      BY <3>1 DEF Queued
    <3>3. k = jobs[1] => Queued(k)
      BY <3>1 DEF Queued
    <3>4. \A v \in Workers : Processes(v, k)' => Processes(v, k) \/ k = jobs[1]
      BY <2>2, <3>1 DEF TypeOK, WorkerReceive
    <3> QED
      BY <2>1, <3>2, <3>3, <3>4
  <2>3. CASE ~WorkerReceive(w)
    <3>1. jobs' = jobs /\ \A v \in Workers : Processes(v, k)' => Processes(v, k)
      BY <1>2, <2>3
      DEF TypeOK, Worker, WorkerExit, ProcessExists, ProcessCtxErr, ProcessOpen,
          ProcessGenerate, ProcessSave, WorkerDelete, Goto, Busy
    <3> QED
      BY <2>1, <3>1 DEF Queued
  <2> QED
    BY <2>2, <2>3
<1>3. CASE Cancel \/ Closer \/ UNCHANGED vars
  BY <1>3 DEF Cancel, Closer, CloseJobs, WgWait, vars, callerVars, workerVars, Queued
<1> QED
  BY <1>1, <1>2, <1>3

LEMMA InitIInv == Init => IInv
<1> SUFFICES ASSUME Init
             PROVE  IInv
  OBVIOUS
<1>1. \A j \in Jobs : /\ \A c \in Callers : ~Claims(c, j)
                      /\ ~Queued(j)
                      /\ \A w \in Workers : ~Processes(w, j)
  BY DEF Init, Claims, Queued, Processes, Busy
<1>2. \A i, k \in 1..Len(jobs) : i = k
  BY DEF Init
<1> QED
  BY <1>1, <1>2, InitTypeOK DEF IInv, NoDuplicateJobs, OutstandingMarked, Outstanding, Claimed, Running

LEMMA StepIInv == IInv /\ [Next]_vars => IInv'
<1> SUFFICES ASSUME IInv, [Next]_vars
             PROVE  NoDuplicateJobs' /\ OutstandingMarked'
  BY StepTypeOK DEF IInv
<1> QED
  BY LoadOrStoreKeeps, SelectKeeps, UndoKeeps, WorkerKeeps, OthersKeep DEF Next, Enqueueing

THEOREM Inductive == Spec => []IInv
<1>1. Init => IInv
  BY InitIInv
<1>2. IInv /\ [Next]_vars => IInv'
  BY StepIInv
<1> QED
  BY <1>1, <1>2, PTL DEF Spec

(* Enqueue's "no duplicated jobs" for any number of requests and workers:  *)
(* no job is claimed, queued or processed twice at the same time.          *)
THEOREM NeverDuplicated == Spec => []NoDuplicateJobs
<1>1. IInv => NoDuplicateJobs
  BY DEF IInv
<1> QED
  BY <1>1, Inductive, PTL

(* The sync.Map holds the mark of every job a goroutine or the channel     *)
(* holds.                                                                  *)
THEOREM AlwaysMarked == Spec => []OutstandingMarked
<1>1. IInv => OutstandingMarked
  BY DEF IInv
<1> QED
  BY <1>1, Inductive, PTL
-----------------------------------------------------------------------------
(* The refinement of VariantLifecycle.                                     *)

LEMMA LifeFacts ==
  ASSUME NEW j \in Jobs, NoDuplicateJobs
  PROVE  /\ LifeOf(j) = "claimed" <=> Claimed(j)
         /\ LifeOf(j) = "queued" <=> Queued(j)
         /\ LifeOf(j) = "running" <=> Running(j)
         /\ LifeOf(j) = "spent" <=> ~Outstanding(j) /\ EnqueueKey(j) \in inFlight
         /\ LifeOf(j) = "free" <=> ~Outstanding(j) /\ EnqueueKey(j) \notin inFlight
<1>1. (Claimed(j) => ~Queued(j) /\ ~Running(j)) /\ (Running(j) => ~Queued(j))
  BY DEF NoDuplicateJobs, Claimed, Running
<1> QED
  BY <1>1 DEF LifeOf, Outstanding

LEMMA LifeFactsPrimed ==
  ASSUME NEW j \in Jobs, NoDuplicateJobs'
  PROVE  /\ LifeOf(j)' = "claimed" <=> Claimed(j)'
         /\ LifeOf(j)' = "queued" <=> Queued(j)'
         /\ LifeOf(j)' = "running" <=> Running(j)'
         /\ LifeOf(j)' = "spent" <=> ~Outstanding(j)' /\ EnqueueKey(j) \in inFlight'
         /\ LifeOf(j)' = "free" <=> ~Outstanding(j)' /\ EnqueueKey(j) \notin inFlight'
<1>1. (Claimed(j)' => ~Queued(j)' /\ ~Running(j)') /\ (Running(j)' => ~Queued(j)')
  BY DEF NoDuplicateJobs, Claimed, Running
<1>2. EnqueueKey(j)' = EnqueueKey(j)
  BY DEF EnqueueKey
<1> QED
  BY <1>1, <1>2 DEF LifeOf, Outstanding

LEMMA LifeStays ==
  ASSUME NEW j \in Jobs,
         Claimed(j)' <=> Claimed(j), Queued(j)' <=> Queued(j), Running(j)' <=> Running(j),
         EnqueueKey(j) \in inFlight' <=> EnqueueKey(j) \in inFlight
  PROVE  LifeOf(j)' = LifeOf(j)
BY DEF LifeOf, EnqueueKey

(* One job moves, the others stay where they are in their lives. *)
LEMMA LifeMoves ==
  ASSUME NEW j \in Jobs, NEW from, NEW to,
         LifeOf(j) = from, LifeOf(j)' = to,
         \A k \in Jobs \ {j} : LifeOf(k)' = LifeOf(k)
  PROVE  Lifecycle!Move(j, from, to)
BY DEF Lifecycle!Move, life

LEMMA LifeStutters ==
  ASSUME \A k \in Jobs : LifeOf(k)' = LifeOf(k)
  PROVE  life' = life
BY DEF life

LEMMA LoadOrStoreLife ==
  ASSUME IInv, IInv', NEW c \in Callers, NEW j \in Jobs, LoadOrStore(c, j)
  PROVE  UNCHANGED Lifecycle!lvars \/ Lifecycle!LNext
<1> USE DEF IInv
<1>0. variants' = variants /\ \A k \in Jobs : (Queued(k)' <=> Queued(k)) /\ (Running(k)' <=> Running(k))
  BY DEF LoadOrStore, Queued, Running, Processes, workerVars
<1>1. CASE EnqueueKey(j) \in inFlight
  <2>1. \A d \in Callers, k \in Jobs : Claims(d, k)' <=> Claims(d, k)
    BY <1>1, NoJobAssumption DEF TypeOK, LoadOrStore, Return, Claims
  <2>2. inFlight' = inFlight
    BY <1>1 DEF LoadOrStore
  <2>3. \A k \in Jobs : LifeOf(k)' = LifeOf(k)
    BY <1>0, <2>1, <2>2, LifeStays DEF Claimed
  <2> QED
    BY <1>0, <2>3, LifeStutters DEF Lifecycle!lvars
<1>2. CASE EnqueueKey(j) \notin inFlight
  <2>1. LifeOf(j) = "free"
    BY <1>2, LifeFacts DEF OutstandingMarked
  <2>2. /\ inFlight' = inFlight \cup {EnqueueKey(j)}
        /\ \A d \in Callers, k \in Jobs :
             Claims(d, k)' <=> Claims(d, k) \/ (d = c /\ k = j)
    BY <1>2 DEF TypeOK, LoadOrStore, Claims
  <2>3. LifeOf(j)' = "claimed"
    BY <2>2, LifeFactsPrimed DEF Claimed
  <2>4. \A k \in Jobs \ {j} : LifeOf(k)' = LifeOf(k)
    BY <1>0, <2>2, LifeStays, KeyFacts DEF Claimed
  <2>5. Lifecycle!Claim(j)
    BY <1>0, <2>1, <2>3, <2>4, LifeMoves DEF Lifecycle!Claim
  <2> QED
    BY <2>5 DEF Lifecycle!LNext
<1> QED
  BY <1>1, <1>2

LEMMA SelectLife ==
  ASSUME IInv, IInv', NEW c \in Callers, NEW d \in BOOLEAN, Select(c, d)
  PROVE  UNCHANGED Lifecycle!lvars \/ Lifecycle!LNext
<1> USE DEF IInv
<1>0. /\ variants' = variants /\ inFlight' = inFlight
      /\ \A k \in Jobs : Running(k)' <=> Running(k)
  BY DEF Select, Running, Processes, workerVars
<1>1. PICK j \in Jobs : cjob[c] = j /\ Claims(c, j)
  BY DEF Select, TypeOK, Claims
<1>2. LifeOf(j) = "claimed"
  BY <1>1, LifeFacts DEF Claimed
<1>3. \A e \in Callers : Claims(e, j) => e = c
  BY <1>1 DEF NoDuplicateJobs
<1>4. EnqueueKey(j) \in inFlight
  BY <1>1 DEF OutstandingMarked, Outstanding, Claimed
<1>5. CASE SelectDone(c, d) \/ SelectDefault(c, d)
  <2>1. jobs' = jobs /\ \A e \in Callers, k \in Jobs : Claims(e, k)' <=> Claims(e, k)
    BY <1>5 DEF TypeOK, Select, SelectDone, SelectDefault, Refuse, Claims
  <2>2. \A k \in Jobs : LifeOf(k)' = LifeOf(k)
    BY <1>0, <2>1, LifeStays DEF Claimed, Queued
  <2> QED
    BY <1>0, <2>2, LifeStutters DEF Lifecycle!lvars
<1>6. CASE SelectClosed(c)
  <2>1. /\ jobs' = jobs
        /\ \A e \in Callers, k \in Jobs : Claims(e, k)' <=> Claims(e, k) /\ e # c
    BY <1>6 DEF TypeOK, SelectClosed, Return, Claims
  <2>2. \A k \in Jobs : Queued(k)' <=> Queued(k)
    BY <2>1 DEF Queued
  <2>3. ~Queued(j) /\ ~Running(j)
    BY <1>1 DEF NoDuplicateJobs, Running
  <2>4. ~Outstanding(j)'
    BY <1>0, <1>3, <2>1, <2>2, <2>3 DEF Outstanding, Claimed
  <2>5. LifeOf(j)' = "spent"
    BY <1>0, <1>4, <2>4, LifeFactsPrimed
  <2>6. \A k \in Jobs \ {j} : Claimed(k)' <=> Claimed(k)
    BY <1>1, <2>1 DEF Claimed, Claims
  <2>7. \A k \in Jobs \ {j} : LifeOf(k)' = LifeOf(k)
    BY <1>0, <2>2, <2>6, LifeStays
  <2>8. Lifecycle!Abandon(j)
    BY <1>0, <1>2, <2>5, <2>7, LifeMoves DEF Lifecycle!Abandon
  <2> QED
    BY <2>8 DEF Lifecycle!LNext
<1>7. CASE SelectSend(c)
  <2>1. \A e \in Callers, k \in Jobs : Claims(e, k)' <=> Claims(e, k) /\ e # c
    BY <1>7 DEF TypeOK, SelectSend, Return, Claims
  <2>2. \A k \in Jobs : Queued(k)' <=> Queued(k) \/ k = j
    <3>1. /\ Len(jobs') = Len(jobs) + 1
          /\ \A i \in 1..Len(jobs) : jobs'[i] = jobs[i]
          /\ jobs'[Len(jobs) + 1] = j
          /\ Len(jobs) \in Nat
      BY <1>1, <1>7, AppendProperties, LenProperties DEF TypeOK, SelectSend
    <3> QED
      BY <3>1 DEF Queued
  <2>3. LifeOf(j)' = "queued"
    BY <2>2, LifeFactsPrimed
  <2>4. \A k \in Jobs \ {j} : Claimed(k)' <=> Claimed(k)
    BY <1>1, <2>1 DEF Claimed, Claims
  <2>5. \A k \in Jobs \ {j} : LifeOf(k)' = LifeOf(k)
    BY <1>0, <2>2, <2>4, LifeStays
  <2>6. Lifecycle!Submit(j)
    BY <1>0, <1>2, <2>3, <2>5, LifeMoves DEF Lifecycle!Submit
  <2> QED
    BY <2>6 DEF Lifecycle!LNext
<1> QED
  BY <1>5, <1>6, <1>7 DEF Select

LEMMA UndoLife ==
  ASSUME IInv, IInv', NEW c \in Callers, Undo(c)
  PROVE  UNCHANGED Lifecycle!lvars \/ Lifecycle!LNext
<1> USE DEF IInv
<1>1. PICK j \in Jobs : cjob[c] = j /\ Claims(c, j)
  BY DEF Undo, TypeOK, Claims
<1>2. /\ jobs' = jobs /\ variants' = variants /\ inFlight' = inFlight \ {EnqueueKey(j)}
      /\ \A e \in Callers, k \in Jobs : Claims(e, k)' <=> Claims(e, k) /\ e # c
      /\ \A k \in Jobs : Running(k)' <=> Running(k)
  BY <1>1 DEF TypeOK, Undo, Return, Claims, Running, Processes, workerVars
<1>3. \A k \in Jobs : Queued(k)' <=> Queued(k)
  BY <1>2 DEF Queued
<1>4. /\ LifeOf(j) = "claimed" /\ ~Queued(j) /\ ~Running(j)
      /\ \A e \in Callers : Claims(e, j) => e = c
  BY <1>1, LifeFacts DEF NoDuplicateJobs, Claimed, Running
<1>5. ~Outstanding(j)'
  BY <1>2, <1>3, <1>4 DEF Outstanding, Claimed
<1>6. LifeOf(j)' = "free"
  BY <1>2, <1>5, LifeFactsPrimed
<1>7. \A k \in Jobs \ {j} : Claimed(k)' <=> Claimed(k)
  BY <1>1, <1>2 DEF Claimed, Claims
<1>8. \A k \in Jobs \ {j} : LifeOf(k)' = LifeOf(k)
  BY <1>2, <1>3, <1>7, LifeStays, KeyFacts
<1>9. Lifecycle!Release(j)
  BY <1>2, <1>4, <1>6, <1>8, LifeMoves DEF Lifecycle!Release
<1> QED
  BY <1>9 DEF Lifecycle!LNext
LEMMA WorkerLife ==
  ASSUME IInv, IInv', NEW w \in Workers, Worker(w)
  PROVE  UNCHANGED Lifecycle!lvars \/ Lifecycle!LNext
<1> USE DEF IInv
<1>0. \A k \in Jobs : Claimed(k)' <=> Claimed(k)
  BY DEF Worker, WorkerExit, WorkerReceive, ProcessExists, ProcessCtxErr, ProcessOpen,
         ProcessGenerate, ProcessSave, WorkerDelete, callerVars, Claims, Claimed
<1>1. CASE \/ WorkerExit(w) \/ ProcessExists(w) \/ ProcessCtxErr(w) \/ ProcessOpen(w)
           \/ ProcessGenerate(w) \/ ProcessSave(w)
  <2>1. /\ jobs' = jobs /\ inFlight' = inFlight
        /\ \A v \in Workers, k \in Jobs : Processes(v, k)' <=> Processes(v, k)
    BY <1>1
    DEF TypeOK, WorkerExit, ProcessExists, ProcessCtxErr, ProcessOpen, ProcessGenerate,
        ProcessSave, Goto, Processes, Busy
  <2>2. \A k \in Jobs : LifeOf(k)' = LifeOf(k)
    BY <1>0, <2>1, LifeStays DEF Queued, Running
  <2>3. life' = life
    BY <2>2, LifeStutters
  <2>4. CASE variants' = variants
    BY <2>3, <2>4 DEF Lifecycle!lvars
  <2>5. CASE variants' # variants
    <3>1. ProcessSave(w)
      BY <1>1, <2>5
      DEF WorkerExit, ProcessExists, ProcessCtxErr, ProcessOpen, ProcessGenerate
    <3>2. PICK j \in Jobs : wjob[w] = j /\ Processes(w, j)
      BY <3>1 DEF ProcessSave, TypeOK, Processes, Busy
    <3>3. life[j] = "running"
      BY <3>2, LifeFacts DEF life, Running
    <3>4. variants' = variants \cup {j}
      BY <2>5, <3>1, <3>2 DEF ProcessSave
    <3>5. Lifecycle!Store(j)
      BY <2>3, <3>3, <3>4 DEF Lifecycle!Store
    <3> QED
      BY <3>5 DEF Lifecycle!LNext
  <2> QED
    BY <2>4, <2>5
<1>2. CASE WorkerReceive(w)
  <2>1. PICK j \in Jobs : j = Head(jobs)
    BY <1>2, HeadTailProperties DEF TypeOK, WorkerReceive
  <2>2. /\ j = jobs[1] /\ jobs' = Tail(jobs)
        /\ Len(jobs) \in Nat /\ Len(jobs) > 0 /\ Len(jobs') = Len(jobs) - 1
        /\ \A i \in 1..Len(jobs') : jobs'[i] = jobs[i + 1]
        /\ variants' = variants /\ inFlight' = inFlight
    BY <1>2, <2>1, HeadTailProperties, LenProperties, EmptySeq DEF TypeOK, WorkerReceive
  <2>3. LifeOf(j) = "queued"
    BY <2>2, LifeFacts DEF Queued
  <2>4. \A v \in Workers, k \in Jobs :
          Processes(v, k)' <=> Processes(v, k) \/ (v = w /\ k = j)
    BY <1>2, <2>1 DEF TypeOK, WorkerReceive, Processes, Busy
  <2>5. LifeOf(j)' = "running"
    BY <2>4, LifeFactsPrimed DEF Running
  <2>6. \A k \in Jobs \ {j} : Queued(k)' <=> Queued(k)
    <3> TAKE k \in Jobs \ {j}
    <3>1. ASSUME NEW i \in 1..Len(jobs), jobs[i] = k
          PROVE  Queued(k)'
      <4>1. i - 1 \in 1..Len(jobs') /\ jobs'[i - 1] = k
        BY <2>2, <3>1
      <4> QED
        BY <4>1 DEF Queued
    <3>2. ASSUME NEW i \in 1..Len(jobs'), jobs'[i] = k
          PROVE  Queued(k)
      <4>1. i + 1 \in 1..Len(jobs) /\ jobs[i + 1] = k
        BY <2>2, <3>2
      <4> QED
        BY <4>1 DEF Queued
    <3> QED
      BY <3>1, <3>2 DEF Queued
  <2>7. \A k \in Jobs \ {j} : LifeOf(k)' = LifeOf(k)
    BY <1>0, <2>2, <2>4, <2>6, LifeStays DEF Running
  <2>8. Lifecycle!Start(j)
    BY <2>2, <2>3, <2>5, <2>7, LifeMoves DEF Lifecycle!Start
  <2> QED
    BY <2>8 DEF Lifecycle!LNext
<1>3. CASE WorkerDelete(w)
  <2>1. PICK j \in Jobs : wjob[w] = j /\ Processes(w, j)
    BY <1>3 DEF WorkerDelete, TypeOK, Processes, Busy
  <2>2. /\ jobs' = jobs /\ variants' = variants /\ inFlight' = inFlight \ {WorkerKey(j)}
        /\ \A v \in Workers, k \in Jobs : Processes(v, k)' <=> Processes(v, k) /\ v # w
    BY <1>3, <2>1, NoJobAssumption DEF TypeOK, WorkerDelete, Processes, Busy
  <2>3. \A k \in Jobs : /\ Queued(k)' <=> Queued(k)
                        /\ EnqueueKey(k) \in inFlight' <=> EnqueueKey(k) \in inFlight
    BY <2>2, KeyFacts DEF Queued
  <2>4. /\ LifeOf(j) = "running" /\ EnqueueKey(j) \in inFlight
        /\ ~Queued(j) /\ ~Claimed(j)
        /\ \A v \in Workers : Processes(v, j) => v = w
    BY <2>1, LifeFacts DEF NoDuplicateJobs, OutstandingMarked, Outstanding, Running, Claimed
  <2>5. ~Outstanding(j)'
    BY <1>0, <2>2, <2>3, <2>4 DEF Outstanding, Running
  <2>6. LifeOf(j)' = "spent"
    BY <2>3, <2>4, <2>5, LifeFactsPrimed
  <2>7. \A k \in Jobs \ {j} : Running(k)' <=> Running(k)
    BY <2>1, <2>2 DEF Running, Processes
  <2>8. \A k \in Jobs \ {j} : LifeOf(k)' = LifeOf(k)
    BY <1>0, <2>3, <2>7, LifeStays
  <2>9. Lifecycle!Finish(j)
    BY <2>2, <2>4, <2>6, <2>8, LifeMoves DEF Lifecycle!Finish
  <2> QED
    BY <2>9 DEF Lifecycle!LNext
<1> QED
  BY <1>1, <1>2, <1>3 DEF Worker

LEMMA OthersLife ==
  ASSUME Cancel \/ Closer \/ UNCHANGED vars
  PROVE  UNCHANGED Lifecycle!lvars
<1>1. /\ jobs' = jobs /\ inFlight' = inFlight /\ variants' = variants
      /\ \A k \in Jobs : (Claimed(k)' <=> Claimed(k)) /\ (Running(k)' <=> Running(k))
  BY DEF Cancel, Closer, CloseJobs, WgWait, vars, callerVars, workerVars,
         Claims, Processes, Claimed, Running
<1>2. \A k \in Jobs : LifeOf(k)' = LifeOf(k)
  BY <1>1, LifeStays DEF Queued
<1> QED
  BY <1>1, <1>2, LifeStutters DEF Lifecycle!lvars

(* Every behaviour of the pool is, job by job, a claim that is let go of   *)
(* or becomes one run; a job never runs twice in the life of the process,  *)
(* and its variant is stored only during its run.                          *)
THEOREM Refinement == Spec => ImplementsLifecycle
<1>1. Init => Lifecycle!LInit
  <2> SUFFICES ASSUME Init
               PROVE  Lifecycle!LInit
    OBVIOUS
  <2>1. \A j \in Jobs : ~Outstanding(j) /\ EnqueueKey(j) \notin inFlight
    BY DEF Init, Outstanding, Claimed, Running, Claims, Queued, Processes, Busy
  <2>2. \A j \in Jobs : LifeOf(j) = "free"
    BY <2>1, InitIInv, LifeFacts DEF IInv
  <2> QED
    BY <2>2 DEF Init, life, Lifecycle!LInit
<1>2. IInv /\ IInv' /\ [Next]_vars => [Lifecycle!LNext]_(Lifecycle!lvars)
  <2> SUFFICES ASSUME IInv, IInv', [Next]_vars
               PROVE  UNCHANGED Lifecycle!lvars \/ Lifecycle!LNext
    OBVIOUS
  <2> QED
    BY LoadOrStoreLife, SelectLife, UndoLife, WorkerLife, OthersLife DEF Next, Enqueueing
<1> QED
  BY <1>1, <1>2, Inductive, PTL DEF Spec, ImplementsLifecycle, Lifecycle!LSpec
=============================================================================
