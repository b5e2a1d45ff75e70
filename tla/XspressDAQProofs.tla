-------------------------- MODULE XspressDAQProofs --------------------------
(***************************************************************************)
(* Theorems about XspressDAQ, for every number of worker threads and every *)
(* client, and then for a client and a detector that behave.               *)
(***************************************************************************)
EXTENDS MCXspressDAQ, TLAPS, FiniteSetTheorems

-----------------------------------------------------------------------------
(* The tasks put on the queues are tasks.                                  *)
LEMMA TaskTypes ==
  /\ \A n \in Nat : Start(n) \in CtrlTask
  /\ Shutdown \in CtrlTask
  /\ \A from, to \in Int : Read(from, to) \in WorkTask
  /\ WorkerShutdown \in WorkTask
  BY DEF Start, Shutdown, Read, WorkerShutdown, CtrlTask, WorkTask

(* A task appended to one of the work queues leaves them typed.            *)
LEMMA AppendTyped ==
  ASSUME NEW q \in [Workers -> Seq(WorkTask)], NEW i, NEW t \in WorkTask
  PROVE  [q EXCEPT ![i] = Append(@, t)] \in [Workers -> Seq(WorkTask)]
<1>1. \A w \in Workers : Append(q[w], t) \in Seq(WorkTask)
  OBVIOUS
<1> QED
  BY <1>1

(* The type invariant is inductive.                                        *)
LEMMA TypeStep == TypeOK /\ [Next]_vars => TypeOK'
<1> SUFFICES ASSUME TypeOK, [Next]_vars PROVE TypeOK'
  OBVIOUS
<1> USE DAQAssumption DEF TypeOK, CtlPcs, ClientPcs, Workers,
        flags, queues, locals, workers, threads, hw, call, client, env
<1>1. CASE ClientCall
  <2>1. ASSUME NEW n \in 0 .. MaxFrames, StartDetector(n) PROVE TypeOK'
    BY <2>1 DEF StartDetector
  <2>2. CASE StopClearRunning
    BY <2>2 DEF StopClearRunning
  <2>3. CASE StopLoadFirst
    BY <2>3 DEF StopLoadFirst
  <2>4. CASE Destroy
    BY <2>4, TaskTypes DEF Destroy
  <2> QED
    BY <1>1, <2>1, <2>2, <2>3, <2>4 DEF ClientCall
<1>2. CASE ClientStep
  <2>1. CASE StartSetRunning
    BY <2>1 DEF StartSetRunning
  <2>2. CASE StartResetFrames
    BY <2>2 DEF StartResetFrames
  <2>3. CASE StartQueueTask
    BY <2>3, TaskTypes DEF StartQueueTask
  <2>4. CASE StopSeesWaiting
    BY <2>4 DEF StopSeesWaiting
  <2>5. CASE StopStoreLate
    BY <2>5 DEF StopStoreLate
  <2>6. CASE Joined
    BY <2>6 DEF Joined, Closing
  <2> QED
    BY <1>2, <2>1, <2>2, <2>3, <2>4, <2>5, <2>6 DEF ClientStep
<1>3. CASE HwFrame
  BY <1>3 DEF HwFrame
<1>4. CASE CtlStep
  <2>1. CASE CtlReady
    BY <2>1 DEF CtlReady
  <2>2. CASE CtlRemove
    BY <2>2 DEF CtlRemove
  <2>3. CASE CtlTaken
    <3>1. sent' \in [Workers -> Int]
      BY <2>3 DEF CtlTaken
    <3>2. waiting' \in BOOLEAN /\ failed' \in BOOLEAN
      BY <2>3 DEF CtlTaken
    <3>3. /\ numFrames' \in Int /\ framesRead' \in Int
          /\ nextWorker' \in Nat \ {0} /\ ctlPc' \in CtlPcs
      BY <2>3 DEF CtlTaken
    <3>4. UNCHANGED <<running, frames, task, collected, wpc, at, upto, ctrlQ,
                      workQ, doneQ, hwCount, hwFrames, cpc, request, starts>>
      BY <2>3 DEF CtlTaken
    <3> QED
      BY <3>1, <3>2, <3>3, <3>4
  <2>4. CASE CtlLoop
    BY <2>4 DEF CtlLoop
  <2>5. CASE CtlPoll
    BY <2>5 DEF CtlPoll
  <2>6. CASE CtlPollError
    BY <2>6 DEF CtlPollError
  <2>7. CASE CtlDispatch
    <3>1. Read(framesRead, numFrames) \in WorkTask
      BY TaskTypes
    <3>2. workQ' \in [Workers -> Seq(WorkTask)]
      BY <2>7, <3>1, AppendTyped DEF CtlDispatch
    <3> QED
      BY <2>7, <3>2 DEF CtlDispatch
  <2>8. CASE CtlCollect
    BY <2>8 DEF CtlCollect
  <2>9. CASE CtlAck
    BY <2>9 DEF CtlAck
  <2>10. CASE CtlPublish
    BY <2>10 DEF CtlPublish
  <2>11. CASE CtlFail
    BY <2>11 DEF CtlFail
  <2>12. CASE CtlAbort
    BY <2>12 DEF CtlAbort
  <2>13. CASE CtlHistogramStop
    BY <2>13 DEF CtlHistogramStop
  <2>14. CASE CtlEnd
    BY <2>14 DEF CtlEnd
  <2>15. CASE CtlShutdown
    <3>1. workQ' \in [Workers -> Seq(WorkTask)]
      BY <2>15, TaskTypes, AppendTyped DEF CtlShutdown
    <3> QED
      BY <2>15, <3>1 DEF CtlShutdown
  <2>16. CASE CtlExit
    BY <2>16 DEF CtlExit
  <2> QED
    BY <1>4, <2>1, <2>2, <2>3, <2>4, <2>5, <2>6, <2>7, <2>8, <2>9, <2>10,
       <2>11, <2>12, <2>13, <2>14, <2>15, <2>16 DEF CtlStep
<1>5. ASSUME NEW w \in Workers, WorkerStep(w) PROVE TypeOK'
  <2>1. CASE WorkerTake(w)
    <3>1. Head(workQ[w]) \in WorkTask /\ Tail(workQ[w]) \in Seq(WorkTask)
      BY <2>1 DEF WorkerTake
    <3>2. workQ' \in [Workers -> Seq(WorkTask)]
      BY <2>1, <3>1 DEF WorkerTake
    <3>3. Head(workQ[w]).from \in Int /\ Head(workQ[w]).to \in Int
      BY <3>1 DEF WorkTask
    <3>4. /\ wpc' \in [Workers -> {"idle", "read", "stopped"}]
          /\ at' \in [Workers -> Int] /\ upto' \in [Workers -> Int]
      BY <2>1, <3>3 DEF WorkerTake
    <3>5. UNCHANGED <<flags, ctrlQ, doneQ, ctlPc, locals, sent, hw, client>>
      BY <2>1 DEF WorkerTake
    <3> QED
      BY <3>2, <3>4, <3>5
  <2>2. CASE WorkerSend(w)
    BY <2>2 DEF WorkerSend, Sending
  <2>3. CASE WorkerComplete(w)
    BY <2>3 DEF WorkerComplete
  <2> QED
    BY <1>5, <2>1, <2>2, <2>3 DEF WorkerStep
<1>6. CASE UNCHANGED vars
  BY <1>6 DEF vars
<1> QED
  BY <1>1, <1>2, <1>3, <1>4, <1>5, <1>6 DEF Next

(* Every variable always has the type of the member or local it models.    *)
THEOREM TypeCorrect == Spec => []TypeOK
<1>1. Init => TypeOK
  <2> SUFFICES ASSUME Init PROVE TypeOK
    OBVIOUS
  <2>1. task \in CtrlTask
    BY TaskTypes DEF Init
  <2>2. /\ ctrlQ \in Seq(CtrlTask)
        /\ workQ \in [Workers -> Seq(WorkTask)]
    BY DEF Init
  <2>3. /\ wpc \in [Workers -> {"idle", "read", "stopped"}]
        /\ at \in [Workers -> Int] /\ upto \in [Workers -> Int]
        /\ sent \in [Workers -> Int]
    BY DEF Init
  <2>4. /\ waiting \in BOOLEAN /\ running \in BOOLEAN /\ failed \in BOOLEAN
        /\ ctlPc \in CtlPcs /\ cpc \in ClientPcs
    BY DEF Init, CtlPcs, ClientPcs
  <2>5. /\ frames \in Int /\ numFrames \in Int /\ framesRead \in Int
        /\ doneQ \in Nat /\ collected \in Nat /\ nextWorker \in Nat \ {0}
        /\ hwCount \in Nat /\ hwFrames \in Nat /\ request \in Nat
        /\ starts \in Nat
    BY DEF Init
  <2> QED
    BY <2>1, <2>2, <2>3, <2>4, <2>5 DEF TypeOK
<1> QED
  BY <1>1, TypeStep, PTL DEF Spec
-----------------------------------------------------------------------------
(***************************************************************************)
(* The inductive invariant.  Each worker is in one of a few situations,    *)
(* which the place of the ctrl thread decides: it has the current batch    *)
(* queued, is reading it or is done with it; it has its shutdown task or   *)
(* has taken it; or it has nothing.                                        *)
(***************************************************************************)
Dispatched(w) ==
  ctlPc = "collect" \/ (ctlPc = "dispatch" /\ w < nextWorker)

Told(w) ==
  ctlPc \in {"exit", "stopped"} \/ (ctlPc = "shutdown" /\ w < nextWorker)

Queued(w) == wpc[w] = "idle" /\ workQ[w] = <<Read(framesRead, numFrames)>>

Reading(w) ==
  /\ wpc[w] = "read" /\ workQ[w] = <<>>
  /\ framesRead <= at[w] /\ upto[w] = numFrames
  /\ framesRead < numFrames => at[w] <= numFrames
  /\ framesRead < at[w] => sent[w] = at[w]

AllSent(w) == framesRead < numFrames => sent[w] = numFrames

Free(w) == wpc[w] = "idle" /\ workQ[w] = <<>>

Leaving(w) ==
  \/ wpc[w] = "idle" /\ workQ[w] = <<WorkerShutdown>>
  \/ wpc[w] = "stopped" /\ workQ[w] = <<>>

WorkerInv ==
  /\ \A w \in Workers :
       /\ Dispatched(w) => Queued(w) \/ Reading(w) \/ (Free(w) /\ AllSent(w))
       /\ Told(w) => Leaving(w)
       /\ ~Dispatched(w) /\ ~Told(w) => Free(w)
       /\ ctlPc = "ack" => AllSent(w)
  /\ ctlPc \in {"dispatch", "shutdown"} => nextWorker <= NumThreads

(* The completions of a batch: in done_queue_, collected, or still owed by *)
(* the unfinished workers.                                                 *)
Unfinished ==
  {w \in Workers : ~Dispatched(w) \/ workQ[w] # <<>> \/ wpc[w] = "read"}

CountInv ==
  /\ InBatch => /\ doneQ + collected + Cardinality(Unfinished) = NumThreads
                /\ collected < NumThreads
  /\ ctlPc = "dispatch" => collected = 0
  /\ ~InBatch => doneQ = 0

(* The two flags that stopAcquisition and the ctrl thread share.           *)
FlagInv ==
  /\ waiting => ctlPc \in {"ready", "remove", "taken"}
  /\ OrderedFlags => cpc # "late"
  /\ cpc \in {"stopping", "stopped"} => ~running
  /\ OrderedFlags /\ cpc = "stopped" => ~InLoop

-----------------------------------------------------------------------------
(* What the worker situations speak of, and what leaves all of it alone.   *)
side == <<ctlPc, numFrames, framesRead, nextWorker, workQ, wpc, at, upto, sent>>

LEMMA SideSteps ==
  ASSUME ClientCall \/ ClientStep \/ HwFrame \/ UNCHANGED vars
  PROVE  UNCHANGED <<side, doneQ, collected>>
<1> USE DEF side, vars, flags, queues, locals, workers, threads, hw, call,
            client, env
<1>1. CASE ClientCall
  BY <1>1 DEF ClientCall, StartDetector, StopClearRunning, StopLoadFirst, Destroy
<1>2. CASE ClientStep
  BY <1>2 DEF ClientStep, StartSetRunning, StartResetFrames, StartQueueTask,
              StopSeesWaiting, StopStoreLate, Joined, Closing
<1>3. CASE HwFrame
  BY <1>3 DEF HwFrame
<1>4. CASE UNCHANGED vars
  BY <1>4
<1> QED
  BY <1>1, <1>2, <1>3, <1>4

(* The steps of the ctrl thread outside a batch and outside a shutdown     *)
(* leave every worker with nothing, and owe nothing.                       *)
QuietPcs == {"ready", "remove", "taken", "loop", "poll", "ack", "publish",
             "fail", "abort", "stop", "end"}

LEMMA QuietWorkers ==
  ASSUME WorkerInv, ctlPc \in QuietPcs
  PROVE  \A w \in Workers : Free(w)
  BY DEF WorkerInv, QuietPcs, Dispatched, Told

LEMMA QuietToQuiet ==
  ASSUME WorkerInv, CountInv, ctlPc \in QuietPcs, ctlPc' \in QuietPcs \ {"ack"},
         UNCHANGED <<workQ, wpc, doneQ>>
  PROVE  WorkerInv' /\ CountInv'
<1>1. \A w \in Workers : Free(w)'
  BY QuietWorkers DEF Free
<1>2. WorkerInv'
  BY <1>1 DEF WorkerInv, QuietPcs, Dispatched, Told
<1>3. doneQ = 0
  BY DEF CountInv, QuietPcs, InBatch
<1>4. CountInv'
  BY <1>3 DEF CountInv, QuietPcs, InBatch
<1> QED
  BY <1>2, <1>4

(* All the workers are unfinished before the first is given its batch.     *)
LEMMA WorkersFinite ==
  /\ IsFiniteSet(Workers)
  /\ Cardinality(Workers) = NumThreads
  BY DAQAssumption, FS_Interval DEF Workers

LEMMA UnfinishedFinite == IsFiniteSet(Unfinished) /\ Cardinality(Unfinished) \in Nat
  BY WorkersFinite, FS_Subset, FS_CardinalityType DEF Unfinished

-----------------------------------------------------------------------------
(* The worker situations and the count are preserved together.             *)
BatchInv == TypeOK /\ WorkerInv /\ CountInv

(* A new batch: nobody has it yet, and every worker owes a completion.     *)
LEMMA PollStep == BatchInv /\ CtlPoll => WorkerInv' /\ CountInv'
<1> SUFFICES ASSUME BatchInv, CtlPoll PROVE WorkerInv' /\ CountInv'
  OBVIOUS
<1> USE DEF BatchInv, CtlPoll
<1>1. CASE ctlPc' = "loop"
  BY <1>1, QuietToQuiet DEF QuietPcs, queues, env, workers
<1>2. CASE ctlPc' = "dispatch"
  <2>1. /\ nextWorker' = 1 /\ collected' = 0
        /\ UNCHANGED <<workQ, wpc, doneQ>>
    BY <1>2 DEF queues, env, workers
  <2>2. \A w \in Workers : Free(w)' /\ ~Dispatched(w)' /\ ~Told(w)'
    BY <1>2, <2>1, QuietWorkers DEF QuietPcs, Free, Dispatched, Told, Workers
  <2>3. WorkerInv'
    BY <1>2, <2>1, <2>2, DAQAssumption DEF WorkerInv
  <2>4. Unfinished' = Workers
    BY <2>2 DEF Unfinished
  <2>5. doneQ' = 0
    BY <2>1 DEF CountInv, InBatch
  <2>6. CountInv'
    BY <1>2, <2>1, <2>4, <2>5, WorkersFinite, DAQAssumption DEF CountInv, InBatch
  <2> QED
    BY <2>3, <2>6
<1> QED
  BY <1>1, <1>2

(* One more worker is given the batch, and owes it as before.              *)
LEMMA DispatchStep == BatchInv /\ CtlDispatch => WorkerInv' /\ CountInv'
<1> SUFFICES ASSUME BatchInv, CtlDispatch PROVE WorkerInv' /\ CountInv'
  OBVIOUS
<1> USE DAQAssumption DEF BatchInv
<1>0. PICK n : n = nextWorker
  OBVIOUS
<1>1. /\ ctlPc = "dispatch" /\ nextWorker' = n + 1
      /\ ctlPc' = IF n = NumThreads THEN "collect" ELSE "dispatch"
      /\ UNCHANGED <<numFrames, framesRead, collected, doneQ, wpc, at, upto, sent>>
  BY <1>0 DEF CtlDispatch, flags, env, workers
<1>2. n \in Workers /\ n <= NumThreads
  BY <1>0, <1>1 DEF WorkerInv, TypeOK, Workers
<1>3. ~Dispatched(n) /\ Free(n)
  BY <1>0, <1>1, <1>2 DEF WorkerInv, Dispatched, Told, TypeOK
<1>4. Queued(n)'
  <2>1. workQ'[n] = Append(<<>>, Read(framesRead, numFrames))
    BY <1>0, <1>2, <1>3 DEF CtlDispatch, TypeOK, Free
  <2> QED
    BY <1>1, <1>2, <1>3, <2>1 DEF Queued, Free, Read
<1>5. \A w \in Workers \ {n} : workQ'[w] = workQ[w]
  BY <1>0 DEF CtlDispatch, TypeOK
<1>6. \A w \in Workers : Dispatched(w)' <=> Dispatched(w) \/ w = n
  BY <1>0, <1>1, <1>2 DEF Dispatched, Workers, TypeOK
<1>7. \A w \in Workers : ~Told(w) /\ ~Told(w)'
  BY <1>1 DEF Told
<1>8. WorkerInv'
  <2>1. \A w \in Workers \ {n} :
          /\ Dispatched(w)' => Queued(w)' \/ Reading(w)' \/ (Free(w)' /\ AllSent(w)')
          /\ ~Dispatched(w)' => Free(w)'
    BY <1>1, <1>5, <1>6, <1>7
    DEF WorkerInv, Queued, Reading, Free, AllSent, Read
  <2> QED
    BY <1>0, <1>1, <1>2, <1>4, <1>6, <1>7, <2>1 DEF WorkerInv, TypeOK
<1>9. Unfinished' = Unfinished
  <2>1. n \in Unfinished
    BY <1>2, <1>3 DEF Unfinished
  <2>2. workQ'[n] # <<>>
    BY <1>4 DEF Queued
  <2> QED
    BY <1>1, <1>2, <1>5, <1>6, <2>1, <2>2 DEF Unfinished
<1>10. CountInv'
  BY <1>1, <1>9, UnfinishedFinite DEF CountInv, InBatch, TypeOK
<1> QED
  BY <1>8, <1>10

(* The last completion of a batch leaves no worker unfinished.             *)
LEMMA CollectStep == BatchInv /\ CtlCollect => WorkerInv' /\ CountInv'
<1> SUFFICES ASSUME BatchInv, CtlCollect PROVE WorkerInv' /\ CountInv'
  OBVIOUS
<1> USE DAQAssumption DEF BatchInv
<1>1. /\ ctlPc = "collect" /\ doneQ > 0 /\ doneQ' = doneQ - 1
      /\ collected' = collected + 1
      /\ ctlPc' = IF collected + 1 = NumThreads THEN "ack" ELSE "collect"
      /\ UNCHANGED side \/ ctlPc' = "ack"
      /\ UNCHANGED <<numFrames, framesRead, nextWorker, workQ, wpc, at, upto, sent>>
  BY DEF CtlCollect, flags, env, workers, side
<1>2. doneQ + collected + Cardinality(Unfinished) = NumThreads
  BY <1>1 DEF CountInv, InBatch
<1>3. CASE collected + 1 = NumThreads
  <2>1. doneQ = 1 /\ Cardinality(Unfinished) = 0
    BY <1>1, <1>2, <1>3, UnfinishedFinite DEF TypeOK
  <2>2. Unfinished = {}
    BY <2>1, UnfinishedFinite, FS_EmptySet
  <2>3. \A w \in Workers : Free(w) /\ AllSent(w)
    BY <1>1, <2>2 DEF Unfinished, WorkerInv, Dispatched, Queued, Reading, Free
  <2>4. \A w \in Workers : ~Dispatched(w)' /\ ~Told(w)' /\ Free(w)' /\ AllSent(w)'
    BY <1>1, <1>3, <2>3 DEF Dispatched, Told, Free, AllSent
  <2> QED
    BY <1>1, <1>3, <2>1, <2>4 DEF WorkerInv, CountInv, InBatch
<1>4. CASE collected + 1 # NumThreads
  <2>1. ctlPc' = ctlPc
    BY <1>1, <1>4
  <2>2. WorkerInv'
    BY <1>1, <2>1
    DEF WorkerInv, Dispatched, Told, Queued, Reading, Free, AllSent, Leaving
  <2>3. Unfinished' = Unfinished
    BY <1>1, <2>1 DEF Unfinished, Dispatched
  <2>4. collected < NumThreads
    BY <1>1 DEF CountInv, InBatch
  <2>5. CountInv'
    BY <1>1, <1>2, <1>4, <2>1, <2>3, <2>4, UnfinishedFinite
    DEF CountInv, InBatch, TypeOK
  <2> QED
    BY <2>2, <2>5
<1> QED
  BY <1>3, <1>4

(* A shutdown task for one more worker: none owes a completion.            *)
LEMMA ShutdownStep == BatchInv /\ CtlShutdown => WorkerInv' /\ CountInv'
<1> SUFFICES ASSUME BatchInv, CtlShutdown PROVE WorkerInv' /\ CountInv'
  OBVIOUS
<1> USE DAQAssumption DEF BatchInv
<1>0. PICK n : n = nextWorker
  OBVIOUS
<1>1. /\ ctlPc = "shutdown" /\ nextWorker' = n + 1
      /\ ctlPc' = IF n = NumThreads THEN "exit" ELSE "shutdown"
      /\ UNCHANGED <<numFrames, framesRead, collected, doneQ, wpc, at, upto, sent>>
  BY <1>0 DEF CtlShutdown, flags, env, workers
<1>2. n \in Workers /\ n <= NumThreads
  BY <1>0, <1>1 DEF WorkerInv, TypeOK, Workers
<1>3. Free(n)
  BY <1>0, <1>1, <1>2 DEF WorkerInv, Dispatched, Told, TypeOK
<1>4. Leaving(n)'
  <2>1. workQ'[n] = Append(<<>>, WorkerShutdown)
    BY <1>0, <1>2, <1>3 DEF CtlShutdown, TypeOK, Free
  <2> QED
    BY <1>1, <1>2, <1>3, <2>1 DEF Leaving, Free, WorkerShutdown
<1>5. \A w \in Workers \ {n} : workQ'[w] = workQ[w]
  BY <1>0 DEF CtlShutdown, TypeOK
<1>6. \A w \in Workers : Told(w)' <=> Told(w) \/ w = n
  BY <1>0, <1>1, <1>2 DEF Told, Workers, TypeOK
<1>7. \A w \in Workers : ~Dispatched(w) /\ ~Dispatched(w)'
  BY <1>1 DEF Dispatched
<1>8. WorkerInv'
  <2>1. \A w \in Workers \ {n} :
          /\ Told(w)' => Leaving(w)'
          /\ ~Told(w)' => Free(w)'
    BY <1>1, <1>5, <1>6, <1>7 DEF WorkerInv, Leaving, Free
  <2> QED
    BY <1>0, <1>1, <1>2, <1>4, <1>6, <1>7, <2>1 DEF WorkerInv, TypeOK
<1>9. CountInv'
  BY <1>1 DEF CountInv, InBatch
<1> QED
  BY <1>8, <1>9

(* The other steps of the ctrl thread move no batch.                       *)
LEMMA OtherCtlSteps ==
  BatchInv /\ CtlStep /\ ~CtlPoll /\ ~CtlDispatch /\ ~CtlCollect /\ ~CtlShutdown
    => WorkerInv' /\ CountInv'
<1> SUFFICES ASSUME BatchInv, CtlStep,
                    ~CtlPoll, ~CtlDispatch, ~CtlCollect, ~CtlShutdown
             PROVE  WorkerInv' /\ CountInv'
  OBVIOUS
<1> USE DEF BatchInv, flags, queues, locals, env, workers
<1>1. CASE CtlReady \/ CtlRemove \/ CtlLoop \/ CtlPollError \/ CtlAck
             \/ CtlPublish \/ CtlFail \/ CtlAbort \/ CtlHistogramStop \/ CtlEnd
  <2>1. /\ ctlPc \in QuietPcs /\ ctlPc' \in QuietPcs \ {"ack"}
        /\ UNCHANGED <<workQ, wpc, doneQ>>
    BY <1>1 DEF QuietPcs, CtlReady, CtlRemove, CtlLoop, CtlPollError, CtlAck,
                CtlPublish, CtlFail, CtlAbort, CtlHistogramStop, CtlEnd
  <2> QED
    BY <2>1, QuietToQuiet
<1>2. CASE CtlTaken
  <2>1. ctlPc \in QuietPcs /\ UNCHANGED <<workQ, wpc, doneQ>>
    BY <1>2 DEF CtlTaken, QuietPcs
  <2>2. CASE ctlPc' = "loop"
    BY <2>1, <2>2, QuietToQuiet DEF QuietPcs
  <2>3. CASE ctlPc' = "shutdown"
    <3>1. nextWorker' = 1
      BY <1>2, <2>3 DEF CtlTaken
    <3>2. \A w \in Workers : Free(w)' /\ ~Dispatched(w)' /\ ~Told(w)'
      BY <2>1, <2>3, <3>1, QuietWorkers DEF Free, Dispatched, Told, Workers
    <3> QED
      BY <1>2, <2>1, <2>3, <3>1, <3>2, DAQAssumption
      DEF WorkerInv, CountInv, InBatch, CtlTaken
  <2> QED
    BY <1>2, <2>2, <2>3 DEF CtlTaken
<1>3. CASE CtlExit
  <2>1. /\ ctlPc = "exit" /\ ctlPc' = "stopped"
        /\ UNCHANGED <<workQ, wpc, doneQ>>
    BY <1>3 DEF CtlExit
  <2> QED
    BY <2>1 DEF WorkerInv, CountInv, InBatch, Dispatched, Told, Leaving
<1> QED
  BY <1>1, <1>2, <1>3 DEF CtlStep

(* A worker's step changes its own situation only.                         *)
LEMMA WorkerSteps ==
  ASSUME NEW w \in Workers, BatchInv, WorkerStep(w)
  PROVE  WorkerInv' /\ CountInv'
<1> USE DEF BatchInv
<1>1. /\ UNCHANGED <<ctlPc, numFrames, framesRead, nextWorker, collected>>
      /\ \A v \in Workers \ {w} :
           /\ wpc'[v] = wpc[v] /\ workQ'[v] = workQ[v]
           /\ at'[v] = at[v] /\ upto'[v] = upto[v] /\ sent'[v] = sent[v]
  <2>1. CASE WorkerTake(w)
    BY <2>1 DEF WorkerTake, TypeOK, locals
  <2>2. CASE WorkerSend(w)
    BY <2>2 DEF WorkerSend, Sending, TypeOK, locals, queues
  <2>3. CASE WorkerComplete(w)
    BY <2>3 DEF WorkerComplete, TypeOK, locals
  <2> QED
    BY <2>1, <2>2, <2>3 DEF WorkerStep
<1>2. /\ \A v \in Workers : Dispatched(v)' = Dispatched(v)
      /\ \A v \in Workers : Told(v)' = Told(v)
      /\ InBatch' = InBatch
  BY <1>1 DEF Dispatched, Told, InBatch
<1>3. \A v \in Workers \ {w} :
        /\ Queued(v)' = Queued(v) /\ Reading(v)' = Reading(v)
        /\ Free(v)' = Free(v) /\ AllSent(v)' = AllSent(v)
        /\ Leaving(v)' = Leaving(v)
  BY <1>1 DEF Queued, Reading, Free, AllSent, Leaving, Read
<1>4. WorkerTake(w) /\ Queued(w) => Reading(w)' /\ UNCHANGED doneQ
  <2> SUFFICES ASSUME WorkerTake(w), Queued(w)
               PROVE  Reading(w)' /\ UNCHANGED doneQ
    OBVIOUS
  <2>1. /\ workQ[w] = <<Read(framesRead, numFrames)>>
        /\ Head(workQ[w]).type = "READ"
        /\ Head(workQ[w]).from = framesRead /\ Head(workQ[w]).to = numFrames
    BY DEF Queued, Read
  <2>2. /\ wpc'[w] = "read" /\ workQ'[w] = Tail(workQ[w])
        /\ at'[w] = framesRead /\ upto'[w] = numFrames
    BY <2>1 DEF WorkerTake, TypeOK
  <2>3. Tail(workQ[w]) = <<>>
    BY <2>1
  <2>4. UNCHANGED <<framesRead, numFrames, doneQ>>
    BY DEF WorkerTake, locals
  <2> QED
    BY <2>2, <2>3, <2>4 DEF Reading, TypeOK
<1>5. WorkerTake(w) /\ Leaving(w) => Leaving(w)' /\ UNCHANGED doneQ
  <2> SUFFICES ASSUME WorkerTake(w), Leaving(w)
               PROVE  Leaving(w)' /\ UNCHANGED doneQ
    OBVIOUS
  <2>1. workQ[w] = <<WorkerShutdown>> /\ Head(workQ[w]).type = "SHUTDOWN"
    BY DEF WorkerTake, Leaving, WorkerShutdown
  <2>2. wpc'[w] = "stopped" /\ workQ'[w] = Tail(workQ[w])
    BY <2>1 DEF WorkerTake, TypeOK
  <2>3. Tail(workQ[w]) = <<>>
    BY <2>1
  <2> QED
    BY <2>2, <2>3 DEF WorkerTake, Leaving
<1>6. WorkerSend(w) /\ Reading(w) => Reading(w)' /\ UNCHANGED doneQ
  BY DEF WorkerSend, Sending, Reading, TypeOK, locals, queues
<1>7. WorkerComplete(w) /\ Reading(w) =>
        Free(w)' /\ AllSent(w)' /\ doneQ' = doneQ + 1
  BY DEF WorkerComplete, Reading, Free, AllSent, TypeOK, locals
<1>8. ~Free(w)
  BY DEF WorkerStep, WorkerTake, WorkerSend, Sending, WorkerComplete, Free
<1>9. CASE Dispatched(w)
  <2>1. ctlPc \in {"dispatch", "collect"} /\ ~Told(w)
    BY <1>9 DEF Dispatched, Told
  <2>2. \/ WorkerTake(w) /\ Queued(w)
        \/ WorkerSend(w) /\ Reading(w)
        \/ WorkerComplete(w) /\ Reading(w)
    BY <1>8, <1>9 DEF WorkerInv, WorkerStep, WorkerTake, WorkerSend, Sending,
                      WorkerComplete, Queued, Reading
  <2>3. WorkerInv'
    BY <1>1, <1>2, <1>3, <1>4, <1>6, <1>7, <1>9, <2>1, <2>2 DEF WorkerInv
  <2>4. w \in Unfinished
    BY <1>9, <2>2 DEF Unfinished, Queued, Reading
  <2>5. CASE WorkerComplete(w)
    <3>1. Free(w)' /\ doneQ' = doneQ + 1
      BY <1>7, <2>2, <2>5 DEF WorkerTake, WorkerComplete
    <3>2. Unfinished' = Unfinished \ {w}
      BY <1>1, <1>2, <1>9, <3>1 DEF Unfinished, Free
    <3>3. Cardinality(Unfinished') = Cardinality(Unfinished) - 1
      BY <2>4, <3>2, UnfinishedFinite, FS_RemoveElement
    <3> QED
      BY <1>1, <1>2, <2>1, <2>3, <3>1, <3>3, UnfinishedFinite, DAQAssumption
      DEF CountInv, InBatch, TypeOK
  <2>6. CASE ~WorkerComplete(w)
    <3>1. Reading(w)' /\ UNCHANGED doneQ
      BY <1>4, <1>6, <2>2, <2>6
    <3>2. Unfinished' = Unfinished
      BY <1>1, <1>2, <2>4, <3>1 DEF Unfinished, Reading
    <3> QED
      BY <1>1, <1>2, <2>3, <3>1, <3>2 DEF CountInv
  <2> QED
    BY <2>5, <2>6
<1>10. CASE ~Dispatched(w)
  <2>1. Told(w) /\ Leaving(w)
    BY <1>8, <1>10 DEF WorkerInv
  <2>2. WorkerTake(w)
    BY <2>1 DEF WorkerStep, WorkerSend, Sending, WorkerComplete, Leaving
  <2>3. Leaving(w)' /\ UNCHANGED doneQ
    BY <1>5, <2>1, <2>2
  <2>4. ctlPc \notin {"dispatch", "collect", "ack"}
    BY <2>1 DEF Told
  <2> QED
    BY <1>1, <1>2, <1>3, <1>10, <2>1, <2>3, <2>4
    DEF WorkerInv, CountInv, InBatch
<1> QED
  BY <1>9, <1>10

-----------------------------------------------------------------------------
(* The inductive invariant holds from the constructor on.                  *)
LEMMA BatchInvariant == Spec => []BatchInv
<1>1. Init => WorkerInv /\ CountInv
  <2> SUFFICES ASSUME Init PROVE WorkerInv /\ CountInv
    OBVIOUS
  <2>1. ctlPc = "ready" /\ doneQ = 0 /\ \A w \in Workers : Free(w)
    BY DEF Init, Free
  <2> QED
    BY <2>1 DEF WorkerInv, CountInv, InBatch, Dispatched, Told
<1>2. BatchInv /\ [Next]_vars => WorkerInv' /\ CountInv'
  <2> SUFFICES ASSUME BatchInv, [Next]_vars PROVE WorkerInv' /\ CountInv'
    OBVIOUS
  <2>1. CASE ClientCall \/ ClientStep \/ HwFrame \/ UNCHANGED vars
    <3>1. UNCHANGED <<side, doneQ, collected>>
      BY <2>1, SideSteps
    <3>2. WorkerInv'
      BY <3>1 DEF side, BatchInv, WorkerInv, Dispatched, Told, Queued, Reading,
                  AllSent, Free, Leaving
    <3>3. Unfinished' = Unfinished
      BY <3>1 DEF side, Unfinished, Dispatched
    <3> QED
      BY <3>1, <3>2, <3>3 DEF side, BatchInv, CountInv, InBatch
  <2>2. CASE CtlStep
    BY <2>2, PollStep, DispatchStep, CollectStep, ShutdownStep, OtherCtlSteps
  <2>3. ASSUME NEW w \in Workers, WorkerStep(w) PROVE WorkerInv' /\ CountInv'
    BY <2>3, WorkerSteps
  <2> QED
    BY <2>1, <2>2, <2>3 DEF Next
<1>3. BatchInv /\ [Next]_vars => BatchInv'
  BY <1>2, TypeStep DEF BatchInv
<1> QED
  BY <1>1, <1>3, TypeCorrect, PTL DEF Spec, BatchInv

(* No worker reads a frame the ctrl thread has acknowledged.               *)
THEOREM ReadsUnacked == Spec => []ReadsUnackedFrames
<1>1. BatchInv => ReadsUnackedFrames
  BY DEF BatchInv, WorkerInv, ReadsUnackedFrames, Dispatched, Told, InBatch,
         Queued, Reading, Free, Leaving
<1> QED
  BY <1>1, BatchInvariant, PTL

(* A batch is acknowledged when every worker has sent all of it, and the   *)
(* next one starts from empty queues.                                      *)
THEOREM AckAfterSend == Spec => []AckAfterAllSent
<1>1. BatchInv => AckAfterAllSent
  <2> SUFFICES ASSUME BatchInv, ctlPc = "ack" PROVE AckAfterAllSent
    BY DEF AckAfterAllSent
  <2>1. doneQ = 0
    BY DEF BatchInv, CountInv, InBatch
  <2>2. \A w \in Workers : Free(w) /\ AllSent(w)
    BY DEF BatchInv, WorkerInv, Dispatched, Told
  <2>3. \A w \in Workers : ~Pending(w)
    BY <2>2 DEF Pending, Free
  <2> QED
    BY <2>1, <2>2, <2>3 DEF AckAfterAllSent, AllSent
<1> QED
  BY <1>1, BatchInvariant, PTL

(* The workers shut down with nothing left to read.                        *)
THEOREM ShutdownDrains == Spec => []ShutdownAfterDrain
<1>1. BatchInv => ShutdownAfterDrain
  BY DEF BatchInv, WorkerInv, ShutdownAfterDrain, InLoop, InBatch, Dispatched,
         Told, Queued, Reading, Free, Leaving
<1> QED
  BY <1>1, BatchInvariant, PTL

-----------------------------------------------------------------------------
(* stopAcquisition: waiting_for_acq_ is true only outside the acquisition  *)
(* loop, and acq_running_, once cleared, keeps the ctrl thread out of it   *)
(* until the client sets it again.                                         *)
LEMMA FlagStep == TypeOK /\ FlagInv /\ [Next]_vars => FlagInv'
<1> SUFFICES ASSUME TypeOK, FlagInv, [Next]_vars PROVE FlagInv'
  OBVIOUS
<1> USE DEF FlagInv, InLoop, InBatch, flags, queues, locals, workers, threads,
            hw, call, client, env
<1>1. CASE ClientCall
  BY <1>1 DEF ClientCall, StartDetector, StopClearRunning, StopLoadFirst,
              Destroy, Idle
<1>2. CASE ClientStep
  BY <1>2 DEF ClientStep, StartSetRunning, StartResetFrames, StartQueueTask,
              StopSeesWaiting, StopStoreLate, Joined, Closing
<1>3. CASE CtlStep
  <2>1. CASE CtlReady \/ CtlRemove \/ CtlTaken \/ CtlLoop
    BY <1>3, <2>1 DEF CtlReady, CtlRemove, CtlTaken, CtlLoop
  <2>2. CASE CtlPoll \/ CtlPollError \/ CtlDispatch \/ CtlCollect \/ CtlAck
               \/ CtlPublish
    BY <2>2 DEF CtlPoll, CtlPollError, CtlDispatch, CtlCollect, CtlAck, CtlPublish
  <2>3. CASE CtlFail \/ CtlAbort \/ CtlHistogramStop \/ CtlEnd \/ CtlShutdown
               \/ CtlExit
    BY <2>3 DEF CtlFail, CtlAbort, CtlHistogramStop, CtlEnd, CtlShutdown, CtlExit
  <2> QED
    BY <1>3, <2>1, <2>2, <2>3 DEF CtlStep
<1>4. CASE HwFrame \/ UNCHANGED vars \/ \E w \in Workers : WorkerStep(w)
  <2>1. UNCHANGED <<waiting, running, ctlPc, cpc>>
    BY <1>4 DEF HwFrame, vars, WorkerStep, WorkerTake, WorkerSend, Sending, WorkerComplete
  <2> QED
    BY <2>1
<1> QED
  BY <1>1, <1>2, <1>3, <1>4 DEF Next

(* Once stopAcquisition has returned the data path is silent, where the    *)
(* store of acq_running_ is not delayed past the load of waiting_for_acq_. *)
THEOREM StopSilences == ASSUME OrderedFlags PROVE Spec => []StopIsQuiet
<1>1. Init => FlagInv
  BY DEF Init, FlagInv
<1>2. BatchInv /\ FlagInv => StopIsQuiet
  <2> SUFFICES ASSUME BatchInv, FlagInv, cpc = "stopped" PROVE StopIsQuiet
    BY DEF StopIsQuiet
  <2>1. ~running /\ ~InLoop
    BY DEF FlagInv
  <2>2. \A w \in Workers : ~Pending(w)
    <3> SUFFICES ASSUME NEW w \in Workers PROVE ~Pending(w)
      OBVIOUS
    <3>1. Free(w) \/ Leaving(w)
      BY <2>1 DEF BatchInv, WorkerInv, Dispatched, InLoop, InBatch
    <3> QED
      BY <3>1 DEF Pending, Free, Leaving, WorkerShutdown
  <2> QED
    BY <2>1, <2>2 DEF StopIsQuiet
<1>3. Spec => []FlagInv
  BY <1>1, FlagStep, TypeCorrect, PTL DEF Spec
<1> QED
  BY <1>2, <1>3, BatchInvariant, PTL

-----------------------------------------------------------------------------
(* The failure path records the failure before it clears acq_running_.     *)
FailInv == ctlPc = "abort" => failed

LEMMA FailStep ==
  TypeOK /\ FailInv /\ [Next]_vars =>
    FailInv' /\ (failed /\ ~failed' => ctlPc = "taken")
<1> SUFFICES ASSUME TypeOK, FailInv, [Next]_vars
             PROVE  FailInv' /\ (failed /\ ~failed' => ctlPc = "taken")
  OBVIOUS
<1> USE DEF FailInv, side, flags, queues, locals, workers, threads, hw, call,
            client, env
<1>1. CASE ClientCall \/ ClientStep
  <2>1. UNCHANGED <<failed, ctlPc>>
    BY <1>1 DEF ClientCall, StartDetector, StopClearRunning, StopLoadFirst,
                Destroy, ClientStep, StartSetRunning, StartResetFrames,
                StartQueueTask, StopSeesWaiting, StopStoreLate, Joined, Closing
  <2> QED
    BY <2>1
<1>2. CASE CtlStep
  <2>1. CASE CtlReady \/ CtlRemove \/ CtlTaken \/ CtlLoop
    BY <2>1 DEF CtlReady, CtlRemove, CtlTaken, CtlLoop
  <2>2. CASE CtlPoll \/ CtlPollError \/ CtlDispatch \/ CtlCollect \/ CtlAck
               \/ CtlPublish
    BY <2>2 DEF CtlPoll, CtlPollError, CtlDispatch, CtlCollect, CtlAck, CtlPublish
  <2>3. CASE CtlFail \/ CtlAbort \/ CtlHistogramStop \/ CtlEnd \/ CtlShutdown
               \/ CtlExit
    BY <2>3 DEF CtlFail, CtlAbort, CtlHistogramStop, CtlEnd, CtlShutdown, CtlExit
  <2> QED
    BY <1>2, <2>1, <2>2, <2>3 DEF CtlStep
<1>3. CASE HwFrame \/ UNCHANGED vars \/ \E w \in Workers : WorkerStep(w)
  <2>1. UNCHANGED <<failed, ctlPc>>
    BY <1>3 DEF HwFrame, vars, WorkerStep, WorkerTake, WorkerSend, Sending, WorkerComplete
  <2> QED
    BY <2>1
<1> QED
  BY <1>1, <1>2, <1>3 DEF Next

(* A poll that sees acq_running_ false after a failure also sees the       *)
(* failure, until another task is taken.                                   *)
THEOREM FailureVisible == Spec => FailureStaysVisible
<1>1. Init => FailInv
  BY DEF Init, FailInv
<1>2. Spec => []FailInv
  BY <1>1, FailStep, TypeCorrect, PTL DEF Spec
<1>3. TypeOK /\ FailInv /\ [Next]_vars =>
        [/\ ctlPc = "abort" => failed
         /\ failed /\ ~failed' => ctlPc = "taken"]_vars
  BY FailStep DEF FailInv
<1> QED
  BY <1>2, <1>3, TypeCorrect, PTL DEF Spec, FailureStaysVisible
-----------------------------------------------------------------------------
(***************************************************************************)
(* The threads with a client and a detector that behave: what holds as long*)
(* as they do (careful), and that the threads then implement Acquisition,  *)
(* for a client that stops none (calm).                                    *)
(***************************************************************************)
(* What the histories say of a step.                                       *)
Guarded ==
  /\ cpc' = "start" /\ cpc # "start" => ~running
  /\ cpc' = "late" => cpc = "late"
  /\ ctlPc' = "fail" => ctlPc = "fail"

LEMMA CarefulGuarded == Careful!Next => Guarded
<1> SUFFICES ASSUME Careful!Next PROVE Guarded
  OBVIOUS
<1> USE DEF Guarded, Careful!client, Careful!threads, Careful!env,
            Careful!workers, Careful!hw, Careful!call
<1>1. CASE Careful!ClientCall
  BY <1>1 DEF Careful!ClientCall, Careful!StartDetector,
     Careful!StopClearRunning, Careful!StopLoadFirst, Careful!Destroy
<1>2. CASE Careful!ClientStep
  BY <1>2 DEF Careful!ClientStep, Careful!StartSetRunning,
     Careful!StartResetFrames, Careful!StartQueueTask, Careful!StopSeesWaiting,
     Careful!StopStoreLate, Careful!Joined, Careful!Closing
<1>3. CASE Careful!HwFrame
  BY <1>3 DEF Careful!HwFrame
<1>4. CASE Careful!CtlStep
  <2>1. CASE \/ Careful!CtlReady \/ Careful!CtlRemove \/ Careful!CtlTaken
             \/ Careful!CtlLoop \/ Careful!CtlPoll \/ Careful!CtlPollError
    BY <2>1 DEF Careful!CtlReady, Careful!CtlRemove, Careful!CtlTaken,
       Careful!CtlLoop, Careful!CtlPoll, Careful!CtlPollError
  <2>2. CASE \/ Careful!CtlDispatch \/ Careful!CtlCollect \/ Careful!CtlAck
             \/ Careful!CtlPublish \/ Careful!CtlFail
    BY <2>2 DEF Careful!CtlDispatch, Careful!CtlCollect, Careful!CtlAck,
       Careful!CtlPublish, Careful!CtlFail
  <2>3. CASE \/ Careful!CtlAbort \/ Careful!CtlHistogramStop \/ Careful!CtlEnd
             \/ Careful!CtlShutdown \/ Careful!CtlExit
    BY <2>3 DEF Careful!CtlAbort, Careful!CtlHistogramStop, Careful!CtlEnd,
       Careful!CtlShutdown, Careful!CtlExit
  <2> QED
    BY <1>4, <2>1, <2>2, <2>3 DEF Careful!CtlStep
<1>5. CASE \E w \in Workers : Careful!WorkerStep(w)
  BY <1>5 DEF Careful!WorkerStep, Careful!WorkerTake, Careful!WorkerSend, Careful!Sending,
     Careful!WorkerComplete
<1> QED
  BY <1>1, <1>2, <1>3, <1>4, <1>5 DEF Careful!Next, Careful!Workers, Workers

(* The histories only record: without them the steps are those of Spec.    *)
LEMMA HistoriesRecord == MCSpec => Spec
<1>1. MCInit => Init
  BY DEF MCInit
<1>2. [MCNext]_MCVars => [Next]_vars
  BY DEF MCNext, MCVars
<1> QED
  BY <1>1, <1>2, PTL DEF MCSpec, Spec

-----------------------------------------------------------------------------
(***************************************************************************)
(* While the client and the detector behave, the progress counter is never *)
(* behind the frames read out: the detector is restarted only when         *)
(* acq_running_ is false, and then the ctrl thread is outside its loop, or *)
(* at its head with a task it has just taken.                              *)
(***************************************************************************)
ForwardInv ==
  /\ ctlPc \notin {"fail", "abort", "stop"} /\ cpc # "late"
  /\ cpc = "start" => ~running
  /\ ~running /\ cpc # "stopping" =>
       ~InLoop /\ (ctlPc = "loop" => framesRead = 0)
  /\ ctlPc \in {"loop", "poll", "publish"} => framesRead <= hwCount
  /\ ctlPc = "publish" => framesRead = numFrames
  /\ InBatch \/ ctlPc = "ack" => framesRead < numFrames /\ numFrames <= hwCount

LEMMA ForwardStep ==
  ASSUME TypeOK, FlagInv, ForwardInv, [Next]_vars, Guarded \/ UNCHANGED vars
  PROVE  ForwardInv'
<1> USE DEF ForwardInv, InLoop, InBatch, TypeOK, flags, queues, locals, workers,
            threads, hw, call, client, env
<1>1. CASE ClientCall
  BY <1>1 DEF ClientCall, StartDetector, StopClearRunning, StopLoadFirst,
              Destroy, Idle, Guarded, vars
<1>2. CASE ClientStep
  BY <1>2 DEF ClientStep, StartSetRunning, StartResetFrames, StartQueueTask,
              StopSeesWaiting, StopStoreLate, Joined, Closing, FlagInv
<1>3. CASE CtlStep
  <2>1. CASE CtlReady \/ CtlRemove \/ CtlTaken \/ CtlLoop
    BY <2>1 DEF CtlReady, CtlRemove, CtlTaken, CtlLoop
  <2>2. CASE CtlPoll \/ CtlAck \/ CtlPublish
    BY <2>2 DEF CtlPoll, CtlAck, CtlPublish
  <2>3. CASE CtlPollError
    BY <2>3 DEF CtlPollError, Guarded, vars
  <2>4. CASE CtlDispatch \/ CtlCollect
    BY <2>4 DEF CtlDispatch, CtlCollect
  <2>5. CASE CtlFail \/ CtlAbort \/ CtlHistogramStop
    BY <2>5 DEF CtlFail, CtlAbort, CtlHistogramStop
  <2>6. CASE CtlEnd
    BY <2>6 DEF CtlEnd
  <2>7. CASE CtlShutdown \/ CtlExit
    <3>1. /\ ctlPc \in {"shutdown", "exit"} /\ ctlPc' \in {"shutdown", "exit", "stopped"}
          /\ UNCHANGED <<running, cpc, framesRead, numFrames, hwCount>>
      BY <2>7 DEF CtlShutdown, CtlExit
    <3> QED
      BY <3>1
  <2> QED
    BY <1>3, <2>1, <2>2, <2>3, <2>4, <2>5, <2>6, <2>7 DEF CtlStep
<1>4. CASE HwFrame
  BY <1>4 DEF HwFrame
<1>5. CASE UNCHANGED vars \/ \E w \in Workers : WorkerStep(w)
  <2>1. UNCHANGED <<running, ctlPc, cpc, framesRead, numFrames, hwCount>>
    BY <1>5 DEF vars, WorkerStep, WorkerTake, WorkerSend, Sending, WorkerComplete
  <2> QED
    BY <2>1
<1> QED
  BY <1>1, <1>2, <1>3, <1>4, <1>5 DEF Next

(***************************************************************************)
(* A worker that has sent nothing of a batch is where the last one ended.  *)
(***************************************************************************)
SentSoFar(w) ==
  /\ ctlPc \in {"loop", "poll", "publish"} => sent[w] = framesRead
  /\ InBatch /\ \/ ~Dispatched(w)
                \/ Queued(w)
                \/ wpc[w] = "read" /\ at[w] = framesRead
       => sent[w] = framesRead

PlaceInv == \A w \in Workers : SentSoFar(w)

LEMMA PlaceStep ==
  ASSUME BatchInv, ForwardInv, PlaceInv, ForwardInv', [Next]_vars
  PROVE  PlaceInv'
<1> SUFFICES ASSUME NEW w \in Workers PROVE SentSoFar(w)'
  BY DEF PlaceInv
<1>w. SentSoFar(w)
  BY DEF PlaceInv
<1> USE DEF flags, queues, locals, workers, threads, hw, call, client, env
<1>1. CASE ClientCall \/ ClientStep \/ HwFrame \/ UNCHANGED vars
  <2>1. UNCHANGED side
    BY <1>1, SideSteps
  <2> QED
    BY <1>w, <2>1 DEF side, SentSoFar, InBatch, Dispatched, Queued
<1>2. CASE CtlStep
  <2>1. CASE CtlTaken
    BY <2>1 DEF CtlTaken, SentSoFar, InBatch, BatchInv
  <2>2. CASE CtlReady \/ CtlRemove \/ CtlLoop \/ CtlPollError \/ CtlPublish
               \/ CtlFail \/ CtlAbort \/ CtlHistogramStop \/ CtlEnd
               \/ CtlShutdown \/ CtlExit
    BY <1>w, <2>2 DEF CtlReady, CtlRemove, CtlLoop, CtlPollError, CtlPublish,
       CtlFail, CtlAbort, CtlHistogramStop, CtlEnd, CtlShutdown, CtlExit,
       SentSoFar, InBatch, ForwardInv
  <2>3. CASE CtlPoll
    BY <1>w, <2>3 DEF CtlPoll, SentSoFar, InBatch
  <2>4. CASE CtlAck
    <3>1. AllSent(w) /\ framesRead < numFrames
      BY <2>4 DEF CtlAck, BatchInv, WorkerInv, ForwardInv
    <3> QED
      BY <2>4, <3>1 DEF CtlAck, SentSoFar, AllSent, InBatch
  <2>5. CASE CtlDispatch
    <3>1. /\ ctlPc = "dispatch"
          /\ UNCHANGED <<framesRead, numFrames, wpc, at, sent>>
          /\ nextWorker' = nextWorker + 1 /\ ctlPc' \in {"dispatch", "collect"}
      BY <2>5 DEF CtlDispatch
    <3>2. CASE w # nextWorker
      <4>1. workQ'[w] = workQ[w]
        BY <2>5, <3>2 DEF CtlDispatch, BatchInv, TypeOK
      <4>2. CASE Dispatched(w)
        BY <1>w, <3>1, <4>1, <4>2 DEF SentSoFar, InBatch, Dispatched, Queued, Read,
           BatchInv, TypeOK, Workers
      <4>3. CASE ~Dispatched(w)
        BY <1>w, <3>1, <4>3 DEF SentSoFar, InBatch
      <4> QED
        BY <4>2, <4>3
    <3>3. CASE w = nextWorker
      <4>1. ~Dispatched(w)
        BY <3>1, <3>3 DEF Dispatched, Workers
      <4> QED
        BY <1>w, <3>1, <4>1 DEF SentSoFar, InBatch
    <3> QED
      BY <3>2, <3>3
  <2>6. CASE CtlCollect
    BY <1>w, <2>6 DEF CtlCollect, SentSoFar, InBatch, Dispatched, Queued
  <2> QED
    BY <1>2, <2>1, <2>2, <2>3, <2>4, <2>5, <2>6 DEF CtlStep
<1>3. ASSUME NEW v \in Workers, WorkerStep(v) PROVE SentSoFar(w)'
  <2>1. UNCHANGED <<ctlPc, framesRead, numFrames, nextWorker>>
    BY <1>3 DEF WorkerStep, WorkerTake, WorkerSend, Sending, WorkerComplete
  <2>2. CASE v # w
    <3>1. /\ wpc'[w] = wpc[w] /\ workQ'[w] = workQ[w]
          /\ at'[w] = at[w] /\ sent'[w] = sent[w]
      BY <1>3, <2>2 DEF WorkerStep, WorkerTake, WorkerSend, Sending, WorkerComplete,
                        BatchInv, TypeOK
    <3> QED
      BY <1>w, <2>1, <3>1 DEF SentSoFar, InBatch, Dispatched, Queued
  <2>3. CASE v = w /\ ~InBatch
    <3>1. Free(w) \/ Leaving(w)
      BY <2>3 DEF BatchInv, WorkerInv, Dispatched, InBatch
    <3>2. WorkerTake(w) /\ Leaving(w)
      BY <1>3, <2>3, <3>1 DEF WorkerStep, WorkerTake, WorkerSend, Sending, WorkerComplete,
         Free, Leaving
    <3>3. UNCHANGED sent
      BY <3>2 DEF WorkerTake
    <3> QED
      BY <1>w, <2>1, <2>3, <3>3 DEF SentSoFar, InBatch
  <2>4. CASE v = w /\ InBatch
    <3>1. Queued(w) \/ Reading(w)
      <4>1. Free(w) \/ Queued(w) \/ Reading(w)
        BY <2>4 DEF BatchInv, WorkerInv, Dispatched, InBatch, Told
      <4> QED
        BY <1>3, <2>4, <4>1 DEF WorkerStep, WorkerTake, WorkerSend, Sending,
           WorkerComplete, Free
    <3>2. CASE Queued(w)
      <4>1. sent[w] = framesRead
        BY <1>w, <2>4, <3>2 DEF SentSoFar
      <4>2. UNCHANGED sent
        BY <1>3, <2>4, <3>2 DEF WorkerStep, WorkerTake, WorkerSend, Sending,
           WorkerComplete, Queued
      <4> QED
        BY <2>1, <4>1, <4>2 DEF SentSoFar
    <3>3. CASE Reading(w)
      <4>1. /\ wpc[w] = "read" /\ workQ[w] = <<>>
            /\ framesRead <= at[w] /\ at[w] \in Int /\ framesRead \in Int
            /\ workQ'[w] = <<>>
        BY <1>3, <2>4, <3>3 DEF Reading, BatchInv, TypeOK, WorkerStep, WorkerTake,
           WorkerSend, Sending, WorkerComplete
      <4>2. Dispatched(w) /\ ~Queued(w)'
        BY <2>4, <3>3, <4>1 DEF BatchInv, WorkerInv, Queued, Reading, Free, Told,
           InBatch
      <4>3. CASE WorkerSend(w)
        BY <1>w, <2>1, <2>4, <4>1, <4>2, <4>3 DEF WorkerSend, Sending, SentSoFar, InBatch,
           Dispatched, BatchInv, TypeOK
      <4>4. CASE WorkerComplete(w)
        BY <1>w, <2>1, <2>4, <4>1, <4>2, <4>4 DEF WorkerComplete, SentSoFar,
           InBatch, Dispatched, BatchInv, TypeOK
      <4>5. ~WorkerTake(w)
        BY <4>1 DEF WorkerTake
      <4> QED
        BY <1>3, <2>4, <4>3, <4>4, <4>5 DEF WorkerStep
    <3> QED
      BY <3>1, <3>2, <3>3
  <2> QED
    BY <2>2, <2>3, <2>4
<1> QED
  BY <1>1, <1>2, <1>3 DEF Next

-----------------------------------------------------------------------------
(* While they behave, the count and the workers are in step.               *)
CarefulInv == careful => ForwardInv /\ PlaceInv

LEMMA CarefulInvariant == MCSpec => []CarefulInv
<1>1. MCInit => CarefulInv
  BY DEF MCInit, Init, CarefulInv, ForwardInv, PlaceInv, SentSoFar, InLoop, InBatch
<1>2. BatchInv /\ FlagInv /\ CarefulInv /\ [MCNext]_MCVars => CarefulInv'
  <2> SUFFICES ASSUME BatchInv, FlagInv, CarefulInv, [MCNext]_MCVars, careful'
               PROVE  ForwardInv' /\ PlaceInv'
    BY DEF CarefulInv
  <2>1. careful /\ [Next]_vars /\ (Guarded \/ UNCHANGED vars)
    BY CarefulGuarded DEF MCNext, MCVars
  <2>2. ForwardInv'
    BY <2>1, ForwardStep DEF CarefulInv, BatchInv
  <2> QED
    BY <2>1, <2>2, PlaceStep DEF CarefulInv
<1>3. Init => FlagInv
  BY DEF Init, FlagInv
<1>4. Spec => []FlagInv
  BY <1>3, FlagStep, TypeCorrect, PTL DEF Spec
<1> QED
  BY <1>1, <1>2, <1>4, BatchInvariant, HistoriesRecord, PTL DEF MCSpec

(* Acknowledgements only go forwards, while the client starts only when it *)
(* saw acq_running_ false and the detector reports no error.               *)
THEOREM AckForward == MCSpec => []CarefulAckIsForward
<1>1. CarefulInv => CarefulAckIsForward
  BY DEF CarefulInv, ForwardInv, CarefulAckIsForward, AckIsForward
<1> QED
  BY <1>1, CarefulInvariant, PTL

(* Once stopAcquisition has returned the data path is silent, as long as   *)
(* the stores of the two flags came in their order.                        *)
THEOREM CarefulStopSilences == MCSpec => []CarefulStopIsQuiet
<1>1. BatchInv /\ FlagInv /\ CarefulInv => CarefulStopIsQuiet
  <2> SUFFICES ASSUME BatchInv, FlagInv, ForwardInv, cpc = "stopped"
               PROVE  StopIsQuiet
    BY DEF CarefulInv, CarefulStopIsQuiet, StopIsQuiet
  <2>1. ~running /\ ~InLoop
    BY DEF FlagInv, ForwardInv
  <2>2. \A w \in Workers : Free(w) \/ Leaving(w)
    BY <2>1 DEF BatchInv, WorkerInv, Dispatched, InLoop, InBatch
  <2> QED
    BY <2>1, <2>2 DEF StopIsQuiet, Pending, Free, Leaving, WorkerShutdown
<1>2. Init => FlagInv
  BY DEF Init, FlagInv
<1>3. Spec => []FlagInv
  BY <1>2, FlagStep, TypeCorrect, PTL DEF Spec
<1> QED
  BY <1>1, <1>3, BatchInvariant, CarefulInvariant, HistoriesRecord, PTL

(* Every worker sends every frame of an acquisition, once and in order.    *)
THEOREM SendsEveryFrame == MCSpec => FramesInOrder
<1>1. BatchInv /\ CarefulInv /\ [MCNext]_MCVars => [careful' => SendsInOrder]_vars
  <2> SUFFICES ASSUME BatchInv, CarefulInv, MCNext, careful', NEW w \in Workers,
                      sent'[w] # sent[w], ctlPc # "taken"
               PROVE  sent'[w] = sent[w] + 1
    BY DEF SendsInOrder, MCVars, vars
  <2>1. ForwardInv /\ SentSoFar(w)
    BY DEF MCNext, CarefulInv, PlaceInv
  <2>2. PICK v \in Workers : WorkerSend(v)
    <3>1. CASE ClientCall \/ ClientStep \/ HwFrame
      BY <3>1, SideSteps DEF side
    <3>2. CASE CtlStep
      BY <3>2 DEF CtlStep, CtlReady, CtlRemove, CtlTaken, CtlLoop, CtlPoll,
         CtlPollError, CtlDispatch, CtlCollect, CtlAck, CtlPublish, CtlFail,
         CtlAbort, CtlHistogramStop, CtlEnd, CtlShutdown, CtlExit, env, workers
    <3>3. CASE \E v \in Workers : WorkerStep(v)
      BY <3>3 DEF WorkerStep, WorkerTake, WorkerComplete
    <3> QED
      BY <3>1, <3>2, <3>3 DEF MCNext, Next
  <2>3. WorkerSend(w) /\ sent'[w] = at[w] + 1
    BY <2>2 DEF WorkerSend, Sending, BatchInv, TypeOK
  <2>4. Reading(w) /\ InBatch
    BY <2>3 DEF WorkerSend, Sending, BatchInv, WorkerInv, Queued, Free, Leaving, Dispatched,
       Told, InBatch
  <2>5. sent[w] = at[w]
    BY <2>1, <2>4 DEF Reading, SentSoFar, BatchInv, TypeOK
  <2> QED
    BY <2>3, <2>5
<1> QED
  BY <1>1, BatchInvariant, CarefulInvariant, HistoriesRecord, PTL
     DEF MCSpec, FramesInOrder

-----------------------------------------------------------------------------
(***************************************************************************)
(* With a client that stops no acquisition as well, there is at most one   *)
(* start task at any time, and acq_running_ is true from the call that     *)
(* queued it until the ctrl thread has done with it.                       *)
(***************************************************************************)
Beginning == cpc \in {"start", "reset", "queue"}

Given == ctrlQ \in {<<Start(request)>>, <<Start(request), Shutdown>>}

Taken == ctlPc = "taken" /\ task = Start(request)

Busy == InBatch \/ ctlPc \in {"loop", "poll", "ack", "publish", "end"}

ControlInv ==
  /\ cpc \in {"idle", "start", "reset", "queue", "joining", "gone"}
  /\ ctrlQ \in {<<>>, <<Shutdown>>} \/ Given
  /\ Beginning => /\ ctlPc \in {"ready", "remove"} /\ ctrlQ = <<>>
                  /\ running <=> cpc # "start"
  /\ cpc = "idle" => /\ ctrlQ \in {<<>>, <<Start(request)>>}
                     /\ ctlPc \notin {"shutdown", "exit", "stopped"}
                     /\ ctlPc = "taken" => Taken
  /\ Given => ctlPc \in {"ready", "remove"}
  /\ ctlPc = "taken" => task \in {Start(request), Shutdown}
  /\ Busy => task = Start(request)
  /\ ~Beginning => (running <=> Given \/ Taken \/ Busy)

(* The frames counted are those read out, which are no more than were      *)
(* asked for, and all of them when the loop is left.                       *)
FramesInv ==
  /\ hwCount <= hwFrames /\ hwFrames = request
  /\ cpc = "queue" \/ Given \/ Taken => frames = 0
  /\ ctlPc \in {"loop", "poll"} => /\ frames = numFrames /\ frames = framesRead
                                   /\ numFrames <= hwCount
  /\ InBatch \/ ctlPc = "ack" => frames = framesRead
  /\ ctlPc = "publish" => frames < numFrames /\ numFrames <= request
  /\ ctlPc = "end" => frames = request

CalmInv == ControlInv /\ FramesInv

(* Queues of no, one and two tasks, and how they follow each other.        *)
LEMMA QueueFacts ==
  /\ \A n \in Nat : Start(n) # Shutdown
  /\ \A t : <<t>> # <<>> /\ Head(<<t>>) = t /\ Tail(<<t>>) = <<>>
  /\ \A t : Append(<<>>, t) = <<t>>
  /\ \A t, u : /\ <<t, u>> # <<>> /\ <<t, u>> # <<t>> /\ <<t, u>> # <<u>>
               /\ Head(<<t, u>>) = t /\ Tail(<<t, u>>) = <<u>>
               /\ <<t>> = <<u>> => t = u
<1>1. \A n \in Nat : Start(n) # Shutdown
  BY DEF Start, Shutdown
<1>2. \A t : <<t>> # <<>> /\ Head(<<t>>) = t /\ Tail(<<t>>) = <<>>
  OBVIOUS
<1>3. \A t : Append(<<>>, t) = <<t>>
  OBVIOUS
<1>4. \A t, u : /\ <<t, u>> # <<>> /\ <<t, u>> # <<t>> /\ <<t, u>> # <<u>>
                /\ Head(<<t, u>>) = t /\ Tail(<<t, u>>) = <<u>>
                 /\ <<t>> = <<u>> => t = u
  <2> TAKE t, u
  <2>1. <<t, u>> # <<>> /\ <<t, u>> # <<t>> /\ <<t, u>> # <<u>>
    <3>1. Len(<<t, u>>) = 2 /\ Len(<<t>>) = 1 /\ Len(<<u>>) = 1 /\ Len(<<>>) = 0
      OBVIOUS
    <3> QED
      BY <3>1
  <2>2. Head(<<t, u>>) = t
    OBVIOUS
  <2>3. Tail(<<t, u>>) = <<u>>
    OBVIOUS
  <2>4. <<t>> = <<u>> => t = u
    <3>1. Head(<<t>>) = t /\ Head(<<u>>) = u
      BY <1>2
    <3> QED
      BY <3>1
  <2> QED
    BY <2>1, <2>2, <2>3, <2>4
<1> QED
  BY <1>1, <1>2, <1>3, <1>4

(* The second task is put behind the first.                                *)
LEMMA TaskBehind ==
  ASSUME NEW t \in CtrlTask, NEW u \in CtrlTask
  PROVE  Append(<<t>>, u) = <<t, u>>
<1> DEFINE both == Append(<<t>>, u)
           pair == <<t, u>>
<1>1. <<t>> \in Seq(CtrlTask) /\ pair \in Seq(CtrlTask)
  OBVIOUS
<1>2. both \in Seq(CtrlTask) /\ Len(both) = 2 /\ both[1] = t /\ both[2] = u
  BY <1>1
<1>3. Len(pair) = 2 /\ pair[1] = t /\ pair[2] = u
  OBVIOUS
<1> HIDE DEF both, pair
<1>4. both = pair
  <2>1. both \in [1 .. 2 -> CtrlTask] /\ pair \in [1 .. 2 -> CtrlTask]
    BY <1>1, <1>2, <1>3
  <2>2. \A i \in 1 .. 2 : both[i] = pair[i]
    BY <1>2, <1>3
  <2> QED
    BY <2>1, <2>2
<1> QED
  BY <1>4 DEF both, pair

(* What tells the tasks apart.                                             *)
LEMMA TypesOfTasks ==
  /\ \A n : Start(n).type = "START" /\ Start(n).value1 = n
  /\ Shutdown.type = "SHUTDOWN"
  BY DEF Start, Shutdown

-----------------------------------------------------------------------------
(* What a step of a calm client and detector may not do.                   *)
Calmly == Guarded /\ cpc' # "stopping"

(* Steps that leave the control alone.                                     *)
control == <<cpc, ctlPc, ctrlQ, task, running, request>>

LEMMA ControlKept == ASSUME ControlInv, UNCHANGED control PROVE ControlInv'
  BY DEF control, ControlInv, Beginning, Given, Taken, Busy, InBatch

LEMMA ControlClient ==
  ASSUME TypeOK, ControlInv, ForwardInv, Calmly, ClientCall \/ ClientStep
  PROVE  ControlInv'
<1> USE DEF flags, queues, locals, workers, threads, hw, call, client, env
<1>1. CASE \E n \in 0 .. MaxFrames : StartDetector(n)
  <2>1. /\ cpc = "idle" /\ ~running
        /\ cpc' = "start"
        /\ UNCHANGED <<ctlPc, ctrlQ, running>>
    BY <1>1 DEF StartDetector, Idle, Calmly, Guarded, ControlInv
  <2>2. ~Given /\ ~Taken /\ ~Busy
    BY <2>1 DEF ControlInv, Beginning
  <2>3. ctlPc \in {"ready", "remove"} /\ ctrlQ = <<>>
    BY <2>1, <2>2 DEF ControlInv, ForwardInv, Busy, Given, TypeOK, CtlPcs, InBatch
  <2>4. ~Given' /\ ~Taken' /\ ~Busy'
    BY <2>1, <2>3, QueueFacts DEF Given, Taken, Busy, InBatch
  <2> QED
    BY <2>1, <2>3, <2>4 DEF ControlInv, Beginning
<1>2. CASE StartSetRunning \/ StartResetFrames
  <2>1. /\ Beginning /\ running' /\ cpc' \in {"reset", "queue"}
        /\ UNCHANGED <<ctlPc, ctrlQ, task, request>>
    BY <1>2 DEF StartSetRunning, StartResetFrames, ControlInv, Beginning
  <2> QED
    BY <2>1, QueueFacts DEF ControlInv, Beginning, Given, Taken, Busy, InBatch
<1>3. CASE StartQueueTask
  <2>1. /\ Beginning /\ running /\ ctrlQ = <<>> /\ ctlPc \in {"ready", "remove"}
        /\ ctrlQ' = <<Start(request)>> /\ cpc' = "idle"
        /\ UNCHANGED <<ctlPc, running, task, request>>
    BY <1>3, QueueFacts DEF StartQueueTask, ControlInv, Beginning
  <2>2. Given'
    BY <2>1 DEF Given
  <2> QED
    BY <2>1, <2>2 DEF ControlInv, Beginning, Taken, Busy, InBatch, Given
<1>4. CASE Destroy
  <2>1. /\ cpc = "idle" /\ cpc' = "joining"
        /\ ctrlQ \in {<<>>, <<Start(request)>>}
        /\ ctrlQ' = Append(ctrlQ, Shutdown)
        /\ UNCHANGED <<ctlPc, running, task, request>>
    BY <1>4 DEF Destroy, Idle, ControlInv
  <2>2. Start(request) # Shutdown
    BY QueueFacts DEF TypeOK
  <2>3. CASE ctrlQ = <<>>
    <3>1. ctrlQ' = <<Shutdown>> /\ ~Given /\ ~Given'
      BY <2>1, <2>2, <2>3, QueueFacts DEF Given
    <3> QED
      BY <2>1, <3>1 DEF ControlInv, Beginning, Taken, Busy, InBatch
  <2>4. CASE ctrlQ = <<Start(request)>>
    <3>1. Start(request) \in CtrlTask /\ Shutdown \in CtrlTask
      BY TaskTypes DEF TypeOK
    <3>2. ctrlQ' = <<Start(request), Shutdown>> /\ Given /\ Given'
      BY <2>1, <2>4, <3>1, TaskBehind DEF Given
    <3> QED
      BY <2>1, <3>2 DEF ControlInv, Beginning, Taken, Busy, InBatch
  <2> QED
    BY <2>1, <2>3, <2>4
<1>5. CASE Joined
  BY <1>5 DEF Joined, Closing, ControlInv, Beginning, Given, Taken, Busy, InBatch
<1>6. CASE StopClearRunning \/ StopLoadFirst \/ StopSeesWaiting \/ StopStoreLate
  BY <1>6 DEF StopClearRunning, StopLoadFirst, StopSeesWaiting, StopStoreLate,
     Calmly, Guarded, ControlInv
<1> QED
  BY <1>1, <1>2, <1>3, <1>4, <1>5, <1>6 DEF ClientCall, ClientStep

LEMMA ControlCtl ==
  ASSUME TypeOK, ControlInv, FramesInv, ForwardInv, Calmly, CtlStep
  PROVE  ControlInv'
<1> USE DEF flags, queues, locals, workers, threads, hw, call, client, env
<1>1. CASE CtlReady
  BY <1>1 DEF CtlReady, ControlInv, Beginning, Given, Taken, Busy, InBatch
<1>2. CASE CtlRemove
  <2>1. /\ ctlPc = "remove" /\ ctlPc' = "taken" /\ ctrlQ # <<>>
        /\ task' = Head(ctrlQ) /\ ctrlQ' = Tail(ctrlQ)
        /\ ~Beginning /\ ~Taken /\ ~Busy
        /\ UNCHANGED <<cpc, running, request>>
    BY <1>2 DEF CtlRemove, ControlInv, Taken, Busy, InBatch
  <2>2. Start(request) # Shutdown
    BY QueueFacts DEF TypeOK
  <2>3. CASE Given
    <3>1. /\ task' = Start(request) /\ ctrlQ' \in {<<>>, <<Shutdown>>} /\ ~Given'
          /\ cpc = "idle" => ctrlQ' = <<>>
      <4>1. CASE ctrlQ = <<Start(request)>>
        BY <2>1, <2>2, <4>1, QueueFacts DEF Given
      <4>2. CASE ctrlQ = <<Start(request), Shutdown>>
        <5>1. cpc # "idle"
          BY <4>2, QueueFacts DEF ControlInv
        <5> QED
          BY <2>1, <2>2, <4>2, <5>1, QueueFacts DEF Given
      <4> QED
        BY <2>3, <4>1, <4>2 DEF Given
    <3>2. Taken' /\ running
      BY <2>1, <2>3, <3>1 DEF Taken, ControlInv
    <3> QED
      BY <2>1, <2>3, <3>1, <3>2 DEF ControlInv, Beginning, Busy, InBatch
  <2>4. CASE ctrlQ = <<Shutdown>>
    <3>1. /\ task' = Shutdown /\ ctrlQ' = <<>> /\ ~Given' /\ ~Given
          /\ cpc # "idle"
      BY <2>1, <2>2, <2>4, QueueFacts DEF Given, ControlInv
    <3>2. ~Taken' /\ ~running
      BY <2>1, <2>2, <3>1 DEF Taken, ControlInv
    <3> QED
      BY <2>1, <3>1, <3>2 DEF ControlInv, Beginning, Busy, InBatch
  <2> QED
    BY <2>1, <2>3, <2>4 DEF ControlInv
<1>3. CASE CtlTaken
  <2>1. /\ ctlPc = "taken" /\ ~Beginning /\ ~Given /\ ~Busy
        /\ UNCHANGED <<cpc, ctrlQ, running, request, task>>
    BY <1>3 DEF CtlTaken, ControlInv, Busy, InBatch
  <2>2. CASE Taken
    <3>1. ctlPc' = "loop"
      BY <1>3, <2>2, TypesOfTasks DEF CtlTaken, Taken
    <3> QED
      BY <2>1, <2>2, <3>1 DEF ControlInv, Beginning, Given, Taken, Busy, InBatch
  <2>3. CASE ~Taken
    <3>1. task = Shutdown /\ ctlPc' = "shutdown" /\ cpc # "idle"
      BY <1>3, <2>1, <2>3, TypesOfTasks DEF CtlTaken, Taken, ControlInv
    <3> QED
      BY <2>1, <2>3, <3>1 DEF ControlInv, Beginning, Given, Taken, Busy, InBatch
  <2> QED
    BY <2>2, <2>3
<1>4. CASE \/ CtlLoop \/ CtlPoll \/ CtlDispatch \/ CtlCollect \/ CtlAck
           \/ CtlPublish
  <2>1. /\ Busy /\ Busy' /\ ctlPc' # "taken" /\ ctlPc # "taken"
        /\ UNCHANGED <<cpc, ctrlQ, running, request, task>>
    BY <1>4 DEF Busy, InBatch, CtlLoop, CtlPoll, CtlDispatch, CtlCollect, CtlAck,
       CtlPublish
  <2>2. ctlPc' \notin {"shutdown", "exit", "stopped"} /\ ~Given /\ ~Beginning
    BY <2>1 DEF Busy, InBatch, ControlInv
  <2> QED
    BY <2>1, <2>2 DEF ControlInv, Beginning, Given, Taken
<1>5. CASE CtlPollError \/ CtlFail \/ CtlAbort \/ CtlHistogramStop
  BY <1>5 DEF CtlPollError, CtlFail, CtlAbort, CtlHistogramStop, ForwardInv,
     Calmly, Guarded
<1>6. CASE CtlEnd
  <2>1. /\ ctlPc = "end" /\ ctlPc' = "ready" /\ ~running' /\ ~Beginning /\ ~Given
        /\ UNCHANGED <<cpc, ctrlQ, request, task>>
    BY <1>6 DEF CtlEnd, ControlInv
  <2> QED
    BY <2>1 DEF ControlInv, Beginning, Given, Taken, Busy, InBatch
<1>7. CASE CtlShutdown \/ CtlExit
  <2>1. /\ ctlPc \in {"shutdown", "exit"}
        /\ ctlPc' \in {"shutdown", "exit", "stopped"}
        /\ UNCHANGED <<cpc, ctrlQ, running, request, task>>
    BY <1>7 DEF CtlShutdown, CtlExit
  <2> QED
    BY <2>1 DEF ControlInv, Beginning, Given, Taken, Busy, InBatch
<1> QED
  BY <1>1, <1>2, <1>3, <1>4, <1>5, <1>6, <1>7 DEF CtlStep

-----------------------------------------------------------------------------
(* Steps that leave the count of the frames alone.                         *)
counted == <<cpc, ctlPc, ctrlQ, task, request, frames, numFrames, framesRead,
             hwCount, hwFrames>>

LEMMA FramesClient ==
  ASSUME TypeOK, ControlInv, FramesInv, Calmly, ClientCall \/ ClientStep
  PROVE  FramesInv'
<1> USE DEF flags, queues, locals, workers, threads, hw, call, client, env
<1>1. CASE \E n \in 0 .. MaxFrames : StartDetector(n)
  <2>1. /\ cpc = "idle" /\ ~running /\ cpc' = "start"
        /\ hwCount' = 0 /\ hwFrames' = request' /\ request' \in Nat
        /\ UNCHANGED <<ctlPc, ctrlQ, task>>
    BY <1>1, DAQAssumption DEF StartDetector, Idle, Calmly, Guarded, ControlInv
  <2>2. ~Given /\ ~Taken /\ ~Busy
    BY <2>1 DEF ControlInv, Beginning
  <2>3. ctrlQ = <<>> /\ ctlPc # "taken"
    BY <2>1, <2>2 DEF ControlInv, Given
  <2> QED
    BY <2>1, <2>2, <2>3, QueueFacts DEF FramesInv, Given, Taken, Busy, InBatch
<1>2. CASE StartSetRunning \/ StopSeesWaiting \/ StopStoreLate \/ Joined
  BY <1>2 DEF StartSetRunning, StopSeesWaiting, StopStoreLate, Joined, Closing, FramesInv,
     Given, Taken, InBatch
<1>3. CASE StartResetFrames
  <2>1. /\ frames' = 0 /\ ctlPc \in {"ready", "remove"}
        /\ UNCHANGED <<ctlPc, numFrames, framesRead, hwCount, hwFrames, request>>
    BY <1>3 DEF StartResetFrames, ControlInv, Beginning
  <2> QED
    BY <2>1 DEF FramesInv, InBatch
<1>4. CASE StartQueueTask
  <2>1. /\ frames = 0 /\ ctlPc \in {"ready", "remove"}
        /\ UNCHANGED <<ctlPc, frames, numFrames, framesRead, hwCount, hwFrames,
                       request>>
    BY <1>4 DEF StartQueueTask, ControlInv, FramesInv, Beginning
  <2> QED
    BY <2>1 DEF FramesInv, InBatch
<1>5. CASE Destroy
  <2>1. /\ cpc = "idle" /\ ctrlQ \in {<<>>, <<Start(request)>>}
        /\ cpc' = "joining" /\ ctrlQ' = Append(ctrlQ, Shutdown)
        /\ UNCHANGED <<ctlPc, task, request, frames, numFrames, framesRead,
                       hwCount, hwFrames>>
    BY <1>5 DEF Destroy, Idle, ControlInv
  <2>2. Given' => Given
    <3>1. Start(request) # Shutdown
      BY QueueFacts DEF TypeOK
    <3>2. CASE ctrlQ = <<>>
      <4>1. ctrlQ' = <<Shutdown>>
        BY <2>1, <3>2, QueueFacts
      <4> QED
        BY <2>1, <3>1, <4>1, QueueFacts DEF Given
    <3> QED
      BY <2>1, <3>2 DEF Given
  <2> QED
    BY <2>1, <2>2 DEF FramesInv, Taken, InBatch
<1>6. CASE StopClearRunning \/ StopLoadFirst
  BY <1>6 DEF StopClearRunning, StopLoadFirst, Calmly, FramesInv, Given, Taken,
     InBatch
<1> QED
  BY <1>1, <1>2, <1>3, <1>4, <1>5, <1>6 DEF ClientCall, ClientStep

LEMMA FramesCtl ==
  ASSUME TypeOK, ControlInv, FramesInv, ForwardInv, Calmly, CtlStep
  PROVE  FramesInv'
<1> USE DEF flags, queues, locals, workers, threads, hw, call, client, env
<1>1. CASE CtlReady \/ CtlShutdown \/ CtlExit
  <2>1. /\ ctlPc' \in {"remove", "shutdown", "exit", "stopped"}
        /\ UNCHANGED <<cpc, ctrlQ, request, frames, hwCount, hwFrames>>
    BY <1>1 DEF CtlReady, CtlShutdown, CtlExit
  <2> QED
    BY <2>1 DEF FramesInv, Given, Taken, InBatch
<1>2. CASE CtlRemove
  <2>1. /\ ctlPc' = "taken" /\ ctlPc = "remove" /\ cpc # "queue"
        /\ ctrlQ # <<>> /\ task' = Head(ctrlQ) /\ ctrlQ' = Tail(ctrlQ)
        /\ UNCHANGED <<cpc, request, frames, hwCount, hwFrames>>
    BY <1>2 DEF CtlRemove, ControlInv, Beginning
  <2>2. Start(request) # Shutdown
    BY QueueFacts DEF TypeOK
  <2>3. CASE Given
    BY <2>1, <2>3 DEF FramesInv, InBatch
  <2>4. CASE ctrlQ = <<Shutdown>>
    <3>1. ~Given' /\ ~Taken'
      BY <2>1, <2>2, <2>4, QueueFacts DEF Given, Taken
    <3> QED
      BY <2>1, <3>1 DEF FramesInv, InBatch
  <2> QED
    BY <2>1, <2>3, <2>4 DEF ControlInv
<1>3. CASE CtlTaken
  <2>1. /\ ctlPc = "taken" /\ cpc # "queue" /\ ~Given
        /\ UNCHANGED <<cpc, ctrlQ, request, task, frames, hwCount, hwFrames>>
    BY <1>3 DEF CtlTaken, ControlInv, Beginning
  <2>2. CASE Taken
    <3>1. ctlPc' = "loop" /\ numFrames' = 0 /\ framesRead' = 0 /\ frames = 0
      BY <1>3, <2>2, TypesOfTasks DEF CtlTaken, Taken, FramesInv
    <3> QED
      BY <2>1, <3>1 DEF FramesInv, Given, Taken, InBatch, TypeOK
  <2>3. CASE ~Taken
    <3>1. ctlPc' = "shutdown"
      BY <1>3, <2>1, <2>3, TypesOfTasks DEF CtlTaken, Taken, ControlInv
    <3> QED
      BY <2>1, <3>1 DEF FramesInv, Given, Taken, InBatch
  <2> QED
    BY <2>2, <2>3
<1>4. CASE CtlLoop
  <2>1. /\ ctlPc = "loop" /\ running /\ task.value1 = request /\ cpc # "queue"
        /\ ~Given
        /\ ctlPc' = IF numFrames < request THEN "poll" ELSE "end"
        /\ UNCHANGED <<cpc, ctrlQ, request, task, frames, hwCount, hwFrames,
                       numFrames, framesRead>>
    BY <1>4, TypesOfTasks DEF CtlLoop, ControlInv, Beginning, Busy
  <2>2. frames = numFrames /\ numFrames <= request
    BY <2>1 DEF FramesInv, TypeOK
  <2> QED
    BY <2>1, <2>2 DEF FramesInv, Given, Taken, InBatch, TypeOK
<1>5. CASE CtlPoll
  <2>1. /\ ctlPc = "poll" /\ numFrames' = hwCount /\ cpc # "queue" /\ ~Given
        /\ \/ hwCount # framesRead /\ ctlPc' = "dispatch"
           \/ hwCount = framesRead /\ ctlPc' = "loop"
        /\ UNCHANGED <<cpc, ctrlQ, request, task, frames, hwCount, hwFrames,
                       framesRead>>
    BY <1>5 DEF CtlPoll, ControlInv, Beginning
  <2> QED
    BY <2>1 DEF FramesInv, Given, Taken, InBatch, TypeOK
<1>6. CASE CtlDispatch \/ CtlCollect
  <2>1. /\ InBatch /\ (InBatch' \/ ctlPc' = "ack") /\ cpc # "queue" /\ ~Given
        /\ UNCHANGED <<cpc, ctrlQ, request, task, frames, hwCount, hwFrames,
                       framesRead>>
    BY <1>6 DEF CtlDispatch, CtlCollect, InBatch, ControlInv, Beginning
  <2> QED
    BY <2>1 DEF FramesInv, Given, Taken, InBatch
<1>7. CASE CtlAck
  <2>1. /\ ctlPc = "ack" /\ ctlPc' = "publish" /\ cpc # "queue" /\ ~Given
        /\ UNCHANGED <<cpc, ctrlQ, request, task, frames, hwCount, hwFrames,
                       numFrames>>
    BY <1>7 DEF CtlAck, ControlInv, Beginning
  <2>2. frames < numFrames /\ numFrames <= request
    BY <2>1 DEF FramesInv, ForwardInv, TypeOK
  <2> QED
    BY <2>1, <2>2 DEF FramesInv, Given, Taken, InBatch
<1>8. CASE CtlPublish
  <2>1. /\ ctlPc = "publish" /\ ctlPc' = "loop" /\ cpc # "queue" /\ ~Given
        /\ frames' = numFrames
        /\ UNCHANGED <<cpc, ctrlQ, request, task, hwCount, hwFrames, numFrames,
                       framesRead>>
    BY <1>8 DEF CtlPublish, ControlInv, Beginning
  <2> QED
    BY <2>1 DEF FramesInv, ForwardInv, Given, Taken, InBatch
<1>9. CASE CtlEnd
  <2>1. /\ ctlPc' = "ready" /\ cpc # "queue" /\ ~Given
        /\ UNCHANGED <<cpc, ctrlQ, request, task, hwCount, hwFrames, frames>>
    BY <1>9 DEF CtlEnd, ControlInv, Beginning
  <2> QED
    BY <2>1 DEF FramesInv, Given, Taken, InBatch
<1>10. CASE CtlPollError \/ CtlFail \/ CtlAbort \/ CtlHistogramStop
  BY <1>10 DEF CtlPollError, CtlFail, CtlAbort, CtlHistogramStop, ForwardInv,
     Calmly, Guarded
<1> QED
  BY <1>1, <1>2, <1>3, <1>4, <1>5, <1>6, <1>7, <1>8, <1>9, <1>10 DEF CtlStep

(* The detector counts up to the frames it is set up for; the workers and  *)
(* stutters count nothing.                                                 *)
LEMMA CalmRest ==
  ASSUME TypeOK, CalmInv,
         HwFrame \/ (\E w \in Workers : WorkerStep(w)) \/ UNCHANGED vars
  PROVE  CalmInv'
<1>1. /\ UNCHANGED control
      /\ UNCHANGED counted \/ HwFrame
  BY DEF HwFrame, WorkerStep, WorkerTake, WorkerSend, Sending, WorkerComplete, vars, control,
     counted, flags, queues, locals, workers, threads, hw, call, client, env
<1>2. ControlInv'
  BY <1>1, ControlKept DEF CalmInv
<1>3. CASE UNCHANGED counted
  BY <1>2, <1>3 DEF CalmInv, counted, FramesInv, Given, Taken, InBatch
<1>4. CASE HwFrame
  <2>1. /\ hwCount < hwFrames /\ hwCount' = hwCount + 1
        /\ UNCHANGED <<cpc, ctlPc, ctrlQ, task, request, frames, numFrames,
                       framesRead, hwFrames>>
    BY <1>4 DEF HwFrame, flags, queues, locals, threads, client, call
  <2> QED
    BY <1>2, <2>1 DEF CalmInv, FramesInv, Given, Taken, InBatch, TypeOK
<1> QED
  BY <1>1, <1>3, <1>4

CalmHistory == calm => careful /\ CalmInv

LEMMA CalmInvariant == MCSpec => []CalmHistory
<1>1. MCInit => CalmHistory
  <2> SUFFICES ASSUME MCInit PROVE careful /\ CalmInv
    BY DEF CalmHistory
  <2>1. /\ careful /\ cpc = "idle" /\ ctrlQ = <<>> /\ ctlPc = "ready" /\ ~running
        /\ hwCount = 0 /\ hwFrames = 0 /\ request = 0
    BY DEF MCInit, Init
  <2>2. ~Given
    BY <2>1, QueueFacts DEF Given
  <2> QED
    BY <2>1, <2>2 DEF CalmInv, ControlInv, FramesInv, Beginning, Taken, Busy, InBatch
<1>2. /\ TypeOK /\ CarefulInv /\ CalmHistory /\ [MCNext]_MCVars
      => CalmHistory'
  <2> SUFFICES ASSUME TypeOK, CarefulInv, CalmHistory, [MCNext]_MCVars, calm'
               PROVE  careful' /\ CalmInv'
    BY DEF CalmHistory
  <2>1. CASE UNCHANGED MCVars
    <3>1. calm /\ careful /\ UNCHANGED vars /\ careful'
      BY <2>1 DEF MCVars, CalmHistory
    <3> QED
      BY <3>1, CalmRest DEF CalmHistory
  <2>2. CASE MCNext
    <3>1. calm /\ careful /\ careful' /\ Next /\ Calmly
      BY <2>2, CarefulGuarded DEF MCNext, CalmHistory, Calmly
    <3>2. CalmInv /\ ForwardInv
      BY <3>1 DEF CalmHistory, CarefulInv
    <3>3. CalmInv'
      BY <3>1, <3>2, ControlClient, ControlCtl, FramesClient, FramesCtl, CalmRest
      DEF Next, CalmInv
    <3> QED
      BY <3>1, <3>3
  <2> QED
    BY <2>1, <2>2
<1> QED
  BY <1>1, <1>2, TypeCorrect, CarefulInvariant, HistoriesRecord, PTL DEF MCSpec

-----------------------------------------------------------------------------
(***************************************************************************)
(* The step simulation.  StartDetector begins the abstract acquisition,    *)
(* CtlPublish delivers frames, CtlEnd finishes it, and every other step of *)
(* a thread is a stutter.                                                  *)
(***************************************************************************)
delivered == IF cpc \in {"start", "reset"} THEN 0 ELSE frames
active    == running \/ cpc = "start"

AbstractStep ==
  \/ (\E n \in 0 .. MaxFrames : Abstract!Begin(n))
  \/ Abstract!Deliver \/ Abstract!Finish
  \/ UNCHANGED <<active, request, delivered>>

LEMMA ClientSimulates ==
  ASSUME TypeOK, CalmInv, ForwardInv, Calmly, ClientCall \/ ClientStep
  PROVE  AbstractStep
<1> USE DEF flags, queues, locals, workers, threads, hw, call, client, env
<1>1. ASSUME NEW n \in 0 .. MaxFrames, StartDetector(n) PROVE AbstractStep
  <2>1. /\ cpc = "idle" /\ ~running /\ cpc' = "start" /\ request' = n
    BY <1>1 DEF StartDetector, Idle, Calmly, Guarded, CalmInv, ControlInv
  <2>2. Abstract!Begin(n)
    BY <2>1 DEF Abstract!Begin
  <2> QED
    BY <2>2 DEF AbstractStep
<1>2. CASE StartSetRunning \/ StartResetFrames
  <2>1. UNCHANGED <<active, request, delivered>>
    BY <1>2 DEF StartSetRunning, StartResetFrames, active, delivered
  <2> QED
    BY <2>1 DEF AbstractStep
<1>3. CASE StartQueueTask \/ StopSeesWaiting \/ StopStoreLate \/ Joined \/ Destroy
  <2>1. UNCHANGED <<active, request, delivered>>
    BY <1>3 DEF StartQueueTask, StopSeesWaiting, StopStoreLate, Joined, Closing, Destroy,
       Idle, active, delivered, CalmInv, ControlInv
  <2> QED
    BY <2>1 DEF AbstractStep
<1>4. CASE StopClearRunning \/ StopLoadFirst
  BY <1>4 DEF StopClearRunning, StopLoadFirst, Calmly, Guarded, CalmInv, ControlInv
<1> QED
  BY <1>1, <1>2, <1>3, <1>4 DEF ClientCall, ClientStep

LEMMA CtlSimulates ==
  ASSUME TypeOK, CalmInv, ForwardInv, Calmly, CtlStep
  PROVE  AbstractStep
<1> USE DEF flags, queues, locals, workers, threads, hw, call, client, env
<1>1. CASE CtlPublish
  <2>1. /\ ctlPc = "publish" /\ frames' = numFrames
        /\ UNCHANGED <<cpc, running, request>>
    BY <1>1 DEF CtlPublish
  <2>2. ~Beginning /\ running /\ frames < numFrames /\ numFrames <= request
    BY <2>1 DEF CalmInv, ControlInv, FramesInv, Busy
  <2>3. frames' \in frames + 1 .. request
    BY <2>1, <2>2 DEF TypeOK
  <2>4. Abstract!Deliver
    BY <2>1, <2>2, <2>3 DEF Abstract!Deliver, Beginning
  <2> QED
    BY <2>4 DEF AbstractStep
<1>2. CASE CtlEnd
  <2>1. /\ ctlPc = "end" /\ ~running'
        /\ UNCHANGED <<cpc, request, frames>>
    BY <1>2 DEF CtlEnd
  <2>2. ~Beginning /\ running /\ frames = request
    BY <2>1 DEF CalmInv, ControlInv, FramesInv, Busy
  <2>3. Abstract!Finish
    BY <2>1, <2>2 DEF Abstract!Finish, Beginning
  <2> QED
    BY <2>3 DEF AbstractStep
<1>3. CASE CtlPollError \/ CtlFail \/ CtlAbort \/ CtlHistogramStop
  BY <1>3 DEF CtlPollError, CtlFail, CtlAbort, CtlHistogramStop, ForwardInv,
     Calmly, Guarded
<1>4. CASE \/ CtlReady \/ CtlRemove \/ CtlTaken \/ CtlLoop \/ CtlPoll
           \/ CtlDispatch \/ CtlCollect \/ CtlAck \/ CtlShutdown \/ CtlExit
  <2>1. UNCHANGED <<cpc, running, request, frames>>
    BY <1>4 DEF CtlReady, CtlRemove, CtlTaken, CtlLoop, CtlPoll, CtlDispatch,
       CtlCollect, CtlAck, CtlShutdown, CtlExit
  <2> QED
    BY <2>1 DEF AbstractStep, active, delivered
<1> QED
  BY <1>1, <1>2, <1>3, <1>4 DEF CtlStep

LEMMA RestSimulates ==
  ASSUME HwFrame \/ (\E w \in Workers : WorkerStep(w)) \/ UNCHANGED vars
  PROVE  UNCHANGED <<active, request, delivered>>
<1>1. UNCHANGED <<cpc, running, request, frames>>
  BY DEF HwFrame, WorkerStep, WorkerTake, WorkerSend, Sending, WorkerComplete, vars, flags,
     queues, locals, workers, threads, hw, call, client, env
<1> QED
  BY <1>1 DEF active, delivered

(***************************************************************************)
(* With a client that stops no acquisition, starts one only when it saw    *)
(* acq_running_ false, and a detector that reports no error, the client    *)
(* sees an abstract acquisition: acq_running_ falls only when every frame  *)
(* it asked for is counted, and the count only grows up to it.             *)
(***************************************************************************)
THEOREM ThreadsAcquire == MCSpec => Abstract!AcqSafety
<1>1. MCInit => Abstract!AcqInit
  BY DEF MCInit, Init, Abstract!AcqInit
<1>2. /\ TypeOK /\ CarefulInv /\ CalmHistory /\ CalmHistory' /\ [MCNext]_MCVars
      => [Abstract!AcqNext]_(Abstract!acqVars)
  <2> SUFFICES ASSUME TypeOK, CarefulInv, CalmHistory, CalmHistory', [MCNext]_MCVars
               PROVE  Abstract!AcqNext \/ UNCHANGED Abstract!acqVars
    OBVIOUS
  <2>1. CASE UNCHANGED MCVars
    BY <2>1 DEF MCVars, vars, flags, env, client, call, Abstract!acqVars
  <2>2. CASE MCNext /\ ~calm'
    BY <2>2 DEF Abstract!AcqNext, Abstract!Withdrawn
  <2>3. CASE MCNext /\ calm'
    <3>1. calm /\ careful /\ careful' /\ Next /\ Calmly
      BY <2>3, CarefulGuarded DEF MCNext, CalmHistory, Calmly
    <3>2. CalmInv /\ ForwardInv
      BY <3>1 DEF CalmHistory, CarefulInv
    <3>3. AbstractStep
      BY <3>1, <3>2, ClientSimulates, CtlSimulates, RestSimulates
      DEF Next, AbstractStep
    <3>4. CASE UNCHANGED <<active, request, delivered>>
      BY <2>3, <3>1, <3>4 DEF Abstract!acqVars, active, delivered
    <3> QED
      BY <2>3, <3>1, <3>3, <3>4
      DEF AbstractStep, Abstract!AcqNext, Abstract!Promised
  <2> QED
    BY <2>1, <2>2, <2>3
<1> QED
  BY <1>1, <1>2, TypeCorrect, CarefulInvariant, CalmInvariant, HistoriesRecord, PTL
  DEF MCSpec, Abstract!AcqSafety
=============================================================================
