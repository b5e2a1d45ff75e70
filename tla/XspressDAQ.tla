----------------------------- MODULE XspressDAQ -----------------------------
(***************************************************************************)
(* The data acquisition threads of the control server: one ctrl thread     *)
(* (controlTask) that polls the detector for new time frames, and          *)
(* NumThreads worker threads (workTask) that read their channels of every  *)
(* new frame out of the shared circular buffer and push them on a socket.  *)
(* The threads talk through FIFO work queues: ctrl_queue_ (client to ctrl  *)
(* thread), one work queue per worker, and done_queue_ (workers to ctrl).  *)
(* The client is the reactor thread of XspressController, which calls      *)
(* startAcquisition, stopAcquisition, the getters and the destructor; it   *)
(* shares the plain bool and integer members with the ctrl thread, with no *)
(* lock.                                                                   *)
(***************************************************************************)
EXTENDS Integers, Sequences, FiniteSets

CONSTANTS
  NumThreads,    (* num_threads_: one worker per ZeroMQ endpoint           *)
  MaxFrames,     (* bound: the largest number of frames of an acquisition  *)
  MaxStarts,     (* bound: how many acquisitions the client starts         *)
  EagerStart,    (* the client may start without having seen "not running" *)
  MayStop,       (* the client may call stopAcquisition                    *)
  MayFail,       (* get_num_frames_read may report an error                *)
  OrderedFlags   (* the store of acq_running_ is seen before the next load *)

ASSUME DAQAssumption ==
  /\ NumThreads \in Nat \ {0}
  /\ MaxFrames \in Nat
  /\ MaxStarts \in Nat
  /\ {EagerStart, MayStop, MayFail, OrderedFlags} \subseteq BOOLEAN

Workers == 1 .. NumThreads

VARIABLES
  waiting,      (* waiting_for_acq_                                        *)
  running,      (* acq_running_                                            *)
  frames,       (* no_of_frames_                                           *)
  failed,       (* acq_failed_                                             *)
  ctrlQ,        (* ctrl_queue_                                             *)
  workQ,        (* work_queues_                                            *)
  doneQ,        (* number of COMPLETE tasks in done_queue_                 *)
  ctlPc,        (* where the ctrl thread is in controlTask                 *)
  task,         (* its local task                                          *)
  numFrames,    (* its local num_frames                                    *)
  framesRead,   (* its local frames_read                                   *)
  nextWorker,   (* its iterator over work_queues_                          *)
  collected,    (* its index over done_queue_->remove()                    *)
  wpc,          (* where each worker is in workTask                        *)
  at,           (* the frame each worker sends next                        *)
  upto,         (* the frame each worker stops before                      *)
  sent,         (* one more than the last frame number each worker sent in *)
                (* the acquisition the ctrl thread is in, 0 when it begins *)
  hwCount,      (* the progress counter of the detector                    *)
  hwFrames,     (* the number of frames it is programmed for               *)
  cpc,          (* where the client is in its call                         *)
  request,      (* the frames argument of startAcquisition                 *)
  starts        (* number of calls of startAcquisition so far              *)

flags   == <<waiting, running, frames, failed>>
queues  == <<ctrlQ, workQ, doneQ>>
locals  == <<task, numFrames, framesRead, nextWorker, collected>>
workers == <<wpc, at, upto, sent>>
threads == <<ctlPc, locals, workers>>
hw      == <<hwCount, hwFrames>>
call    == <<request, starts>>
client  == <<cpc, call>>
env     == <<workers, hw, client>>   \* what the ctrl thread leaves alone
vars    == <<flags, queues, ctlPc, locals, env>>

(* The tasks of the two kinds of queues.                                   *)
Start(n)       == [type |-> "START", value1 |-> n]
Shutdown       == [type |-> "SHUTDOWN", value1 |-> 0]
Read(from, to) == [type |-> "READ", from |-> from, to |-> to]
WorkerShutdown == [type |-> "SHUTDOWN", from |-> 0, to |-> 0]

CtrlTask == [type : {"START", "SHUTDOWN"}, value1 : Nat]
WorkTask == [type : {"READ", "SHUTDOWN"}, from : Int, to : Int]

CtlPcs == {"ready", "remove", "taken", "loop", "poll", "dispatch", "collect",
           "ack", "publish", "fail", "abort", "stop", "end", "shutdown",
           "exit", "stopped"}
ClientPcs == {"idle", "start", "reset", "queue", "stopping", "late",
              "stopped", "joining", "gone"}

-----------------------------------------------------------------------------
(* The constructor: every flag initialised, every queue empty, the threads *)
(* created.                                                                *)
Init ==
  /\ waiting = TRUE /\ running = FALSE /\ frames = 0 /\ failed = FALSE
  /\ ctrlQ = <<>> /\ workQ = [w \in Workers |-> <<>>] /\ doneQ = 0
  /\ ctlPc = "ready" /\ task = Shutdown
  /\ numFrames = 0 /\ framesRead = 0 /\ nextWorker = 1 /\ collected = 0
  /\ wpc = [w \in Workers |-> "idle"]
  /\ at = [w \in Workers |-> 0] /\ upto = [w \in Workers |-> 0]
  /\ sent = [w \in Workers |-> 0]
  /\ hwCount = 0 /\ hwFrames = 0
  /\ cpc = "idle" /\ request = 0 /\ starts = 0

-----------------------------------------------------------------------------
(***************************************************************************)
(* The client.  A call of XspressDetector::startAcquisition first programs *)
(* and restarts the detector, whose progress counter returns to zero, then *)
(* calls startAcquisition of the DAQ object.                               *)
(***************************************************************************)
Idle == cpc \in {"idle", "stopped"}

StartDetector(n) ==
  /\ Idle /\ starts < MaxStarts
  /\ EagerStart \/ ~running
  /\ starts' = starts + 1
  /\ hwCount' = 0 /\ hwFrames' = n
  /\ request' = n
  /\ cpc' = "start"
  /\ UNCHANGED <<flags, queues, threads>>

StartSetRunning ==
  /\ cpc = "start"
  /\ running' = TRUE
  /\ cpc' = "reset"
  /\ UNCHANGED <<waiting, frames, failed, call, queues, threads, hw>>

StartResetFrames ==
  /\ cpc = "reset"
  /\ frames' = 0
  /\ cpc' = "queue"
  /\ UNCHANGED <<waiting, running, failed, call, queues, threads, hw>>

StartQueueTask ==
  /\ cpc = "queue"
  /\ ctrlQ' = Append(ctrlQ, Start(request))
  /\ cpc' = "idle"
  /\ UNCHANGED <<workQ, doneQ, call, flags, threads, hw>>

(* stopAcquisition clears acq_running_ and spins on waiting_for_acq_.      *)
StopClearRunning ==
  /\ Idle /\ MayStop
  /\ running' = FALSE
  /\ cpc' = "stopping"
  /\ UNCHANGED <<waiting, frames, failed, call, queues, threads, hw>>

StopSeesWaiting ==
  /\ cpc = "stopping" /\ waiting
  /\ cpc' = "stopped"
  /\ UNCHANGED <<call, flags, queues, threads, hw>>

(***************************************************************************)
(* The two members are plain bools: where the store is still in the store  *)
(* buffer (or moved by the compiler) when waiting_for_acq_ is loaded, the  *)
(* load comes first.  OrderedFlags excludes these two steps.               *)
(***************************************************************************)
StopLoadFirst ==
  /\ Idle /\ MayStop /\ ~OrderedFlags
  /\ waiting
  /\ cpc' = "late"
  /\ UNCHANGED <<call, flags, queues, threads, hw>>

StopStoreLate ==
  /\ cpc = "late"
  /\ running' = FALSE
  /\ cpc' = "stopped"
  /\ UNCHANGED <<waiting, frames, failed, call, queues, threads, hw>>

(* The destructor queues a shutdown task, joins the worker threads and     *)
(* closes the ZeroMQ context, which waits for the peers to take what was   *)
(* sent; the ctrl thread is not joined.                                    *)
Destroy ==
  /\ Idle
  /\ ctrlQ' = Append(ctrlQ, Shutdown)
  /\ cpc' = "joining"
  /\ UNCHANGED <<workQ, doneQ, call, flags, threads, hw>>

Closing == cpc = "joining" /\ \A w \in Workers : wpc[w] = "stopped"

Joined ==
  /\ Closing
  /\ cpc' = "gone"
  /\ UNCHANGED <<call, flags, queues, threads, hw>>

ClientStep ==
  \/ StartSetRunning \/ StartResetFrames \/ StartQueueTask
  \/ StopSeesWaiting \/ StopStoreLate \/ Joined

ClientCall ==
  \/ \E n \in 0 .. MaxFrames : StartDetector(n)
  \/ StopClearRunning
  \/ StopLoadFirst
  \/ Destroy

-----------------------------------------------------------------------------
(* The detector acquires the next time frame of those it is set up for.    *)
HwFrame ==
  /\ hwCount < hwFrames
  /\ hwCount' = hwCount + 1
  /\ UNCHANGED <<hwFrames, flags, queues, threads, client>>

-----------------------------------------------------------------------------
(* Mutant: the ctrl thread says that it waits only after its first task.   *)
CtlReadyKeepsWaiting ==
  /\ ctlPc = "ready"
  /\ ctlPc' = "remove"
  /\ UNCHANGED <<flags, queues, locals, env>>

(* The ctrl thread: the outer loop of controlTask.                         *)
CtlReady ==
  /\ ctlPc = "ready"
  /\ waiting' = TRUE
  /\ ctlPc' = "remove"
  /\ UNCHANGED <<running, frames, failed, queues, locals, env>>

CtlRemove ==
  /\ ctlPc = "remove" /\ ctrlQ # <<>>
  /\ task' = Head(ctrlQ)
  /\ ctrlQ' = Tail(ctrlQ)
  /\ ctlPc' = "taken"
  /\ UNCHANGED <<workQ, doneQ, numFrames, framesRead, nextWorker, collected,
                 flags, env>>

(* Mutants of the next action: waiting_for_acq_ stays true, num_frames or  *)
(* frames_read outlive the acquisition.                                    *)
CtlTakenWith(waits, num, read) ==
  /\ ctlPc = "taken"
  /\ waiting' = waits
  /\ failed' = FALSE
  /\ \/ /\ task.type = "START"
        /\ numFrames' = num /\ framesRead' = read
        /\ sent' = [w \in Workers |-> 0]
        /\ ctlPc' = "loop"
        /\ UNCHANGED nextWorker
     \/ /\ task.type = "SHUTDOWN"
        /\ nextWorker' = 1
        /\ ctlPc' = "shutdown"
        /\ UNCHANGED <<numFrames, framesRead, sent>>
  /\ UNCHANGED <<running, frames, task, collected, wpc, at, upto, queues, hw,
                 client>>

CtlTakenStillWaiting == CtlTakenWith(TRUE, 0, 0)
CtlTakenKeepsNumFrames == CtlTakenWith(FALSE, numFrames, 0)
CtlTakenKeepsFramesRead == CtlTakenWith(FALSE, 0, framesRead)

CtlTaken ==
  /\ ctlPc = "taken"
  /\ waiting' = FALSE
  /\ failed' = FALSE
  /\ \/ /\ task.type = "START"
        /\ numFrames' = 0 /\ framesRead' = 0
        /\ sent' = [w \in Workers |-> 0]
        /\ ctlPc' = "loop"
        /\ UNCHANGED nextWorker
     \/ /\ task.type = "SHUTDOWN"
        /\ nextWorker' = 1
        /\ ctlPc' = "shutdown"
        /\ UNCHANGED <<numFrames, framesRead, sent>>
  /\ UNCHANGED <<running, frames, task, collected, wpc, at, upto, queues, hw,
                 client>>

(* The acquisition loop.                                                   *)
CtlLoop ==
  /\ ctlPc = "loop"
  /\ ctlPc' = IF numFrames < task.value1 /\ running THEN "poll" ELSE "end"
  /\ UNCHANGED <<flags, queues, locals, env>>

(* frames_to_read is unsigned: any difference, a negative one too, makes a *)
(* batch.                                                                  *)
CtlPoll ==
  /\ ctlPc = "poll"
  /\ numFrames' = hwCount
  /\ \/ /\ hwCount # framesRead
        /\ nextWorker' = 1 /\ collected' = 0
        /\ ctlPc' = "dispatch"
     \/ /\ hwCount = framesRead
        /\ ctlPc' = "loop"
        /\ UNCHANGED <<nextWorker, collected>>
  /\ UNCHANGED <<task, framesRead, flags, queues, env>>

(* The library reports either a negative code or error flags beside the    *)
(* count.                                                                  *)
CtlPollError ==
  /\ ctlPc = "poll" /\ MayFail
  /\ numFrames' \in {-1, hwCount}
  /\ ctlPc' = "fail"
  /\ UNCHANGED <<task, framesRead, nextWorker, collected, flags, queues, env>>

(* Mutant: the batch begins one frame too late.                            *)
CtlDispatchSkipsFrame ==
  /\ ctlPc = "dispatch"
  /\ workQ' = [workQ EXCEPT ![nextWorker] =
                              Append(@, Read(framesRead + 1, numFrames))]
  /\ nextWorker' = nextWorker + 1
  /\ ctlPc' = IF nextWorker = NumThreads THEN "collect" ELSE "dispatch"
  /\ UNCHANGED <<ctrlQ, doneQ, task, numFrames, framesRead, collected, flags,
                 env>>

CtlDispatch ==
  /\ ctlPc = "dispatch"
  /\ workQ' = [workQ EXCEPT ![nextWorker] =
                              Append(@, Read(framesRead, numFrames))]
  /\ nextWorker' = nextWorker + 1
  /\ ctlPc' = IF nextWorker = NumThreads THEN "collect" ELSE "dispatch"
  /\ UNCHANGED <<ctrlQ, doneQ, task, numFrames, framesRead, collected, flags,
                 env>>

(* Mutants: the first completion is taken for all of them; a completion is *)
(* taken without waiting for one.                                          *)
CtlCollectFirst ==
  /\ ctlPc = "collect" /\ doneQ > 0
  /\ doneQ' = doneQ - 1
  /\ collected' = collected + 1
  /\ ctlPc' = "ack"
  /\ UNCHANGED <<ctrlQ, workQ, task, numFrames, framesRead, nextWorker, flags,
                 env>>

CtlCollectNoWait ==
  /\ ctlPc = "collect"
  /\ doneQ' = doneQ - 1
  /\ collected' = collected + 1
  /\ ctlPc' = IF collected + 1 = NumThreads THEN "ack" ELSE "collect"
  /\ UNCHANGED <<ctrlQ, workQ, task, numFrames, framesRead, nextWorker, flags,
                 env>>

CtlCollect ==
  /\ ctlPc = "collect" /\ doneQ > 0
  /\ doneQ' = doneQ - 1
  /\ collected' = collected + 1
  /\ ctlPc' = IF collected + 1 = NumThreads THEN "ack" ELSE "collect"
  /\ UNCHANGED <<ctrlQ, workQ, task, numFrames, framesRead, nextWorker, flags,
                 env>>

(* histogram_circ_ack hands the frames back to the circular buffer; its    *)
(* status is only logged.                                                  *)
CtlAck ==
  /\ ctlPc = "ack"
  /\ framesRead' = numFrames
  /\ ctlPc' = "publish"
  /\ UNCHANGED <<task, numFrames, nextWorker, collected, flags, queues, env>>

CtlPublish ==
  /\ ctlPc = "publish"
  /\ frames' = numFrames
  /\ ctlPc' = "loop"
  /\ UNCHANGED <<waiting, running, failed, queues, locals, env>>

(* Mutant: acq_running_ is cleared before the failure is recorded.         *)
CtlFailRunningFirst ==
  /\ ctlPc = "fail"
  /\ running' = FALSE
  /\ ctlPc' = "abort"
  /\ UNCHANGED <<waiting, failed, frames, queues, locals, env>>

CtlFail ==
  /\ ctlPc = "fail"
  /\ failed' = TRUE
  /\ ctlPc' = "abort"
  /\ UNCHANGED <<waiting, running, frames, queues, locals, env>>

CtlAbort ==
  /\ ctlPc = "abort"
  /\ running' = FALSE
  /\ ctlPc' = "stop"
  /\ UNCHANGED <<waiting, frames, failed, queues, locals, env>>

(* histogram_stop(0): the detector takes no further frame until it is      *)
(* started again.                                                          *)
CtlHistogramStop ==
  /\ ctlPc = "stop"
  /\ hwFrames' = hwCount
  /\ ctlPc' = "loop"
  /\ UNCHANGED <<hwCount, flags, queues, locals, workers, client>>

CtlEnd ==
  /\ ctlPc = "end"
  /\ running' = FALSE
  /\ ctlPc' = "ready"
  /\ UNCHANGED <<waiting, frames, failed, queues, locals, env>>

CtlShutdown ==
  /\ ctlPc = "shutdown"
  /\ workQ' = [workQ EXCEPT ![nextWorker] = Append(@, WorkerShutdown)]
  /\ nextWorker' = nextWorker + 1
  /\ ctlPc' = IF nextWorker = NumThreads THEN "exit" ELSE "shutdown"
  /\ UNCHANGED <<ctrlQ, doneQ, task, numFrames, framesRead, collected, flags,
                 env>>

(* The last statements of controlTask, which still use members.            *)
CtlExit ==
  /\ ctlPc = "exit"
  /\ ctlPc' = "stopped"
  /\ UNCHANGED <<flags, queues, locals, env>>

CtlStep ==
  \/ CtlReady \/ CtlRemove \/ CtlTaken \/ CtlLoop \/ CtlPoll \/ CtlPollError
  \/ CtlDispatch \/ CtlCollect \/ CtlAck \/ CtlPublish
  \/ CtlFail \/ CtlAbort \/ CtlHistogramStop \/ CtlEnd
  \/ CtlShutdown \/ CtlExit

-----------------------------------------------------------------------------
(* The worker threads: workTask.                                           *)
WorkerTake(w) ==
  /\ wpc[w] = "idle" /\ workQ[w] # <<>>
  /\ workQ' = [workQ EXCEPT ![w] = Tail(@)]
  /\ \/ /\ Head(workQ[w]).type = "READ"
        /\ at' = [at EXCEPT ![w] = Head(workQ[w]).from]
        /\ upto' = [upto EXCEPT ![w] = Head(workQ[w]).to]
        /\ wpc' = [wpc EXCEPT ![w] = "read"]
     \/ /\ Head(workQ[w]).type = "SHUTDOWN"
        /\ wpc' = [wpc EXCEPT ![w] = "stopped"]
        /\ UNCHANGED <<at, upto>>
  /\ UNCHANGED <<ctrlQ, doneQ, ctlPc, sent, flags, locals, hw, client>>

(***************************************************************************)
(* One frame: copy it out of shared memory and send it.  The send of a     *)
(* ZeroMQ push socket blocks as long as no peer is connected, or every     *)
(* peer's queue is at its high water mark: the step is taken when a peer   *)
(* has room, which nothing in this program brings about.                   *)
(***************************************************************************)
Sending(w) == wpc[w] = "read" /\ at[w] < upto[w]

WorkerSend(w) ==
  /\ Sending(w)
  /\ at' = [at EXCEPT ![w] = @ + 1]
  /\ sent' = [sent EXCEPT ![w] = at[w] + 1]
  /\ UNCHANGED <<ctlPc, wpc, upto, flags, queues, locals, hw, client>>

(* Mutant: the completion is posted without a check of the last frame.     *)
WorkerCompleteEarly(w) ==
  /\ wpc[w] = "read"
  /\ doneQ' = doneQ + 1
  /\ wpc' = [wpc EXCEPT ![w] = "idle"]
  /\ UNCHANGED <<ctrlQ, workQ, ctlPc, at, upto, sent, flags, locals, hw,
                 client>>

(* A batch with nothing to read is completed all the same.                 *)
WorkerComplete(w) ==
  /\ wpc[w] = "read" /\ at[w] >= upto[w]
  /\ doneQ' = doneQ + 1
  /\ wpc' = [wpc EXCEPT ![w] = "idle"]
  /\ UNCHANGED <<ctrlQ, workQ, ctlPc, at, upto, sent, flags, locals, hw,
                 client>>

WorkerStep(w) == WorkerTake(w) \/ WorkerSend(w) \/ WorkerComplete(w)

-----------------------------------------------------------------------------
Next ==
  \/ ClientCall
  \/ ClientStep
  \/ HwFrame
  \/ CtlStep
  \/ \E w \in Workers : WorkerStep(w)

Spec == Init /\ [][Next]_vars

(***************************************************************************)
(* The operating system schedules every thread, and a call that has begun  *)
(* runs on: weak fairness of each thread, but not of the two steps a peer  *)
(* has to make possible, the send and the close of the context.  Nothing   *)
(* obliges the client to begin a call.                                     *)
(***************************************************************************)
ThreadFairness ==
  /\ WF_vars(ClientStep /\ ~Closing)
  /\ WF_vars(CtlStep)
  /\ \A w \in Workers : WF_vars(WorkerTake(w) \/ WorkerComplete(w))

(***************************************************************************)
(* The peers, processes outside this program, pull what is sent: no worker *)
(* is held up in its sends for good, and neither is the close.             *)
(***************************************************************************)
PeersPull ==
  /\ \A w \in Workers : []<>~Sending(w)
  /\ []<>~Closing
-----------------------------------------------------------------------------
(***************************************************************************)
(* Correctness.                                                            *)
(***************************************************************************)

(* The ctrl thread is between handing a batch to the first worker and      *)
(* having every worker's completion.                                       *)
InBatch == ctlPc \in {"dispatch", "collect"}

(* The ctrl thread is inside the body of the acquisition loop.             *)
InLoop == InBatch \/ ctlPc \in {"poll", "ack", "publish", "fail", "abort", "stop"}

(* The worker holds, or has queued, a batch it has not completed.          *)
Pending(w) ==
  \/ wpc[w] = "read"
  \/ \E i \in DOMAIN workQ[w] : workQ[w][i].type = "READ"

(* Every variable has the type of the member or local it models.           *)
TypeOK ==
  /\ waiting \in BOOLEAN /\ running \in BOOLEAN /\ failed \in BOOLEAN
  /\ frames \in Int /\ numFrames \in Int /\ framesRead \in Int
  /\ ctrlQ \in Seq(CtrlTask) /\ task \in CtrlTask
  /\ workQ \in [Workers -> Seq(WorkTask)]
  /\ doneQ \in Nat /\ collected \in Nat
  /\ ctlPc \in CtlPcs
  /\ nextWorker \in Nat \ {0}
  /\ wpc \in [Workers -> {"idle", "read", "stopped"}]
  /\ at \in [Workers -> Int] /\ upto \in [Workers -> Int]
  /\ sent \in [Workers -> Int]
  /\ hwCount \in Nat /\ hwFrames \in Nat /\ request \in Nat
  /\ cpc \in ClientPcs /\ starts \in Nat

(***************************************************************************)
(* The circular buffer may overwrite a frame once it is acknowledged: no   *)
(* worker ever reads shared memory outside the window of frames that the   *)
(* ctrl thread has seen and not yet acknowledged, and none reads at all    *)
(* while the ctrl thread is not waiting for it.  However the client starts *)
(* and stops, and however the progress counter restarts (controlTask,      *)
(* lines 255 to 274, and workTask).                                        *)
(***************************************************************************)
ReadsUnackedFrames ==
  \A w \in Workers : wpc[w] = "read" =>
    /\ InBatch
    /\ framesRead <= at[w]
    /\ upto[w] = numFrames

(***************************************************************************)
(* When the ctrl thread acknowledges a batch, every worker has sent every  *)
(* frame of it, and no completion or batch is left over for the next one   *)
(* (the loop over done_queue_ counts completions, it does not match them   *)
(* with workers).                                                          *)
(***************************************************************************)
AckAfterAllSent ==
  ctlPc = "ack" =>
    /\ doneQ = 0
    /\ \A w \in Workers :
         /\ ~Pending(w)
         /\ framesRead < numFrames => sent[w] = numFrames

(***************************************************************************)
(* Once stopAcquisition has returned, and until the client starts again,   *)
(* the data path is silent: acq_running_ is false, the ctrl thread is not  *)
(* in its loop and no worker has a batch, so the caller may stop the       *)
(* histogram or release the buffer.  Rests on the order of the assignments *)
(* to the two flags in controlTask and stopAcquisition; the caller's call  *)
(* of histogram_stop(-1) follows (XspressDetector::stopAcquisition).       *)
(***************************************************************************)
StopIsQuiet ==
  cpc = "stopped" =>
    /\ ~running
    /\ ~InLoop
    /\ \A w \in Workers : ~Pending(w)

(* The workers shut down with nothing left to read: the shutdown task is   *)
(* behind every batch, and no batch follows it.                            *)
ShutdownAfterDrain ==
  \A w \in Workers : wpc[w] = "stopped" => workQ[w] = <<>> /\ ~InLoop

(***************************************************************************)
(* The status poll reads acq_running_ first and acq_failed_ after it       *)
(* (XspressDetector::getXspAcquiring): when the failure path clears        *)
(* acq_running_ the failure is already recorded, and it stays recorded     *)
(* until the ctrl thread takes another task.                               *)
(***************************************************************************)
FailureStaysVisible ==
  [][/\ ctlPc = "abort" => failed
     /\ failed /\ ~failed' => ctlPc = "taken"]_vars

(***************************************************************************)
(* Each worker sends the frames of an acquisition in order from frame 0,   *)
(* none twice and none left out.                                           *)
(***************************************************************************)
SendsInOrder ==
  \A w \in Workers :
    sent'[w] # sent[w] => sent'[w] = sent[w] + 1 \/ ctlPc = "taken"

(* The circular buffer is only ever acknowledged forwards: the unsigned    *)
(* frames_to_read never wraps.                                             *)
AckIsForward == ctlPc = "ack" => framesRead < numFrames

(***************************************************************************)
(* stopAcquisition says it waits "for the acquisition to fall into the     *)
(* ready state": when it returns, the ctrl thread is ready for a task and  *)
(* has none to run.                                                        *)
(***************************************************************************)
StopReturnsReady ==
  [][cpc = "stopping" /\ cpc' = "stopped" =>
       ctlPc \in {"ready", "remove"} /\ ctrlQ = <<>>]_vars
=============================================================================
