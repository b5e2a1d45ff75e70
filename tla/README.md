# A verification development for xspress-detector

xspress-detector drives the Quantum Detectors Xspress 3, Xspress 4 and X3X2
readout systems and writes what they acquire. This directory holds TLA+ models of
its own core logic, the TLC configurations that check them on small instances, and
theorems proved with TLAPS.

## The system and its parts

A **control server** (C++, `cpp/control`) owns the detector. Its reactor thread
(`XspressController`) handles JSON requests and calls one `XspressDetector` object,
which keeps the parameters and the connection and acquisition state and talks to the
vendor library through `ILibXspress` (`LibXspressWrapper` for hardware,
`LibXspressSimulator`). In MCA (spectrum) mode an `XspressDAQ` object reads frames
out of the shared circular buffer with several threads and pushes them over ZeroMQ.
In list mode the cards send UDP packets directly.

**Frame receivers** (`cpp/data/frameReceiver`) are decoder plugins that assemble the
stream into buffers. **Frame processors** (`cpp/data/frameProcessor`) are plugins that
collect the buffers into memory blocks, per channel, and push datasets to the file
writer. A **meta writer** (Python) records scalars. A **control adapter** (Python,
asyncio) keeps a parameter tree, talks to the control server over a DEALER socket
and configures receivers and processors.

| part | state it keeps | operations | hard behaviour |
|---|---|---|---|
| `XspressDAQ` | `waiting_for_acq_`, `acq_running_`, `no_of_frames_`, `acq_failed_`, work queues | start, stop, destroy, poll; ctrl and worker threads | flags shared without a lock, completions counted and not matched, stop racing start, failure racing restart |
| `XspressDetector` | `connected_`, `acquiring_`, `acq_failed_`, `reconnect_required_`, `daq_`, parameters | connect, disconnect, enable DAQ, restore, start, stop, trigger, setters, status poll | partial failure of a chain of library calls, latched flags, mode changed while acquiring |
| `XspressController` | shutdown flag, error text | status, configure, request configuration, command, tick | order of reads in the status reply, error flag reset by any configure |
| `LibXspressWrapper` / `Simulator` | handle, simulated frame counter | one call per library function | external library; modelled through its callers |
| `XspressFrameDecoder` | current buffer | next buffer, message | frames dropped with no free buffer |
| `XspressProcessPlugin` | memory blocks, scalar buffer | configure, process frame | dropped frames misalign blocks, last partial block, repeated scalars |
| `XspressListModeFrameDecoder` | current buffer, packet count, ack socket | packet header, packet | lost packets, drop when no buffer, acknowledgements |
| `X3X2ListModeFrameDecoder` | receive state, bytes read so far, buffer id | message, reset | reset in the middle of a message |
| `X3X2ListModeProcessPlugin` | per channel memory blocks, completion map, time frames | configure, process, flush, reset | four datasets in lockstep, completion once, flush racing completion |
| `XspressListModeProcessPlugin` | per channel block | configure, process, flush | a packet split over two blocks |
| `xspress_meta_writer` | counters, per frame quantities | scalars, dtc, chunk messages | rows written when all channels arrived |
| control `client.py`, `detector.py` | buffers of pending replies, mode, connection tasks | request, reply, timeout, reconfigure, acquire | replies after the timeout, concurrent reconfigurations, values re-read after an await |
| `fp_xspress_adapter.py`, `live_view_merge.py`, `util.py` | rank and dataset configuration, slots per port | put, merge, address generation | stale slots, pure arithmetic |

What makes each part correct:

* **DAQ**: workers read only frames the detector has produced and that are not yet
  handed back; an acknowledgement follows the sends of all workers; after stop returns
  nothing runs; a failure is visible to the poll that sees the end; every call returns;
  the client sees an acquisition end exactly when all its frames are counted.
* **Detector and controller**: `acquiring_` is latched until the DAQ is done, and a
  stop always reaches the hardware; a failed step of a chain leaves flags that say so;
  a parameter that needs a reconnection says so until the reconnection.
* **Processing**: every frame received is in exactly one block at its place, every
  block is pushed once, the last partial block is pushed, scalars cover each frame once.
* **List mode**: events of one channel stay in order and the four datasets stay in
  lockstep; the acquisition closes once, when every channel has delivered its last
  time frame; nothing is stored after.
* **Python control**: a reply is matched with its request or dropped, buffers do not
  grow, the system ends in the mode last asked for.

## Modules

| module | models | kind |
|---|---|---|
| `XspressDAQ` | ctrl thread, worker threads and client of `XspressDAQ.cpp`, with the detector's progress counter | component |
| `Acquisition` | what a client sees of an acquisition: begun, frames delivered, finished | abstract specification, implemented by `XspressDAQ` |
| `MCXspressDAQ` | histories of how the client and the detector behaved, and the mapping of the threads onto `Acquisition` | model-checking module |
| `XspressDAQProofs` | theorems about `XspressDAQ`, its histories, and the step simulation of `Acquisition` | proofs |
| `XspressDetector` | `XspressController` and `XspressDetector` with the DAQ threads at the grain of phases and the cards | component, composes with `XspressDAQ` by its phases |
| `MCXspressDetector` | a history of library failures | model-checking module |
| `XspressDetectorProofs` | theorems about `XspressDetector` | proofs |
| `ScalarWindows` | the limits of the scalar windows: what the detector holds, the copy `XspressDetector` keeps, the commands that set, restore and read them back | component |
| `ControlClient` | `AsyncClient`, the periodic job and the tasks of HTTP requests, with the messages on the way to the server and back and the parameter tree | component, composes with `ScalarWindows` (the server it talks to) |
| `MCControlClient` | the saved windows and the lists users put | model-checking module |
| `ControlClientProofs` | theorems about `ControlClient` and `ScalarWindows` | proofs |
| `XspressProcess` | `XspressFrameDecoder`, the shared buffers and `XspressProcessPlugin` | component |
| `FrameLog` | the blocks as a log that only grows | abstract specification, implemented by `XspressProcess` |
| `XspressProcessProofs` | theorems about `XspressProcess` | proofs |
| `SequenceLemmas` | induction over numbers and sequences, and the laws of `FlattenSeq`, which define what was written in `XspressProcess` and in both list modes | lemmas with proofs |
| `X3X2ListMode` | a card, `X3X2ListModeFrameDecoder`, its ring of buffers, `X3X2ListModeProcessPlugin` and its memory blocks | component |
| `MCX3X2ListMode` | what the card of the runs sends | model-checking module |
| `X3X2ListModeProofs` | theorems about `X3X2ListMode` | proofs |
| `XspressListMode` | an Xspress 4 card, the network, `XspressListModeFrameDecoder`, the shared buffers and `XspressListModeProcessPlugin` | component |
| `MCXspressListMode` | what the card of the runs sends | model-checking module |
| `XspressListModeProofs` | theorems about `XspressListMode` | proofs |
| `XspressMetaWriter` | the processors' scalar messages and `XspressMetaWriter`, which puts them together in rows | component |
| `MCXspressMetaWriter` | the channels of each processor of the run | model-checking module |
| `XspressMetaWriterProofs` | theorems about `XspressMetaWriter` | proofs |

Definitions named `...Late`, `...Kept`, `...First` and the like, marked *Mutant* in
their comments, are not part of a specification: each is a definition with a
plausible bug, kept to show that a property notices it.

Some properties hold only for a client or a detector that behaves. Where that can be
said of a behaviour so far, a **history variable** says it, so that one run asks both
what holds in any case and what holds as long as they behave: `careful` and `calm`
(`MCXspressDAQ`), `sound` (`MCXspressDetector`), `smooth` and `resized`
(`XspressProcess`), `whole` and `grown` (`XspressListMode`), `lost`
(`XspressMetaWriter`), `readable` (`ScalarWindows`). No action's guard reads one.

### XspressDAQ

State: the four members the client and the ctrl thread share without a lock (`waiting`,
`running`, `frames`, `failed`), the queues (`ctrlQ`, one `workQ` for each worker, `doneQ`
as a count because COMPLETE tasks carry nothing), the locals of the threads and a program
counter for each. An action makes one access to shared state, or several that no other
thread can tell from one (`CtlTaken` clears `waiting_for_acq_` and `acq_failed_`, lines
234 and 235): `StartSetRunning`, `StartResetFrames` and `StartQueueTask` are the three
statements of `startAcquisition`; `CtlReady` to `CtlExit` follow `controlTask`;
`WorkerTake`, `WorkerSend`, `WorkerComplete` follow `workTask`. `StopClearRunning` and
`StopSeesWaiting` are the two lines of `stopAcquisition`; `StopLoadFirst` and
`StopStoreLate` are the same lines with the store buffered past the load, which a plain
`bool` permits (the only reordering x86 makes). `OrderedFlags` excludes it.

Socket contents and payloads are left out: a frame is its number. The sockets push and
block while their peer does not pull: `WorkerSend` is where a worker may stay for ever
(`Sending`), and the destructor where it closes them (`Closing`). The hardware is a
counter (`HwFrame`) programmed for a number of frames, and, with `MayFail`, an error
of `get_num_frames_read`. `Acquisition` lets an acquisition be withdrawn, which is what it
becomes for a client that stops it or starts the next too early.

### XspressDetector

The reactor handles one request at a time (`pc` names the place where it waits for
the DAQ), as the single-threaded reactor of the code does. `conn` is the connection with
the stage of the chain `connect` reached, the mode and the parameters it was made
for; `reconnect`, `acquiring`, `connected` and `failed` are the members; `hw` is the
state of each card (card 0 is the master that the DAQ object stops). The DAQ
object is here a record of a phase, its two flags and its queue, each action standing
for a run of steps of `XspressDAQ` of which the reactor sees only the end.
`StatusBegin`, `StatusRunning`, `StatusEnded` and `StatusReply` keep the order of the
reads of the status handler. Every library call may fail when `MayFail`. The history
`failure` follows a failed acquisition from the ctrl thread to the reply that tells of it:
hidden by one reply, untold by two, or erased by a configure message (`Knowledge`).

### XspressProcess

The channels of a frame go through the plugin in lockstep, so one block stands for
the blocks of all. A frame is an acquisition and a number; `None` stands for memory
nothing was copied to. `Receive` and `Drop` are the decoder with and without a free
buffer; `Process` is `process_frame` as a whole; `Configure` is the part of
`configure` that sets the number of frames and the chunk.

### X3X2ListMode

A card sends items (events, dummy events, end-of-frame marks) for each channel in
order, one channel in a packet; time frames follow one another (`ScriptsInOrder`: the
plugin logs a time frame that decreases as an error, X3X2ListModeProcessPlugin.cpp:533,
and goes on). `ReadPart`, `ReadRest`, `ReadWhole` are a TCP message
that comes in one read or more, with `NextBuffer` as the ring. Each read asks for the size
of a message, so that the read of a rest may go into the next message, if that is there:
`OverRead`, on which `process_message` throws and the receiver ends (`thrown`). What such
a read puts past its buffer is not modelled. `Take`, `AddField`,
`SkipDummy` and `EndMark` walk through `process_frame`, one dataset of one event at a
time. `CloseStep` is `flush_close_acquisition`, one dataset at a time, on the thread
of the plugin or on the control thread. `Racing` lets a flush run inside
`process_frame`, which nothing in the code prevents. A buffer the plugin has released
keeps its packet in the code until it is overwritten; the model forgets it.

### XspressListMode

A card sends packets of each channel in order; `Lose` is a datagram that does not arrive.
`Receive` is `process_message` as a whole: a buffer is taken when none is held (not in the
first second after the start, `initialising`, and not when none is free), the packet is
stored or dropped, and a buffer that is full or has an end of frame is handed on. The
acknowledgement of an end of frame is not modelled. `ProcessPacket` is `process_frame` for
one packet, with `AddBlock` the arithmetic of `XspressListModeMemoryBlock::add_block`; a
word of a block is the packet and the position it came from, so that a word copied twice,
left out or out of order shows. `SkipPacket` and `MissBlock` are the two ends of a packet
with no block: the channel was never configured ("Bad channel"), or it was and is no more,
whose headers are still known. `SetChannels`, `SetFrameSize`, `Reset` and `Flush` are the
branches of `configure`. They come between two packets, though nothing in the code keeps
them out of `process_frame`.

### XspressMetaWriter

`Publish` is `send_scalars` of a processor: three messages, each with the values of a few
frames, `Flat` being their layout. `Receive` is a handler as a whole. `HandleValues` is
the loop over the frames and channels of a message, in closed form: an entry counts the
values that came (`qty`), is written when the count reaches the number of channels, and
begins anew behind that value (`Cut`, `Left`). Messages may be lost and those of two
processors interleave. `MayOverlap` lets an acquisition begin while the writer has rows of
the one before under way. The run and `RowsComplete` take it to be FALSE: the adapter
sends the acquisition id the user chose (fp_xspress_adapter.py:167), so that one name may
be used twice, and no client can see whether rows are under way. The messages of the model
are labelled right; a processor that dropped a frame labels otherwise
(XspressProcessPlugin.cpp:509), and that is not modelled. The messages of no frames that
the last frame sends are left out.

### ScalarWindows and ControlClient

`ScalarWindows` is the server's side. The library sets a window as a pair, so a
new list of low limits goes out with the high limits of the *copy*
(`Asked`). `SetLimits` is the loop over the channels of a list: a channel is refused if its
window would be inverted or the library fails, the others are set, and the
copy is read back (`ReadSCAParams`) only when none was refused. `ReadBack` shortens and
shifts the copy when a channel cannot be read, as the `push_back` of the code does.
`Restore` stands for the connect and restore commands, `Detach` for disconnect. SCA5 and
SCA6 are the same code; one is modelled. The number of channels is fixed: setting it on an open
connection sizes the copy anew (XspressDetector.cpp:722).

`ControlClient` is the event loop: an action is what a task does between two awaits. A
task that sent a request is an element of `waiting` until it wakes to find its reply
(`Wake`), or gives up: `Late` while the connection holds, `Lost` once it has gone.
`sendBuffer` and `recvBuffer` are the dictionaries of `AsyncClient`; `Receive` keeps a
reply whose id is still in `sendBuffer`. `Put`, `PutElement` and `ReadConfig` are tasks of
HTTP requests, `Poll` the periodic job, `Stop` and `Start` its cancellation and restart.
`Drop` loses what is in flight, in each direction all or nothing. Ids are a small set from
which a free one is taken: the code counts to 2^32 and does not look whether an id is in
use, which is the same as long as none is met again that a cancelled request left in
`send_buffer`. An update of the tree takes all values: the exception of a validator, which
would end it half way (detector.py:1065 catches `KeyError` only), is not modelled.

## Runs

State counts are those of a complete search with two workers.

| run | question | distinct states |
|---|---|---|
| `daq` | For every client, a failing detector and delayed stores: workers read only unacknowledged frames (`ReadsUnackedFrames`), acknowledgements follow all sends (`AckAfterAllSent`), a failure stays visible to the poll that sees the end, stop and destructor return as long as the peers of the sockets pull (`CallsReturn`). While client and detector are careful: a returned stop silences the data path, frames go out once and in order, acknowledgements go forwards. While it also calls no stop: the threads implement `Acquisition`, safety and liveness | 177,202 |
| `daq_stop_ready` (violation) | Does stop wait for the ready state, as its comment says? No: the START task may still be queued | – |
| `detector_any` | Any sequence of requests, any failing call: what differs from the settings is announced (`ReconnectTold`), the DAQ object matches the connection | 2,943,128 |
| `detector_calls` | For a client that polls, on one mode: at most one status reply hides a failure, unless a configure message erases it (`FailureTold`); while no library call fails, stop reaches every acquiring card, and the end of an acquisition, a stop and the destruction of the DAQ are all finished | 73,468 |
| `process` | With dropped frames and configurations at any time: scalars are sent once each, and in step with the blocks until the memory is resized (`ScalarsConserved`, `ScalarsMatchBlocks`). While nothing is dropped and the client configures between acquisitions: the blocks implement `FrameLog`, numbers and labels are right, every acquisition is written | 323,155 |
| `process_dropped` (violation) | Is a block confined to one window of frame numbers, as the comment says? Not after a dropped frame | – |
| `x3x2_list` | From the card to the datasets: each dataset holds the events in order, the four stay in step, completion means all channels' frames, once, nothing after it; an acquisition whose card is not stopped is closed, or the receiver has ended on a read that went into the next message (`Closes`) | 858,498 |
| `x3x2_once` (violation) | Are the last frames sent once when a flush meets the last end mark, as the changelog says? No | – |
| `listmode` | With packets lost and dropped, flushes and stops: blocks and frames hold exactly the packets kept, in order, wherever a packet is split; frames are numbered without a gap; while nothing is lost, nothing of an acquisition enters the next and every buffer drains | 51,839 |
| `listmode_channels` (violation) | Is a packet of a channel that is not configured refused as a bad channel? Not if the channel was configured before: the plugin follows a null pointer | – |
| `meta_writer` | With the messages of two processors in any order and some lost: a row is written once and is whole (`RowsWhole`), rows survive another configuration, and without loss all are written | 103,955 |
| `client` | With late, lost and cancelled requests and failing library calls: a task gets the answer to its own request (`AnswersMatch`), windows are what was acknowledged last (`AckedWindowsHold`), the tree catches up with the server when users rest (`TreeCatchesUp`); deadlock is checked | 389,983 |

`CHECK_DEADLOCK FALSE` is set where a client may make no further request and the bounds
on acquisitions end every behaviour. In `client` the poller never ends.

### Bounds

* Two workers and two cards: the smallest number where "all" and "any" differ, and the
  code treats the workers (and the cards other than 0) alike.
* Two acquisitions (`MaxStarts`, `MaxAcqs`): a restart after a stop or failure meets what
  the one before left. In `daq`, 3 frames: an empty batch, a batch of several, several
  batches. `detector_any`: a queue of one task; `detector_calls`: of two, so that a
  stale START is behind another; two values of a parameter.
* `process`: up to 3 frames against chunks of 1 to 3 and a limit `MaxBlock` of 2: chunks
  that divide, do not divide, exceed the number of frames and exceed the limit; two frame
  shapes; the rank 1 of 2; two buffers, so that frames are dropped behind others that were
  kept.
* X3X2 list mode: two channels that end at different times, one with an empty time
  frame, and a third that is not configured; blocks of one and two events, so that
  a block fills inside and at the end of a packet; a ring of two buffers; two datasets
  instead of four, as the code treats them alike. `closed < 2` in `Flush` bounds the
  number of closes a mutant can make. One packet on the connection,
  and one behind a packet that is half read, which the read of the rest may go into.
* `listmode`: blocks of 4 words and packets of which one fits with its count,
  one is split and one fills the block to its end; two packets in a buffer; one buffer, so
  that the second is always missed; one flush.
* `meta_writer`: two processors with one and two channels, so that a row needs both and
  neither half is the other's size; two frames in one or two messages; one further
  configuration; two losses; at most 6 messages of a processor not handled.
* `client`: one user and the poller. A request that timed out stays on the wire beside
  the next of the same task and beside the poller's, which is all that a second user
  would add. Two requests of the user, ids 1 to 5, two channels, limits 0 and 1.
  `MaxTrouble` is shared by library faults, disconnect commands, late timeouts, drops and
  stops of the job. An instance with three requests was searched too (about two
  million states, no error), and is too long to keep as a run.

The assumptions on clients, networks and the library are constants, so that the runs and
theorems name them: `EagerStart` (starts without waiting for "not running"), `MayStop`,
`MayFail`, `OrderedFlags` (stores not delayed), `Patient` (starts when a poll said
"complete"), `Settled` (a start or stop finds the ctrl thread waiting for a task),
`Drained` (a restart waits for the last buffers), `Racing` (a flush inside
`process_frame`), `Lossy`, `MayOverlap`, `SetsFail`, `ReadsFail`.

### Fairness

The ctrl thread, the workers outside of a send and the client in a call, outside of the
close of the sockets, are weakly fair: they wait for queues. A push to a socket waits for
its peer, which nothing here makes pull: a worker may stay in `WorkerSend` and the
destructor in the close, and the liveness of the DAQ is stated under `PeersPull`, which
says that neither does for ever. Without it `CallsReturn` and the liveness of
`Acquisition` do not hold. As acquisitions are to end, the detector produces frames
(`WF(HwFrame)`). In `XspressDetector` the reactor and the DAQ threads are weakly fair and
`StatusBegin` is strongly fair, for a client that polls periodically over a FIFO socket,
so that its request is not overtaken forever; fairness is stated over the steps without
failures (`Sound!Fairness`), so that no liveness property relies on a failure happening.
In `XspressProcess` the pipeline is weakly fair and the client is not. In `X3X2ListMode`
the card, the decoder, the plugin's thread and a close in progress are weakly fair;
flushes, stops and starts are not. In `XspressListMode` the receiver (with the card that
sends) and the plugin are; the client, and losses, are not. The meta writer polls the
sockets of all processors (`WF(Receive(s))`). In `ControlClient` the server, the receiving
task, the reconnection of the socket, the poller, and a task whose reply is there or whose
connection is lost are weakly fair; users, timeouts of requests under way, drops and stops
of the job are not.

## Theorems

Checked by TLAPS for every value of the constants that satisfies the module's ASSUME.
A theorem whose property is in no run (there would be too little to gain from another
search) is marked with a star.

* **XspressDAQProofs**, for every client: `TypeCorrect`, `ReadsUnacked`, `AckAfterSend`,
  `ShutdownDrains`*, `FailureVisible`; `StopSilences`* under `OrderedFlags`. The invariants
  are not inductive as they stand: an acknowledgement is right because the ctrl thread
  counts, and the proof must say what the count means. `BatchInv` is `TypeOK`, what
  each worker's task and position may be (`WorkerInv`), and `CountInv`: completions in
  `doneQ`, completions already collected and workers not finished add up to
  `NumThreads`. When all are collected no worker is unfinished, so all have sent.
  `StopSilences` and `FailureVisible` have invariants of their own (`FlagInv`: what
  `waiting` says of the place of the ctrl thread; `FailInv`).
* **XspressDAQProofs**, for a client and a detector that behave, as the histories record
  it: `CarefulStopSilences`; `AckForward`, where `ForwardInv` bounds the last
  acknowledgement by what the ctrl thread has read so far, in each of its places;
  `SendsEveryFrame`, where `PlaceInv` says of each worker that it has sent what its task
  leaves out (`SentSoFar`). `ThreadsAcquire`: while no acquisition is stopped either, every
  step of the threads is a step of `Acquisition` or none. `StartDetector` maps to `Begin`,
  `CtlPublish` to `Deliver`, `CtlEnd` to `Finish`. It needs to know that `acq_running_` is
  true exactly while the one start task is queued, taken or run (`ControlInv`), and that
  the loop counts what the detector has produced and ends with what was asked for
  (`FramesInv`).
* **XspressDetectorProofs**: `TypeCorrect`; `ReconnectAnnounced`, where `ReconnectTold` is
  inductive by itself once each request is taken apart by the stage of the connect chain;
  `DaqServesConnection`, with `DaqInv`, which extends the statement to the states inside a
  request, where a DAQ object is on its way out. `FailureReported` and `CardsCanBeStopped`
  assume `Waits`, the client of `detector_calls`: it waits for the ctrl thread and for
  "complete", and does not change to list mode. `acq_running_` and `acquiring_` then go
  together (`TellInv`, `RunInv`), and a failure neither told nor erased by a configure
  message is either still to be seen in the DAQ object or in the error text of the next
  reply (`GivenUpInv`). While no library call has failed a card acquires only with
  `acquiring_` set (`CardsInv`), and unless a stop is under way, the ctrl thread leaves
  its loop only when the frames are read out, by when no card acquires (`FollowInv`).
* **XspressProcessProofs**: `TypeCorrect` with `SendInv`, which includes that no block is
  ever left full and that buffers are conserved; `ScalarsKeepStep`, until the memory is
  allocated anew within an acquisition (`resized`), with `StepInv`: rows and frames in the
  block are counted by the same steps; `RowsHaveRoom`*: under the same condition the row
  of the next frame fits the scalar memory. `ScalarsAllSent` for everything the client and
  the decoder may do: what the messages carry and what the rows hold is what was seen.
  `LabelsAreRight` and `WritesTheLog` while nothing is dropped and the client waits for
  the pipeline to empty: the frames on their way are then consecutive and the next the
  plugin takes is the one it expects (`QueueInv`), and its block, rows and output are a
  function of how many frames it has seen (`PlaceInv`). With that, `Process` is `Take` of
  `FrameLog` (from an empty log for frame 0), `Configure` is `Resize`, and every other
  step changes nothing the log shows.
* **X3X2ListModeProofs**: `TypeCorrect`; under `Racing = FALSE`, `EndsOnce`,
  `SilentAfterEnd` and `FramesInOrder`*. `CloseInv` says that one thread at most is in
  `flush_close_acquisition`, with the acquisition open and the worker without a packet; it
  is what makes the unlocked test sound between packets, and what `x3x2_once` breaks.
  `FramesInv` says of each dataset that only one a close has passed may end in a short
  frame, that nothing is added behind such a frame, and that `frame_count_` is the number
  of frames pushed until the acquisition is complete. Stale packets are included: these
  theorems do not assume `Drained`, nor does `DatasetsInStep`. For that, `RingInv` says
  that the buffers in use (of the packet under way, of those that are ready, of the one
  half read) are the last ones the decoder went through, one behind the other round the
  ring, so that it never writes to any of them; the event under way is then the same for
  all its datasets (`HeldInv`), and `StepInv` says where the datasets of a channel differ:
  those before the one the worker or a close is at have taken the step, the others have
  not.
* **X3X2ListModeProofs**, while an acquisition begins only with nothing of the one before
  on its way (`Drained`, in the properties themselves): `RowsInOrder` and `CompleteIsAll`.
  The packets on their way, through the ring and off the wire (`Path`), are a `Chain`: of
  each channel they hold the items from some item on up to the last one sent, without a
  gap, and all of the acquisition that runs (`PathInv`). `StreamInv` names that item: each
  dataset has the events before it, and of the event under way as far as the worker is
  with it; and a channel that has ended has no event behind it, as the marks come in order
  (`ScriptsInOrder`). Without a flush a close begins when all channels have ended
  (`EndInv`), and leaves the blocks it has passed empty (`EmptyInv`), which is also why a
  new frame size stores nothing after the end (`SilentAfterEnd`). A read that goes too far
  changes nothing these invariants look at, so that they are proved for the other steps
  (`Steps`), and `Visible` says that there are no more; the two theorems speak of the time
  before it.
* **XspressListModeProofs**: `TypeCorrect`, which says that nothing is written past a
  buffer or a block, and that buffers are conserved; `NumbersInOrder`: frames are numbered
  without a gap and are all of the block's size, for packets of any length below the
  block's (the bound `BlocksHoldPackets`), split anywhere; `NoBlockMissed`*: a plugin
  whose list of channels only grows never follows a null pointer (the counterpart of
  `listmode_channels`); `NothingTakenOver`: nothing resets the decoder, yet no packet of
  one acquisition ends up in the frames of the next, as long as none is lost, none is cut
  off and the plugin is let finish. Its invariant `ClosedInv` says that while that holds
  the buffers and the blocks hold packets of the current acquisition only, and that the
  decoder's buffer is empty once every channel has finished: the last packet of all ends a
  frame. `WordsInOrder`: the frames pushed (without the zeros a flush fills them with),
  the block and the packets on their way are together the packets the decoder kept, each
  behind its word count (`StreamInv`), for every script and whatever is lost, flushed,
  reset or configured. `CutInTwo` says that what `add_block` puts in the full block and in
  the new one is the packet. Of a channel that was never on a list nothing is pushed
  (`Told`), which makes it sound to skip its packets.
* **SequenceLemmas**: no theorem of the models, but what theirs rest on. The library's
  induction theorems take an operator and cannot be used, so induction is stated for
  *sets*, of numbers (`Induction`) and of sequences (`SequenceInduction`), from the
  well-foundedness of the numbers; `FlattenSeq` is then shown to take concatenation to
  concatenation (`FlattenConcat`), and so are the images of sequences and the sequences
  mapped and flattened (`Mapped...`).
* **ControlClientProofs**: `TypeCorrect`*, which includes that no window is ever inverted in
  the detector, although a list is checked against the copy; `AnswersCorrect`, with
  `OneRequest`: an id that is still in the send buffer stands for the same request
  wherever it occurs, on the wire, on the way back, in a buffer or at a waiting task;
  `AckedHeld`, with `CopyKept`: while the parameters could always be read, the copy is
  what was acknowledged last, and after an acknowledgement so is the detector.
* **XspressMetaWriterProofs**: `TypeCorrect`: no row under way ever has as many values as there
  are channels, and every value of a message is found within it, which rests on lemmas
  about quotient and remainder (`Within`, `Divided`, `PublishedCarries`: the index the
  writer computes is the place where the processor put that value); `RowsStay`, where
  `ConfigFirst` says that until a configuration is handled it is the first message of every
  processor, so that the one that redefines the datasets finds no row; `RowsComplete`
  under `MayOverlap = FALSE`, with `WholeInv`: messages on their way are of this acquisition,
  no two bring the same value and none brings one that has come (`OnceInv`), and a row
  counts exactly the channels that have come (`RowInv`, with `Counted` for the
  cardinalities).

Only model-checked: all liveness properties, that of `Acquisition` among them, because fairness
and ENABLED are outside the prover's reach. Every safety property of a passing run is
stated by a theorem. What is defined by `FoldLeft`, `SelectSeq` or another recursive
definition has no laws the prover knows of; where a theorem is about a whole stream, the model
therefore defines it by `FlattenSeq`, whose laws are proved in `SequenceLemmas`.

## Findings

1. `stopAcquisition` "waits for the ready state" (XspressDAQ.cpp:204), but returns at once
   when the START task has not been taken; the stale task then runs under the
   `acq_running_` of the next start (`daq_stop_ready`).
2. After a dropped frame a block mixes two windows of frame numbers; the comment at
   XspressProcessPlugin.cpp:376 announces the check that is missing (`process_dropped`).
3. `flush_close_acquisition` in X3X2 list mode may run twice for one acquisition, once on
   each thread (`x3x2_once`), where the changelog says once.
4. The plugin of the Xspress 4 list mode reports a packet of a channel that is not
   configured as "Bad channel, this plugin is not set up for channel"
   (XspressListModeProcessPlugin.cpp:362), but tests for it in `packet_headers_`, which
   keeps the channels of earlier lists (:342); the block it then looks up is null
   (`listmode_channels`).

### What the models show besides

These follow from the models with other values of the constants; no text of the
repository promises otherwise, or the case is described in a comment and not checked
by a run.

* DAQ: a failure with a prompt restart may make acknowledgements go backwards
  (`AckIsForward`); a stale START with a larger frame count never ends; a worker whose peer
  does not pull stays in its send, and with it stop and the destructor; the destructor
  does not join the ctrl thread, although the comment at XspressDAQ.cpp:105 speaks of
  joining the threads.
* Detector: enabling a DAQ object during an acquisition clears the acquiring latch, and so
  does an idle DAQ object left after the mode was changed to list on an open connection
  (the comment at XspressDetector.cpp:1238 asks for the DAQ only "if we are in MCA mode");
  after either, stop is a no-op. A start that fails after the child cards leaves them
  running. A list mode stop that fails clears the latch. An MCA acquisition without a DAQ
  object, or a disconnect during one, leaves it set. A DAQ failure stops card 0 only. With
  a START task still queued a failure may be lost for good; so may one that a configure
  message erases after the first reply that says complete, which carries nothing of it
  (XspressController.cpp:264 and 412). Failures of the connect chain after line 426 do not
  set the reconnect flag.
* Processing: frame 0 lost lets frames of a stopped acquisition into the next one;
  the last frame lost, or a stop, leaves the tail unpushed; a chunk of 0 divides by zero;
  a chunk reduced while rows are held overflows the scalar memory; a new chunk in the
  middle of an acquisition separates scalars and blocks.
* X3X2 list mode: end marks of an earlier acquisition that arrive after the reset complete
  the new one early; a flush that completes an acquisition lets the packet under way be
  processed to its end; a frame size of 0 is accepted and the first event overflows the
  block; an acquisition of 0 time frames never ends by itself; a processor that does not
  keep up reads overwritten buffers (the changelog says so); a read of the rest of a
  message that goes into the next one ends the receiver, and the acquisition stays open.
* Xspress 4 list mode: the packets a stopped acquisition left in the decoder's buffer come
  out with the next one, as nothing resets the decoder; a buffer without a free successor
  is dropped, and its end of frame acknowledged all the same (not modelled);
  `frame_size_bytes_` is not initialised when the channels are configured before the frame
  size; a packet of the length of a block or longer is not checked against it; each
  further flush pushes frames of zeros; the socket for acknowledgements is connected once,
  to the first sender of an end of frame.
* Meta writer: the rows under way are never cleared, so that an acquisition of the same
  name mixes with the one before (`MayOverlap`); a lost message leaves its rows unwritten
  for good; if a processor's first configuration is lost a later one redefines the
  datasets; a message of a processor that dropped a frame is labelled wrong, and its
  values go to the rows of other frames.
* Control client and windows: the comment at parameter_tree.py:176 says that put raises
  when unsuccessful, but `_put` returns the refusal, and the refused element stays in the
  tree until the next poll; two puts of elements of one list, the second before the first
  is answered, lose the first; a configuration read that is older than a put is stored
  after it, and the next put of an element takes the put back; a cancelled request stays
  in `send_buffer`, and its reply in `recv_buffer`, for good; after a failed read-back the
  copy is shorter and shifted, so that lists of the right length are refused and a short
  one sets windows with the limits of other channels; a list refused for one channel has
  changed the others; a list that is empty in a reply leaves the old one in the tree.

## Not modelled

`PROJECT.json` lists every component with its status.

* Planned: the coroutines of the Python detector (`reconfigure`, `reset`, `acquire`),
  `CallbackClient`, the frame processor adapter, the live view combiner, the list mode
  address generator, the life cycle of the server (its shutdown condition is listed as
  a hazard).
* Sequential, without interaction with what is modelled: thresholds (SCA4), dead
  time parameters and saving the settings; the resolution of paths in the tree.
* Left out for good: message encoding, logging, dataset names, version and status
  functions, web pages, build files. The vendor library is modelled through its
  callers; `LibXspressSimulator` computes spectra and is no more than such a library.
* Data races on memory that is freed (the MCA plugin configured, or list mode reset, while
  a frame is processed; neither takes the plugin's lock) are undefined behaviour beyond a
  choice of values; the models assume they do not happen, and name the constant or guard
  that says so. So is a chunk of 0 frames, by which XspressProcessPlugin.cpp:87 divides:
  the models' chunks are positive. The DAQ's destructor joins its workers only
  (XspressDAQ.cpp:107), so that the ctrl thread may outlive the object, and a new DAQ
  object binds its sockets before the old one is destroyed (XspressDetector.cpp:262);
  neither has a state that a property could be about.

## Plan

Done: everything in the tables above. Left, in this order:

1. `Reconfigure`: the coroutines of the Python detector that interleave at every await
   (the mode is read again after each), with the server as in `ScalarWindows`.
2. The live view combiner (one slot for each port) and the address generator against a
   reference definition.
