--------------------------- MODULE XspressProcess ---------------------------
(***************************************************************************)
(* The MCA data path behind the data acquisition: the frame receiver with  *)
(* its decoder (XspressFrameDecoder), the buffers it shares with the frame *)
(* processor, and the plugin that gathers frames into blocks and scalars   *)
(* into messages (XspressProcessPlugin).                                   *)
(*                                                                         *)
(* The channels of a frame go through the plugin in lockstep, so that one  *)
(* block stands for the blocks of all of them; a row of scalars stands for *)
(* the scalars, the dead time and the input estimate of a frame.           *)
(***************************************************************************)
EXTENDS Integers, Sequences, FiniteSets, SequencesExt

CONSTANTS
  MaxFrames,    (* bound: the largest number of frames of an acquisition   *)
  MaxAcqs,      (* bound: how many acquisitions are started                *)
  Chunks,       (* the chunk sizes a client asks for                       *)
  MaxBlock,     (* MAX_SCALAR_MEM_BLOCK_SIZE                               *)
  Shapes,       (* numbers of channels and of resolution grades of a frame *)
  NumChannels,  (* the channels of a frame                                 *)
  Procs, Rank,  (* concurrent_processes_ and concurrent_rank_              *)
  NumBuffers    (* buffers shared by the receiver and the processor        *)

ASSUME ProcessAssumption ==
  /\ {MaxFrames, MaxAcqs, MaxBlock, NumChannels, NumBuffers, Procs}
       \subseteq Nat \ {0}
  /\ Rank \in 0 .. Procs - 1
  /\ Chunks \subseteq Nat \ {0} /\ Shapes \subseteq Nat \ {0}

(* A byte of a block or a message that no frame was copied to.             *)
None    == [acq |-> 0, id |-> 0]
NoShape == 0

VARIABLES
  acq,        (* the acquisitions started                                  *)
  asked,      (* the number of frames the acquisition was started for      *)
  next,       (* the next frame number of the data acquisition             *)
  sending,    (* it runs                                                   *)
  sendShape,  (* the shape of its frames                                   *)
  wire,       (* the messages between it and the frame receiver            *)
  free,       (* empty_buffer_queue_: how many buffers are free            *)
  ready,      (* the frames received and not processed                     *)
  total,      (* num_frames_                                               *)
  fpb,        (* frames_per_block_                                         *)
  shape,      (* num_channels_ and num_aux_                                *)
  block,      (* memory_ptrs_                                              *)
  rows,       (* scalar_memblock_ up to num_scalars_recorded_              *)
  out,        (* the blocks pushed since the last frame 0                  *)
  msgs,       (* the scalar messages published since the last frame 0      *)
  processed,  (* history: the frames processed since the last frame 0      *)
  smooth,     (* history: no frame was dropped, and the client configured  *)
              (* and started only when no frame was under way              *)
  resized     (* history: the memory was allocated anew after the last     *)
              (* frame 0                                                   *)

daqVars     == <<acq, asked, next, sending, sendShape>>
config      == <<total, fpb>>
memory      == <<shape, block, rows>>
output      == <<out, msgs, processed>>
vars        == <<daqVars, wire, free, ready, config, memory, output, smooth, resized>>

ZeroBlock(size) ==
  [slots |-> [i \in 0 .. size - 1 |-> None], frames |-> 0, filled |-> 0]

Init ==
  /\ acq = 0 /\ asked = 0 /\ next = 0 /\ sending = FALSE
  /\ sendShape = NoShape
  /\ wire = <<>> /\ free = NumBuffers /\ ready = <<>>
  /\ total = 1 /\ fpb = 1
  /\ shape = NoShape /\ block = ZeroBlock(1) /\ rows = <<>>
  /\ out = <<>> /\ msgs = <<>> /\ processed = <<>>
  /\ smooth = TRUE /\ resized = FALSE

-----------------------------------------------------------------------------
(***************************************************************************)
(* The client.                                                             *)
(***************************************************************************)
PipelineEmpty == wire = <<>> /\ ready = <<>>

(* Mutant: a chunk of any size is accepted.                                *)
FitAny(chunk) == chunk

Fit(chunk) == IF chunk > MaxBlock THEN MaxBlock ELSE chunk

(* New memory: the blocks are cleared, the number of rows is not, so that  *)
(* rows recorded before are read from memory nothing was written to.       *)
Reallocated(rs) == [i \in DOMAIN rs |-> None]

(* The plugin is given the number of frames and the chunk size.  It        *)
(* compares the chunk as asked for with the one it uses, so that a chunk   *)
(* that is too large gives new memory every time.                          *)
Configure(n, c) ==
  /\ total' = n
  /\ smooth' = (smooth /\ ~sending /\ PipelineEmpty)
  /\ IF c = fpb
       THEN UNCHANGED <<fpb, block, rows, resized>>
       ELSE /\ fpb' = Fit(c)
            /\ block' = ZeroBlock(Fit(c))
            /\ rows' = Reallocated(rows)
            /\ resized' = TRUE
  /\ UNCHANGED <<daqVars, wire, free, ready, shape, output>>

(* An acquisition of as many frames as the plugin was told.                *)
Start(s) ==
  /\ ~sending /\ acq < MaxAcqs
  /\ smooth' = (smooth /\ PipelineEmpty)
  /\ acq' = acq + 1 /\ asked' = total /\ next' = 0
  /\ sending' = TRUE /\ sendShape' = s
  /\ UNCHANGED <<wire, free, ready, config, memory, output, resized>>

Stop ==
  /\ sending
  /\ sending' = FALSE
  /\ UNCHANGED <<acq, asked, next, sendShape, wire, free, ready, config,
                 memory, output, smooth, resized>>

-----------------------------------------------------------------------------
(***************************************************************************)
(* The data acquisition sends the frames in order (module XspressDAQ).     *)
(***************************************************************************)
Send ==
  /\ sending
  /\ wire' = Append(wire, [acq |-> acq, id |-> next, shape |-> sendShape])
  /\ next' = next + 1
  /\ sending' = (next + 1 < asked)
  /\ UNCHANGED <<acq, asked, sendShape, free, ready, config, memory, output,
                 smooth, resized>>

(* The frame receiver: a message is received into a free buffer and handed *)
(* to the frame processor, or into the dropped frames buffer if none is    *)
(* free, and then nobody hears of it.                                      *)
Receive ==
  /\ wire # <<>> /\ free > 0
  /\ ready' = Append(ready, Head(wire))
  /\ free' = free - 1
  /\ wire' = Tail(wire)
  /\ UNCHANGED <<daqVars, config, memory, output, smooth, resized>>

Drop ==
  /\ wire # <<>> /\ free = 0
  /\ wire' = Tail(wire) /\ smooth' = FALSE
  /\ UNCHANGED <<daqVars, free, ready, config, memory, output, resized>>

-----------------------------------------------------------------------------
(***************************************************************************)
(* The plugin processes a frame.                                           *)
(***************************************************************************)
AddFrame(b, f) ==
  LET offset == f.id % fpb IN
    [slots  |-> [b.slots EXCEPT ![offset] = f],
     frames |-> b.frames + 1,
     filled |-> offset + 1]

(* Mutant: the first frame does not clear the block.                       *)
BlockForKept(f) == IF f.shape # shape THEN ZeroBlock(fpb) ELSE block

(* The block before the frame is added: cleared by the first frame, and    *)
(* reallocated for a frame of another shape.                               *)
BlockFor(f) ==
  IF f.id = 0 \/ f.shape # shape THEN ZeroBlock(fpb) ELSE block

RowsFor(f) ==
  IF f.id = 0 THEN <<>>
  ELSE IF f.shape # shape THEN Reallocated(rows)
  ELSE rows

(* A scalar message: its first frame number, computed from the number of   *)
(* rows, and the rows.                                                     *)
Message(last, rs) == [first |-> last - Len(rs) + 1, rows |-> rs]

(* Mutant: the last frame sends no message of its own.                     *)
MessagesForFullOnly(f, rs) ==
  IF Len(rs) = fpb THEN <<Message(f.id, rs)>> ELSE <<>>

(* The messages for a frame: one when the rows reach the chunk size; and   *)
(* for the last frame one for each channel, whatever rows are left.        *)
MessagesFor(f, rs) ==
  LET chunkFull == Len(rs) = fpb
      left == IF chunkFull THEN <<>> ELSE rs IN
    (IF chunkFull THEN <<Message(f.id, rs)>> ELSE <<>>) \o
    (IF f.id = total - 1
       THEN [ch \in 1 .. NumChannels |->
               Message(f.id, IF ch = 1 THEN left ELSE <<>>)]
       ELSE <<>>)

RowsAfter(f, rs) ==
  IF Len(rs) = fpb \/ f.id = total - 1 THEN <<>> ELSE rs

(* The frame pushed: all of the block when it is full, the part that is    *)
(* filled when the last frame finds it not full.                           *)
Contents(b, size) == [i \in 1 .. size |-> b.slots[i - 1]]

(* Mutant: the window of the next frame.                                   *)
BlockIdNext(f) == ((f.id + 1) \div fpb) * Procs + Rank

(* Block numbers of the processes interleave.                              *)
BlockId(f) == (f.id \div fpb) * Procs + Rank

(* Mutants: the last block is pushed whole; it is not pushed.              *)
PushedWhole(b, f) ==
  IF b.frames = fpb \/ f.id = total - 1
    THEN <<[id |-> BlockId(f), data |-> Contents(b, fpb)]>> ELSE <<>>
PushedFull(b, f) ==
  IF b.frames = fpb THEN <<[id |-> BlockId(f), data |-> Contents(b, fpb)]>>
  ELSE <<>>

Pushed(b, f) ==
  IF b.frames = fpb THEN <<[id |-> BlockId(f), data |-> Contents(b, fpb)]>>
  ELSE IF f.id = total - 1
    THEN <<[id |-> BlockId(f), data |-> Contents(b, b.filled)]>>
  ELSE <<>>

Process ==
  /\ ready # <<>>
  /\ LET m == Head(ready)
         f == [acq |-> m.acq, id |-> m.id]
         rs == Append(RowsFor(m), f)
         b == AddFrame(BlockFor(m), f)
         since(log) == IF f.id = 0 THEN <<>> ELSE log IN
       /\ shape' = m.shape
       /\ resized' = (f.id # 0 /\ (resized \/ m.shape # shape))
       /\ rows' = RowsAfter(f, rs)
       /\ msgs' = since(msgs) \o MessagesFor(f, rs)
       /\ block' = IF Pushed(b, f) = <<>> THEN b ELSE ZeroBlock(fpb)
       /\ out' = since(out) \o Pushed(b, f)
       /\ processed' = Append(since(processed), f)
  /\ ready' = Tail(ready) /\ free' = free + 1
  /\ UNCHANGED <<daqVars, wire, config, smooth>>

-----------------------------------------------------------------------------
ClientNext ==
  \/ \E n \in 1 .. MaxFrames, c \in Chunks : Configure(n, c)
  \/ \E s \in Shapes : Start(s)
  \/ Stop

Pipeline == Send \/ Receive \/ Drop \/ Process

Next == ClientNext \/ Pipeline

Spec == Init /\ [][Next]_vars

(* The data acquisition, the receiver and the plugin's thread run on.      *)
FairSpec ==
  Spec /\ WF_vars(Send) /\ WF_vars(Receive \/ Drop) /\ WF_vars(Process)

-----------------------------------------------------------------------------
Frames   == [acq : 0 .. MaxAcqs, id : 0 .. MaxFrames - 1]
Messages == [acq : 1 .. MaxAcqs, id : 0 .. MaxFrames - 1, shape : Shapes]

(* The values of the variables: the buffers are shared out, the block has  *)
(* room for a chunk and is never left full.                                *)
TypeOK ==
  /\ acq \in 0 .. MaxAcqs /\ asked \in 0 .. MaxFrames
  /\ next \in 0 .. asked /\ sending \in BOOLEAN
  /\ sendShape \in Shapes \cup {NoShape}
  /\ wire \in Seq(Messages) /\ ready \in Seq(Messages)
  /\ free \in Nat /\ free + Len(ready) = NumBuffers
  /\ total \in 1 .. MaxFrames /\ fpb \in 1 .. MaxBlock
  /\ shape \in Shapes \cup {NoShape}
  /\ block.slots \in [0 .. fpb - 1 -> Frames]
  /\ block.frames \in 0 .. fpb - 1 /\ block.filled \in 0 .. fpb
  /\ rows \in Seq(Frames)
  /\ processed \in Seq(Frames)
  /\ smooth \in BOOLEAN /\ resized \in BOOLEAN

Written   == FlattenSeq([k \in DOMAIN out |-> out[k].data])
Published == FlattenSeq([k \in DOMAIN msgs |-> msgs[k].rows])
Pending   == Contents(block, block.filled)

(* When no frame is lost and the client waits for the pipeline to empty,   *)
(* the blocks are the log of the frames: each frame is written once, in    *)
(* order, in a block of a chunk or the rest of the acquisition, whatever   *)
(* acquisition was stopped before and with whatever chunk size.            *)
Log == INSTANCE FrameLog
         WITH LogFrames <- [acq : 1 .. MaxAcqs, id : 0 .. MaxFrames - 1],
              written <- Written, pending <- Pending, chunk <- fpb

WritesLog ==
  Log!LogInit /\ [][smooth' => Log!LogNext]_(Log!logVars)

(* What is pushed is labelled right: the k-th block of an acquisition is   *)
(* block k - 1 of this process's share, as the file writer needs it, and   *)
(* the first frame number of a scalar message is the one of its first row, *)
(* which the others follow.                                                *)
Labelled ==
  smooth =>
    /\ \A k \in DOMAIN out : out[k].id = (k - 1) * Procs + Rank
    /\ \A k \in DOMAIN msgs : \A i \in DOMAIN msgs[k].rows :
         msgs[k].rows[i].id = msgs[k].first + i - 1

(* A frame that does not clear the rows finds room for its own: the copy   *)
(* of its scalars stays inside scalar_memblock_.                           *)
RoomForRow ==
  ~resized /\ ready # <<>> /\ Head(ready).id # 0 => Len(rows) < fpb

(* Even when frames are lost, every frame processed since the last frame 0 *)
(* is in exactly one message, in order, or its row is still to be sent.    *)
ScalarsConserved ==
  ~resized /\ processed # <<>> /\ processed[1].id = 0 =>
    Published \o rows = processed

(* As many rows are recorded as frames are in the block, so that scalars   *)
(* are sent exactly when a block is pushed: the comment in process_frame   *)
(* says that the numbers have to be the same for live processing.          *)
ScalarsMatchBlocks == ~resized => Len(rows) = block.frames

(* A block that is pushed holds the frames of one window of the chunk, the *)
(* window its number says: the comment in process_frame says that a frame  *)
(* beyond the block clears it out and moves the starting block.            *)
BlockOfOneWindow ==
  \A k \in DOMAIN out : \A i \in DOMAIN out[k].data :
    out[k].data[i] # None => BlockId(out[k].data[i]) = out[k].id

(* The frames of an acquisition that ran to its end are all written, and   *)
(* their scalars are all sent.                                             *)
AllOf(a) == [i \in 1 .. asked |-> [acq |-> a, id |-> i - 1]]
AllWritten ==
  \A a \in 1 .. MaxAcqs :
    (smooth /\ acq = a /\ next = asked) ~>
      (~smooth \/ (acq = a /\ Written = AllOf(a) /\ Published = AllOf(a)))
=============================================================================
