---------------------------- MODULE X3X2ListMode ----------------------------
(***************************************************************************)
(* The list mode data path of one X3X2 card: the TCP decoder of the frame  *)
(* receiver (X3X2ListModeFrameDecoder), the circular buffer it shares with *)
(* the frame processor, and the plugin that takes the events of a packet   *)
(* apart and gathers each of their fields in a block and a dataset of its  *)
(* own (X3X2ListModeProcessPlugin, X3X2ListModeMemoryBlock).               *)
(*                                                                         *)
(* A packet is a run of consecutive items of one channel.  An item is an   *)
(* event, a dummy event, or an end of frame mark with its time frame.      *)
(***************************************************************************)
EXTENDS Integers, Sequences, FiniteSets, SequencesExt

CONSTANTS
  Channels,    (* the channels the plugin is configured for                *)
  Others,      (* the other channels of the card                           *)
  Script,      (* what each channel of the card has to send                *)
  NumFields,   (* datasets of a channel: time frame, time stamp, ...       *)
  Sizes,       (* frame sizes, in events                                   *)
  NumBuffers,  (* num_buffers_ of the decoder                              *)
  PacketSize,  (* bound: the items of a packet                             *)
  MaxWire,     (* bound: the packets on the connection behind the one that *)
               (* is half read                                             *)
  Counts,      (* the numbers of time frames the client asks for           *)
  MaxAcqs,     (* bound: how many acquisitions are started                 *)
  Drained,     (* the client starts one when no packet is under way        *)
  Racing       (* a flush may run while a packet is processed              *)

Sources == Channels \union Others
Kinds   == {"event", "dummy", "end"}

ASSUME ListModeAssumption ==
  /\ {NumFields, NumBuffers, PacketSize, MaxWire, MaxAcqs}
       \subseteq Nat \ {0}
  /\ Sizes \subseteq Nat \ {0} /\ Counts \subseteq Nat
  /\ Script \in [Sources -> Seq([kind : Kinds, tf : Nat])]
  /\ {Drained, Racing} \subseteq BOOLEAN

(* The card sends time frame after time frame: the items of a channel come *)
(* in their order, and an end mark behind the events of its time frame.    *)
ASSUME ScriptsInOrder ==
  \A c \in Sources : \A j \in DOMAIN Script[c] : \A i \in 1 .. j - 1 :
    LET first == Script[c][i]
        next  == Script[c][j]
    IN  /\ first.tf <= next.tf
        /\ first.kind = "end" /\ next.kind = "event" => first.tf < next.tf

Fields  == 1 .. NumFields
Buffers == 0 .. NumBuffers - 1
Threads == {"worker", "control"}

NoPacket == [acq |-> 0, ch |-> "none", from |-> 1, len |-> 0]
Idle     == [busy |-> FALSE, buf |-> 0, pos |-> 0, field |-> 1]

VARIABLES
  acq,       (* the acquisitions started                                   *)
  live,      (* the card sends                                             *)
  sent,      (* the items each channel has sent                            *)
  wire,      (* the TCP connection                                         *)
  bufId,     (* current_frame_buffer_id_                                   *)
  part,      (* receive_state_ is incomplete                               *)
  thrown,    (* process_message has thrown, and the receiver ended         *)
  buffers,   (* the packets in the circular buffer                         *)
  ready,     (* the buffers handed to the frame processor                  *)
  complete,  (* acquisition_complete_                                      *)
  ended,     (* completed_channels_                                        *)
  frames,    (* num_time_frames_                                           *)
  size,      (* frame_size_events_                                         *)
  block,     (* the memory block of each field and channel                 *)
  count,     (* its frame_count_                                           *)
  worker,    (* the plugin's thread inside process_frame                   *)
  closing,   (* the next dataset each thread flushes, 0 outside of         *)
             (* flush_close_acquisition                                    *)
  log,       (* the frames pushed since the last reset                     *)
  closed,    (* history: ends notified since the last reset                *)
  flushed    (* history: a flush was asked for since the last reset        *)

card     == <<acq, live, sent>>
decoder  == <<bufId, part, thrown, buffers>>
state    == <<complete, ended, frames, size>>
memory   == <<block, count, log>>
threads  == <<worker, closing>>
history  == <<closed, flushed>>
vars     == <<card, wire, decoder, ready, state, memory, threads, history>>

Everywhere(x) == [d \in Fields |-> [c \in Channels |-> x]]

Init ==
  /\ acq = 0 /\ live = FALSE /\ sent = [c \in Sources |-> 0]
  /\ wire = <<>> /\ ready = <<>>
  /\ bufId = 0 /\ part = FALSE /\ thrown = FALSE
  /\ buffers = [b \in Buffers |-> NoPacket]
  /\ complete = FALSE /\ ended = [c \in Channels |-> FALSE]
  /\ frames = 0 /\ size \in Sizes
  /\ block = Everywhere(<<>>) /\ count = Everywhere(0)
  /\ log = Everywhere(<<>>)
  /\ worker = Idle /\ closing = [t \in Threads |-> 0]
  /\ closed = 0 /\ flushed = FALSE

-----------------------------------------------------------------------------
(***************************************************************************)
(* The card.  It sends the items of its time frames, in order for each     *)
(* channel, until it is stopped.                                           *)
(***************************************************************************)
(* Bound: a packet half read leaves room for the next one behind it.       *)
WireRoom == IF part THEN MaxWire + 1 ELSE MaxWire

Total(c) == Cardinality({n \in DOMAIN Script[c] : Script[c][n].tf < frames})
AllSent  == \A c \in Sources : sent[c] = Total(c)

Send(c) ==
  /\ live /\ Len(wire) < WireRoom
  /\ \E n \in 1 .. PacketSize :
       /\ sent[c] + n <= Total(c)
       /\ wire' = Append(wire, [acq |-> acq, ch |-> c,
                                from |-> sent[c] + 1, len |-> n])
       /\ sent' = [sent EXCEPT ![c] = @ + n]
  /\ UNCHANGED <<acq, live, decoder, ready, state, memory, threads, history>>

StopCard ==
  /\ live /\ live' = FALSE
  /\ UNCHANGED <<acq, sent, wire, decoder, ready, state, memory, threads,
                 history>>

-----------------------------------------------------------------------------
(***************************************************************************)
(* The decoder.  It takes the next buffer for each message whether or not  *)
(* the frame processor is done with it: the model assumes that the frame   *)
(* processor keeps up.  The buffer stays when a message is incomplete.     *)
(*                                                                         *)
(* Every read asks for the size of a whole message.  The first read of a   *)
(* message cannot go past its end.  The next one can, if the message that  *)
(* follows has begun to arrive: process_message then throws a string that  *)
(* nothing here catches, and the receiver is taken to end.                 *)
(***************************************************************************)
(* Mutant: the wrap comes one buffer late.                                 *)
NextBufferLate(b) == IF b + 1 > NumBuffers THEN 0 ELSE b + 1

NextBuffer(b) == IF b + 1 >= NumBuffers THEN 0 ELSE b + 1

KeepsUp == Len(ready) + (IF worker.busy THEN 1 ELSE 0) < NumBuffers

ReadPart ==
  /\ wire # <<>> /\ ~part /\ ~thrown /\ KeepsUp
  /\ part' = TRUE
  /\ bufId' = NextBuffer(bufId)
  /\ buffers' = [buffers EXCEPT ![bufId'] = NoPacket]
  /\ UNCHANGED <<card, wire, thrown, ready, state, memory, threads, history>>

(* Mutant: the rest of a message is put over its beginning.                *)
RestOver(b) ==
  LET p == Head(wire)
  IN  [buf |-> b,
       packet |-> IF p.len = 1 THEN NoPacket
                  ELSE [p EXCEPT !.from = @ + 1, !.len = @ - 1]]

Rest(b) == [buf |-> b, packet |-> Head(wire)]

(* The message is complete: at one read, or with the rest of it.           *)
Completed(at) ==
  /\ part' = FALSE /\ bufId' = at.buf
  /\ buffers' = [buffers EXCEPT ![at.buf] = at.packet]
  /\ ready' = Append(ready, at.buf)
  /\ wire' = Tail(wire)
  /\ UNCHANGED <<card, thrown, state, memory, threads, history>>

ReadWhole ==
  /\ wire # <<>> /\ ~part /\ ~thrown /\ KeepsUp
  /\ Completed([buf |-> NextBuffer(bufId), packet |-> Head(wire)])

ReadRest == wire # <<>> /\ part /\ ~thrown /\ Completed(Rest(bufId))

(* A read goes on into the following message.  What it has put past its    *)
(* buffer by then is not modelled.                                         *)
OverRead ==
  /\ Len(wire) > 1 /\ part /\ ~thrown
  /\ thrown' = TRUE
  /\ UNCHANGED <<card, wire, bufId, part, buffers, ready, state, memory,
                 threads, history>>

(***************************************************************************)
(* The statistics are reset.  The code does so at any time, and in the     *)
(* middle of a message it would lose its place in the stream; the client   *)
(* of the model asks for it when nothing is under way.                     *)
(***************************************************************************)
ResetStatistics ==
  /\ ~thrown /\ ~part /\ wire = <<>> /\ ready = <<>> /\ ~worker.busy
  /\ bufId # 0 /\ bufId' = 0
  /\ UNCHANGED <<card, wire, part, thrown, buffers, ready, state, memory,
                 threads, history>>

-----------------------------------------------------------------------------
(***************************************************************************)
(* The requests of the client, on the control thread of the processor.     *)
(***************************************************************************)
NotClosing   == \A t \in Threads : closing[t] = 0
ControlReady == NotClosing /\ ~worker.busy

(* Mutant: the reset forgets a dataset.                                    *)
ClearedButLast(m, x) ==
  [d \in Fields |-> [c \in Channels |-> IF d = NumFields /\ d > 1
                                          THEN m[d][c] ELSE x]]

(* A memory block, or a frame count, after the reset.                      *)
Cleared(m, x) == Everywhere(x)

(* The plugin is reset and told the number of time frames; then the card   *)
(* is started for as many.                                                 *)
StartAcquisition(n) ==
  /\ acq < MaxAcqs /\ (live => AllSent) /\ ControlReady
  /\ Drained => (wire = <<>> /\ ready = <<>>)
  /\ acq' = acq + 1 /\ live' = TRUE /\ sent' = [c \in Sources |-> 0]
  /\ block' = Cleared(block, <<>>) /\ count' = Cleared(count, 0)
  /\ complete' = FALSE
  /\ ended' = [c \in Channels |-> FALSE]
  /\ frames' = n
  /\ log' = Everywhere(<<>>)
  /\ closed' = 0 /\ flushed' = FALSE
  /\ UNCHANGED <<wire, decoder, ready, size, threads>>

(* A new frame size replaces the blocks; the client asks for it between    *)
(* acquisitions.                                                           *)
SetFrameSize(s) ==
  /\ ControlReady
  /\ complete \/ (block = Everywhere(<<>>) /\ log = Everywhere(<<>>))
  /\ s # size /\ size' = s
  /\ block' = Everywhere(<<>>) /\ count' = Everywhere(0)
  /\ UNCHANGED <<card, wire, decoder, ready, complete, ended, frames, log,
                 threads, history>>

(* Mutant: a flush closes whatever the state of the acquisition.           *)
MayCloseAlways == TRUE

(* flush_close_acquisition begins.                                         *)
MayClose == ~complete

Flush ==
  /\ acq > 0 /\ closing["control"] = 0 /\ closed < 2
  /\ Racing \/ ControlReady
  /\ MayClose
  /\ closing' = [closing EXCEPT !["control"] = 1]
  /\ flushed' = TRUE
  /\ UNCHANGED <<card, wire, decoder, ready, state, memory, worker, closed>>

-----------------------------------------------------------------------------
CountAfter(k) == k + 1

(* The frame made of a block.  Behind its rows it is padded with zeros.    *)
ToFrame(d, c, rows) == [id |-> count[d][c], size |-> size, rows |-> rows]

(* Dataset d of channel c takes a row, and is pushed when it is full.      *)
AddRow(d, c, row) ==
  LET rows == Append(block[d][c], row)
  IN  IF Len(rows) = size
        THEN /\ log' = [log EXCEPT ![d][c] = Append(@, ToFrame(d, c, rows))]
             /\ block' = [block EXCEPT ![d][c] = <<>>]
             /\ count' = [count EXCEPT ![d][c] = CountAfter(@)]
        ELSE block' = [block EXCEPT ![d][c] = rows] /\ UNCHANGED <<log, count>>

(* Dataset d of all channels is pushed, full or not.                       *)
FlushDataset(d) ==
  /\ log' = [log EXCEPT ![d] = [c \in Channels |->
               Append(@[c], ToFrame(d, c, block[d][c]))]]
  /\ block' = [block EXCEPT ![d] = [c \in Channels |-> <<>>]]
  /\ count' = [count EXCEPT ![d] = [c \in Channels |-> CountAfter(@[c])]]

-----------------------------------------------------------------------------
(***************************************************************************)
(* The thread of the plugin: process_frame.                                *)
(***************************************************************************)
(* A buffer the plugin is done with.  The code leaves the packet in it     *)
(* until it is overwritten; the model forgets it.                          *)
Released(b) == [buffers EXCEPT ![b] = NoPacket]

WorkerMoves == Racing \/ closing["control"] = 0

Packet == buffers[worker.buf]
Number == Packet.from + worker.pos
Item   == Script[Packet.ch][Number]

(* Mutant: packets are taken after the acquisition is complete.            *)
DroppedForeign(p) == p.ch \notin Channels

Dropped(p) == complete \/ p.ch \notin Channels

Take ==
  /\ WorkerMoves /\ ~worker.busy /\ closing["worker"] = 0 /\ ready # <<>>
  /\ ready' = Tail(ready)
  /\ worker' = IF Dropped(buffers[Head(ready)])
                 THEN worker
                 ELSE [busy |-> TRUE, buf |-> Head(ready), pos |-> 0,
                       field |-> 1]
  /\ buffers' = IF worker'.busy THEN buffers ELSE Released(Head(ready))
  /\ UNCHANGED <<card, wire, bufId, part, thrown, state, memory, closing,
                 history>>

Working == WorkerMoves /\ worker.busy /\ closing["worker"] = 0

Done ==
  worker' = Idle /\ buffers' = Released(worker.buf)

NextItem ==
  IF worker.pos + 1 = Packet.len
    THEN Done
    ELSE /\ worker' = [worker EXCEPT !.pos = @ + 1, !.field = 1]
         /\ UNCHANGED buffers

(* One field of an event goes to its dataset.                              *)
AddField ==
  /\ Working /\ Item.kind = "event"
  /\ AddRow(worker.field, Packet.ch, [acq |-> Packet.acq, n |-> Number])
  /\ IF worker.field < NumFields
       THEN worker' = [worker EXCEPT !.field = @ + 1] /\ UNCHANGED buffers
       ELSE NextItem
  /\ UNCHANGED <<card, wire, bufId, part, thrown, ready, state, closing,
                 history>>

SkipDummy ==
  /\ Working /\ Item.kind = "dummy" /\ NextItem
  /\ UNCHANGED <<card, wire, bufId, part, thrown, ready, state, memory,
                 closing, history>>

(* Mutants: time frames counted from one; any channel ends it for all.     *)
IsLastFrom1(tf) == tf = frames
AnyEnded(e)     == \E c \in Channels : e[c]

IsLast(tf)  == tf + 1 = frames
AllEnded(e) == \A c \in Channels : e[c]

(* The end mark of a time frame.  That of the last one of the last channel *)
(* closes the acquisition, and the rest of the packet is left.             *)
EndMark ==
  /\ Working /\ Item.kind = "end"
  /\ ended' = IF ~complete /\ IsLast(Item.tf)
                THEN [ended EXCEPT ![Packet.ch] = TRUE] ELSE ended
  /\ IF ~complete /\ IsLast(Item.tf) /\ AllEnded(ended')
       THEN /\ closing' = [closing EXCEPT !["worker"] = 1]
            /\ Done
       ELSE NextItem /\ UNCHANGED closing
  /\ UNCHANGED <<card, wire, bufId, part, thrown, ready, complete, frames,
                 size, memory, history>>

-----------------------------------------------------------------------------
(***************************************************************************)
(* flush_close_acquisition, on either thread: the datasets are pushed one  *)
(* after the other, then the acquisition is marked complete and its end    *)
(* notified.                                                               *)
(***************************************************************************)
CloseStep(t) ==
  /\ closing[t] > 0
  /\ IF closing[t] <= NumFields
       THEN /\ FlushDataset(closing[t])
            /\ closing' = [closing EXCEPT ![t] = @ + 1]
            /\ UNCHANGED <<complete, closed>>
       ELSE /\ complete' = TRUE
            /\ closed' = closed + 1
            /\ closing' = [closing EXCEPT ![t] = 0]
            /\ UNCHANGED memory
  /\ UNCHANGED <<card, wire, decoder, ready, ended, frames, size, worker,
                 flushed>>

-----------------------------------------------------------------------------
Client ==
  \/ \E n \in Counts : StartAcquisition(n)
  \/ \E s \in Sizes : SetFrameSize(s)
  \/ Flush
  \/ StopCard
  \/ ResetStatistics

Reads  == ReadPart \/ ReadWhole \/ ReadRest
Decode == Reads \/ OverRead
Work   == Take \/ AddField \/ SkipDummy \/ EndMark

Next ==
  \/ Client
  \/ \E c \in Sources : Send(c)
  \/ Decode
  \/ Work
  \/ \E t \in Threads : CloseStep(t)

Spec == Init /\ [][Next]_vars

(* The card sends, the receiver reads and the processor works.             *)
FairSpec ==
  /\ Spec
  /\ \A c \in Sources : WF_vars(Send(c))
  /\ WF_vars(Decode)
  /\ WF_vars(Work)
  /\ \A t \in Threads : WF_vars(CloseStep(t))

-----------------------------------------------------------------------------
(***************************************************************************)
(* Properties.                                                             *)
(***************************************************************************)
Rows   == [acq : 0 .. MaxAcqs, n : Nat]
Frames == [id : Nat, size : Nat, rows : Seq(Rows)]
Packets ==
  {NoPacket} \union [acq : 1 .. MaxAcqs, ch : Sources, from : Nat, len : Nat]

(* Every variable has its type; the decoder stays inside its buffers.      *)
TypeOK ==
  /\ acq \in 0 .. MaxAcqs /\ live \in BOOLEAN /\ sent \in [Sources -> Nat]
  /\ wire \in Seq(Packets)
  /\ bufId \in Buffers /\ part \in BOOLEAN /\ thrown \in BOOLEAN
  /\ buffers \in [Buffers -> Packets]
  /\ ready \in Seq(Buffers)
  /\ complete \in BOOLEAN /\ ended \in [Channels -> BOOLEAN]
  /\ frames \in Nat /\ size \in Nat
  /\ block \in [Fields -> [Channels -> Seq(Rows)]]
  /\ count \in [Fields -> [Channels -> Nat]]
  /\ log \in [Fields -> [Channels -> Seq(Frames)]]
  /\ worker \in [busy : BOOLEAN, buf : Buffers, pos : Nat, field : Fields]
  /\ closing \in [Threads -> Nat]
  /\ closed \in Nat /\ flushed \in BOOLEAN

(* The rows of dataset d of channel c: those of its frames, and its block. *)
RowsOf(frs) == FlattenSeq([i \in DOMAIN frs |-> frs[i].rows])

Stored(d, c) == RowsOf(log[d][c]) \o block[d][c]

(* The events of a channel in the acquisition that runs, in order, and     *)
(* those among its first k items.                                          *)
Wanted(c, n) == Script[c][n].kind = "event" /\ Script[c][n].tf < frames

Events(c, k) ==
  FlattenSeq([n \in 1 .. k |-> IF Wanted(c, n) THEN <<[acq |-> acq, n |-> n]>>
                                              ELSE <<>>])

EventsOf(c) == Events(c, Len(Script[c]))

(* With a processor that keeps up, and acquisitions that begin with        *)
(* nothing of the one before under way, each dataset is a beginning of the *)
(* events the channel has sent: none twice, out of order, of another       *)
(* channel or acquisition, or from a buffer half read.  Of what a read     *)
(* that throws has put over the next buffer nothing is said.               *)
RowsAreEvents ==
  Drained /\ acq > 0 /\ ~thrown =>
    \A d \in Fields, c \in Channels : IsPrefix(Stored(d, c), EventsOf(c))

(* Between packets the datasets of a channel have the same rows in the     *)
(* same frames, so that the fields of an event share an index, whatever    *)
(* resets and flushes came before.                                         *)
InStep ==
  ControlReady /\ ~Racing =>
    \A d \in Fields, c \in Channels :
      log[d][c] = log[1][c] /\ block[d][c] = block[1][c]

(* The frames of a dataset are numbered from 0, so that the writer puts    *)
(* none over another, and only the one pushed by the close is short.       *)
FramesNumbered ==
  \A d \in Fields, c \in Channels : \A i \in DOMAIN log[d][c] :
    /\ log[d][c][i].id = i - 1
    /\ i < Len(log[d][c]) => Len(log[d][c][i].rows) = log[d][c][i].size

(* An acquisition that was not flushed is complete only with every event   *)
(* of every channel in the frames pushed.                                  *)
CompleteMeansAll ==
  Drained /\ complete /\ ~flushed /\ ~thrown =>
    \A d \in Fields, c \in Channels :
      Stored(d, c) = EventsOf(c) /\ block[d][c] = <<>>

(* An acquisition is closed once, by its last end mark or by a flush.      *)
ClosedOnce == closed <= 1

(* Once an acquisition is complete nothing is pushed or stored and no end  *)
(* is marked, whatever packets and requests come late.                     *)
QuietAfterEnd ==
  [][complete /\ complete' => UNCHANGED <<log, block, ended>>]_vars

(* When the card is started, and not stopped, the acquisition is closed,   *)
(* or the receiver has ended on a read that went past a message.           *)
Closes == live ~> (complete \/ ~live \/ thrown)
=============================================================================
