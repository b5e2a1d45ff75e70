--------------------------- MODULE XspressListMode ---------------------------
(***************************************************************************)
(* List mode of the Xspress 4: a card sends the events of each channel in  *)
(* UDP packets, the decoder XspressListModeFrameDecoder gathers packets of *)
(* all channels in buffers, and XspressListModeProcessPlugin copies them   *)
(* into one memory block per channel, which it pushes when it is full.     *)
(*                                                                         *)
(* A packet is the channel, acquisition and position it was sent in, its   *)
(* length in words and whether it ends a time frame; a word of a block is  *)
(* the packet and the position it comes from, position 0 for the word      *)
(* count the plugin writes before the packet.                              *)
(***************************************************************************)
EXTENDS Integers, Sequences, FiniteSets, SequencesExt

CONSTANTS
  Channels,         (* the channels of the card                            *)
  Script,           (* what each channel sends in an acquisition           *)
  Sizes,            (* block sizes a client asks for, in words             *)
  PacketsPerFrame,  (* XSP_PACKETS_PER_FRAME                               *)
  NumBuffers,       (* buffers shared by the receiver and the processor    *)
  MaxAcqs,          (* bound: how many acquisitions are started            *)
  MaxFlushes,       (* bound: how often a client flushes                   *)
  Lossy,            (* the network may lose packets                        *)
  MayStop           (* the client may stop an acquisition                  *)

ASSUME ListModeAssumption ==
  /\ {PacketsPerFrame, NumBuffers} \subseteq Nat \ {0}
  /\ {MaxAcqs, MaxFlushes} \subseteq Nat
  /\ Sizes \subseteq Nat \ {0}
  /\ Script \in [Channels -> Seq([len : Nat \ {0}, last : BOOLEAN])]
  /\ {Lossy, MayStop} \subseteq BOOLEAN

(* The client chooses blocks longer than any packet; the plugin does not   *)
(* check it, and would write past a block that is shorter.                 *)
ASSUME BlocksHoldPackets ==
  \A c \in Channels : \A k \in DOMAIN Script[c] : \A n \in Sizes :
    Script[c][k].len < n

(* The last packet of a time frame, and so of an acquisition, ends it.     *)
ASSUME ScriptsEnd ==
  \A c \in Channels : Script[c] # <<>> => Script[c][Len(Script[c])].last

VARIABLES
  acq,          (* the acquisitions started                                *)
  pos,          (* how many packets of each channel have left the card     *)
  initialising, (* initialising_                                           *)
  holding,      (* current_frame_buffer_id_ # -1                           *)
  cur,          (* the packets in the current buffer                       *)
  free,         (* empty_buffer_queue_: how many buffers are free          *)
  ready,        (* the buffers completed and not taken by the plugin       *)
  work,         (* the packets of the buffer being processed, still to do  *)
  size,         (* frame_size_bytes_, in words                             *)
  known,        (* the keys of packet_headers_                             *)
  channels,     (* the keys of memory_ptrs_ that have a block              *)
  block,        (* the filled part of each block                           *)
  count,        (* frame_count_ of each block                              *)
  out,          (* the frames pushed for each channel since its new start  *)
  crashed,      (* the plugin followed a null pointer                      *)
  flushes,      (* how often the plugin was flushed                        *)
  due,          (* history: the packets kept by the decoder that the plugin*)
                (* did not process before its last new start               *)
  whole,        (* history: nothing was lost on the network or cut off, and*)
                (* the client let the plugin finish before it started again*)
  grown         (* history: each list of channels contained the one before *)

card    == <<acq, pos>>
decoder == <<initialising, holding, cur>>
buffers == <<free, ready, work>>
plugin  == <<size, known, channels, block, count, crashed>>
history == <<due, whole, grown>>
vars    == <<card, decoder, buffers, plugin, out, flushes, history>>

(* A byte of a block that nothing was copied to.                           *)
Zero == [acq |-> 0, k |-> 0, i |-> 0]

NoPackets == [c \in Channels |-> <<>>]

(* The size of the blocks is not initialised before it is first set.       *)
Init ==
  /\ acq = 0 /\ pos = [c \in Channels |-> Len(Script[c])]
  /\ initialising = TRUE /\ holding = FALSE /\ cur = <<>>
  /\ free = NumBuffers /\ ready = <<>> /\ work = <<>>
  /\ size \in Sizes /\ known = {} /\ channels = {}
  /\ block = NoPackets /\ count = [c \in Channels |-> 0]
  /\ crashed = FALSE /\ out = NoPackets /\ flushes = 0
  /\ due = NoPackets /\ whole = TRUE /\ grown = TRUE

-----------------------------------------------------------------------------
(***************************************************************************)
(* The decoder.  A packet is given a buffer when the decoder has none, or  *)
(* goes into the dropped frames buffer if none is free or the first second *)
(* after the start has not passed.  An end of frame is acknowledged to the *)
(* card either way; the acknowledgement is not modelled.                   *)
(***************************************************************************)
Packet(c) ==
  [ch |-> c, acq |-> acq, k |-> pos[c] + 1,
   len |-> Script[c][pos[c] + 1].len, last |-> Script[c][pos[c] + 1].last]

Leaves(c) ==
  /\ pos[c] < Len(Script[c])
  /\ pos' = [pos EXCEPT ![c] = @ + 1]
  /\ UNCHANGED <<acq, work, plugin, out, flushes, grown>>

(* Mutants: an end of frame leaves the buffer open; a full buffer stays    *)
(* open.                                                                   *)
CompleteWhenFull(packets, p) == Len(packets) = PacketsPerFrame
CompleteAtEnd(packets, p)    == p.last

(* A buffer is complete when it is full or holds an end of frame.          *)
Complete(packets, p) == Len(packets) = PacketsPerFrame \/ p.last

(* What the current buffer holds once packet p was added.                  *)
Kept(packets, p) == IF Complete(packets, p) THEN <<>> ELSE packets

Keep(p) ==
  LET packets == Append(cur, p) IN
    /\ holding \/ (free > 0 /\ ~initialising')
    /\ cur' = Kept(packets, p)
    /\ holding' = ~Complete(packets, p)
    /\ ready' = IF Complete(packets, p) THEN Append(ready, packets) ELSE ready
    /\ free' = IF holding THEN free ELSE free - 1
    /\ due' = [due EXCEPT ![p.ch] = Append(@, p)]

Drop(p) ==
  /\ ~holding /\ (free = 0 \/ initialising')
  /\ UNCHANGED <<holding, cur, ready, free, due>>

Receive(c) ==
  /\ Leaves(c)
  /\ initialising' \in {FALSE, initialising}
  /\ Keep(Packet(c)) \/ Drop(Packet(c))
  /\ UNCHANGED whole

(* A datagram is lost on its way.                                          *)
Lose(c) ==
  /\ Lossy /\ Leaves(c)
  /\ whole' = FALSE
  /\ UNCHANGED <<decoder, free, ready, due>>

-----------------------------------------------------------------------------
(***************************************************************************)
(* The plugin.                                                             *)
(***************************************************************************)
Word(p, i)  == [acq |-> p.acq, k |-> p.k, i |-> i]
CountOf(p)  == Word(p, 0)
Data(p)     == [i \in 1 .. p.len |-> Word(p, i)]
Frame(n, w) == [num |-> n, data |-> w]

(* A frame of the whole block, its unused end filled with zeros.           *)
Padded(w) == [i \in 1 .. size |-> IF i <= Len(w) THEN w[i] ELSE Zero]

(* Mutant: the frame is made of the words that were copied.                *)
ToFrameShort(c) == Frame(count[c], block[c])

ToFrame(c) == Frame(count[c], Padded(block[c]))

(* The words of packet p that still go into the block.                     *)
ToFull(b, p) == size - Len(b) - 1

(* Mutant: the rest of the packet is counted from the block before the     *)
(* word count was written.                                                 *)
RestShort(b, p) == SubSeq(Data(p), ToFull(b, p) + 2, p.len)

Rest(b, p) == SubSeq(Data(p), ToFull(b, p) + 1, p.len)

Fits(b, p) == Len(b) + 1 + p.len < size

(* The block and the frames pushed once packet p was added to block b with *)
(* n frames before it.  add_block also looks for a full block before and   *)
(* behind this; it never finds one, as TypeOK says of a model without      *)
(* these tests, since blocks are longer than packets.                      *)
AddBlock(b, n, p) ==
  LET counted == Append(b, CountOf(p)) IN
    IF Fits(b, p)
      THEN [block |-> counted \o Data(p), frames |-> <<>>]
      ELSE [block  |-> Rest(b, p),
            frames |-> <<Frame(n, counted \o SubSeq(Data(p), 1, ToFull(b, p)))>>]

Take ==
  /\ ready # <<>> /\ work = <<>> /\ ~crashed
  /\ work' = Head(ready) /\ ready' = Tail(ready)
  /\ UNCHANGED <<card, decoder, free, plugin, out, flushes, history>>

(* The next packet of the buffer is done; with the last one the buffer is  *)
(* released.                                                               *)
Done ==
  /\ work # <<>> /\ ~crashed
  /\ work' = Tail(work)
  /\ free' = IF Len(work) = 1 THEN free + 1 ELSE free
  /\ UNCHANGED <<card, decoder, ready, size, known, channels, flushes>>

ProcessPacket ==
  LET p == Head(work) c == p.ch added == AddBlock(block[c], count[c], p) IN
    /\ Done /\ c \in channels
    /\ block' = [block EXCEPT ![c] = added.block]
    /\ count' = [count EXCEPT ![c] = @ + Len(added.frames)]
    /\ out' = [out EXCEPT ![c] = @ \o added.frames]
    /\ UNCHANGED <<crashed, history>>

(* "Bad channel": the packet is skipped.                                   *)
SkipPacket ==
  LET c == Head(work).ch IN
    /\ Done /\ c \notin known
    /\ due' = [due EXCEPT ![c] = Tail(@)]
    /\ UNCHANGED <<block, count, out, crashed, whole, grown>>

(* The headers of a channel are known and its block is gone: the plugin    *)
(* looks the block up and follows the null pointer it gets.                *)
MissBlock ==
  /\ Done /\ Head(work).ch \in known \ channels
  /\ crashed' = TRUE
  /\ UNCHANGED <<block, count, out, history>>

-----------------------------------------------------------------------------
(***************************************************************************)
(* The client.  Requests to the plugin are handled on another thread than  *)
(* packets.  No lock keeps the two apart in the code; the requests of the  *)
(* model come between two packets, and one that comes inside process_frame *)
(* is not modelled.                                                        *)
(***************************************************************************)
Quiet    == ready = <<>> /\ work = <<>>
Finished == \A c \in Channels : pos[c] = Len(Script[c])

(* The packets of channel c on their way from the decoder to the plugin.   *)
OfChannel(c, packets) ==
  FlattenSeq([i \in DOMAIN packets |->
                IF packets[i].ch = c THEN <<packets[i]>> ELSE <<>>])
Pending(c) == OfChannel(c, work \o FlattenSeq(ready) \o cur)

(* Every block is empty and counts its frames from 0.                      *)
Anew ==
  /\ block' = NoPackets /\ count' = [c \in Channels |-> 0]
  /\ out' = NoPackets
  /\ due' = [c \in Channels |-> Pending(c)]

AnewOnly ==
  /\ Anew
  /\ UNCHANGED <<card, decoder, buffers, crashed, flushes, whole>>

(* Every channel of the list is given a new block.                         *)
Allocated(s) == s

(* packet_headers_ keeps the channels of earlier lists; memory_ptrs_ does  *)
(* not.                                                                    *)
SetChannels(s) ==
  /\ ~crashed
  /\ known' = known \cup s /\ channels' = Allocated(s)
  /\ grown' = (grown /\ channels \subseteq s)
  /\ AnewOnly /\ UNCHANGED size

SetFrameSize(n) ==
  /\ ~crashed
  /\ size' = n
  /\ AnewOnly /\ UNCHANGED <<known, channels, grown>>

(* The plugin starts afresh: frame counts and blocks.                      *)
Reset ==
  /\ ~crashed
  /\ AnewOnly /\ UNCHANGED <<size, known, channels, grown>>

(* Every block is pushed, full or not, and the end is notified.            *)
Flush ==
  /\ ~crashed /\ flushes < MaxFlushes
  /\ flushes' = flushes + 1
  /\ out' = [c \in Channels |->
       IF c \in channels THEN Append(out[c], ToFrame(c)) ELSE out[c]]
  /\ block' = [c \in Channels |-> IF c \in channels THEN <<>> ELSE block[c]]
  /\ count' = [c \in Channels |->
       IF c \in channels THEN count[c] + 1 ELSE count[c]]
  /\ UNCHANGED <<card, decoder, buffers, size, known, channels, crashed, history>>

(* The client starts the card; the adapter has reset the plugin before.    *)
Start ==
  /\ ~crashed /\ Finished /\ acq < MaxAcqs
  /\ acq' = acq + 1 /\ pos' = [c \in Channels |-> 0]
  /\ Anew /\ whole' = (whole /\ Quiet)
  /\ UNCHANGED <<decoder, buffers, size, known, channels, crashed, flushes,
                 grown>>

(* The card stops, wherever its channels are.                              *)
Stop ==
  /\ MayStop /\ ~Finished
  /\ pos' = [c \in Channels |-> Len(Script[c])]
  /\ whole' = FALSE
  /\ UNCHANGED <<acq, decoder, buffers, plugin, out, flushes, due, grown>>

-----------------------------------------------------------------------------
Client ==
  \/ \E s \in SUBSET Channels : SetChannels(s)
  \/ \E n \in Sizes : SetFrameSize(n)
  \/ Reset \/ Flush \/ Start \/ Stop

Decode  == \E c \in Channels : Receive(c)
Process == Take \/ ProcessPacket \/ SkipPacket \/ MissBlock

Next == Client \/ Decode \/ (\E c \in Channels : Lose(c)) \/ Process

Spec == Init /\ [][Next]_vars

(* The card goes on sending, the receiver reading and the plugin working.  *)
FairSpec == Spec /\ WF_vars(Decode) /\ WF_vars(Process)

-----------------------------------------------------------------------------
(* The packets a card can send.                                            *)
Packets ==
  {p \in [ch : Channels, acq : 1 .. MaxAcqs, k : Nat \ {0},
          len : Nat \ {0}, last : BOOLEAN] :
     /\ p.k \in DOMAIN Script[p.ch]
     /\ [len |-> p.len, last |-> p.last] = Script[p.ch][p.k]}
Words   == [acq : 0 .. MaxAcqs, k : Nat, i : Nat]
Frames  == [num : Nat, data : Seq(Words)]

InUse == free + Len(ready) + (IF work # <<>> THEN 1 ELSE 0)
              + (IF holding THEN 1 ELSE 0)

(* The values of the variables: the buffers are shared out, a buffer has   *)
(* room for another packet as long as it is held, and a block for another  *)
(* word count, so that nothing is written past either.                     *)
TypeOK ==
  /\ acq \in 0 .. MaxAcqs /\ pos \in [Channels -> Nat]
  /\ \A c \in Channels : pos[c] <= Len(Script[c])
  /\ initialising \in BOOLEAN /\ holding \in BOOLEAN
  /\ cur \in Seq(Packets) /\ Len(cur) < PacketsPerFrame
  /\ ready \in Seq(Seq(Packets) \ {<<>>}) /\ work \in Seq(Packets)
  /\ free \in Nat /\ InUse = NumBuffers
  /\ size \in Sizes /\ known \subseteq Channels /\ channels \subseteq known
  /\ block \in [Channels -> Seq(Words)]
  /\ \A c \in Channels : Len(block[c]) < size
  /\ count \in [Channels -> Nat] /\ out \in [Channels -> Seq(Frames)]
  /\ crashed \in BOOLEAN /\ flushes \in 0 .. MaxFlushes
  /\ whole \in BOOLEAN /\ grown \in BOOLEAN

WordsOf(p)       == <<CountOf(p)>> \o Data(p)
Framed(packets)  == FlattenSeq([i \in DOMAIN packets |-> WordsOf(packets[i])])
Filled(words)    ==
  FlattenSeq([i \in DOMAIN words |-> IF words[i] = Zero THEN <<>> ELSE <<words[i]>>])
Stripped(frames) ==
  Filled(FlattenSeq([i \in DOMAIN frames |-> frames[i].data]))

(* Whatever is lost before the decoder or dropped for want of a buffer, the*)
(* frames pushed, the block and the packets on their way are together the  *)
(* packets the decoder kept, each behind its word count, in the order they *)
(* came, wherever the ends of the blocks fall and however often they are   *)
(* flushed.                                                                *)
StreamOfKept ==
  ~crashed =>
    \A c \in Channels :
      Stripped(out[c]) \o block[c] \o Framed(Pending(c)) = Framed(due[c])

(* The frames of a dataset are numbered from 0 without a gap and are all   *)
(* of the size of the block, as the file writer needs them.                *)
FramesNumbered ==
  \A c \in Channels :
    /\ count[c] = Len(out[c])
    /\ \A k \in DOMAIN out[c] :
         out[c][k].num = k - 1 /\ Len(out[c][k].data) = size

(* As long as no packet is lost on the network, no acquisition is cut off  *)
(* and the client lets the plugin finish, the decoder, which nothing       *)
(* resets, takes no packet over into the next acquisition.                 *)
CurrentPackets == {p \in Packets : p.acq = acq}
CurrentWords   == {w \in Words : w.acq \in {0, acq}}
OneAcquisition ==
  whole =>
    /\ cur \in Seq(CurrentPackets) /\ work \in Seq(CurrentPackets)
    /\ ready \in Seq(Seq(CurrentPackets))
    /\ block \in [Channels -> Seq(CurrentWords)]
    /\ \A c \in Channels : \A k \in DOMAIN out[c] :
         out[c][k].data \in Seq(CurrentWords)

(* A plugin whose list of channels only grows has a block for every packet *)
(* it does not refuse as a bad channel.                                    *)
BlockForEveryPacket == grown => ~crashed

(* A packet of a channel the plugin is not set up for is refused: its error*)
(* message says "Bad channel, this plugin is not set up for channel".      *)
BadChannelRefused == ~crashed

(* Once the card has sent all of an acquisition, every buffer is processed *)
(* and released: none waits for packets that will not come.                *)
Drains ==
  (Finished /\ whole) ~>
    (~whole \/ crashed \/ (Quiet /\ cur = <<>> /\ free = NumBuffers))
=============================================================================
