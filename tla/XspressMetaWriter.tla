-------------------------- MODULE XspressMetaWriter --------------------------
(***************************************************************************)
(* The meta writer (XspressMetaWriter): every frame processor publishes    *)
(* the scalars, dead time corrections and input estimates of its channels, *)
(* a few frames in a message, and the writer puts the values of all        *)
(* channels together in one row for each frame of each dataset.            *)
(*                                                                         *)
(* Messages of one processor come in the order they were sent, those of    *)
(* two processors in any order.  A value is the acquisition, the frame,    *)
(* the channel and the dataset it belongs to.                              *)
(*                                                                         *)
(* The frames of a message are consecutive and its label is the first of   *)
(* them.  A processor that has dropped a frame sends others: it computes   *)
(* the label from the last frame and the number of rows.  Such messages    *)
(* are not modelled, nor those of no frames at the end of an acquisition,  *)
(* which the writer does nothing for.                                      *)
(***************************************************************************)
EXTENDS Integers, Sequences, FiniteSets, SequencesExt

CONSTANTS
  Senders,      (* the frame processors                                    *)
  First,        (* the first channel of each                               *)
  Num,          (* how many channels it has                                *)
  NumChannels,  (* _num_channels                                           *)
  PerChannel,   (* XSPRESS_SCALARS_PER_CHANNEL                             *)
  NumFrames,    (* the frames of an acquisition                            *)
  MaxAcqs,      (* bound: how many acquisitions are started                *)
  MaxConfigs,   (* bound: how often a chunk size is configured             *)
  MaxQueue,     (* bound: the messages of a processor not handled          *)
  MaxLosses,    (* bound: how many messages are lost                       *)
  MayOverlap    (* an acquisition may begin before the writer is done with *)
                (* the one of the same name before it                      *)

ASSUME MetaAssumption ==
  /\ {NumChannels, PerChannel, NumFrames} \subseteq Nat \ {0}
  /\ {MaxAcqs, MaxConfigs, MaxQueue, MaxLosses} \subseteq Nat
  /\ MayOverlap \in BOOLEAN
  /\ First \in [Senders -> Nat] /\ Num \in [Senders -> Nat \ {0}]

ChannelsOf(s) == First[s] .. First[s] + Num[s] - 1
Channels      == 0 .. NumChannels - 1

(* Every channel belongs to one processor.                                 *)
ASSUME ChannelsShared ==
  /\ \A s \in Senders : ChannelsOf(s) \subseteq Channels
  /\ \A c \in Channels : \E s \in Senders : c \in ChannelsOf(s)
  /\ \A s, t \in Senders : s # t => ChannelsOf(s) \cap ChannelsOf(t) = {}

Frames   == 0 .. NumFrames - 1
Kinds    == {"scalars", "dtc", "inp_est"}
Width(k) == IF k = "scalars" THEN PerChannel ELSE 1
Datasets == {d \in Kinds \X (0 .. PerChannel - 1) : d[2] < Width(d[1])}

VARIABLES
  acq,         (* the acquisitions started                                 *)
  sent,        (* how many frames each processor has published             *)
  configs,     (* how often a chunk size was configured                    *)
  queue,       (* the messages of each processor not handled               *)
  configured,  (* _configured                                              *)
  partial,     (* _scalars, _dtc and _inp: rows not complete               *)
  data,        (* _datasets: the rows of each                              *)
  written,     (* history: the rows added in this acquisition              *)
  arrived,     (* history: the values handled in this acquisition          *)
  losses,      (* how many messages were lost                              *)
  lost         (* history: their kinds                                     *)

processors == <<acq, sent, configs>>
network    == <<queue, losses>>
writer     == <<configured, partial, data>>
history    == <<written, arrived, lost>>
vars       == <<processors, network, writer, history>>

Value(a, f, c, d) == [acq |-> a, frame |-> f, ch |-> c, ds |-> d]
Zero              == Value(0, 0, 0, <<"scalars", 0>>)

(* No entry for the frame, or one with no value in it.                     *)
NoEntry == [qty |-> 0, values |-> [c \in Channels |-> Zero]]
NoRow   == <<>>

Chunk == [kind |-> "chunk", frame |-> -1, frames |-> NumFrames,
          first |-> 0, num |-> 0, data |-> <<>>]

(* A chunk size is configured before the first acquisition.                *)
Init ==
  /\ acq = 0 /\ sent = [s \in Senders |-> NumFrames] /\ configs = 0
  /\ queue = [s \in Senders |-> <<Chunk>>]
  /\ configured = FALSE
  /\ partial = [d \in Datasets |-> [f \in Frames |-> NoEntry]]
  /\ data = [d \in Datasets |-> [f \in Frames |-> NoRow]]
  /\ written = [d \in Datasets |-> [f \in Frames |-> <<>>]]
  /\ arrived = {} /\ losses = 0 /\ lost = {}

-----------------------------------------------------------------------------
(***************************************************************************)
(* The frame processors.  The values of a message lie frame by frame, in a *)
(* frame channel by channel, and for scalars in a channel one by one.      *)
(***************************************************************************)
Flat(s, k, n) ==
  LET w == Width(k) IN
    [x \in 1 .. n * Num[s] * w |->
       Value(acq, sent[s] + ((x - 1) \div (Num[s] * w)),
             First[s] + (((x - 1) \div w) % Num[s]), <<k, (x - 1) % w>>)]

Message(s, k, n) ==
  [kind |-> k, frame |-> sent[s], frames |-> n,
   first |-> First[s], num |-> Num[s], data |-> Flat(s, k, n)]

Publish(s, n) ==
  /\ sent[s] + n <= NumFrames /\ Len(queue[s]) + 3 <= MaxQueue
  /\ sent' = [sent EXCEPT ![s] = @ + n]
  /\ queue' = [queue EXCEPT ![s] = @ \o
       <<Message(s, "scalars", n), Message(s, "dtc", n), Message(s, "inp_est", n)>>]
  /\ UNCHANGED <<acq, configs, losses, writer, history>>

Configure(s) ==
  /\ configs < MaxConfigs /\ Len(queue[s]) < MaxQueue
  /\ configs' = configs + 1
  /\ queue' = [queue EXCEPT ![s] = Append(@, Chunk)]
  /\ UNCHANGED <<acq, sent, losses, writer, history>>

AllSent == \A s \in Senders : sent[s] = NumFrames
Idle ==
  /\ \A s \in Senders : queue[s] = <<>>
  /\ \A d \in Datasets : \A f \in Frames : partial[d][f] = NoEntry

(* Another acquisition under the same name, so for the same writer, which  *)
(* keeps the rows it has under way.  Nothing tells a client whether there  *)
(* are any: that there are none, without MayOverlap, is an assumption, and *)
(* nothing in the code makes it true.  An acquisition may end before all   *)
(* its frames are sent.                                                    *)
Start ==
  /\ acq < MaxAcqs /\ (acq = 0 \/ Idle \/ MayOverlap)
  /\ acq' = acq + 1 /\ sent' = [s \in Senders |-> 0]
  /\ written' = [d \in Datasets |-> [f \in Frames |-> <<>>]]
  /\ arrived' = {}
  /\ UNCHANGED <<configs, network, writer, lost>>

(* A message is lost: the publisher does not wait for the writer.          *)
Lose(s) ==
  /\ losses < MaxLosses /\ queue[s] # <<>>
  /\ losses' = losses + 1
  /\ queue' = [queue EXCEPT ![s] = Tail(@)]
  /\ lost' = lost \cup {Head(queue[s]).kind}
  /\ UNCHANGED <<processors, writer, written, arrived>>

-----------------------------------------------------------------------------
(***************************************************************************)
(* The writer.                                                             *)
(***************************************************************************)

(* Mutant: the datasets are defined for every configuration.               *)
RedefinesAlways == TRUE

(* Only the first configuration defines the datasets anew.                 *)
Redefines == ~configured

HandleChunk ==
  /\ data' = IF Redefines THEN [d \in Datasets |-> [f \in Frames |-> NoRow]]
                          ELSE data
  /\ configured' = TRUE
  /\ UNCHANGED <<partial, written, arrived>>

(* Mutant: the values of a message lie channel by channel.                 *)
ValueAtByChannel(m, f, c, j) ==
  m.data[((c - m.first) * m.frames + (f - m.frame)) * Width(m.kind) + j + 1]

(* The value of channel c in frame f for the dataset j of the message.     *)
ValueAt(m, f, c, j) ==
  m.data[((f - m.frame) * m.num + (c - m.first)) * Width(m.kind) + j + 1]

FramesOf(m)  == m.frame .. m.frame + m.frames - 1
ChannelsIn(m) == m.first .. m.first + m.num - 1

(* The values of a message for one row are added to an entry one by one,   *)
(* from the first channel.  The row is complete with the value that makes  *)
(* as many as there are channels; values behind it begin another entry.    *)
Cut(e, m) == m.first + NumChannels - e.qty

(* Mutants: a row is complete one value too early; one too late.           *)
CompletesEarly(e, m) == e.qty + m.num >= NumChannels - 1
CompletesLate(e, m)  == e.qty + m.num > NumChannels

Completes(e, m) == e.qty + m.num >= NumChannels

RowWith(e, m, f, j) ==
  [c \in Channels |->
     IF c \in ChannelsIn(m) /\ c < Cut(e, m) THEN ValueAt(m, f, c, j)
                                             ELSE e.values[c]]

(* What is left for the next row of the same frame.                        *)
Left(e, m, f, j) ==
  [qty |-> e.qty + m.num - NumChannels,
   values |-> [c \in Channels |->
     IF c \in ChannelsIn(m) /\ c >= Cut(e, m) THEN ValueAt(m, f, c, j) ELSE Zero]]

Added(e, m, f, j) ==
  IF Completes(e, m)
    THEN Left(e, m, f, j)
    ELSE [qty |-> e.qty + m.num, values |-> RowWith(e, m, f, j)]

HandleValues(m) ==
  LET new(d, f) == d[1] = m.kind /\ f \in FramesOf(m)
      row(d, f) == new(d, f) /\ Completes(partial[d][f], m)
  IN
    /\ partial' = [d \in Datasets |-> [f \in Frames |->
         IF new(d, f) THEN Added(partial[d][f], m, f, d[2]) ELSE partial[d][f]]]
    /\ data' = [d \in Datasets |-> [f \in Frames |->
         IF row(d, f) THEN RowWith(partial[d][f], m, f, d[2]) ELSE data[d][f]]]
    /\ written' = [d \in Datasets |-> [f \in Frames |->
         IF row(d, f) THEN Append(written[d][f], RowWith(partial[d][f], m, f, d[2]))
                      ELSE written[d][f]]]
    /\ arrived' = arrived \cup {<<m.kind, f, c>> : f \in FramesOf(m), c \in ChannelsIn(m)}
    /\ UNCHANGED configured

Receive(s) ==
  /\ queue[s] # <<>>
  /\ queue' = [queue EXCEPT ![s] = Tail(@)]
  /\ \/ Head(queue[s]).kind = "chunk" /\ HandleChunk
     \/ Head(queue[s]).kind # "chunk" /\ HandleValues(Head(queue[s]))
  /\ UNCHANGED <<processors, losses, lost>>

-----------------------------------------------------------------------------
Next ==
  \/ Start
  \/ \E s \in Senders :
       Configure(s) \/ Lose(s) \/ Receive(s) \/ \E n \in 1 .. NumFrames : Publish(s, n)

Spec == Init /\ [][Next]_vars

(* The writer polls the sockets of all processors.                         *)
FairSpec == Spec /\ \A s \in Senders : WF_vars(Receive(s))

-----------------------------------------------------------------------------
Values  == [acq : 0 .. MaxAcqs, frame : Frames, ch : Channels, ds : Datasets]
Rows    == [Channels -> Values]
Entries == [qty : 0 .. NumChannels - 1, values : Rows]
Own(d, f) == [c \in Channels |-> Value(acq, f, c, d)]

Messages ==
  [kind : Kinds, frame : Frames, frames : 1 .. NumFrames,
   first : Channels, num : 1 .. NumChannels, data : Seq(Values)]

(* An entry has always fewer values than there are channels.               *)
TypeOK ==
  /\ acq \in 0 .. MaxAcqs /\ sent \in [Senders -> 0 .. NumFrames]
  /\ configs \in 0 .. MaxConfigs
  /\ queue \in [Senders -> Seq(Messages \cup {Chunk})]
  /\ configured \in BOOLEAN
  /\ partial \in [Datasets -> [Frames -> Entries]]
  /\ data \in [Datasets -> [Frames -> Rows \cup {NoRow}]]
  /\ written \in [Datasets -> [Frames -> Seq(Rows)]]
  /\ arrived \subseteq Kinds \X Frames \X Channels
  /\ losses \in 0 .. MaxLosses /\ lost \subseteq Kinds \cup {"chunk"}

(* In whatever order the messages of the processors come, and whichever    *)
(* are lost, a row is added once at most, and holds the value of every     *)
(* channel for its frame: none is missing and none is of another frame.    *)
(* This is of acquisitions that begin with no row under way (MayOverlap is *)
(* FALSE in the run and in the theorem), and of messages labelled right.   *)
RowsWhole ==
  \A d \in Datasets : \A f \in Frames : written[d][f] \in {<<>>, <<Own(d, f)>>}

(* No row is lost when a processor is configured again, if no processor's  *)
(* first configuration was lost.                                           *)
RowsSurvive ==
  "chunk" \notin lost =>
    \A d \in Datasets : \A f \in Frames :
      written[d][f] # <<>> => data[d][f] = written[d][f][Len(written[d][f])]

(* If nothing is lost, every row of an acquisition is added in the end.    *)
Complete ==
  \A d \in Datasets : \A f \in Frames : written[d][f] = <<Own(d, f)>>
RowsAdded ==
  (acq > 0 /\ AllSent /\ lost = {}) ~> (lost # {} \/ Complete)
=============================================================================
