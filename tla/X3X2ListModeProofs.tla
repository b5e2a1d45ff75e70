------------------------ MODULE X3X2ListModeProofs -------------------------
(***************************************************************************)
(* Theorems about X3X2ListMode, for every set of channels, every script of *)
(* the card, every frame size and any number of datasets and buffers.      *)
(***************************************************************************)
EXTENDS X3X2ListMode, SequenceLemmas, FiniteSetTheorems, TLAPS

-----------------------------------------------------------------------------
(***************************************************************************)
(* Types, in groups of variables that change together.                     *)
(***************************************************************************)
CardOK    == acq \in 0 .. MaxAcqs /\ live \in BOOLEAN /\ sent \in [Sources -> Nat]
DecoderOK == /\ wire \in Seq(Packets)
             /\ bufId \in Buffers /\ part \in BOOLEAN
             /\ buffers \in [Buffers -> Packets] /\ ready \in Seq(Buffers)
StateOK   == /\ complete \in BOOLEAN /\ ended \in [Channels -> BOOLEAN]
             /\ frames \in Nat /\ size \in Nat
MemoryOK  == /\ block \in [Fields -> [Channels -> Seq(Rows)]]
             /\ count \in [Fields -> [Channels -> Nat]]
             /\ log \in [Fields -> [Channels -> Seq(Frames)]]
Workers   == [busy : BOOLEAN, buf : Buffers, pos : Nat, field : Fields]
ThreadsOK == worker \in Workers /\ closing \in [Threads -> Nat]
HistoryOK == closed \in Nat /\ flushed \in BOOLEAN

(* A card that sends was started.                                          *)
LiveInv == live => acq > 0

SeenOK ==
  CardOK /\ DecoderOK /\ StateOK /\ MemoryOK /\ ThreadsOK /\ HistoryOK

TypeInv == SeenOK /\ LiveInv

(***************************************************************************)
(* A read that goes too far changes nothing but thrown, which none of the  *)
(* invariants below looks at.  They are preserved by the steps that change *)
(* the other variables, and every step of the system is one of these or    *)
(* leaves the other variables alone.                                       *)
(***************************************************************************)
seen == <<card, wire, bufId, part, buffers, ready, state, memory, threads,
          history>>

Steps ==
  \/ Client
  \/ \E c \in Sources : Send(c)
  \/ Reads
  \/ Work
  \/ \E t \in Threads : CloseStep(t)

LEMMA Visible == [Next]_vars => [Steps]_seen
<1>1. CASE OverRead
  BY <1>1 DEF OverRead, seen, card, state, memory, threads, history
<1>2. CASE UNCHANGED vars
  BY <1>2 DEF vars, seen, decoder
<1> QED
  BY <1>1, <1>2 DEF Next, Steps, Decode

LEMMA TypeGroups == TypeOK <=> SeenOK /\ thrown \in BOOLEAN
  BY DEF TypeOK, SeenOK, CardOK, DecoderOK, StateOK, MemoryOK, ThreadsOK,
         HistoryOK, Workers

(* A group that does not change keeps its types.                           *)
LEMMA UnchangedGroups ==
  /\ CardOK /\ UNCHANGED card => CardOK'
  /\ DecoderOK /\ UNCHANGED <<bufId, part, buffers, wire, ready>> => DecoderOK'
  /\ StateOK /\ UNCHANGED state => StateOK'
  /\ MemoryOK /\ UNCHANGED memory => MemoryOK'
  /\ ThreadsOK /\ UNCHANGED threads => ThreadsOK'
  /\ HistoryOK /\ UNCHANGED history => HistoryOK'
<1>1. CardOK /\ UNCHANGED card => CardOK'
  BY DEF CardOK, card
<1>2. DecoderOK /\ UNCHANGED <<bufId, part, buffers, wire, ready>> => DecoderOK'
  BY DEF DecoderOK
<1>3. StateOK /\ UNCHANGED state => StateOK'
  BY DEF StateOK, state
<1>4. MemoryOK /\ UNCHANGED memory => MemoryOK'
  BY DEF MemoryOK, memory
<1>5. ThreadsOK /\ UNCHANGED threads => ThreadsOK'
  BY DEF ThreadsOK, threads
<1>6. HistoryOK /\ UNCHANGED history => HistoryOK'
  BY DEF HistoryOK, history
<1> QED
  BY <1>1, <1>2, <1>3, <1>4, <1>5, <1>6

(* What the constants are, one by one.                                     *)
LEMMA ConstantTypes ==
  /\ NumFields \in Nat \ {0} /\ NumBuffers \in Nat \ {0}
  /\ PacketSize \in Nat \ {0} /\ MaxAcqs \in Nat \ {0}
  /\ \A s \in Sizes : s \in Nat \ {0}
  /\ \A n \in Counts : n \in Nat
  /\ Racing \in BOOLEAN /\ Drained \in BOOLEAN
  BY ListModeAssumption

LEMMA Queue ==
  ASSUME NEW S, NEW q \in Seq(S), q # <<>>
  PROVE  Head(q) \in S /\ Tail(q) \in Seq(S)
  OBVIOUS

(* The decoder moves inside its ring, and what it puts there is a packet.  *)
LEMMA NextBufferTyped == \A b \in Buffers : NextBuffer(b) \in Buffers
  BY ConstantTypes DEF NextBuffer, Buffers

LEMMA NoPacketTyped == NoPacket \in Packets
  BY DEF Packets

LEMMA IdleTyped == Idle \in Workers
  BY ConstantTypes DEF Idle, Workers, Buffers, Fields

(* The row of an event.                                                    *)
LEMMA RowTyped ==
  ASSUME DecoderOK, ThreadsOK
  PROVE  [acq |-> Packet.acq, n |-> Number] \in Rows
<1>1. worker.buf \in Buffers /\ worker.pos \in Nat
  BY DEF ThreadsOK, Workers
<1>2. Packet \in Packets
  BY <1>1 DEF Packet, DecoderOK
<1>3. Packet.acq \in 0 .. MaxAcqs /\ Packet.from \in Nat
  BY <1>2, ConstantTypes DEF Packets, NoPacket
<1>4. Number \in Nat
  BY <1>1, <1>3 DEF Number
<1> QED
  BY <1>3, <1>4 DEF Rows

(* Adding a row, and flushing a dataset, keep the types of the memory.     *)
LEMMA AddRowTyped ==
  ASSUME MemoryOK, StateOK, NEW d \in Fields, NEW c \in Channels,
         NEW row \in Rows, AddRow(d, c, row)
  PROVE  MemoryOK'
<1> DEFINE rows == Append(block[d][c], row)
<1>1. rows \in Seq(Rows) /\ size \in Nat /\ count[d][c] \in Nat
  BY DEF MemoryOK, StateOK
<1>2. ToFrame(d, c, rows) \in Frames
  BY <1>1 DEF ToFrame, Frames
<1>3. CASE Len(rows) = size
  <2>1. /\ log' = [log EXCEPT ![d][c] = Append(@, ToFrame(d, c, rows))]
        /\ block' = [block EXCEPT ![d][c] = <<>>]
        /\ count' = [count EXCEPT ![d][c] = @ + 1]
    BY <1>3 DEF AddRow, CountAfter
  <2> HIDE DEF rows
  <2>2. log' \in [Fields -> [Channels -> Seq(Frames)]]
    BY <1>2, <2>1 DEF MemoryOK
  <2>3. block' \in [Fields -> [Channels -> Seq(Rows)]]
    BY <2>1 DEF MemoryOK
  <2>4. count' \in [Fields -> [Channels -> Nat]]
    BY <2>1 DEF MemoryOK
  <2> QED
    BY <2>2, <2>3, <2>4 DEF MemoryOK
<1>4. CASE Len(rows) # size
  <2>1. block' = [block EXCEPT ![d][c] = rows] /\ UNCHANGED <<log, count>>
    BY <1>4 DEF AddRow
  <2> HIDE DEF rows
  <2> QED
    BY <1>1, <2>1 DEF MemoryOK
<1> QED
  BY <1>3, <1>4

LEMMA AddRowElsewhere ==
  ASSUME MemoryOK, NEW d \in Fields, NEW c, c \notin Channels, NEW row,
         AddRow(d, c, row)
  PROVE  UNCHANGED memory
<1> DEFINE rows == Append(block[d][c], row)
<1>1. \A f : [log EXCEPT ![d][c] = f] = log
  BY DEF MemoryOK
<1>2. \A f : [block EXCEPT ![d][c] = f] = block
  BY DEF MemoryOK
<1>3. \A f : [count EXCEPT ![d][c] = f] = count
  BY DEF MemoryOK
<1>4. CASE Len(rows) = size
  <2>1. /\ log' = [log EXCEPT ![d][c] = Append(@, ToFrame(d, c, rows))]
        /\ block' = [block EXCEPT ![d][c] = <<>>]
        /\ count' = [count EXCEPT ![d][c] = CountAfter(@)]
    BY <1>4 DEF AddRow
  <2> HIDE DEF rows
  <2> QED
    BY <1>1, <1>2, <1>3, <2>1 DEF memory
<1>5. CASE Len(rows) # size
  <2>1. block' = [block EXCEPT ![d][c] = rows] /\ UNCHANGED <<log, count>>
    BY <1>5 DEF AddRow
  <2> HIDE DEF rows
  <2> QED
    BY <1>2, <2>1 DEF memory
<1> QED
  BY <1>4, <1>5

LEMMA FlushTyped ==
  ASSUME MemoryOK, StateOK, NEW d \in Fields, FlushDataset(d)
  PROVE  MemoryOK'
<1>1. \A c \in Channels : ToFrame(d, c, block[d][c]) \in Frames
  BY DEF ToFrame, Frames, MemoryOK, StateOK
<1>2. log' \in [Fields -> [Channels -> Seq(Frames)]]
  BY <1>1 DEF FlushDataset, MemoryOK
<1>3. block' \in [Fields -> [Channels -> Seq(Rows)]]
  BY DEF FlushDataset, MemoryOK
<1>4. count' \in [Fields -> [Channels -> Nat]]
  BY DEF FlushDataset, MemoryOK, CountAfter
<1> QED
  BY <1>2, <1>3, <1>4 DEF MemoryOK

LEMMA ClearedTyped ==
  /\ Everywhere(<<>>) \in [Fields -> [Channels -> Seq(Rows)]]
  /\ Everywhere(0) \in [Fields -> [Channels -> Nat]]
  /\ Everywhere(<<>>) \in [Fields -> [Channels -> Seq(Frames)]]
  BY DEF Everywhere

(* The worker goes to its next item, or is done with its packet.           *)
LEMMA NextItemTyped ==
  ASSUME DecoderOK, ThreadsOK, NextItem \/ Done,
         UNCHANGED <<wire, ready, bufId, part>>
  PROVE  worker' \in Workers /\ DecoderOK'
<1>1. CASE Done
  BY <1>1, IdleTyped, NoPacketTyped DEF Done, Released, DecoderOK
<1>2. CASE NextItem /\ ~Done
  <2>1. /\ worker' = [worker EXCEPT !.pos = @ + 1, !.field = 1]
        /\ UNCHANGED buffers
    BY <1>2 DEF NextItem
  <2>2. 1 \in Fields
    BY ConstantTypes DEF Fields
  <2> DEFINE next == worker.pos + 1
  <2>3. next \in Nat /\ worker' = [worker EXCEPT !.pos = next, !.field = 1]
    BY <2>1 DEF ThreadsOK, Workers
  <2> HIDE DEF next
  <2>4. worker' \in Workers
    BY <2>2, <2>3 DEF ThreadsOK, Workers
  <2> QED
    BY <2>1, <2>4 DEF DecoderOK
<1> QED
  BY <1>1, <1>2

(* A field that was full, or an event that is done, moves the worker on.   *)
LEMMA AddFieldTyped ==
  ASSUME DecoderOK, ThreadsOK, AddField
  PROVE  worker' \in Workers /\ DecoderOK'
<1>1. CASE worker.field < NumFields
  <2> DEFINE next == worker.field + 1
  <2>1. /\ worker' = [worker EXCEPT !.field = next]
        /\ UNCHANGED <<buffers, wire, ready, bufId, part>>
    BY <1>1 DEF AddField
  <2>2. next \in Fields
    BY <1>1, ConstantTypes DEF ThreadsOK, Workers, Fields
  <2> HIDE DEF next
  <2>3. worker' \in Workers
    BY <2>1, <2>2 DEF ThreadsOK, Workers
  <2> QED
    BY <2>1, <2>3 DEF DecoderOK
<1>2. CASE ~(worker.field < NumFields)
  BY <1>2, NextItemTyped DEF AddField
<1> QED
  BY <1>1, <1>2

LEMMA TypeStep == TypeInv /\ [Steps]_seen => TypeInv'
<1> SUFFICES ASSUME TypeInv, [Steps]_seen PROVE TypeInv'
  OBVIOUS
<1>0. /\ CardOK /\ DecoderOK /\ StateOK /\ MemoryOK /\ ThreadsOK /\ HistoryOK
      /\ LiveInv
  BY DEF SeenOK, TypeInv
<1> SUFFICES /\ CardOK' /\ DecoderOK' /\ StateOK' /\ MemoryOK' /\ ThreadsOK'
             /\ HistoryOK' /\ LiveInv'
  BY DEF SeenOK, TypeInv
<1>1. ASSUME NEW n \in Counts, StartAcquisition(n) PROVE TypeInv'
  <2>1. CardOK' /\ LiveInv'
    BY <1>0, <1>1, ConstantTypes DEF StartAcquisition, CardOK, LiveInv
  <2>2. StateOK'
    BY <1>0, <1>1, ConstantTypes DEF StartAcquisition, StateOK
  <2>3. MemoryOK'
    BY <1>1, ClearedTyped DEF StartAcquisition, MemoryOK, Cleared
  <2>4. DecoderOK' /\ ThreadsOK'
    BY <1>0, <1>1, UnchangedGroups DEF StartAcquisition, decoder
  <2>5. HistoryOK'
    BY <1>1 DEF StartAcquisition, HistoryOK
  <2> QED
    BY <2>1, <2>2, <2>3, <2>4, <2>5 DEF SeenOK, TypeInv
<1>2. ASSUME NEW s \in Sizes, SetFrameSize(s) PROVE TypeInv'
  <2>1. StateOK'
    BY <1>0, <1>2, ConstantTypes DEF SetFrameSize, StateOK
  <2>2. MemoryOK'
    BY <1>0, <1>2, ClearedTyped DEF SetFrameSize, MemoryOK
  <2>3. CardOK' /\ DecoderOK' /\ ThreadsOK' /\ HistoryOK' /\ LiveInv'
    BY <1>0, <1>2, UnchangedGroups DEF SetFrameSize, LiveInv, card,
       decoder
  <2> QED
    BY <2>1, <2>2, <2>3 DEF SeenOK, TypeInv
<1>3. CASE Flush
  <2>1. ThreadsOK' /\ HistoryOK'
    BY <1>0, <1>3 DEF Flush, ThreadsOK, HistoryOK
  <2>2. CardOK' /\ DecoderOK' /\ StateOK' /\ MemoryOK' /\ LiveInv'
    BY <1>0, <1>3, UnchangedGroups DEF Flush, LiveInv, card, decoder
  <2> QED
    BY <2>1, <2>2
<1>4. CASE StopCard
  <2>1. CardOK' /\ LiveInv'
    BY <1>0, <1>4 DEF StopCard, CardOK, LiveInv
  <2>2. DecoderOK' /\ StateOK' /\ MemoryOK' /\ ThreadsOK' /\ HistoryOK'
    BY <1>0, <1>4, UnchangedGroups DEF StopCard, decoder
  <2> QED
    BY <2>1, <2>2
<1>5. CASE ResetStatistics
  <2>1. DecoderOK'
    BY <1>0, <1>5, ConstantTypes DEF ResetStatistics, DecoderOK, Buffers
  <2>2. CardOK' /\ StateOK' /\ MemoryOK' /\ ThreadsOK' /\ HistoryOK' /\ LiveInv'
    BY <1>0, <1>5, UnchangedGroups DEF ResetStatistics, LiveInv, card
  <2> QED
    BY <2>1, <2>2
<1>6. ASSUME NEW c \in Sources, Send(c) PROVE TypeInv'
  <2>1. PICK n \in 1 .. PacketSize :
          /\ wire' = Append(wire, [acq |-> acq, ch |-> c,
                                   from |-> sent[c] + 1, len |-> n])
          /\ sent' = [sent EXCEPT ![c] = @ + n]
    BY <1>6 DEF Send
  <2>2. n \in Nat /\ sent[c] \in Nat /\ acq \in 1 .. MaxAcqs
    BY <1>0, <1>6, ConstantTypes DEF CardOK, LiveInv, Send
  <2>3. [acq |-> acq, ch |-> c, from |-> sent[c] + 1, len |-> n] \in Packets
    BY <2>2 DEF Packets
  <2>4. DecoderOK'
    BY <1>0, <1>6, <2>1, <2>3 DEF DecoderOK, Send, decoder
  <2>5. sent' \in [Sources -> Nat]
    BY <1>0, <2>1, <2>2 DEF CardOK
  <2>6. CardOK' /\ LiveInv'
    BY <1>0, <1>6, <2>5 DEF CardOK, LiveInv, Send
  <2>7. StateOK' /\ MemoryOK' /\ ThreadsOK' /\ HistoryOK'
    BY <1>0, <1>6, UnchangedGroups DEF Send
  <2> QED
    BY <2>4, <2>6, <2>7 DEF SeenOK, TypeInv
<1>7. CASE Reads
  <2>1. bufId \in Buffers /\ NextBuffer(bufId) \in Buffers
    BY <1>0, NextBufferTyped DEF DecoderOK
  <2>2. wire # <<>> => Head(wire) \in Packets /\ Tail(wire) \in Seq(Packets)
    BY <1>0, Queue DEF DecoderOK
  <2>3. CardOK' /\ StateOK' /\ MemoryOK' /\ ThreadsOK' /\ HistoryOK' /\ LiveInv'
    BY <1>0, <1>7, UnchangedGroups
       DEF Reads, ReadPart, ReadWhole, ReadRest, Completed, LiveInv, card
  <2>4. CASE ReadPart
    BY <1>0, <2>1, <2>3, <2>4, NoPacketTyped DEF ReadPart, DecoderOK
  <2>5. CASE ReadWhole \/ ReadRest
    <3>1. PICK b \in Buffers :
            Completed([buf |-> b, packet |-> Head(wire)]) /\ wire # <<>>
      BY <2>1, <2>5 DEF ReadWhole, ReadRest, Rest
    <3>2. /\ part' = FALSE /\ bufId' = b
          /\ buffers' = [buffers EXCEPT ![b] = Head(wire)]
          /\ ready' = Append(ready, b) /\ wire' = Tail(wire)
      BY <3>1 DEF Completed
    <3>3. ready' \in Seq(Buffers) /\ buffers' \in [Buffers -> Packets]
      BY <1>0, <2>2, <3>1, <3>2 DEF DecoderOK
    <3>4. DecoderOK'
      BY <2>2, <3>1, <3>2, <3>3 DEF DecoderOK
    <3> QED
      BY <2>3, <3>4
  <2> QED
    BY <1>7, <2>4, <2>5 DEF Reads
<1>8. CASE Take
  <2>1. Head(ready) \in Buffers /\ Tail(ready) \in Seq(Buffers)
    BY <1>0, <1>8, Queue DEF DecoderOK, Take
  <2>2. 1 \in Fields
    BY ConstantTypes DEF Fields
  <2>3. ThreadsOK'
    <3>1. \/ worker' = worker
          \/ worker' = [busy |-> TRUE, buf |-> Head(ready), pos |-> 0,
                        field |-> 1]
      BY <1>8 DEF Take
    <3>2. [busy |-> TRUE, buf |-> Head(ready), pos |-> 0, field |-> 1]
            \in Workers
      BY <2>1, <2>2 DEF Workers
    <3>3. worker' \in Workers
      BY <1>0, <3>1, <3>2 DEF ThreadsOK
    <3> QED
      BY <1>0, <1>8, <3>3 DEF ThreadsOK, Take
  <2>4. DecoderOK'
    BY <1>0, <1>8, <2>1, NoPacketTyped DEF DecoderOK, Take, Released
  <2>5. CardOK' /\ StateOK' /\ MemoryOK' /\ HistoryOK' /\ LiveInv'
    BY <1>0, <1>8, UnchangedGroups DEF Take, LiveInv, card
  <2> QED
    BY <2>3, <2>4, <2>5
<1>9. CASE AddField
  <2>1. DecoderOK' /\ ThreadsOK'
    BY <1>0, <1>9, AddFieldTyped DEF ThreadsOK, AddField
  <2>2. MemoryOK'
    <3> DEFINE row == [acq |-> Packet.acq, n |-> Number]
    <3>1. row \in Rows /\ worker.field \in Fields
      BY <1>0, RowTyped DEF ThreadsOK, Workers
    <3>2. AddRow(worker.field, Packet.ch, row)
      BY <1>9 DEF AddField
    <3> HIDE DEF row
    <3>3. CASE Packet.ch \in Channels
      BY <1>0, <3>1, <3>2, <3>3, AddRowTyped
    <3>4. CASE Packet.ch \notin Channels
      BY <1>0, <3>1, <3>2, <3>4, AddRowElsewhere, UnchangedGroups
    <3> QED
      BY <3>3, <3>4
  <2>3. CardOK' /\ StateOK' /\ HistoryOK' /\ LiveInv'
    BY <1>0, <1>9, UnchangedGroups DEF AddField, LiveInv, card
  <2> QED
    BY <2>1, <2>2, <2>3
<1>10. CASE SkipDummy
  <2>1. DecoderOK' /\ ThreadsOK'
    BY <1>0, <1>10, NextItemTyped DEF ThreadsOK, SkipDummy
  <2>2. CardOK' /\ StateOK' /\ MemoryOK' /\ HistoryOK' /\ LiveInv'
    BY <1>0, <1>10, UnchangedGroups DEF SkipDummy, LiveInv, card
  <2> QED
    BY <2>1, <2>2
<1>11. CASE EndMark
  <2>1. DecoderOK' /\ worker' \in Workers
    BY <1>0, <1>11, NextItemTyped DEF EndMark
  <2>2. closing' \in [Threads -> Nat]
    BY <1>0, <1>11 DEF EndMark, ThreadsOK
  <2>3. StateOK'
    BY <1>0, <1>11 DEF EndMark, StateOK
  <2>4. CardOK' /\ MemoryOK' /\ HistoryOK' /\ LiveInv'
    BY <1>0, <1>11, UnchangedGroups DEF EndMark, LiveInv, card
  <2> QED
    BY <2>1, <2>2, <2>3, <2>4 DEF ThreadsOK
<1>12. ASSUME NEW t \in Threads, CloseStep(t) PROVE TypeInv'
  <2>1. closing[t] \in Nat /\ closing[t] > 0
    BY <1>0, <1>12 DEF ThreadsOK, CloseStep
  <2>2. CardOK' /\ DecoderOK' /\ LiveInv'
    BY <1>0, <1>12, UnchangedGroups DEF CloseStep, LiveInv, card, decoder
  <2>3. CASE closing[t] <= NumFields
    <3>1. closing[t] \in Fields /\ FlushDataset(closing[t])
      BY <1>12, <2>1, <2>3, ConstantTypes DEF CloseStep, Fields
    <3>2. MemoryOK'
      BY <1>0, <3>1, FlushTyped
    <3>3. StateOK'
      BY <1>0, <1>12, <2>3 DEF CloseStep, StateOK
    <3>4. ThreadsOK' /\ HistoryOK'
      BY <1>0, <1>12, <2>1, <2>3 DEF CloseStep, ThreadsOK, HistoryOK
    <3> QED
      BY <2>2, <3>2, <3>3, <3>4 DEF SeenOK, TypeInv
  <2>4. CASE ~(closing[t] <= NumFields)
    <3>1. StateOK'
      BY <1>0, <1>12, <2>4 DEF CloseStep, StateOK
    <3>2. ThreadsOK' /\ HistoryOK' /\ MemoryOK'
      BY <1>0, <1>12, <2>1, <2>4, UnchangedGroups
         DEF CloseStep, ThreadsOK, HistoryOK
    <3> QED
      BY <2>2, <3>1, <3>2 DEF SeenOK, TypeInv
  <2> QED
    BY <2>3, <2>4
<1>13. CASE UNCHANGED seen
  BY <1>0, <1>13, UnchangedGroups DEF seen, LiveInv, card
<1> QED
  BY <1>1, <1>2, <1>3, <1>4, <1>5, <1>6, <1>7, <1>8, <1>9, <1>10, <1>11,
     <1>12, <1>13 DEF SeenOK, Steps, Client, Work, TypeInv

LEMMA TypeInit == Init => TypeInv
<1> SUFFICES ASSUME Init PROVE TypeInv
  OBVIOUS
<1>1. CardOK /\ LiveInv /\ HistoryOK
  <2>1. acq \in 0 .. MaxAcqs /\ sent \in [Sources -> Nat] /\ closed \in Nat
    BY ConstantTypes DEF Init
  <2>2. live = FALSE /\ flushed = FALSE
    BY DEF Init
  <2> QED
    BY <2>1, <2>2 DEF CardOK, LiveInv, HistoryOK
<1>2. DecoderOK
  <2>1. bufId \in Buffers
    BY ConstantTypes DEF Init, Buffers
  <2>2. buffers \in [Buffers -> Packets]
    BY NoPacketTyped DEF Init
  <2>3. wire \in Seq(Packets) /\ ready \in Seq(Buffers)
    BY DEF Init
  <2>4. part \in BOOLEAN
    BY DEF Init
  <2> QED
    BY <2>1, <2>2, <2>3, <2>4 DEF DecoderOK
<1>3. StateOK
  BY ConstantTypes DEF Init, StateOK
<1>4. MemoryOK
  BY ClearedTyped DEF Init, MemoryOK
<1>5. ThreadsOK
  BY IdleTyped DEF Init, ThreadsOK
<1> QED
  BY <1>1, <1>2, <1>3, <1>4, <1>5 DEF SeenOK, TypeInv

LEMMA TypeInvariant == Spec => []TypeInv
  BY TypeInit, TypeStep, Visible, PTL DEF Spec

(* The types of all variables, whatever the card sends: in particular the  *)
(* decoder never leaves its ring of buffers.                               *)
THEOREM TypeCorrect == Spec => []TypeOK
<1> DEFINE Inv == thrown \in BOOLEAN
<1>1. Init => Inv
  BY DEF Init
<1>2. Inv /\ [Next]_vars => Inv'
  <2> SUFFICES ASSUME thrown \in BOOLEAN, [Next]_vars
               PROVE  thrown' \in BOOLEAN
    OBVIOUS
  <2>1. CASE Client
    BY <2>1 DEF Client, StartAcquisition, SetFrameSize, Flush, StopCard,
       ResetStatistics, decoder
  <2>2. CASE \E c \in Sources : Send(c)
    BY <2>2 DEF Send, decoder
  <2>3. CASE Decode
    BY <2>3 DEF Decode, Reads, ReadPart, ReadWhole, ReadRest, Completed,
       OverRead
  <2>4. CASE Work
    BY <2>4 DEF Work, Take, AddField, SkipDummy, EndMark
  <2>5. CASE (\E t \in Threads : CloseStep(t)) \/ UNCHANGED vars
    BY <2>5 DEF CloseStep, decoder, vars
  <2> QED
    BY <2>1, <2>2, <2>3, <2>4, <2>5 DEF Next
<1>3. TypeInv /\ Inv => TypeOK
  BY TypeGroups DEF TypeInv
<1> HIDE DEF Inv
<1> QED
  BY TypeInvariant, <1>1, <1>2, <1>3, PTL DEF Spec

-----------------------------------------------------------------------------
(***************************************************************************)
(* Closing.  When a flush never runs inside process_frame, one thread at   *)
(* most is in flush_close_acquisition, with the acquisition not complete,  *)
(* and the worker then has no packet.                                      *)
(***************************************************************************)
CloseInv ==
  /\ closing["worker"] = 0 \/ closing["control"] = 0
  /\ worker.busy => ~complete /\ NotClosing
  /\ ~NotClosing => ~complete
  /\ ~complete => closed = 0
  /\ closed <= 1

LEMMA OneCloses ==
  ASSUME CloseInv, ThreadsOK, NEW t \in Threads, closing[t] > 0
  PROVE  /\ \A u \in Threads : u # t => closing[u] = 0
         /\ ~complete /\ ~worker.busy
  BY DEF CloseInv, ThreadsOK, Threads, NotClosing

LEMMA CloseInit == Init => CloseInv
  BY DEF Init, CloseInv, Idle, NotClosing, Threads

LEMMA CloseStepInv ==
  ASSUME Racing = FALSE, TypeInv, CloseInv, [Steps]_seen
  PROVE  CloseInv'
<1>0. ThreadsOK /\ HistoryOK
  BY DEF SeenOK, TypeInv
<1>1. CASE UNCHANGED <<complete, worker.busy, closing, closed>>
  BY <1>1 DEF CloseInv, NotClosing
<1>2. ASSUME NEW n \in Counts, StartAcquisition(n) PROVE CloseInv'
  <2>1. ~worker.busy' /\ NotClosing' /\ closed' = 0
    BY <1>2 DEF StartAcquisition, ControlReady, NotClosing, threads
  <2> QED
    BY <2>1 DEF CloseInv, NotClosing, Threads
<1>3. CASE Flush
  <2>1. /\ ~worker.busy /\ NotClosing /\ ~complete
        /\ closing' = [closing EXCEPT !["control"] = 1]
        /\ UNCHANGED <<worker, complete, closed>>
    BY <1>3 DEF Flush, ControlReady, MayClose, state
  <2>2. closing'["worker"] = 0
    BY <1>0, <2>1 DEF ThreadsOK, NotClosing, Threads
  <2> QED
    BY <2>1, <2>2 DEF CloseInv
<1>4. CASE Take
  <2>1. NotClosing /\ UNCHANGED <<complete, closing, closed>>
    BY <1>4 DEF Take, WorkerMoves, NotClosing, Threads, state, history
  <2>2. worker'.busy => worker.busy \/ ~complete
    BY <1>4 DEF Take, Dropped
  <2> QED
    BY <2>1, <2>2 DEF CloseInv, NotClosing
<1>5. ASSUME AddField \/ SkipDummy \/ EndMark PROVE CloseInv'
  <2>1. worker.busy /\ NotClosing /\ ~complete /\ UNCHANGED <<complete, closed>>
    BY <1>5 DEF AddField, SkipDummy, EndMark, Working, CloseInv, state, history
  <2>2. CASE UNCHANGED closing
    BY <2>1, <2>2 DEF CloseInv, NotClosing
  <2>3. CASE closing' # closing
    <3>1. closing' = [closing EXCEPT !["worker"] = 1] /\ worker' = Idle
      BY <1>5, <2>3 DEF AddField, SkipDummy, EndMark, Done
    <3>2. closing'["control"] = 0 /\ ~worker'.busy
      BY <1>0, <2>1, <3>1 DEF ThreadsOK, NotClosing, Threads, Idle
    <3> QED
      BY <2>1, <3>2 DEF CloseInv
  <2> QED
    BY <2>2, <2>3
<1>6. ASSUME NEW t \in Threads, CloseStep(t) PROVE CloseInv'
  <2>1. /\ closing[t] \in Nat /\ closing[t] > 0 /\ ~complete
        /\ ~worker.busy /\ closed = 0 /\ UNCHANGED worker
        /\ \A u \in Threads : u # t => closing[u] = 0
    BY <1>0, <1>6, OneCloses DEF CloseStep, ThreadsOK, CloseInv
  <2>2. CASE closing[t] <= NumFields
    <3>1. /\ closing' = [closing EXCEPT ![t] = @ + 1]
          /\ UNCHANGED <<complete, closed>>
      BY <1>6, <2>2 DEF CloseStep
    <3>2. \A u \in Threads : u # t => closing'[u] = 0
      BY <1>0, <2>1, <3>1 DEF ThreadsOK
    <3> QED
      BY <2>1, <3>1, <3>2 DEF CloseInv, Threads
  <2>3. CASE ~(closing[t] <= NumFields)
    <3>1. /\ closing' = [closing EXCEPT ![t] = 0]
          /\ complete' = TRUE /\ closed' = 1
      BY <1>6, <2>1, <2>3 DEF CloseStep
    <3>2. NotClosing'
      BY <1>0, <2>1, <3>1 DEF ThreadsOK, NotClosing
    <3> QED
      BY <2>1, <3>1, <3>2 DEF CloseInv, NotClosing, Threads
  <2> QED
    BY <2>2, <2>3
<1>7. ASSUME \/ \E s \in Sizes : SetFrameSize(s)
             \/ StopCard \/ ResetStatistics
             \/ \E c \in Sources : Send(c)
             \/ Reads
             \/ UNCHANGED seen
      PROVE CloseInv'
  <2>1. UNCHANGED <<complete, worker, closing, closed>>
    BY <1>7 DEF SetFrameSize, StopCard, ResetStatistics, Send, Reads,
       ReadPart, ReadWhole, ReadRest, Completed, seen, state, threads, history
  <2> QED
    BY <1>1, <2>1
<1> QED
  BY <1>2, <1>3, <1>4, <1>5, <1>6, <1>7 DEF Steps, Client, Work

LEMMA CloseInvariant == ASSUME Racing = FALSE PROVE Spec => [](TypeInv /\ CloseInv)
<1>1. TypeInv /\ CloseInv /\ [Steps]_seen => (TypeInv /\ CloseInv)'
  BY TypeStep, CloseStepInv
<1> QED
  BY TypeInit, CloseInit, <1>1, Visible, PTL DEF Spec

(* When no flush request runs during a packet, an acquisition is closed    *)
(* once, by its last end mark or by the flush.                             *)
THEOREM EndsOnce == ASSUME Racing = FALSE PROVE Spec => []ClosedOnce
<1>1. CloseInv => ClosedOnce
  BY DEF CloseInv, ClosedOnce
<1> QED
  BY <1>1, CloseInvariant, PTL

-----------------------------------------------------------------------------
(***************************************************************************)
(* The numbers and the sizes of the frames.  A dataset that a close has    *)
(* passed may end in a short frame, and nothing is added to it any more.   *)
(***************************************************************************)
Passed(d) == complete \/ \E t \in Threads : closing[t] > d

(* The frames of one dataset of a channel, of which the last may be short. *)
Numbered(frs) == \A i \in DOMAIN frs : frs[i].id = i - 1
Full(frs, i)  == Len(frs[i].rows) = frs[i].size

FramesInv ==
  \A d \in Fields, c \in Channels :
    /\ Numbered(log[d][c])
    /\ \A i \in DOMAIN log[d][c] :
         i < Len(log[d][c]) \/ ~Passed(d) => Full(log[d][c], i)
    /\ ~complete => count[d][c] = Len(log[d][c])

(* One more frame, with the next number, behind frames that are full.      *)
LEMMA AppendFrame ==
  ASSUME NEW frs \in Seq(Frames), NEW f \in Frames, Numbered(frs),
         \A i \in DOMAIN frs : Full(frs, i), f.id = Len(frs)
  PROVE  /\ Numbered(Append(frs, f))
         /\ \A i \in DOMAIN Append(frs, f) :
              i < Len(Append(frs, f)) \/ Len(f.rows) = f.size
                => Full(Append(frs, f), i)
         /\ Len(Append(frs, f)) = Len(frs) + 1
  BY DEF Numbered, Full

LEMMA FramesInit == Init => FramesInv
  BY DEF Init, FramesInv, Everywhere, Numbered

(* An event added to a dataset that no close has passed.                   *)
LEMMA FramesAddRow ==
  ASSUME TypeInv, FramesInv, NEW d \in Fields, NEW c \in Channels,
         NEW row \in Rows, AddRow(d, c, row), ~complete, NotClosing,
         UNCHANGED <<complete, closing>>
  PROVE  FramesInv'
<1> DEFINE rs == Append(block[d][c], row)
           f  == ToFrame(d, c, rs)
<1>0. MemoryOK /\ StateOK /\ ThreadsOK
  BY DEF SeenOK, TypeInv
<1>1. \A e \in Fields : ~Passed(e) /\ (Passed(e) <=> Passed(e)')
  BY <1>0 DEF Passed, NotClosing, ThreadsOK, Fields
<1>2. /\ rs \in Seq(Rows) /\ size \in Nat /\ count[d][c] \in Nat
      /\ log[d][c] \in Seq(Frames)
  BY <1>0 DEF MemoryOK, StateOK
<1>3. f \in Frames /\ f.id = count[d][c] /\ f.rows = rs /\ f.size = size
  BY <1>2 DEF ToFrame, Frames
<1>4. CASE Len(rs) # size
  <2>1. UNCHANGED <<log, count>>
    BY <1>4 DEF AddRow
  <2> QED
    BY <1>1, <2>1 DEF FramesInv
<1>5. CASE Len(rs) = size
  <2>1. /\ log' = [log EXCEPT ![d][c] = Append(@, f)]
        /\ count' = [count EXCEPT ![d][c] = @ + 1]
    BY <1>5 DEF AddRow, CountAfter
  <2> HIDE DEF f, rs
  <2>2. /\ Numbered(Append(log[d][c], f))
        /\ \A i \in DOMAIN Append(log[d][c], f) : Full(Append(log[d][c], f), i)
        /\ Len(Append(log[d][c], f)) = Len(log[d][c]) + 1
        /\ count[d][c] = Len(log[d][c])
    BY <1>1, <1>2, <1>3, <1>5, AppendFrame DEF FramesInv
  <2> SUFFICES ASSUME NEW e \in Fields, NEW b \in Channels
               PROVE  /\ Numbered(log'[e][b])
                      /\ \A i \in DOMAIN log'[e][b] : Full(log'[e][b], i)
                      /\ count'[e][b] = Len(log'[e][b])
    BY DEF FramesInv, Numbered, Full
  <2>3. CASE e = d /\ b = c
    <3>1. log'[e][b] = Append(log[d][c], f) /\ count'[e][b] = count[d][c] + 1
      BY <1>0, <2>1, <2>3 DEF MemoryOK
    <3> QED
      BY <2>2, <3>1
  <2>4. CASE ~(e = d /\ b = c)
    <3>1. log'[e][b] = log[e][b] /\ count'[e][b] = count[e][b]
      BY <1>0, <2>1, <2>4 DEF MemoryOK
    <3> QED
      BY <1>1, <3>1 DEF FramesInv
  <2> QED
    BY <2>3, <2>4
<1> QED
  BY <1>4, <1>5

(* A dataset that a close passes.                                          *)
LEMMA FramesFlush ==
  ASSUME TypeInv, CloseInv, FramesInv, NEW t \in Threads, closing[t] \in Fields,
         FlushDataset(closing[t]), UNCHANGED complete,
         closing' = [closing EXCEPT ![t] = @ + 1]
  PROVE  FramesInv'
<1>0. MemoryOK /\ StateOK /\ ThreadsOK
  BY DEF SeenOK, TypeInv
<1>pick. PICK d \in Fields : d = closing[t]
  OBVIOUS
<1>1. d \in Nat /\ d > 0
  BY DEF Fields
<1>2. ~complete /\ \A u \in Threads : u # t => closing[u] = 0
  BY <1>0, <1>1, <1>pick, OneCloses
<1>3. ~Passed(d) /\ Passed(d)'
  <2>1. ~(\E u \in Threads : closing[u] > d)
    BY <1>1, <1>2, <1>pick
  <2>2. closing'[t] = d + 1
    BY <1>0, <1>pick DEF ThreadsOK
  <2> QED
    BY <1>1, <1>2, <2>1, <2>2 DEF Passed
<1>4. \A e \in Fields : Passed(e) => Passed(e)'
  <2>1. \A u \in Threads : closing[u] \in Nat /\ closing'[u] \in Nat
                            /\ closing'[u] >= closing[u]
    BY <1>0 DEF ThreadsOK
  <2> QED
    BY <2>1 DEF Passed, Fields
<1> SUFFICES ASSUME NEW e \in Fields, NEW c \in Channels
             PROVE  /\ Numbered(log'[e][c])
                    /\ \A i \in DOMAIN log'[e][c] :
                         i < Len(log'[e][c]) \/ ~Passed(e)' => Full(log'[e][c], i)
                    /\ count'[e][c] = Len(log'[e][c])
  BY DEF FramesInv, Numbered, Full
<1>5. CASE e = d
  <2> DEFINE f == ToFrame(d, c, block[d][c])
  <2>1. f \in Frames /\ f.id = count[d][c]
    BY <1>0, <1>1 DEF ToFrame, Frames, MemoryOK, StateOK
  <2>2. /\ log'[e][c] = Append(log[d][c], f)
        /\ count'[e][c] = count[d][c] + 1
    BY <1>0, <1>1, <1>5, <1>pick DEF FlushDataset, MemoryOK, CountAfter
  <2>3. /\ log[d][c] \in Seq(Frames) /\ Numbered(log[d][c])
        /\ \A i \in DOMAIN log[d][c] : Full(log[d][c], i)
        /\ count[d][c] = Len(log[d][c])
    BY <1>0, <1>1, <1>2, <1>3 DEF FramesInv, MemoryOK
  <2> HIDE DEF f
  <2>4. /\ Numbered(Append(log[d][c], f))
        /\ \A i \in DOMAIN Append(log[d][c], f) :
             i < Len(Append(log[d][c], f)) => Full(Append(log[d][c], f), i)
        /\ Len(Append(log[d][c], f)) = Len(log[d][c]) + 1
    BY <2>1, <2>3, AppendFrame
  <2> QED
    BY <1>3, <1>5, <2>2, <2>3, <2>4
<1>6. CASE e # d
  <2>1. log'[e][c] = log[e][c] /\ count'[e][c] = count[e][c]
    BY <1>0, <1>1, <1>6, <1>pick DEF FlushDataset, MemoryOK
  <2> QED
    BY <1>2, <1>4, <2>1 DEF FramesInv
<1> QED
  BY <1>5, <1>6

LEMMA FramesStep ==
  ASSUME Racing = FALSE, TypeInv, CloseInv, FramesInv, [Steps]_seen
  PROVE  FramesInv'
<1>0. MemoryOK /\ StateOK /\ ThreadsOK /\ DecoderOK
  BY DEF SeenOK, TypeInv
<1>1. ASSUME UNCHANGED <<log, count, complete>>,
             \A d \in Fields : Passed(d) => Passed(d)'
      PROVE  FramesInv'
  BY <1>1 DEF FramesInv, Numbered, Full
<1>2. ASSUME NEW n \in Counts, StartAcquisition(n) PROVE FramesInv'
  BY <1>2 DEF StartAcquisition, FramesInv, Everywhere, Cleared, Numbered
<1>3. ASSUME NEW s \in Sizes, SetFrameSize(s) PROVE FramesInv'
  <2>1. UNCHANGED <<log, complete, closing>> /\ count' = Everywhere(0)
    BY <1>3 DEF SetFrameSize, threads
  <2>3. \A d \in Fields : Passed(d)' <=> Passed(d)
    BY <2>1 DEF Passed
  <2>4. ~complete => log = Everywhere(<<>>)
    BY <1>3 DEF SetFrameSize
  <2>5. ~complete => \A d \in Fields, c \in Channels : count'[d][c] = Len(log[d][c])
    BY <2>1, <2>4 DEF Everywhere
  <2> QED
    BY <2>1, <2>3, <2>5 DEF FramesInv, Numbered, Full
<1>4. CASE Flush
  <2>1. /\ closing' = [closing EXCEPT !["control"] = 1] /\ NotClosing
        /\ UNCHANGED <<log, count, complete>>
    BY <1>4 DEF Flush, ControlReady, memory, state
  <2>2. \A d \in Fields : Passed(d) => Passed(d)'
    BY <1>0, <2>1 DEF Passed, NotClosing, ThreadsOK, Fields
  <2> QED
    BY <1>1, <2>1, <2>2
<1>5. CASE AddField
  <2> DEFINE row == [acq |-> Packet.acq, n |-> Number]
  <2>1. row \in Rows /\ worker.field \in Fields
    BY <1>0, RowTyped DEF ThreadsOK, Workers
  <2>2. /\ AddRow(worker.field, Packet.ch, row)
        /\ UNCHANGED <<complete, closing>> /\ worker.busy
    BY <1>5 DEF AddField, Working, state
  <2>3. ~complete /\ NotClosing
    BY <2>2 DEF CloseInv
  <2> HIDE DEF row
  <2>4. CASE Packet.ch \in Channels
    BY <2>1, <2>2, <2>3, <2>4, FramesAddRow
  <2>5. CASE Packet.ch \notin Channels
    <3>1. UNCHANGED memory
      BY <1>0, <2>1, <2>2, <2>5, AddRowElsewhere
    <3> QED
      BY <1>1, <2>2, <3>1 DEF memory, Passed
  <2> QED
    BY <2>4, <2>5
<1>6. CASE SkipDummy \/ EndMark
  <2>1. /\ UNCHANGED <<log, count, complete>> /\ worker.busy
        /\ closing' = closing \/ closing' = [closing EXCEPT !["worker"] = 1]
    BY <1>6 DEF SkipDummy, EndMark, Working, memory, state
  <2>2. NotClosing
    BY <2>1 DEF CloseInv
  <2>3. \A d \in Fields : Passed(d) => Passed(d)'
    BY <1>0, <2>1, <2>2 DEF Passed, NotClosing, ThreadsOK, Fields
  <2> QED
    BY <1>1, <2>1, <2>3
<1>7. ASSUME NEW t \in Threads, CloseStep(t) PROVE FramesInv'
  <2>1. closing[t] \in Nat /\ closing[t] > 0
    BY <1>0, <1>7 DEF ThreadsOK, CloseStep
  <2>2. CASE closing[t] <= NumFields
    <3>1. /\ closing[t] \in Fields /\ FlushDataset(closing[t])
          /\ closing' = [closing EXCEPT ![t] = @ + 1] /\ UNCHANGED complete
      BY <1>7, <2>1, <2>2, ConstantTypes DEF CloseStep, Fields
    <3> QED
      BY <3>1, FramesFlush
  <2>3. CASE ~(closing[t] <= NumFields)
    <3>1. complete' = TRUE /\ UNCHANGED <<log, count>>
      BY <1>7, <2>3 DEF CloseStep, memory
    <3>2. \A d \in Fields : Passed(d)'
      BY <3>1 DEF Passed
    <3> QED
      BY <3>1, <3>2 DEF FramesInv, Numbered, Full
  <2> QED
    BY <2>2, <2>3
<1>8. ASSUME \/ StopCard \/ ResetStatistics
             \/ \E c \in Sources : Send(c)
             \/ Reads \/ Take
             \/ UNCHANGED seen
      PROVE FramesInv'
  <2>1. UNCHANGED <<log, count, complete, closing>>
    BY <1>8 DEF StopCard, ResetStatistics, Send, Reads, ReadPart, ReadWhole,
       ReadRest, Completed, Take, seen, state, threads, memory
  <2> QED
    BY <1>1, <2>1 DEF Passed
<1> QED
  BY <1>2, <1>3, <1>4, <1>5, <1>6, <1>7, <1>8 DEF Steps, Client, Work

(* When no flush request runs during a packet, the frames of every dataset *)
(* are numbered from 0 without a gap, and all but the last are full.       *)
THEOREM FramesInOrder == ASSUME Racing = FALSE PROVE Spec => []FramesNumbered
<1> DEFINE Inv == TypeInv /\ CloseInv /\ FramesInv
<1>1. Init => Inv
  BY TypeInit, CloseInit, FramesInit
<1>2. Inv /\ [Steps]_seen => Inv'
  BY TypeStep, CloseStepInv, FramesStep
<1>3. Inv => FramesNumbered
  BY DEF FramesInv, FramesNumbered, Numbered, Full
<1> QED
  BY <1>1, <1>2, <1>3, Visible, PTL DEF Spec

-----------------------------------------------------------------------------
(***************************************************************************)
(* The ring.  The buffers in use are the last ones the decoder went        *)
(* through: the one it fills if a message is incomplete, before it those   *)
(* that are ready, and before these the one the worker reads.              *)
(***************************************************************************)
Back(b, j) == IF b >= j THEN b - j ELSE b - j + NumBuffers

Filling == IF part THEN 1 ELSE 0
Reading == IF worker.busy THEN 1 ELSE 0

RingInv ==
  /\ part => wire # <<>>
  /\ Filling + Len(ready) + Reading <= NumBuffers
  /\ \A k \in DOMAIN ready : ready[k] = Back(bufId, Filling + Len(ready) - k)
  /\ worker.busy => worker.buf = Back(bufId, Filling + Len(ready))

(* Going back from a buffer of the ring.                                   *)
LEMMA BackInRing ==
  ASSUME NEW b \in Buffers
  PROVE  /\ b \in Nat /\ NumBuffers \in Nat \ {0} /\ NextBuffer(b) \in Buffers
         /\ Back(b, 0) = b
         /\ \A j \in 0 .. NumBuffers - 2 : Back(NextBuffer(b), j + 1) = Back(b, j)
         /\ \A i, j \in 0 .. NumBuffers - 1 : Back(b, i) = Back(b, j) => i = j
<1>1. b \in Nat /\ b < NumBuffers /\ NumBuffers \in Nat \ {0}
  BY ConstantTypes DEF Buffers
<1>2. NextBuffer(b) = IF b + 1 = NumBuffers THEN 0 ELSE b + 1
  BY <1>1 DEF NextBuffer
<1>3. NextBuffer(b) \in Buffers
  BY <1>1, <1>2 DEF Buffers
<1>4. Back(b, 0) = b
  BY <1>1 DEF Back
<1>5. \A j \in 0 .. NumBuffers - 2 : Back(NextBuffer(b), j + 1) = Back(b, j)
  BY <1>1, <1>2 DEF Back
<1>6. \A i, j \in 0 .. NumBuffers - 1 : Back(b, i) = Back(b, j) => i = j
  BY <1>1 DEF Back
<1> QED
  BY <1>1, <1>3, <1>4, <1>5, <1>6

(* The buffers in use are different, and the next one is free.             *)
LEMMA InUse ==
  ASSUME DecoderOK, ThreadsOK, RingInv
  PROVE  /\ \A j, k \in DOMAIN ready : ready[j] = ready[k] => j = k
         /\ worker.busy => \A k \in DOMAIN ready : ready[k] # worker.buf
         /\ part => /\ \A k \in DOMAIN ready : ready[k] # bufId
                    /\ worker.busy => worker.buf # bufId
         /\ ~part /\ KeepsUp =>
              /\ \A k \in DOMAIN ready : ready[k] # NextBuffer(bufId)
              /\ worker.busy => worker.buf # NextBuffer(bufId)
<1> DEFINE n == Len(ready)
<1>1. /\ bufId \in Buffers /\ NextBuffer(bufId) \in Buffers
      /\ n \in Nat /\ DOMAIN ready = 1 .. n /\ NumBuffers \in Nat \ {0}
      /\ Filling \in 0 .. 1 /\ Reading \in 0 .. 1
      /\ worker.busy \in BOOLEAN /\ part \in BOOLEAN
  BY BackInRing DEF DecoderOK, ThreadsOK, Workers, Filling, Reading
<1>2. /\ Filling + n + Reading <= NumBuffers
      /\ \A k \in 1 .. n : ready[k] = Back(bufId, Filling + n - k)
      /\ worker.busy => worker.buf = Back(bufId, Filling + n)
  BY <1>1 DEF RingInv
<1> HIDE DEF n
<1>3. /\ \A k \in 1 .. n : Filling + n - k \in 0 .. NumBuffers - 1
      /\ worker.busy => Filling + n \in 0 .. NumBuffers - 1
      /\ 0 \in 0 .. NumBuffers - 1
  BY <1>1, <1>2 DEF Reading
<1>4. \A j, k \in 1 .. n : ready[j] = ready[k] => j = k
  <2> TAKE j, k \in 1 .. n
  <2> HAVE ready[j] = ready[k]
  <2>1. Filling + n - j = Filling + n - k
    BY <1>1, <1>2, <1>3, BackInRing
  <2> QED
    BY <1>1, <2>1
<1>5. worker.busy => \A k \in 1 .. n : ready[k] # worker.buf
  <2> SUFFICES ASSUME worker.busy, NEW k \in 1 .. n, ready[k] = worker.buf
               PROVE FALSE
    OBVIOUS
  <2>1. Filling + n - k = Filling + n
    BY <1>1, <1>2, <1>3, BackInRing
  <2> QED
    BY <1>1, <2>1
<1>6. ASSUME part
      PROVE  /\ \A k \in 1 .. n : ready[k] # bufId
             /\ worker.busy => worker.buf # bufId
  <2>1. bufId = Back(bufId, 0) /\ Filling = 1
    BY <1>1, <1>6, BackInRing DEF Filling
  <2>2. \A k \in 1 .. n : ready[k] # bufId
    <3> SUFFICES ASSUME NEW k \in 1 .. n, ready[k] = bufId PROVE FALSE
      OBVIOUS
    <3>1. Filling + n - k = 0
      BY <1>1, <1>2, <1>3, <2>1, BackInRing
    <3> QED
      BY <1>1, <2>1, <3>1
  <2>3. worker.busy => worker.buf # bufId
    <3> SUFFICES ASSUME worker.busy, worker.buf = bufId PROVE FALSE
      OBVIOUS
    <3>1. Filling + n = 0
      BY <1>1, <1>2, <1>3, <2>1, BackInRing
    <3> QED
      BY <1>1, <2>1, <3>1
  <2> QED
    BY <2>2, <2>3
<1>7. ASSUME ~part, KeepsUp
      PROVE  /\ \A k \in 1 .. n : ready[k] # NextBuffer(bufId)
             /\ worker.busy => worker.buf # NextBuffer(bufId)
  <2> DEFINE b == NextBuffer(bufId)
  <2>1. Filling = 0 /\ n + Reading < NumBuffers
    BY <1>1, <1>7 DEF Filling, Reading, KeepsUp, n
  <2>2. /\ b = Back(b, 0)
        /\ \A k \in 1 .. n : ready[k] = Back(b, n - k + 1) /\ n - k + 1 \in 0 .. NumBuffers - 1
        /\ worker.busy => worker.buf = Back(b, n + 1) /\ n + 1 \in 0 .. NumBuffers - 1
    <3>1. \A k \in 1 .. n : /\ Filling + n - k = n - k
                            /\ n - k \in 0 .. NumBuffers - 2
      BY <1>1, <2>1
    <3>2. worker.busy => Filling + n = n /\ n \in 0 .. NumBuffers - 2
      BY <1>1, <2>1 DEF Reading
    <3>3. \A j \in 0 .. NumBuffers - 2 : Back(b, j + 1) = Back(bufId, j)
      BY <1>1, BackInRing
    <3>4. b = Back(b, 0)
      BY <1>1, BackInRing
    <3> HIDE DEF b
    <3>5. \A k \in 1 .. n : /\ ready[k] = Back(b, n - k + 1)
                            /\ n - k + 1 \in 0 .. NumBuffers - 1
      BY <1>1, <1>2, <3>1, <3>3
    <3>6. worker.busy => /\ worker.buf = Back(b, n + 1)
                         /\ n + 1 \in 0 .. NumBuffers - 1
      BY <1>1, <1>2, <3>2, <3>3
    <3> QED
      BY <3>4, <3>5, <3>6
  <2>3. \A i, j \in 0 .. NumBuffers - 1 : Back(b, i) = Back(b, j) => i = j
    BY <1>1, BackInRing
  <2> HIDE DEF b
  <2>4. \A k \in 1 .. n : ready[k] # b
    BY <1>1, <1>3, <2>2, <2>3
  <2>5. worker.busy => worker.buf # b
    BY <1>1, <1>3, <2>2, <2>3
  <2> QED
    BY <2>4, <2>5 DEF b
<1> QED
  BY <1>1, <1>4, <1>5, <1>6, <1>7
-----------------------------------------------------------------------------
(* The packets on their way to the worker, in their order.                 *)
PathOf(rs, ws, bs) ==
  [k \in 1 .. Len(rs) + Len(ws) |->
     IF k <= Len(rs) THEN bs[rs[k]] ELSE ws[k - Len(rs)]]

Path == PathOf(ready, wire, buffers)

LEMMA PathOfTyped ==
  ASSUME NEW rs \in Seq(Buffers), NEW ws \in Seq(Packets),
         NEW bs \in [Buffers -> Packets]
  PROVE  /\ PathOf(rs, ws, bs) \in Seq(Packets)
         /\ Len(PathOf(rs, ws, bs)) = Len(rs) + Len(ws)
         /\ \A k \in 1 .. Len(rs) : PathOf(rs, ws, bs)[k] = bs[rs[k]]
         /\ \A k \in 1 .. Len(ws) : PathOf(rs, ws, bs)[Len(rs) + k] = ws[k]
<1> DEFINE n == Len(rs)
           m == Len(ws)
<1>1. n \in Nat /\ m \in Nat
  OBVIOUS
<1>2. \A k \in 1 .. n : rs[k] \in Buffers /\ bs[rs[k]] \in Packets
  OBVIOUS
<1>3. \A k \in 1 .. m : ws[k] \in Packets
  OBVIOUS
<1> HIDE DEF n, m
<1>4. PathOf(rs, ws, bs) = [k \in 1 .. n + m |->
                              IF k <= n THEN bs[rs[k]] ELSE ws[k - n]]
  BY DEF PathOf, n, m
<1>5. \A k \in 1 .. n + m : (IF k <= n THEN bs[rs[k]] ELSE ws[k - n]) \in Packets
  BY <1>1, <1>2, <1>3
<1>6. PathOf(rs, ws, bs) \in [1 .. n + m -> Packets]
  BY <1>4, <1>5
<1>7. PathOf(rs, ws, bs) \in Seq(Packets) /\ Len(PathOf(rs, ws, bs)) = n + m
  BY <1>1, <1>6, FunctionIsSeq
<1>8. \A k \in 1 .. n : PathOf(rs, ws, bs)[k] = bs[rs[k]]
  BY <1>1, <1>4
<1>9. \A k \in 1 .. m : PathOf(rs, ws, bs)[n + k] = ws[k]
  BY <1>1, <1>4
<1> QED
  BY <1>1, <1>2, <1>7, <1>8, <1>9 DEF n, m

(* A sequence with these elements is the path.                             *)
LEMMA PathOfIs ==
  ASSUME NEW rs \in Seq(Buffers), NEW ws \in Seq(Packets),
         NEW bs \in [Buffers -> Packets], NEW s \in Seq(Packets),
         Len(s) = Len(rs) + Len(ws),
         \A k \in 1 .. Len(rs) : s[k] = bs[rs[k]],
         \A k \in 1 .. Len(ws) : s[Len(rs) + k] = ws[k]
  PROVE  PathOf(rs, ws, bs) = s
<1> DEFINE p == PathOf(rs, ws, bs)
           n == Len(rs)
           m == Len(ws)
<1>1. /\ p \in Seq(Packets) /\ Len(p) = n + m
      /\ \A k \in 1 .. n : p[k] = bs[rs[k]]
      /\ \A k \in 1 .. m : p[n + k] = ws[k]
  BY PathOfTyped
<1>2. /\ n \in Nat /\ m \in Nat /\ Len(s) = n + m
      /\ \A k \in 1 .. n : s[k] = bs[rs[k]]
      /\ \A k \in 1 .. m : s[n + k] = ws[k]
  OBVIOUS
<1>len. n \in Nat /\ m \in Nat
  BY <1>2
<1> HIDE DEF p, n, m
<1>3. ASSUME NEW k \in 1 .. n + m PROVE p[k] = s[k]
  <2>1. CASE k <= n
    <3>1. k \in 1 .. n
      BY <1>2, <2>1
    <3> QED
      BY <1>1, <1>2, <3>1
  <2>2. CASE ~(k <= n)
    <3>1. k - n \in 1 .. m /\ n + (k - n) = k
      BY <1>len, <2>2
    <3>2. p[n + (k - n)] = ws[k - n] /\ s[n + (k - n)] = ws[k - n]
      BY <1>1, <1>2, <3>1
    <3> QED
      BY <3>1, <3>2
  <2> QED
    BY <2>1, <2>2
<1>4. p = s
  BY <1>1, <1>2, <1>3, SeqEqual
<1> QED
  BY <1>4 DEF p

LEMMA PathTyped ==
  ASSUME DecoderOK
  PROVE  /\ Path \in Seq(Packets) /\ Len(Path) = Len(ready) + Len(wire)
         /\ Len(ready) \in Nat /\ Len(wire) \in Nat
         /\ \A k \in 1 .. Len(ready) :
              ready[k] \in Buffers /\ Path[k] = buffers[ready[k]]
         /\ \A k \in 1 .. Len(wire) : Path[Len(ready) + k] = wire[k]
<1>1. /\ wire \in Seq(Packets) /\ ready \in Seq(Buffers)
      /\ buffers \in [Buffers -> Packets]
  BY DEF DecoderOK
<1> QED
  BY <1>1, PathOfTyped DEF Path

(* A sequence with the elements of the path after a step.                  *)
LEMMA PathNext ==
  ASSUME DecoderOK', NEW s \in Seq(Packets),
         Len(s) = Len(ready') + Len(wire'),
         \A k \in 1 .. Len(ready') : s[k] = buffers'[ready'[k]],
         \A k \in 1 .. Len(wire') : s[Len(ready') + k] = wire'[k]
  PROVE  Path' = s
<1>1. /\ wire' \in Seq(Packets) /\ ready' \in Seq(Buffers)
      /\ buffers' \in [Buffers -> Packets]
  BY DEF DecoderOK
<1>2. Path' = PathOf(ready', wire', buffers')
  BY DEF Path
<1> QED
  BY <1>1, <1>2, PathOfIs

(* The steps of the decoder: what is on its way, and the packet the worker *)
(* reads, stay what they are.                                              *)
LEMMA ReadsKeep ==
  ASSUME TypeInv, RingInv, Reads
  PROVE  /\ RingInv' /\ Path' = Path /\ UNCHANGED worker
         /\ worker.busy => buffers'[worker.buf] = buffers[worker.buf]
<1>0. DecoderOK /\ ThreadsOK /\ DecoderOK' /\ ThreadsOK'
  <2>1. TypeInv'
    BY TypeStep DEF Steps
  <2> QED
    BY <2>1 DEF SeenOK, TypeInv
<1> DEFINE n == Len(ready)
           b == NextBuffer(bufId)
<1>1. /\ bufId \in Buffers /\ b \in Buffers /\ bufId \in Nat /\ NumBuffers \in Nat \ {0}
      /\ b = Back(b, 0) /\ bufId = Back(bufId, 0)
      /\ \A j \in 0 .. NumBuffers - 2 : Back(b, j + 1) = Back(bufId, j)
  <2>1. bufId \in Buffers /\ b \in Buffers
    BY <1>0, BackInRing DEF DecoderOK
  <2> QED
    BY <2>1, BackInRing
<1>2. /\ n \in Nat /\ DOMAIN ready = 1 .. n /\ ready \in Seq(Buffers)
      /\ \A k \in 1 .. n : ready[k] \in Buffers
      /\ Filling \in 0 .. 1 /\ Reading \in 0 .. 1
      /\ worker.busy \in BOOLEAN /\ part \in BOOLEAN
      /\ wire \in Seq(Packets) /\ buffers \in [Buffers -> Packets]
      /\ worker.buf \in Buffers
  BY <1>0 DEF DecoderOK, ThreadsOK, Workers, Filling, Reading
<1>3. /\ part => wire # <<>>
      /\ Filling + n + Reading <= NumBuffers
      /\ \A k \in 1 .. n : ready[k] = Back(bufId, Filling + n - k)
      /\ worker.busy => worker.buf = Back(bufId, Filling + n)
  BY <1>2 DEF RingInv
<1>4. UNCHANGED worker /\ Reading' = Reading
  BY DEF Reads, ReadPart, ReadWhole, ReadRest, Completed, threads, Reading
<1>path. /\ Path \in Seq(Packets) /\ Len(Path) = n + Len(wire) /\ Len(wire) \in Nat
         /\ \A k \in 1 .. n : Path[k] = buffers[ready[k]]
         /\ \A k \in 1 .. Len(wire) : Path[n + k] = wire[k]
  BY <1>0, PathTyped
<1> HIDE DEF n, b
<1>5. CASE ReadPart
  <2>1. /\ wire # <<>> /\ part = FALSE /\ part' = TRUE /\ bufId' = b
        /\ buffers' = [buffers EXCEPT ![b] = NoPacket]
        /\ UNCHANGED <<wire, ready>> /\ KeepsUp
    BY <1>5 DEF ReadPart, b
  <2>2. /\ Filling = 0 /\ Filling' = 1 /\ n + Reading < NumBuffers
    BY <1>2, <2>1 DEF Filling, KeepsUp, Reading, n
  <2>3. /\ \A k \in 1 .. n : ready[k] # b
        /\ worker.busy => worker.buf # b
    BY <1>0, <1>2, <2>1, InUse DEF b
  <2>4. \A k \in 1 .. n : ready[k] = Back(b, 1 + n - k)
    <3> TAKE k \in 1 .. n
    <3>1. n - k \in 0 .. NumBuffers - 2 /\ (n - k) + 1 = 1 + n - k
      BY <1>1, <1>2, <2>2
    <3>2. ready[k] = Back(bufId, n - k)
      <4>1. Filling + n - k = n - k
        BY <1>2, <2>2
      <4> QED
        BY <1>3, <4>1
    <3> QED
      BY <1>1, <3>1, <3>2
  <2>5. worker.busy => worker.buf = Back(b, 1 + n)
    <3> HAVE worker.busy
    <3>1. n \in 0 .. NumBuffers - 2 /\ n + 1 = 1 + n /\ Filling + n = n
      BY <1>1, <1>2, <2>2 DEF Reading
    <3> QED
      BY <1>1, <1>3, <3>1
  <2>6. RingInv'
    <3>1. Len(ready') = n /\ DOMAIN ready' = 1 .. n /\ wire' # <<>>
      BY <1>2, <2>1 DEF n
    <3>2. Filling' + n + Reading' <= NumBuffers
      BY <1>1, <1>2, <1>4, <2>2
    <3> QED
      BY <1>4, <2>1, <2>2, <2>4, <2>5, <3>1, <3>2 DEF RingInv
  <2>7. Path' = Path
    <3>1. \A k \in 1 .. n : buffers'[ready'[k]] = Path[k]
      BY <1>2, <1>path, <2>1, <2>3
    <3> QED
      BY <1>0, <1>path, <2>1, <3>1, PathNext DEF n
  <2>8. worker.busy => buffers'[worker.buf] = buffers[worker.buf]
    BY <1>2, <2>1, <2>3
  <2> QED
    BY <1>4, <2>6, <2>7, <2>8
<1>6. ASSUME NEW a \in Buffers, wire # <<>>,
             Completed([buf |-> a, packet |-> Head(wire)]),
             \A k \in 1 .. n : ready[k] # a,
             worker.busy => worker.buf # a,
             n + Reading < NumBuffers,
             \A k \in 1 .. n : ready[k] = Back(a, n + 1 - k),
             worker.busy => worker.buf = Back(a, n + 1)
      PROVE  /\ RingInv' /\ Path' = Path
             /\ worker.busy => buffers'[worker.buf] = buffers[worker.buf]
  <2>1. /\ part' = FALSE /\ bufId' = a
        /\ buffers' = [buffers EXCEPT ![a] = Head(wire)]
        /\ ready' = Append(ready, a) /\ wire' = Tail(wire)
    BY <1>6 DEF Completed
  <2>2. /\ Len(ready') = n + 1 /\ DOMAIN ready' = 1 .. n + 1
        /\ ready'[n + 1] = a /\ \A k \in 1 .. n : ready'[k] = ready[k]
    BY <1>2, <2>1, AppendElements DEF n
  <2>3. Filling' = 0
    BY <2>1 DEF Filling
  <2>4. a = Back(a, 0)
    BY BackInRing
  <2>5. RingInv'
    <3>1. Filling' + Len(ready') + Reading' <= NumBuffers
      BY <1>1, <1>2, <1>4, <1>6, <2>2, <2>3
    <3>2. ASSUME NEW k \in 1 .. n + 1
          PROVE  ready'[k] = Back(a, Filling' + Len(ready') - k)
      <4>1. CASE k = n + 1
        <5>1. Filling' + Len(ready') - k = 0
          BY <1>2, <2>2, <2>3, <4>1
        <5> QED
          BY <2>2, <2>4, <4>1, <5>1
      <4>2. CASE k # n + 1
        <5>1. k \in 1 .. n /\ Filling' + Len(ready') - k = n + 1 - k
          BY <1>2, <2>2, <2>3, <4>2
        <5> QED
          BY <1>6, <2>2, <5>1
      <4> QED
        BY <4>1, <4>2
    <3>3. Filling' + Len(ready') = n + 1
      BY <1>2, <2>2, <2>3
    <3> QED
      BY <1>4, <1>6, <2>1, <2>2, <3>1, <3>2, <3>3 DEF RingInv
  <2>6. /\ Len(wire') = Len(wire) - 1 /\ Head(wire) = wire[1] /\ Len(wire) > 0
        /\ \A k \in 1 .. Len(wire') : wire'[k] = wire[k + 1]
    BY <1>2, <1>6, <2>1
  <2>7. Path' = Path
    <3>1. Len(Path) = Len(ready') + Len(wire')
      BY <1>2, <1>path, <2>2, <2>6
    <3>2. ASSUME NEW k \in 1 .. Len(ready') PROVE Path[k] = buffers'[ready'[k]]
      <4>1. CASE k = n + 1
        <5>1. Path[k] = wire[1]
          BY <1>path, <2>6, <4>1
        <5> QED
          BY <1>2, <1>6, <2>1, <2>2, <2>6, <4>1, <5>1
      <4>2. CASE k # n + 1
        <5>1. k \in 1 .. n
          BY <1>2, <2>2, <4>2
        <5> QED
          BY <1>2, <1>6, <1>path, <2>1, <2>2, <5>1
      <4> QED
        BY <4>1, <4>2
    <3>3. ASSUME NEW k \in 1 .. Len(wire')
          PROVE  Path[Len(ready') + k] = wire'[k]
      <4>1. k + 1 \in 1 .. Len(wire) /\ Len(ready') + k = n + (k + 1)
        BY <1>2, <1>path, <2>2, <2>6
      <4> QED
        BY <1>path, <2>6, <4>1
    <3> QED
      BY <1>0, <1>path, <3>1, <3>2, <3>3, PathNext
  <2>8. worker.busy => buffers'[worker.buf] = buffers[worker.buf]
    BY <1>2, <1>6, <2>1
  <2> QED
    BY <2>5, <2>7, <2>8
<1>7. CASE ReadWhole
  <2>1. /\ wire # <<>> /\ part = FALSE /\ KeepsUp
        /\ Completed([buf |-> b, packet |-> Head(wire)])
    BY <1>7 DEF ReadWhole, b
  <2>2. Filling = 0 /\ n + Reading < NumBuffers
    BY <1>2, <2>1 DEF Filling, KeepsUp, Reading, n
  <2>3. /\ \A k \in 1 .. n : ready[k] # b
        /\ worker.busy => worker.buf # b
    BY <1>0, <1>2, <2>1, InUse DEF b
  <2>4. \A k \in 1 .. n : ready[k] = Back(b, n + 1 - k)
    <3> TAKE k \in 1 .. n
    <3>1. /\ n - k \in 0 .. NumBuffers - 2 /\ (n - k) + 1 = n + 1 - k
          /\ Filling + n - k = n - k
      BY <1>1, <1>2, <2>2
    <3> QED
      BY <1>1, <1>3, <3>1
  <2>5. worker.busy => worker.buf = Back(b, n + 1)
    <3> HAVE worker.busy
    <3>1. n \in 0 .. NumBuffers - 2 /\ Filling + n = n
      BY <1>1, <1>2, <2>2 DEF Reading
    <3> QED
      BY <1>1, <1>3, <3>1
  <2> QED
    BY <1>1, <1>4, <1>6, <2>1, <2>2, <2>3, <2>4, <2>5
<1>8. CASE ReadRest
  <2>1. wire # <<>> /\ part /\ Completed([buf |-> bufId, packet |-> Head(wire)])
    BY <1>8 DEF ReadRest, Rest
  <2>2. Filling = 1 /\ n + Reading < NumBuffers
    BY <1>1, <1>2, <1>3, <2>1 DEF Filling
  <2>3. /\ \A k \in 1 .. n : ready[k] # bufId
        /\ worker.busy => worker.buf # bufId
    BY <1>0, <1>2, <2>1, InUse
  <2>4. /\ \A k \in 1 .. n : Filling + n - k = n + 1 - k
        /\ Filling + n = n + 1
    BY <1>2, <2>2
  <2>5. /\ \A k \in 1 .. n : ready[k] = Back(bufId, n + 1 - k)
        /\ worker.busy => worker.buf = Back(bufId, n + 1)
    BY <1>3, <2>4
  <2> QED
    BY <1>1, <1>4, <1>6, <2>1, <2>2, <2>3, <2>5
<1> QED
  BY <1>5, <1>7, <1>8 DEF Reads

(* The worker takes the first packet of the path.                          *)
LEMMA TakeMoves ==
  ASSUME TypeInv, RingInv, Take
  PROVE  /\ RingInv' /\ Path # <<>> /\ Path' = Tail(Path)
         /\ ~worker.busy
         /\ worker'.busy =>
              /\ ~Dropped(Head(Path)) /\ Packet' = Head(Path)
              /\ worker'.pos = 0 /\ worker'.field = 1
         /\ ~worker'.busy => worker' = worker /\ Dropped(Head(Path))
<1>0. DecoderOK /\ ThreadsOK /\ DecoderOK' /\ ThreadsOK'
  <2>1. TypeInv'
    BY TypeStep DEF Steps, Work
  <2> QED
    BY <2>1 DEF SeenOK, TypeInv
<1> DEFINE n == Len(ready)
           b == Head(ready)
<1>1. /\ ~worker.busy /\ ready # <<>> /\ ready' = Tail(ready)
      /\ worker' = IF Dropped(buffers[b]) THEN worker
                   ELSE [busy |-> TRUE, buf |-> b, pos |-> 0, field |-> 1]
      /\ buffers' = IF worker'.busy THEN buffers
                    ELSE [buffers EXCEPT ![b] = NoPacket]
      /\ UNCHANGED <<wire, bufId, part>>
  BY DEF Take, Released
<1>2. /\ n \in Nat /\ DOMAIN ready = 1 .. n /\ ready \in Seq(Buffers) /\ n > 0
      /\ b = ready[1] /\ b \in Buffers
      /\ Len(ready') = n - 1 /\ DOMAIN ready' = 1 .. n - 1
      /\ \A k \in 1 .. n - 1 : ready'[k] = ready[k + 1]
      /\ wire \in Seq(Packets) /\ Len(wire) \in Nat
  BY <1>0, <1>1 DEF DecoderOK
<1>3. /\ Filling \in 0 .. 1 /\ Filling' = Filling /\ Reading = 0
      /\ NumBuffers \in Nat /\ worker'.busy \in BOOLEAN
      /\ Reading' = IF worker'.busy THEN 1 ELSE 0
  <2>1. Filling \in 0 .. 1 /\ Filling' = Filling
    BY <1>0, <1>1 DEF Filling, DecoderOK
  <2>2. Reading = 0 /\ Reading' = IF worker'.busy THEN 1 ELSE 0
    BY <1>1 DEF Reading
  <2>3. worker'.busy \in BOOLEAN
    BY <1>0 DEF ThreadsOK, Workers
  <2> QED
    BY <2>1, <2>2, <2>3, ConstantTypes
<1>4. /\ part => wire # <<>>
      /\ Filling + n + Reading <= NumBuffers
      /\ \A k \in 1 .. n : ready[k] = Back(bufId, Filling + n - k)
  BY <1>2 DEF RingInv
<1>5. \A j, k \in 1 .. n : ready[j] = ready[k] => j = k
  BY <1>0, <1>2, InUse
<1>path. /\ Path \in Seq(Packets) /\ Len(Path) = n + Len(wire)
         /\ \A k \in 1 .. n : Path[k] = buffers[ready[k]]
         /\ \A k \in 1 .. Len(wire) : Path[n + k] = wire[k]
  BY <1>0, PathTyped
<1> HIDE DEF n, b
<1>6. RingInv'
  <2>1. Filling' + Len(ready') + Reading' <= NumBuffers
    BY <1>2, <1>3, <1>4
  <2>2. ASSUME NEW k \in 1 .. n - 1
        PROVE  ready'[k] = Back(bufId, Filling' + Len(ready') - k)
    <3>1. k + 1 \in 1 .. n /\ Filling' + Len(ready') - k = Filling + n - (k + 1)
      BY <1>2, <1>3
    <3>2. ready[k + 1] = Back(bufId, Filling + n - (k + 1))
      BY <1>4, <3>1
    <3> QED
      BY <1>2, <3>1, <3>2
  <2>3. worker'.busy => worker'.buf = Back(bufId, Filling' + Len(ready'))
    <3> HAVE worker'.busy
    <3>1. worker'.buf = b
      BY <1>1
    <3>2. Filling' + Len(ready') = Filling + n - 1 /\ 1 \in 1 .. n
      BY <1>2, <1>3
    <3>3. ready[1] = Back(bufId, Filling + n - 1)
      BY <1>4, <3>2
    <3> QED
      BY <1>2, <3>1, <3>2, <3>3
  <2> QED
    BY <1>1, <1>2, <1>4, <2>1, <2>2, <2>3 DEF RingInv
<1>7. Path # <<>> /\ Head(Path) = buffers[b] /\ 1 \in 1 .. n
  BY <1>2, <1>path
<1>8. Path' = Tail(Path)
  <2>1. /\ Tail(Path) \in Seq(Packets) /\ Len(Tail(Path)) = n - 1 + Len(wire)
        /\ \A k \in 1 .. n - 1 + Len(wire) : Tail(Path)[k] = Path[k + 1]
    BY <1>2, <1>path, <1>7
  <2>2. ASSUME NEW k \in 1 .. n - 1 PROVE Tail(Path)[k] = buffers'[ready'[k]]
    <3>1. k + 1 \in 1 .. n /\ k + 1 # 1 /\ k \in 1 .. n - 1 + Len(wire)
      BY <1>2
    <3>2. Tail(Path)[k] = buffers[ready[k + 1]] /\ ready[k + 1] # b
      BY <1>2, <1>5, <1>path, <1>7, <2>1, <3>1
    <3>3. ready[k + 1] \in Buffers /\ buffers \in [Buffers -> Packets]
      BY <1>0, <1>2, <3>1 DEF DecoderOK
    <3>4. buffers'[ready[k + 1]] = buffers[ready[k + 1]]
      BY <1>1, <3>2, <3>3
    <3> QED
      BY <1>2, <3>2, <3>4
  <2>3. ASSUME NEW k \in 1 .. Len(wire) PROVE Tail(Path)[(n - 1) + k] = wire[k]
    <3>1. (n - 1) + k \in 1 .. n - 1 + Len(wire) /\ ((n - 1) + k) + 1 = n + k
      BY <1>2
    <3> QED
      BY <1>path, <2>1, <3>1
  <2> QED
    BY <1>0, <1>1, <1>2, <2>1, <2>2, <2>3, PathNext
<1>9. worker'.busy => /\ ~Dropped(Head(Path)) /\ Packet' = Head(Path)
                      /\ worker'.pos = 0 /\ worker'.field = 1
  <2> HAVE worker'.busy
  <2>1. ~Dropped(buffers[b]) /\ worker'.buf = b
    BY <1>1
  <2> QED
    BY <1>1, <1>7, <2>1 DEF Packet
<1>10. ~worker'.busy => worker' = worker /\ Dropped(Head(Path))
  BY <1>1, <1>7
<1> QED
  BY <1>1, <1>6, <1>7, <1>8, <1>9, <1>10

(* The worker goes on with its packet, or is done with it.                 *)
LEMMA WorkKeeps ==
  ASSUME TypeInv, RingInv, AddField \/ SkipDummy \/ EndMark
  PROVE  /\ RingInv' /\ Path' = Path
         /\ worker.busy
         /\ worker'.busy => Packet' = Packet
         /\ ~worker'.busy => worker' = Idle
<1>0. DecoderOK /\ ThreadsOK /\ DecoderOK' /\ ThreadsOK'
  <2>1. TypeInv'
    BY TypeStep DEF Steps, Work
  <2> QED
    BY <2>1 DEF SeenOK, TypeInv
<1>1. worker.busy /\ UNCHANGED <<wire, ready, bufId, part>>
  BY DEF AddField, SkipDummy, EndMark, Working
<1>2. \/ Done
      \/ worker'.busy /\ worker'.buf = worker.buf /\ UNCHANGED buffers
  <2>1. \/ Done \/ NextItem
        \/ worker' = [worker EXCEPT !.field = @ + 1] /\ UNCHANGED buffers
    BY DEF AddField, SkipDummy, EndMark
  <2>2. worker \in Workers
    BY <1>0 DEF ThreadsOK
  <2> QED
    BY <1>1, <2>1, <2>2 DEF NextItem, Workers
<1>3. /\ Done => ~worker'.busy /\ worker' = Idle
      /\ Done => buffers' = [buffers EXCEPT ![worker.buf] = NoPacket]
  BY DEF Done, Idle, Released
<1>4. /\ ready \in Seq(Buffers) /\ Len(ready) \in Nat /\ DOMAIN ready = 1 .. Len(ready)
      /\ \A k \in 1 .. Len(ready) : ready[k] # worker.buf
      /\ Filling \in 0 .. 1 /\ Filling' = Filling /\ Reading = 1
      /\ NumBuffers \in Nat /\ buffers \in [Buffers -> Packets]
      /\ worker'.busy \in BOOLEAN
      /\ Reading' = IF worker'.busy THEN 1 ELSE 0
  BY <1>0, <1>1, InUse, ConstantTypes
     DEF Filling, Reading, ThreadsOK, Workers, DecoderOK
<1>5. RingInv'
  <2>1. Filling' + Len(ready') + Reading' <= NumBuffers
    BY <1>1, <1>4 DEF RingInv
  <2>2. worker'.busy => worker'.buf = worker.buf
    BY <1>2, <1>3
  <2> QED
    BY <1>1, <1>4, <2>1, <2>2 DEF RingInv
<1>6. Path' = Path
  <2>1. \A k \in 1 .. Len(ready) : buffers'[ready[k]] = buffers[ready[k]]
    BY <1>2, <1>3, <1>4
  <2> QED
    BY <1>0, <1>1, <2>1, PathTyped, PathNext
<1>7. worker'.busy => Packet' = Packet
  BY <1>2, <1>3 DEF Packet
<1>8. ~worker'.busy => worker' = Idle
  BY <1>2, <1>3
<1> QED
  BY <1>1, <1>5, <1>6, <1>7, <1>8

(* The card adds a packet to the path.                                     *)
LEMMA SendAdds ==
  ASSUME TypeInv, RingInv, NEW c \in Sources, Send(c)
  PROVE  /\ RingInv' /\ UNCHANGED <<worker, buffers>>
         /\ \E p \in Packets : \E n \in 1 .. PacketSize :
              /\ p = [acq |-> acq, ch |-> c, from |-> sent[c] + 1, len |-> n]
              /\ Path' = Append(Path, p)
              /\ sent[c] + n <= Total(c)
              /\ sent' = [sent EXCEPT ![c] = @ + n]
<1>0. DecoderOK /\ ThreadsOK /\ DecoderOK'
  <2>1. TypeInv'
    BY TypeStep DEF Steps
  <2> QED
    BY <2>1 DEF SeenOK, TypeInv
<1>1. PICK n \in 1 .. PacketSize :
        /\ sent[c] + n <= Total(c)
        /\ wire' = Append(wire, [acq |-> acq, ch |-> c,
                                 from |-> sent[c] + 1, len |-> n])
        /\ sent' = [sent EXCEPT ![c] = @ + n]
  BY DEF Send
<1>2. live /\ UNCHANGED <<bufId, part, buffers, ready, worker>>
  BY DEF Send, decoder, threads
<1> DEFINE p == [acq |-> acq, ch |-> c, from |-> sent[c] + 1, len |-> n]
<1>3. p \in Packets
  <2>1. CardOK /\ LiveInv
    BY DEF SeenOK, TypeInv
  <2>2. acq \in 1 .. MaxAcqs /\ sent[c] \in Nat /\ n \in Nat
    BY <1>1, <1>2, <2>1, ConstantTypes DEF CardOK, LiveInv
  <2> QED
    BY <2>2 DEF Packets
<1>4. wire' = Append(wire, p)
  BY <1>1
<1> HIDE DEF p
<1>5. /\ wire \in Seq(Packets) /\ Len(wire) \in Nat /\ Len(ready) \in Nat
      /\ Len(wire') = Len(wire) + 1 /\ wire'[Len(wire) + 1] = p
      /\ \A k \in 1 .. Len(wire) : wire'[k] = wire[k]
      /\ Path \in Seq(Packets) /\ Len(Path) = Len(ready) + Len(wire)
      /\ \A k \in 1 .. Len(ready) : Path[k] = buffers[ready[k]]
      /\ \A k \in 1 .. Len(wire) : Path[Len(ready) + k] = wire[k]
  <2>1. wire \in Seq(Packets)
    BY <1>0 DEF DecoderOK
  <2>2. /\ Len(wire') = Len(wire) + 1 /\ wire'[Len(wire) + 1] = p
        /\ \A k \in 1 .. Len(wire) : wire'[k] = wire[k]
    BY <1>3, <1>4, <2>1, AppendElements
  <2> QED
    BY <1>0, <2>1, <2>2, PathTyped
<1>6. /\ Append(Path, p) \in Seq(Packets)
      /\ Len(Append(Path, p)) = Len(Path) + 1
      /\ Append(Path, p)[Len(Path) + 1] = p
      /\ \A k \in 1 .. Len(Path) : Append(Path, p)[k] = Path[k]
  <2>1. Path \in Seq(Packets)
    BY <1>5
  <2> QED
    BY <1>3, <2>1, AppendElements
<1>7. Path' = Append(Path, p)
  <2>1. Len(Append(Path, p)) = Len(ready') + Len(wire')
    BY <1>2, <1>5, <1>6
  <2>2. \A k \in 1 .. Len(ready') : Append(Path, p)[k] = buffers'[ready'[k]]
    BY <1>2, <1>5, <1>6
  <2>3. ASSUME NEW k \in 1 .. Len(wire')
        PROVE  Append(Path, p)[Len(ready') + k] = wire'[k]
    <3>1. CASE k = Len(wire) + 1
      <4>1. Len(ready') + k = Len(Path) + 1
        BY <1>2, <1>5, <3>1
      <4> QED
        BY <1>5, <1>6, <3>1, <4>1
    <3>2. CASE k # Len(wire) + 1
      <4>1. k \in 1 .. Len(wire) /\ Len(ready) + k \in 1 .. Len(Path)
        BY <1>5, <3>2
      <4> QED
        BY <1>2, <1>5, <1>6, <4>1
    <3> QED
      BY <3>1, <3>2
  <2> QED
    BY <1>0, <1>6, <2>1, <2>2, <2>3, PathNext
<1>8. RingInv'
  <2>1. wire' # <<>>
    BY <1>5
  <2>2. Filling' = Filling /\ Reading' = Reading
    BY <1>2 DEF Filling, Reading
  <2> QED
    BY <1>2, <2>1, <2>2 DEF RingInv
<1> QED
  BY <1>1, <1>2, <1>3, <1>7, <1>8 DEF p

(* No other step touches what is on its way.                               *)
LEMMA OthersKeep ==
  ASSUME TypeInv, RingInv,
         \/ \E n \in Counts : StartAcquisition(n)
         \/ \E s \in Sizes : SetFrameSize(s)
         \/ Flush \/ StopCard \/ ResetStatistics
         \/ \E t \in Threads : CloseStep(t)
         \/ UNCHANGED seen
  PROVE  RingInv' /\ UNCHANGED <<Path, worker, buffers, wire, ready>>
<1>1. /\ UNCHANGED <<worker, buffers, wire, ready, part>>
      /\ bufId' = bufId \/ (~part /\ ready = <<>> /\ ~worker.busy)
  <2>1. CASE ResetStatistics
    BY <2>1 DEF ResetStatistics, threads
  <2>2. CASE Flush \/ StopCard
    BY <2>2 DEF Flush, StopCard, decoder, threads
  <2>3. ASSUME NEW n \in Counts, StartAcquisition(n)
        PROVE  UNCHANGED <<worker, buffers, wire, ready, part, bufId>>
    BY <2>3 DEF StartAcquisition, decoder, threads
  <2>4. ASSUME NEW s \in Sizes, SetFrameSize(s)
        PROVE  UNCHANGED <<worker, buffers, wire, ready, part, bufId>>
    BY <2>4 DEF SetFrameSize, decoder, threads
  <2>5. ASSUME NEW t \in Threads, CloseStep(t)
        PROVE  UNCHANGED <<worker, buffers, wire, ready, part, bufId>>
    BY <2>5 DEF CloseStep, decoder
  <2>6. CASE UNCHANGED seen
    BY <2>6 DEF seen, decoder, threads
  <2> QED
    BY <2>1, <2>2, <2>3, <2>4, <2>5, <2>6
<1>2. UNCHANGED Path
  BY <1>1 DEF Path
<1>3. RingInv'
  <2>1. Filling' = Filling /\ Reading' = Reading
    BY <1>1 DEF Filling, Reading
  <2>2. CASE bufId' = bufId
    BY <1>1, <2>1, <2>2 DEF RingInv
  <2>3. CASE ~part /\ ready = <<>> /\ ~worker.busy
    BY <1>1, <2>1, <2>3 DEF RingInv
  <2> QED
    BY <1>1, <2>2, <2>3
<1> QED
  BY <1>1, <1>2, <1>3

LEMMA RingInit == Init => RingInv
  BY ConstantTypes DEF Init, RingInv, Filling, Reading, Idle

LEMMA RingStep ==
  ASSUME TypeInv, RingInv, [Steps]_seen
  PROVE  RingInv'
  BY ReadsKeep, TakeMoves, WorkKeeps, SendAdds, OthersKeep
     DEF Steps, Client, Work

-----------------------------------------------------------------------------
(***************************************************************************)
(* The packet the worker reads is for a channel of the plugin, and stays   *)
(* in its buffer, so that all fields of an event are read from the event.  *)
(***************************************************************************)
HeldInv ==
  worker.busy =>
    /\ Packet.ch \in Channels
    /\ worker.field > 1 => Item.kind = "event"

LEMMA HeldStep ==
  ASSUME TypeInv, RingInv, HeldInv, [Steps]_seen
  PROVE  HeldInv'
<1>0. ThreadsOK
  BY DEF SeenOK, TypeInv
<1>1. ASSUME worker.busy' => worker' = worker /\ Packet' = Packet
      PROVE  HeldInv'
  BY <1>1 DEF HeldInv, Item, Number
<1>2. CASE Reads
  BY <1>1, <1>2, ReadsKeep DEF Packet
<1>3. ASSUME NEW c \in Sources, Send(c) PROVE HeldInv'
  BY <1>1, <1>3, SendAdds DEF Packet
<1>4. CASE \/ \E n \in Counts : StartAcquisition(n)
           \/ \E s \in Sizes : SetFrameSize(s)
           \/ Flush \/ StopCard \/ ResetStatistics
           \/ \E t \in Threads : CloseStep(t)
           \/ UNCHANGED seen
  BY <1>1, <1>4, OthersKeep DEF Packet
<1>5. CASE Take
  <2> SUFFICES ASSUME worker'.busy PROVE HeldInv'
    BY DEF HeldInv
  <2>1. ~Dropped(Packet') /\ worker'.field = 1
    BY <1>5, TakeMoves
  <2> QED
    BY <2>1 DEF HeldInv, Dropped
<1>6. CASE AddField \/ SkipDummy \/ EndMark
  <2> SUFFICES ASSUME worker'.busy PROVE HeldInv'
    BY DEF HeldInv
  <2>1. worker.busy /\ Packet' = Packet
    BY <1>6, WorkKeeps
  <2>2. ~Done
    BY DEF Done, Idle
  <2>3. CASE NextItem
    <3>1. worker' = [worker EXCEPT !.pos = @ + 1, !.field = 1]
      BY <2>2, <2>3 DEF NextItem
    <3>2. worker'.field = 1
      BY <1>0, <3>1 DEF ThreadsOK, Workers
    <3> QED
      BY <2>1, <3>2 DEF HeldInv
  <2>4. CASE ~NextItem
    <3>1. AddField /\ worker' = [worker EXCEPT !.field = @ + 1]
      BY <1>6, <2>2, <2>4 DEF AddField, SkipDummy, EndMark
    <3>2. worker'.pos = worker.pos
      BY <1>0, <3>1 DEF ThreadsOK, Workers
    <3>3. Item' = Item
      BY <2>1, <3>2 DEF Item, Number
    <3>4. Item.kind = "event"
      BY <3>1 DEF AddField
    <3> QED
      BY <2>1, <3>3, <3>4 DEF HeldInv
  <2> QED
    BY <2>3, <2>4
<1> QED
  BY <1>2, <1>3, <1>4, <1>5, <1>6 DEF Steps, Client, Work

-----------------------------------------------------------------------------
(***************************************************************************)
(* The datasets of a channel.  They are the same up to the step the worker *)
(* or a close is taking from the first of them to the last.                *)
(***************************************************************************)
Values(d, c) == [log |-> log[d][c], block |-> block[d][c], count |-> count[d][c]]

PushedWith(v, rows) ==
  [log   |-> Append(v.log, [id |-> v.count, size |-> size, rows |-> rows]),
   block |-> <<>>,
   count |-> v.count + 1]

Pushed(v) == PushedWith(v, v.block)

Added(v, row) ==
  LET rows == Append(v.block, row)
  IN  IF Len(rows) = size THEN PushedWith(v, rows) ELSE [v EXCEPT !.block = rows]

LEMMA AddRowEffect ==
  ASSUME MemoryOK, NEW d \in Fields, NEW c \in Channels, NEW row,
         AddRow(d, c, row), NEW e \in Fields, NEW b \in Channels
  PROVE  Values(e, b)' = IF e = d /\ b = c THEN Added(Values(e, b), row)
                         ELSE Values(e, b)
<1> DEFINE rows == Append(block[d][c], row)
           f == ToFrame(d, c, rows)
<1>1. f = [id |-> count[d][c], size |-> size, rows |-> rows]
  BY DEF ToFrame
<1>2. Added(Values(d, c), row) =
        IF Len(rows) = size
          THEN [log |-> Append(log[d][c], f), block |-> <<>>, count |-> count[d][c] + 1]
          ELSE [log |-> log[d][c], block |-> rows, count |-> count[d][c]]
  <2> DEFINE v == Values(d, c)
  <2>1. /\ v.log = log[d][c] /\ v.block = block[d][c] /\ v.count = count[d][c]
        /\ \A x : [v EXCEPT !.block = x]
                   = [log |-> log[d][c], block |-> x, count |-> count[d][c]]
    BY DEF Values
  <2>2. Added(Values(d, c), row) =
          IF Len(rows) = size THEN PushedWith(Values(d, c), rows)
          ELSE [Values(d, c) EXCEPT !.block = rows]
    BY <2>1 DEF Added
  <2> HIDE DEF rows, f
  <2>3. PushedWith(Values(d, c), rows)
          = [log |-> Append(log[d][c], f), block |-> <<>>, count |-> count[d][c] + 1]
    BY <1>1, <2>1 DEF PushedWith
  <2> QED
    BY <2>1, <2>2, <2>3
<1>3. IF Len(rows) = size
        THEN /\ log' = [log EXCEPT ![d][c] = Append(@, f)]
             /\ block' = [block EXCEPT ![d][c] = <<>>]
             /\ count' = [count EXCEPT ![d][c] = @ + 1]
        ELSE /\ block' = [block EXCEPT ![d][c] = rows] /\ UNCHANGED <<log, count>>
  BY DEF AddRow, CountAfter
<1> HIDE DEF rows, f
<1>4. CASE Len(rows) = size
  <2>1. /\ log'[e][b] = IF e = d /\ b = c THEN Append(log[e][b], f) ELSE log[e][b]
        /\ block'[e][b] = IF e = d /\ b = c THEN <<>> ELSE block[e][b]
        /\ count'[e][b] = IF e = d /\ b = c THEN count[e][b] + 1 ELSE count[e][b]
    <3>1. /\ log' = [log EXCEPT ![d][c] = Append(@, f)]
          /\ block' = [block EXCEPT ![d][c] = <<>>]
          /\ count' = [count EXCEPT ![d][c] = @ + 1]
      BY <1>3, <1>4
    <3>2. log'[e][b] = IF e = d /\ b = c THEN Append(log[e][b], f) ELSE log[e][b]
      BY <3>1 DEF MemoryOK
    <3>3. block'[e][b] = IF e = d /\ b = c THEN <<>> ELSE block[e][b]
      BY <3>1 DEF MemoryOK
    <3>4. count'[e][b] = IF e = d /\ b = c THEN count[e][b] + 1 ELSE count[e][b]
      BY <3>1 DEF MemoryOK
    <3> QED
      BY <3>2, <3>3, <3>4
  <2> QED
    BY <1>2, <1>4, <2>1 DEF Values
<1>5. CASE Len(rows) # size
  <2>1. /\ log'[e][b] = log[e][b] /\ count'[e][b] = count[e][b]
        /\ block'[e][b] = IF e = d /\ b = c THEN rows ELSE block[e][b]
    BY <1>3, <1>5 DEF MemoryOK
  <2> QED
    BY <1>2, <1>5, <2>1 DEF Values
<1> QED
  BY <1>4, <1>5

LEMMA FlushEffect ==
  ASSUME MemoryOK, NEW d \in Fields, FlushDataset(d),
         NEW e \in Fields, NEW c \in Channels
  PROVE  Values(e, c)' = IF e = d THEN Pushed(Values(e, c)) ELSE Values(e, c)
<1>1. CASE e = d
  <2>1. /\ log'[e][c] = Append(log[e][c], ToFrame(e, c, block[e][c]))
        /\ block'[e][c] = <<>> /\ count'[e][c] = count[e][c] + 1
    BY <1>1 DEF FlushDataset, MemoryOK, CountAfter
  <2> QED
    BY <1>1, <2>1 DEF Values, Pushed, PushedWith, ToFrame
<1>2. CASE e # d
  <2>1. /\ log'[e][c] = log[e][c] /\ block'[e][c] = block[e][c]
        /\ count'[e][c] = count[e][c]
    BY <1>2 DEF FlushDataset, MemoryOK
  <2> QED
    BY <1>2, <2>1 DEF Values
<1> QED
  BY <1>1, <1>2

Adding(c) == worker.busy /\ Packet.ch = c

Row == [acq |-> Packet.acq, n |-> Number]

(* The datasets before the first one that has not taken the step have taken*)
(* it, with the value after instead of the value before.                   *)
Parted(c, first, before, after) ==
  \A d \in Fields : Values(d, c) = IF d < first THEN after ELSE before

StepOf(c) ==
  IF Adding(c)
    THEN \E v : Parted(c, worker.field, v, Added(v, Row))
    ELSE IF NotClosing
           THEN \E v : Parted(c, 1, v, v)
           ELSE \A t \in Threads : closing[t] > 0 =>
                  \E v : Parted(c, closing[t], v, Pushed(v))

StepInv == \A c \in Channels : StepOf(c)

(* Nothing has taken the step before the first dataset.                    *)
LEMMA PartedFirst ==
  ASSUME NEW c, NEW v, NEW w
  PROVE  Parted(c, 1, v, w) <=> Parted(c, 1, v, v)
<1>1. \A d \in Fields : ~(d < 1)
  BY DEF Fields
<1> QED
  BY <1>1 DEF Parted

(* One more dataset takes the step, or all have.                           *)
LEMMA PartedStep ==
  ASSUME NEW c, NEW m \in Fields, NEW v, NEW w, Parted(c, m, v, w),
         \A d \in Fields : Values(d, c)' = IF d = m THEN w ELSE Values(d, c)
  PROVE  /\ \A d \in Fields : Values(d, c)' = IF d < m + 1 THEN w ELSE v
         /\ m = NumFields => \A d \in Fields : Values(d, c)' = w
<1>1. \A d \in Fields : d \in Nat /\ d <= NumFields
  BY ConstantTypes DEF Fields
<1>2. \A d \in Fields : Values(d, c)' = IF d < m + 1 THEN w ELSE v
  <2> TAKE d \in Fields
  <2>1. d < m + 1 <=> d < m \/ d = m
    BY <1>1
  <2> QED
    BY <1>1, <2>1 DEF Parted
<1>3. m = NumFields => \A d \in Fields : Values(d, c)' = w
  BY <1>1, <1>2
<1> QED
  BY <1>2, <1>3

(* A step that leaves a channel and the packet of the worker alone.        *)
LEMMA StepKept ==
  ASSUME NEW c, StepOf(c), UNCHANGED <<size, closing>>,
         \A d \in Fields : Values(d, c)' = Values(d, c),
         Adding(c)' <=> Adding(c),
         Adding(c) => Row' = Row /\ worker'.field = worker.field
  PROVE  StepOf(c)'
<1>1. \A v, r : Added(v, r)' = Added(v, r)
  BY DEF Added, PushedWith
<1>2. \A v : Pushed(v)' = Pushed(v)
  BY DEF Pushed, PushedWith
<1>3. \A m, v, w : Parted(c, m, v, w) => \A d \in Fields :
        Values(d, c)' = IF d < m THEN w ELSE v
  BY DEF Parted
<1>4. CASE Adding(c)
  <2>1. PICK v : Parted(c, worker.field, v, Added(v, Row))
    BY <1>4 DEF StepOf
  <2>r. PICK r : r = Row
    OBVIOUS
  <2>2. \A d \in Fields : Values(d, c)' = IF d < worker.field THEN Added(v, r) ELSE v
    BY <1>3, <2>1, <2>r
  <2>4. Row' = r /\ worker'.field = worker.field
    BY <1>4, <2>r
  <2>5. Added(v, r)' = Added(v, r)
    BY <1>1
  <2>6. Added(v, Row)' = Added(v, r)
    BY <2>4, <2>5 DEF Added, PushedWith
  <2>3. Parted(c, worker.field, v, Added(v, Row))'
    BY <2>2, <2>4, <2>6 DEF Parted
  <2> QED
    BY <1>4, <2>3 DEF StepOf
<1>5. CASE ~Adding(c) /\ NotClosing
  <2>1. PICK v : Parted(c, 1, v, v)
    BY <1>5 DEF StepOf
  <2>2. Parted(c, 1, v, v)' /\ NotClosing'
    BY <1>3, <1>5, <2>1 DEF Parted, NotClosing
  <2> QED
    BY <1>5, <2>2 DEF StepOf
<1>6. CASE ~Adding(c) /\ ~NotClosing
  <2>1. ASSUME NEW t \in Threads, closing'[t] > 0
        PROVE  \E v : Parted(c, closing[t], v, Pushed(v))'
    <3>1. PICK v : Parted(c, closing[t], v, Pushed(v))
      BY <1>6, <2>1 DEF StepOf
    <3>2. Parted(c, closing[t], v, Pushed(v))'
      BY <1>2, <1>3, <3>1 DEF Parted
    <3> QED
      BY <3>2
  <2>2. ~NotClosing'
    BY <1>6 DEF NotClosing
  <2> QED
    BY <1>6, <2>1, <2>2 DEF StepOf
<1> QED
  BY <1>4, <1>5, <1>6

(* Datasets that are all the same, with nothing begun.                     *)
LEMMA StepFresh ==
  ASSUME NEW c, NEW v, \A d \in Fields : Values(d, c)' = v,
         Adding(c)' => worker'.field = 1,
         \A t \in Threads : closing'[t] \in {0, 1}
  PROVE  StepOf(c)'
<1>1. \A w : Parted(c, 1, v, w)'
  BY DEF Parted, Fields
<1> QED
  BY <1>1 DEF StepOf

(* A channel of which no step is under way.                                *)
LEMMA StepRest ==
  ASSUME NEW c \in Channels, StepInv, NotClosing,
         Adding(c) => worker.field = 1
  PROVE  \E v : \A d \in Fields : Values(d, c) = v
<1>1. \E v, w : Parted(c, 1, v, w)
  BY DEF StepInv, StepOf
<1> QED
  BY <1>1 DEF Parted, Fields

(* The two ways on from an item that is done.                              *)
LEMMA NextItemMoves ==
  ASSUME ThreadsOK, NextItem
  PROVE  worker'.busy => worker'.field = 1
<1>1. CASE Done
  BY <1>1 DEF Done, Idle
<1>2. CASE ~Done
  <2>1. worker' = [worker EXCEPT !.pos = @ + 1, !.field = 1]
    BY <1>2 DEF NextItem
  <2> QED
    BY <2>1 DEF ThreadsOK, Workers
<1> QED
  BY <1>1, <1>2

LEMMA StepAdd ==
  ASSUME TypeInv, RingInv, HeldInv, CloseInv, StepInv, AddField,
         NEW c \in Channels
  PROVE  StepOf(c)'
<1>0. ThreadsOK /\ MemoryOK
  BY DEF SeenOK, TypeInv
<1>1. /\ worker.busy /\ NotClosing /\ UNCHANGED <<closing, size>>
      /\ AddRow(worker.field, Packet.ch, Row)
      /\ worker.field \in Fields /\ Packet.ch \in Channels
      /\ IF worker.field < NumFields
           THEN worker' = [worker EXCEPT !.field = @ + 1] /\ UNCHANGED buffers
           ELSE NextItem
  BY <1>0 DEF AddField, Working, CloseInv, HeldInv, ThreadsOK, Workers, Row, state
<1>2. \A t \in Threads : closing'[t] \in {0, 1}
  BY <1>1 DEF NotClosing
<1>3. worker'.busy => Packet' = Packet
  BY WorkKeeps
<1>4. CASE c # Packet.ch
  <2>1. ~Adding(c) /\ ~Adding(c)'
    BY <1>3, <1>4 DEF Adding
  <2>2. PICK v : \A d \in Fields : Values(d, c) = v
    BY <1>1, <2>1, StepRest
  <2>3. \A d \in Fields : Values(d, c)' = v
    BY <1>0, <1>1, <1>4, <2>2, AddRowEffect
  <2> QED
    BY <1>2, <2>1, <2>3, StepFresh
<1>5. CASE c = Packet.ch
  <2>1. PICK m \in Fields : m = worker.field
    BY <1>1
  <2>r. PICK r : r = Row
    OBVIOUS
  <2>v. PICK v : Parted(c, m, v, Added(v, r))
    BY <1>1, <1>5, <2>1, <2>r DEF StepInv, StepOf, Adding
  <2>w. PICK w : w = Added(v, r)
    OBVIOUS
  <2>2. m \in Nat /\ NumFields \in Nat /\ m <= NumFields
    BY <1>1, ConstantTypes DEF Fields
  <2>3. Values(m, c) = v
    BY <2>v, <2>2 DEF Parted
  <2>4. \A d \in Fields : Values(d, c)' = IF d = m THEN w ELSE Values(d, c)
    <3> TAKE d \in Fields
    <3>1. Values(d, c)' = IF d = m /\ c = Packet.ch THEN Added(Values(d, c), Row)
                          ELSE Values(d, c)
      BY <1>0, <1>1, <2>1, AddRowEffect
    <3> QED
      BY <1>5, <2>3, <2>r, <2>w, <3>1
  <2>5. /\ \A d \in Fields : Values(d, c)' = IF d < m + 1 THEN w ELSE v
        /\ m = NumFields => \A d \in Fields : Values(d, c)' = w
    <3>1. Parted(c, m, v, w)
      BY <2>v, <2>w
    <3> QED
      BY <2>4, <3>1, PartedStep
  <2>6. CASE m < NumFields
    <3>1. worker' = [worker EXCEPT !.field = @ + 1]
      BY <1>1, <2>1, <2>6
    <3>2. worker'.field = m + 1 /\ worker'.busy /\ worker'.pos = worker.pos
      BY <1>0, <1>1, <2>1, <3>1 DEF ThreadsOK, Workers
    <3>3. Row' = r /\ Adding(c)'
      BY <1>3, <1>5, <2>r, <3>2 DEF Row, Number, Adding
    <3>4. Added(v, Row)' = w
      BY <1>1, <2>w, <3>3 DEF Added, PushedWith
    <3>5. Parted(c, worker.field, v, Added(v, Row))'
      BY <2>5, <3>2, <3>4 DEF Parted
    <3> QED
      BY <3>3, <3>5 DEF StepOf
  <2>7. CASE ~(m < NumFields)
    <3>1. NextItem /\ m = NumFields
      BY <1>1, <2>1, <2>2, <2>7
    <3>2. Adding(c)' => worker'.field = 1
      BY <1>0, <3>1, NextItemMoves DEF Adding
    <3>3. \A d \in Fields : Values(d, c)' = w
      BY <2>5, <3>1
    <3> QED
      BY <1>2, <3>2, <3>3, StepFresh
  <2> QED
    BY <2>6, <2>7
<1> QED
  BY <1>4, <1>5

LEMMA StepClose ==
  ASSUME TypeInv, CloseInv, StepInv, NEW t \in Threads, CloseStep(t),
         NEW c \in Channels
  PROVE  StepOf(c)'
<1>0. ThreadsOK /\ MemoryOK
  BY DEF SeenOK, TypeInv
<1>k. PICK k \in Nat : k = closing[t]
  BY <1>0 DEF ThreadsOK
<1>1. /\ k > 0 /\ ~worker.busy /\ worker' = worker /\ size' = size
      /\ \A u \in Threads : u # t => closing[u] = 0
  BY <1>0, <1>k, OneCloses DEF CloseStep
<1>2. ~Adding(c) /\ ~Adding(c)' /\ ~NotClosing
  BY <1>1, <1>k DEF Adding, NotClosing
<1>3. PICK v : Parted(c, k, v, Pushed(v))
  BY <1>1, <1>2, <1>k DEF StepInv, StepOf
<1>w. PICK w : w = Pushed(v)
  OBVIOUS
<1>4. NumFields \in Nat /\ \A d \in Fields : d \in Nat /\ d <= NumFields
  BY ConstantTypes DEF Fields
<1>5. CASE k <= NumFields
  <2>1. k \in Fields /\ FlushDataset(k) /\ closing' = [closing EXCEPT ![t] = @ + 1]
    BY <1>1, <1>4, <1>5, <1>k DEF CloseStep, Fields
  <2>2. Values(k, c) = v
    BY <1>1, <1>3, <2>1 DEF Parted
  <2>3. \A d \in Fields : Values(d, c)' = IF d = k THEN w ELSE Values(d, c)
    <3> TAKE d \in Fields
    <3>1. Values(d, c)' = IF d = k THEN Pushed(Values(d, c)) ELSE Values(d, c)
      BY <1>0, <2>1, FlushEffect
    <3> QED
      BY <1>w, <2>2, <3>1
  <2>4. \A d \in Fields : Values(d, c)' = IF d < k + 1 THEN w ELSE v
    <3>1. Parted(c, k, v, w)
      BY <1>3, <1>w
    <3> QED
      BY <2>1, <2>3, <3>1, PartedStep
  <2>5. /\ closing'[t] = k + 1 /\ closing'[t] > 0
        /\ \A u \in Threads : u # t => ~(closing'[u] > 0)
    BY <1>0, <1>1, <1>k, <2>1 DEF ThreadsOK
  <2>6. Pushed(v)' = w
    BY <1>1, <1>w DEF Pushed, PushedWith
  <2>7. Parted(c, closing[t], v, Pushed(v))'
    BY <2>4, <2>5, <2>6 DEF Parted
  <2>8. ~NotClosing'
    BY <2>5 DEF NotClosing
  <2> QED
    BY <1>2, <2>5, <2>7, <2>8 DEF StepOf
<1>6. CASE ~(k <= NumFields)
  <2>1. UNCHANGED memory /\ closing' = [closing EXCEPT ![t] = 0]
    BY <1>6, <1>k DEF CloseStep
  <2>2. \A d \in Fields : d < k
    BY <1>1, <1>4, <1>6
  <2>3. \A d \in Fields : Values(d, c)' = w
    BY <1>3, <1>w, <2>1, <2>2 DEF Parted, Values, memory
  <2>4. \A u \in Threads : closing'[u] \in {0, 1}
    BY <1>0, <1>1, <2>1 DEF ThreadsOK
  <2> QED
    BY <1>2, <2>3, <2>4, StepFresh
<1> QED
  BY <1>5, <1>6

LEMMA StepStep ==
  ASSUME Racing = FALSE, TypeInv, RingInv, HeldInv, CloseInv, StepInv, [Steps]_seen
  PROVE  StepInv'
<1> SUFFICES ASSUME NEW c \in Channels PROVE StepOf(c)'
  BY DEF StepInv
<1>0. ThreadsOK
  BY DEF SeenOK, TypeInv
<1>1. ASSUME UNCHANGED <<log, block, count, size, closing, worker>>,
             worker.busy => Packet' = Packet
      PROVE  StepOf(c)'
  <2>1. /\ Adding(c)' <=> Adding(c)
        /\ Adding(c) => Row' = Row /\ worker'.field = worker.field
    BY <1>1 DEF Adding, Row, Number
  <2>2. \A d \in Fields : Values(d, c)' = Values(d, c)
    BY <1>1 DEF Values
  <2>3. StepOf(c)
    BY DEF StepInv
  <2> QED
    BY <1>1, <2>1, <2>2, <2>3, StepKept
<1>2. ASSUME ControlReady
      PROVE  /\ NotClosing /\ ~worker.busy /\ ~Adding(c)
             /\ \E v : \A d \in Fields : Values(d, c) = v
  BY <1>2, StepRest DEF ControlReady, Adding
<1>3. ASSUME NEW n \in Counts, StartAcquisition(n) PROVE StepOf(c)'
  <2> DEFINE v == [log |-> <<>>, block |-> <<>>, count |-> 0]
  <2>1. ControlReady /\ UNCHANGED <<worker, closing>>
    BY <1>3 DEF StartAcquisition, threads
  <2>2. \A d \in Fields : Values(d, c)' = v
    BY <1>3 DEF StartAcquisition, Values, Cleared, Everywhere
  <2>3. ~Adding(c)' /\ \A t \in Threads : closing'[t] \in {0, 1}
    BY <1>2, <2>1 DEF Adding, NotClosing
  <2> HIDE DEF v
  <2> QED
    BY <2>2, <2>3, StepFresh
<1>4. ASSUME NEW s \in Sizes, SetFrameSize(s) PROVE StepOf(c)'
  <2>1. ControlReady /\ UNCHANGED <<worker, closing>>
    BY <1>4 DEF SetFrameSize, threads
  <2>2. PICK v : \A d \in Fields : Values(d, c) = v
    BY <1>2, <2>1
  <2>3. \A d \in Fields : Values(d, c)' = [log |-> v.log, block |-> <<>>, count |-> 0]
    BY <1>4, <2>2 DEF SetFrameSize, Values, Everywhere
  <2>4. ~Adding(c)' /\ \A t \in Threads : closing'[t] \in {0, 1}
    BY <1>2, <2>1 DEF Adding, NotClosing
  <2> QED
    BY <2>3, <2>4, StepFresh
<1>5. CASE Flush
  <2>1. /\ ControlReady /\ UNCHANGED <<worker, log, block, count>>
        /\ closing' = [closing EXCEPT !["control"] = 1]
    BY <1>5 DEF Flush, memory
  <2>2. PICK v : \A d \in Fields : Values(d, c) = v
    BY <1>2, <2>1
  <2>3. \A d \in Fields : Values(d, c)' = v
    BY <2>1, <2>2 DEF Values
  <2>4. ~Adding(c)' /\ \A t \in Threads : closing'[t] \in {0, 1}
    BY <1>0, <1>2, <2>1 DEF Adding, NotClosing, ThreadsOK
  <2> QED
    BY <2>3, <2>4, StepFresh
<1>6. CASE Take
  <2>1. /\ ~worker.busy /\ UNCHANGED <<closing, log, block, count>>
        /\ NotClosing
    BY <1>6 DEF Take, WorkerMoves, memory, NotClosing, Threads
  <2>2. PICK v : \A d \in Fields : Values(d, c) = v
    BY <2>1, StepRest DEF Adding
  <2>3. \A d \in Fields : Values(d, c)' = v
    BY <2>1, <2>2 DEF Values
  <2>4. Adding(c)' => worker'.field = 1
    BY <1>6, TakeMoves DEF Adding
  <2>5. \A t \in Threads : closing'[t] \in {0, 1}
    BY <2>1 DEF NotClosing
  <2> QED
    BY <2>3, <2>4, <2>5, StepFresh
<1>7. CASE SkipDummy \/ EndMark
  <2>1. /\ worker.busy /\ NotClosing /\ UNCHANGED <<log, block, count>>
        /\ Item.kind # "event"
        /\ NextItem \/ Done
        /\ closing' = closing \/ closing' = [closing EXCEPT !["worker"] = 1]
    BY <1>7 DEF SkipDummy, EndMark, Working, CloseInv, memory
  <2>2. worker.field = 1
    BY <1>0, <2>1 DEF HeldInv, ThreadsOK, Workers, Fields
  <2>3. PICK v : \A d \in Fields : Values(d, c) = v
    BY <2>1, <2>2, StepRest
  <2>4. \A d \in Fields : Values(d, c)' = v
    BY <2>1, <2>3 DEF Values
  <2>5. Adding(c)' => worker'.field = 1
    BY <1>0, <2>1, NextItemMoves DEF Adding, Done, Idle
  <2>6. \A t \in Threads : closing'[t] \in {0, 1}
    BY <1>0, <2>1 DEF NotClosing, ThreadsOK
  <2> QED
    BY <2>4, <2>5, <2>6, StepFresh
<1>8. CASE Reads
  <2>1. UNCHANGED <<log, block, count, size, closing>>
    BY <1>8 DEF Reads, ReadPart, ReadWhole, ReadRest, Completed, memory, state,
                threads
  <2> QED
    BY <1>1, <1>8, <2>1, ReadsKeep DEF Packet
<1>9. ASSUME NEW b \in Sources, Send(b) PROVE StepOf(c)'
  <2>1. UNCHANGED <<log, block, count, size, closing>>
    BY <1>9 DEF Send, memory, state, threads
  <2> QED
    BY <1>1, <1>9, <2>1, SendAdds DEF Packet
<1>10. CASE StopCard \/ ResetStatistics \/ UNCHANGED seen
  <2>1. UNCHANGED <<log, block, count, size, closing>>
    BY <1>10 DEF StopCard, ResetStatistics, memory, state, threads, seen
  <2> QED
    BY <1>1, <1>10, <2>1, OthersKeep DEF Packet
<1> QED
  BY <1>3, <1>4, <1>5, <1>6, <1>7, <1>8, <1>9, <1>10, StepAdd, StepClose
     DEF Steps, Client, Work

LEMMA StepInit == Init => StepInv /\ HeldInv
<1> SUFFICES ASSUME Init PROVE StepInv /\ HeldInv
  OBVIOUS
<1> DEFINE v == [log |-> <<>>, block |-> <<>>, count |-> 0]
<1>1. /\ \A d \in Fields, c \in Channels : Values(d, c) = v
      /\ ~worker.busy /\ NotClosing
  BY DEF Init, Values, Everywhere, Idle, NotClosing
<1> HIDE DEF v
<1>2. \A c \in Channels : Parted(c, 1, v, v) /\ ~Adding(c)
  BY <1>1 DEF Parted, Adding, Fields
<1> QED
  BY <1>1, <1>2 DEF StepInv, StepOf, HeldInv

(* When no flush request runs during a packet, the datasets of a channel   *)
(* have the same rows in the same frames whenever the worker has no packet *)
(* and nothing is being closed: whatever packets of whichever acquisition  *)
(* came, and resets, flushes and new frame sizes between them.             *)
THEOREM DatasetsInStep == ASSUME Racing = FALSE PROVE Spec => []InStep
<1> DEFINE Inv == TypeInv /\ CloseInv /\ RingInv /\ HeldInv /\ StepInv
<1>1. Init => Inv
  BY TypeInit, CloseInit, RingInit, StepInit
<1>2. Inv /\ [Steps]_seen => Inv'
  BY TypeStep, CloseStepInv, RingStep, HeldStep, StepStep
<1>3. Inv => InStep
  <2> SUFFICES ASSUME Inv, ControlReady, NEW d \in Fields, NEW c \in Channels
               PROVE  log[d][c] = log[1][c] /\ block[d][c] = block[1][c]
    BY DEF InStep
  <2>1. PICK v : \A e \in Fields : Values(e, c) = v
    BY StepRest DEF ControlReady, Adding
  <2>2. 1 \in Fields
    BY ConstantTypes DEF Fields
  <2>3. Values(d, c) = Values(1, c)
    BY <2>1, <2>2
  <2> QED
    BY <2>3 DEF Values
<1> QED
  BY <1>1, <1>2, <1>3, Visible, PTL DEF Spec

-----------------------------------------------------------------------------
(***************************************************************************)
(* The items of a channel on their way: packet after packet, each begins   *)
(* where the one before it ended.                                          *)
(***************************************************************************)
Covers(p, c, i, j) == IF p.ch = c THEN p.from = i + 1 /\ j = i + p.len ELSE j = i

(* The packets of P hold the items of c behind item i and up to item j.    *)
Chain(P, c, i, j) ==
  \E f \in [1 .. Len(P) + 1 -> 0 .. j] :
    /\ f[1] = i /\ f[Len(P) + 1] = j
    /\ \A k \in 1 .. Len(P) : Covers(P[k], c, f[k], f[k + 1])

LEMMA ChainEmpty ==
  ASSUME NEW c, NEW j \in Nat
  PROVE  Chain(<<>>, c, j, j)
<1> DEFINE f == [k \in 1 .. Len(<<>>) + 1 |-> j]
<1>1. f \in [1 .. Len(<<>>) + 1 -> 0 .. j] /\ Len(<<>>) = 0
  OBVIOUS
<1>2. /\ f[1] = j /\ f[Len(<<>>) + 1] = j
      /\ \A k \in 1 .. Len(<<>>) : Covers(<<>>[k], c, f[k], f[k + 1])
  OBVIOUS
<1> HIDE DEF f
<1> QED
  BY <1>1, <1>2 DEF Chain

LEMMA ChainRange ==
  ASSUME NEW P \in Seq(Packets), NEW c, NEW i, NEW j \in Nat, Chain(P, c, i, j)
  PROVE  i \in 0 .. j
<1>1. PICK f \in [1 .. Len(P) + 1 -> 0 .. j] : f[1] = i
  BY DEF Chain
<1>2. 1 \in 1 .. Len(P) + 1
  OBVIOUS
<1> QED
  BY <1>1, <1>2

LEMMA ChainTail ==
  ASSUME NEW P \in Seq(Packets), NEW c, NEW i, NEW j \in Nat, Chain(P, c, i, j),
         P # <<>>
  PROVE  \E h \in 0 .. j : Covers(Head(P), c, i, h) /\ Chain(Tail(P), c, h, j)
<1>1. PICK f \in [1 .. Len(P) + 1 -> 0 .. j] :
        /\ f[1] = i /\ f[Len(P) + 1] = j
        /\ \A k \in 1 .. Len(P) : Covers(P[k], c, f[k], f[k + 1])
  BY DEF Chain
<1>2. /\ Len(P) \in Nat \ {0} /\ Head(P) = P[1] /\ Tail(P) \in Seq(Packets)
      /\ Len(Tail(P)) = Len(P) - 1
      /\ \A k \in 1 .. Len(P) - 1 : Tail(P)[k] = P[k + 1]
  OBVIOUS
<1>n. PICK n \in Nat \ {0} : n = Len(P)
  BY <1>2
<1> DEFINE g == [k \in 1 .. n |-> f[k + 1]]
<1>3. g \in [1 .. n -> 0 .. j]
  BY <1>1, <1>n
<1>4. \A k \in 1 .. n : g[k] = f[k + 1]
  OBVIOUS
<1>5. f[2] \in 0 .. j /\ Covers(Head(P), c, i, f[2])
  <2>1. 1 \in 1 .. n /\ 1 + 1 = 2 /\ 2 \in 1 .. n + 1
    BY <1>n
  <2> QED
    BY <1>1, <1>2, <1>n, <2>1
<1> HIDE DEF g
<1>6. g[1] = f[2] /\ g[n] = j
  BY <1>1, <1>4, <1>n
<1>7. \A k \in 1 .. n - 1 : Covers(Tail(P)[k], c, g[k], g[k + 1])
  <2> TAKE k \in 1 .. n - 1
  <2>1. k \in 1 .. n /\ k + 1 \in 1 .. n /\ Tail(P)[k] = P[k + 1]
    BY <1>2, <1>n
  <2>2. g[k] = f[k + 1] /\ g[k + 1] = f[(k + 1) + 1]
    BY <1>4, <2>1
  <2> QED
    BY <1>1, <1>n, <2>1, <2>2
<1>8. Len(Tail(P)) + 1 = n /\ Len(Tail(P)) = n - 1
  BY <1>2, <1>n
<1>9. Chain(Tail(P), c, f[2], j)
  BY <1>3, <1>6, <1>7, <1>8 DEF Chain
<1> QED
  BY <1>5, <1>9

LEMMA ChainAppend ==
  ASSUME NEW P \in Seq(Packets), NEW p \in Packets, NEW c, NEW i,
         NEW j \in Nat, NEW h \in Nat, Chain(P, c, i, j), Covers(p, c, j, h),
         j <= h
  PROVE  Chain(Append(P, p), c, i, h)
<1>1. PICK f \in [1 .. Len(P) + 1 -> 0 .. j] :
        /\ f[1] = i /\ f[Len(P) + 1] = j
        /\ \A k \in 1 .. Len(P) : Covers(P[k], c, f[k], f[k + 1])
  BY DEF Chain
<1>n. PICK n \in Nat : n = Len(P)
  OBVIOUS
<1>2. /\ Len(Append(P, p)) = n + 1 /\ Append(P, p)[n + 1] = p
      /\ \A k \in 1 .. n : Append(P, p)[k] = P[k]
  BY <1>n, AppendElements
<1> DEFINE g == [k \in 1 .. n + 2 |-> IF k <= n + 1 THEN f[k] ELSE h]
<1>3. g \in [1 .. n + 2 -> 0 .. h]
  BY <1>1, <1>n
<1>4. /\ \A k \in 1 .. n + 1 : g[k] = f[k]
      /\ g[n + 2] = h
  BY <1>n
<1> HIDE DEF g
<1>5. g[1] = i /\ g[n + 2] = h /\ g[n + 1] = j
  BY <1>1, <1>4, <1>n
<1>6. \A k \in 1 .. n + 1 : Covers(Append(P, p)[k], c, g[k], g[k + 1])
  <2> TAKE k \in 1 .. n + 1
  <2>1. CASE k = n + 1
    <3>1. (n + 1) + 1 = n + 2
      OBVIOUS
    <3> QED
      BY <1>2, <1>5, <2>1, <3>1
  <2>2. CASE k # n + 1
    <3>1. k \in 1 .. n /\ k \in 1 .. n + 1 /\ k + 1 \in 1 .. n + 1
      BY <2>2
    <3> QED
      BY <1>1, <1>2, <1>4, <1>n, <3>1
  <2> QED
    BY <2>1, <2>2
<1>7. Len(Append(P, p)) + 1 = n + 2 /\ Len(Append(P, p)) = n + 1
  BY <1>2
<1> QED
  BY <1>3, <1>5, <1>6, <1>7 DEF Chain

-----------------------------------------------------------------------------
(* What a channel has to send: the items of the time frames asked for,     *)
(* which are the first ones of its script.                                 *)
LEMMA ItemTyped ==
  ASSUME NEW c \in Sources
  PROVE  /\ Len(Script[c]) \in Nat /\ DOMAIN Script[c] = 1 .. Len(Script[c])
         /\ \A n \in 1 .. Len(Script[c]) :
              Script[c][n].kind \in Kinds /\ Script[c][n].tf \in Nat
<1>0. PICK Items : Items = [kind : Kinds, tf : Nat]
  OBVIOUS
<1>1. PICK s \in Seq(Items) : s = Script[c]
  <2>1. Script \in [Sources -> Seq([kind : Kinds, tf : Nat])]
    BY ListModeAssumption, Zenon
  <2> QED
    BY <1>0, <2>1
<1>2. \A n \in 1 .. Len(s) : s[n] \in Items
  OBVIOUS
<1>3. Len(s) \in Nat /\ DOMAIN s = 1 .. Len(s)
  OBVIOUS
<1>4. \A n \in 1 .. Len(s) : s[n].kind \in Kinds /\ s[n].tf \in Nat
  BY <1>0, <1>2
<1> QED
  BY <1>1, <1>3, <1>4

LEMMA InOrder ==
  ASSUME NEW c \in Sources, NEW j \in 1 .. Len(Script[c]), NEW i \in 1 .. j - 1
  PROVE  /\ Script[c][i].tf <= Script[c][j].tf
         /\ Script[c][i].kind = "end" /\ Script[c][j].kind = "event"
              => Script[c][i].tf < Script[c][j].tf
<1>1. j \in DOMAIN Script[c]
  BY ItemTyped
<1> QED
  BY <1>1, ScriptsInOrder

TotalIn(t, c) == Cardinality({n \in DOMAIN Script[c] : Script[c][n].tf < t})

LEMMA TotalIs ==
  ASSUME NEW c
  PROVE  Total(c) = TotalIn(frames, c) /\ Total(c)' = TotalIn(frames', c)
  BY DEF Total, TotalIn

LEMMA FirstItems ==
  ASSUME NEW c \in Sources, NEW t \in Nat
  PROVE  /\ TotalIn(t, c) \in 0 .. Len(Script[c])
         /\ \A n \in 1 .. TotalIn(t, c) : Script[c][n].tf < t
<1>l. PICK l \in Nat : l = Len(Script[c])
  BY ItemTyped
<1> DEFINE T == {n \in 1 .. l : Script[c][n].tf < t}
<1>1. TotalIn(t, c) = Cardinality(T)
  BY <1>l, ItemTyped DEF TotalIn
<1>2. /\ IsFiniteSet(1 .. l) /\ Cardinality(1 .. l) = l
      /\ \A k \in Nat : IsFiniteSet(1 .. k) /\ Cardinality(1 .. k) = k
  BY FS_Interval
<1>3. T \in SUBSET (1 .. l)
  OBVIOUS
<1>4. \A n \in 1 .. l, k \in 1 .. l : n \in T /\ k <= n => k \in T
  <2> SUFFICES ASSUME NEW n \in 1 .. l, NEW k \in 1 .. l, n \in T, k < n
               PROVE  k \in T
    OBVIOUS
  <2>1. k \in 1 .. n - 1
    OBVIOUS
  <2>2. Script[c][k].tf <= Script[c][n].tf
    BY <1>l, <2>1, InOrder
  <2>3. Script[c][k].tf \in Nat /\ Script[c][n].tf \in Nat
    BY <1>l, ItemTyped
  <2> QED
    BY <2>2, <2>3
<1> HIDE DEF T
<1>5. IsFiniteSet(T) /\ Cardinality(T) <= l
  BY <1>2, <1>3, FS_Subset
<1>6. Cardinality(T) \in Nat
  BY <1>5, FS_CardinalityType
<1>7. ASSUME NEW n \in 1 .. Cardinality(T), n \notin T PROVE FALSE
  <2>1. n \in 1 .. l /\ n - 1 \in Nat
    BY <1>5, <1>6
  <2>2. T \in SUBSET (1 .. n - 1)
    <3> SUFFICES ASSUME NEW k \in T PROVE k \in 1 .. n - 1
      OBVIOUS
    <3>1. k \in 1 .. l /\ ~(n <= k)
      BY <1>3, <1>4, <1>7, <2>1
    <3> QED
      BY <2>1, <3>1
  <2>3. IsFiniteSet(1 .. n - 1) /\ Cardinality(1 .. n - 1) = n - 1
    BY <1>2, <2>1
  <2>4. Cardinality(T) <= n - 1
    BY <2>2, <2>3, FS_Subset
  <2> QED
    BY <1>6, <2>4
<1>8. \A n \in 1 .. Cardinality(T) : Script[c][n].tf < t
  BY <1>7 DEF T
<1> QED
  BY <1>1, <1>5, <1>6, <1>8, <1>l

-----------------------------------------------------------------------------
(* The rows of acquisition a, of t time frames, among k items of c.        *)
Marks == [acq : Nat, n : Nat]
WantedIn(t, c, n) == Script[c][n].kind = "event" /\ Script[c][n].tf < t
Piece(a, t, c, n) == IF WantedIn(t, c, n) THEN <<[acq |-> a, n |-> n]>> ELSE <<>>
Pieced(a, t, c, k) == [n \in 1 .. k |-> Piece(a, t, c, n)]
EventsIn(a, t, c, k) == FlattenSeq(Pieced(a, t, c, k))

LEMMA EventsAre ==
  ASSUME NEW c, NEW k
  PROVE  /\ Events(c, k) = EventsIn(acq, frames, c, k)
         /\ Events(c, k)' = EventsIn(acq', frames', c, k)
  BY DEF Events, EventsIn, Pieced, Piece, Wanted, WantedIn

LEMMA PieceTyped ==
  ASSUME NEW a \in Nat, NEW t, NEW c, NEW n \in Nat
  PROVE  Piece(a, t, c, n) \in Seq(Marks)
<1>1. [acq |-> a, n |-> n] \in Marks
  BY DEF Marks
<1>2. <<[acq |-> a, n |-> n]>> \in Seq(Marks) /\ <<>> \in Seq(Marks)
  BY <1>1
<1> QED
  BY <1>2 DEF Piece

LEMMA PiecedTyped ==
  ASSUME NEW a \in Nat, NEW t, NEW c, NEW k \in Nat
  PROVE  Pieced(a, t, c, k) \in Seq(Seq(Marks)) /\ Len(Pieced(a, t, c, k)) = k
<1>1. \A n \in 1 .. k : Piece(a, t, c, n) \in Seq(Marks)
  BY PieceTyped
<1>2. Pieced(a, t, c, k) \in [1 .. k -> Seq(Marks)]
  BY <1>1 DEF Pieced
<1> QED
  BY <1>2, FunctionIsSeq

LEMMA EventsTyped ==
  ASSUME NEW a \in Nat, NEW t, NEW c, NEW k \in Nat
  PROVE  EventsIn(a, t, c, k) \in Seq(Marks)
<1>1. Pieced(a, t, c, k) \in Seq(Seq(Marks))
  BY PiecedTyped
<1> QED
  BY <1>1, FlattenTyped DEF EventsIn

LEMMA EventsNone ==
  ASSUME NEW a, NEW t, NEW c
  PROVE  EventsIn(a, t, c, 0) = <<>>
<1>1. Pieced(a, t, c, 0) = <<>>
  BY DEF Pieced
<1> QED
  BY <1>1, FlattenEmpty DEF EventsIn

LEMMA EventsMore ==
  ASSUME NEW a \in Nat, NEW t, NEW c, NEW k \in Nat
  PROVE  EventsIn(a, t, c, k + 1) = EventsIn(a, t, c, k) \o Piece(a, t, c, k + 1)
<1> DEFINE s == Pieced(a, t, c, k)
           r == Pieced(a, t, c, k + 1)
           e == Piece(a, t, c, k + 1)
<1>1. s \in Seq(Seq(Marks)) /\ Len(s) = k /\ e \in Seq(Marks)
  BY PiecedTyped, PieceTyped
<1>2. r \in Seq(Seq(Marks)) /\ Len(r) = k + 1
  <2>1. k + 1 \in Nat
    OBVIOUS
  <2> QED
    BY <2>1, PiecedTyped
<1>3. r[k + 1] = e /\ \A n \in 1 .. k : r[n] = s[n]
  BY DEF Pieced
<1> HIDE DEF s, r, e
<1>4. r = Append(s, e)
  <2>1. /\ Append(s, e) \in Seq(Seq(Marks)) /\ Len(Append(s, e)) = k + 1
        /\ Append(s, e)[k + 1] = e
        /\ \A n \in 1 .. k : Append(s, e)[n] = s[n]
    BY <1>1, AppendElements
  <2>2. \A n \in 1 .. k + 1 : n \in 1 .. k \/ n = k + 1
    OBVIOUS
  <2>3. \A n \in 1 .. k + 1 : r[n] = Append(s, e)[n]
    BY <1>3, <2>1, <2>2
  <2> QED
    BY <1>2, <2>1, <2>3, SeqEqual
<1>5. FlattenSeq(r) = FlattenSeq(s) \o e
  BY <1>1, <1>4, FlattenAppend
<1> QED
  BY <1>5 DEF EventsIn, s, r, e

(* An event that is wanted is one row more; another item is none.          *)
LEMMA EventsNext ==
  ASSUME NEW a \in Nat, NEW t, NEW c, NEW k \in Nat
  PROVE  EventsIn(a, t, c, k + 1)
           = IF WantedIn(t, c, k + 1)
               THEN Append(EventsIn(a, t, c, k), [acq |-> a, n |-> k + 1])
               ELSE EventsIn(a, t, c, k)
<1> DEFINE s == EventsIn(a, t, c, k)
           e == [acq |-> a, n |-> k + 1]
<1>1. s \in Seq(Marks)
  BY EventsTyped
<1>2. EventsIn(a, t, c, k + 1) = s \o Piece(a, t, c, k + 1)
  BY EventsMore
<1>3. Piece(a, t, c, k + 1) = IF WantedIn(t, c, k + 1) THEN <<e>> ELSE <<>>
  BY DEF Piece
<1>4. e \in Marks
  BY DEF Marks
<1> HIDE DEF s, e
<1>5. s \o <<>> = s /\ Append(s, e) = s \o <<e>>
  BY <1>1, <1>4, ConcatEmptySeq, AppendIsConcat
<1>6. EventsIn(a, t, c, k + 1) = IF WantedIn(t, c, k + 1) THEN Append(s, e) ELSE s
  BY <1>2, <1>3, <1>5
<1> QED
  BY <1>6 DEF s, e

(* Those among fewer items come first.                                     *)
Begins(s, u) == \E r \in Seq(Marks) : u = s \o r

LEMMA EventsPrefix ==
  ASSUME NEW a \in Nat, NEW t, NEW c, NEW k \in Nat, NEW j \in Nat
  PROVE  Begins(EventsIn(a, t, c, k), EventsIn(a, t, c, k + j))
<1> DEFINE s == EventsIn(a, t, c, k)
           T == {i \in Nat : \E r \in Seq(Marks) : EventsIn(a, t, c, k + i) = s \o r}
<1>0. s \in Seq(Marks)
  BY EventsTyped
<1>1. 0 \in T
  <2>1. s \o <<>> = s /\ <<>> \in Seq(Marks) /\ k + 0 = k
    BY <1>0, ConcatEmptySeq
  <2> QED
    BY <2>1
<1>2. ASSUME NEW i \in T PROVE i + 1 \in T
  <2>1. PICK q \in Nat : i \in Nat /\ q = k + i /\ k + (i + 1) = q + 1
    OBVIOUS
  <2>2. PICK r \in Seq(Marks) : EventsIn(a, t, c, q) = s \o r
    BY <2>1
  <2>e. PICK e \in Seq(Marks) : e = Piece(a, t, c, q + 1)
    <3>1. q + 1 \in Nat
      OBVIOUS
    <3>2. Piece(a, t, c, q + 1) \in Seq(Marks)
      BY <3>1, PieceTyped
    <3> QED
      BY <3>2
  <2> HIDE DEF s
  <2>3. EventsIn(a, t, c, k + (i + 1)) = (s \o r) \o e
    <3>1. EventsIn(a, t, c, q + 1) = EventsIn(a, t, c, q) \o Piece(a, t, c, q + 1)
      BY EventsMore
    <3> QED
      BY <2>1, <2>2, <2>e, <3>1
  <2>4. r \o e \in Seq(Marks)
    BY ConcatProperties
  <2>5. EventsIn(a, t, c, k + (i + 1)) = s \o (r \o e)
    <3>1. (s \o r) \o e = s \o (r \o e)
      BY <1>0, ConcatAssociative
    <3> QED
      BY <2>3, <3>1
  <2>6. \E u \in Seq(Marks) : EventsIn(a, t, c, k + (i + 1)) = s \o u
    BY <2>4, <2>5
  <2>7. i + 1 \in Nat
    BY <2>1
  <2> QED
    BY <2>6, <2>7, Zenon
<1>3. T = Nat
  <2>1. T \in SUBSET Nat
    OBVIOUS
  <2> HIDE DEF T
  <2> QED
    BY <1>1, <1>2, <2>1, Induction
<1> QED
  BY <1>3 DEF Begins

LEMMA EventsInOrder ==
  ASSUME NEW a \in Nat, NEW t, NEW c, NEW k \in Nat, NEW l \in Nat, k <= l
  PROVE  IsPrefix(EventsIn(a, t, c, k), EventsIn(a, t, c, l))
<1> DEFINE s == EventsIn(a, t, c, k)
<1>0. s \in Seq(Marks)
  BY EventsTyped
<1>1. PICK j \in Nat : k + j = l
  <2>1. l - k \in Nat /\ k + (l - k) = l
    OBVIOUS
  <2> QED
    BY <2>1
<1>2. PICK r \in Seq(Marks) : EventsIn(a, t, c, k + j) = s \o r
  <2>1. Begins(s, EventsIn(a, t, c, k + j))
    BY EventsPrefix
  <2> QED
    BY <2>1 DEF Begins
<1> HIDE DEF s
<1>3. /\ s \o r \in Seq(Marks) /\ Len(s \o r) = Len(s) + Len(r)
      /\ Len(s) \in Nat /\ Len(r) \in Nat
      /\ \A i \in 1 .. Len(s) : (s \o r)[i] = s[i]
  BY <1>0, ConcatElements
<1>4. SubSeq(s \o r, 1, Len(s)) = s /\ SubSeq(s, 1, Len(s)) = s
  <2>1. SubSeq(s, 1, Len(s)) = s
    BY <1>0, SubSeqFull
  <2>2. CASE Len(s) = 0
    <3>1. SubSeq(s \o r, 1, 0) = <<>> /\ s = <<>>
      BY <1>0, <1>3, <2>2
    <3> QED
      BY <2>1, <2>2, <3>1
  <2>3. CASE Len(s) # 0
    <3>1. 1 \in 1 .. Len(s) /\ Len(s) \in 1 .. Len(s)
      BY <1>3, <2>3
    <3> QED
      BY <1>0, <2>1, <3>1, SubSeqOfConcat1
  <2> QED
    BY <2>2, <2>3
<1>5. IsPrefix(s, s \o r)
  BY <1>3, <1>4 DEF IsPrefix
<1> QED
  BY <1>1, <1>2, <1>5 DEF s

(* Items that are not wanted add none.                                     *)
LEMMA EventsEnd ==
  ASSUME NEW a \in Nat, NEW t, NEW c, NEW k \in Nat, NEW l \in Nat, k <= l,
         \A n \in k + 1 .. l : ~WantedIn(t, c, n)
  PROVE  EventsIn(a, t, c, l) = EventsIn(a, t, c, k)
<1> DEFINE s == EventsIn(a, t, c, k)
           T == {i \in Nat : k + i <= l => EventsIn(a, t, c, k + i) = s}
<1>1. 0 \in T
  <2>1. k + 0 = k
    OBVIOUS
  <2> QED
    BY <2>1
<1>2. ASSUME NEW i \in T PROVE i + 1 \in T
  <2>1. PICK q \in Nat : i \in Nat /\ q = k + i /\ k + (i + 1) = q + 1
    OBVIOUS
  <2> SUFFICES ASSUME k + (i + 1) <= l PROVE EventsIn(a, t, c, k + (i + 1)) = s
    BY <2>1
  <2>2. q <= l /\ q + 1 \in k + 1 .. l
    BY <2>1
  <2>3. EventsIn(a, t, c, q) = s
    BY <2>1, <2>2
  <2>4. EventsIn(a, t, c, q + 1) = EventsIn(a, t, c, q)
    <3>1. ~WantedIn(t, c, q + 1)
      BY <2>2
    <3>2. EventsIn(a, t, c, q + 1)
            = IF WantedIn(t, c, q + 1)
                THEN Append(EventsIn(a, t, c, q), [acq |-> a, n |-> q + 1])
                ELSE EventsIn(a, t, c, q)
      BY EventsNext
    <3> QED
      BY <3>1, <3>2
  <2> QED
    BY <2>1, <2>3, <2>4
<1>3. T = Nat
  <2>1. T \in SUBSET Nat
    OBVIOUS
  <2> HIDE DEF T
  <2> QED
    BY <1>1, <1>2, <2>1, Induction
<1>4. PICK j \in Nat : k + j = l
  <2>1. l - k \in Nat /\ k + (l - k) = l
    OBVIOUS
  <2> QED
    BY <2>1
<1>5. j \in T
  BY <1>3
<1> QED
  BY <1>4, <1>5

-----------------------------------------------------------------------------
(***************************************************************************)
(* The rows of a dataset.  A row that is added comes last, whether or not  *)
(* its frame is pushed; a push leaves the rows what they are.              *)
(***************************************************************************)
RowLists(frs) == [i \in DOMAIN frs |-> frs[i].rows]

LEMMA RowsOfIs == \A frs : RowsOf(frs) = FlattenSeq(RowLists(frs))
  BY DEF RowsOf, RowLists

LEMMA RowListsTyped ==
  ASSUME NEW frs \in Seq(Frames)
  PROVE  /\ RowLists(frs) \in Seq(Seq(Rows)) /\ Len(RowLists(frs)) = Len(frs)
         /\ \A i \in 1 .. Len(frs) : RowLists(frs)[i] = frs[i].rows
<1>1. DOMAIN frs = 1 .. Len(frs) /\ Len(frs) \in Nat
  OBVIOUS
<1>2. \A i \in 1 .. Len(frs) : frs[i].rows \in Seq(Rows)
  <2>1. \A i \in 1 .. Len(frs) : frs[i] \in Frames
    OBVIOUS
  <2> QED
    BY <2>1 DEF Frames
<1>3. RowLists(frs) \in [1 .. Len(frs) -> Seq(Rows)]
  BY <1>1, <1>2 DEF RowLists
<1> QED
  BY <1>1, <1>3, FunctionIsSeq DEF RowLists

LEMMA RowsOfTyped ==
  ASSUME NEW frs \in Seq(Frames)
  PROVE  RowsOf(frs) \in Seq(Rows)
<1>1. RowLists(frs) \in Seq(Seq(Rows))
  BY RowListsTyped
<1> QED
  BY <1>1, FlattenTyped, RowsOfIs

LEMMA RowsOfAppend ==
  ASSUME NEW frs \in Seq(Frames), NEW f \in Frames
  PROVE  RowsOf(Append(frs, f)) = RowsOf(frs) \o f.rows
<1> DEFINE g == Append(frs, f)
<1>1. /\ g \in Seq(Frames) /\ Len(g) = Len(frs) + 1 /\ g[Len(frs) + 1] = f
      /\ Len(frs) \in Nat /\ \A i \in 1 .. Len(frs) : g[i] = frs[i]
  BY AppendElements
<1> HIDE DEF g
<1>2. f.rows \in Seq(Rows)
  BY DEF Frames
<1>3. /\ RowLists(frs) \in Seq(Seq(Rows)) /\ Len(RowLists(frs)) = Len(frs)
      /\ \A i \in 1 .. Len(frs) : RowLists(frs)[i] = frs[i].rows
  BY RowListsTyped
<1>4. /\ RowLists(g) \in Seq(Seq(Rows)) /\ Len(RowLists(g)) = Len(g)
      /\ \A i \in 1 .. Len(g) : RowLists(g)[i] = g[i].rows
  BY <1>1, RowListsTyped
<1>s. PICK s \in Seq(Seq(Rows)) : s = RowLists(frs)
  BY <1>3
<1>r. PICK r \in Seq(Seq(Rows)) : r = RowLists(g)
  BY <1>4
<1>n. PICK n \in Nat : n = Len(frs)
  BY <1>1
<1>5. /\ Append(s, f.rows) \in Seq(Seq(Rows)) /\ Len(Append(s, f.rows)) = n + 1
      /\ Append(s, f.rows)[n + 1] = f.rows
      /\ \A i \in 1 .. n : Append(s, f.rows)[i] = s[i]
  BY <1>2, <1>3, <1>s, <1>n, AppendElements
<1>6. Len(r) = n + 1 /\ \A i \in 1 .. n + 1 : r[i] = Append(s, f.rows)[i]
  <2>1. Len(r) = n + 1
    BY <1>1, <1>4, <1>n, <1>r
  <2>2. ASSUME NEW i \in 1 .. n + 1 PROVE r[i] = Append(s, f.rows)[i]
    <3>1. r[i] = g[i].rows
      BY <1>1, <1>4, <1>n, <1>r
    <3>2. CASE i = n + 1
      BY <1>1, <1>5, <1>n, <3>1, <3>2
    <3>3. CASE i # n + 1
      <4>1. i \in 1 .. n
        BY <3>3
      <4> QED
        BY <1>1, <1>3, <1>5, <1>n, <1>s, <3>1, <4>1
    <3> QED
      BY <3>2, <3>3
  <2> QED
    BY <2>1, <2>2
<1>7. r = Append(s, f.rows)
  BY <1>5, <1>6, SeqEqual
<1>8. FlattenSeq(r) = FlattenSeq(s) \o f.rows
  BY <1>2, <1>7, FlattenAppend
<1> QED
  BY <1>8, <1>r, <1>s, RowsOfIs DEF g

(* The rows that are in the values of a dataset.                           *)
Valued == [log : Seq(Frames), block : Seq(Rows), count : Nat]
StoredIn(v) == RowsOf(v.log) \o v.block

LEMMA StoredIs ==
  ASSUME NEW d, NEW c
  PROVE  /\ Stored(d, c) = StoredIn(Values(d, c))
         /\ Stored(d, c)' = StoredIn(Values(d, c)')
  BY DEF Stored, StoredIn, Values, RowsOf

LEMMA ValuesTyped ==
  ASSUME MemoryOK, NEW d \in Fields, NEW c \in Channels
  PROVE  Values(d, c) \in Valued
  BY DEF MemoryOK, Values, Valued

LEMMA StoredTyped ==
  ASSUME NEW v \in Valued
  PROVE  StoredIn(v) \in Seq(Rows)
<1>1. v.log \in Seq(Frames) /\ v.block \in Seq(Rows)
  BY DEF Valued
<1> QED
  BY <1>1, RowsOfTyped, ConcatProperties DEF StoredIn

LEMMA StoredPushed ==
  ASSUME size \in Nat, NEW v \in Valued, NEW rows \in Seq(Rows)
  PROVE  StoredIn(PushedWith(v, rows)) = RowsOf(v.log) \o rows
<1>f. PICK f : f = [id |-> v.count, size |-> size, rows |-> rows]
  OBVIOUS
<1>1. v.log \in Seq(Frames) /\ v.count \in Nat
  BY DEF Valued
<1>2. f \in Frames /\ f.rows = rows
  BY <1>1, <1>f DEF Frames
<1>3. /\ PushedWith(v, rows).log = Append(v.log, f)
      /\ PushedWith(v, rows).block = <<>>
  BY <1>f DEF PushedWith
<1>4. RowsOf(v.log) \in Seq(Rows)
  BY <1>1, RowsOfTyped
<1>5. RowsOf(Append(v.log, f)) = RowsOf(v.log) \o rows
  BY <1>1, <1>2, RowsOfAppend
<1>6. (RowsOf(v.log) \o rows) \o <<>> = RowsOf(v.log) \o rows
  BY <1>4, ConcatProperties, ConcatEmptySeq
<1> QED
  BY <1>3, <1>5, <1>6 DEF StoredIn

LEMMA StoredFlushed ==
  ASSUME size \in Nat, NEW v \in Valued
  PROVE  StoredIn(Pushed(v)) = StoredIn(v)
<1>1. v.block \in Seq(Rows)
  BY DEF Valued
<1> QED
  BY <1>1, StoredPushed DEF Pushed, StoredIn

LEMMA StoredAdded ==
  ASSUME size \in Nat, NEW v \in Valued, NEW row \in Rows
  PROVE  StoredIn(Added(v, row)) = Append(StoredIn(v), row)
<1>1. v.block \in Seq(Rows) /\ v.log \in Seq(Frames)
  BY DEF Valued
<1>b. PICK b \in Seq(Rows) : b = v.block
  BY <1>1
<1>r. PICK rows \in Seq(Rows) : rows = Append(b, row)
  BY AppendElements
<1>2. RowsOf(v.log) \in Seq(Rows)
  BY <1>1, RowsOfTyped
<1>3. RowsOf(v.log) \o rows = Append(StoredIn(v), row)
  <2>1. RowsOf(v.log) \o Append(b, row) = Append(RowsOf(v.log) \o b, row)
    BY <1>2, AppendConcat
  <2> QED
    BY <1>b, <1>r, <2>1 DEF StoredIn
<1>4. CASE Len(rows) = size
  <2>1. Added(v, row) = PushedWith(v, rows)
    BY <1>4, <1>b, <1>r DEF Added
  <2> QED
    BY <1>3, <2>1, StoredPushed
<1>5. CASE Len(rows) # size
  <2>1. Added(v, row) = [v EXCEPT !.block = rows]
    BY <1>5, <1>b, <1>r DEF Added
  <2>2. Added(v, row).log = v.log /\ Added(v, row).block = rows
    BY <2>1 DEF Valued
  <2> QED
    BY <1>3, <2>2 DEF StoredIn
<1> QED
  BY <1>4, <1>5

(* Steps of the memory, and the rows of every dataset.                     *)
LEMMA AddRowStores ==
  ASSUME MemoryOK, StateOK, NEW d \in Fields, NEW c \in Channels,
         NEW row \in Rows, AddRow(d, c, row), NEW e \in Fields, NEW b \in Channels
  PROVE  Stored(e, b)' = IF e = d /\ b = c THEN Append(Stored(e, b), row)
                         ELSE Stored(e, b)
<1>1. Values(e, b)' = IF e = d /\ b = c THEN Added(Values(e, b), row)
                      ELSE Values(e, b)
  BY AddRowEffect
<1>2. StoredIn(Added(Values(e, b), row)) = Append(StoredIn(Values(e, b)), row)
  <2>1. size \in Nat /\ Values(e, b) \in Valued
    BY ValuesTyped DEF StateOK
  <2> QED
    BY <2>1, StoredAdded
<1> QED
  BY <1>1, <1>2, StoredIs

LEMMA FlushStores ==
  ASSUME MemoryOK, StateOK, NEW d \in Fields, FlushDataset(d),
         NEW e \in Fields, NEW c \in Channels
  PROVE  Stored(e, c)' = Stored(e, c)
<1>1. Values(e, c)' = IF e = d THEN Pushed(Values(e, c)) ELSE Values(e, c)
  BY FlushEffect
<1>2. StoredIn(Pushed(Values(e, c))) = StoredIn(Values(e, c))
  <2>1. size \in Nat /\ Values(e, c) \in Valued
    BY ValuesTyped DEF StateOK
  <2> QED
    BY <2>1, StoredFlushed
<1> QED
  BY <1>1, <1>2, StoredIs

-----------------------------------------------------------------------------
(***************************************************************************)
(* What is on its way is of the acquisition that runs, when one begins     *)
(* only with nothing on its way; and the card sends no more than it has.   *)
(***************************************************************************)
Fresh(P) == \A k \in 1 .. Len(P) : P[k].acq = acq /\ P[k].len > 0

PathInv ==
  /\ Fresh(Path)
  /\ worker.busy => Packet.acq = acq /\ worker.pos < Packet.len
  /\ \A c \in Sources : sent[c] <= Total(c)

LEMMA TotalTyped ==
  ASSUME StateOK, NEW c \in Sources
  PROVE  Total(c) \in 0 .. Len(Script[c]) /\ Total(c) \in Nat
<1>1. TotalIn(frames, c) \in 0 .. Len(Script[c]) /\ Len(Script[c]) \in Nat
  BY FirstItems, ItemTyped DEF StateOK
<1> QED
  BY <1>1, TotalIs

(* The worker inside its packet.                                           *)
LEMMA PlaceNext ==
  ASSUME TypeInv, RingInv, PathInv, AddField \/ SkipDummy \/ EndMark, worker.busy'
  PROVE  worker'.pos < Packet.len
<1>0. DecoderOK /\ ThreadsOK
  BY DEF SeenOK, TypeInv
<1>1. worker.busy /\ ~Done
  BY WorkKeeps DEF Done, Idle
<1>2. worker.pos \in Nat /\ worker.pos < Packet.len /\ Packet.len \in Nat
  <2>1. Packet \in Packets
    BY <1>0 DEF Packet, DecoderOK, ThreadsOK, Workers
  <2> QED
    BY <1>0, <1>1, <2>1 DEF PathInv, ThreadsOK, Workers, Packets, NoPacket
<1>3. CASE NextItem
  <2>1. /\ worker.pos + 1 # Packet.len
        /\ worker' = [worker EXCEPT !.pos = @ + 1, !.field = 1]
    BY <1>1, <1>3 DEF NextItem
  <2>2. worker'.pos = worker.pos + 1
    BY <1>0, <2>1 DEF ThreadsOK, Workers
  <2> QED
    BY <1>2, <2>1, <2>2
<1>4. CASE ~NextItem
  <2>1. worker' = [worker EXCEPT !.field = @ + 1]
    BY <1>1, <1>4 DEF AddField, SkipDummy, EndMark
  <2>2. worker'.pos = worker.pos
    BY <1>0, <2>1 DEF ThreadsOK, Workers
  <2> QED
    BY <1>2, <2>2
<1> QED
  BY <1>3, <1>4

LEMMA PathStep ==
  ASSUME Drained, TypeInv, RingInv, PathInv, [Steps]_seen
  PROVE  PathInv'
<1>0. DecoderOK /\ ThreadsOK /\ StateOK /\ CardOK
  BY DEF SeenOK, TypeInv
<1>p. Path \in Seq(Packets) /\ Len(Path) = Len(ready) + Len(wire)
  BY <1>0, PathTyped
<1>1. ASSUME UNCHANGED <<acq, frames>>
      PROVE  /\ \A P : Fresh(P)' <=> Fresh(P)
             /\ \A c \in Sources : Total(c)' = Total(c)
  BY <1>1 DEF Fresh, Total
<1>2. ASSUME UNCHANGED <<acq, frames, sent, Path>>
      PROVE  Fresh(Path)' /\ \A c \in Sources : sent'[c] <= Total(c)'
  BY <1>2 DEF PathInv, Fresh, Total
<1>3. ASSUME NEW n \in Counts, StartAcquisition(n) PROVE PathInv'
  <2>1. /\ wire = <<>> /\ ready = <<>> /\ ~worker.busy
        /\ UNCHANGED <<Path, worker>>
        /\ sent' = [c \in Sources |-> 0] /\ frames' = n
    BY <1>3, OthersKeep DEF StartAcquisition, ControlReady
  <2>2. Len(Path') = 0
    BY <1>p, <2>1
  <2>3. \A c \in Sources : sent'[c] <= Total(c)'
    <3> TAKE c \in Sources
    <3>1. n \in Nat
      BY ConstantTypes
    <3>2. TotalIn(n, c) \in 0 .. Len(Script[c]) /\ Len(Script[c]) \in Nat
      BY <3>1, FirstItems, ItemTyped
    <3>3. Total(c)' = TotalIn(n, c) /\ sent'[c] = 0
      BY <2>1, TotalIs
    <3> QED
      BY <3>2, <3>3
  <2>4. Fresh(Path)'
    BY <2>2 DEF Fresh
  <2> QED
    BY <2>1, <2>3, <2>4 DEF PathInv
<1>4. CASE \/ \E s \in Sizes : SetFrameSize(s)
           \/ Flush \/ StopCard \/ ResetStatistics
           \/ \E t \in Threads : CloseStep(t)
           \/ UNCHANGED seen
  <2>1. UNCHANGED <<Path, worker, buffers>>
    BY <1>4, OthersKeep
  <2>2. UNCHANGED <<acq, frames, sent>>
    BY <1>4 DEF SetFrameSize, Flush, StopCard, ResetStatistics, CloseStep, seen,
                card, state
  <2> QED
    BY <1>2, <2>1, <2>2 DEF PathInv, Packet
<1>5. CASE Reads
  <2>1. /\ UNCHANGED <<Path, worker>>
        /\ worker.busy => buffers'[worker.buf] = buffers[worker.buf]
    BY <1>5, ReadsKeep
  <2>2. UNCHANGED <<acq, frames, sent>>
    BY <1>5 DEF Reads, ReadPart, ReadWhole, ReadRest, Completed, card, state
  <2> QED
    BY <1>2, <2>1, <2>2 DEF PathInv, Packet
<1>6. ASSUME NEW b \in Sources, Send(b) PROVE PathInv'
  <2>1. UNCHANGED <<worker, buffers, acq, frames>>
    BY <1>6, SendAdds DEF Send, state
  <2>2. PICK p \in Packets, n \in 1 .. PacketSize :
          /\ p = [acq |-> acq, ch |-> b, from |-> sent[b] + 1, len |-> n]
          /\ Path' = Append(Path, p)
          /\ sent[b] + n <= Total(b)
          /\ sent' = [sent EXCEPT ![b] = @ + n]
    BY <1>6, SendAdds
  <2>3. Fresh(Append(Path, p))
    <3>1. /\ Len(Append(Path, p)) = Len(Path) + 1 /\ Len(Path) \in Nat
          /\ Append(Path, p)[Len(Path) + 1] = p
          /\ \A k \in 1 .. Len(Path) : Append(Path, p)[k] = Path[k]
      BY <1>p, AppendElements
    <3>2. p.acq = acq /\ p.len > 0
      BY <2>2, ConstantTypes
    <3>3. ASSUME NEW k \in 1 .. Len(Path) + 1
          PROVE  Append(Path, p)[k].acq = acq /\ Append(Path, p)[k].len > 0
      <4>1. k \in 1 .. Len(Path) \/ k = Len(Path) + 1
        BY <3>1
      <4> QED
        BY <3>1, <3>2, <4>1 DEF PathInv, Fresh
    <3> QED
      BY <3>1, <3>3 DEF Fresh
  <2>4. \A c \in Sources : sent'[c] <= Total(c)'
    <3> TAKE c \in Sources
    <3>1. Total(c)' = Total(c)
      BY <1>1, <2>1
    <3> QED
      BY <1>0, <2>2, <3>1 DEF PathInv, CardOK
  <2> QED
    BY <1>1, <2>1, <2>2, <2>3, <2>4 DEF PathInv, Packet
<1>7. CASE Take
  <2>1. UNCHANGED <<acq, frames, sent>>
    BY <1>7 DEF Take, card, state
  <2>2. /\ Path # <<>> /\ Path' = Tail(Path) /\ ~worker.busy
        /\ worker'.busy => Packet' = Head(Path) /\ worker'.pos = 0
    BY <1>7, TakeMoves
  <2>3. /\ Len(Tail(Path)) = Len(Path) - 1 /\ Head(Path) = Path[1]
        /\ Len(Path) \in Nat \ {0}
        /\ \A k \in 1 .. Len(Path) - 1 : Tail(Path)[k] = Path[k + 1]
    BY <1>p, <2>2
  <2>4. Fresh(Tail(Path))
    <3>1. ASSUME NEW k \in 1 .. Len(Path) - 1
          PROVE  Tail(Path)[k].acq = acq /\ Tail(Path)[k].len > 0
      <4>1. k + 1 \in 1 .. Len(Path)
        BY <2>3
      <4> QED
        BY <2>3, <4>1 DEF PathInv, Fresh
    <3> QED
      BY <2>3, <3>1 DEF Fresh
  <2>5. Head(Path).acq = acq /\ 0 < Head(Path).len
    <3>1. 1 \in 1 .. Len(Path)
      BY <2>3
    <3>2. Path[1].len > 0 /\ Path[1].acq = acq
      BY <3>1 DEF PathInv, Fresh
    <3>3. Path[1].len \in Nat
      <4>1. Path[1] \in Packets
        BY <1>p, <3>1
      <4> QED
        BY <4>1 DEF Packets, NoPacket
    <3> QED
      BY <2>3, <3>2, <3>3
  <2> QED
    BY <1>1, <2>1, <2>2, <2>4, <2>5 DEF PathInv
<1>8. CASE AddField \/ SkipDummy \/ EndMark
  <2>1. UNCHANGED <<acq, frames, sent>>
    BY <1>8 DEF AddField, SkipDummy, EndMark, card, state
  <2>2. Path' = Path /\ worker.busy /\ (worker'.busy => Packet' = Packet)
    BY <1>8, WorkKeeps
  <2>3. worker'.busy => worker'.pos < Packet.len
    BY <1>8, PlaceNext
  <2> QED
    BY <1>2, <2>1, <2>2, <2>3 DEF PathInv
<1> QED
  BY <1>3, <1>4, <1>5, <1>6, <1>7, <1>8 DEF Steps, Client, Work

LEMMA PathInit == Init => PathInv
<1> SUFFICES ASSUME Init PROVE PathInv
  OBVIOUS
<1>1. wire = <<>> /\ ready = <<>> /\ ~worker.busy
  BY DEF Init, Idle
<1>2. Len(Path) = 0
  <2>1. Path = [k \in 1 .. 0 |-> IF k <= 0 THEN buffers[ready[k]] ELSE wire[k - 0]]
    BY <1>1 DEF Path, PathOf
  <2> QED
    BY <2>1
<1>3. \A c \in Sources : sent[c] <= Total(c)
  <2> TAKE c \in Sources
  <2>1. TotalIn(0, c) \in 0 .. Len(Script[c]) /\ Len(Script[c]) \in Nat
    BY FirstItems, ItemTyped
  <2>2. Total(c) = TotalIn(0, c) /\ sent[c] = 0
    BY TotalIs DEF Init
  <2> QED
    BY <2>1, <2>2
<1> QED
  BY <1>1, <1>2, <1>3 DEF PathInv, Fresh

-----------------------------------------------------------------------------
(***************************************************************************)
(* The end of an acquisition.  Without a flush it takes the last end mark  *)
(* of every channel; a dataset that a close has passed has no rows left.   *)
(***************************************************************************)
EndInv ==
  /\ (closing["worker"] > 0 \/ complete) /\ ~flushed => \A c \in Channels : ended[c]
  /\ closing["control"] > 0 => flushed

EmptyInv == \A d \in Fields, c \in Channels : Passed(d) => block[d][c] = <<>>

LEMMA EndInit == Init => EndInv /\ EmptyInv
  BY DEF Init, EndInv, EmptyInv, Everywhere, Threads

LEMMA EndStep ==
  ASSUME Racing = FALSE, TypeInv, CloseInv, EndInv, [Steps]_seen
  PROVE  EndInv'
<1>0. ThreadsOK /\ StateOK
  BY DEF SeenOK, TypeInv
<1>1. ASSUME NEW n \in Counts, StartAcquisition(n) PROVE EndInv'
  <2>1. closing' = closing /\ NotClosing /\ complete' = FALSE
    BY <1>1 DEF StartAcquisition, ControlReady, threads
  <2> QED
    BY <2>1 DEF EndInv, NotClosing, Threads
<1>2. CASE Flush
  BY <1>2 DEF Flush, EndInv
<1>3. CASE AddField \/ SkipDummy \/ EndMark
  <2>1. worker.busy /\ NotClosing /\ ~complete /\ UNCHANGED <<complete, flushed>>
    BY <1>3 DEF AddField, SkipDummy, EndMark, Working, CloseInv, state, history
  <2>2. CASE closing' = closing
    BY <2>1, <2>2 DEF EndInv, NotClosing, Threads
  <2>3. CASE closing' # closing
    <3>1. closing' = [closing EXCEPT !["worker"] = 1] /\ AllEnded(ended')
      BY <1>3, <2>3 DEF AddField, SkipDummy, EndMark
    <3>2. closing'["control"] = 0
      BY <1>0, <2>1, <3>1 DEF ThreadsOK, NotClosing, Threads
    <3> QED
      BY <3>1, <3>2 DEF EndInv, AllEnded
  <2> QED
    BY <2>2, <2>3
<1>4. ASSUME NEW t \in Threads, CloseStep(t) PROVE EndInv'
  <2>1. /\ closing[t] \in Nat /\ closing[t] > 0 /\ UNCHANGED <<ended, flushed>>
        /\ \A u \in Threads : u # t => closing[u] = 0
        /\ t \in {"worker", "control"}
    BY <1>0, <1>4, OneCloses DEF CloseStep, ThreadsOK, Threads
  <2>2. flushed \/ \A c \in Channels : ended[c]
    BY <2>1 DEF EndInv
  <2>3. closing'["control"] > 0 => closing["control"] > 0
    <3>1. closing["control"] \in Nat /\ closing' \in [Threads -> Nat]
          /\ (closing' = [closing EXCEPT ![t] = @ + 1]
                \/ closing' = [closing EXCEPT ![t] = 0])
      <4>1. TypeInv'
        BY <1>4, TypeStep DEF Steps
      <4> QED
        BY <1>0, <1>4, <4>1 DEF SeenOK,
               ThreadsOK, CloseStep, Threads, TypeInv
    <3> QED
      BY <1>0, <2>1, <3>1 DEF ThreadsOK, Threads
  <2> QED
    BY <2>1, <2>2, <2>3 DEF EndInv
<1>5. CASE \/ \E s \in Sizes : SetFrameSize(s)
           \/ StopCard \/ ResetStatistics
           \/ \E c \in Sources : Send(c)
           \/ Reads \/ Take
           \/ UNCHANGED seen
  <2>1. UNCHANGED <<complete, ended, closing, flushed>>
    BY <1>5 DEF SetFrameSize, StopCard, ResetStatistics, Send, Reads, ReadPart,
       ReadWhole, ReadRest, Completed, Take, seen, state, threads, history
  <2> QED
    BY <2>1 DEF EndInv
<1> QED
  BY <1>1, <1>2, <1>3, <1>4, <1>5 DEF Steps, Client, Work

LEMMA EmptyStep ==
  ASSUME Racing = FALSE, TypeInv, CloseInv, EmptyInv, [Steps]_seen
  PROVE  EmptyInv'
<1>0. ThreadsOK /\ MemoryOK
  BY DEF SeenOK, TypeInv
<1>1. ASSUME block' = Everywhere(<<>>) PROVE EmptyInv'
  BY <1>1 DEF EmptyInv, Everywhere
<1>2. CASE \E n \in Counts : StartAcquisition(n)
  BY <1>1, <1>2 DEF StartAcquisition, Cleared
<1>3. CASE \E s \in Sizes : SetFrameSize(s)
  BY <1>1, <1>3 DEF SetFrameSize
<1>4. ASSUME NotClosing, ~complete, complete' = complete,
             \/ closing' = closing
             \/ \E t \in Threads : closing' = [closing EXCEPT ![t] = 1]
      PROVE  EmptyInv'
  <2>1. \A d \in Fields : \A t \in Threads : ~(closing'[t] > d)
    BY <1>0, <1>4 DEF NotClosing, ThreadsOK, Fields
  <2>2. \A d \in Fields : ~Passed(d)'
    BY <1>4, <2>1 DEF Passed
  <2> QED
    BY <2>2 DEF EmptyInv
<1>5. CASE Flush
  <2>1. /\ NotClosing /\ ~complete /\ complete' = complete
        /\ closing' = [closing EXCEPT !["control"] = 1]
    BY <1>5 DEF Flush, ControlReady, MayClose, state
  <2> QED
    BY <1>4, <2>1 DEF Threads
<1>6. CASE AddField \/ SkipDummy \/ EndMark
  <2>1. worker.busy /\ complete' = complete
    BY <1>6 DEF AddField, SkipDummy, EndMark, Working, state
  <2>2. closing' = closing \/ closing' = [closing EXCEPT !["worker"] = 1]
    BY <1>6 DEF AddField, SkipDummy, EndMark
  <2> QED
    BY <1>4, <2>1, <2>2 DEF CloseInv, Threads
<1>7. ASSUME NEW t \in Threads, CloseStep(t) PROVE EmptyInv'
  <2>1. /\ closing[t] \in Nat /\ closing[t] > 0 /\ ~complete
        /\ \A u \in Threads : u # t => closing[u] = 0
    BY <1>0, <1>7, OneCloses DEF CloseStep, ThreadsOK
  <2>f. NumFields \in Nat /\ \A d \in Fields : d \in Nat /\ d > 0 /\ d <= NumFields
    BY ConstantTypes DEF Fields
  <2>2. CASE closing[t] <= NumFields
    <3>1. /\ closing[t] \in Fields /\ FlushDataset(closing[t])
          /\ closing' = [closing EXCEPT ![t] = @ + 1] /\ UNCHANGED complete
      BY <1>7, <2>1, <2>2, ConstantTypes DEF CloseStep, Fields
    <3>2. ASSUME NEW d \in Fields, NEW c \in Channels, Passed(d)'
          PROVE  block'[d][c] = <<>>
      <4>1. d < closing[t] + 1
        BY <1>0, <2>1, <2>f, <3>1, <3>2 DEF Passed, ThreadsOK
      <4>2. CASE d = closing[t]
        BY <1>0, <3>1, <4>2 DEF FlushDataset, MemoryOK
      <4>3. CASE d # closing[t]
        <5>1. closing[t] > d
          BY <2>1, <2>f, <4>1, <4>3
        <5>2. block[d][c] = <<>>
          BY <5>1 DEF EmptyInv, Passed
        <5>3. block'[d][c] = block[d][c]
          BY <1>0, <3>1, <4>3 DEF FlushDataset, MemoryOK
        <5> QED
          BY <5>2, <5>3
      <4> QED
        BY <4>2, <4>3
    <3> QED
      BY <3>2 DEF EmptyInv
  <2>3. CASE ~(closing[t] <= NumFields)
    <3>1. block' = block
      BY <1>7, <2>3 DEF CloseStep, memory
    <3>2. \A d \in Fields : Passed(d)
      BY <2>1, <2>3, <2>f DEF Passed
    <3> QED
      BY <3>1, <3>2 DEF EmptyInv
  <2> QED
    BY <2>2, <2>3
<1>8. CASE \/ StopCard \/ ResetStatistics
           \/ \E c \in Sources : Send(c)
           \/ Reads \/ Take
           \/ UNCHANGED seen
  <2>1. UNCHANGED <<complete, closing, block>>
    BY <1>8 DEF StopCard, ResetStatistics, Send, Reads, ReadPart,
       ReadWhole, ReadRest, Completed, Take, seen, state, threads, memory
  <2> QED
    BY <2>1 DEF EmptyInv, Passed
<1> QED
  BY <1>2, <1>3, <1>5, <1>6, <1>7, <1>8 DEF Steps, Client, Work

(* When no flush request runs during a packet, nothing is pushed or stored *)
(* and no channel ends once the acquisition is complete, whatever packets  *)
(* follow; a new frame size then replaces blocks that are empty.           *)
THEOREM SilentAfterEnd == ASSUME Racing = FALSE PROVE Spec => QuietAfterEnd
<1> DEFINE Inv == TypeInv /\ CloseInv /\ EmptyInv
<1>1. Init => Inv
  BY TypeInit, CloseInit, EndInit
<1>2. Inv /\ [Steps]_seen => Inv'
  BY TypeStep, CloseStepInv, EmptyStep
<1>3. Inv /\ [Next]_vars
        => [complete /\ complete' => UNCHANGED <<log, block, ended>>]_vars
  <2> SUFFICES ASSUME Inv, [Steps]_seen, complete, complete'
               PROVE  UNCHANGED <<log, block, ended>>
    BY Visible
  <2>0. ThreadsOK /\ MemoryOK /\ ~worker.busy /\ NotClosing
    BY DEF SeenOK, TypeInv, CloseInv
  <2>1. ~AddField /\ ~SkipDummy /\ ~EndMark
    BY <2>0 DEF AddField, SkipDummy, EndMark, Working
  <2>2. \A t \in Threads : ~CloseStep(t)
    BY <2>0 DEF CloseStep, NotClosing, ThreadsOK
  <2>3. \A n \in Counts : ~StartAcquisition(n)
    BY DEF StartAcquisition
  <2>4. CASE \E s \in Sizes : SetFrameSize(s)
    <3>1. block' = Everywhere(<<>>) /\ UNCHANGED <<log, ended>>
      BY <2>4 DEF SetFrameSize
    <3>2. \A d \in Fields, c \in Channels : block[d][c] = <<>>
      BY DEF EmptyInv, Passed
    <3>3. block = Everywhere(<<>>)
      BY <2>0, <3>2 DEF MemoryOK, Everywhere
    <3> QED
      BY <3>1, <3>3
  <2> QED
    BY <2>1, <2>2, <2>3, <2>4
       DEF Steps, Client, Work, Take, Flush, StopCard, ResetStatistics, Send,
           Reads, ReadPart, ReadWhole, ReadRest, Completed, state, memory,
           seen
<1> QED
  BY <1>1, <1>2, <1>3, Visible, PTL DEF Spec, QuietAfterEnd

-----------------------------------------------------------------------------
(***************************************************************************)
(* The stream of a channel.  There is an item up to which all of them are  *)
(* through: the datasets have its events, and that of the item under way   *)
(* as far as the worker is with it; the packet of the worker and those on  *)
(* their way have the items behind it, unless the acquisition is closed;   *)
(* and a channel that has ended has no event behind it.                    *)
(***************************************************************************)
Ahead(d, c) == IF Adding(c) /\ d < worker.field THEN 1 ELSE 0
Left(c)     == IF Adding(c) THEN Packet.len - worker.pos ELSE 0
Open        == ~complete /\ closing["worker"] = 0

OnWay(c, m) == /\ Adding(c) => Number = m + 1
               /\ Chain(Path, c, m + Left(c), sent[c])
AllIn(c, m) == \A n \in m + 1 .. Len(Script[c]) : ~Wanted(c, n)
Holds(c, m) == \A d \in Fields : Stored(d, c) = Events(c, m + Ahead(d, c))

StreamAt(c, m) ==
  /\ Holds(c, m)
  /\ Open => OnWay(c, m)
  /\ ended[c] => AllIn(c, m)

StreamInv == \A c \in Channels : \E m \in 0 .. Len(Script[c]) : StreamAt(c, m)

LEMMA EventsKept ==
  ASSUME NEW c, UNCHANGED <<acq, frames>>
  PROVE  /\ \A k : Events(c, k)' = Events(c, k)
         /\ \A m : AllIn(c, m) => AllIn(c, m)'
<1>1. \A k : Events(c, k)' = Events(c, k)
  BY EventsAre
<1>2. \A m : AllIn(c, m) => AllIn(c, m)'
  BY DEF AllIn, Wanted
<1> QED
  BY <1>1, <1>2

(* A step that leaves the stream of a channel alone.                       *)
LEMMA StreamKept ==
  ASSUME NEW c, NEW m, StreamAt(c, m), UNCHANGED <<acq, frames, sent[c], Path>>,
         \A d \in Fields : Stored(d, c)' = Stored(d, c),
         Adding(c)' <=> Adding(c),
         Adding(c) => UNCHANGED <<worker, Packet>>,
         Open' => Open, ended'[c] => ended[c]
  PROVE  StreamAt(c, m)'
<1>1. \A d : Ahead(d, c)' = Ahead(d, c)
  BY DEF Ahead
<1>2. Holds(c, m)'
  BY <1>1, EventsKept DEF Holds, StreamAt
<1>3. OnWay(c, m) => OnWay(c, m)'
  <2>1. Left(c)' = Left(c)
    BY DEF Left
  <2>2. Adding(c) => Number' = Number
    BY DEF Number
  <2> QED
    BY <2>1, <2>2 DEF OnWay
<1>4. ended'[c] => AllIn(c, m)'
  BY EventsKept DEF StreamAt
<1> QED
  BY <1>2, <1>3, <1>4 DEF StreamAt

(* The item the worker is at is the first one that is not through.         *)
LEMMA ItemUnderWay ==
  ASSUME TypeInv, PathInv, NEW c \in Channels, NEW m \in Nat, Adding(c),
         OnWay(c, m)
  PROVE  /\ m + 1 \in 1 .. Len(Script[c]) /\ Item = Script[c][m + 1]
         /\ Number = m + 1 /\ Packet.acq = acq
         /\ Item.tf < frames /\ Item.tf \in Nat /\ Item.kind \in Kinds
<1>0. DecoderOK /\ ThreadsOK /\ StateOK /\ CardOK
  BY DEF SeenOK, TypeInv
<1>1. c \in Sources /\ worker.busy /\ Packet.ch = c
  BY DEF Sources, Adding
<1>2. Path \in Seq(Packets) /\ sent[c] \in Nat
  BY <1>0, <1>1, PathTyped DEF CardOK
<1>3. m + Left(c) \in 0 .. sent[c]
  BY <1>2, ChainRange DEF OnWay
<1>4. sent[c] <= Total(c) /\ Total(c) \in 0 .. Len(Script[c]) /\ Len(Script[c]) \in Nat
  BY <1>0, <1>1, TotalTyped, ItemTyped DEF PathInv
<1>5. Left(c) \in Int /\ Left(c) >= 1
  <2>1. worker.pos \in Nat /\ Packet \in Packets
    BY <1>0 DEF ThreadsOK, Workers, DecoderOK, Packet
  <2>2. Packet.len \in Nat /\ worker.pos < Packet.len
    BY <1>1, <2>1 DEF Packets, NoPacket, PathInv
  <2> QED
    BY <2>1, <2>2 DEF Left
<1>6. m + 1 \in 1 .. Total(c) /\ m + 1 \in 1 .. Len(Script[c])
  BY <1>2, <1>3, <1>4, <1>5
<1>7. Number = m + 1
  BY DEF OnWay
<1>8. Item = Script[c][m + 1]
  BY <1>1, <1>7 DEF Item
<1>9. Script[c][m + 1].tf < frames
  <2>1. \A n \in 1 .. Total(c) : Script[c][n].tf < frames
    BY <1>0, <1>1, FirstItems, TotalIs DEF StateOK
  <2> QED
    BY <1>6, <2>1
<1>10. Script[c][m + 1].tf \in Nat /\ Script[c][m + 1].kind \in Kinds
  BY <1>1, <1>6, ItemTyped
<1> QED
  BY <1>1, <1>6, <1>7, <1>8, <1>9, <1>10 DEF PathInv

(* The worker is done with that item.                                      *)
LEMMA ItemThrough ==
  ASSUME TypeInv, RingInv, PathInv, NEW c \in Channels, NEW m \in Nat, Adding(c),
         OnWay(c, m), AddField \/ SkipDummy \/ EndMark, NextItem
  PROVE  /\ OnWay(c, m + 1)'
         /\ \A d \in Fields : Ahead(d, c)' = 0
<1>0. DecoderOK /\ ThreadsOK
  BY DEF SeenOK, TypeInv
<1>1. worker.busy /\ Packet.ch = c /\ Path' = Path /\ (worker'.busy => Packet' = Packet)
  BY WorkKeeps DEF Adding
<1>2. sent' = sent
  BY DEF AddField, SkipDummy, EndMark, card
<1>3. worker.pos \in Nat /\ Packet.len \in Nat /\ Packet.from \in Nat
  <2>1. Packet \in Packets
    BY <1>0 DEF Packet, DecoderOK, ThreadsOK, Workers
  <2> QED
    BY <1>0, <2>1 DEF ThreadsOK, Workers, Packets, NoPacket
<1>4. Number = m + 1 /\ Left(c) = Packet.len - worker.pos
      /\ Number = Packet.from + worker.pos
      /\ Chain(Path, c, m + Left(c), sent[c])
  BY DEF OnWay, Left, Number
<1>5. CASE worker.pos + 1 = Packet.len
  <2>1. worker' = Idle
    BY <1>5 DEF NextItem, Done
  <2>2. ~Adding(c)'
    BY <2>1 DEF Adding, Idle
  <2>3. Left(c)' = 0 /\ m + Left(c) = (m + 1) + 0
    BY <1>3, <1>4, <1>5, <2>2 DEF Left
  <2>4. Chain(Path, c, (m + 1) + Left(c), sent[c])'
    BY <1>1, <1>2, <1>4, <2>3
  <2> QED
    BY <2>2, <2>4 DEF OnWay, Ahead
<1>6. CASE worker.pos + 1 # Packet.len
  <2>1. worker' = [worker EXCEPT !.pos = @ + 1, !.field = 1]
    BY <1>6 DEF NextItem
  <2>2. worker'.busy /\ worker'.pos = worker.pos + 1 /\ worker'.field = 1
    BY <1>0, <1>1, <2>1 DEF ThreadsOK, Workers
  <2>3. Adding(c)' /\ Packet' = Packet
    BY <1>1, <2>2 DEF Adding
  <2>4. Left(c)' = Packet.len - (worker.pos + 1)
    BY <2>2, <2>3 DEF Left
  <2>5. (m + 1) + Left(c)' = m + Left(c)
    BY <1>3, <1>4, <2>4
  <2>6. Number' = Packet.from + (worker.pos + 1)
    BY <2>2, <2>3 DEF Number
  <2>7. Number' = (m + 1) + 1
    BY <1>3, <1>4, <2>6
  <2>8. Chain(Path, c, (m + 1) + Left(c), sent[c])'
    BY <1>1, <1>2, <1>4, <2>5
  <2>9. \A d \in Fields : ~(d < 1)
    BY DEF Fields
  <2> QED
    BY <2>2, <2>7, <2>8, <2>9 DEF OnWay, Ahead
<1> QED
  BY <1>5, <1>6

(* The step of an item that is no event.                                   *)
LEMMA StreamSkip ==
  ASSUME TypeInv, RingInv, CloseInv, HeldInv, PathInv, StreamInv,
         SkipDummy \/ EndMark, NEW c \in Channels
  PROVE  \E m \in 0 .. Len(Script[c]) : StreamAt(c, m)'
<1>0. DecoderOK /\ ThreadsOK /\ StateOK /\ CardOK
  BY DEF SeenOK, TypeInv
<1>1. /\ worker.busy /\ ~complete /\ NotClosing /\ Open
      /\ UNCHANGED <<acq, frames, sent, log, block, complete>>
      /\ Item.kind # "event"
  BY DEF SkipDummy, EndMark, Working, CloseInv, card, state, memory, Open,
         NotClosing, Threads
<1>2. /\ \A d \in Fields : Stored(d, c)' = Stored(d, c)
      /\ Open' => Open
  BY <1>1 DEF Stored
<1>3. Path' = Path /\ (worker'.busy => Packet' = Packet)
  BY WorkKeeps
<1>4. PICK m \in 0 .. Len(Script[c]) : StreamAt(c, m)
  BY DEF StreamInv
<1>5. Len(Script[c]) \in Nat /\ m \in Nat
  BY ItemTyped DEF Sources
<1>6. CASE Packet.ch # c
  <2>1. ~Adding(c) /\ ~Adding(c)'
    BY <1>3, <1>6 DEF Adding
  <2>2. ended'[c] => ended[c]
    BY <1>0, <1>6 DEF SkipDummy, EndMark, StateOK, state
  <2> QED
    BY <1>1, <1>2, <1>3, <1>4, <2>1, <2>2, StreamKept
<1>7. CASE Packet.ch = c
  <2>1. Adding(c) /\ OnWay(c, m)
    BY <1>1, <1>4, <1>7 DEF Adding, StreamAt
  <2>2. /\ m + 1 \in 1 .. Len(Script[c]) /\ Item = Script[c][m + 1]
        /\ Item.tf < frames /\ Item.tf \in Nat
    BY <1>5, <2>1, ItemUnderWay
  <2>3. ~Wanted(c, m + 1) /\ frames \in Nat
    BY <1>0, <1>1, <2>2 DEF Wanted, StateOK
  <2>4. \A d \in Fields : Ahead(d, c) = 0
    <3>1. worker.field = 1
      BY <1>0, <1>1 DEF HeldInv, ThreadsOK, Workers, Fields
    <3> QED
      BY <3>1 DEF Ahead, Fields
  <2>5. Events(c, m + 1) = Events(c, m)
    <3>1. acq \in Nat /\ ~WantedIn(frames, c, m + 1)
      BY <1>0, <2>3, ConstantTypes DEF CardOK, Wanted, WantedIn
    <3>2. EventsIn(acq, frames, c, m + 1)
            = IF WantedIn(frames, c, m + 1)
                THEN Append(EventsIn(acq, frames, c, m), [acq |-> acq, n |-> m + 1])
                ELSE EventsIn(acq, frames, c, m)
      BY <1>5, <3>1, EventsNext
    <3> QED
      BY <3>1, <3>2, EventsAre
  <2>6. \A d \in Fields : Ahead(d, c)' = 0
    <3>1. CASE NextItem
      BY <1>5, <2>1, <3>1, ItemThrough
    <3>2. CASE Done
      BY <3>2 DEF Done, Idle, Ahead, Adding
    <3> QED
      BY <3>1, <3>2 DEF SkipDummy, EndMark
  <2>7. Holds(c, m + 1)'
    <3> SUFFICES ASSUME NEW d \in Fields
                 PROVE  Stored(d, c)' = Events(c, (m + 1) + Ahead(d, c))'
      BY DEF Holds
    <3>1. m + 0 = m /\ (m + 1) + 0 = m + 1
      BY <1>5
    <3>2. Stored(d, c) = Events(c, m)
      BY <1>4, <2>4, <3>1 DEF StreamAt, Holds
    <3>3. Events(c, m + 1)' = Events(c, m + 1)
      BY <1>1, EventsKept
    <3>4. Events(c, (m + 1) + Ahead(d, c))' = Events(c, m + 1)'
      BY <2>6, <3>1
    <3> QED
      BY <1>2, <2>5, <3>2, <3>3, <3>4
  <2>8. Open' => OnWay(c, m + 1)'
    <3>1. CASE NextItem
      BY <1>5, <2>1, <3>1, ItemThrough
    <3>2. CASE ~NextItem
      <4>1. closing' = [closing EXCEPT !["worker"] = 1]
        BY <3>2 DEF SkipDummy, EndMark
      <4> QED
        BY <1>0, <4>1 DEF Open, ThreadsOK, Threads
    <3> QED
      BY <3>1, <3>2
  <2>9. ended'[c] => AllIn(c, m + 1)'
    <3>1. ASSUME ended[c] PROVE AllIn(c, m + 1)'
      <4>1. AllIn(c, m)
        BY <1>4, <3>1 DEF StreamAt
      <4>2. AllIn(c, m + 1)
        BY <1>5, <4>1 DEF AllIn
      <4> QED
        BY <1>1, <4>2, EventsKept
    <3>2. ASSUME ended'[c], ~ended[c] PROVE AllIn(c, m + 1)'
      <4>1. EndMark /\ IsLast(Item.tf) /\ Item.kind = "end"
        BY <3>2 DEF SkipDummy, EndMark, state
      <4>2. Item.tf + 1 = frames
        BY <4>1 DEF IsLast
      <4>3. ASSUME NEW n \in (m + 1) + 1 .. Len(Script[c]), Wanted(c, n) PROVE FALSE
        <5>1. /\ n \in 1 .. Len(Script[c]) /\ m + 1 \in 1 .. n - 1
              /\ Script[c][n].kind = "event" /\ Script[c][n].tf < frames
          BY <1>5, <4>3 DEF Wanted
        <5>2. Script[c][m + 1].tf < Script[c][n].tf /\ Script[c][n].tf \in Nat
          BY <2>2, <4>1, <5>1, InOrder, ItemTyped DEF Sources
        <5> QED
          BY <2>2, <2>3, <4>2, <5>1, <5>2
      <4>4. AllIn(c, m + 1)
        BY <4>3 DEF AllIn
      <4> QED
        BY <1>1, <4>4, EventsKept
    <3> QED
      BY <3>1, <3>2
  <2>10. m + 1 \in 0 .. Len(Script[c]) /\ StreamAt(c, m + 1)'
    BY <1>5, <2>2, <2>7, <2>8, <2>9 DEF StreamAt
  <2> QED
    BY <2>10
<1> QED
  BY <1>6, <1>7

(* A field of an event.                                                    *)
LEMMA StreamAdd ==
  ASSUME TypeInv, RingInv, CloseInv, HeldInv, PathInv, StreamInv, AddField,
         NEW c \in Channels
  PROVE  \E m \in 0 .. Len(Script[c]) : StreamAt(c, m)'
<1>0. DecoderOK /\ ThreadsOK /\ StateOK /\ CardOK /\ MemoryOK
  BY DEF SeenOK, TypeInv
<1>1. /\ worker.busy /\ ~complete /\ NotClosing /\ Open
      /\ UNCHANGED <<acq, frames, sent, complete, ended, closing>>
      /\ Item.kind = "event" /\ Packet.ch \in Channels
      /\ AddRow(worker.field, Packet.ch, Row)
  BY DEF AddField, Working, CloseInv, HeldInv, card, state, Open, NotClosing,
         Threads, Row
<1>f. PICK f \in Fields : f = worker.field
  BY <1>0 DEF ThreadsOK, Workers
<1>r. PICK row \in Rows : row = Row
  BY <1>0, RowTyped DEF Row
<1>2. \A d \in Fields : Stored(d, c)' = IF d = f /\ c = Packet.ch
                                          THEN Append(Stored(d, c), row)
                                          ELSE Stored(d, c)
  BY <1>0, <1>1, <1>f, <1>r, AddRowStores
<1>3. Path' = Path /\ (worker'.busy => Packet' = Packet)
  BY WorkKeeps
<1>4. PICK m \in 0 .. Len(Script[c]) : StreamAt(c, m)
  BY DEF StreamInv
<1>5. Len(Script[c]) \in Nat /\ m \in Nat
  BY ItemTyped DEF Sources
<1>6. CASE Packet.ch # c
  <2>1. ~Adding(c) /\ ~Adding(c)'
    BY <1>3, <1>6 DEF Adding
  <2>2. \A d \in Fields : Stored(d, c)' = Stored(d, c)
    BY <1>2, <1>6
  <2>3. Open' => Open
    BY <1>1
  <2> QED
    BY <1>1, <1>3, <1>4, <2>1, <2>2, <2>3, StreamKept
<1>7. CASE Packet.ch = c
  <2>1. Adding(c) /\ OnWay(c, m)
    BY <1>1, <1>4, <1>7 DEF Adding, StreamAt
  <2>2. /\ m + 1 \in 1 .. Len(Script[c]) /\ Item = Script[c][m + 1]
        /\ Item.tf < frames /\ Number = m + 1 /\ Packet.acq = acq
    BY <1>5, <2>1, ItemUnderWay
  <2>3. row = [acq |-> acq, n |-> m + 1]
    BY <1>r, <2>2 DEF Row
  <2>4. Events(c, m + 1) = Append(Events(c, m), row)
    <3>1. acq \in Nat /\ WantedIn(frames, c, m + 1)
      BY <1>0, <1>1, <2>2, ConstantTypes DEF CardOK, WantedIn
    <3>2. EventsIn(acq, frames, c, m + 1)
            = IF WantedIn(frames, c, m + 1)
                THEN Append(EventsIn(acq, frames, c, m), [acq |-> acq, n |-> m + 1])
                ELSE EventsIn(acq, frames, c, m)
      BY <1>5, <3>1, EventsNext
    <3> QED
      BY <2>3, <3>1, <3>2, EventsAre
  <2>5. \A k : Events(c, k)' = Events(c, k)
    BY <1>1, EventsKept
  <2>6. f \in Nat /\ NumFields \in Nat /\ \A d \in Fields : d \in Nat /\ d <= NumFields
    BY ConstantTypes DEF Fields
  <2>7. m + 0 = m /\ (m + 1) + 0 = m + 1
    BY <1>5
  (* The datasets up to this one have the event.                           *)
  <2>8. \A d \in Fields : Stored(d, c)' = IF d < f + 1 THEN Events(c, m + 1)
                                          ELSE Events(c, m)
    <3> TAKE d \in Fields
    <3>1. Stored(d, c) = IF d < f THEN Events(c, m + 1) ELSE Events(c, m)
      BY <1>4, <1>f, <2>1, <2>7 DEF StreamAt, Holds, Ahead
    <3>2. CASE d = f
      BY <1>2, <1>7, <2>4, <2>6, <3>1, <3>2
    <3>3. CASE d # f
      <4>1. d < f + 1 <=> d < f
        BY <2>6, <3>3
      <4> QED
        BY <1>2, <3>1, <3>3, <4>1
    <3> QED
      BY <3>2, <3>3
  <2>9. CASE f < NumFields
    <3>1. worker' = [worker EXCEPT !.field = @ + 1]
      BY <1>f, <2>9 DEF AddField
    <3>2. /\ worker'.field = f + 1 /\ worker'.busy /\ worker'.pos = worker.pos
      BY <1>0, <1>1, <1>f, <3>1 DEF ThreadsOK, Workers
    <3>3. Adding(c)' /\ Packet' = Packet
      BY <1>3, <1>7, <3>2 DEF Adding
    <3>4. Holds(c, m)'
      <4> SUFFICES ASSUME NEW d \in Fields
                   PROVE  Stored(d, c)' = Events(c, m + Ahead(d, c))'
        BY DEF Holds
      <4>1. Ahead(d, c)' = IF d < f + 1 THEN 1 ELSE 0
        BY <3>2, <3>3 DEF Ahead
      <4>2. Events(c, m + Ahead(d, c))' = IF d < f + 1 THEN Events(c, m + 1)
                                          ELSE Events(c, m)
        BY <2>5, <2>7, <4>1
      <4> QED
        BY <2>8, <4>2
    <3>5. OnWay(c, m)'
      <4>1. Left(c)' = Left(c) /\ Number' = Number
        BY <2>1, <3>2, <3>3 DEF Left, Number
      <4> QED
        BY <1>1, <1>3, <2>1, <4>1 DEF OnWay
    <3>6. ended'[c] => AllIn(c, m)'
      BY <1>1, <1>4, EventsKept DEF StreamAt
    <3> QED
      BY <3>4, <3>5, <3>6 DEF StreamAt
  <2>10. CASE ~(f < NumFields)
    <3>1. NextItem /\ f = NumFields
      BY <1>f, <2>6, <2>10 DEF AddField
    <3>2. OnWay(c, m + 1)' /\ \A d \in Fields : Ahead(d, c)' = 0
      BY <1>5, <2>1, <3>1, ItemThrough
    <3>3. Holds(c, m + 1)'
      <4> SUFFICES ASSUME NEW d \in Fields
                   PROVE  Stored(d, c)' = Events(c, (m + 1) + Ahead(d, c))'
        BY DEF Holds
      <4>1. d < f + 1
        BY <2>6, <3>1
      <4>2. Events(c, (m + 1) + Ahead(d, c))' = Events(c, m + 1)
        BY <2>5, <2>7, <3>2
      <4> QED
        BY <2>8, <4>1, <4>2
    <3>4. ended'[c] => AllIn(c, m + 1)'
      <4>1. ended[c] => AllIn(c, m + 1)
        BY <1>4, <1>5 DEF StreamAt, AllIn
      <4> QED
        BY <1>1, <4>1, EventsKept
    <3> QED
      BY <1>5, <2>2, <3>2, <3>3, <3>4 DEF StreamAt
  <2> QED
    BY <2>9, <2>10
<1> QED
  BY <1>6, <1>7

(* The worker takes a packet, or drops it.                                 *)
LEMMA StreamTake ==
  ASSUME TypeInv, RingInv, StreamInv, Take, NEW c \in Channels
  PROVE  \E m \in 0 .. Len(Script[c]) : StreamAt(c, m)'
<1>0. DecoderOK /\ ThreadsOK /\ CardOK
  BY DEF SeenOK, TypeInv
<1>1. /\ UNCHANGED <<acq, frames, sent, log, block, complete, ended, closing>>
      /\ closing["worker"] = 0
  BY DEF Take, card, state, memory
<1>2. /\ Path # <<>> /\ Path' = Tail(Path) /\ ~worker.busy
      /\ worker'.busy => /\ ~Dropped(Head(Path)) /\ Packet' = Head(Path)
                         /\ worker'.pos = 0 /\ worker'.field = 1
      /\ ~worker'.busy => Dropped(Head(Path))
  BY TakeMoves
<1>3. PICK m \in 0 .. Len(Script[c]) : StreamAt(c, m)
  BY DEF StreamInv
<1>4. m \in Nat /\ sent[c] \in Nat /\ Path \in Seq(Packets)
  BY <1>0, ItemTyped, PathTyped DEF Sources, CardOK
<1>p. PICK p \in Packets : p = Head(Path)
  BY <1>2, <1>4, HeadAndTail
<1>5. ~Adding(c) /\ \A d \in Fields : Ahead(d, c) = 0 /\ Ahead(d, c)' = 0
  <2>1. ~Adding(c)
    BY <1>2 DEF Adding
  <2>2. \A d \in Fields : ~(d < 1)
    BY DEF Fields
  <2> QED
    BY <1>2, <2>1, <2>2 DEF Ahead, Adding
<1>6. Holds(c, m)'
  <2> SUFFICES ASSUME NEW d \in Fields
               PROVE  Stored(d, c)' = Events(c, m + Ahead(d, c))'
    BY DEF Holds
  <2>1. Stored(d, c)' = Stored(d, c)
    BY <1>1 DEF Stored
  <2>2. Stored(d, c) = Events(c, m + 0)
    BY <1>3, <1>5 DEF StreamAt, Holds
  <2>3. Events(c, m + 0)' = Events(c, m + 0)
    BY <1>1, EventsKept
  <2>4. Events(c, m + Ahead(d, c))' = Events(c, m + 0)'
    BY <1>5
  <2> QED
    BY <2>1, <2>2, <2>3, <2>4
<1>7. ended'[c] => AllIn(c, m)'
  BY <1>1, <1>3, EventsKept DEF StreamAt
<1>8. ASSUME Open' PROVE OnWay(c, m)'
  <2>1. ~complete /\ Open
    BY <1>1, <1>8 DEF Open
  <2>2. Chain(Path, c, m + 0, sent[c])
    BY <1>3, <1>5, <2>1 DEF StreamAt, OnWay, Left
  <2>3. PICK h \in 0 .. sent[c] :
          Covers(p, c, m, h) /\ Chain(Tail(Path), c, h, sent[c])
    <3>1. m + 0 = m
      BY <1>4
    <3> QED
      BY <1>2, <1>4, <1>p, <2>2, <3>1, ChainTail
  <2>4. p.len \in Nat /\ p.from \in Nat
    BY DEF Packets, NoPacket
  <2>5. CASE p.ch = c
    <3>1. ~Dropped(p)
      BY <2>1, <2>5 DEF Dropped
    <3>2. worker'.busy /\ Packet' = p /\ worker'.pos = 0
      BY <1>2, <1>p, <3>1
    <3>3. Adding(c)' /\ Left(c)' = p.len - 0 /\ Number' = p.from + 0
      BY <2>5, <3>2 DEF Adding, Left, Number
    <3>4. p.from = m + 1 /\ h = m + p.len
      BY <2>3, <2>5 DEF Covers
    <3>5. Number' = m + 1 /\ m + Left(c)' = h
      BY <1>4, <2>4, <3>3, <3>4
    <3> QED
      BY <1>1, <1>2, <2>3, <3>5 DEF OnWay
  <2>6. CASE p.ch # c
    <3>1. ~Adding(c)'
      BY <1>2, <1>p, <2>6 DEF Adding
    <3>2. h = m /\ m + Left(c)' = m
      BY <1>4, <2>3, <2>6, <3>1 DEF Covers, Left
    <3> QED
      BY <1>1, <1>2, <2>3, <3>1, <3>2 DEF OnWay
  <2> QED
    BY <2>5, <2>6
<1> QED
  BY <1>6, <1>7, <1>8 DEF StreamAt

(* The card sends a packet.                                                *)
LEMMA StreamSend ==
  ASSUME TypeInv, RingInv, StreamInv, NEW b \in Sources, Send(b),
         NEW c \in Channels
  PROVE  \E m \in 0 .. Len(Script[c]) : StreamAt(c, m)'
<1>0. DecoderOK /\ CardOK
  BY DEF SeenOK, TypeInv
<1>1. UNCHANGED <<acq, frames, log, block, complete, ended, closing, worker, buffers>>
  BY SendAdds DEF Send, state, memory, threads
<1>2. PICK p \in Packets, n \in 1 .. PacketSize :
        /\ p = [acq |-> acq, ch |-> b, from |-> sent[b] + 1, len |-> n]
        /\ Path' = Append(Path, p)
        /\ sent' = [sent EXCEPT ![b] = @ + n]
  BY SendAdds
<1>3. PICK m \in 0 .. Len(Script[c]) : StreamAt(c, m)
  BY DEF StreamInv
<1>4. PICK j \in Nat : j = sent[c]
  BY <1>0 DEF CardOK, Sources
<1>5. n \in Nat /\ c \in Sources /\ Path \in Seq(Packets) /\ sent[b] \in Nat
  BY <1>0, ConstantTypes, PathTyped DEF CardOK, Sources
<1>6. /\ \A d \in Fields : Stored(d, c)' = Stored(d, c) /\ Ahead(d, c)' = Ahead(d, c)
      /\ (Adding(c)' <=> Adding(c)) /\ Left(c)' = Left(c) /\ Number' = Number
      /\ Open' <=> Open
  BY <1>1 DEF Stored, Ahead, Adding, Left, Number, Packet, Open
<1>7. Holds(c, m)'
  BY <1>1, <1>3, <1>6, EventsKept DEF StreamAt, Holds
<1>8. ended'[c] => AllIn(c, m)'
  BY <1>1, <1>3, EventsKept DEF StreamAt
<1>9. ASSUME Open' PROVE OnWay(c, m)'
  <2>1. OnWay(c, m)
    BY <1>3, <1>6, <1>9 DEF StreamAt
  <2>i. PICK i : i = m + Left(c)
    OBVIOUS
  <2>2. Chain(Path, c, i, j)
    BY <1>4, <2>1, <2>i DEF OnWay
  <2>3. PICK h \in Nat : h = sent'[c] /\ j <= h /\ Covers(p, c, j, h)
    <3>1. CASE b = c
      <4>1. sent'[c] = j + n
        BY <1>0, <1>2, <1>4, <1>5, <3>1 DEF CardOK
      <4>2. p.ch = c /\ p.from = j + 1 /\ p.len = n
        BY <1>2, <1>4, <3>1
      <4>3. Covers(p, c, j, j + n) /\ j + n \in Nat /\ j <= j + n
        BY <1>5, <4>2 DEF Covers
      <4> QED
        BY <4>1, <4>3
    <3>2. CASE b # c
      <4>1. sent'[c] = j
        BY <1>0, <1>2, <1>4, <1>5, <3>2 DEF CardOK
      <4>2. p.ch # c
        BY <1>2, <3>2
      <4>3. Covers(p, c, j, j)
        BY <4>2 DEF Covers
      <4> QED
        BY <4>1, <4>3
    <3> QED
      BY <3>1, <3>2
  <2>4. Chain(Append(Path, p), c, i, h)
    BY <1>5, <2>2, <2>3, ChainAppend
  <2>5. Chain(Path', c, m + Left(c)', sent'[c])
    BY <1>2, <1>6, <2>3, <2>4, <2>i
  <2> QED
    BY <1>6, <2>1, <2>5 DEF OnWay
<1> QED
  BY <1>6, <1>7, <1>8, <1>9 DEF StreamAt

(* An acquisition begins.                                                  *)
LEMMA StreamStart ==
  ASSUME Drained, TypeInv, RingInv, NEW n \in Counts, StartAcquisition(n),
         NEW c \in Channels
  PROVE  \E m \in 0 .. Len(Script[c]) : StreamAt(c, m)'
<1>0. DecoderOK
  BY DEF SeenOK, TypeInv
<1>1. /\ wire' = <<>> /\ ready' = <<>> /\ ~worker'.busy
      /\ \A d \in Fields : log'[d][c] = <<>> /\ block'[d][c] = <<>>
      /\ sent'[c] = 0 /\ ~ended'[c]
  BY OthersKeep
     DEF StartAcquisition, ControlReady, Cleared, Everywhere, Sources
<1>2. Path' = <<>>
  BY <1>1 DEF Path, PathOf
<1>3. ~Adding(c)'
  BY <1>1 DEF Adding
<1>4. Holds(c, 0)'
  <2> SUFFICES ASSUME NEW d \in Fields
               PROVE  Stored(d, c)' = Events(c, 0 + Ahead(d, c))'
    BY DEF Holds
  <2>1. RowsOf(<<>>) = <<>>
    <3>1. RowLists(<<>>) = <<>>
      BY DEF RowLists
    <3> QED
      BY <3>1, RowsOfIs, FlattenEmpty
  <2>2. Stored(d, c)' = RowsOf(<<>>) \o <<>>
    BY <1>1 DEF Stored, RowsOf
  <2>3. Stored(d, c)' = <<>>
    BY <2>1, <2>2
  <2>4. Events(c, 0)' = <<>>
    BY EventsAre, EventsNone
  <2>5. Ahead(d, c)' = 0
    BY <1>3 DEF Ahead
  <2>6. 0 + 0 = 0
    OBVIOUS
  <2>7. Events(c, 0 + Ahead(d, c))' = Events(c, 0)'
    BY <2>5, <2>6
  <2> QED
    BY <2>3, <2>4, <2>7
<1>5. OnWay(c, 0)'
  <2>1. 0 + Left(c)' = 0
    BY <1>3 DEF Left
  <2>2. Chain(<<>>, c, 0, 0)
    BY ChainEmpty
  <2> QED
    BY <1>1, <1>2, <1>3, <2>1, <2>2 DEF OnWay
<1>6. StreamAt(c, 0)'
  BY <1>1, <1>4, <1>5 DEF StreamAt
<1>7. 0 \in 0 .. Len(Script[c])
  BY ItemTyped DEF Sources
<1> QED
  BY <1>6, <1>7

LEMMA StreamStep ==
  ASSUME Drained, Racing = FALSE, TypeInv, RingInv, CloseInv, HeldInv, PathInv,
         EmptyInv, StreamInv, [Steps]_seen
  PROVE  StreamInv'
<1> SUFFICES ASSUME NEW c \in Channels
             PROVE  \E m \in 0 .. Len(Script[c]) : StreamAt(c, m)'
  BY DEF StreamInv
<1>0. ThreadsOK /\ StateOK /\ MemoryOK
  BY DEF SeenOK, TypeInv
<1>m. PICK m \in 0 .. Len(Script[c]) : StreamAt(c, m)
  BY DEF StreamInv
(* A step that leaves the packets alone.                                   *)
<1>1. ASSUME UNCHANGED <<acq, frames, sent, ended, Path, worker>>,
             worker.busy => buffers'[worker.buf] = buffers[worker.buf],
             \A d \in Fields : Stored(d, c)' = Stored(d, c),
             Open' => Open
      PROVE  \E k \in 0 .. Len(Script[c]) : StreamAt(c, k)'
  <2>1. worker.busy => Packet' = Packet
    BY <1>1 DEF Packet
  <2>2. (Adding(c)' <=> Adding(c)) /\ (Adding(c) => UNCHANGED <<worker, Packet>>)
    BY <1>1, <2>1 DEF Adding
  <2>3. StreamAt(c, m)'
    BY <1>1, <1>m, <2>2, StreamKept
  <2> QED
    BY <2>3
<1>2. ASSUME NEW s \in Sizes, SetFrameSize(s)
      PROVE  \E k \in 0 .. Len(Script[c]) : StreamAt(c, k)'
  <2>1. /\ UNCHANGED <<acq, frames, sent, ended, log, complete, closing>>
        /\ block' = Everywhere(<<>>)
    BY <1>2 DEF SetFrameSize, card, threads
  <2>2. \A d \in Fields : block[d][c] = <<>>
    BY <1>2 DEF SetFrameSize, EmptyInv, Passed, Everywhere
  <2>3. \A d \in Fields : Stored(d, c)' = Stored(d, c)
    BY <2>1, <2>2 DEF Stored, Everywhere
  <2>4. UNCHANGED <<Path, worker, buffers>>
    BY <1>2, OthersKeep
  <2> QED
    BY <1>1, <2>1, <2>3, <2>4 DEF Open
<1>3. ASSUME NEW t \in Threads, CloseStep(t)
      PROVE  \E k \in 0 .. Len(Script[c]) : StreamAt(c, k)'
  <2>1. UNCHANGED <<acq, frames, sent, ended>>
    BY <1>3 DEF CloseStep, card
  <2>2. UNCHANGED <<Path, worker, buffers>>
    BY <1>3, OthersKeep
  <2>3. closing[t] \in Nat /\ closing[t] > 0
    BY <1>0, <1>3 DEF CloseStep, ThreadsOK
  <2>4. CASE closing[t] <= NumFields
    <3>1. /\ closing[t] \in Fields /\ FlushDataset(closing[t])
          /\ closing' = [closing EXCEPT ![t] = @ + 1] /\ UNCHANGED complete
      BY <1>3, <2>3, <2>4, ConstantTypes DEF CloseStep, Fields
    <3>2. \A d \in Fields : Stored(d, c)' = Stored(d, c)
      BY <1>0, <3>1, FlushStores
    <3>3. Open' => Open
      BY <1>0, <3>1 DEF Open, ThreadsOK, Threads
    <3> QED
      BY <1>1, <2>1, <2>2, <3>2, <3>3
  <2>5. CASE ~(closing[t] <= NumFields)
    <3>1. complete' = TRUE /\ UNCHANGED <<log, block>>
      BY <1>3, <2>5 DEF CloseStep, memory
    <3> QED
      BY <1>1, <2>1, <2>2, <3>1 DEF Stored, Open
  <2> QED
    BY <2>4, <2>5
<1>4. CASE Flush \/ StopCard \/ ResetStatistics \/ UNCHANGED seen
  <2>1. /\ UNCHANGED <<acq, frames, sent, ended, log, block, complete>>
        /\ closing' = closing \/ closing' = [closing EXCEPT !["control"] = 1]
    BY <1>4 DEF Flush, StopCard, ResetStatistics, seen, card, state, memory, threads
  <2>2. UNCHANGED <<Path, worker, buffers>>
    BY <1>4, OthersKeep
  <2>3. Open' => Open
    BY <1>0, <2>1 DEF Open, ThreadsOK, Threads
  <2> QED
    BY <1>1, <2>1, <2>2, <2>3 DEF Stored
<1>5. CASE Reads
  <2>1. UNCHANGED <<acq, frames, sent, ended, log, block, complete, closing>>
    BY <1>5 DEF Reads, ReadPart, ReadWhole, ReadRest, Completed, card, state,
                memory, threads
  <2>2. /\ UNCHANGED <<Path, worker>>
        /\ worker.busy => buffers'[worker.buf] = buffers[worker.buf]
    BY <1>5, ReadsKeep
  <2> QED
    BY <1>1, <2>1, <2>2 DEF Stored, Open
<1> QED
  BY <1>2, <1>3, <1>4, <1>5, StreamAdd, StreamTake, StreamSend, StreamStart,
     StreamSkip DEF Steps, Client, Work

LEMMA StreamInit == Init => StreamInv
<1> SUFFICES ASSUME Init, NEW c \in Channels
             PROVE  0 \in 0 .. Len(Script[c]) /\ StreamAt(c, 0)
  BY DEF StreamInv
<1>1. /\ wire = <<>> /\ ready = <<>> /\ ~worker.busy
      /\ \A d \in Fields : log[d][c] = <<>> /\ block[d][c] = <<>>
      /\ sent[c] = 0 /\ ~ended[c]
  BY DEF Init, Idle, Everywhere, Sources
<1>2. Path = <<>> /\ ~Adding(c)
  BY <1>1 DEF Path, PathOf, Adding
<1>3. Holds(c, 0)
  <2> SUFFICES ASSUME NEW d \in Fields
               PROVE  Stored(d, c) = Events(c, 0 + Ahead(d, c))
    BY DEF Holds
  <2>1. RowsOf(<<>>) = <<>>
    <3>1. RowLists(<<>>) = <<>>
      BY DEF RowLists
    <3> QED
      BY <3>1, RowsOfIs, FlattenEmpty
  <2>2. Stored(d, c) = <<>>
    BY <1>1, <2>1 DEF Stored
  <2>3. Events(c, 0) = <<>>
    BY EventsAre, EventsNone
  <2>4. 0 + Ahead(d, c) = 0
    BY <1>2 DEF Ahead
  <2> QED
    BY <2>2, <2>3, <2>4
<1>4. OnWay(c, 0)
  <2>1. 0 + Left(c) = 0 /\ Chain(<<>>, c, 0, 0)
    BY <1>2, ChainEmpty DEF Left
  <2> QED
    BY <1>1, <1>2, <2>1 DEF OnWay
<1> QED
  BY <1>1, <1>3, <1>4, ItemTyped DEF StreamAt, Sources

-----------------------------------------------------------------------------
StreamsInv ==
  /\ TypeInv /\ CloseInv /\ RingInv /\ HeldInv
  /\ Drained => PathInv /\ EndInv /\ EmptyInv /\ StreamInv

LEMMA StreamsInvariant == ASSUME Racing = FALSE PROVE Spec => []StreamsInv
<1>1. Init => StreamsInv
  BY TypeInit, CloseInit, RingInit, StepInit, PathInit, EndInit, StreamInit
     DEF StreamsInv
<1>2. StreamsInv /\ [Steps]_seen => StreamsInv'
  BY TypeStep, CloseStepInv, RingStep, HeldStep, PathStep, EndStep, EmptyStep,
     StreamStep DEF StreamsInv
<1> QED
  BY <1>1, <1>2, Visible, PTL DEF Spec

(* When no flush request runs during a packet, and an acquisition begins   *)
(* only with nothing of the one before on its way, every dataset has the   *)
(* first events of its channel in the acquisition, in the order the card   *)
(* sent them: none twice, none left out, and none of another channel, up   *)
(* to a read that goes into the next message.                              *)
THEOREM RowsInOrder == ASSUME Racing = FALSE PROVE Spec => []RowsAreEvents
<1>1. StreamsInv => RowsAreEvents
  <2> SUFFICES ASSUME StreamsInv, Drained, NEW d \in Fields, NEW c \in Channels
               PROVE  IsPrefix(Stored(d, c), EventsOf(c))
    BY DEF RowsAreEvents
  <2>0. CardOK /\ StateOK
    BY DEF SeenOK, StreamsInv, TypeInv
  <2>1. PICK m \in 0 .. Len(Script[c]) : StreamAt(c, m)
    BY DEF StreamsInv, StreamInv
  <2>2. m \in Nat /\ Len(Script[c]) \in Nat /\ acq \in Nat
    BY <2>0, ItemTyped, ConstantTypes DEF Sources, CardOK
  <2>3. PICK k \in Nat : k = m + Ahead(d, c) /\ k <= Len(Script[c])
    <3>1. CASE Adding(c)
      <4>1. OnWay(c, m)
        <5>1. Open
          BY <3>1 DEF StreamsInv, CloseInv, Adding, Open, NotClosing, Threads
        <5> QED
          BY <2>1, <5>1 DEF StreamAt
      <4>2. m + 1 \in 1 .. Len(Script[c])
        BY <2>2, <3>1, <4>1, ItemUnderWay DEF StreamsInv
      <4>3. Ahead(d, c) \in 0 .. 1
        BY DEF Ahead
      <4> QED
        BY <2>2, <4>2, <4>3
    <3>2. CASE ~Adding(c)
      BY <2>2, <3>2 DEF Ahead
    <3> QED
      BY <3>1, <3>2
  <2>4. Stored(d, c) = EventsIn(acq, frames, c, k)
    BY <2>1, <2>3, EventsAre DEF StreamAt, Holds
  <2>5. EventsOf(c) = EventsIn(acq, frames, c, Len(Script[c]))
    BY EventsAre DEF EventsOf
  <2>6. IsPrefix(EventsIn(acq, frames, c, k),
                 EventsIn(acq, frames, c, Len(Script[c])))
    BY <2>2, <2>3, EventsInOrder
  <2> QED
    BY <2>4, <2>5, <2>6
<1> QED
  BY <1>1, StreamsInvariant, PTL

(* Under the same conditions an acquisition that was not flushed is marked *)
(* complete only when every event of every channel is in the frames pushed *)
(* and no block has rows left; again up to a read that goes too far.       *)
THEOREM CompleteIsAll == ASSUME Racing = FALSE PROVE Spec => []CompleteMeansAll
<1>1. StreamsInv => CompleteMeansAll
  <2> SUFFICES ASSUME StreamsInv, Drained, complete, ~flushed,
                      NEW d \in Fields, NEW c \in Channels
               PROVE  Stored(d, c) = EventsOf(c) /\ block[d][c] = <<>>
    BY DEF CompleteMeansAll
  <2>0. CardOK /\ StateOK
    BY DEF SeenOK, StreamsInv, TypeInv
  <2>1. PICK m \in 0 .. Len(Script[c]) : StreamAt(c, m)
    BY DEF StreamsInv, StreamInv
  <2>2. m \in Nat /\ Len(Script[c]) \in Nat /\ acq \in Nat /\ m <= Len(Script[c])
    BY <2>0, ItemTyped, ConstantTypes DEF Sources, CardOK
  <2>3. ended[c] /\ ~Adding(c)
    BY DEF StreamsInv, EndInv, CloseInv, Adding
  <2>4. AllIn(c, m)
    BY <2>1, <2>3 DEF StreamAt
  <2>5. Stored(d, c) = EventsIn(acq, frames, c, m)
    <3>1. m + Ahead(d, c) = m
      BY <2>2, <2>3 DEF Ahead
    <3> QED
      BY <2>1, <3>1, EventsAre DEF StreamAt, Holds
  <2>6. EventsIn(acq, frames, c, Len(Script[c])) = EventsIn(acq, frames, c, m)
    <3>1. \A n \in m + 1 .. Len(Script[c]) : ~WantedIn(frames, c, n)
      BY <2>4 DEF AllIn, Wanted, WantedIn
    <3> QED
      BY <2>2, <3>1, EventsEnd
  <2>7. EventsOf(c) = EventsIn(acq, frames, c, Len(Script[c]))
    BY EventsAre DEF EventsOf
  <2>8. block[d][c] = <<>>
    BY DEF StreamsInv, EmptyInv, Passed
  <2> QED
    BY <2>5, <2>6, <2>7, <2>8
<1> QED
  BY <1>1, StreamsInvariant, PTL
=============================================================================
