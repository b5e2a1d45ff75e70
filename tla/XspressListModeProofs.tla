------------------------ MODULE XspressListModeProofs ------------------------
(***************************************************************************)
(* Theorems about XspressListMode, for every card, block size, number of   *)
(* buffers and client.                                                     *)
(***************************************************************************)
EXTENDS XspressListMode, SequenceLemmas, TLAPS

-----------------------------------------------------------------------------
(* Before the first acquisition no channel has anything to send.           *)
Started == acq = 0 => Finished

TypeInv == TypeOK /\ Started

(* What the constants are, one by one.                                     *)
LEMMA ConstantTypes ==
  /\ PacketsPerFrame \in Nat \ {0} /\ NumBuffers \in Nat \ {0}
  /\ MaxAcqs \in Nat /\ MaxFlushes \in Nat
  /\ \A n \in Sizes : n \in Nat \ {0}
  /\ Script \in [Channels -> Seq([len : Nat \ {0}, last : BOOLEAN])]
  BY ListModeAssumption

(* A queue that is not empty has a head and a tail.                        *)
LEMMA Queue ==
  ASSUME NEW S, NEW q \in Seq(S), q # <<>>
  PROVE  /\ Head(q) \in S /\ Tail(q) \in Seq(S)
         /\ Len(q) \in Nat \ {0} /\ Len(Tail(q)) = Len(q) - 1
         /\ (Len(q) = 1) <=> (Tail(q) = <<>>)
<1>1. /\ Head(q) \in S /\ Tail(q) \in Seq(S)
      /\ Len(q) \in Nat \ {0} /\ Len(Tail(q)) = Len(q) - 1
  OBVIOUS
<1>2. Tail(q) = <<>> <=> Len(Tail(q)) = 0
  BY <1>1, EmptySeq
<1> QED
  BY <1>1, <1>2

LEMMA Element ==
  ASSUME NEW S, NEW q \in Seq(S), NEW i \in DOMAIN q
  PROVE  q[i] \in S
  OBVIOUS

LEMMA Appended ==
  ASSUME NEW S, NEW q \in Seq(S), NEW x \in S
  PROVE  /\ Append(q, x) \in Seq(S) /\ Len(Append(q, x)) = Len(q) + 1
         /\ Len(q) \in Nat /\ Append(q, x) # <<>>
  OBVIOUS

(* What leaves the card is a packet, no longer than a block.               *)
LEMMA PacketTyped ==
  ASSUME TypeInv, NEW c \in Channels, pos[c] < Len(Script[c])
  PROVE  Packet(c) \in Packets /\ Packet(c).ch = c
<1>1. acq \in 1 .. MaxAcqs
  BY ConstantTypes DEF TypeInv, TypeOK, Started, Finished
<1>2. pos[c] + 1 \in DOMAIN Script[c]
  BY ConstantTypes DEF TypeInv, TypeOK
<1>3. Script[c][pos[c] + 1] \in [len : Nat \ {0}, last : BOOLEAN]
  <2>1. Script[c] \in Seq([len : Nat \ {0}, last : BOOLEAN])
    BY ConstantTypes
  <2> QED
    BY <1>2, <2>1, Element
<1> QED
  BY <1>1, <1>2, <1>3 DEF Packet, Packets, TypeInv, TypeOK

(* A packet leaves; the type of what the decoder does not touch stays.     *)
LEMMA LeavesTyped ==
  ASSUME TypeInv, NEW c \in Channels, Leaves(c)
  PROVE  /\ pos' \in [Channels -> Nat]
         /\ \A d \in Channels : pos'[d] <= Len(Script[d])
         /\ Started'
<1>1. Len(Script[c]) \in Nat
  BY ConstantTypes
<1>2. pos' \in [Channels -> Nat] /\ \A d \in Channels : pos'[d] <= Len(Script[d])
  <2>1. /\ pos \in [Channels -> Nat] /\ pos' = [pos EXCEPT ![c] = pos[c] + 1]
        /\ \A d \in Channels : pos[d] <= Len(Script[d])
        /\ pos[c] < Len(Script[c])
    BY DEF TypeInv, TypeOK, Leaves
  <2>2. pos[c] + 1 <= Len(Script[c])
    BY <1>1, <2>1
  <2>3. pos'[c] = pos[c] + 1 /\ \A d \in Channels \ {c} : pos'[d] = pos[d]
    BY <2>1
  <2> QED
    BY <2>1, <2>2, <2>3
<1>3. acq' = acq /\ acq # 0
  BY <1>1 DEF TypeInv, TypeOK, Leaves, Started, Finished
<1> QED
  BY <1>2, <1>3 DEF Started

(* The decoder keeps the buffers shared out.                               *)
LEMMA KeepTyped ==
  ASSUME TypeInv, NEW p \in Packets, Keep(p), work' = work
  PROVE  /\ holding' \in BOOLEAN
         /\ cur' \in Seq(Packets) /\ Len(cur') < PacketsPerFrame
         /\ ready' \in Seq(Seq(Packets) \ {<<>>})
         /\ free' \in Nat /\ InUse' = NumBuffers
<1> DEFINE packets == Append(cur, p)
<1>1. /\ packets \in Seq(Packets) \ {<<>>} /\ Len(packets) = Len(cur) + 1
      /\ Len(cur) \in Nat
  BY Appended DEF TypeInv, TypeOK
<1>2. Complete(packets, p) \in BOOLEAN
  BY DEF Complete, Packets
<1>3. holding' \in BOOLEAN /\ (holding' <=> ~Complete(packets, p))
  BY <1>2 DEF Keep
<1>4. cur' \in Seq(Packets) /\ Len(cur') < PacketsPerFrame
  <2>1. CASE Complete(packets, p)
    <3>1. cur' = <<>> /\ PacketsPerFrame \in Nat \ {0}
      BY <2>1, ConstantTypes DEF Keep, Kept
    <3>2. <<>> \in Seq(Packets) /\ Len(<<>>) = 0
      OBVIOUS
    <3> QED
      BY <3>1, <3>2
  <2>2. CASE ~Complete(packets, p)
    <3>1. cur' = packets /\ Len(packets) # PacketsPerFrame
      BY <2>2 DEF Keep, Kept, Complete
    <3>2. Len(cur) < PacketsPerFrame /\ PacketsPerFrame \in Nat
      BY ConstantTypes DEF TypeInv, TypeOK
    <3> HIDE DEF packets
    <3>3. Len(packets) < PacketsPerFrame
      BY <1>1, <3>1, <3>2
    <3> QED
      BY <1>1, <3>1, <3>3
  <2> QED
    BY <2>1, <2>2
<1>5. /\ ready' \in Seq(Seq(Packets) \ {<<>>})
      /\ Len(ready') = Len(ready) + (IF Complete(packets, p) THEN 1 ELSE 0)
  <2>1. ready \in Seq(Seq(Packets) \ {<<>>})
    BY DEF TypeInv, TypeOK
  <2>2. ready' = IF Complete(packets, p) THEN Append(ready, packets) ELSE ready
    BY DEF Keep
  <2>3. /\ Append(ready, packets) \in Seq(Seq(Packets) \ {<<>>})
        /\ Len(Append(ready, packets)) = Len(ready) + 1
    BY <1>1, <2>1, Appended
  <2>4. Len(ready) + 0 = Len(ready)
    BY <2>1
  <2> QED
    BY <2>1, <2>2, <2>3, <2>4
<1>6. free' \in Nat /\ free' = IF holding THEN free ELSE free - 1
  BY DEF Keep, TypeInv, TypeOK
<1>7. InUse' = NumBuffers
  <2>1. /\ free \in Nat /\ InUse = NumBuffers /\ holding \in BOOLEAN
        /\ Len(ready) \in Nat
    BY DEF TypeInv, TypeOK
  <2>2. CASE holding /\ Complete(packets, p)
    BY <1>3, <1>5, <1>6, <2>1, <2>2 DEF InUse
  <2>3. CASE holding /\ ~Complete(packets, p)
    BY <1>3, <1>5, <1>6, <2>1, <2>3 DEF InUse
  <2>4. CASE ~holding /\ Complete(packets, p)
    BY <1>3, <1>5, <1>6, <2>1, <2>4 DEF InUse
  <2>5. CASE ~holding /\ ~Complete(packets, p)
    BY <1>3, <1>5, <1>6, <2>1, <2>5 DEF InUse
  <2> QED
    BY <1>2, <2>1, <2>2, <2>3, <2>4, <2>5
<1> QED
  BY <1>3, <1>4, <1>5, <1>6, <1>7

(* A packet dropped takes no buffer.                                       *)
LEMMA DropTyped ==
  ASSUME TypeInv, NEW p, Drop(p), work' = work
  PROVE  /\ holding' \in BOOLEAN
         /\ cur' \in Seq(Packets) /\ Len(cur') < PacketsPerFrame
         /\ ready' \in Seq(Seq(Packets) \ {<<>>})
         /\ free' \in Nat /\ InUse' = NumBuffers
  BY DEF Drop, TypeInv, TypeOK, InUse

-----------------------------------------------------------------------------
(* The words of a packet.                                                  *)
LEMMA DataTyped ==
  ASSUME NEW p \in Packets
  PROVE  /\ CountOf(p) \in Words
         /\ Data(p) \in Seq(Words) /\ Len(Data(p)) = p.len
         /\ p.len \in Nat \ {0} /\ p.ch \in Channels
         /\ \A n \in Sizes : p.len < n
<1>1. /\ p.acq \in 0 .. MaxAcqs /\ p.k \in Nat /\ p.len \in Nat \ {0}
      /\ p.ch \in Channels
  BY ConstantTypes DEF Packets
<1>2. \A i \in Nat : Word(p, i) \in Words
  BY <1>1 DEF Word, Words
<1>3. Data(p) \in [1 .. p.len -> Words]
  BY <1>1, <1>2 DEF Data
<1>4. \A n \in Sizes : p.len < n
  BY BlocksHoldPackets DEF Packets
<1> QED
  BY <1>1, <1>2, <1>3, <1>4 DEF CountOf

(* A packet shorter than the block, added to a block that has room for a   *)
(* word, leaves a block that has, and pushes whole blocks only.            *)
LEMMA AddBlockTyped ==
  ASSUME TypeInv, NEW b \in Seq(Words), Len(b) < size, NEW n \in Nat,
         NEW p \in Packets, p.len < size
  PROVE  /\ AddBlock(b, n, p).block \in Seq(Words)
         /\ Len(AddBlock(b, n, p).block) < size
         /\ \/ AddBlock(b, n, p).frames = <<>>
            \/ \E f \in Frames :
                 /\ AddBlock(b, n, p).frames = <<f>>
                 /\ f.num = n /\ Len(f.data) = size
<1> DEFINE counted == Append(b, CountOf(p))
           full    == ToFull(b, p)
<1>1. size \in Nat \ {0} /\ Len(b) \in Nat
  BY ConstantTypes DEF TypeInv, TypeOK
<1>2. /\ CountOf(p) \in Words /\ Data(p) \in Seq(Words)
      /\ Len(Data(p)) = p.len /\ p.len \in Nat \ {0}
  BY DataTyped
<1>3. counted \in Seq(Words) /\ Len(counted) = Len(b) + 1
  BY <1>2, Appended
<1>4. CASE Fits(b, p)
  <2>1. AddBlock(b, n, p) = [block |-> counted \o Data(p), frames |-> <<>>]
    BY <1>4 DEF AddBlock
  <2>2. /\ counted \o Data(p) \in Seq(Words)
        /\ Len(counted \o Data(p)) = Len(counted) + Len(Data(p))
    BY <1>2, <1>3
  <2> QED
    BY <1>1, <1>2, <1>3, <1>4, <2>1, <2>2 DEF Fits
<1>5. CASE ~Fits(b, p)
  <2> DEFINE head == SubSeq(Data(p), 1, full)
             rest == SubSeq(Data(p), full + 1, p.len)
  <2>1. full \in Nat /\ full = size - Len(b) - 1 /\ full <= p.len
    BY <1>1, <1>2, <1>5 DEF Fits, ToFull
  <2>2. head \in Seq(Words) /\ Len(head) = full
    BY <1>2, <2>1
  <2>3. rest \in Seq(Words) /\ Len(rest) = p.len - full
    BY <1>2, <2>1
  <2>4. /\ counted \o head \in Seq(Words)
        /\ Len(counted \o head) = Len(counted) + Len(head)
    BY <1>3, <2>2
  <2>5. AddBlock(b, n, p) =
          [block |-> rest, frames |-> <<Frame(n, counted \o head)>>]
    BY <1>5 DEF AddBlock, Rest
  <2> HIDE DEF head, rest, counted, full
  <2>6. Len(counted \o head) = size
    BY <1>1, <1>3, <2>1, <2>2, <2>4
  <2>7. /\ Frame(n, counted \o head) \in Frames
        /\ Frame(n, counted \o head).num = n
        /\ Len(Frame(n, counted \o head).data) = size
    BY <2>4, <2>6 DEF Frame, Frames
  <2>8. p.len - full < size
    BY <1>1, <1>2, <2>1
  <2>9. /\ AddBlock(b, n, p).block = rest
        /\ AddBlock(b, n, p).frames = <<Frame(n, counted \o head)>>
    BY <2>5
  <2> QED
    BY <2>3, <2>7, <2>8, <2>9
<1> QED
  BY <1>4, <1>5

(* The frame of a flushed block is whole.                                  *)
LEMMA ToFrameTyped ==
  ASSUME TypeInv, NEW c \in Channels
  PROVE  /\ ToFrame(c) \in Frames /\ ToFrame(c).num = count[c]
         /\ Len(ToFrame(c).data) = size
<1>1. size \in Nat /\ block[c] \in Seq(Words) /\ count[c] \in Nat
  BY ConstantTypes DEF TypeInv, TypeOK
<1>2. Zero \in Words
  BY ConstantTypes DEF Zero, Words
<1>3. Padded(block[c]) \in [1 .. size -> Words]
  BY <1>1, <1>2, Element DEF Padded
<1> QED
  BY <1>1, <1>3 DEF ToFrame, Frame, Frames

-----------------------------------------------------------------------------
(* What a step of the plugin does to its blocks.                           *)
LEMMA ProcessPacketTyped ==
  ASSUME TypeInv, ProcessPacket
  PROVE  /\ block' \in [Channels -> Seq(Words)]
         /\ \A c \in Channels : Len(block'[c]) < size'
         /\ count' \in [Channels -> Nat] /\ out' \in [Channels -> Seq(Frames)]
<1> DEFINE p == Head(work)
           c == p.ch
           a == AddBlock(block[c], count[c], p)
<1>1. p \in Packets
  BY Queue DEF ProcessPacket, Done, TypeInv, TypeOK
<1>2. c \in Channels /\ p.len < size
  BY <1>1, DataTyped DEF TypeInv, TypeOK
<1>3. /\ block[c] \in Seq(Words) /\ Len(block[c]) < size
      /\ count[c] \in Nat /\ out[c] \in Seq(Frames)
  BY <1>2 DEF TypeInv, TypeOK
<1>4. /\ a.block \in Seq(Words) /\ Len(a.block) < size
      /\ a.frames \in Seq(Frames) /\ Len(a.frames) \in Nat
  <2>1. /\ a.block \in Seq(Words) /\ Len(a.block) < size
        /\ \/ a.frames = <<>>
           \/ \E f \in Frames : a.frames = <<f>>
    BY <1>1, <1>2, <1>3, AddBlockTyped
  <2>2. \A f \in Frames : <<f>> \in Seq(Frames) /\ Len(<<f>>) = 1
    OBVIOUS
  <2>3. <<>> \in Seq(Frames)
    OBVIOUS
  <2> HIDE DEF a
  <2>4. a.frames \in Seq(Frames)
    BY <2>1, <2>2, <2>3
  <2> QED
    BY <2>1, <2>4
<1>5. /\ block' = [block EXCEPT ![c] = a.block] /\ size' = size
      /\ count' = [count EXCEPT ![c] = count[c] + Len(a.frames)]
      /\ out' = [out EXCEPT ![c] = out[c] \o a.frames]
  BY DEF ProcessPacket, Done
<1>6. count[c] + Len(a.frames) \in Nat /\ out[c] \o a.frames \in Seq(Frames)
  BY <1>3, <1>4
<1>7. /\ block \in [Channels -> Seq(Words)]
      /\ \A d \in Channels : Len(block[d]) < size
      /\ count \in [Channels -> Nat] /\ out \in [Channels -> Seq(Frames)]
  BY DEF TypeInv, TypeOK
<1> HIDE DEF a, c
<1> QED
  BY <1>2, <1>4, <1>5, <1>6, <1>7

(* Done releases the buffer with its last packet.                          *)
LEMMA DoneTyped ==
  ASSUME TypeInv, Done
  PROVE  /\ work' \in Seq(Packets) /\ free' \in Nat /\ InUse' = NumBuffers
         /\ Started' /\ Head(work) \in Packets
<1>1. /\ work \in Seq(Packets) /\ work # <<>> /\ work' = Tail(work)
      /\ free \in Nat /\ InUse = NumBuffers
      /\ free' = IF Len(work) = 1 THEN free + 1 ELSE free
      /\ holding' = holding /\ ready' = ready
  BY DEF Done, decoder, TypeInv, TypeOK
<1>2. /\ work' \in Seq(Packets) /\ Head(work) \in Packets
      /\ (Len(work) = 1) <=> (work' = <<>>)
  BY <1>1, Queue
<1>3. free' \in Nat
  BY <1>1
<1>4. InUse' = NumBuffers
  <2>1. Len(ready) \in Nat /\ holding \in BOOLEAN
    BY DEF TypeInv, TypeOK
  <2>2. CASE Len(work) = 1
    BY <1>1, <1>2, <2>1, <2>2 DEF InUse
  <2>3. CASE Len(work) # 1
    BY <1>1, <1>2, <2>1, <2>3 DEF InUse
  <2> QED
    BY <2>2, <2>3
<1>5. Started'
  BY DEF Done, card, TypeInv, Started, Finished
<1> QED
  BY <1>2, <1>3, <1>4, <1>5

(* The plugin takes a buffer, which is not empty.                          *)
LEMMA TakeTyped ==
  ASSUME TypeInv, Take
  PROVE  /\ work' \in Seq(Packets)
         /\ ready' \in Seq(Seq(Packets) \ {<<>>}) /\ InUse' = NumBuffers
<1>1. /\ ready \in Seq(Seq(Packets) \ {<<>>}) /\ ready # <<>> /\ work = <<>>
      /\ work' = Head(ready) /\ ready' = Tail(ready)
      /\ free' = free /\ holding' = holding
      /\ free \in Nat /\ holding \in BOOLEAN /\ InUse = NumBuffers
  BY DEF Take, decoder, TypeInv, TypeOK
<1>2. /\ work' \in Seq(Packets) \ {<<>>}
      /\ ready' \in Seq(Seq(Packets) \ {<<>>})
      /\ Len(ready) \in Nat \ {0} /\ Len(ready') = Len(ready) - 1
  BY <1>1, Queue
<1>3. work' # <<>>
  BY <1>2
<1>4. InUse' = NumBuffers
  <2>1. InUse = free + Len(ready) + 0 + (IF holding THEN 1 ELSE 0)
    BY <1>1 DEF InUse
  <2>2. InUse' = free + Len(ready') + 1 + (IF holding THEN 1 ELSE 0)
    BY <1>1, <1>3 DEF InUse
  <2> QED
    BY <1>1, <1>2, <2>1, <2>2
<1> QED
  BY <1>2, <1>4

-----------------------------------------------------------------------------
(* What stays as it is keeps its type.                                     *)
LEMMA PluginStays ==
  ASSUME TypeOK, UNCHANGED plugin, UNCHANGED <<out, flushes, grown>>
  PROVE  /\ size' \in Sizes /\ known' \subseteq Channels /\ channels' \subseteq known'
         /\ block' \in [Channels -> Seq(Words)]
         /\ \A c \in Channels : Len(block'[c]) < size'
         /\ count' \in [Channels -> Nat] /\ out' \in [Channels -> Seq(Frames)]
         /\ crashed' \in BOOLEAN /\ flushes' \in 0 .. MaxFlushes
         /\ grown' \in BOOLEAN
  BY DEF plugin, TypeOK

LEMMA DecoderStays ==
  ASSUME TypeInv, UNCHANGED <<card, decoder, buffers>>
  PROVE  /\ acq' \in 0 .. MaxAcqs /\ pos' \in [Channels -> Nat]
         /\ \A c \in Channels : pos'[c] <= Len(Script[c])
         /\ initialising' \in BOOLEAN /\ holding' \in BOOLEAN
         /\ cur' \in Seq(Packets) /\ Len(cur') < PacketsPerFrame
         /\ ready' \in Seq(Seq(Packets) \ {<<>>}) /\ work' \in Seq(Packets)
         /\ free' \in Nat /\ InUse' = NumBuffers
         /\ Started'
  BY DEF card, decoder, buffers, TypeInv, TypeOK, InUse, Started, Finished

(* A new start clears the blocks.                                          *)
LEMMA AnewTyped ==
  ASSUME TypeInv, Anew, size' \in Sizes
  PROVE  /\ block' \in [Channels -> Seq(Words)]
         /\ \A c \in Channels : Len(block'[c]) < size'
         /\ count' \in [Channels -> Nat] /\ out' \in [Channels -> Seq(Frames)]
<1>1. block' = NoPackets /\ out' = NoPackets /\ count' = [c \in Channels |-> 0]
  BY DEF Anew
<1>2. size' \in Nat \ {0}
  BY ConstantTypes
<1> QED
  BY <1>1, <1>2 DEF NoPackets

-----------------------------------------------------------------------------
LEMMA InitTyped == Init => TypeInv
<1> SUFFICES ASSUME Init PROVE TypeInv
  OBVIOUS
<1>1. \A c \in Channels : Len(Script[c]) \in Nat
  BY ConstantTypes
<1>2. Started
  BY <1>1 DEF Init, Started, Finished
<1>3. block \in [Channels -> Seq(Words)] /\ out \in [Channels -> Seq(Frames)]
  BY DEF Init, NoPackets
<1>4. \A c \in Channels : Len(block[c]) < size
  BY ConstantTypes DEF Init, NoPackets
<1>5. InUse = NumBuffers
  BY ConstantTypes DEF Init, InUse
<1>6. /\ acq \in 0 .. MaxAcqs /\ flushes \in 0 .. MaxFlushes
      /\ Len(cur) < PacketsPerFrame /\ free \in Nat
  BY ConstantTypes DEF Init
<1>7. /\ pos \in [Channels -> Nat]
      /\ \A c \in Channels : pos[c] <= Len(Script[c])
  BY <1>1 DEF Init
<1>8. /\ cur \in Seq(Packets) /\ ready \in Seq(Seq(Packets) \ {<<>>})
      /\ work \in Seq(Packets) /\ count \in [Channels -> Nat]
  BY DEF Init
<1>9. /\ initialising \in BOOLEAN /\ holding \in BOOLEAN /\ size \in Sizes
      /\ known \subseteq Channels /\ channels \subseteq known
      /\ crashed \in BOOLEAN /\ whole \in BOOLEAN /\ grown \in BOOLEAN
  BY DEF Init
<1> QED
  BY <1>2, <1>3, <1>4, <1>5, <1>6, <1>7, <1>8, <1>9 DEF TypeInv, TypeOK

LEMMA ReceiveTyped ==
  ASSUME TypeInv, NEW c \in Channels, Receive(c)
  PROVE  TypeInv'
<1>1. Packet(c) \in Packets
  BY PacketTyped DEF Receive, Leaves
<1>2. /\ pos' \in [Channels -> Nat] /\ Started'
      /\ \A d \in Channels : pos'[d] <= Len(Script[d])
  BY LeavesTyped DEF Receive
<1>3. /\ acq' = acq /\ work' = work /\ UNCHANGED plugin
      /\ UNCHANGED <<out, flushes, grown>> /\ whole' = whole
      /\ initialising' \in {FALSE, initialising}
  BY DEF Receive, Leaves
<1>4. /\ holding' \in BOOLEAN
      /\ cur' \in Seq(Packets) /\ Len(cur') < PacketsPerFrame
      /\ ready' \in Seq(Seq(Packets) \ {<<>>})
      /\ free' \in Nat /\ InUse' = NumBuffers
  BY <1>1, <1>3, KeepTyped, DropTyped DEF Receive
<1> QED
  BY <1>2, <1>3, <1>4, PluginStays DEF TypeInv, TypeOK

LEMMA LoseTyped ==
  ASSUME TypeInv, NEW c \in Channels, Lose(c)
  PROVE  TypeInv'
<1>1. /\ pos' \in [Channels -> Nat] /\ Started'
      /\ \A d \in Channels : pos'[d] <= Len(Script[d])
  BY LeavesTyped DEF Lose
<1>2. /\ acq' = acq /\ UNCHANGED plugin /\ UNCHANGED <<out, flushes, grown>>
      /\ whole' = FALSE /\ UNCHANGED <<decoder, free, ready, work>>
  BY DEF Lose, Leaves
<1>3. InUse' = NumBuffers
  BY <1>2 DEF InUse, decoder, TypeInv, TypeOK
<1> QED
  BY <1>1, <1>2, <1>3, PluginStays DEF TypeInv, TypeOK, decoder

LEMMA ProcessTyped ==
  ASSUME TypeInv, Process
  PROVE  TypeInv'
<1>1. CASE Take
  <2>1. /\ work' \in Seq(Packets)
        /\ ready' \in Seq(Seq(Packets) \ {<<>>}) /\ InUse' = NumBuffers
    BY <1>1, TakeTyped
  <2>2. UNCHANGED <<card, decoder, free, plugin, out, flushes, history>>
    BY <1>1 DEF Take
  <2> QED
    BY <2>1, <2>2, PluginStays
       DEF card, decoder, history, TypeInv, TypeOK, Started, Finished
<1>2. CASE Done /\ ~Take
  <2>1. /\ work' \in Seq(Packets) /\ free' \in Nat /\ InUse' = NumBuffers
        /\ Started'
    BY <1>2, DoneTyped
  <2>2. UNCHANGED <<card, decoder, ready, size, known, channels, flushes>>
    BY <1>2 DEF Done
  <2>3. /\ block' \in [Channels -> Seq(Words)]
        /\ \A c \in Channels : Len(block'[c]) < size'
        /\ count' \in [Channels -> Nat] /\ out' \in [Channels -> Seq(Frames)]
        /\ crashed' \in BOOLEAN /\ whole' \in BOOLEAN /\ grown' \in BOOLEAN
    <3>1. CASE ProcessPacket
      BY <3>1, ProcessPacketTyped DEF ProcessPacket, history, TypeInv, TypeOK
    <3>2. CASE SkipPacket
      BY <3>2, <2>2 DEF SkipPacket, TypeInv, TypeOK
    <3>3. CASE MissBlock
      BY <3>3, <2>2 DEF MissBlock, history, TypeInv, TypeOK
    <3> QED
      BY <1>2, <3>1, <3>2, <3>3 DEF Process
  <2> QED
    BY <2>1, <2>2, <2>3 DEF card, decoder, TypeInv, TypeOK
<1> QED
  BY <1>1, <1>2 DEF Process, ProcessPacket, SkipPacket, MissBlock

LEMMA ClientTyped ==
  ASSUME TypeInv, Client
  PROVE  TypeInv'
<1>1. ASSUME NEW s \in SUBSET Channels, SetChannels(s)
      PROVE  TypeInv'
  <2>1. /\ known' = known \cup s /\ channels' = s /\ grown' \in BOOLEAN
        /\ size' = size /\ UNCHANGED <<card, decoder, buffers>>
        /\ UNCHANGED <<crashed, flushes, whole>> /\ Anew
    BY <1>1 DEF SetChannels, Allocated, AnewOnly, TypeInv, TypeOK
  <2> QED
    BY <2>1, DecoderStays, AnewTyped DEF TypeInv, TypeOK
<1>2. ASSUME NEW n \in Sizes, SetFrameSize(n)
      PROVE  TypeInv'
  <2>1. /\ size' = n /\ UNCHANGED <<known, channels, grown>>
        /\ UNCHANGED <<card, decoder, buffers>>
        /\ UNCHANGED <<crashed, flushes, whole>> /\ Anew
    BY <1>2 DEF SetFrameSize, AnewOnly
  <2> QED
    BY <2>1, DecoderStays, AnewTyped DEF TypeInv, TypeOK
<1>3. CASE Reset
  <2>1. /\ UNCHANGED <<size, known, channels, grown>>
        /\ UNCHANGED <<card, decoder, buffers>>
        /\ UNCHANGED <<crashed, flushes, whole>> /\ Anew
    BY <1>3 DEF Reset, AnewOnly
  <2> QED
    BY <2>1, DecoderStays, AnewTyped DEF TypeInv, TypeOK
<1>4. CASE Flush
  <2>1. /\ UNCHANGED <<card, decoder, buffers, size, known, channels, crashed, history>>
        /\ flushes' = flushes + 1 /\ flushes < MaxFlushes
    BY <1>4 DEF Flush
  <2>2. flushes' \in 0 .. MaxFlushes
    BY <2>1, ConstantTypes DEF TypeInv, TypeOK
  <2>3. block' \in [Channels -> Seq(Words)]
        /\ \A c \in Channels : Len(block'[c]) < size'
    <3>1. block' = [c \in Channels |-> IF c \in channels THEN <<>> ELSE block[c]]
      BY <1>4 DEF Flush
    <3> QED
      BY <3>1, <2>1, ConstantTypes DEF TypeInv, TypeOK
  <2>4. count' \in [Channels -> Nat]
    BY <1>4 DEF Flush, TypeInv, TypeOK
  <2>5. out' \in [Channels -> Seq(Frames)]
    <3>1. out' = [c \in Channels |->
            IF c \in channels THEN Append(out[c], ToFrame(c)) ELSE out[c]]
      BY <1>4 DEF Flush
    <3>2. \A c \in Channels : out[c] \in Seq(Frames)
                           /\ Append(out[c], ToFrame(c)) \in Seq(Frames)
      BY ToFrameTyped, Appended DEF TypeInv, TypeOK
    <3> QED
      BY <3>1, <3>2
  <2> QED
    BY <2>1, <2>2, <2>3, <2>4, <2>5, DecoderStays DEF TypeInv, TypeOK, history
<1>5. CASE Start
  <2>1. /\ acq < MaxAcqs /\ acq' = acq + 1 /\ pos' = [c \in Channels |-> 0]
        /\ whole' = (whole /\ Quiet) /\ Anew
        /\ UNCHANGED <<decoder, buffers, size, known, channels, crashed, flushes, grown>>
    BY <1>5 DEF Start
  <2>2. acq' \in 0 .. MaxAcqs /\ acq' # 0 /\ whole' \in BOOLEAN
    BY <2>1, ConstantTypes DEF TypeInv, TypeOK
  <2>3. \A c \in Channels : 0 <= Len(Script[c])
    BY ConstantTypes
  <2>4. InUse' = NumBuffers
    BY <2>1 DEF decoder, buffers, InUse, TypeInv, TypeOK
  <2> QED
    BY <2>1, <2>2, <2>3, <2>4, AnewTyped
       DEF decoder, buffers, TypeInv, TypeOK, Started
<1>6. CASE Stop
  <2>1. /\ pos' = [c \in Channels |-> Len(Script[c])] /\ whole' = FALSE
        /\ UNCHANGED <<acq, decoder, buffers, plugin, out, flushes, grown>>
    BY <1>6 DEF Stop
  <2>2. \A c \in Channels : Len(Script[c]) \in Nat
    BY ConstantTypes
  <2>3. InUse' = NumBuffers /\ Finished'
    BY <2>1 DEF decoder, buffers, InUse, Finished, TypeInv, TypeOK
  <2>4. /\ pos' \in [Channels -> Nat]
        /\ \A c \in Channels : pos'[c] <= Len(Script[c])
    BY <2>1, <2>2
  <2>5. TypeOK'
    BY <2>1, <2>3, <2>4, PluginStays DEF decoder, buffers, TypeInv, TypeOK
  <2> QED
    BY <2>3, <2>5 DEF TypeInv, Started
<1> QED
  BY <1>1, <1>2, <1>3, <1>4, <1>5, <1>6 DEF Client

LEMMA NextTyped == TypeInv /\ [Next]_vars => TypeInv'
<1> SUFFICES ASSUME TypeInv, [Next]_vars PROVE TypeInv'
  OBVIOUS
<1>1. CASE UNCHANGED vars
  <2>1. /\ UNCHANGED <<card, decoder, buffers>> /\ UNCHANGED plugin
        /\ UNCHANGED <<out, flushes, grown>> /\ whole' = whole
    BY <1>1 DEF vars, history
  <2> QED
    BY <2>1, DecoderStays, PluginStays DEF TypeInv, TypeOK
<1> QED
  BY <1>1, ClientTyped, ReceiveTyped, LoseTyped, ProcessTyped DEF Next, Decode

LEMMA Invariant == Spec => []TypeInv
  BY InitTyped, NextTyped, PTL DEF Spec

(* The buffers are shared out between receiver and processor, none is lost *)
(* or given twice; the receiver never writes past a buffer nor the plugin  *)
(* past a block, however the packets fall over the ends of the blocks.     *)
THEOREM TypeCorrect == Spec => []TypeOK
<1>1. TypeInv => TypeOK
  BY DEF TypeInv
<1> QED
  BY <1>1, Invariant, PTL

-----------------------------------------------------------------------------
(* The frames of one channel are numbered from 0 and whole.                *)
Numbered(frames, n, length) ==
  /\ frames \in Seq(Frames) /\ n = Len(frames)
  /\ \A k \in DOMAIN frames :
       frames[k].num = k - 1 /\ Len(frames[k].data) = length

(* One more frame with the next number.                                    *)
LEMMA OneMore ==
  ASSUME NEW frames, NEW n, NEW length, Numbered(frames, n, length),
         NEW f \in Frames, f.num = n, Len(f.data) = length
  PROVE  Numbered(Append(frames, f), n + 1, length)
<1>1. /\ frames \in Seq(Frames) /\ n = Len(frames) /\ Len(frames) \in Nat
      /\ \A k \in 1 .. Len(frames) :
           frames[k].num = k - 1 /\ Len(frames[k].data) = length
  BY DEF Numbered
<1>2. /\ Append(frames, f) \in Seq(Frames)
      /\ Len(Append(frames, f)) = Len(frames) + 1
      /\ \A k \in 1 .. Len(frames) : Append(frames, f)[k] = frames[k]
      /\ Append(frames, f)[Len(frames) + 1] = f
      /\ DOMAIN Append(frames, f) = 1 .. Len(frames) + 1
  BY <1>1
<1>3. \A k \in 1 .. Len(frames) + 1 :
        k \in 1 .. Len(frames) \/ k = Len(frames) + 1
  BY <1>1
<1> QED
  BY <1>1, <1>2, <1>3 DEF Numbered

LEMMA NoneNumbered == \A length : Numbered(<<>>, 0, length)
  BY DEF Numbered

AllNumbered == \A c \in Channels : Numbered(out[c], count[c], size)

LEMMA NumberedStep ==
  ASSUME TypeInv, AllNumbered, Next
  PROVE  AllNumbered'
<1>1. ASSUME UNCHANGED <<out, count, size>> PROVE AllNumbered'
  BY <1>1 DEF AllNumbered
<1>2. ASSUME Anew PROVE AllNumbered'
  BY <1>2, NoneNumbered DEF AllNumbered, Anew, NoPackets
<1>3. ASSUME ProcessPacket PROVE AllNumbered'
  <2> DEFINE p == Head(work)
             c == p.ch
             a == AddBlock(block[c], count[c], p)
  <2>1. p \in Packets
    BY <1>3, Queue DEF ProcessPacket, Done, TypeInv, TypeOK
  <2>2. c \in Channels /\ p.len < size
    BY <2>1, DataTyped DEF TypeInv, TypeOK
  <2>3. /\ block[c] \in Seq(Words) /\ Len(block[c]) < size
        /\ count[c] \in Nat /\ out[c] \in Seq(Frames)
    BY <2>2 DEF TypeInv, TypeOK
  <2>4. \/ a.frames = <<>>
        \/ \E f \in Frames :
             a.frames = <<f>> /\ f.num = count[c] /\ Len(f.data) = size
    BY <2>1, <2>2, <2>3, AddBlockTyped
  <2>5. /\ size' = size
        /\ count' = [count EXCEPT ![c] = count[c] + Len(a.frames)]
        /\ out' = [out EXCEPT ![c] = out[c] \o a.frames]
    BY <1>3 DEF ProcessPacket, Done
  <2>6. count \in [Channels -> Nat] /\ out \in [Channels -> Seq(Frames)]
    BY DEF TypeInv, TypeOK
  <2> HIDE DEF a, c
  <2>7. Numbered(out[c] \o a.frames, count[c] + Len(a.frames), size)
    <3>1. Numbered(out[c], count[c], size)
      BY <2>2 DEF AllNumbered
    <3>2. CASE a.frames = <<>>
      <4>1. out[c] \o a.frames = out[c] /\ count[c] + Len(a.frames) = count[c]
        BY <2>3, <3>2
      <4> QED
        BY <3>1, <4>1
    <3>3. ASSUME NEW f \in Frames, a.frames = <<f>>, f.num = count[c],
                 Len(f.data) = size
          PROVE  Numbered(out[c] \o a.frames, count[c] + Len(a.frames), size)
      <4>1. /\ out[c] \o a.frames = Append(out[c], f)
            /\ count[c] + Len(a.frames) = count[c] + 1
        BY <2>3, <3>3
      <4> QED
        BY <3>1, <3>3, <4>1, OneMore
    <3> QED
      BY <2>4, <3>2, <3>3
  <2>8. ASSUME NEW d \in Channels PROVE Numbered(out'[d], count'[d], size')
    <3>1. CASE d = c
      BY <2>5, <2>6, <2>7, <3>1
    <3>2. CASE d # c
      BY <2>5, <2>6, <3>2 DEF AllNumbered
    <3> QED
      BY <3>1, <3>2
  <2> QED
    BY <2>8 DEF AllNumbered
<1>4. ASSUME Flush PROVE AllNumbered'
  <2>1. /\ size' = size
        /\ out' = [c \in Channels |->
             IF c \in channels THEN Append(out[c], ToFrame(c)) ELSE out[c]]
        /\ count' = [c \in Channels |->
             IF c \in channels THEN count[c] + 1 ELSE count[c]]
    BY <1>4 DEF Flush
  <2>2. \A c \in Channels : Numbered(Append(out[c], ToFrame(c)), count[c] + 1, size)
    BY ToFrameTyped, OneMore DEF AllNumbered
  <2> QED
    BY <2>1, <2>2 DEF AllNumbered
<1>5. ASSUME Decode \/ \E c \in Channels : Lose(c) PROVE UNCHANGED <<out, count, size>>
  BY <1>5 DEF Decode, Receive, Lose, Leaves, plugin
<1>6. ASSUME Take \/ SkipPacket \/ MissBlock PROVE UNCHANGED <<out, count, size>>
  BY <1>6 DEF Take, SkipPacket, MissBlock, Done, plugin
<1>7. ASSUME Stop PROVE UNCHANGED <<out, count, size>>
  BY <1>7 DEF Stop, plugin
<1>8. ASSUME Client, ~Flush, ~Stop PROVE Anew
  BY <1>8 DEF Client, SetChannels, SetFrameSize, Reset, Start, AnewOnly
<1> QED
  BY <1>1, <1>2, <1>3, <1>4, <1>5, <1>6, <1>7, <1>8 DEF Next, Process

(* The frames of every dataset are numbered from 0 without a gap and as    *)
(* long as the block.                                                      *)
THEOREM NumbersInOrder == Spec => []FramesNumbered
<1>1. Init => AllNumbered
  BY NoneNumbered DEF Init, AllNumbered, NoPackets
<1>2. TypeInv /\ AllNumbered /\ [Next]_vars => AllNumbered'
  <2> SUFFICES ASSUME TypeInv, AllNumbered, [Next]_vars PROVE AllNumbered'
    OBVIOUS
  <2>1. CASE UNCHANGED vars
    BY <2>1 DEF vars, plugin, AllNumbered
  <2> QED
    BY <2>1, NumberedStep
<1>3. AllNumbered => FramesNumbered
  BY DEF AllNumbered, Numbered, FramesNumbered
<1> QED
  BY <1>1, <1>2, <1>3, Invariant, PTL DEF Spec

-----------------------------------------------------------------------------
(* As long as no channel was taken from the list, the channels known are   *)
(* those that have a block.                                                *)
BlocksKnown == grown => known = channels /\ ~crashed

(* No list without a channel of the one before, no null pointer.           *)
THEOREM NoBlockMissed == Spec => []BlockForEveryPacket
<1>1. Init => BlocksKnown
  BY DEF Init, BlocksKnown
<1>2. TypeInv /\ BlocksKnown /\ [Next]_vars => BlocksKnown'
  <2> SUFFICES ASSUME TypeInv, BlocksKnown, [Next]_vars PROVE BlocksKnown'
    OBVIOUS
  <2>1. ASSUME UNCHANGED <<grown, known, channels, crashed>> PROVE BlocksKnown'
    BY <2>1 DEF BlocksKnown
  <2>2. ASSUME NEW s \in SUBSET Channels, SetChannels(s) PROVE BlocksKnown'
    BY <2>2 DEF SetChannels, Allocated, AnewOnly, BlocksKnown
  <2>3. ASSUME MissBlock PROVE BlocksKnown'
    BY <2>3 DEF MissBlock, Done, history, BlocksKnown
  <2>4. ASSUME Client, ~(\E s \in SUBSET Channels : SetChannels(s))
        PROVE  UNCHANGED <<grown, known, channels, crashed>>
    BY <2>4 DEF Client, SetFrameSize, Reset, Flush, Start, Stop, AnewOnly,
               plugin, history
  <2>5. ASSUME Decode \/ \E c \in Channels : Lose(c)
        PROVE  UNCHANGED <<grown, known, channels, crashed>>
    BY <2>5 DEF Decode, Receive, Lose, Leaves, plugin
  <2>6. ASSUME Take \/ ProcessPacket \/ SkipPacket
        PROVE  UNCHANGED <<grown, known, channels, crashed>>
    BY <2>6 DEF Take, ProcessPacket, SkipPacket, Done, plugin, history
  <2>7. ASSUME UNCHANGED vars PROVE UNCHANGED <<grown, known, channels, crashed>>
    BY <2>7 DEF vars, plugin, history
  <2> QED
    BY <2>1, <2>2, <2>3, <2>4, <2>5, <2>6, <2>7 DEF Next, Process
<1>3. BlocksKnown => BlockForEveryPacket
  BY DEF BlocksKnown, BlockForEveryPacket
<1> QED
  BY <1>1, <1>2, <1>3, Invariant, PTL DEF Spec

-----------------------------------------------------------------------------
(* What belongs to acquisition a; a zero belongs to every one.             *)
PacketsOf(a) == {p \in Packets : p.acq = a}
WordsIn(a)   == {w \in Words : w.acq \in {0, a}}
FramesIn(a)  == {f \in Frames : f.data \in Seq(WordsIn(a))}

BuffersOf(a) ==
  /\ cur \in Seq(PacketsOf(a)) /\ work \in Seq(PacketsOf(a))
  /\ ready \in Seq(Seq(PacketsOf(a)))

BlocksOf(a) ==
  /\ block \in [Channels -> Seq(WordsIn(a))]
  /\ out \in [Channels -> Seq(FramesIn(a))]

(* A buffer is never left open by an acquisition that ended.               *)
ClosedInv ==
  /\ ~holding => cur = <<>>
  /\ whole => /\ BuffersOf(acq) /\ BlocksOf(acq)
              /\ Finished => cur = <<>>

(* A packet of an acquisition, added to a block of that acquisition.       *)
LEMMA AddBlockOf ==
  ASSUME TypeInv, NEW a \in Nat, NEW b \in Seq(WordsIn(a)), Len(b) < size,
         NEW n \in Nat, NEW p \in PacketsOf(a), p.len < size
  PROVE  /\ AddBlock(b, n, p).block \in Seq(WordsIn(a))
         /\ AddBlock(b, n, p).frames \in Seq(FramesIn(a))
<1> DEFINE counted == Append(b, CountOf(p))
           full    == ToFull(b, p)
           head    == SubSeq(Data(p), 1, full)
           rest    == SubSeq(Data(p), full + 1, p.len)
<1>1. p \in Packets /\ p.acq = a
  BY DEF PacketsOf
<1>2. p.acq \in 0 .. MaxAcqs /\ p.k \in Nat /\ p.len \in Nat \ {0}
  BY <1>1, ConstantTypes DEF Packets
<1>3. \A i \in Nat : Word(p, i) \in WordsIn(a)
  BY <1>1, <1>2 DEF Word, Words, WordsIn
<1>4. Data(p) \in Seq(WordsIn(a)) /\ Len(Data(p)) = p.len
  <2>1. Data(p) \in [1 .. p.len -> WordsIn(a)]
    BY <1>2, <1>3 DEF Data
  <2> QED
    BY <1>2, <2>1
<1>5. counted \in Seq(WordsIn(a)) /\ Len(counted) = Len(b) + 1 /\ Len(b) \in Nat
  BY <1>3, Appended DEF CountOf
<1>6. CASE Fits(b, p)
  <2>1. AddBlock(b, n, p) = [block |-> counted \o Data(p), frames |-> <<>>]
    BY <1>6 DEF AddBlock
  <2>2. counted \o Data(p) \in Seq(WordsIn(a)) /\ <<>> \in Seq(FramesIn(a))
    BY <1>4, <1>5
  <2> QED
    BY <2>1, <2>2
<1>7. CASE ~Fits(b, p)
  <2>1. size \in Nat /\ full \in Nat /\ full <= p.len
    BY <1>2, <1>5, <1>7, ConstantTypes DEF Fits, ToFull, TypeInv, TypeOK
  <2>2. AddBlock(b, n, p) =
          [block |-> rest, frames |-> <<Frame(n, counted \o head)>>]
    BY <1>7 DEF AddBlock, Rest
  <2> HIDE DEF full
  <2>3. head \in Seq(WordsIn(a)) /\ rest \in Seq(WordsIn(a))
    BY <1>2, <1>4, <2>1
  <2>4. counted \o head \in Seq(WordsIn(a))
    BY <1>5, <2>3
  <2> HIDE DEF counted, head, rest
  <2>5. Frame(n, counted \o head) \in FramesIn(a)
    <3>1. counted \o head \in Seq(Words)
      BY <2>4 DEF WordsIn
    <3> QED
      BY <2>4, <3>1 DEF FramesIn, Frame, Frames
  <2>6. <<Frame(n, counted \o head)>> \in Seq(FramesIn(a))
    BY <2>5
  <2> QED
    BY <2>2, <2>3, <2>6
<1> QED
  BY <1>6, <1>7

(* A block filled up with zeros.                                           *)
LEMMA ToFrameOf ==
  ASSUME TypeInv, NEW a \in Nat, NEW c \in Channels, block[c] \in Seq(WordsIn(a))
  PROVE  ToFrame(c) \in FramesIn(a)
<1>1. size \in Nat /\ ToFrame(c) \in Frames
  BY ToFrameTyped, ConstantTypes DEF TypeInv, TypeOK
<1>2. Zero \in WordsIn(a)
  BY ConstantTypes DEF Zero, Words, WordsIn
<1>3. Padded(block[c]) \in [1 .. size -> WordsIn(a)]
  BY <1>1, <1>2, Element DEF Padded
<1>4. Padded(block[c]) \in Seq(WordsIn(a))
  BY <1>1, <1>3
<1> QED
  BY <1>1, <1>4 DEF FramesIn, ToFrame, Frame

(* The packet that leaves is of this acquisition, and the last one of all  *)
(* the channels closes the buffer.                                         *)
LEMMA ReceiveClosed ==
  ASSUME TypeInv, ClosedInv, NEW c \in Channels, Receive(c)
  PROVE  ClosedInv'
<1> DEFINE p == Packet(c)
           packets == Append(cur, p)
<1>1. p \in Packets /\ p.acq = acq /\ p.last = Script[c][pos[c] + 1].last
  BY PacketTyped DEF Receive, Leaves, Packet
<1>2. /\ UNCHANGED <<acq, work, plugin, out>> /\ whole' = whole
      /\ pos[c] < Len(Script[c]) /\ pos' = [pos EXCEPT ![c] = pos[c] + 1]
  BY DEF Receive, Leaves
<1>3. Finished' => p.last
  <2> SUFFICES ASSUME Finished' PROVE p.last
    OBVIOUS
  <2>1. pos'[c] = pos[c] + 1 /\ pos'[c] = Len(Script[c])
    BY <1>2 DEF Finished, TypeInv, TypeOK
  <2>2. Script[c] # <<>>
    BY <1>2, ConstantTypes DEF TypeInv, TypeOK
  <2>3. Script[c][Len(Script[c])].last
    BY <2>2, ScriptsEnd
  <2> QED
    BY <1>1, <2>1, <2>3
<1> HIDE DEF p
<1>4. CASE Keep(p)
  <2>1. /\ cur' = IF Complete(packets, p) THEN <<>> ELSE packets
        /\ holding' = ~Complete(packets, p)
        /\ ready' = IF Complete(packets, p) THEN Append(ready, packets) ELSE ready
    BY <1>4 DEF Keep, Kept
  <2>2. ~holding' => cur' = <<>>
    BY <2>1
  <2>3. Finished' => cur' = <<>>
    BY <1>3, <2>1 DEF Complete
  <2>4. ASSUME whole PROVE BuffersOf(acq)'
    <3>1. /\ cur \in Seq(PacketsOf(acq)) /\ work \in Seq(PacketsOf(acq))
          /\ ready \in Seq(Seq(PacketsOf(acq)))
      BY <2>4 DEF ClosedInv, BuffersOf
    <3>2. p \in PacketsOf(acq)
      BY <1>1 DEF PacketsOf
    <3>3. packets \in Seq(PacketsOf(acq)) /\ <<>> \in Seq(PacketsOf(acq))
      BY <3>1, <3>2
    <3> HIDE DEF packets
    <3>4. Append(ready, packets) \in Seq(Seq(PacketsOf(acq)))
      BY <3>1, <3>3
    <3>5. /\ cur' \in Seq(PacketsOf(acq)) /\ work' \in Seq(PacketsOf(acq))
          /\ ready' \in Seq(Seq(PacketsOf(acq))) /\ acq' = acq
      BY <1>2, <2>1, <3>1, <3>3, <3>4
    <3> QED
      BY <3>5 DEF BuffersOf
  <2>5. whole => BlocksOf(acq)'
    BY <1>2 DEF ClosedInv, BlocksOf, plugin
  <2> QED
    BY <1>2, <2>2, <2>3, <2>4, <2>5 DEF ClosedInv
<1>5. CASE Drop(p)
  <2>1. UNCHANGED <<cur, holding, ready>> /\ ~holding
    BY <1>5 DEF Drop
  <2> QED
    BY <1>2, <2>1 DEF ClosedInv, BuffersOf, BlocksOf, plugin
<1> QED
  BY <1>4, <1>5 DEF Receive, p

LEMMA ProcessClosed ==
  ASSUME TypeInv, ClosedInv, Process
  PROVE  ClosedInv'
<1>1. UNCHANGED <<card, decoder, whole>>
  BY DEF Process, Take, ProcessPacket, SkipPacket, MissBlock, Done, history
<1>2. (~holding => cur = <<>>)' /\ (whole' /\ Finished' => cur' = <<>>)
  BY <1>1 DEF ClosedInv, card, decoder, Finished
<1> SUFFICES ASSUME whole PROVE BuffersOf(acq)' /\ BlocksOf(acq)'
  BY <1>1, <1>2 DEF ClosedInv
<1>3. /\ cur \in Seq(PacketsOf(acq)) /\ work \in Seq(PacketsOf(acq))
      /\ ready \in Seq(Seq(PacketsOf(acq))) /\ BlocksOf(acq)
      /\ cur' = cur /\ acq' = acq
  BY <1>1 DEF ClosedInv, BuffersOf, card, decoder
<1>4. CASE Take
  <2>1. /\ work' = Head(ready) /\ ready' = Tail(ready) /\ ready # <<>>
        /\ UNCHANGED <<block, out>>
    BY <1>4 DEF Take, plugin
  <2>2. work' \in Seq(PacketsOf(acq)) /\ ready' \in Seq(Seq(PacketsOf(acq)))
    BY <1>3, <2>1, Queue
  <2> QED
    BY <1>3, <2>1, <2>2 DEF BuffersOf, BlocksOf
<1>5. CASE Done /\ ~Take
  <2>1. /\ work # <<>> /\ work' = Tail(work) /\ ready' = ready
    BY <1>5 DEF Done
  <2>2. work' \in Seq(PacketsOf(acq)) /\ Head(work) \in PacketsOf(acq)
    BY <1>3, <2>1, Queue
  <2>3. BuffersOf(acq)'
    BY <1>3, <2>1, <2>2 DEF BuffersOf
  <2>4. CASE ProcessPacket
    <3> DEFINE p == Head(work)
               c == p.ch
               added == AddBlock(block[c], count[c], p)
    <3>1. /\ block' = [block EXCEPT ![c] = added.block]
          /\ out' = [out EXCEPT ![c] = out[c] \o added.frames]
      BY <2>4 DEF ProcessPacket
    <3>2. c \in Channels /\ p.len < size /\ p \in PacketsOf(acq)
      BY <2>2, DataTyped DEF PacketsOf, TypeInv, TypeOK
    <3>3. /\ block[c] \in Seq(WordsIn(acq)) /\ out[c] \in Seq(FramesIn(acq))
          /\ Len(block[c]) < size /\ count[c] \in Nat /\ acq \in Nat
      BY <1>3, <3>2, ConstantTypes DEF BlocksOf, TypeInv, TypeOK
    <3> HIDE DEF p
    <3>4. added.block \in Seq(WordsIn(acq)) /\ added.frames \in Seq(FramesIn(acq))
      BY <3>2, <3>3, AddBlockOf
    <3> HIDE DEF added, c
    <3>5. out[c] \o added.frames \in Seq(FramesIn(acq))
      BY <3>3, <3>4
    <3>6. /\ block' \in [Channels -> Seq(WordsIn(acq))]
          /\ out' \in [Channels -> Seq(FramesIn(acq))]
      BY <1>3, <3>1, <3>4, <3>5 DEF BlocksOf
    <3> QED
      BY <1>3, <2>3, <3>6 DEF BlocksOf
  <2>5. CASE SkipPacket \/ MissBlock
    <3>1. UNCHANGED <<block, out>>
      BY <2>5 DEF SkipPacket, MissBlock
    <3> QED
      BY <1>3, <2>3, <3>1 DEF BlocksOf
  <2> QED
    BY <1>5, <2>4, <2>5 DEF Process
<1> QED
  BY <1>4, <1>5 DEF Process, ProcessPacket, SkipPacket, MissBlock

LEMMA ClientClosed ==
  ASSUME TypeInv, ClosedInv, Client
  PROVE  ClosedInv'
<1>1. Anew => \A a : BlocksOf(a)'
  BY DEF Anew, BlocksOf, NoPackets
<1>2. ASSUME AnewOnly PROVE ClosedInv'
  BY <1>1, <1>2 DEF AnewOnly, ClosedInv, BuffersOf, card, decoder, buffers, Finished
<1>3. CASE Flush
  <2>1. /\ UNCHANGED <<acq, pos, holding, cur, work, ready, whole>>
        /\ out' = [c \in Channels |->
             IF c \in channels THEN Append(out[c], ToFrame(c)) ELSE out[c]]
        /\ block' = [c \in Channels |-> IF c \in channels THEN <<>> ELSE block[c]]
    BY <1>3 DEF Flush, card, decoder, buffers, history
  <2>2. ASSUME whole PROVE BlocksOf(acq)'
    <3>1. acq \in Nat /\ BlocksOf(acq)
      BY <2>2, ConstantTypes DEF ClosedInv, TypeInv, TypeOK
    <3>2. \A c \in Channels :
            /\ block[c] \in Seq(WordsIn(acq)) /\ out[c] \in Seq(FramesIn(acq))
            /\ <<>> \in Seq(WordsIn(acq))
      BY <3>1 DEF BlocksOf
    <3>3. \A c \in Channels : Append(out[c], ToFrame(c)) \in Seq(FramesIn(acq))
      BY <3>1, <3>2, ToFrameOf, Appended
    <3>4. /\ block' \in [Channels -> Seq(WordsIn(acq))]
          /\ out' \in [Channels -> Seq(FramesIn(acq))]
      BY <2>1, <3>2, <3>3
    <3> QED
      BY <2>1, <3>4 DEF BlocksOf
  <2> QED
    BY <2>1, <2>2 DEF ClosedInv, BuffersOf, Finished
<1>4. CASE Start
  <2>1. /\ Finished /\ Anew /\ whole' = (whole /\ Quiet)
        /\ UNCHANGED <<holding, cur, work, ready>>
    BY <1>4 DEF Start, decoder, buffers
  <2>2. ASSUME whole' PROVE cur' = <<>> /\ BuffersOf(acq)'
    <3>1. cur' = <<>> /\ work' = <<>> /\ ready' = <<>>
      BY <2>1, <2>2 DEF ClosedInv, Quiet
    <3>2. \A S : <<>> \in Seq(S)
      OBVIOUS
    <3> QED
      BY <3>1, <3>2 DEF BuffersOf
  <2> QED
    BY <1>1, <2>1, <2>2 DEF ClosedInv
<1>5. CASE Stop
  <2>1. UNCHANGED <<holding, cur>> /\ whole' = FALSE
    BY <1>5 DEF Stop, decoder
  <2> QED
    BY <2>1 DEF ClosedInv
<1> QED
  BY <1>2, <1>3, <1>4, <1>5 DEF Client, SetChannels, SetFrameSize, Reset

LEMMA ClosedStep == TypeInv /\ ClosedInv /\ [Next]_vars => ClosedInv'
<1> SUFFICES ASSUME TypeInv, ClosedInv, [Next]_vars PROVE ClosedInv'
  OBVIOUS
<1>1. ASSUME NEW c \in Channels, Lose(c) PROVE ClosedInv'
  <2>1. UNCHANGED <<holding, cur>> /\ whole' = FALSE
    BY <1>1 DEF Lose, decoder
  <2> QED
    BY <2>1 DEF ClosedInv
<1>2. CASE UNCHANGED vars
  BY <1>2 DEF vars, card, decoder, buffers, plugin, history, ClosedInv, BuffersOf,
              BlocksOf, Finished
<1> QED
  BY <1>1, <1>2, ReceiveClosed, ProcessClosed, ClientClosed DEF Next, Decode

(* Although nothing resets the decoder, no packet of an acquisition enters *)
(* the next one, as long as none is lost on the network, no acquisition is *)
(* cut off and the plugin is let finish.                                   *)
THEOREM NothingTakenOver == Spec => []OneAcquisition
<1>1. Init => ClosedInv
  BY DEF Init, ClosedInv, BuffersOf, BlocksOf, NoPackets
<1>2. ClosedInv => OneAcquisition
  <2> SUFFICES ASSUME ClosedInv, whole
               PROVE  /\ cur \in Seq(CurrentPackets) /\ work \in Seq(CurrentPackets)
                      /\ ready \in Seq(Seq(CurrentPackets))
                      /\ block \in [Channels -> Seq(CurrentWords)]
                      /\ \A c \in Channels : \A k \in DOMAIN out[c] :
                           out[c][k].data \in Seq(CurrentWords)
    BY DEF OneAcquisition
  <2>1. CurrentPackets = PacketsOf(acq) /\ CurrentWords = WordsIn(acq)
    BY DEF CurrentPackets, CurrentWords, PacketsOf, WordsIn
  <2>2. BuffersOf(acq) /\ BlocksOf(acq)
    BY DEF ClosedInv
  <2>3. ASSUME NEW c \in Channels, NEW k \in DOMAIN out[c]
        PROVE  out[c][k].data \in Seq(WordsIn(acq))
    <3>1. out[c] \in Seq(FramesIn(acq))
      BY <2>2 DEF BlocksOf
    <3>2. out[c][k] \in FramesIn(acq)
      BY <3>1, Element
    <3> QED
      BY <3>2 DEF FramesIn
  <2> QED
    BY <2>1, <2>2, <2>3 DEF BuffersOf, BlocksOf
<1> QED
  BY <1>1, <1>2, ClosedStep, Invariant, PTL DEF Spec

-----------------------------------------------------------------------------
(* The helpers of the model that go through a sequence, as functions that  *)
(* give for each element the piece it becomes.                             *)
Clean     == {w \in Words : w # Zero}
Chosen(c) == [p \in Packets |-> IF p.ch = c THEN <<p>> ELSE <<>>]
Spelled   == [p \in Packets |-> WordsOf(p)]
Content   == [f \in Frames |-> f.data]
Filling   == [w \in Words |-> IF w = Zero THEN <<>> ELSE <<w>>]

LEMMA CleanWords ==
  /\ Clean \subseteq Words /\ Zero \in Words
  /\ \A s : s \in Seq(Clean) => s \in Seq(Words)
<1>1. Clean \subseteq Words
  BY DEF Clean
<1>2. Zero \in Words
  BY ConstantTypes DEF Zero, Words
<1>3. ASSUME NEW s \in Seq(Clean) PROVE s \in Seq(Words)
  <2>1. s \in [1 .. Len(s) -> Words] /\ Len(s) \in Nat
    BY <1>1
  <2> QED
    BY <2>1, FunctionIsSeq
<1> QED
  BY <1>1, <1>2, <1>3

LEMMA WordsOfClean ==
  ASSUME NEW p \in Packets
  PROVE  /\ WordsOf(p) \in Seq(Clean) /\ Data(p) \in Seq(Clean)
         /\ CountOf(p) \in Clean /\ <<CountOf(p)>> \in Seq(Clean)
<1>1. p.acq \in 1 .. MaxAcqs /\ p.k \in Nat /\ p.len \in Nat
  BY ConstantTypes DEF Packets
<1>2. ASSUME NEW i \in Nat PROVE Word(p, i) \in Clean
  <2>1. Word(p, i) \in Words /\ Word(p, i).acq # 0
    BY <1>1, ConstantTypes DEF Word, Words
  <2>2. Zero.acq = 0
    BY DEF Zero
  <2> QED
    BY <2>1, <2>2 DEF Clean
<1>3. CountOf(p) \in Clean
  BY <1>2 DEF CountOf
<1>4. Data(p) \in [1 .. p.len -> Clean]
  BY <1>1, <1>2 DEF Data
<1>5. Data(p) \in Seq(Clean)
  BY <1>1, <1>4, FunctionIsSeq
<1>6. <<CountOf(p)>> \in Seq(Clean)
  BY <1>3
<1>7. <<CountOf(p)>> \o Data(p) \in Seq(Clean)
  BY <1>5, <1>6, ConcatElements
<1> QED
  BY <1>3, <1>5, <1>6, <1>7 DEF WordsOf

LEMMA PiecesTyped ==
  /\ \A c : Chosen(c) \in Pieces(Packets, Packets)
  /\ Spelled \in Pieces(Packets, Clean)
  /\ Content \in Pieces(Frames, Words)
  /\ Filling \in Pieces(Words, Clean)
<1>1. ASSUME NEW c, NEW p \in Packets
      PROVE  (IF p.ch = c THEN <<p>> ELSE <<>>) \in Seq(Packets)
  OBVIOUS
<1>2. \A c : Chosen(c) \in Pieces(Packets, Packets)
  BY <1>1 DEF Chosen, Pieces
<1>3. Spelled \in Pieces(Packets, Clean)
  BY WordsOfClean DEF Spelled, Pieces
<1>4. \A f \in Frames : f.data \in Seq(Words)
  BY DEF Frames
<1>5. Content \in Pieces(Frames, Words)
  BY <1>4 DEF Content, Pieces
<1>6. ASSUME NEW w \in Words
      PROVE  (IF w = Zero THEN <<>> ELSE <<w>>) \in Seq(Clean)
  <2>1. CASE w = Zero
    BY <2>1
  <2>2. CASE w # Zero
    <3>1. w \in Clean
      BY <2>2 DEF Clean
    <3> QED
      BY <2>2, <3>1
  <2> QED
    BY <2>1, <2>2
<1>7. Filling \in Pieces(Words, Clean)
  BY <1>6 DEF Filling, Pieces
<1> QED
  BY <1>2, <1>3, <1>5, <1>7

LEMMA OfChannelMapped ==
  ASSUME NEW c, NEW s \in Seq(Packets)
  PROVE  OfChannel(c, s) = Mapped(s, Chosen(c))
<1>1. ASSUME NEW i \in DOMAIN s
      PROVE  Chosen(c)[s[i]] = IF s[i].ch = c THEN <<s[i]>> ELSE <<>>
  <2>1. s[i] \in Packets
    BY Element
  <2> QED
    BY <2>1 DEF Chosen
<1>2. Images(s, Chosen(c)) =
        [i \in DOMAIN s |-> IF s[i].ch = c THEN <<s[i]>> ELSE <<>>]
  BY <1>1 DEF Images
<1> QED
  BY <1>2 DEF OfChannel, Mapped

LEMMA FramedMapped ==
  ASSUME NEW s \in Seq(Packets)
  PROVE  Framed(s) = Mapped(s, Spelled)
<1>1. ASSUME NEW i \in DOMAIN s PROVE Spelled[s[i]] = WordsOf(s[i])
  <2>1. s[i] \in Packets
    BY Element
  <2> QED
    BY <2>1 DEF Spelled
<1>2. Images(s, Spelled) = [i \in DOMAIN s |-> WordsOf(s[i])]
  BY <1>1 DEF Images
<1> QED
  BY <1>2 DEF Framed, Mapped

LEMMA FilledMapped ==
  ASSUME NEW s \in Seq(Words)
  PROVE  Filled(s) = Mapped(s, Filling)
<1>1. ASSUME NEW i \in DOMAIN s
      PROVE  Filling[s[i]] = IF s[i] = Zero THEN <<>> ELSE <<s[i]>>
  <2>1. s[i] \in Words
    BY Element
  <2> QED
    BY <2>1 DEF Filling
<1>2. Images(s, Filling) = [i \in DOMAIN s |-> IF s[i] = Zero THEN <<>> ELSE <<s[i]>>]
  BY <1>1 DEF Images
<1> QED
  BY <1>2 DEF Filled, Mapped

LEMMA StrippedMapped ==
  ASSUME NEW s \in Seq(Frames)
  PROVE  /\ Mapped(s, Content) \in Seq(Words)
         /\ Stripped(s) = Mapped(Mapped(s, Content), Filling)
<1>1. ASSUME NEW i \in DOMAIN s PROVE Content[s[i]] = s[i].data
  <2>1. s[i] \in Frames
    BY Element
  <2> QED
    BY <2>1 DEF Content
<1>2. Images(s, Content) = [i \in DOMAIN s |-> s[i].data]
  BY <1>1 DEF Images
<1>3. Mapped(s, Content) \in Seq(Words)
  BY PiecesTyped, MappedTyped
<1>4. Stripped(s) = Filled(Mapped(s, Content))
  BY <1>2 DEF Stripped, Mapped
<1> QED
  BY <1>3, <1>4, FilledMapped

-----------------------------------------------------------------------------
(* The packets of a channel.                                               *)
LEMMA ChannelConcat ==
  ASSUME NEW c, NEW s \in Seq(Packets), NEW t \in Seq(Packets)
  PROVE  /\ OfChannel(c, s) \in Seq(Packets)
         /\ OfChannel(c, s \o t) = OfChannel(c, s) \o OfChannel(c, t)
<1>1. Chosen(c) \in Pieces(Packets, Packets)
  BY PiecesTyped
<1>2. s \o t \in Seq(Packets)
  BY ConcatElements
<1>3. Mapped(s, Chosen(c)) \in Seq(Packets)
  BY <1>1, MappedTyped
<1>4. Mapped(s \o t, Chosen(c)) = Mapped(s, Chosen(c)) \o Mapped(t, Chosen(c))
  BY <1>1, MappedConcat
<1> QED
  BY <1>2, <1>3, <1>4, OfChannelMapped

LEMMA ChannelOne ==
  ASSUME NEW c, NEW p \in Packets
  PROVE  OfChannel(c, <<p>>) = IF p.ch = c THEN <<p>> ELSE <<>>
<1>1. Chosen(c) \in Pieces(Packets, Packets) /\ <<p>> \in Seq(Packets)
  BY PiecesTyped
<1>2. Mapped(<<p>>, Chosen(c)) = Chosen(c)[p]
  BY <1>1, MappedOne
<1> QED
  BY <1>1, <1>2, OfChannelMapped DEF Chosen

(* The words of packets.                                                   *)
LEMMA FramedConcat ==
  ASSUME NEW s \in Seq(Packets), NEW t \in Seq(Packets)
  PROVE  /\ Framed(s) \in Seq(Clean) /\ Framed(s) \in Seq(Words)
         /\ Framed(s \o t) = Framed(s) \o Framed(t)
<1>1. Spelled \in Pieces(Packets, Clean)
  BY PiecesTyped
<1>2. s \o t \in Seq(Packets)
  BY ConcatElements
<1>3. Mapped(s, Spelled) \in Seq(Clean)
  BY <1>1, MappedTyped
<1>4. Mapped(s \o t, Spelled) = Mapped(s, Spelled) \o Mapped(t, Spelled)
  BY <1>1, MappedConcat
<1> QED
  BY <1>2, <1>3, <1>4, FramedMapped, CleanWords

LEMMA FramedOne ==
  ASSUME NEW p \in Packets
  PROVE  Framed(<<p>>) = WordsOf(p)
<1>1. Spelled \in Pieces(Packets, Clean) /\ <<p>> \in Seq(Packets)
  BY PiecesTyped
<1>2. Mapped(<<p>>, Spelled) = Spelled[p]
  BY <1>1, MappedOne
<1> QED
  BY <1>1, <1>2, FramedMapped DEF Spelled

(* The words that frames hold, without their padding.                      *)
LEMMA StrippedConcat ==
  ASSUME NEW s \in Seq(Frames), NEW t \in Seq(Frames)
  PROVE  /\ Stripped(s) \in Seq(Words)
         /\ Stripped(s \o t) = Stripped(s) \o Stripped(t)
<1>1. Content \in Pieces(Frames, Words) /\ Filling \in Pieces(Words, Clean)
  BY PiecesTyped
<1>2. s \o t \in Seq(Frames)
  BY ConcatElements
<1>3. Mapped(s \o t, Content) = Mapped(s, Content) \o Mapped(t, Content)
  BY <1>1, MappedConcat
<1>4. Mapped(s, Content) \in Seq(Words) /\ Mapped(t, Content) \in Seq(Words)
  BY StrippedMapped
<1>5. /\ Mapped(Mapped(s, Content), Filling) \in Seq(Clean)
      /\ Mapped(Mapped(s, Content) \o Mapped(t, Content), Filling)
           = Mapped(Mapped(s, Content), Filling) \o Mapped(Mapped(t, Content), Filling)
  BY <1>1, <1>4, MappedTyped, MappedConcat
<1> QED
  BY <1>2, <1>3, <1>5, StrippedMapped, CleanWords

LEMMA StrippedEmpty == Stripped(<<>>) = <<>>
<1>1. <<>> \in Seq(Frames)
  OBVIOUS
<1> QED
  BY <1>1, StrippedMapped, MappedEmpty

LEMMA StrippedOne ==
  ASSUME NEW f \in Frames
  PROVE  Stripped(<<f>>) = Mapped(f.data, Filling)
<1>1. Content \in Pieces(Frames, Words) /\ <<f>> \in Seq(Frames)
  BY PiecesTyped
<1>2. Mapped(<<f>>, Content) = Content[f]
  BY <1>1, MappedOne
<1> QED
  BY <1>1, <1>2, StrippedMapped DEF Content

LEMMA CleanStays ==
  ASSUME NEW s \in Seq(Clean)
  PROVE  Mapped(s, Filling) = s
<1>1. \A i \in 1 .. Len(s) : Filling[s[i]] = <<s[i]>>
  <2> TAKE i \in 1 .. Len(s)
  <2>1. s[i] \in Clean
    OBVIOUS
  <2> QED
    BY <2>1 DEF Clean, Filling
<1> DEFINE g == [w \in Clean |-> <<w>>]
<1>2. g \in Pieces(Clean, Clean)
  BY DEF Pieces
<1>3. \A i \in 1 .. Len(s) : s[i] \in Clean /\ g[s[i]] = <<s[i]>>
  OBVIOUS
<1>4. Mapped(s, g) = s
  <2> HIDE DEF g
  <2> QED
    BY <1>2, <1>3, MappedKeeps
<1>5. Images(s, g) = Images(s, Filling)
  <2>1. DOMAIN s = 1 .. Len(s)
    OBVIOUS
  <2>2. \A i \in DOMAIN s : g[s[i]] = Filling[s[i]]
    BY <1>1, <1>3, <2>1
  <2> HIDE DEF g
  <2> QED
    BY <2>2 DEF Images
<1> QED
  BY <1>4, <1>5 DEF Mapped

-----------------------------------------------------------------------------
(* A sequence cut in two.                                                  *)
LEMMA CutInTwo ==
  ASSUME NEW S, NEW s \in Seq(S), NEW n \in 0 .. Len(s)
  PROVE  /\ SubSeq(s, 1, n) \in Seq(S) /\ Len(SubSeq(s, 1, n)) = n
         /\ SubSeq(s, n + 1, Len(s)) \in Seq(S)
         /\ s = SubSeq(s, 1, n) \o SubSeq(s, n + 1, Len(s))
<1>1. /\ SubSeq(s, 1, n) \in Seq(S) /\ Len(SubSeq(s, 1, n)) = n
      /\ SubSeq(s, n + 1, Len(s)) \in Seq(S)
      /\ Len(s) \in Nat
  OBVIOUS
<1>2. SubSeq(s, 1, n) \o SubSeq(s, n + 1, Len(s)) = SubSeq(s, 1, Len(s))
  <2>1. 1 \in 1 .. Len(s) + 1 /\ n \in 1 - 1 .. Len(s) /\ Len(s) \in n .. Len(s)
    BY <1>1
  <2> QED
    BY <2>1, ConcatAdjacentSubSeq
<1>3. SubSeq(s, 1, Len(s)) = s
  BY SubSeqFull
<1> QED
  BY <1>1, <1>2, <1>3

(* The frames a packet fills and the block it leaves hold together what    *)
(* the block held and the words of the packet.                             *)
LEMMA AddBlockWords ==
  ASSUME TypeInv, NEW b \in Seq(Clean), Len(b) < size, NEW n \in Nat,
         NEW p \in Packets, p.len < size
  PROVE  /\ AddBlock(b, n, p).block \in Seq(Clean)
         /\ AddBlock(b, n, p).frames \in Seq(Frames)
         /\ Stripped(AddBlock(b, n, p).frames) \o AddBlock(b, n, p).block
              = b \o WordsOf(p)
<1> DEFINE counted == Append(b, CountOf(p))
           full    == ToFull(b, p)
<1>1. size \in Nat \ {0} /\ Len(b) \in Nat
  BY ConstantTypes DEF TypeInv, TypeOK
<1>2. /\ Data(p) \in Seq(Clean) /\ <<CountOf(p)>> \in Seq(Clean)
      /\ CountOf(p) \in Clean
      /\ Len(Data(p)) = p.len /\ p.len \in Nat \ {0}
  BY DataTyped, WordsOfClean
<1>3. counted \in Seq(Clean) /\ counted = b \o <<CountOf(p)>>
  BY <1>2, Appended, AppendIsConcat
<1> HIDE DEF counted
<1>4. counted \o Data(p) = b \o WordsOf(p) /\ counted \o Data(p) \in Seq(Clean)
  <2>1. (b \o <<CountOf(p)>>) \o Data(p) = b \o (<<CountOf(p)>> \o Data(p))
    BY <1>2, ConcatAssociative
  <2>2. counted \o Data(p) \in Seq(Clean)
    BY <1>2, <1>3, ConcatElements
  <2> QED
    BY <1>3, <2>1, <2>2 DEF WordsOf
<1>5. CASE Fits(b, p)
  <2>1. AddBlock(b, n, p) = [block |-> counted \o Data(p), frames |-> <<>>]
    BY <1>5 DEF AddBlock, counted
  <2>2. <<>> \o (counted \o Data(p)) = counted \o Data(p)
    BY <1>4, ConcatEmptySeq
  <2>3. <<>> \in Seq(Frames)
    OBVIOUS
  <2>4. AddBlock(b, n, p).block = counted \o Data(p) /\ AddBlock(b, n, p).frames = <<>>
    BY <2>1
  <2> QED
    BY <1>4, <2>2, <2>3, <2>4, StrippedEmpty
<1>6. CASE ~Fits(b, p)
  <2> DEFINE head == SubSeq(Data(p), 1, full)
             rest == SubSeq(Data(p), full + 1, p.len)
             f    == Frame(n, counted \o head)
  <2>1. full \in 0 .. Len(Data(p))
    BY <1>1, <1>2, <1>6 DEF Fits, ToFull
  <2>2. head \in Seq(Clean) /\ rest \in Seq(Clean) /\ Data(p) = head \o rest
    <3>1. Len(Data(p)) = p.len
      BY <1>2
    <3> HIDE DEF full
    <3> QED
      BY <1>2, <2>1, <3>1, CutInTwo
  <2>3. AddBlock(b, n, p) = [block |-> rest, frames |-> <<f>>]
    BY <1>6 DEF AddBlock, Rest, counted
  <2> HIDE DEF head, rest, full
  <2>4. counted \o head \in Seq(Clean)
    BY <1>3, <2>2, ConcatElements
  <2>5. f \in Frames /\ f.data = counted \o head
    BY <2>4, CleanWords DEF Frame, Frames
  <2> HIDE DEF f
  <2>6. Stripped(<<f>>) = counted \o head
    BY <2>4, <2>5, StrippedOne, CleanStays
  <2>7. (counted \o head) \o rest = counted \o (head \o rest)
    BY <1>3, <2>2, ConcatAssociative
  <2>8. <<f>> \in Seq(Frames)
    BY <2>5
  <2>9. AddBlock(b, n, p).block = rest /\ AddBlock(b, n, p).frames = <<f>>
    BY <2>3
  <2> QED
    BY <1>4, <2>2, <2>6, <2>7, <2>8, <2>9
<1> QED
  BY <1>5, <1>6

(* The padding of a block flushed before it is full is taken off again.    *)
LEMMA PaddedWords ==
  ASSUME TypeInv, NEW w \in Seq(Clean), Len(w) < size
  PROVE  Mapped(Padded(w), Filling) = w
<1> DEFINE zeros == [i \in 1 .. size - Len(w) |-> Zero]
<1>1. size \in Nat /\ Len(w) \in Nat /\ size - Len(w) \in Nat
  BY ConstantTypes DEF TypeInv, TypeOK
<1>2. w \in Seq(Words) /\ Zero \in Words
  BY CleanWords
<1>3. zeros \in Seq(Words) /\ Len(zeros) = size - Len(w)
  <2>1. zeros \in [1 .. size - Len(w) -> Words]
    BY <1>2
  <2> QED
    BY <1>1, <2>1, FunctionIsSeq
<1>4. Padded(w) \in Seq(Words) /\ Len(Padded(w)) = size
  <2>1. \A i \in 1 .. Len(w) : w[i] \in Words
    BY <1>2
  <2>2. Padded(w) \in [1 .. size -> Words]
    BY <1>1, <1>2, <2>1 DEF Padded
  <2> QED
    BY <1>1, <2>2, FunctionIsSeq
<1>5. \A i \in 1 .. Len(w) : Padded(w)[i] = w[i]
  BY <1>1 DEF Padded
<1>6. \A i \in 1 .. Len(zeros) : zeros[i] = Zero /\ Padded(w)[Len(w) + i] = zeros[i]
  BY <1>1, <1>3 DEF Padded
<1> HIDE DEF zeros
<1>7. Padded(w) = w \o zeros
  <2>1. Len(Padded(w)) = Len(w) + Len(zeros)
    BY <1>1, <1>3, <1>4
  <2> QED
    BY <1>2, <1>3, <1>4, <1>5, <1>6, <2>1, ConcatIs
<1>8. Filling \in Pieces(Words, Clean)
  BY PiecesTyped
<1>9. Mapped(w \o zeros, Filling) = Mapped(w, Filling) \o Mapped(zeros, Filling)
  BY <1>2, <1>3, <1>8, MappedConcat
<1>10. Mapped(zeros, Filling) = <<>>
  <2>1. \A i \in 1 .. Len(zeros) : Filling[zeros[i]] = <<>>
    BY <1>2, <1>6 DEF Filling
  <2> QED
    BY <1>3, <1>8, <2>1, MappedDrops
<1>11. w \o <<>> = w
  BY ConcatEmptySeq
<1> QED
  BY <1>7, <1>9, <1>10, <1>11, CleanStays

-----------------------------------------------------------------------------
(* Three sequences, put together either way.                               *)
LEMMA Together ==
  /\ \A r, s, t \in Seq(Packets) : (r \o s) \o t = r \o (s \o t) /\ r \o s \in Seq(Packets)
  /\ \A r, s, t \in Seq(Words) : (r \o s) \o t = r \o (s \o t) /\ r \o s \in Seq(Words)
<1>1. ASSUME NEW S, NEW r \in Seq(S), NEW s \in Seq(S), NEW t \in Seq(S)
      PROVE  (r \o s) \o t = r \o (s \o t) /\ r \o s \in Seq(S)
  BY ConcatAssociative, ConcatElements
<1> QED
  BY <1>1

(* The packets kept by the decoder that the plugin has still to process.   *)
Waiting == work \o FlattenSeq(ready) \o cur

LEMMA WaitingTyped ==
  ASSUME TypeInv
  PROVE  /\ work \in Seq(Packets) /\ cur \in Seq(Packets)
         /\ ready \in Seq(Seq(Packets)) /\ FlattenSeq(ready) \in Seq(Packets)
         /\ work \o FlattenSeq(ready) \in Seq(Packets)
         /\ Waiting \in Seq(Packets)
<1>1. work \in Seq(Packets) /\ cur \in Seq(Packets)
  BY DEF TypeInv, TypeOK
<1>2. ready \in Seq(Seq(Packets))
  <2>1. ready \in Seq(Seq(Packets) \ {<<>>})
    BY DEF TypeInv, TypeOK
  <2>2. ready \in [1 .. Len(ready) -> Seq(Packets)] /\ Len(ready) \in Nat
    BY <2>1
  <2> QED
    BY <2>2, FunctionIsSeq
<1>3. FlattenSeq(ready) \in Seq(Packets)
  BY <1>2, FlattenTyped
<1>4. work \o FlattenSeq(ready) \in Seq(Packets)
  BY <1>1, <1>3, ConcatElements
<1>5. (work \o FlattenSeq(ready)) \o cur \in Seq(Packets)
  BY <1>1, <1>4, ConcatElements
<1> QED
  BY <1>1, <1>2, <1>3, <1>4, <1>5 DEF Waiting

LEMMA WaitingKept ==
  ASSUME TypeInv, NEW p \in Packets, Keep(p), work' = work
  PROVE  Waiting' = Waiting \o <<p>>
<1> DEFINE packets == Append(cur, p)
           before  == work \o FlattenSeq(ready)
<1>1. /\ cur' = IF Complete(packets, p) THEN <<>> ELSE packets
      /\ ready' = IF Complete(packets, p) THEN Append(ready, packets) ELSE ready
  BY DEF Keep, Kept
<1>2. packets = cur \o <<p>> /\ packets \in Seq(Packets) /\ <<p>> \in Seq(Packets)
  BY WaitingTyped, Appended, AppendIsConcat
<1>3. (before \o cur) \o <<p>> = before \o (cur \o <<p>>) /\ before \in Seq(Packets)
  BY <1>2, WaitingTyped, ConcatAssociative
<1> HIDE DEF packets
<1>4. CASE Complete(packets, p)
  <2>1. FlattenSeq(Append(ready, packets)) = FlattenSeq(ready) \o packets
    BY <1>2, WaitingTyped, FlattenAppend
  <2>2. before \o packets = work \o (FlattenSeq(ready) \o packets)
    <3>1. work \in Seq(Packets) /\ FlattenSeq(ready) \in Seq(Packets)
      BY WaitingTyped
    <3>2. packets \in Seq(Packets)
      BY <1>2
    <3> QED
      BY <3>1, <3>2, Together, Zenon
  <2>3. before \o packets \in Seq(Packets)
    BY <1>2, <1>3, ConcatElements
  <2>4. (before \o packets) \o <<>> = before \o packets
    BY <2>3, ConcatEmptySeq
  <2>5. Waiting' = (work \o FlattenSeq(Append(ready, packets))) \o <<>>
    BY <1>1, <1>4 DEF Waiting
  <2> QED
    BY <1>2, <1>3, <2>1, <2>2, <2>4, <2>5 DEF Waiting
<1>5. CASE ~Complete(packets, p)
  <2>1. Waiting' = before \o packets
    BY <1>1, <1>5 DEF Waiting
  <2> QED
    BY <1>2, <1>3, <2>1 DEF Waiting
<1> QED
  BY <1>4, <1>5

LEMMA WaitingTaken ==
  ASSUME TypeInv, Take
  PROVE  Waiting' = Waiting
<1>1. /\ work = <<>> /\ ready # <<>> /\ work' = Head(ready) /\ ready' = Tail(ready)
      /\ cur' = cur
  BY DEF Take, decoder
<1>2. FlattenSeq(ready) = Head(ready) \o FlattenSeq(Tail(ready))
  BY <1>1, WaitingTyped, FlattenHead
<1>3. <<>> \o FlattenSeq(ready) = FlattenSeq(ready)
  BY WaitingTyped, ConcatEmptySeq
<1> QED
  BY <1>1, <1>2, <1>3 DEF Waiting

LEMMA WaitingDone ==
  ASSUME TypeInv, Done
  PROVE  Waiting = <<Head(work)>> \o Waiting' /\ Waiting' \in Seq(Packets)
<1>1. work # <<>> /\ work' = Tail(work) /\ ready' = ready /\ cur' = cur
  BY DEF Done, decoder
<1>2. /\ Head(work) \in Packets /\ Tail(work) \in Seq(Packets)
      /\ work = <<Head(work)>> \o Tail(work) /\ <<Head(work)>> \in Seq(Packets)
  BY <1>1, WaitingTyped, HeadAndTail
<1> DEFINE h == <<Head(work)>>
           t == Tail(work)
           f == FlattenSeq(ready)
<1>3. /\ h \in Seq(Packets) /\ t \in Seq(Packets) /\ f \in Seq(Packets)
      /\ cur \in Seq(Packets)
  BY <1>2, WaitingTyped
<1>4. Waiting = ((h \o t) \o f) \o cur /\ Waiting' = (t \o f) \o cur
  BY <1>1, <1>2 DEF Waiting
<1> HIDE DEF h, t, f
<1>5. (h \o t) \o f = h \o (t \o f) /\ t \o f \in Seq(Packets)
  BY <1>3, Together, Zenon
<1>6. (h \o (t \o f)) \o cur = h \o ((t \o f) \o cur) /\ (t \o f) \o cur \in Seq(Packets)
  BY <1>3, <1>5, Together, Zenon
<1> QED
  BY <1>4, <1>5, <1>6 DEF h

-----------------------------------------------------------------------------
(* What is told of a channel: the frames o, the block b and the packets q  *)
(* on their way are together the packets d; nothing was pushed for a       *)
(* channel that has never been on a list.                                  *)
Told(o, b, q, d, listed) ==
  /\ o \in Seq(Frames) /\ b \in Seq(Clean)
  /\ q \in Seq(Packets) /\ d \in Seq(Packets)
  /\ Stripped(o) \o b \o Framed(q) = Framed(d)
  /\ ~listed => o = <<>> /\ b = <<>> /\ d = q

StreamOf(c) == Told(out[c], block[c], Pending(c), due[c], c \in known)

StreamInv ==
  ~crashed => due \in [Channels -> Seq(Packets)] /\ \A c \in Channels : StreamOf(c)

LEMMA ToldTyped ==
  ASSUME NEW o, NEW b, NEW q, NEW d, NEW k, Told(o, b, q, d, k)
  PROVE  /\ o \in Seq(Frames) /\ b \in Seq(Clean) /\ b \in Seq(Words)
         /\ q \in Seq(Packets) /\ d \in Seq(Packets)
         /\ Stripped(o) \in Seq(Words) /\ Framed(q) \in Seq(Words)
         /\ Stripped(o) \o b \in Seq(Words)
         /\ Stripped(o) \o b \o Framed(q) = Framed(d)
<1>1. /\ o \in Seq(Frames) /\ b \in Seq(Clean)
      /\ q \in Seq(Packets) /\ d \in Seq(Packets)
      /\ Stripped(o) \o b \o Framed(q) = Framed(d)
  BY DEF Told
<1>2. b \in Seq(Words) /\ Stripped(o) \in Seq(Words) /\ Framed(q) \in Seq(Words)
  BY <1>1, CleanWords, StrippedConcat, FramedConcat
<1>3. Stripped(o) \o b \in Seq(Words)
  BY <1>2, ConcatElements
<1> QED
  BY <1>1, <1>2, <1>3

(* Packets are kept.                                                       *)
LEMMA ToldKept ==
  ASSUME NEW o, NEW b, NEW q, NEW d, NEW k, Told(o, b, q, d, k), NEW x \in Seq(Packets)
  PROVE  Told(o, b, q \o x, d \o x, k)
<1> DEFINE w == Stripped(o) \o b
<1>1. /\ o \in Seq(Frames) /\ b \in Seq(Clean)
      /\ q \in Seq(Packets) /\ d \in Seq(Packets)
      /\ w \in Seq(Words) /\ Framed(q) \in Seq(Words) /\ w \o Framed(q) = Framed(d)
  BY ToldTyped
<1>2. q \o x \in Seq(Packets) /\ d \o x \in Seq(Packets)
  BY <1>1, ConcatElements
<1>3. /\ Framed(q \o x) = Framed(q) \o Framed(x)
      /\ Framed(d \o x) = Framed(d) \o Framed(x) /\ Framed(x) \in Seq(Words)
  BY <1>1, FramedConcat
<1>4. (w \o Framed(q)) \o Framed(x) = w \o (Framed(q) \o Framed(x))
  <2> HIDE DEF w
  <2> QED
    BY <1>1, <1>3, Together, Zenon
<1>5. w \o Framed(q \o x) = Framed(d \o x)
  BY <1>1, <1>3, <1>4
<1>6. ~k => o = <<>> /\ b = <<>> /\ d \o x = q \o x
  BY DEF Told
<1> QED
  BY <1>1, <1>2, <1>5, <1>6 DEF Told

(* A packet is copied into the block.                                      *)
LEMMA ToldProcessed ==
  ASSUME NEW o, NEW b, NEW q \in Seq(Packets), NEW d, NEW p \in Packets,
         Told(o, b, <<p>> \o q, d, TRUE), NEW n, NEW e, n \in Seq(Frames), e \in Seq(Clean),
         Stripped(n) \o e = b \o WordsOf(p)
  PROVE  Told(o \o n, e, q, d, TRUE)
<1>1. /\ o \in Seq(Frames) /\ b \in Seq(Words) /\ d \in Seq(Packets)
      /\ Stripped(o) \in Seq(Words)
      /\ (Stripped(o) \o b) \o Framed(<<p>> \o q) = Framed(d)
  BY ToldTyped
<1>2. <<p>> \in Seq(Packets)
  OBVIOUS
<1>3. /\ Framed(<<p>> \o q) = WordsOf(p) \o Framed(q)
      /\ WordsOf(p) \in Seq(Words) /\ Framed(q) \in Seq(Words)
  BY <1>2, FramedConcat, FramedOne
<1>4. /\ o \o n \in Seq(Frames) /\ Stripped(o \o n) = Stripped(o) \o Stripped(n)
      /\ Stripped(n) \in Seq(Words)
  BY <1>1, StrippedConcat, ConcatElements
<1>5. e \in Seq(Words)
  BY CleanWords
<1> DEFINE so == Stripped(o)
           sn == Stripped(n)
           wp == WordsOf(p)
           fq == Framed(q)
<1>6. /\ so \in Seq(Words) /\ sn \in Seq(Words) /\ wp \in Seq(Words) /\ fq \in Seq(Words)
      /\ sn \o e = b \o wp
  BY <1>1, <1>3, <1>4
<1>7. (so \o b) \o (wp \o fq) = ((so \o sn) \o e) \o fq
  <2> HIDE DEF so, sn, wp, fq
  <2>1. ((so \o b) \o wp) \o fq = (so \o b) \o (wp \o fq)
    <3>1. so \o b \in Seq(Words)
      BY <1>1, <1>6, Together, Zenon
    <3>2. wp \in Seq(Words) /\ fq \in Seq(Words)
      BY <1>6
    <3> QED
      BY <3>1, <3>2, Together, ZenonT(30)
  <2>2. (so \o b) \o wp = so \o (b \o wp)
    BY <1>1, <1>6, Together, Zenon
  <2>3. (so \o sn) \o e = so \o (sn \o e)
    BY <1>5, <1>6, Together, Zenon
  <2> QED
    BY <1>6, <2>1, <2>2, <2>3
<1>8. (Stripped(o \o n) \o e) \o Framed(q) = Framed(d)
  BY <1>1, <1>3, <1>4, <1>7
<1> QED
  BY <1>1, <1>4, <1>8 DEF Told

(* A packet of a channel on no list is skipped.                            *)
LEMMA ToldSkipped ==
  ASSUME NEW o, NEW b, NEW q \in Seq(Packets), NEW d, NEW p \in Packets,
         Told(o, b, <<p>> \o q, d, FALSE)
  PROVE  Told(o, b, q, Tail(d), FALSE)
<1>1. o = <<>> /\ b = <<>> /\ d = <<p>> \o q /\ d \in Seq(Packets)
  BY DEF Told
<1>2. d = <<p>> \o q => Tail(d) = q
  <2>1. Tail(<<p>> \o q) = q
    <3>1. /\ <<p>> \in Seq(Packets) /\ Len(<<p>>) = 1
      OBVIOUS
    <3> DEFINE r == <<p>> \o q
    <3>2. /\ r \in Seq(Packets) /\ Len(r) = 1 + Len(q) /\ Len(q) \in Nat
          /\ \A i \in 1 .. Len(q) : r[1 + i] = q[i]
      BY <3>1, ConcatElements
    <3> HIDE DEF r
    <3>3. /\ Tail(r) \in Seq(Packets) /\ Len(Tail(r)) = Len(q)
          /\ \A i \in 1 .. Len(q) : Tail(r)[i] = r[i + 1]
      BY <3>2
    <3>4. \A i \in 1 .. Len(q) : Tail(r)[i] = q[i]
      BY <3>2, <3>3
    <3>5. Tail(r) = q
      BY <3>3, <3>4, SeqEqual
    <3> QED
      BY <3>5 DEF r
  <2> QED
    BY <2>1
<1>3. /\ <<>> \in Seq(Frames) /\ <<>> \in Seq(Clean) /\ <<>> \o <<>> = <<>>
  OBVIOUS
<1>4. <<>> \o Framed(q) = Framed(q)
  BY FramedConcat, ConcatEmptySeq
<1> QED
  BY <1>1, <1>2, <1>3, <1>4, StrippedEmpty DEF Told

(* The plugin starts anew.                                                 *)
LEMMA ToldAnew ==
  ASSUME NEW q \in Seq(Packets), NEW k
  PROVE  Told(<<>>, <<>>, q, q, k)
<1>1. /\ <<>> \in Seq(Frames) /\ <<>> \in Seq(Clean) /\ <<>> \o <<>> = <<>>
  OBVIOUS
<1>2. <<>> \o Framed(q) = Framed(q)
  BY FramedConcat, ConcatEmptySeq
<1> QED
  BY <1>1, <1>2, StrippedEmpty DEF Told

(* The block is flushed.                                                   *)
LEMMA ToldFlushed ==
  ASSUME NEW o, NEW b, NEW q, NEW d, Told(o, b, q, d, TRUE),
         NEW f \in Frames, Mapped(f.data, Filling) = b
  PROVE  Told(Append(o, f), <<>>, q, d, TRUE)
<1>1. /\ o \in Seq(Frames) /\ q \in Seq(Packets) /\ d \in Seq(Packets)
      /\ Stripped(o) \o b \in Seq(Words)
      /\ (Stripped(o) \o b) \o Framed(q) = Framed(d)
  BY ToldTyped
<1>2. <<f>> \in Seq(Frames) /\ Append(o, f) = o \o <<f>> /\ Append(o, f) \in Seq(Frames)
  BY <1>1, Appended, AppendIsConcat
<1>3. Stripped(Append(o, f)) = Stripped(o) \o b
  BY <1>1, <1>2, StrippedConcat, StrippedOne
<1>4. (Stripped(o) \o b) \o <<>> = Stripped(o) \o b
  BY <1>1, ConcatEmptySeq
<1>5. <<>> \in Seq(Clean)
  OBVIOUS
<1> QED
  BY <1>1, <1>2, <1>3, <1>4, <1>5 DEF Told

-----------------------------------------------------------------------------
LEMMA PendingIs ==
  \A c : Pending(c) = OfChannel(c, Waiting) /\ Pending(c)' = OfChannel(c, Waiting')
  BY DEF Pending, Waiting

LEMMA StreamStays ==
  ASSUME StreamInv, ~crashed, crashed' = crashed, Waiting' = Waiting,
         UNCHANGED <<block, out, due, known>>
  PROVE  StreamInv'
<1>1. ASSUME NEW c \in Channels PROVE StreamOf(c)'
  <2>1. Told(out[c], block[c], Pending(c), due[c], c \in known)
    BY DEF StreamInv, StreamOf
  <2>2. Pending(c)' = Pending(c)
    BY PendingIs
  <2> QED
    BY <2>1, <2>2 DEF StreamOf
<1> QED
  BY <1>1 DEF StreamInv

(* A packet is kept: it is the last one due and the last one waiting.      *)
LEMMA KeepStream ==
  ASSUME TypeInv, StreamInv, ~crashed, crashed' = crashed, NEW p \in Packets, Keep(p),
         UNCHANGED <<work, block, out, known>>
  PROVE  StreamInv'
<1>1. /\ due \in [Channels -> Seq(Packets)]
      /\ \A c \in Channels : Told(out[c], block[c], Pending(c), due[c], c \in known)
  BY DEF StreamInv, StreamOf
<1>2. due' = [due EXCEPT ![p.ch] = Append(due[p.ch], p)] /\ p.ch \in Channels
  BY DEF Keep, Packets
<1>3. due' \in [Channels -> Seq(Packets)]
  <2>1. Append(due[p.ch], p) \in Seq(Packets)
    BY <1>1, <1>2, Appended
  <2> QED
    BY <1>1, <1>2, <2>1
<1>4. <<p>> \in Seq(Packets)
  OBVIOUS
<1>5. ASSUME NEW c \in Channels PROVE StreamOf(c)'
  <2>1. Pending(c)' = Pending(c) \o OfChannel(c, <<p>>)
    <3>1. Waiting' = Waiting \o <<p>> /\ Waiting \in Seq(Packets)
      BY WaitingTyped, WaitingKept
    <3>2. OfChannel(c, Waiting \o <<p>>) = OfChannel(c, Waiting) \o OfChannel(c, <<p>>)
      BY <1>4, <3>1, ChannelConcat
    <3> QED
      BY <3>1, <3>2, PendingIs
  <2>2. OfChannel(c, <<p>>) = IF p.ch = c THEN <<p>> ELSE <<>>
    BY ChannelOne
  <2>3. OfChannel(c, <<p>>) \in Seq(Packets)
    BY <1>4, ChannelConcat
  <2>4. due'[c] = due[c] \o OfChannel(c, <<p>>)
    <3>1. due[c] \in Seq(Packets)
      BY <1>1
    <3>2. CASE p.ch = c
      <4>1. due'[c] = Append(due[c], p)
        BY <1>1, <1>2, <3>2
      <4>2. Append(due[c], p) = due[c] \o <<p>>
        BY <3>1, AppendIsConcat
      <4> QED
        BY <2>2, <3>2, <4>1, <4>2
    <3>3. CASE p.ch # c
      <4>1. due'[c] = due[c]
        BY <1>1, <1>2, <3>3
      <4>2. due[c] \o <<>> = due[c]
        BY <3>1, ConcatEmptySeq
      <4> QED
        BY <2>2, <3>3, <4>1, <4>2
    <3> QED
      BY <3>2, <3>3
  <2>5. Told(out[c], block[c], Pending(c), due[c], c \in known)
    BY <1>1
  <2>6. Told(out[c], block[c], Pending(c) \o OfChannel(c, <<p>>),
             due[c] \o OfChannel(c, <<p>>), c \in known)
    BY <2>3, <2>5, ToldKept
  <2> QED
    BY <2>1, <2>4, <2>6 DEF StreamOf
<1> QED
  BY <1>3, <1>5 DEF StreamInv

LEMMA ReceiveStream ==
  ASSUME TypeInv, StreamInv, ~crashed, NEW c \in Channels, Receive(c)
  PROVE  StreamInv'
<1>1. Packet(c) \in Packets
  BY PacketTyped DEF Receive, Leaves
<1>2. UNCHANGED <<work, block, out, known, crashed>>
  BY DEF Receive, Leaves, plugin
<1>3. CASE Keep(Packet(c))
  BY <1>1, <1>2, <1>3, KeepStream
<1>4. CASE Drop(Packet(c))
  <2>1. UNCHANGED <<cur, ready, due>>
    BY <1>4 DEF Drop
  <2>2. Waiting' = Waiting
    BY <1>2, <2>1 DEF Waiting
  <2> QED
    BY <1>2, <2>1, <2>2, StreamStays
<1> QED
  BY <1>3, <1>4 DEF Receive

(* The first packet waiting leaves its channel; the others are untouched.  *)
LEMMA PendingDone ==
  ASSUME TypeInv, Done, NEW c
  PROVE  /\ Pending(c)' \in Seq(Packets) /\ Head(work) \in Packets
         /\ Pending(c) = IF Head(work).ch = c THEN <<Head(work)>> \o Pending(c)'
                                              ELSE Pending(c)'
<1>1. /\ Waiting = <<Head(work)>> \o Waiting' /\ Waiting' \in Seq(Packets)
      /\ Head(work) \in Packets
  BY WaitingDone, DoneTyped
<1>2. <<Head(work)>> \in Seq(Packets)
  BY <1>1
<1>3. /\ OfChannel(c, <<Head(work)>> \o Waiting')
           = OfChannel(c, <<Head(work)>>) \o OfChannel(c, Waiting')
      /\ OfChannel(c, Waiting') \in Seq(Packets)
  BY <1>1, <1>2, ChannelConcat
<1>4. OfChannel(c, <<Head(work)>>) = IF Head(work).ch = c THEN <<Head(work)>> ELSE <<>>
  BY <1>1, ChannelOne
<1>5. <<>> \o OfChannel(c, Waiting') = OfChannel(c, Waiting')
  BY <1>3, ConcatEmptySeq
<1> QED
  BY <1>1, <1>3, <1>4, <1>5, PendingIs

LEMMA ProcessPacketStream ==
  ASSUME TypeInv, StreamInv, ~crashed, ProcessPacket
  PROVE  StreamInv'
<1> DEFINE p == Head(work)
           added == AddBlock(block[p.ch], count[p.ch], p)
<1>1. /\ due \in [Channels -> Seq(Packets)]
      /\ \A c \in Channels : Told(out[c], block[c], Pending(c), due[c], c \in known)
  BY DEF StreamInv, StreamOf
<1>2. /\ block' = [block EXCEPT ![p.ch] = added.block]
      /\ out' = [out EXCEPT ![p.ch] = out[p.ch] \o added.frames]
      /\ UNCHANGED <<due, known, crashed>> /\ Done /\ p.ch \in channels
  BY DEF ProcessPacket, Done, history
<1>3. p \in Packets /\ p.ch \in Channels /\ p.len < size /\ p.ch \in known
  <2>1. p \in Packets
    BY <1>2, DoneTyped
  <2> HIDE DEF p
  <2> QED
    BY <1>2, <2>1, DataTyped DEF TypeInv, TypeOK
<1>4. /\ added.block \in Seq(Clean) /\ added.frames \in Seq(Frames)
      /\ Stripped(added.frames) \o added.block = block[p.ch] \o WordsOf(p)
  <2>1. block[p.ch] \in Seq(Clean)
    BY <1>1, <1>3, ToldTyped
  <2>2. Len(block[p.ch]) < size /\ count[p.ch] \in Nat
    BY <1>3 DEF TypeInv, TypeOK
  <2> HIDE DEF p
  <2> QED
    BY <1>3, <2>1, <2>2, AddBlockWords
<1> HIDE DEF added
<1>5. ASSUME NEW c \in Channels PROVE StreamOf(c)'
  <2>1. Told(out[c], block[c], Pending(c), due[c], c \in known)
    BY <1>1
  <2>2. CASE p.ch = c
    <3>1. Pending(c) = <<p>> \o Pending(c)' /\ Pending(c)' \in Seq(Packets)
      BY <1>2, <2>2, PendingDone
    <3>2. out'[c] = out[c] \o added.frames /\ block'[c] = added.block
      BY <1>2, <1>3, <2>2 DEF TypeInv, TypeOK
    <3>3. c \in known
      BY <1>3, <2>2
    <3>4. Told(out[c], block[c], <<p>> \o Pending(c)', due[c], TRUE)
      BY <2>1, <3>1, <3>3
    <3> HIDE DEF p
    <3>5. Told(out[c] \o added.frames, added.block, Pending(c)', due[c], TRUE)
      BY <1>3, <1>4, <2>2, <3>1, <3>4, ToldProcessed
    <3>6. c \in known'
      BY <1>2, <3>3
    <3> QED
      BY <1>2, <3>2, <3>5, <3>6 DEF StreamOf
  <2>3. CASE p.ch # c
    <3>1. Pending(c) = Pending(c)'
      BY <1>2, <2>3, PendingDone
    <3>2. out'[c] = out[c] /\ block'[c] = block[c]
      BY <1>2, <1>3, <2>3 DEF TypeInv, TypeOK
    <3> QED
      BY <1>2, <2>1, <3>1, <3>2 DEF StreamOf
  <2> QED
    BY <2>2, <2>3
<1> QED
  BY <1>1, <1>2, <1>5 DEF StreamInv

LEMMA SkipPacketStream ==
  ASSUME TypeInv, StreamInv, ~crashed, SkipPacket
  PROVE  StreamInv'
<1> DEFINE p == Head(work)
<1>1. /\ due \in [Channels -> Seq(Packets)]
      /\ \A c \in Channels : Told(out[c], block[c], Pending(c), due[c], c \in known)
  BY DEF StreamInv, StreamOf
<1>2. /\ due' = [due EXCEPT ![p.ch] = Tail(due[p.ch])]
      /\ UNCHANGED <<block, out, known, crashed>> /\ Done /\ p.ch \notin known
  BY DEF SkipPacket, Done
<1>3. p \in Packets /\ p.ch \in Channels
  <2>1. p \in Packets
    BY <1>2, DoneTyped
  <2> HIDE DEF p
  <2> QED
    BY <2>1, DataTyped
<1>4. ASSUME NEW c \in Channels PROVE StreamOf(c)' /\ due'[c] \in Seq(Packets)
  <2>1. Told(out[c], block[c], Pending(c), due[c], c \in known)
    BY <1>1
  <2>2. CASE p.ch = c
    <3>1. Pending(c) = <<p>> \o Pending(c)' /\ Pending(c)' \in Seq(Packets)
      BY <1>2, <2>2, PendingDone
    <3>2. due'[c] = Tail(due[c])
      BY <1>1, <1>2, <1>3, <2>2
    <3>3. Told(out[c], block[c], <<p>> \o Pending(c)', due[c], FALSE)
      <4>1. (c \in known) = FALSE
        BY <1>2, <2>2
      <4>2. Told(out[c], block[c], Pending(c), due[c], FALSE)
        BY <2>1, <4>1
      <4> QED
        BY <3>1, <4>2
    <3> HIDE DEF p
    <3>4. Told(out[c], block[c], Pending(c)', Tail(due[c]), FALSE)
      BY <1>3, <3>1, <3>3, ToldSkipped
    <3>5. Tail(due[c]) \in Seq(Packets)
      BY <3>4, ToldTyped
    <3>6. (c \in known)' = FALSE
      BY <1>2, <2>2
    <3> QED
      BY <1>2, <3>2, <3>4, <3>5, <3>6 DEF StreamOf
  <2>3. CASE p.ch # c
    <3>1. Pending(c) = Pending(c)'
      BY <1>2, <2>3, PendingDone
    <3>2. due'[c] = due[c]
      BY <1>1, <1>2, <1>3, <2>3
    <3> QED
      BY <1>1, <1>2, <2>1, <3>1, <3>2 DEF StreamOf
  <2> QED
    BY <2>2, <2>3
<1>5. due' \in [Channels -> Seq(Packets)]
  <2>1. DOMAIN due' = Channels /\ due' = [c \in DOMAIN due' |-> due'[c]]
    BY <1>1, <1>2
  <2> QED
    BY <1>4, <2>1
<1> QED
  BY <1>2, <1>4, <1>5 DEF StreamInv

LEMMA ProcessStream ==
  ASSUME TypeInv, StreamInv, ~crashed, Process
  PROVE  StreamInv'
<1>1. CASE Take
  <2>1. UNCHANGED <<block, out, due, known, crashed>>
    BY <1>1 DEF Take, plugin, history
  <2> QED
    BY <1>1, <2>1, WaitingTaken, StreamStays
<1>2. CASE MissBlock
  BY <1>2 DEF MissBlock, StreamInv
<1> QED
  BY <1>1, <1>2, ProcessPacketStream, SkipPacketStream DEF Process

(* Everything the plugin has processed is given up at a new start.         *)
LEMMA AnewStream ==
  ASSUME TypeInv, Anew, UNCHANGED <<decoder, buffers>>
  PROVE  StreamInv'
<1>1. Waiting' = Waiting
  BY DEF Waiting, decoder, buffers
<1>2. ASSUME NEW c \in Channels PROVE Pending(c) \in Seq(Packets)
  BY WaitingTyped, ChannelConcat, PendingIs
<1>3. /\ due' = [c \in Channels |-> Pending(c)]
      /\ out' = [c \in Channels |-> <<>>] /\ block' = [c \in Channels |-> <<>>]
  BY DEF Anew, NoPackets
<1>4. ASSUME NEW c \in Channels PROVE StreamOf(c)'
  <2>1. Pending(c)' = Pending(c)
    BY <1>1, PendingIs
  <2>2. due'[c] = Pending(c) /\ out'[c] = <<>> /\ block'[c] = <<>>
    BY <1>3
  <2>3. Told(<<>>, <<>>, Pending(c), Pending(c), (c \in known)')
    BY <1>2, ToldAnew
  <2> QED
    BY <2>1, <2>2, <2>3 DEF StreamOf
<1>5. due' \in [Channels -> Seq(Packets)]
  BY <1>2, <1>3
<1> QED
  BY <1>4, <1>5 DEF StreamInv

LEMMA FlushStream ==
  ASSUME TypeInv, StreamInv, ~crashed, Flush
  PROVE  StreamInv'
<1>1. /\ due \in [Channels -> Seq(Packets)]
      /\ \A c \in Channels : Told(out[c], block[c], Pending(c), due[c], c \in known)
  BY DEF StreamInv, StreamOf
<1>2. /\ UNCHANGED <<decoder, buffers, due, known, crashed>>
      /\ out' = [c \in Channels |->
           IF c \in channels THEN Append(out[c], ToFrame(c)) ELSE out[c]]
      /\ block' = [c \in Channels |-> IF c \in channels THEN <<>> ELSE block[c]]
  BY DEF Flush, history
<1>3. Waiting' = Waiting
  BY <1>2 DEF Waiting, decoder, buffers
<1>4. ASSUME NEW c \in Channels PROVE StreamOf(c)'
  <2>1. Told(out[c], block[c], Pending(c), due[c], c \in known)
    BY <1>1
  <2>2. Pending(c)' = Pending(c)
    BY <1>3, PendingIs
  <2>3. CASE c \in channels
    <3>1. c \in known /\ c \in known'
      BY <1>2, <2>3 DEF TypeInv, TypeOK
    <3>2. block[c] \in Seq(Clean) /\ Len(block[c]) < size
      BY <2>1, ToldTyped DEF TypeInv, TypeOK
    <3>3. Mapped(Padded(block[c]), Filling) = block[c]
      BY <3>2, PaddedWords
    <3>4. ToFrame(c) \in Frames /\ ToFrame(c).data = Padded(block[c])
      BY ToFrameTyped DEF ToFrame, Frame
    <3>5. Told(out[c], block[c], Pending(c), due[c], TRUE)
      BY <2>1, <3>1
    <3>6. Mapped(ToFrame(c).data, Filling) = block[c]
      BY <3>3, <3>4
    <3>7. Told(Append(out[c], ToFrame(c)), <<>>, Pending(c), due[c], TRUE)
      BY <3>4, <3>5, <3>6, ToldFlushed
    <3>8. out'[c] = Append(out[c], ToFrame(c)) /\ block'[c] = <<>>
      BY <1>2, <2>3
    <3> QED
      BY <1>2, <2>2, <3>1, <3>7, <3>8 DEF StreamOf
  <2>4. CASE c \notin channels
    <3>1. out'[c] = out[c] /\ block'[c] = block[c]
      BY <1>2, <2>4
    <3> QED
      BY <1>2, <2>1, <2>2, <3>1 DEF StreamOf
  <2> QED
    BY <2>3, <2>4
<1> QED
  BY <1>1, <1>2, <1>4 DEF StreamInv

LEMMA ClientStream ==
  ASSUME TypeInv, StreamInv, ~crashed, Client
  PROVE  StreamInv'
<1>1. ASSUME AnewOnly PROVE StreamInv'
  BY <1>1, AnewStream DEF AnewOnly
<1>2. CASE Start
  BY <1>2, AnewStream DEF Start
<1>3. CASE Stop
  <2>1. /\ UNCHANGED <<decoder, buffers>> /\ UNCHANGED <<block, out, due, known, crashed>>
    BY <1>3 DEF Stop, plugin
  <2>2. Waiting' = Waiting
    BY <2>1 DEF Waiting, decoder, buffers
  <2> QED
    BY <2>1, <2>2, StreamStays
<1> QED
  BY <1>1, <1>2, <1>3, FlushStream DEF Client, SetChannels, SetFrameSize, Reset

LEMMA StreamStep == TypeInv /\ StreamInv /\ [Next]_vars => StreamInv'
<1> SUFFICES ASSUME TypeInv, StreamInv, [Next]_vars PROVE StreamInv'
  OBVIOUS
<1>1. CASE crashed
  <2>1. crashed'
    <3>1. ASSUME Client PROVE crashed' = crashed
      BY <3>1 DEF Client, SetChannels, SetFrameSize, Reset, AnewOnly, Flush, Start, Stop,
                  plugin
    <3>2. ASSUME Decode \/ (\E c \in Channels : Lose(c)) PROVE crashed' = crashed
      BY <3>2 DEF Decode, Receive, Lose, Leaves, plugin
    <3>3. ~Process
      BY <1>1 DEF Process, Take, ProcessPacket, SkipPacket, MissBlock, Done
    <3>4. UNCHANGED vars => crashed' = crashed
      BY DEF vars, plugin
    <3> QED
      BY <1>1, <3>1, <3>2, <3>3, <3>4 DEF Next
  <2> QED
    BY <2>1 DEF StreamInv
<1>2. CASE ~crashed
  <2>1. ASSUME NEW c \in Channels, Lose(c) PROVE StreamInv'
    <3>1. UNCHANGED <<work, ready, cur, block, out, due, known, crashed>>
      BY <2>1 DEF Lose, Leaves, decoder, plugin
    <3>2. Waiting' = Waiting
      BY <3>1 DEF Waiting
    <3> QED
      BY <1>2, <3>1, <3>2, StreamStays
  <2>2. CASE UNCHANGED vars
    <3>1. UNCHANGED <<work, ready, cur, block, out, due, known, crashed>>
      BY <2>2 DEF vars, decoder, buffers, plugin, history
    <3>2. Waiting' = Waiting
      BY <3>1 DEF Waiting
    <3> QED
      BY <1>2, <3>1, <3>2, StreamStays
  <2> QED
    BY <1>2, <2>1, <2>2, ReceiveStream, ProcessStream, ClientStream DEF Next, Decode
<1> QED
  BY <1>1, <1>2

(* Whatever is lost before the decoder or dropped for want of a buffer, the*)
(* frames pushed, the block and the packets on their way are together the  *)
(* packets the decoder kept, in order, each behind its word count: packets *)
(* split over two blocks, flushes, resets, new lists and sizes at any time *)
(* neither lose nor repeat a word.                                         *)
THEOREM WordsInOrder == Spec => []StreamOfKept
<1>1. Init => StreamInv
  <2> SUFFICES ASSUME Init PROVE StreamInv
    OBVIOUS
  <2>1. work = <<>> /\ ready = <<>> /\ cur = <<>>
    BY DEF Init
  <2>2. Waiting = <<>>
    BY <2>1, FlattenEmpty DEF Waiting
  <2>3. ASSUME NEW c \in Channels PROVE Pending(c) = <<>>
    <3>1. <<>> \in Seq(Packets)
      OBVIOUS
    <3>2. OfChannel(c, <<>>) = <<>>
      BY <3>1, OfChannelMapped, MappedEmpty
    <3> QED
      BY <2>2, <3>2, PendingIs
  <2>4. ASSUME NEW c \in Channels PROVE StreamOf(c)
    <3>1. out[c] = <<>> /\ block[c] = <<>> /\ due[c] = <<>>
      BY DEF Init, NoPackets
    <3>2. <<>> \in Seq(Packets)
      OBVIOUS
    <3>3. Told(<<>>, <<>>, <<>>, <<>>, c \in known)
      BY <3>2, ToldAnew
    <3> QED
      BY <2>3, <3>1, <3>3 DEF StreamOf
  <2>5. due \in [Channels -> Seq(Packets)]
    BY DEF Init, NoPackets
  <2> QED
    BY <2>4, <2>5 DEF StreamInv
<1>2. StreamInv => StreamOfKept
  BY ToldTyped DEF StreamInv, StreamOf, StreamOfKept
<1> QED
  BY <1>1, <1>2, StreamStep, Invariant, PTL DEF Spec
=============================================================================
