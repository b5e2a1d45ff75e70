----------------------- MODULE XspressMetaWriterProofs -----------------------
(***************************************************************************)
(* Theorems about XspressMetaWriter, for any number of processors, of      *)
(* channels of each, of frames and of messages, in any order.              *)
(***************************************************************************)
EXTENDS XspressMetaWriter, FiniteSetTheorems, TLAPS

-----------------------------------------------------------------------------
(* The place of a value in a message: how its index is made of a frame, a  *)
(* channel and a number, and how they are found again.                     *)

(* An index made of a row and a place in it is within the rows.            *)
LEMMA Within ==
  ASSUME NEW rows \in Nat, NEW width \in Nat \ {0},
         NEW row \in 0 .. rows - 1, NEW at \in 0 .. width - 1
  PROVE  row * width + at \in 0 .. rows * width - 1
<1> DEFINE more == rows - row - 1
<1>1. more \in Nat /\ rows = row + 1 + more
  OBVIOUS
<1> HIDE DEF more
<1>2. rows * width = row * width + width + more * width
  BY <1>1
<1>3. more * width \in Nat /\ row * width \in Nat
  BY <1>1
<1> QED
  BY <1>2, <1>3

(* Row and place are the quotient and the remainder of the index.          *)
LEMMA Divided ==
  ASSUME NEW row \in Nat, NEW width \in Nat \ {0}, NEW at \in 0 .. width - 1
  PROVE  /\ (row * width + at) \div width = row
         /\ (row * width + at) % width = at
<1> DEFINE x == row * width + at
           q == x \div width
           r == x % width
<1>1. x \in Nat
  OBVIOUS
<1>2. q \in Int /\ r \in 0 .. width - 1 /\ x = q * width + r
  BY <1>1
<1> HIDE DEF x, q, r
<1>3. (q - row) * width = at - r
  BY <1>2 DEF x
<1>4. CASE q = row
  BY <1>2, <1>3, <1>4 DEF x, q, r
<1>5. CASE q > row
  <2> DEFINE d == q - row - 1
  <2>1. d \in Nat /\ q - row = d + 1
    BY <1>2, <1>5
  <2> HIDE DEF d
  <2>2. (q - row) * width = d * width + width
    BY <2>1
  <2>3. d * width \in Nat
    BY <2>1
  <2> QED
    BY <1>2, <1>3, <2>2, <2>3
<1>6. CASE q < row
  <2> DEFINE d == row - q - 1
  <2>1. d \in Nat /\ q - row = -(d + 1)
    BY <1>2, <1>6
  <2> HIDE DEF d
  <2>2. (q - row) * width = -(d * width + width)
    BY <2>1
  <2>3. d * width \in Nat
    BY <2>1
  <2> QED
    BY <1>2, <1>3, <2>2, <2>3
<1> QED
  BY <1>2, <1>4, <1>5, <1>6

(* The row of an index within the rows is one of the rows.                 *)
LEMMA Quotient ==
  ASSUME NEW rows \in Nat, NEW width \in Nat \ {0}, NEW x \in Nat,
         x < rows * width
  PROVE  x \div width \in 0 .. rows - 1
<1> DEFINE q == x \div width
           r == x % width
           d == q - rows
<1>1. q \in Nat /\ r \in 0 .. width - 1 /\ x = q * width + r
  OBVIOUS
<1> HIDE DEF q, r
<1>2. CASE q >= rows
  <2>1. d \in Nat /\ q = rows + d
    BY <1>1, <1>2
  <2> HIDE DEF d
  <2>2. q * width = rows * width + d * width /\ d * width \in Nat
    BY <2>1
  <2>3. rows * width \in Nat
    OBVIOUS
  <2> QED
    BY <1>1, <2>2, <2>3
<1>3. CASE q < rows
  BY <1>1, <1>3 DEF q
<1> QED
  BY <1>1, <1>2, <1>3

(* What the constants are, one by one.                                     *)
LEMMA ConstantTypes ==
  /\ NumChannels \in Nat \ {0} /\ PerChannel \in Nat \ {0}
  /\ NumFrames \in Nat \ {0} /\ MaxAcqs \in Nat /\ MaxConfigs \in Nat
  /\ MaxLosses \in Nat
  /\ \A k \in Kinds : Width(k) \in Nat \ {0}
  /\ \A s \in Senders :
       /\ First[s] \in Nat /\ Num[s] \in Nat \ {0}
       /\ First[s] + Num[s] <= NumChannels
       /\ ChannelsOf(s) \subseteq Channels
<1>1. ASSUME NEW s \in Senders
      PROVE  First[s] + Num[s] <= NumChannels
  <2>1. First[s] + Num[s] - 1 \in ChannelsOf(s)
    BY MetaAssumption DEF ChannelsOf
  <2>2. First[s] + Num[s] - 1 \in Channels
    BY <2>1, ChannelsShared
  <2> QED
    BY <2>2, MetaAssumption DEF Channels
<1> QED
  BY <1>1, MetaAssumption, ChannelsShared DEF Width

(* A message carries acquisition a: the value found for a frame, a channel *)
(* and a number is that value of the acquisition.                          *)
Carries(m, a) ==
  \A f \in FramesOf(m), c \in ChannelsIn(m), j \in 0 .. Width(m.kind) - 1 :
    ValueAt(m, f, c, j) = Value(a, f, c, <<m.kind, j>>)

(* The values of a message are found where the processor put them.         *)
LEMMA PublishedCarries ==
  ASSUME NEW s \in Senders, NEW k \in Kinds, NEW n \in 1 .. NumFrames,
         sent[s] \in 0 .. NumFrames
  PROVE  Carries(Message(s, k, n), acq)
<1> DEFINE m == Message(s, k, n)
           w == Width(k)
<1>1. /\ m.kind = k /\ m.frame = sent[s] /\ m.frames = n
      /\ m.first = First[s] /\ m.num = Num[s] /\ m.data = Flat(s, k, n)
  BY DEF Message
<1> SUFFICES ASSUME NEW f \in FramesOf(m), NEW c \in ChannelsIn(m),
                    NEW j \in 0 .. w - 1
             PROVE  ValueAt(m, f, c, j) = Value(acq, f, c, <<k, j>>)
  BY <1>1 DEF Carries
<1> DEFINE row == f - sent[s]
           at  == c - First[s]
           num == Num[s]
           y   == (row * num + at) * w + j
<1>2. row \in 0 .. n - 1 /\ at \in 0 .. num - 1
  BY <1>1, ConstantTypes DEF FramesOf, ChannelsIn
<1>3. w \in Nat \ {0} /\ num \in Nat \ {0}
  BY ConstantTypes
<1> HIDE DEF row, at, num, w
<1>4. row * num + at \in 0 .. n * num - 1
  BY <1>2, <1>3, Within
<1>5. n * num \in Nat
  BY <1>3
<1>6. y \in 0 .. (n * num) * w - 1
  BY <1>3, <1>4, <1>5, Within
<1>7. y \div w = row * num + at /\ y % w = j
  <2> DEFINE place == row * num + at
  <2>1. place \in Nat
    BY <1>4, <1>5
  <2> HIDE DEF place
  <2>2. (place * w + j) \div w = place /\ (place * w + j) % w = j
    BY <1>3, <2>1, Divided
  <2> QED
    BY <2>2 DEF place
<1>8. (row * num + at) % num = at
  BY <1>2, <1>3, Divided
<1>9. y \div (num * w) = row
  <2>1. at * w + j \in 0 .. num * w - 1
    BY <1>2, <1>3, Within
  <2>2. num * w \in Nat \ {0}
    BY <1>3
  <2>3. y = row * (num * w) + (at * w + j)
    BY <1>2, <1>3
  <2> QED
    BY <1>2, <2>1, <2>2, <2>3, Divided
<1>10. m.data[y + 1] =
         Value(acq, sent[s] + y \div (num * w), First[s] + ((y \div w) % num),
               <<k, y % w>>)
  <2>1. y + 1 \in 1 .. n * num * w
    BY <1>3, <1>5, <1>6
  <2>2. (y + 1) - 1 = y
    BY <1>2, <1>3
  <2> HIDE DEF y
  <2> QED
    BY <1>1, <2>1, <2>2 DEF Flat, num, w
<1>11. sent[s] + row = f /\ First[s] + at = c
  BY <1>1, ConstantTypes DEF row, at, FramesOf, ChannelsIn
<1>12. ValueAt(m, f, c, j) = m.data[y + 1]
  BY <1>1 DEF ValueAt, row, at, num, w
<1> QED
  BY <1>7, <1>8, <1>9, <1>10, <1>11, <1>12

-----------------------------------------------------------------------------
(* Type correctness.                                                       *)

(* The messages a processor sends.                                         *)
Sent(s) ==
  {m \in Messages :
     /\ m.first = First[s] /\ m.num = Num[s]
     /\ m.frame + m.frames <= NumFrames
     /\ \E a \in 0 .. MaxAcqs : Carries(m, a)}

TypeInv == TypeOK /\ \A s \in Senders : queue[s] \in Seq(Sent(s) \cup {Chunk})

(* A dataset is a kind and a number below the width of the kind.           *)
LEMMA DatasetsTyped ==
  /\ \A d \in Datasets :
       /\ d[1] \in Kinds /\ d[2] \in 0 .. Width(d[1]) - 1
       /\ d = <<d[1], d[2]>>
  /\ \A k \in Kinds : \A j \in 0 .. Width(k) - 1 : <<k, j>> \in Datasets
<1>1. \A k \in Kinds : Width(k) \in Nat \ {0} /\ Width(k) <= PerChannel
  BY ConstantTypes DEF Width
<1>2. PerChannel \in Nat
  BY ConstantTypes
<1>3. \A k \in Kinds : \A j \in 0 .. Width(k) - 1 : j \in 0 .. PerChannel - 1
  BY <1>1, <1>2
<1>4. ASSUME NEW d \in Datasets
      PROVE  d[1] \in Kinds /\ d[2] \in 0 .. Width(d[1]) - 1 /\ d = <<d[1], d[2]>>
  <2>1. d \in Kinds \X (0 .. PerChannel - 1) /\ d[2] < Width(d[1])
    BY DEF Datasets
  <2> HIDE DEF Kinds
  <2> QED
    BY <1>1, <1>2, <2>1
<1>5. ASSUME NEW k \in Kinds, NEW j \in 0 .. Width(k) - 1
      PROVE  <<k, j>> \in Datasets
  BY <1>1, <1>3 DEF Datasets
<1> QED
  BY <1>4, <1>5

(* The frames and channels of a message, and its values.                   *)
LEMMA MessageTyped ==
  ASSUME NEW s \in Senders, NEW m \in Sent(s)
  PROVE  /\ m.kind \in Kinds /\ m # Chunk /\ m.kind # "chunk"
         /\ m.first = First[s] /\ m.num = Num[s] /\ m.num \in 1 .. NumChannels
         /\ ChannelsIn(m) = ChannelsOf(s) /\ ChannelsIn(m) \subseteq Channels
         /\ FramesOf(m) \subseteq Frames
         /\ \A f \in FramesOf(m), c \in ChannelsIn(m), j \in 0 .. Width(m.kind) - 1 :
              ValueAt(m, f, c, j) \in Values
<1>1. /\ m \in Messages /\ m.first = First[s] /\ m.num = Num[s]
      /\ m.frame + m.frames <= NumFrames
  BY DEF Sent
<1>2. m.kind \in Kinds /\ m.num \in 1 .. NumChannels
  BY <1>1 DEF Messages
<1>3. m # Chunk /\ m.kind # "chunk"
  BY <1>2 DEF Kinds, Chunk
<1>4. ChannelsIn(m) = ChannelsOf(s) /\ ChannelsIn(m) \subseteq Channels
  BY <1>1, ConstantTypes DEF ChannelsIn, ChannelsOf
<1>5. FramesOf(m) \subseteq Frames
  BY <1>1, ConstantTypes DEF Messages, FramesOf, Frames
<1>6. ASSUME NEW f \in FramesOf(m), NEW c \in ChannelsIn(m),
             NEW j \in 0 .. Width(m.kind) - 1
      PROVE  ValueAt(m, f, c, j) \in Values
  <2>1. PICK a \in 0 .. MaxAcqs : Carries(m, a)
    BY DEF Sent
  <2>2. ValueAt(m, f, c, j) = Value(a, f, c, <<m.kind, j>>)
    BY <2>1 DEF Carries
  <2>3. <<m.kind, j>> \in Datasets /\ f \in Frames /\ c \in Channels
    BY <1>2, <1>4, <1>5, DatasetsTyped
  <2> QED
    BY <2>2, <2>3 DEF Value, Values
<1> QED
  BY <1>1, <1>2, <1>3, <1>4, <1>5, <1>6

LEMMA ZeroTyped == Zero \in Values
<1>1. <<"scalars", 0>> \in Datasets
  BY DatasetsTyped, ConstantTypes DEF Kinds
<1>2. 0 \in Frames /\ 0 \in Channels /\ 0 \in 0 .. MaxAcqs
  BY ConstantTypes DEF Frames, Channels
<1> QED
  BY <1>1, <1>2 DEF Zero, Value, Values

(* A row under way stays a row, with fewer values than there are channels. *)
LEMMA AddedTyped ==
  ASSUME NEW s \in Senders, NEW m \in Sent(s), NEW f \in FramesOf(m),
         NEW j \in 0 .. Width(m.kind) - 1, NEW e \in Entries
  PROVE  RowWith(e, m, f, j) \in Rows /\ Added(e, m, f, j) \in Entries
<1>1. e.qty \in 0 .. NumChannels - 1 /\ e.values \in Rows
  BY DEF Entries
<1>2. /\ \A c \in ChannelsIn(m) : ValueAt(m, f, c, j) \in Values
      /\ m.num \in 1 .. NumChannels
  BY MessageTyped
<1>3. RowWith(e, m, f, j) \in Rows
  BY <1>1, <1>2 DEF RowWith, Rows
<1>4. CASE Completes(e, m)
  <2>1. Left(e, m, f, j).values \in Rows
    BY <1>2, ZeroTyped DEF Left, Rows
  <2>2. Left(e, m, f, j).qty \in 0 .. NumChannels - 1
    BY <1>1, <1>2, <1>4, ConstantTypes DEF Left, Completes
  <2>3. Left(e, m, f, j) \in Entries
    BY <2>1, <2>2 DEF Left, Entries
  <2> QED
    BY <1>3, <1>4, <2>3 DEF Added
<1>5. CASE ~Completes(e, m)
  <2>1. e.qty + m.num \in 0 .. NumChannels - 1
    BY <1>1, <1>2, <1>5, ConstantTypes DEF Completes
  <2> QED
    BY <1>3, <1>5, <2>1 DEF Added, Entries
<1> QED
  BY <1>4, <1>5

LEMMA InitTyped == Init => TypeInv
<1> SUFFICES ASSUME Init PROVE TypeInv
  OBVIOUS
<1>1. NoEntry \in Entries
  BY ZeroTyped, ConstantTypes DEF NoEntry, Entries, Rows
<1>2. /\ acq \in 0 .. MaxAcqs /\ sent \in [Senders -> 0 .. NumFrames]
      /\ configs \in 0 .. MaxConfigs /\ losses \in 0 .. MaxLosses
  BY ConstantTypes DEF Init
<1>3. queue \in [Senders -> Seq(Messages \cup {Chunk})]
  BY DEF Init
<1>4. /\ partial \in [Datasets -> [Frames -> Entries]]
      /\ data \in [Datasets -> [Frames -> Rows \cup {NoRow}]]
      /\ written \in [Datasets -> [Frames -> Seq(Rows)]]
  BY <1>1 DEF Init
<1>5. \A s \in Senders : queue[s] \in Seq(Sent(s) \cup {Chunk})
  BY DEF Init
<1> QED
  BY <1>2, <1>3, <1>4, <1>5 DEF TypeInv, TypeOK, Init

(* What is sent is a message of its processor.                             *)
LEMMA PublishedTyped ==
  ASSUME TypeInv, NEW s \in Senders, NEW k \in Kinds, NEW n \in 1 .. NumFrames,
         sent[s] + n <= NumFrames
  PROVE  Message(s, k, n) \in Sent(s)
<1> DEFINE m == Message(s, k, n)
           w == Width(k)
<1>1. sent[s] \in 0 .. NumFrames /\ acq \in 0 .. MaxAcqs
  BY DEF TypeInv, TypeOK
<1>2. /\ m.kind = k /\ m.frame = sent[s] /\ m.frames = n
      /\ m.first = First[s] /\ m.num = Num[s] /\ m.data = Flat(s, k, n)
  BY DEF Message
<1>3. w \in Nat \ {0} /\ Num[s] \in Nat \ {0} /\ First[s] \in Nat
      /\ First[s] + Num[s] <= NumChannels
  BY ConstantTypes
<1>4. Flat(s, k, n) \in Seq(Values)
  <2> HIDE DEF w
  <2>1. n * Num[s] \in Nat /\ Num[s] * w \in Nat \ {0}
    BY <1>3
  <2>2. n * Num[s] * w \in Nat /\ n * Num[s] * w = n * (Num[s] * w)
    BY <1>3, <2>1
  <2> DEFINE val(x) == Value(acq, sent[s] + ((x - 1) \div (Num[s] * w)),
                             First[s] + (((x - 1) \div w) % Num[s]),
                             <<k, (x - 1) % w>>)
  <2> SUFFICES ASSUME NEW x \in 1 .. n * Num[s] * w
               PROVE  val(x) \in Values
    <3>1. Flat(s, k, n) = [x \in 1 .. n * Num[s] * w |-> val(x)]
      BY DEF Flat, w
    <3> HIDE DEF val
    <3>2. Flat(s, k, n) \in [1 .. n * Num[s] * w -> Values]
      BY <3>1
    <3> QED
      BY <2>2, <3>2
  <2>3. (x - 1) \div (Num[s] * w) \in 0 .. n - 1
    <3> DEFINE width == Num[s] * w
    <3>1. x - 1 \in Nat /\ x - 1 < n * width /\ width \in Nat \ {0} /\ n \in Nat
      BY <2>1, <2>2, ConstantTypes
    <3> HIDE DEF width
    <3>2. (x - 1) \div width \in 0 .. n - 1
      BY <3>1, Quotient
    <3> QED
      BY <3>2 DEF width
  <2>4. ((x - 1) \div w) % Num[s] \in 0 .. Num[s] - 1
    BY <1>3, <2>2
  <2>5. (x - 1) % w \in 0 .. w - 1
    BY <1>3, <2>2
  <2>6. <<k, (x - 1) % w>> \in Datasets
    BY <2>5, DatasetsTyped DEF w
  <2>7. sent[s] + ((x - 1) \div (Num[s] * w)) \in Frames
    BY <1>1, <2>3, ConstantTypes DEF Frames
  <2>8. First[s] + (((x - 1) \div w) % Num[s]) \in Channels
    BY <1>3, <2>4, ConstantTypes DEF Channels
  <2> QED
    BY <1>1, <2>6, <2>7, <2>8 DEF Value, Values
<1>5. sent[s] \in Frames /\ First[s] \in Channels /\ Num[s] \in 1 .. NumChannels
  BY <1>1, <1>3, ConstantTypes DEF Frames, Channels
<1>6. m \in Messages
  BY <1>2, <1>4, <1>5 DEF Messages, Message
<1>7. Carries(m, acq)
  BY <1>1, PublishedCarries
<1> QED
  BY <1>1, <1>2, <1>6, <1>7 DEF Sent

(* Queues of a processor's messages stay queues of its messages.           *)
LEMMA QueueTyped ==
  ASSUME NEW s \in Senders, NEW q \in Seq(Sent(s) \cup {Chunk})
  PROVE  /\ q \in Seq(Messages \cup {Chunk})
         /\ q # <<>> => /\ Head(q) \in Sent(s) \cup {Chunk}
                        /\ Tail(q) \in Seq(Sent(s) \cup {Chunk})
<1>1. Sent(s) \cup {Chunk} \subseteq Messages \cup {Chunk}
  BY DEF Sent
<1> QED
  BY <1>1

LEMMA ChunkTyped ==
  ASSUME TypeInv, HandleChunk
  PROVE  /\ configured' \in BOOLEAN
         /\ partial' \in [Datasets -> [Frames -> Entries]]
         /\ data' \in [Datasets -> [Frames -> Rows \cup {NoRow}]]
         /\ written' \in [Datasets -> [Frames -> Seq(Rows)]]
         /\ arrived' \subseteq Kinds \X Frames \X Channels
  BY DEF TypeInv, TypeOK, HandleChunk, Redefines

LEMMA ValuesTyped ==
  ASSUME TypeInv, NEW s \in Senders, NEW m \in Sent(s), HandleValues(m)
  PROVE  /\ configured' \in BOOLEAN
         /\ partial' \in [Datasets -> [Frames -> Entries]]
         /\ data' \in [Datasets -> [Frames -> Rows \cup {NoRow}]]
         /\ written' \in [Datasets -> [Frames -> Seq(Rows)]]
         /\ arrived' \subseteq Kinds \X Frames \X Channels
<1>1. /\ configured \in BOOLEAN
      /\ partial \in [Datasets -> [Frames -> Entries]]
      /\ data \in [Datasets -> [Frames -> Rows \cup {NoRow}]]
      /\ written \in [Datasets -> [Frames -> Seq(Rows)]]
      /\ arrived \subseteq Kinds \X Frames \X Channels
  BY DEF TypeInv, TypeOK
<1> DEFINE new(d, f) == d[1] = m.kind /\ f \in FramesOf(m)
<1>2. ASSUME NEW d \in Datasets, NEW f \in Frames, new(d, f)
      PROVE  /\ RowWith(partial[d][f], m, f, d[2]) \in Rows
             /\ Added(partial[d][f], m, f, d[2]) \in Entries
  BY <1>1, <1>2, DatasetsTyped, AddedTyped
<1>3. partial' \in [Datasets -> [Frames -> Entries]]
  BY <1>1, <1>2 DEF HandleValues
<1>4. data' \in [Datasets -> [Frames -> Rows \cup {NoRow}]]
  BY <1>1, <1>2 DEF HandleValues
<1>5. written' \in [Datasets -> [Frames -> Seq(Rows)]]
  <2>1. ASSUME NEW d \in Datasets, NEW f \in Frames, new(d, f)
        PROVE  Append(written[d][f], RowWith(partial[d][f], m, f, d[2])) \in Seq(Rows)
    BY <1>1, <1>2, <2>1
  <2> QED
    BY <1>1, <2>1 DEF HandleValues
<1>6. arrived' \subseteq Kinds \X Frames \X Channels
  BY <1>1, MessageTyped DEF HandleValues
<1> QED
  BY <1>1, <1>3, <1>4, <1>5, <1>6 DEF HandleValues

LEMMA StepTyped == TypeInv /\ [Next]_vars => TypeInv'
<1> SUFFICES ASSUME TypeInv, [Next]_vars PROVE TypeInv'
  OBVIOUS
<1> USE DEF processors, network, writer, history
<1>1. CASE Start
  <2>1. acq' \in 0 .. MaxAcqs /\ sent' \in [Senders -> 0 .. NumFrames]
    BY <1>1, ConstantTypes DEF Start, TypeInv, TypeOK
  <2>2. written' \in [Datasets -> [Frames -> Seq(Rows)]]
    BY <1>1 DEF Start
  <2> QED
    BY <1>1, <2>1, <2>2 DEF Start, TypeInv, TypeOK
<1>2. ASSUME NEW s \in Senders, Configure(s)
      PROVE  TypeInv'
  <2>1. configs' \in 0 .. MaxConfigs
    BY <1>2, ConstantTypes DEF Configure, TypeInv, TypeOK
  <2>2. \A t \in Senders : queue'[t] \in Seq(Sent(t) \cup {Chunk})
    BY <1>2 DEF Configure, TypeInv, TypeOK
  <2>3. queue' \in [Senders -> Seq(Messages \cup {Chunk})]
    BY <1>2 DEF Configure, TypeInv, TypeOK
  <2> QED
    BY <1>2, <2>1, <2>2, <2>3 DEF Configure, TypeInv, TypeOK
<1>3. ASSUME NEW s \in Senders, Lose(s)
      PROVE  TypeInv'
  <2>1. losses' \in 0 .. MaxLosses
    BY <1>3, ConstantTypes DEF Lose, TypeInv, TypeOK
  <2>2. \A t \in Senders : queue'[t] \in Seq(Sent(t) \cup {Chunk})
    BY <1>3, QueueTyped DEF Lose, TypeInv, TypeOK
  <2>3. queue' \in [Senders -> Seq(Messages \cup {Chunk})]
    BY <1>3, <2>2, QueueTyped DEF Lose, TypeInv, TypeOK
  <2>4. lost' \subseteq Kinds \cup {"chunk"}
    <3>1. Head(queue[s]) \in Sent(s) \cup {Chunk}
      BY <1>3, QueueTyped DEF Lose, TypeInv
    <3>2. Head(queue[s]).kind \in Kinds \cup {"chunk"}
      BY <3>1, MessageTyped DEF Chunk
    <3> QED
      BY <1>3, <3>2 DEF Lose, TypeInv, TypeOK
  <2> QED
    BY <1>3, <2>1, <2>2, <2>3, <2>4 DEF Lose, TypeInv, TypeOK
<1>4. ASSUME NEW s \in Senders, Receive(s)
      PROVE  TypeInv'
  <2>1. \A t \in Senders : queue'[t] \in Seq(Sent(t) \cup {Chunk})
    BY <1>4, QueueTyped DEF Receive, TypeInv, TypeOK
  <2>2. queue' \in [Senders -> Seq(Messages \cup {Chunk})]
    BY <1>4, <2>1, QueueTyped DEF Receive, TypeInv, TypeOK
  <2>3. /\ configured' \in BOOLEAN
        /\ partial' \in [Datasets -> [Frames -> Entries]]
        /\ data' \in [Datasets -> [Frames -> Rows \cup {NoRow}]]
        /\ written' \in [Datasets -> [Frames -> Seq(Rows)]]
        /\ arrived' \subseteq Kinds \X Frames \X Channels
    <3>1. Head(queue[s]) \in Sent(s) \cup {Chunk}
      BY <1>4, QueueTyped DEF Receive, TypeInv
    <3>2. Head(queue[s]).kind # "chunk" => Head(queue[s]) \in Sent(s)
      BY <3>1 DEF Chunk
    <3>3. CASE HandleChunk
      BY <3>3, ChunkTyped
    <3>4. CASE Head(queue[s]).kind # "chunk" /\ HandleValues(Head(queue[s]))
      BY <3>2, <3>4, ValuesTyped
    <3> QED
      BY <1>4, <3>3, <3>4 DEF Receive
  <2> QED
    BY <1>4, <2>1, <2>2, <2>3 DEF Receive, TypeInv, TypeOK
<1>5. ASSUME NEW s \in Senders, NEW n \in 1 .. NumFrames, Publish(s, n)
      PROVE  TypeInv'
  <2> DEFINE new == <<Message(s, "scalars", n), Message(s, "dtc", n),
                      Message(s, "inp_est", n)>>
  <2>1. sent' \in [Senders -> 0 .. NumFrames]
    BY <1>5, ConstantTypes DEF Publish, TypeInv, TypeOK
  <2>2. new \in Seq(Sent(s) \cup {Chunk})
    BY <1>5, PublishedTyped DEF Publish, Kinds
  <2>3. \A t \in Senders : queue'[t] \in Seq(Sent(t) \cup {Chunk})
    <3> HIDE DEF new
    <3>1. queue' = [queue EXCEPT ![s] = @ \o new]
      BY <1>5 DEF Publish, new
    <3>2. queue[s] \o new \in Seq(Sent(s) \cup {Chunk})
      BY <2>2 DEF TypeInv
    <3> QED
      BY <3>1, <3>2 DEF TypeInv, TypeOK
  <2>4. queue' \in [Senders -> Seq(Messages \cup {Chunk})]
    BY <1>5, <2>3, QueueTyped DEF Publish, TypeInv, TypeOK
  <2> QED
    BY <1>5, <2>1, <2>3, <2>4 DEF Publish, TypeInv, TypeOK
<1>6. CASE UNCHANGED vars
  BY <1>6 DEF vars, TypeInv, TypeOK
<1> QED
  BY <1>1, <1>2, <1>3, <1>4, <1>5, <1>6 DEF Next

(* The values of the variables: above all, a row under way has always      *)
(* fewer values than there are channels, so that nothing is written past   *)
(* its end, whatever is lost and whatever an acquisition before has left   *)
(* (XspressMetaWriter.add_scalar_value).                                   *)
THEOREM TypeCorrect == Spec => []TypeOK
<1>1. TypeInv => TypeOK
  BY DEF TypeInv
<1> QED
  BY InitTyped, StepTyped, <1>1, PTL DEF Spec

-----------------------------------------------------------------------------
(* Rows that were added stay.                                              *)

(* Until one is handled, the first message of every processor is its first *)
(* configuration, and there is no row.                                     *)
ConfigFirst ==
  "chunk" \notin lost /\ ~configured =>
    /\ \A s \in Senders : queue[s] # <<>> /\ Head(queue[s]) = Chunk
    /\ \A d \in Datasets : \A f \in Frames : written[d][f] = <<>>

SurviveInv == TypeInv /\ ConfigFirst /\ RowsSurvive

LEMMA SurviveInit == Init => SurviveInv
<1> SUFFICES ASSUME Init PROVE ConfigFirst /\ RowsSurvive
  BY InitTyped DEF SurviveInv
<1> QED
  BY DEF Init, ConfigFirst, RowsSurvive

LEMMA Behind ==
  ASSUME NEW S, NEW q \in Seq(S), NEW x \in S, q # <<>>
  PROVE  Append(q, x) # <<>> /\ Head(Append(q, x)) = Head(q)
<1>1. Len(q) \in Nat \ {0} /\ Len(Append(q, x)) = Len(q) + 1
  OBVIOUS
<1>2. Append(q, x)[1] = q[1] /\ Append(q, x) \in Seq(S)
  BY <1>1
<1> QED
  BY <1>1, <1>2

LEMMA SurviveStep == SurviveInv /\ [Next]_vars => SurviveInv'
<1> SUFFICES ASSUME SurviveInv, [Next]_vars PROVE ConfigFirst' /\ RowsSurvive'
  BY StepTyped DEF SurviveInv
<1> USE DEF processors, network, writer, history
<1>t. TypeInv /\ ConfigFirst /\ RowsSurvive
  BY DEF SurviveInv
(* What comes in behind a first message leaves it the first.               *)
<1>a. ASSUME \A t \in Senders : queue[t] # <<>> =>
               queue'[t] # <<>> /\ Head(queue'[t]) = Head(queue[t]),
             UNCHANGED <<configured, lost, written, data>>
      PROVE  ConfigFirst' /\ RowsSurvive'
  BY <1>t, <1>a DEF ConfigFirst, RowsSurvive
<1>1. CASE Start
  BY <1>1, <1>t DEF Start, ConfigFirst, RowsSurvive
<1>2. ASSUME NEW s \in Senders, Configure(s)
      PROVE  ConfigFirst' /\ RowsSurvive'
  <2>1. ASSUME NEW t \in Senders, queue[t] # <<>>
        PROVE  queue'[t] # <<>> /\ Head(queue'[t]) = Head(queue[t])
    <3>1. Append(queue[t], Chunk) # <<>> /\ Head(Append(queue[t], Chunk)) = Head(queue[t])
      BY <1>t, <2>1, Behind DEF TypeInv
    <3> QED
      BY <1>2, <1>t, <2>1, <3>1 DEF Configure, TypeInv, TypeOK
  <2> QED
    BY <1>2, <1>a, <2>1 DEF Configure
<1>3. ASSUME NEW s \in Senders, NEW n \in 1 .. NumFrames, Publish(s, n)
      PROVE  ConfigFirst' /\ RowsSurvive'
  <2> DEFINE new == <<Message(s, "scalars", n), Message(s, "dtc", n),
                      Message(s, "inp_est", n)>>
  <2>1. new \in Seq(Sent(s) \cup {Chunk})
    BY <1>3, <1>t, PublishedTyped DEF Publish, Kinds
  <2>2. /\ queue' = [queue EXCEPT ![s] = @ \o new]
        /\ UNCHANGED <<configured, lost, written, data>>
    BY <1>3 DEF Publish
  <2> HIDE DEF new
  <2>3. ASSUME NEW t \in Senders, queue[t] # <<>>
        PROVE  queue'[t] # <<>> /\ Head(queue'[t]) = Head(queue[t])
    BY <1>t, <2>1, <2>2, <2>3 DEF TypeInv, TypeOK
  <2> QED
    BY <1>a, <2>2, <2>3
<1>4. ASSUME NEW s \in Senders, Lose(s)
      PROVE  ConfigFirst' /\ RowsSurvive'
  <2>1. "chunk" \notin lost' => "chunk" \notin lost /\ Head(queue[s]) # Chunk
    BY <1>4 DEF Lose, Chunk
  <2> QED
    BY <1>4, <1>t, <2>1 DEF Lose, ConfigFirst, RowsSurvive
<1>5. ASSUME NEW s \in Senders, Receive(s)
      PROVE  ConfigFirst' /\ RowsSurvive'
  <2>1. CASE HandleChunk
    <3>1. configured' /\ lost' = lost /\ written' = written
      BY <1>5, <2>1 DEF Receive, HandleChunk
    <3>2. ASSUME "chunk" \notin lost, ~configured
          PROVE  RowsSurvive'
      BY <1>t, <3>1, <3>2 DEF ConfigFirst, RowsSurvive
    <3>3. configured => data' = data
      BY <2>1 DEF HandleChunk, Redefines
    <3> QED
      BY <1>t, <3>1, <3>2, <3>3 DEF ConfigFirst, RowsSurvive
  <2>2. CASE Head(queue[s]).kind # "chunk" /\ HandleValues(Head(queue[s]))
    <3> DEFINE m == Head(queue[s])
               row(d, f) == /\ d[1] = m.kind /\ f \in FramesOf(m)
                            /\ Completes(partial[d][f], m)
               new(d, f) == RowWith(partial[d][f], m, f, d[2])
    <3>1. "chunk" \notin lost => configured
      BY <1>5, <1>t, <2>2 DEF ConfigFirst, Chunk, Receive
    <3>2. configured' = configured /\ lost' = lost
      BY <1>5, <2>2 DEF Receive, HandleValues
    <3>3. ASSUME NEW d \in Datasets, NEW f \in Frames, row(d, f)
          PROVE  /\ data'[d][f] = new(d, f)
                 /\ written'[d][f] = Append(written[d][f], new(d, f))
      BY <2>2, <3>3 DEF HandleValues
    <3>4. ASSUME NEW d \in Datasets, NEW f \in Frames, ~row(d, f)
          PROVE  data'[d][f] = data[d][f] /\ written'[d][f] = written[d][f]
      BY <2>2, <3>4 DEF HandleValues
    <3>5. \A d \in Datasets : \A f \in Frames : written[d][f] \in Seq(Rows)
      BY <1>t DEF TypeInv, TypeOK
    <3> HIDE DEF row, new
    <3>6. ASSUME NEW d \in Datasets, NEW f \in Frames, row(d, f)
          PROVE  data'[d][f] = written'[d][f][Len(written'[d][f])]
      BY <3>3, <3>5, <3>6
    <3> QED
      BY <1>t, <3>1, <3>2, <3>4, <3>6 DEF ConfigFirst, RowsSurvive
  <2> QED
    BY <1>5, <2>1, <2>2 DEF Receive
<1>6. CASE UNCHANGED vars
  BY <1>6, <1>t DEF vars, ConfigFirst, RowsSurvive
<1> QED
  BY <1>1, <1>2, <1>3, <1>4, <1>5, <1>6 DEF Next

(* The rows that were added are in the datasets, whenever a processor is   *)
(* configured again, unless a first configuration was lost                 *)
(* (XspressMetaWriter.handle_xspress_meta_chunk).                          *)
THEOREM RowsStay == Spec => []RowsSurvive
<1>1. SurviveInv => RowsSurvive
  BY DEF SurviveInv
<1> QED
  BY SurviveInit, SurviveStep, <1>1, PTL DEF Spec

-----------------------------------------------------------------------------
(* Rows are whole, for a client that begins an acquisition when the writer *)
(* has none of the one before under way.                                   *)

(* The channels whose values for a row have come.                          *)
Came(k, f) == {c \in Channels : <<k, f, c>> \in arrived}

(* A message on its way is of this acquisition and brings what was sent    *)
(* and has not come.                                                       *)
FreshIn(m, a, n, came) ==
  /\ Carries(m, a)
  /\ \A f \in FramesOf(m) :
       f < n /\ \A c \in ChannelsIn(m) : <<m.kind, f, c>> \notin came
Fresh(s, m) == FreshIn(m, acq, sent[s], arrived)

(* No two messages of a processor bring the same values.                   *)
Apart(m, o) == m.kind = o.kind => FramesOf(m) \cap FramesOf(o) = {}

OnceInv ==
  /\ \A s \in Senders : \A i \in DOMAIN queue[s] :
       queue[s][i] # Chunk => Fresh(s, queue[s][i])
  /\ \A s \in Senders : \A i, j \in DOMAIN queue[s] :
       i # j /\ queue[s][i] # Chunk /\ queue[s][j] # Chunk =>
         Apart(queue[s][i], queue[s][j])
  /\ \A s \in Senders, k \in Kinds, f \in Frames : \A c \in ChannelsOf(s) :
       <<k, f, c>> \in arrived => f < sent[s]

(* A row under way counts the channels that have come, and holds their     *)
(* values; with the last channel it was added.                             *)
RowInv(d, f) ==
  LET came == Came(d[1], f) IN
    \/ /\ came # Channels
       /\ partial[d][f].qty = Cardinality(came)
       /\ \A c \in came : partial[d][f].values[c] = Own(d, f)[c]
       /\ written[d][f] = <<>>
    \/ /\ came = Channels
       /\ partial[d][f].qty = 0
       /\ written[d][f] = <<Own(d, f)>>

(* Before the first acquisition nothing is sent.                           *)
BeforeInv ==
  acq = 0 =>
    /\ \A s \in Senders : sent[s] = NumFrames /\ queue[s] \in Seq({Chunk})
    /\ \A d \in Datasets : \A f \in Frames : partial[d][f].qty = 0

WholeInv ==
  /\ TypeInv /\ OnceInv /\ BeforeInv
  /\ \A d \in Datasets : \A f \in Frames : RowInv(d, f)

LEMMA Element ==
  ASSUME NEW S, NEW q \in Seq(S), NEW i \in DOMAIN q
  PROVE  q[i] \in S
  OBVIOUS

LEMMA TailElements ==
  ASSUME NEW S, NEW q \in Seq(S), q # <<>>
  PROVE  /\ Head(q) = q[1] /\ 1 \in DOMAIN q
         /\ \A i \in DOMAIN Tail(q) :
              i + 1 \in DOMAIN q /\ i + 1 # 1 /\ Tail(q)[i] = q[i + 1]
  OBVIOUS

LEMMA ConcatElements ==
  ASSUME NEW S, NEW q \in Seq(S), NEW r \in Seq(S)
  PROVE  /\ DOMAIN (q \o r) = 1 .. Len(q) + Len(r)
         /\ \A i \in DOMAIN (q \o r) :
              \/ i \in DOMAIN q /\ (q \o r)[i] = q[i]
              \/ /\ i - Len(q) \in DOMAIN r /\ i \notin DOMAIN q
                 /\ (q \o r)[i] = r[i - Len(q)]
  OBVIOUS

(* The channels of a processor add up to those that have come.             *)
LEMMA Counted ==
  ASSUME NEW s \in Senders, NEW came \in SUBSET Channels,
         came \cap ChannelsOf(s) = {}
  PROVE  /\ came # Channels /\ IsFiniteSet(came) /\ Cardinality(came) \in Nat
         /\ Cardinality(came \cup ChannelsOf(s)) = Cardinality(came) + Num[s]
         /\ Cardinality(came) + Num[s] <= NumChannels
         /\ (Cardinality(came) + Num[s] = NumChannels)
              <=> (came \cup ChannelsOf(s) = Channels)
<1>1. /\ First[s] \in Nat /\ Num[s] \in Nat \ {0} /\ NumChannels \in Nat \ {0}
      /\ ChannelsOf(s) \subseteq Channels
  BY ConstantTypes
<1>2. IsFiniteSet(Channels) /\ Cardinality(Channels) = NumChannels
  <2>1. 0 \in Int /\ NumChannels - 1 \in Int
    BY <1>1
  <2>2. /\ IsFiniteSet(0 .. NumChannels - 1)
        /\ Cardinality(0 .. NumChannels - 1) =
             IF 0 > NumChannels - 1 THEN 0 ELSE (NumChannels - 1) - 0 + 1
    BY <2>1, FS_Interval
  <2> QED
    BY <1>1, <2>2 DEF Channels
<1>3. IsFiniteSet(ChannelsOf(s)) /\ Cardinality(ChannelsOf(s)) = Num[s]
  <2> DEFINE final == First[s] + Num[s] - 1
  <2>1. First[s] \in Int /\ final \in Int
    BY <1>1
  <2>2. /\ IsFiniteSet(First[s] .. final)
        /\ Cardinality(First[s] .. final) =
             IF First[s] > final THEN 0 ELSE final - First[s] + 1
    <3> HIDE DEF final
    <3> QED
      BY <2>1, FS_Interval
  <2> QED
    BY <1>1, <2>2 DEF ChannelsOf
<1>4. IsFiniteSet(came) /\ Cardinality(came) \in Nat
  BY <1>2, FS_Subset, FS_CardinalityType
<1>5. Cardinality(came \cup ChannelsOf(s)) = Cardinality(came) + Num[s]
  <2>1. /\ Cardinality(came \cup ChannelsOf(s)) =
             Cardinality(came) + Cardinality(ChannelsOf(s))
               - Cardinality(came \cap ChannelsOf(s))
    BY <1>3, <1>4, FS_Union
  <2>2. Cardinality(came \cap ChannelsOf(s)) = 0
    BY FS_EmptySet
  <2> QED
    BY <1>1, <1>3, <1>4, <2>1, <2>2
<1>6. came \cup ChannelsOf(s) \in SUBSET Channels
  BY <1>1
<1>7. /\ Cardinality(came \cup ChannelsOf(s)) <= NumChannels
      /\ NumChannels = Cardinality(came \cup ChannelsOf(s))
           => Channels = came \cup ChannelsOf(s)
  BY <1>2, <1>6, FS_Subset
<1>8. came # Channels
  <2>1. First[s] \in ChannelsOf(s)
    BY <1>1 DEF ChannelsOf
  <2> QED
    BY <1>1, <2>1
<1> QED
  BY <1>2, <1>4, <1>5, <1>7, <1>8

(* A message goes into the rows of its frames, whole.                      *)
LEMMA RowKept ==
  ASSUME TypeInv, NEW s \in Senders, NEW m \in Sent(s), Fresh(s, m),
         HandleValues(m), acq' = acq,
         NEW d \in Datasets, NEW f \in Frames, RowInv(d, f)
  PROVE  RowInv(d, f)'
<1> DEFINE e == partial[d][f]
           came == Came(d[1], f)
           own == ChannelsOf(s)
           row == RowWith(e, m, f, d[2])
<1>1. /\ m.num = Num[s] /\ m.first = First[s] /\ ChannelsIn(m) = own
      /\ own \subseteq Channels /\ NumChannels \in Nat \ {0}
      /\ First[s] \in Nat /\ Num[s] \in Nat \ {0}
  BY MessageTyped, ConstantTypes
<1>2. Own(d, f)' = Own(d, f)
  BY DEF Own, Value
<1>3. e \in Entries /\ written[d][f] \in Seq(Rows)
  BY DEF TypeInv, TypeOK
<1>4. CASE d[1] = m.kind /\ f \in FramesOf(m)
  <2>1. came' = came \cup own
    BY <1>1, <1>4 DEF HandleValues, Came
  <2>2. came \cap own = {}
    BY <1>1, <1>4 DEF Fresh, FreshIn, Came
  <2>3. /\ came # Channels /\ Cardinality(came) \in Nat
        /\ Cardinality(came \cup own) = Cardinality(came) + Num[s]
        /\ Cardinality(came) + Num[s] <= NumChannels
        /\ (Cardinality(came) + Num[s] = NumChannels) <=> (came \cup own = Channels)
    <3>1. came \in SUBSET Channels
      BY DEF Came
    <3> HIDE DEF came
    <3> QED
      BY <2>2, <3>1, Counted
  <2>4. /\ e.qty = Cardinality(came) /\ written[d][f] = <<>>
        /\ \A c \in came : e.values[c] = Own(d, f)[c]
    BY <2>3 DEF RowInv
  <2>5. \A c \in own : ValueAt(m, f, c, d[2]) = Own(d, f)[c]
    BY <1>1, <1>4, DatasetsTyped DEF Fresh, FreshIn, Carries, Own
  <2>6. \A c \in own : c < Cut(e, m)
    BY <1>1, <2>3, <2>4 DEF Cut, ChannelsOf
  <2>7. \A c \in came \cup own : row[c] = Own(d, f)[c]
    <3>1. \A c \in Channels :
            row[c] = IF c \in own THEN ValueAt(m, f, c, d[2]) ELSE e.values[c]
      BY <1>1, <2>6 DEF RowWith
    <3>2. came \subseteq Channels
      BY DEF Came
    <3> HIDE DEF row, came, own, e
    <3> QED
      BY <1>1, <2>4, <2>5, <3>1, <3>2
  <2>8. partial'[d][f] = Added(e, m, f, d[2])
    BY <1>4 DEF HandleValues
  <2>9. CASE Completes(e, m)
    <3>1. e.qty + m.num = NumChannels /\ came' = Channels
      BY <1>1, <2>1, <2>3, <2>4, <2>9 DEF Completes
    <3>2. row = Own(d, f)
      <4>1. row = [c \in Channels |-> row[c]]
        BY DEF RowWith
      <4>2. Own(d, f) = [c \in Channels |-> Own(d, f)[c]]
        BY DEF Own
      <4>3. \A c \in Channels : row[c] = Own(d, f)[c]
        BY <2>1, <2>7, <3>1
      <4> HIDE DEF row
      <4> QED
        BY <4>1, <4>2, <4>3
    <3>3. written'[d][f] = Append(written[d][f], row)
      BY <1>4, <2>9 DEF HandleValues
    <3>4. written'[d][f] = <<Own(d, f)>>
      BY <2>4, <3>2, <3>3
    <3>5. partial'[d][f].qty = 0
      BY <1>1, <2>8, <2>9, <3>1, <2>3, <2>4 DEF Added, Left
    <3> HIDE DEF came
    <3> QED
      BY <1>2, <3>1, <3>4, <3>5 DEF RowInv, came
  <2>10. CASE ~Completes(e, m)
    <3>1. came' # Channels
      BY <1>1, <2>1, <2>3, <2>4, <2>10 DEF Completes
    <3>2. /\ partial'[d][f].qty = Cardinality(came')
          /\ partial'[d][f].values = row
      BY <1>1, <2>1, <2>3, <2>4, <2>8, <2>10 DEF Added
    <3>3. written'[d][f] = <<>>
      BY <1>4, <2>4, <2>10 DEF HandleValues
    <3> HIDE DEF row, own
    <3> QED
      BY <1>2, <2>1, <2>7, <3>1, <3>2, <3>3 DEF RowInv, came
  <2> QED
    BY <2>9, <2>10
<1>5. CASE ~(d[1] = m.kind /\ f \in FramesOf(m))
  <2>1. came' = came
    BY <1>5 DEF HandleValues, Came
  <2>2. partial'[d][f] = partial[d][f] /\ written'[d][f] = written[d][f]
    BY <1>5 DEF HandleValues
  <2> QED
    BY <1>2, <2>1, <2>2 DEF RowInv
<1> QED
  BY <1>4, <1>5

LEMMA ChannelsSome == Channels # {}
  BY ConstantTypes DEF Channels

(* With nothing come and nothing under way, rows are as they should be.    *)
LEMMA RowsBegin ==
  ASSUME NEW d \in Datasets, NEW f \in Frames,
         partial[d][f].qty = 0, arrived = {}, written[d][f] = <<>>
  PROVE  RowInv(d, f)
<1>1. Came(d[1], f) = {}
  BY DEF Came
<1>2. Cardinality(Came(d[1], f)) = 0
  BY <1>1, FS_EmptySet
<1> QED
  BY <1>1, <1>2, ChannelsSome DEF RowInv

LEMMA WholeInit == Init => WholeInv
<1> SUFFICES ASSUME Init PROVE WholeInv
  OBVIOUS
<1>1. \A s \in Senders : queue[s] = <<Chunk>>
  BY DEF Init
<1>2. OnceInv
  BY <1>1 DEF Init, OnceInv
<1>3. \A d \in Datasets : \A f \in Frames :
        partial[d][f].qty = 0 /\ written[d][f] = <<>>
  BY DEF Init, NoEntry
<1>4. BeforeInv
  BY <1>1, <1>3 DEF Init, BeforeInv
<1>5. \A d \in Datasets : \A f \in Frames : RowInv(d, f)
  BY <1>3, RowsBegin DEF Init
<1> QED
  BY <1>2, <1>4, <1>5, InitTyped DEF WholeInv

(* The processors' side of the invariant, and that the rows do not change. *)
Unmoved == UNCHANGED <<acq, partial, written, arrived>>

LEMMA RowsUnmoved ==
  ASSUME Unmoved, \A d \in Datasets : \A f \in Frames : RowInv(d, f)
  PROVE  \A d \in Datasets : \A f \in Frames : RowInv(d, f)'
  BY DEF Unmoved, RowInv, Came, Own

LEMMA StartWhole ==
  ASSUME WholeInv, ~MayOverlap, Start
  PROVE  OnceInv' /\ BeforeInv' /\ \A d \in Datasets : \A f \in Frames : RowInv(d, f)'
<1> USE DEF processors, network, writer, history
<1>1. /\ arrived' = {} /\ queue' = queue /\ partial' = partial /\ acq' # 0
      /\ \A d \in Datasets : \A f \in Frames : written'[d][f] = <<>>
  BY DEF Start, WholeInv, TypeInv, TypeOK
<1>2. \A s \in Senders : queue[s] \in Seq({Chunk})
  <2>1. CASE acq = 0
    BY <2>1 DEF WholeInv, BeforeInv
  <2>2. CASE Idle
    <3>1. <<>> \in Seq({Chunk})
      OBVIOUS
    <3> HIDE DEF Chunk
    <3> QED
      BY <2>2, <3>1 DEF Idle
  <2> QED
    BY <2>1, <2>2 DEF Start
<1>3. \A s \in Senders : \A i \in DOMAIN queue'[s] : queue'[s][i] = Chunk
  BY <1>1, <1>2
<1>4. \A d \in Datasets : \A f \in Frames : partial'[d][f].qty = 0
  BY <1>1 DEF Start, WholeInv, BeforeInv, Idle, NoEntry
<1>5. OnceInv'
  BY <1>1, <1>3 DEF OnceInv
<1>6. \A d \in Datasets : \A f \in Frames : RowInv(d, f)'
  <2> SUFFICES ASSUME NEW d \in Datasets, NEW f \in Frames PROVE RowInv(d, f)'
    OBVIOUS
  <2>1. Came(d[1], f)' = {}
    BY <1>1 DEF Came
  <2>2. Cardinality(Came(d[1], f)') = 0
    BY <2>1, FS_EmptySet
  <2> QED
    BY <1>1, <1>4, <2>1, <2>2, ChannelsSome DEF RowInv
<1> QED
  BY <1>1, <1>5, <1>6 DEF BeforeInv

LEMMA ConfigureWhole ==
  ASSUME WholeInv, NEW s \in Senders, Configure(s)
  PROVE  OnceInv' /\ BeforeInv' /\ Unmoved
<1> USE DEF processors, network, writer, history
<1>1. /\ queue' = [queue EXCEPT ![s] = Append(@, Chunk)] /\ Unmoved /\ sent' = sent
  BY DEF Configure, Unmoved
<1>2. \A t \in Senders : queue[t] \in Seq(Sent(t) \cup {Chunk})
  BY DEF WholeInv, TypeInv
<1>3. ASSUME NEW t \in Senders, NEW i \in DOMAIN queue'[t], queue'[t][i] # Chunk
      PROVE  i \in DOMAIN queue[t] /\ queue'[t][i] = queue[t][i]
  BY <1>1, <1>2, <1>3 DEF WholeInv, TypeInv, TypeOK
<1>4. OnceInv'
  BY <1>1, <1>3 DEF WholeInv, OnceInv, Unmoved, Fresh, FreshIn
<1>5. BeforeInv'
  <2>1. ASSUME NEW t \in Senders, queue[t] \in Seq({Chunk})
        PROVE  queue'[t] \in Seq({Chunk})
    BY <1>1, <2>1 DEF WholeInv, TypeInv, TypeOK
  <2> QED
    BY <1>1, <2>1 DEF WholeInv, BeforeInv, Unmoved
<1> QED
  BY <1>1, <1>4, <1>5

LEMMA LoseWhole ==
  ASSUME WholeInv, NEW s \in Senders, Lose(s)
  PROVE  OnceInv' /\ BeforeInv' /\ Unmoved
<1> USE DEF processors, network, writer, history
<1>1. /\ queue' = [queue EXCEPT ![s] = Tail(@)] /\ Unmoved /\ sent' = sent
      /\ queue[s] # <<>>
  BY DEF Lose, Unmoved
<1>2. \A t \in Senders : queue[t] \in Seq(Sent(t) \cup {Chunk})
  BY DEF WholeInv, TypeInv
<1>3. \A i \in DOMAIN Tail(queue[s]) :
        i + 1 \in DOMAIN queue[s] /\ Tail(queue[s])[i] = queue[s][i + 1]
  BY <1>1, <1>2, TailElements
<1>4. \A t \in Senders : queue'[t] = IF t = s THEN Tail(queue[s]) ELSE queue[t]
  BY <1>1 DEF WholeInv, TypeInv, TypeOK
<1>5. OnceInv'
  <2>1. ASSUME NEW t \in Senders, NEW i \in DOMAIN queue'[t], queue'[t][i] # Chunk
        PROVE  Fresh(t, queue[t][i])'
    <3>1. PICK k \in DOMAIN queue[t] : queue'[t][i] = queue[t][k]
      BY <1>3, <1>4
    <3>2. Fresh(t, queue[t][k])
      BY <2>1, <3>1 DEF WholeInv, OnceInv
    <3> QED
      BY <1>1, <3>1, <3>2 DEF Unmoved, Fresh, FreshIn
  <2>2. ASSUME NEW t \in Senders, NEW i \in DOMAIN queue'[t], NEW j \in DOMAIN queue'[t],
               i # j, queue'[t][i] # Chunk, queue'[t][j] # Chunk
        PROVE  Apart(queue'[t][i], queue'[t][j])
    <3>1. CASE t = s
      <4>1. i + 1 # j + 1
        BY <1>2, <1>4, <2>2, <3>1
      <4> QED
        BY <1>3, <1>4, <2>2, <3>1, <4>1 DEF WholeInv, OnceInv
    <3>2. CASE t # s
      BY <1>4, <2>2, <3>2 DEF WholeInv, OnceInv
    <3> QED
      BY <3>1, <3>2
  <2> QED
    BY <1>1, <2>1, <2>2 DEF WholeInv, OnceInv, Unmoved
<1>6. BeforeInv'
  <2>1. queue[s] \in Seq({Chunk}) => Tail(queue[s]) \in Seq({Chunk})
    BY <1>1
  <2> QED
    BY <1>1, <1>4, <2>1 DEF WholeInv, BeforeInv, Unmoved
<1> QED
  BY <1>1, <1>5, <1>6

(* What is sent begins behind all that was sent before.                    *)
LEMMA PublishWhole ==
  ASSUME WholeInv, NEW s \in Senders, NEW n \in 1 .. NumFrames, Publish(s, n)
  PROVE  OnceInv' /\ BeforeInv' /\ Unmoved
<1> USE DEF processors, network, writer, history
<1> DEFINE new == <<Message(s, "scalars", n), Message(s, "dtc", n),
                    Message(s, "inp_est", n)>>
           q == queue[s]
<1>1. /\ queue' = [queue EXCEPT ![s] = @ \o new] /\ Unmoved
      /\ sent' = [sent EXCEPT ![s] = @ + n] /\ sent[s] + n <= NumFrames
  BY DEF Publish, Unmoved
<1>2. sent[s] \in Nat /\ n \in Nat \ {0} /\ \A t \in Senders : sent[t] \in Nat
  BY ConstantTypes DEF WholeInv, TypeInv, TypeOK
<1>3. \A t \in Senders : queue[t] \in Seq(Sent(t) \cup {Chunk})
  BY DEF WholeInv, TypeInv
<1>4. \A i \in DOMAIN new :
        /\ new[i] \in Sent(s)
        /\ FramesOf(new[i]) = sent[s] .. sent[s] + n - 1
        /\ Carries(new[i], acq)
  <2>1. ASSUME NEW k \in Kinds
        PROVE  /\ Message(s, k, n) \in Sent(s)
               /\ FramesOf(Message(s, k, n)) = sent[s] .. sent[s] + n - 1
               /\ Carries(Message(s, k, n), acq)
    <3>1. sent[s] \in 0 .. NumFrames
      BY DEF WholeInv, TypeInv, TypeOK
    <3> QED
      BY <1>1, <3>1, PublishedTyped, PublishedCarries DEF WholeInv, FramesOf, Message
  <2>2. {"scalars", "dtc", "inp_est"} = Kinds
    BY DEF Kinds
  <2> QED
    BY <2>1, <2>2
<1>5. \A i, j \in DOMAIN new : i # j => new[i].kind # new[j].kind
  BY DEF Message
<1>6. new \in Seq(Sent(s) \cup {Chunk})
  <2>1. /\ Message(s, "scalars", n) \in Sent(s) /\ Message(s, "dtc", n) \in Sent(s)
        /\ Message(s, "inp_est", n) \in Sent(s)
    BY <1>4
  <2> QED
    BY <2>1
<1> HIDE DEF new
<1>7. \A t \in Senders : queue'[t] = IF t = s THEN q \o new ELSE queue[t]
  BY <1>1 DEF WholeInv, TypeInv, TypeOK
<1>8. \A i \in DOMAIN (q \o new) :
        \/ i \in DOMAIN q /\ (q \o new)[i] = q[i]
        \/ /\ i - Len(q) \in DOMAIN new /\ i \notin DOMAIN q
           /\ (q \o new)[i] = new[i - Len(q)]
  BY <1>3, <1>6, ConcatElements
(* A message that was on its way still is one to come.                     *)
<1>9. ASSUME NEW t \in Senders, NEW i \in DOMAIN queue[t], queue[t][i] # Chunk
      PROVE  /\ FreshIn(queue[t][i], acq', sent'[t], arrived')
             /\ \A f \in FramesOf(queue[t][i]) : f < sent[t]
  <2>1. Fresh(t, queue[t][i])
    BY <1>9 DEF WholeInv, OnceInv
  <2>2. queue[t][i] \in Sent(t)
    <3>1. queue[t] \in Seq(Sent(t) \cup {Chunk})
      BY <1>3
    <3>2. queue[t][i] \in Sent(t) \cup {Chunk}
      BY <1>9, <3>1, Element
    <3> QED
      BY <1>9, <3>2
  <2>3. \A f \in FramesOf(queue[t][i]) : f \in Nat
    BY <2>2, MessageTyped DEF Frames
  <2>4. sent'[t] \in Nat /\ sent[t] <= sent'[t]
    BY <1>1, <1>2 DEF WholeInv, TypeInv, TypeOK
  <2>5. \A f \in FramesOf(queue[t][i]) : f < sent[t] /\ f < sent'[t]
    BY <1>2, <2>1, <2>3, <2>4 DEF Fresh, FreshIn
  <2> QED
    BY <1>1, <2>1, <2>5 DEF Fresh, FreshIn, Unmoved
<1>10. ASSUME NEW i \in DOMAIN new
       PROVE  FreshIn(new[i], acq', sent'[s], arrived') /\ new[i] # Chunk
  <2>1. new[i] \in Sent(s) /\ FramesOf(new[i]) = sent[s] .. sent[s] + n - 1
    BY <1>4
  <2>2. /\ FramesOf(new[i]) \subseteq Frames /\ ChannelsIn(new[i]) = ChannelsOf(s)
        /\ new[i].kind \in Kinds /\ new[i] # Chunk
    BY <2>1, MessageTyped
  <2>3. ASSUME NEW f \in FramesOf(new[i]), NEW c \in ChannelsIn(new[i])
        PROVE  <<new[i].kind, f, c>> \notin arrived
    <3>1. f \in Frames /\ ~(f < sent[s])
      BY <1>2, <2>1, <2>2 DEF Frames
    <3> QED
      BY <2>2, <3>1 DEF WholeInv, OnceInv
  <2>4. \A f \in FramesOf(new[i]) : f < sent'[s]
    BY <1>1, <1>2, <2>1 DEF WholeInv, TypeInv, TypeOK
  <2>5. Carries(new[i], acq') /\ arrived' = arrived
    BY <1>1, <1>4 DEF Unmoved
  <2> QED
    BY <2>2, <2>3, <2>4, <2>5 DEF FreshIn
(* Two messages of a kind are old ones, or an old one and a new one.       *)
<1>11. ASSUME NEW i \in DOMAIN (q \o new), NEW j \in DOMAIN (q \o new), i # j,
              (q \o new)[i] # Chunk, (q \o new)[j] # Chunk
       PROVE  Apart((q \o new)[i], (q \o new)[j])
  <2> DEFINE m == (q \o new)[i]
             o == (q \o new)[j]
  <2>1. CASE i \in DOMAIN q /\ j \in DOMAIN q /\ m = q[i] /\ o = q[j]
    BY <1>11, <2>1 DEF WholeInv, OnceInv
  <2>2. ASSUME NEW x \in DOMAIN q, NEW y \in DOMAIN new, q[x] # Chunk
        PROVE  FramesOf(q[x]) \cap FramesOf(new[y]) = {}
    <3>1. FramesOf(new[y]) = sent[s] .. sent[s] + n - 1
      BY <1>4
    <3>2. \A f \in FramesOf(q[x]) : f < sent[s]
      BY <1>9, <2>2
    <3> QED
      BY <1>2, <3>1, <3>2
  <2>3. CASE i - Len(q) \in DOMAIN new /\ j - Len(q) \in DOMAIN new
               /\ m = new[i - Len(q)] /\ o = new[j - Len(q)]
    <3>1. i - Len(q) # j - Len(q)
      <4>1. i \in Int /\ j \in Int /\ Len(q) \in Int
        BY <1>3, <1>6, ConcatElements
      <4> QED
        BY <1>11, <4>1
    <3> QED
      BY <1>5, <2>3, <3>1 DEF Apart
  <2>4. CASE i \in DOMAIN q /\ m = q[i] /\ j - Len(q) \in DOMAIN new
               /\ o = new[j - Len(q)]
    BY <1>11, <2>2, <2>4 DEF Apart
  <2>5. CASE j \in DOMAIN q /\ o = q[j] /\ i - Len(q) \in DOMAIN new
               /\ m = new[i - Len(q)]
    BY <1>11, <2>2, <2>5 DEF Apart
  <2> QED
    BY <1>8, <2>1, <2>3, <2>4, <2>5
<1>12. OnceInv'
  <2>1. ASSUME NEW t \in Senders, NEW i \in DOMAIN queue'[t], queue'[t][i] # Chunk
        PROVE  FreshIn(queue'[t][i], acq', sent'[t], arrived')
    BY <1>7, <1>8, <1>9, <1>10, <2>1
  <2>2. ASSUME NEW t \in Senders, NEW i \in DOMAIN queue'[t], NEW j \in DOMAIN queue'[t],
               i # j, queue'[t][i] # Chunk, queue'[t][j] # Chunk
        PROVE  Apart(queue'[t][i], queue'[t][j])
    <3>1. CASE t = s
      BY <1>7, <1>11, <2>2, <3>1
    <3>2. CASE t # s
      BY <1>7, <2>2, <3>2 DEF WholeInv, OnceInv
    <3> QED
      BY <3>1, <3>2
  <2>3. ASSUME NEW t \in Senders, NEW k \in Kinds, NEW f \in Frames,
               NEW c \in ChannelsOf(t), <<k, f, c>> \in arrived'
        PROVE  f < sent'[t]
    <3>1. f < sent[t]
      BY <1>1, <2>3 DEF Unmoved, WholeInv, OnceInv
    <3>2. sent'[t] \in Nat /\ sent[t] <= sent'[t] /\ f \in Nat
      BY <1>1, <1>2 DEF WholeInv, TypeInv, TypeOK, Frames
    <3> QED
      BY <1>2, <3>1, <3>2
  <2> QED
    BY <2>1, <2>2, <2>3 DEF OnceInv, Fresh
<1>13. BeforeInv'
  <2>1. acq # 0
    <3>1. acq = 0 => sent[s] = NumFrames
      BY DEF WholeInv, BeforeInv
    <3> QED
      BY <1>1, <1>2, <3>1, ConstantTypes
  <2> QED
    BY <1>1, <2>1 DEF BeforeInv, Unmoved
<1> QED
  BY <1>1, <1>12, <1>13

(* What is handled is no longer to come.                                   *)
LEMMA ReceiveWhole ==
  ASSUME WholeInv, NEW s \in Senders, Receive(s)
  PROVE  OnceInv' /\ BeforeInv' /\ \A d \in Datasets : \A f \in Frames : RowInv(d, f)'
<1> USE DEF processors, network, writer, history
<1> DEFINE q == queue[s]
           m == Head(q)
<1>1. /\ queue' = [queue EXCEPT ![s] = Tail(@)] /\ q # <<>>
      /\ acq' = acq /\ sent' = sent
  BY DEF Receive
<1>2. \A t \in Senders : queue[t] \in Seq(Sent(t) \cup {Chunk})
  BY DEF WholeInv, TypeInv
<1>3. /\ m = q[1] /\ 1 \in DOMAIN q /\ m \in Sent(s) \cup {Chunk}
      /\ \A i \in DOMAIN Tail(q) :
           i + 1 \in DOMAIN q /\ i + 1 # 1 /\ Tail(q)[i] = q[i + 1]
  <2>1. q \in Seq(Sent(s) \cup {Chunk})
    BY <1>2
  <2> HIDE DEF q
  <2> QED
    BY <1>1, <2>1, TailElements, Element DEF m
<1>4. \A t \in Senders : queue'[t] = IF t = s THEN Tail(q) ELSE queue[t]
  BY <1>1 DEF WholeInv, TypeInv, TypeOK
<1> HIDE DEF m, q
(* Every message left was behind the one handled, or is another processor's*)
<1>5. ASSUME NEW t \in Senders, NEW i \in DOMAIN queue'[t]
      PROVE  \E k \in DOMAIN queue[t] :
               queue'[t][i] = queue[t][k] /\ (t = s => k = i + 1 /\ k # 1)
  BY <1>3, <1>4 DEF q
<1>6. ASSUME NEW t \in Senders, NEW i \in DOMAIN queue'[t], NEW j \in DOMAIN queue'[t],
             i # j, queue'[t][i] # Chunk, queue'[t][j] # Chunk
      PROVE  Apart(queue'[t][i], queue'[t][j])
  <2>1. CASE t = s
    <3>1. i + 1 # j + 1
      <4>1. q \in Seq(Sent(s) \cup {Chunk})
        BY <1>2 DEF q
      <4>2. DOMAIN Tail(q) \subseteq Int
        BY <1>1, <4>1
      <4>3. i \in Int /\ j \in Int
        BY <1>4, <2>1, <4>2
      <4> QED
        BY <1>6, <4>3
    <3> QED
      <4>1. /\ i + 1 \in DOMAIN q /\ Tail(q)[i] = q[i + 1]
            /\ j + 1 \in DOMAIN q /\ Tail(q)[j] = q[j + 1]
        BY <1>3, <1>4, <1>6, <2>1
      <4>2. \A x, y \in DOMAIN q : x # y /\ q[x] # Chunk /\ q[y] # Chunk =>
              Apart(q[x], q[y])
        BY DEF WholeInv, OnceInv, q
      <4>3. queue'[t][i] = q[i + 1] /\ queue'[t][j] = q[j + 1]
        BY <1>4, <2>1, <4>1
      <4> QED
        BY <1>6, <3>1, <4>1, <4>2, <4>3
  <2>2. CASE t # s
    BY <1>4, <1>6, <2>2 DEF WholeInv, OnceInv
  <2> QED
    BY <2>1, <2>2
<1>7. ASSUME acq = 0
      PROVE  m = Chunk /\ \A t \in Senders : queue'[t] \in Seq({Chunk})
  <2>1. \A t \in Senders : queue[t] \in Seq({Chunk})
    BY <1>7 DEF WholeInv, BeforeInv
  <2>2. m \in {Chunk} /\ Tail(q) \in Seq({Chunk})
    <3>1. q \in Seq({Chunk})
      BY <2>1 DEF q
    <3> QED
      BY <1>1, <3>1 DEF m
  <2> QED
    BY <1>4, <2>1, <2>2
<1>8. CASE m.kind = "chunk" /\ HandleChunk
  <2>1. UNCHANGED <<partial, written, arrived>>
    BY <1>8 DEF HandleChunk
  <2>2. ASSUME NEW t \in Senders, NEW i \in DOMAIN queue'[t], queue'[t][i] # Chunk
        PROVE  FreshIn(queue'[t][i], acq', sent'[t], arrived')
    BY <1>1, <1>5, <2>1, <2>2 DEF WholeInv, OnceInv, Fresh
  <2>3. OnceInv'
    BY <1>1, <1>6, <2>1, <2>2 DEF WholeInv, OnceInv, Fresh
  <2>4. BeforeInv'
    BY <1>1, <1>7, <2>1 DEF WholeInv, BeforeInv
  <2>5. \A d \in Datasets : \A f \in Frames : RowInv(d, f)'
    BY <1>1, <2>1, RowsUnmoved DEF WholeInv, Unmoved
  <2> QED
    BY <2>3, <2>4, <2>5
<1>9. CASE m.kind # "chunk" /\ HandleValues(m)
  <2>1. m \in Sent(s) /\ m # Chunk
    BY <1>3, <1>9 DEF Chunk
  <2>2. Fresh(s, m)
    BY <1>3, <2>1 DEF WholeInv, OnceInv, q
  <2>3. /\ ChannelsIn(m) = ChannelsOf(s) /\ FramesOf(m) \subseteq Frames
        /\ m.kind \in Kinds
    BY <2>1, MessageTyped
  <2>4. arrived' = arrived \cup
          {<<m.kind, f, c>> : f \in FramesOf(m), c \in ChannelsIn(m)}
    BY <1>9 DEF HandleValues
  <2>5. ASSUME NEW t \in Senders, NEW i \in DOMAIN queue'[t], queue'[t][i] # Chunk
        PROVE  FreshIn(queue'[t][i], acq', sent'[t], arrived')
    <3>1. PICK k \in DOMAIN queue[t] :
            queue'[t][i] = queue[t][k] /\ (t = s => k # 1)
      BY <1>5
    <3> DEFINE o == queue[t][k]
    <3>2. Fresh(t, o)
      BY <2>5, <3>1 DEF WholeInv, OnceInv
    <3>3. o \in Sent(t)
      <4>1. queue[t] \in Seq(Sent(t) \cup {Chunk})
        BY <1>2
      <4>2. o \in Sent(t) \cup {Chunk}
        BY <4>1, Element
      <4> QED
        BY <2>5, <3>1, <4>2
    <3>4. ChannelsIn(o) = ChannelsOf(t)
      BY <3>3, MessageTyped
    <3>5. t = s => Apart(m, o)
      BY <1>3, <2>1, <2>5, <3>1 DEF WholeInv, OnceInv, q
    <3>6. t # s => ChannelsIn(o) \cap ChannelsIn(m) = {}
      BY <2>3, <3>4, ChannelsShared
    <3>7. ASSUME NEW f \in FramesOf(o), NEW c \in ChannelsIn(o)
          PROVE  <<o.kind, f, c>> \notin arrived'
      <4>1. <<o.kind, f, c>> \notin arrived
        BY <3>2 DEF Fresh, FreshIn
      <4> HIDE DEF o
      <4> QED
        BY <2>4, <3>5, <3>6, <4>1 DEF Apart
    <3>8. FreshIn(o, acq', sent'[t], arrived')
      <4>1. Carries(o, acq) /\ \A f \in FramesOf(o) : f < sent[t]
        BY <3>2 DEF Fresh, FreshIn
      <4> HIDE DEF o
      <4> QED
        BY <1>1, <3>7, <4>1 DEF FreshIn
    <3> QED
      BY <3>1, <3>8
  <2>6. ASSUME NEW t \in Senders, NEW k \in Kinds, NEW f \in Frames,
               NEW c \in ChannelsOf(t), <<k, f, c>> \in arrived'
        PROVE  f < sent'[t]
    <3>1. CASE <<k, f, c>> \in arrived
      BY <1>1, <3>1 DEF WholeInv, OnceInv
    <3>2. CASE f \in FramesOf(m) /\ c \in ChannelsIn(m)
      <4>1. t = s
        BY <2>3, <3>2, ChannelsShared
      <4> QED
        BY <1>1, <2>2, <3>2, <4>1 DEF Fresh, FreshIn
    <3> QED
      BY <2>4, <2>6, <3>1, <3>2
  <2>7. OnceInv'
    BY <1>6, <2>5, <2>6 DEF OnceInv, Fresh
  <2>8. BeforeInv'
    BY <1>1, <1>7, <2>1 DEF BeforeInv
  <2>9. ASSUME NEW d \in Datasets, NEW f \in Frames
        PROVE  RowInv(d, f)'
    BY <1>1, <1>9, <2>1, <2>2, RowKept DEF WholeInv
  <2> QED
    BY <2>7, <2>8, <2>9
<1> QED
  BY <1>8, <1>9 DEF Receive, m, q

LEMMA WholeStep == WholeInv /\ ~MayOverlap /\ [Next]_vars => WholeInv'
<1> SUFFICES ASSUME WholeInv, ~MayOverlap, [Next]_vars
             PROVE  OnceInv' /\ BeforeInv' /\
                    \A d \in Datasets : \A f \in Frames : RowInv(d, f)'
  BY StepTyped DEF WholeInv
<1>a. Unmoved => \A d \in Datasets : \A f \in Frames : RowInv(d, f)'
  BY RowsUnmoved DEF WholeInv
<1>1. CASE Start
  BY <1>1, StartWhole
<1>2. ASSUME NEW s \in Senders, Configure(s)
      PROVE  OnceInv' /\ BeforeInv' /\ Unmoved
  BY <1>2, ConfigureWhole
<1>3. ASSUME NEW s \in Senders, Lose(s)
      PROVE  OnceInv' /\ BeforeInv' /\ Unmoved
  BY <1>3, LoseWhole
<1>4. ASSUME NEW s \in Senders, Receive(s)
      PROVE  OnceInv' /\ BeforeInv' /\
             \A d \in Datasets : \A f \in Frames : RowInv(d, f)'
  BY <1>4, ReceiveWhole
<1>5. ASSUME NEW s \in Senders, NEW n \in 1 .. NumFrames, Publish(s, n)
      PROVE  OnceInv' /\ BeforeInv' /\ Unmoved
  BY <1>5, PublishWhole
<1>6. CASE UNCHANGED vars
  <2>1. /\ UNCHANGED <<queue, sent, arrived, acq, partial, written>> /\ Unmoved
    BY <1>6 DEF vars, processors, network, writer, history, Unmoved
  <2>2. OnceInv' /\ BeforeInv'
    BY <2>1 DEF WholeInv, OnceInv, BeforeInv, Fresh, FreshIn
  <2> QED
    BY <1>a, <2>1, <2>2
<1> QED
  BY <1>a, <1>1, <1>2, <1>3, <1>4, <1>5, <1>6 DEF Next

(* A row that is added is whole: it has the value of every channel, of its *)
(* own frame and acquisition, and it is added once, in whatever order the  *)
(* messages come and whichever are lost, as long as an acquisition begins  *)
(* with no row of another under way (XspressMetaWriter.add_scalar_value).  *)
THEOREM RowsComplete == ASSUME MayOverlap = FALSE PROVE Spec => []RowsWhole
<1>1. WholeInv => RowsWhole
  BY DEF WholeInv, RowInv, RowsWhole
<1>2. WholeInv /\ [Next]_vars => WholeInv'
  BY WholeStep
<1> QED
  BY WholeInit, <1>1, <1>2, PTL DEF Spec
=============================================================================
