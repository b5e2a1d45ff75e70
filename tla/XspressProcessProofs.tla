------------------------ MODULE XspressProcessProofs ------------------------
(***************************************************************************)
(* Theorems about XspressProcess, for every chunk size, number of frames,  *)
(* number of buffers and client.                                           *)
(***************************************************************************)
EXTENDS XspressProcess, SequenceLemmas

-----------------------------------------------------------------------------
(* A data acquisition that sends was started, and has a frame to send.     *)
SendInv == sending => acq > 0 /\ next < asked /\ sendShape # NoShape

TypeInv == TypeOK /\ SendInv

(* What the constants are, one by one.                                     *)
LEMMA ConstantTypes ==
  /\ MaxFrames \in Nat \ {0} /\ MaxAcqs \in Nat \ {0}
  /\ MaxBlock \in Nat \ {0} /\ NumBuffers \in Nat \ {0}
  /\ \A c \in Chunks : c \in Nat \ {0}
  /\ \A s \in Shapes : s \in Nat \ {0}
  BY ProcessAssumption

(* A queue that is not empty has a head and a tail.                        *)
LEMMA Queue ==
  ASSUME NEW S, NEW q \in Seq(S), q # <<>>
  PROVE  Head(q) \in S /\ Tail(q) \in Seq(S) /\ Len(Tail(q)) = Len(q) - 1
  OBVIOUS

(* A comparison is a Boolean value.                                        *)
LEMMA LessBoolean == \A i, j \in Int : (i < j) \in BOOLEAN
  OBVIOUS

(* Cleared and reallocated memory is typed.                                *)
LEMMA ZeroTyped ==
  ASSUME NEW n \in Nat \ {0}
  PROVE  /\ ZeroBlock(n).slots \in [0 .. n - 1 -> Frames]
         /\ ZeroBlock(n).frames = 0
         /\ ZeroBlock(n).filled = 0
  BY ProcessAssumption DEF ZeroBlock, None, Frames

LEMMA ReallocatedTyped ==
  ASSUME NEW rs \in Seq(Frames)
  PROVE  Reallocated(rs) \in Seq(Frames) /\ Len(Reallocated(rs)) = Len(rs)
<1>1. None \in Frames
  BY ProcessAssumption DEF None, Frames
<1>2. Reallocated(rs) \in [1 .. Len(rs) -> Frames]
  BY <1>1 DEF Reallocated
<1> QED
  BY <1>2

(* A chunk that is asked for becomes a block size.                         *)
LEMMA FitTyped == \A c \in Chunks : Fit(c) \in 1 .. MaxBlock
  BY ProcessAssumption DEF Fit

(* A frame added to a block that is not full gives a block that is at most *)
(* full.                                                                   *)
LEMMA AddTyped ==
  ASSUME TypeOK, NEW f \in Frames, NEW b,
         b.slots \in [0 .. fpb - 1 -> Frames], b.frames \in 0 .. fpb - 1
  PROVE  /\ AddFrame(b, f).slots \in [0 .. fpb - 1 -> Frames]
         /\ AddFrame(b, f).frames = b.frames + 1
         /\ AddFrame(b, f).filled \in 1 .. fpb
<1>1. fpb \in Nat \ {0} /\ f.id \in Nat
  BY ProcessAssumption DEF TypeOK, Frames
<1>2. f.id % fpb \in 0 .. fpb - 1
  BY <1>1
<1> QED
  BY <1>1, <1>2 DEF AddFrame

(* What Process does to the block and to the rows.                         *)
LEMMA ProcessTyped ==
  ASSUME TypeOK, Process
  PROVE  /\ shape' \in Shapes
         /\ block'.slots \in [0 .. fpb - 1 -> Frames]
         /\ block'.frames \in 0 .. fpb - 1
         /\ block'.filled \in 0 .. fpb
         /\ rows' \in Seq(Frames)
         /\ processed' \in Seq(Frames)
         /\ resized' \in BOOLEAN
<1> DEFINE m == Head(ready)
           f == [acq |-> m.acq, id |-> m.id]
           rs == Append(RowsFor(m), f)
           b == AddFrame(BlockFor(m), f)
<1>1. m \in Messages /\ f \in Frames
  <2>1. ready \in Seq(Messages) /\ ready # <<>>
    BY DEF TypeOK, Process
  <2>2. m \in Messages
    BY <2>1, Queue
  <2> QED
    BY <2>2, ConstantTypes DEF Messages, Frames
<1>2. fpb \in Nat \ {0}
  BY ProcessAssumption DEF TypeOK
<1>3. RowsFor(m) \in Seq(Frames)
  BY ReallocatedTyped DEF TypeOK, RowsFor
<1>4. /\ BlockFor(m).slots \in [0 .. fpb - 1 -> Frames]
      /\ BlockFor(m).frames \in 0 .. fpb - 1
  <2>1. /\ block.slots \in [0 .. fpb - 1 -> Frames]
        /\ block.frames \in 0 .. fpb - 1
    BY DEF TypeOK
  <2> QED
    BY <1>2, <2>1, ZeroTyped DEF BlockFor
<1>5. /\ b.slots \in [0 .. fpb - 1 -> Frames]
      /\ b.frames \in 1 .. fpb
      /\ b.filled \in 1 .. fpb
  BY <1>1, <1>2, <1>4, AddTyped
<1>6. Pushed(b, f) = <<>> => b.frames # fpb
  BY DEF Pushed
<1>7. /\ shape' = m.shape
      /\ rows' = RowsAfter(f, rs)
      /\ block' = IF Pushed(b, f) = <<>> THEN b ELSE ZeroBlock(fpb)
      /\ processed' = Append(IF f.id = 0 THEN <<>> ELSE processed, f)
  BY DEF Process
<1> HIDE DEF m, f, rs, b
<1>8. rs \in Seq(Frames)
  BY <1>1, <1>3 DEF rs
<1>9. rows' \in Seq(Frames)
  BY <1>7, <1>8 DEF RowsAfter
<1>10. processed' \in Seq(Frames)
  BY <1>1, <1>7 DEF TypeOK
<1>11. shape' \in Shapes
  BY <1>1, <1>7 DEF Messages
<1>12. resized' \in BOOLEAN
  BY DEF Process
<1> QED
  BY <1>2, <1>5, <1>6, <1>7, <1>9, <1>10, <1>11, <1>12, ZeroTyped

LEMMA TypeStep == TypeInv /\ [Next]_vars => TypeInv'
<1> SUFFICES ASSUME TypeInv, [Next]_vars PROVE TypeInv'
  OBVIOUS
<1> USE ConstantTypes DEF TypeInv, TypeOK, SendInv, NoShape,
        daqVars, config, memory, output
<1>1. CASE ClientNext
  <2>1. ASSUME NEW n \in 1 .. MaxFrames, NEW c \in Chunks, Configure(n, c)
        PROVE  TypeInv'
    <3>1. CASE c = fpb
      BY <2>1, <3>1 DEF Configure
    <3>2. CASE c # fpb
      <4>1. fpb' \in 1 .. MaxBlock /\ rows' \in Seq(Frames)
        BY <2>1, <3>2, FitTyped, ReallocatedTyped DEF Configure
      <4> DEFINE size == Fit(c)
      <4>2. size \in Nat \ {0} /\ fpb' = size /\ block' = ZeroBlock(size)
        BY <2>1, <3>2, FitTyped, ConstantTypes DEF Configure
      <4>3. /\ block'.slots \in [0 .. fpb' - 1 -> Frames]
            /\ block'.frames = 0
            /\ block'.filled = 0
        BY <4>2, ZeroTyped
      <4> QED
        BY <2>1, <3>2, <4>1, <4>3, SMTT(40) DEF Configure
    <3> QED
      BY <3>1, <3>2
  <2>2. ASSUME NEW s \in Shapes, Start(s) PROVE TypeInv'
    BY <2>2 DEF Start
  <2>3. CASE Stop
    BY <2>3 DEF Stop
  <2> QED
    BY <1>1, <2>1, <2>2, <2>3 DEF ClientNext
<1>2. CASE Send
  <2>1. [acq |-> acq, id |-> next, shape |-> sendShape] \in Messages
    BY <1>2, ProcessAssumption DEF Send, Messages
  <2>2. wire' \in Seq(Messages)
    BY <1>2, <2>1 DEF Send
  <2>3. sending' = (next + 1 < asked)
    BY <1>2 DEF Send
  <2>4. next' = next + 1 /\ next + 1 \in 0 .. asked
    BY <1>2 DEF Send
  <2>5. UNCHANGED <<acq, asked, sendShape, free, ready, config, memory, output>>
    BY <1>2 DEF Send
  <2>6. next + 1 \in Int /\ asked \in Int
    BY <2>4
  <2>7. sending' \in BOOLEAN
    BY <2>3, <2>6, LessBoolean
  <2>8. sending' => acq > 0 /\ next + 1 < asked /\ sendShape # NoShape
    BY <1>2, <2>3 DEF Send
  <2>9. SendInv'
    BY <2>4, <2>5, <2>8
  <2>10. smooth' \in BOOLEAN /\ resized' \in BOOLEAN
    BY <1>2 DEF Send
  <2>11. /\ acq' \in 0 .. MaxAcqs /\ asked' \in 0 .. MaxFrames
         /\ next' \in 0 .. asked' /\ sendShape' \in Shapes \cup {NoShape}
         /\ ready' \in Seq(Messages) /\ free' \in Nat
         /\ free' + Len(ready') = NumBuffers
    BY <2>4, <2>5
  <2>12. /\ total' \in 1 .. MaxFrames /\ fpb' \in 1 .. MaxBlock
         /\ shape' \in Shapes \cup {NoShape}
         /\ block'.slots \in [0 .. fpb' - 1 -> Frames]
         /\ block'.frames \in 0 .. fpb' - 1 /\ block'.filled \in 0 .. fpb'
         /\ rows' \in Seq(Frames) /\ processed' \in Seq(Frames)
    BY <2>5
  <2> QED
    BY <2>2, <2>7, <2>9, <2>10, <2>11, <2>12
<1>3. CASE Receive
  <2>1. wire \in Seq(Messages) /\ wire # <<>> /\ free > 0
    BY <1>3 DEF Receive
  <2>2. /\ Head(wire) \in Messages /\ Tail(wire) \in Seq(Messages)
        /\ ready' \in Seq(Messages) /\ Len(ready') = Len(ready) + 1
    BY <1>3, <2>1, Queue DEF Receive
  <2>3. /\ wire' = Tail(wire) /\ free' = free - 1
        /\ UNCHANGED <<daqVars, config, memory, output, smooth, resized>>
    BY <1>3 DEF Receive
  <2>4. free' \in Nat /\ free' + Len(ready') = NumBuffers
    <3>1. free \in Nat /\ Len(ready) \in Nat /\ free + Len(ready) = NumBuffers
      OBVIOUS
    <3>2. free' = free - 1 /\ Len(ready') = Len(ready) + 1 /\ free > 0
      BY <2>1, <2>2, <2>3
    <3> HIDE DEF TypeInv, TypeOK, SendInv
    <3> QED
      BY <3>1, <3>2
  <2>5. wire' \in Seq(Messages) /\ ready' \in Seq(Messages)
    BY <2>2, <2>3
  <2>6. smooth' \in BOOLEAN /\ resized' \in BOOLEAN
    BY <2>3
  <2> QED
    BY <2>3, <2>4, <2>5, <2>6
<1>4. CASE Drop
  <2>1. Tail(wire) \in Seq(Messages)
    BY <1>4, Queue DEF Drop
  <2>2. /\ wire' = Tail(wire) /\ smooth' = FALSE
        /\ UNCHANGED <<daqVars, free, ready, config, memory, output, resized>>
    BY <1>4 DEF Drop
  <2>3. smooth' \in BOOLEAN /\ resized' \in BOOLEAN
    BY <2>2
  <2>4. wire' \in Seq(Messages)
    BY <2>1, <2>2
  <2> QED
    BY <2>2, <2>3, <2>4
<1>5. CASE Process
  <2>1. Tail(ready) \in Seq(Messages) /\ Len(Tail(ready)) = Len(ready) - 1
    BY <1>5 DEF Process
  <2>2. UNCHANGED <<daqVars, wire, config, smooth>>
        /\ ready' = Tail(ready) /\ free' = free + 1
    BY <1>5 DEF Process
  <2>3. /\ shape' \in Shapes
        /\ block'.slots \in [0 .. fpb - 1 -> Frames]
        /\ block'.frames \in 0 .. fpb - 1
        /\ block'.filled \in 0 .. fpb
        /\ rows' \in Seq(Frames)
        /\ processed' \in Seq(Frames)
        /\ resized' \in BOOLEAN
    BY <1>5, ProcessTyped
  <2>4. ready' \in Seq(Messages) /\ Len(ready') = Len(ready) - 1
    BY <2>1, <2>2
  <2>5. free' \in Nat /\ free' + Len(ready') = NumBuffers
    <3>1. free \in Nat /\ Len(ready) \in Nat /\ free + Len(ready) = NumBuffers
      OBVIOUS
    <3> HIDE DEF TypeInv, TypeOK, SendInv
    <3> QED
      BY <2>2, <2>4, <3>1
  <2> QED
    BY <2>2, <2>3, <2>4, <2>5
<1>6. CASE UNCHANGED vars
  BY <1>6 DEF vars
<1> QED
  BY <1>1, <1>2, <1>3, <1>4, <1>5, <1>6 DEF Next, Pipeline

LEMMA TypeInit == Init => TypeInv
<1> SUFFICES ASSUME Init PROVE TypeInv
  OBVIOUS
<1>1. fpb \in Nat \ {0} /\ block = ZeroBlock(fpb)
  BY DEF Init
<1>2. /\ block.slots \in [0 .. fpb - 1 -> Frames]
      /\ block.frames = 0
      /\ block.filled = 0
  BY <1>1, ZeroTyped
<1>3. /\ wire \in Seq(Messages) /\ ready \in Seq(Messages) /\ Len(ready) = 0
      /\ rows \in Seq(Frames) /\ processed \in Seq(Frames)
  BY DEF Init
<1>4. /\ acq = 0 /\ asked = 0 /\ next = 0 /\ sending = FALSE
      /\ sendShape = NoShape /\ shape = NoShape
      /\ free = NumBuffers /\ total = 1 /\ fpb = 1
  BY DEF Init
<1>5. /\ acq \in 0 .. MaxAcqs /\ asked \in 0 .. MaxFrames
      /\ next \in 0 .. asked /\ total \in 1 .. MaxFrames
      /\ fpb \in 1 .. MaxBlock /\ free \in Nat
      /\ free + Len(ready) = NumBuffers
  BY <1>3, <1>4, ConstantTypes
<1>6. block.frames \in 0 .. fpb - 1 /\ block.filled \in 0 .. fpb
  BY <1>2, <1>4
<1>7. sending \in BOOLEAN /\ SendInv
  BY <1>4 DEF SendInv
<1>8. smooth \in BOOLEAN /\ resized \in BOOLEAN
  BY DEF Init
<1> QED
  BY <1>2, <1>3, <1>4, <1>5, <1>6, <1>7, <1>8 DEF TypeInv, TypeOK

LEMMA TypeAlways == Spec => []TypeInv
<1> QED
  BY TypeInit, TypeStep, PTL DEF Spec

(* Type correctness: in particular the buffers are shared out between the  *)
(* receiver's queue and the frames on their way, and no frame finds a block*)
(* without room for it, for every chunk size a client asks for at any time.*)
THEOREM TypeCorrect == Spec => []TypeOK
<1>1. TypeInv => TypeOK
  BY DEF TypeInv
<1> QED
  BY <1>1, TypeAlways, PTL

-----------------------------------------------------------------------------
(* A frame that does not clear the memory and finds it as it was left:     *)
(* rows and block go through RowsFor and BlockFor together.                *)
LEMMA StepProcess ==
  ASSUME TypeOK, ScalarsMatchBlocks, Process
  PROVE  ScalarsMatchBlocks'
<1> SUFFICES ASSUME ~resized' PROVE Len(rows') = block'.frames
  BY DEF ScalarsMatchBlocks
<1> DEFINE m == Head(ready)
           f == [acq |-> m.acq, id |-> m.id]
           rs == Append(RowsFor(m), f)
           b == AddFrame(BlockFor(m), f)
<1>1. m \in Messages /\ f \in Frames
  <2>1. ready \in Seq(Messages) /\ ready # <<>>
    BY DEF TypeOK, Process
  <2>2. m \in Messages
    BY <2>1, Queue
  <2> QED
    BY <2>2, ConstantTypes DEF Messages, Frames
<1>2. fpb \in Nat \ {0} /\ f.id = m.id
  BY ConstantTypes DEF TypeOK
<1>3. RowsFor(m) \in Seq(Frames) /\ Len(RowsFor(m)) = BlockFor(m).frames
  <2>1. CASE m.id = 0
    BY <1>2, <2>1, ZeroTyped DEF RowsFor, BlockFor
  <2>2. CASE m.id # 0
    <3>1. ~resized /\ m.shape = shape
      BY <2>2 DEF Process
    <3> QED
      BY <2>2, <3>1 DEF RowsFor, BlockFor, ScalarsMatchBlocks, TypeOK
  <2> QED
    BY <2>1, <2>2
<1>4. rs \in Seq(Frames) /\ Len(rs) = b.frames
  <2>1. b.frames = BlockFor(m).frames + 1
    BY DEF AddFrame
  <2> QED
    BY <1>1, <1>3, <2>1
<1>5. Pushed(b, f) = <<>> <=> ~(b.frames = fpb \/ f.id = total - 1)
  BY DEF Pushed
<1>6. /\ rows' = RowsAfter(f, rs)
      /\ block' = IF Pushed(b, f) = <<>> THEN b ELSE ZeroBlock(fpb)
  BY DEF Process
<1> HIDE DEF m, f, rs, b
<1>7. CASE Len(rs) = fpb \/ f.id = total - 1
  <2>1. rows' = <<>> /\ block' = ZeroBlock(fpb)
    BY <1>4, <1>5, <1>6, <1>7 DEF RowsAfter
  <2> QED
    BY <1>2, <2>1, ZeroTyped
<1>8. CASE ~(Len(rs) = fpb \/ f.id = total - 1)
  <2>1. rows' = rs /\ block' = b
    BY <1>4, <1>5, <1>6, <1>8 DEF RowsAfter
  <2> QED
    BY <1>4, <2>1
<1> QED
  BY <1>7, <1>8

LEMMA StepStep == TypeInv /\ ScalarsMatchBlocks /\ [Next]_vars => ScalarsMatchBlocks'
<1> SUFFICES ASSUME TypeInv, ScalarsMatchBlocks, [Next]_vars
             PROVE  ScalarsMatchBlocks'
  OBVIOUS
<1>1. ASSUME NEW n \in 1 .. MaxFrames, NEW c \in Chunks, Configure(n, c)
      PROVE  ScalarsMatchBlocks'
  BY <1>1 DEF Configure, ScalarsMatchBlocks
<1>2. CASE UNCHANGED <<memory, resized>>
  BY <1>2 DEF ScalarsMatchBlocks, memory
<1>3. ASSUME NEW s \in Shapes, Start(s) PROVE ScalarsMatchBlocks'
  BY <1>2, <1>3 DEF Start
<1>4. CASE Stop \/ Send \/ Receive \/ Drop \/ UNCHANGED vars
  BY <1>2, <1>4 DEF Stop, Send, Receive, Drop, vars
<1>5. CASE Process
  BY <1>5, StepProcess DEF TypeInv
<1> QED
  BY <1>1, <1>3, <1>4, <1>5 DEF Next, ClientNext, Pipeline

(* Whatever frames are dropped, of whatever shape they are, and whenever   *)
(* acquisitions are started, stopped and configured, process_frame sends   *)
(* scalars exactly when it pushes blocks, as its comment asks, from one    *)
(* frame 0 to the next change of the layout.                               *)
THEOREM ScalarsKeepStep == Spec => []ScalarsMatchBlocks
<1>1. Init => ScalarsMatchBlocks
  BY DEF Init, ScalarsMatchBlocks, ZeroBlock
<1> QED
  BY <1>1, StepStep, TypeAlways, PTL DEF Spec

(* The scalars of a frame are never copied behind scalar_memblock_ unless  *)
(* the layout was changed after the last frame 0.                          *)
THEOREM RowsHaveRoom == Spec => []RoomForRow
<1>1. TypeInv /\ ScalarsMatchBlocks => RoomForRow
  <2> SUFFICES ASSUME TypeInv, ScalarsMatchBlocks, ~resized
               PROVE  Len(rows) < fpb
    BY DEF RoomForRow
  <2>1. Len(rows) = block.frames /\ block.frames \in 0 .. fpb - 1 /\ fpb \in Nat
    BY ConstantTypes DEF ScalarsMatchBlocks, TypeInv, TypeOK
  <2> QED
    BY <2>1
<1> QED
  BY <1>1, ScalarsKeepStep, TypeAlways, PTL

-----------------------------------------------------------------------------
(***************************************************************************)
(* What Process makes of the frame at the head of the queue.               *)
(***************************************************************************)
ThisFrame  == [acq |-> Head(ready).acq, id |-> Head(ready).id]
NewRows    == Append(RowsFor(Head(ready)), ThisFrame)
NewBlock   == AddFrame(BlockFor(Head(ready)), ThisFrame)
Since(log) == IF ThisFrame.id = 0 THEN <<>> ELSE log

LEMMA ProcessEffect ==
  ASSUME Process
  PROVE  /\ ready # <<>> /\ ready' = Tail(ready)
         /\ shape' = Head(ready).shape
         /\ resized' = (ThisFrame.id # 0 /\ (resized \/ Head(ready).shape # shape))
         /\ rows' = RowsAfter(ThisFrame, NewRows)
         /\ msgs' = Since(msgs) \o MessagesFor(ThisFrame, NewRows)
         /\ block' = IF Pushed(NewBlock, ThisFrame) = <<>>
                       THEN NewBlock ELSE ZeroBlock(fpb)
         /\ out' = Since(out) \o Pushed(NewBlock, ThisFrame)
         /\ processed' = Append(Since(processed), ThisFrame)
         /\ UNCHANGED <<daqVars, wire, config, smooth>>
  BY DEF Process, ThisFrame, NewRows, NewBlock, Since

(* What is pushed and what is sent.                                        *)
Blocks         == [id : Int, data : Seq(Frames)]
ScalarMessages == [first : Int, rows : Seq(Frames)]
OutInv == out \in Seq(Blocks) /\ msgs \in Seq(ScalarMessages)

LEMMA ContentsTyped ==
  ASSUME NEW b, NEW size \in Nat, NEW n \in 0 .. size,
         b.slots \in [0 .. size - 1 -> Frames]
  PROVE  Contents(b, n) \in Seq(Frames) /\ Len(Contents(b, n)) = n
<1>1. \A i \in 1 .. n : b.slots[i - 1] \in Frames
  <2> TAKE i \in 1 .. n
  <2>1. i - 1 \in 0 .. size - 1
    OBVIOUS
  <2> QED
    BY <2>1
<1>2. Contents(b, n) \in [1 .. n -> Frames]
  BY <1>1 DEF Contents
<1> QED
  BY <1>2

LEMMA PushedTyped ==
  ASSUME fpb \in Nat \ {0}, NEW f \in Frames, NEW b,
         b.slots \in [0 .. fpb - 1 -> Frames], b.filled \in 1 .. fpb
  PROVE  Pushed(b, f) \in Seq(Blocks)
<1>1. BlockId(f) \in Int
  <2>1. f.id \in Int /\ Procs \in Int /\ Rank \in Int
    BY ProcessAssumption DEF Frames
  <2>2. f.id \div fpb \in Int
    BY <2>1
  <2> QED
    BY <2>1, <2>2 DEF BlockId
<1>2. Contents(b, fpb) \in Seq(Frames) /\ Contents(b, b.filled) \in Seq(Frames)
  <2>1. fpb \in 0 .. fpb /\ b.filled \in 0 .. fpb /\ fpb \in Nat
    OBVIOUS
  <2> QED
    BY <2>1, ContentsTyped
<1>3. /\ [id |-> BlockId(f), data |-> Contents(b, fpb)] \in Blocks
      /\ [id |-> BlockId(f), data |-> Contents(b, b.filled)] \in Blocks
  BY <1>1, <1>2 DEF Blocks
<1> QED
  BY <1>3 DEF Pushed

LEMMA MessageTyped ==
  ASSUME NEW n \in Int, NEW rs \in Seq(Frames)
  PROVE  Message(n, rs) \in ScalarMessages
  BY DEF Message, ScalarMessages

LEMMA NewTyped ==
  ASSUME TypeOK, Process
  PROVE  /\ Head(ready) \in Messages /\ ThisFrame \in Frames
         /\ ThisFrame.acq = Head(ready).acq /\ ThisFrame.id = Head(ready).id
         /\ RowsFor(Head(ready)) \in Seq(Frames) /\ NewRows \in Seq(Frames)
         /\ BlockFor(Head(ready)).slots \in [0 .. fpb - 1 -> Frames]
         /\ NewBlock.slots \in [0 .. fpb - 1 -> Frames]
         /\ NewBlock.frames = BlockFor(Head(ready)).frames + 1
         /\ NewBlock.filled \in 1 .. fpb
         /\ fpb \in Nat \ {0}
<1>1. Head(ready) \in Messages /\ ThisFrame \in Frames
  <2>1. ready \in Seq(Messages) /\ ready # <<>>
    BY DEF TypeOK, Process
  <2>2. Head(ready) \in Messages
    BY <2>1, Queue
  <2> QED
    BY <2>2, ConstantTypes DEF Messages, Frames, ThisFrame
<1>2. fpb \in Nat \ {0}
  BY ProcessAssumption DEF TypeOK
<1>3. RowsFor(Head(ready)) \in Seq(Frames)
  BY ReallocatedTyped DEF TypeOK, RowsFor
<1>4. /\ BlockFor(Head(ready)).slots \in [0 .. fpb - 1 -> Frames]
      /\ BlockFor(Head(ready)).frames \in 0 .. fpb - 1
  <2>1. /\ block.slots \in [0 .. fpb - 1 -> Frames]
        /\ block.frames \in 0 .. fpb - 1
    BY DEF TypeOK
  <2> QED
    BY <1>2, <2>1, ZeroTyped DEF BlockFor
<1>5. /\ NewBlock.slots \in [0 .. fpb - 1 -> Frames]
      /\ NewBlock.frames = BlockFor(Head(ready)).frames + 1
      /\ NewBlock.filled \in 1 .. fpb
  BY <1>1, <1>4, AddTyped DEF NewBlock
<1>6. NewRows \in Seq(Frames)
  BY <1>1, <1>3 DEF NewRows
<1> QED
  BY <1>1, <1>2, <1>3, <1>4, <1>5, <1>6 DEF ThisFrame

(* The rows of the messages, one after the other.                          *)
RowsOf(ms)  == [k \in DOMAIN ms |-> ms[k].rows]
DatasOf(bs) == [k \in DOMAIN bs |-> bs[k].data]

LEMMA RowsOfElement ==
  ASSUME NEW ms, NEW k \in DOMAIN ms
  PROVE  RowsOf(ms)[k] = ms[k].rows
  BY DEF RowsOf

LEMMA RowsOfTyped ==
  ASSUME NEW ms \in Seq(ScalarMessages)
  PROVE  RowsOf(ms) \in Seq(Seq(Frames)) /\ Len(RowsOf(ms)) = Len(ms)
<1>1. DOMAIN ms = 1 .. Len(ms) /\ Len(ms) \in Nat
  OBVIOUS
<1>2. \A k \in 1 .. Len(ms) : ms[k].rows \in Seq(Frames)
  <2> TAKE k \in 1 .. Len(ms)
  <2>1. ms[k] \in ScalarMessages
    OBVIOUS
  <2> QED
    BY <2>1 DEF ScalarMessages
<1>3. RowsOf(ms) \in [1 .. Len(ms) -> Seq(Frames)]
  BY <1>1, <1>2 DEF RowsOf
<1> QED
  BY <1>1, <1>3, FunctionIsSeq

LEMMA DatasOfElement ==
  ASSUME NEW bs, NEW k \in DOMAIN bs
  PROVE  DatasOf(bs)[k] = bs[k].data
  BY DEF DatasOf

LEMMA DatasOfTyped ==
  ASSUME NEW bs \in Seq(Blocks)
  PROVE  DatasOf(bs) \in Seq(Seq(Frames)) /\ Len(DatasOf(bs)) = Len(bs)
<1>1. DOMAIN bs = 1 .. Len(bs) /\ Len(bs) \in Nat
  OBVIOUS
<1>2. \A k \in 1 .. Len(bs) : bs[k].data \in Seq(Frames)
  <2> TAKE k \in 1 .. Len(bs)
  <2>1. bs[k] \in Blocks
    OBVIOUS
  <2> QED
    BY <2>1 DEF Blocks
<1>3. DatasOf(bs) \in [1 .. Len(bs) -> Seq(Frames)]
  BY <1>1, <1>2 DEF DatasOf
<1> QED
  BY <1>1, <1>3, FunctionIsSeq

LEMMA NothingOf == RowsOf(<<>>) = <<>> /\ DatasOf(<<>>) = <<>>
<1>1. /\ <<>> \in Seq(ScalarMessages) /\ <<>> \in Seq(Blocks)
      /\ Len(<<>>) = 0
  OBVIOUS
<1>2. /\ RowsOf(<<>>) \in Seq(Seq(Frames)) /\ Len(RowsOf(<<>>)) = 0
      /\ DatasOf(<<>>) \in Seq(Seq(Frames)) /\ Len(DatasOf(<<>>)) = 0
  BY <1>1, RowsOfTyped, DatasOfTyped
<1> QED
  BY <1>2

LEMMA RowsOfConcat ==
  ASSUME NEW ms \in Seq(ScalarMessages), NEW ns \in Seq(ScalarMessages)
  PROVE  RowsOf(ms \o ns) = RowsOf(ms) \o RowsOf(ns)
<1>1. /\ RowsOf(ms) \in Seq(Seq(Frames)) /\ Len(RowsOf(ms)) = Len(ms)
      /\ RowsOf(ns) \in Seq(Seq(Frames)) /\ Len(RowsOf(ns)) = Len(ns)
  BY RowsOfTyped
<1>2. ms \o ns \in Seq(ScalarMessages) /\ Len(ms \o ns) = Len(ms) + Len(ns)
  BY ConcatElements
<1>3. /\ RowsOf(ms \o ns) \in Seq(Seq(Frames))
      /\ Len(RowsOf(ms \o ns)) = Len(ms) + Len(ns)
  BY <1>2, RowsOfTyped
<1>4. /\ RowsOf(ms) \o RowsOf(ns) \in Seq(Seq(Frames))
      /\ Len(RowsOf(ms) \o RowsOf(ns)) = Len(ms) + Len(ns)
  <2>1. RowsOf(ms) \in Seq(Seq(Frames)) /\ RowsOf(ns) \in Seq(Seq(Frames))
    BY <1>1
  <2>2. /\ RowsOf(ms) \o RowsOf(ns) \in Seq(Seq(Frames))
        /\ Len(RowsOf(ms) \o RowsOf(ns)) = Len(RowsOf(ms)) + Len(RowsOf(ns))
    BY <2>1, ConcatProperties, Zenon
  <2> QED
    BY <1>1, <2>2
<1>5. ASSUME NEW k \in 1 .. Len(ms) + Len(ns)
      PROVE  RowsOf(ms \o ns)[k] = (RowsOf(ms) \o RowsOf(ns))[k]
  <2>1. RowsOf(ms \o ns)[k] = (ms \o ns)[k].rows
    <3>1. k \in DOMAIN (ms \o ns)
      BY ConcatElements
    <3> QED
      BY <3>1, RowsOfElement
  <2>2. CASE k <= Len(ms)
    <3>1. (ms \o ns)[k] = ms[k] /\ k \in DOMAIN ms
      BY <2>2, ConcatElements
    <3>2. (RowsOf(ms) \o RowsOf(ns))[k] = RowsOf(ms)[k]
      BY <1>1, <2>2, ConcatElements
    <3> QED
      BY <2>1, <3>1, <3>2 DEF RowsOf
  <2>3. CASE ~(k <= Len(ms))
    <3>1. (ms \o ns)[k] = ns[k - Len(ms)] /\ k - Len(ms) \in DOMAIN ns
      BY <2>3, ConcatElements
    <3>2. (RowsOf(ms) \o RowsOf(ns))[k] = RowsOf(ns)[k - Len(ms)]
      BY <1>1, <2>3, ConcatElements
    <3> QED
      BY <2>1, <3>1, <3>2 DEF RowsOf
  <2> QED
    BY <2>2, <2>3
<1> QED
  BY <1>3, <1>4, <1>5, SeqEqual

LEMMA DatasOfConcat ==
  ASSUME NEW bs \in Seq(Blocks), NEW cs \in Seq(Blocks)
  PROVE  DatasOf(bs \o cs) = DatasOf(bs) \o DatasOf(cs)
<1>1. /\ DatasOf(bs) \in Seq(Seq(Frames)) /\ Len(DatasOf(bs)) = Len(bs)
      /\ DatasOf(cs) \in Seq(Seq(Frames)) /\ Len(DatasOf(cs)) = Len(cs)
  BY DatasOfTyped
<1>2. bs \o cs \in Seq(Blocks) /\ Len(bs \o cs) = Len(bs) + Len(cs)
  BY ConcatElements
<1>3. /\ DatasOf(bs \o cs) \in Seq(Seq(Frames))
      /\ Len(DatasOf(bs \o cs)) = Len(bs) + Len(cs)
  BY <1>2, DatasOfTyped
<1>4. /\ DatasOf(bs) \o DatasOf(cs) \in Seq(Seq(Frames))
      /\ Len(DatasOf(bs) \o DatasOf(cs)) = Len(bs) + Len(cs)
  <2>1. DatasOf(bs) \in Seq(Seq(Frames)) /\ DatasOf(cs) \in Seq(Seq(Frames))
    BY <1>1
  <2>2. /\ DatasOf(bs) \o DatasOf(cs) \in Seq(Seq(Frames))
        /\ Len(DatasOf(bs) \o DatasOf(cs)) = Len(DatasOf(bs)) + Len(DatasOf(cs))
    BY <2>1, ConcatProperties, Zenon
  <2> QED
    BY <1>1, <2>2
<1>5. ASSUME NEW k \in 1 .. Len(bs) + Len(cs)
      PROVE  DatasOf(bs \o cs)[k] = (DatasOf(bs) \o DatasOf(cs))[k]
  <2>1. DatasOf(bs \o cs)[k] = (bs \o cs)[k].data
    <3>1. k \in DOMAIN (bs \o cs)
      BY ConcatElements
    <3> QED
      BY <3>1, DatasOfElement
  <2>2. CASE k <= Len(bs)
    <3>1. (bs \o cs)[k] = bs[k] /\ k \in DOMAIN bs
      BY <2>2, ConcatElements
    <3>2. (DatasOf(bs) \o DatasOf(cs))[k] = DatasOf(bs)[k]
      BY <1>1, <2>2, ConcatElements
    <3> QED
      BY <2>1, <3>1, <3>2 DEF DatasOf
  <2>3. CASE ~(k <= Len(bs))
    <3>1. (bs \o cs)[k] = cs[k - Len(bs)] /\ k - Len(bs) \in DOMAIN cs
      BY <2>3, ConcatElements
    <3>2. (DatasOf(bs) \o DatasOf(cs))[k] = DatasOf(cs)[k - Len(bs)]
      BY <1>1, <2>3, ConcatElements
    <3> QED
      BY <2>1, <3>1, <3>2 DEF DatasOf
  <2> QED
    BY <2>2, <2>3
<1> QED
  BY <1>3, <1>4, <1>5, SeqEqual

(* The messages for a frame take the rows up to it, and the rows that are  *)
(* left are those in no message.                                           *)
LEMMA MessagesSplit ==
  ASSUME fpb \in Nat \ {0}, NEW f \in Frames, NEW rs \in Seq(Frames)
  PROVE  /\ MessagesFor(f, rs) \in Seq(ScalarMessages)
         /\ FlattenSeq(RowsOf(MessagesFor(f, rs))) \o RowsAfter(f, rs) = rs
<1> DEFINE full  == Len(rs) = fpb
           last  == f.id = total - 1
           left  == IF full THEN <<>> ELSE rs
           early == IF full THEN <<Message(f.id, rs)>> ELSE <<>>
           late  == IF last THEN [ch \in 1 .. NumChannels |->
                                    Message(f.id, IF ch = 1 THEN left ELSE <<>>)]
                    ELSE <<>>
<1>1. MessagesFor(f, rs) = early \o late
  BY DEF MessagesFor
<1>2. f.id \in Int /\ NumChannels \in Nat \ {0}
  BY ProcessAssumption DEF Frames
<1>3. left \in Seq(Frames) /\ <<>> \in Seq(Frames)
  OBVIOUS
<1>4. \A ms \in Seq(Frames) :
        Message(f.id, ms) \in ScalarMessages /\ Message(f.id, ms).rows = ms
  BY <1>2, MessageTyped DEF Message
<1>5. /\ early \in Seq(ScalarMessages)
      /\ FlattenSeq(RowsOf(early)) = IF full THEN rs ELSE <<>>
  <2>1. CASE full
    <3>1. early = <<Message(f.id, rs)>> /\ Message(f.id, rs) \in ScalarMessages
      BY <1>4, <2>1
    <3>2. early \in Seq(ScalarMessages) /\ Len(early) = 1 /\ 1 \in DOMAIN early
          /\ early[1].rows = rs
      BY <1>4, <3>1
    <3>3. Len(RowsOf(early)) = 1 /\ RowsOf(early)[1] = rs
      BY <3>2, RowsOfTyped, RowsOfElement
    <3> QED
      BY <2>1, <3>2, <3>3, FlattenOne
  <2>2. CASE ~full
    <3>1. early = <<>> /\ early \in Seq(ScalarMessages)
      BY <2>2
    <3>2. RowsOf(early) = <<>>
      BY <3>1, NothingOf
    <3> QED
      BY <2>2, <3>1, <3>2, FlattenEmpty
  <2> QED
    BY <2>1, <2>2
<1>6. /\ late \in Seq(ScalarMessages)
      /\ FlattenSeq(RowsOf(late)) = IF last THEN left ELSE <<>>
  <2>1. CASE last
    <3> DEFINE part(ch) == IF ch = 1 THEN left ELSE <<>>
    <3>1. late = [ch \in 1 .. NumChannels |-> Message(f.id, part(ch))]
      BY <2>1
    <3>2. \A ch \in 1 .. NumChannels : part(ch) \in Seq(Frames)
      BY <1>3
    <3> HIDE DEF late, left
    <3>3. late \in [1 .. NumChannels -> ScalarMessages]
      BY <1>4, <3>1, <3>2
    <3>4. late \in Seq(ScalarMessages) /\ Len(late) = NumChannels
      BY <1>2, <3>3, FunctionIsSeq
    <3>5. \A ch \in 1 .. NumChannels : RowsOf(late)[ch] = part(ch)
      <4> TAKE ch \in 1 .. NumChannels
      <4>1. ch \in DOMAIN late
        BY <3>1
      <4>2. RowsOf(late)[ch] = late[ch].rows
        BY <4>1, RowsOfElement
      <4> QED
        BY <1>4, <3>1, <3>2, <4>2
    <3>6. RowsOf(late) \in Seq(Seq(Frames)) /\ Len(RowsOf(late)) = NumChannels
      BY <3>4, RowsOfTyped
    <3>7. FlattenSeq(RowsOf(late)) = left
      BY <1>2, <1>3, <3>5, <3>6, FlattenFirst
    <3> QED
      BY <2>1, <3>4, <3>7
  <2>2. CASE ~last
    <3>1. late = <<>> /\ late \in Seq(ScalarMessages)
      BY <2>2
    <3>2. RowsOf(late) = <<>>
      BY <3>1, NothingOf
    <3> QED
      BY <2>2, <3>1, <3>2, FlattenEmpty
  <2> QED
    BY <2>1, <2>2
<1>7. RowsAfter(f, rs) = IF full \/ last THEN <<>> ELSE rs
  BY DEF RowsAfter
<1> HIDE DEF early, late
<1>8. MessagesFor(f, rs) \in Seq(ScalarMessages)
  BY <1>1, <1>5, <1>6, ConcatProperties
<1>9. RowsOf(MessagesFor(f, rs)) = RowsOf(early) \o RowsOf(late)
  BY <1>1, <1>5, <1>6, RowsOfConcat
<1>10. RowsOf(early) \in Seq(Seq(Frames)) /\ RowsOf(late) \in Seq(Seq(Frames))
  BY <1>5, <1>6, RowsOfTyped
<1>11. FlattenSeq(RowsOf(MessagesFor(f, rs)))
         = FlattenSeq(RowsOf(early)) \o FlattenSeq(RowsOf(late))
  BY <1>9, <1>10, FlattenConcat
<1>12. FlattenSeq(RowsOf(MessagesFor(f, rs))) \o RowsAfter(f, rs) = rs
  <2>1. /\ rs \o <<>> = rs /\ <<>> \o rs = rs
        /\ <<>> \o <<>> = <<>>
    BY ConcatEmptySeq
  <2> QED
    BY <1>5, <1>6, <1>7, <1>11, <2>1
<1> QED
  BY <1>8, <1>12

(* What was sent, with the frame and the rows before it.                   *)
LEMMA ProcessOutput ==
  ASSUME TypeOK, OutInv, Process
  PROVE  /\ OutInv'
         /\ Since(msgs) \in Seq(ScalarMessages) /\ Since(out) \in Seq(Blocks)
         /\ Pushed(NewBlock, ThisFrame) \in Seq(Blocks)
         /\ MessagesFor(ThisFrame, NewRows) \in Seq(ScalarMessages)
         /\ Published' \o rows' = FlattenSeq(RowsOf(Since(msgs))) \o NewRows
         /\ Written' = FlattenSeq(DatasOf(Since(out)))
                         \o FlattenSeq(DatasOf(Pushed(NewBlock, ThisFrame)))
<1> DEFINE sent   == MessagesFor(ThisFrame, NewRows)
           pushed == Pushed(NewBlock, ThisFrame)
<1>1. /\ fpb \in Nat \ {0} /\ ThisFrame \in Frames /\ NewRows \in Seq(Frames)
      /\ NewBlock.slots \in [0 .. fpb - 1 -> Frames]
      /\ NewBlock.filled \in 1 .. fpb
  BY NewTyped
<1>2. /\ sent \in Seq(ScalarMessages)
      /\ FlattenSeq(RowsOf(sent)) \o RowsAfter(ThisFrame, NewRows) = NewRows
  BY <1>1, MessagesSplit
<1>3. pushed \in Seq(Blocks)
  BY <1>1, PushedTyped
<1>4. Since(msgs) \in Seq(ScalarMessages) /\ Since(out) \in Seq(Blocks)
  BY DEF Since, OutInv
<1>5. /\ msgs' = Since(msgs) \o sent /\ out' = Since(out) \o pushed
      /\ rows' = RowsAfter(ThisFrame, NewRows)
  BY ProcessEffect
<1>6. Published' = FlattenSeq(RowsOf(msgs')) /\ Written' = FlattenSeq(DatasOf(out'))
  BY DEF Published, Written, RowsOf, DatasOf
<1>7. RowsAfter(ThisFrame, NewRows) \in Seq(Frames)
  BY <1>1 DEF RowsAfter
<1> HIDE DEF sent, pushed
<1>8. OutInv'
  BY <1>2, <1>3, <1>4, <1>5, ConcatProperties DEF OutInv, Blocks, ScalarMessages
<1>9. /\ RowsOf(msgs') = RowsOf(Since(msgs)) \o RowsOf(sent)
      /\ DatasOf(out') = DatasOf(Since(out)) \o DatasOf(pushed)
  BY <1>2, <1>3, <1>4, <1>5, RowsOfConcat, DatasOfConcat
<1>10. /\ RowsOf(Since(msgs)) \in Seq(Seq(Frames))
       /\ RowsOf(sent) \in Seq(Seq(Frames))
       /\ DatasOf(Since(out)) \in Seq(Seq(Frames))
       /\ DatasOf(pushed) \in Seq(Seq(Frames))
  BY <1>2, <1>3, <1>4, RowsOfTyped, DatasOfTyped
<1>11. Written' = FlattenSeq(DatasOf(Since(out))) \o FlattenSeq(DatasOf(pushed))
  BY <1>6, <1>9, <1>10, FlattenConcat
<1>12. Published' = FlattenSeq(RowsOf(Since(msgs))) \o FlattenSeq(RowsOf(sent))
  BY <1>6, <1>9, <1>10, FlattenConcat
<1>13. /\ FlattenSeq(RowsOf(Since(msgs))) \in Seq(Frames)
       /\ FlattenSeq(RowsOf(sent)) \in Seq(Frames)
  BY <1>10, FlattenTyped
<1>14. Published' \o rows' = FlattenSeq(RowsOf(Since(msgs))) \o NewRows
  <2>1. (FlattenSeq(RowsOf(Since(msgs))) \o FlattenSeq(RowsOf(sent)))
            \o RowsAfter(ThisFrame, NewRows)
          = FlattenSeq(RowsOf(Since(msgs)))
              \o (FlattenSeq(RowsOf(sent)) \o RowsAfter(ThisFrame, NewRows))
    BY <1>7, <1>13, ConcatAssociative
  <2> QED
    BY <1>2, <1>5, <1>12, <2>1
<1> QED
  BY <1>2, <1>3, <1>4, <1>8, <1>11, <1>14 DEF sent, pushed

LEMMA OutInit == Init => OutInv
  BY DEF Init, OutInv

LEMMA OutStep == TypeInv /\ OutInv /\ [Next]_vars => OutInv'
<1> SUFFICES ASSUME TypeInv, OutInv, [Next]_vars PROVE OutInv'
  OBVIOUS
<1>1. CASE Process
  BY <1>1, ProcessOutput DEF TypeInv
<1>2. CASE UNCHANGED <<out, msgs>>
  BY <1>2 DEF OutInv, Blocks, ScalarMessages
<1>3. CASE ClientNext
  BY <1>2, <1>3 DEF ClientNext, Configure, Start, Stop, output
<1>4. CASE Send \/ Receive \/ Drop \/ UNCHANGED vars
  BY <1>2, <1>4 DEF Send, Receive, Drop, vars, output
<1> QED
  BY <1>1, <1>3, <1>4 DEF Next, Pipeline

LEMMA OutAlways == Spec => []OutInv
  BY OutInit, OutStep, TypeAlways, PTL DEF Spec

-----------------------------------------------------------------------------
LEMMA ConservedStep ==
  TypeInv /\ OutInv /\ ScalarsConserved /\ [Next]_vars => ScalarsConserved'
<1> SUFFICES ASSUME TypeInv, OutInv, ScalarsConserved, [Next]_vars
             PROVE  ScalarsConserved'
  OBVIOUS
<1>1. ASSUME NEW n \in 1 .. MaxFrames, NEW c \in Chunks, Configure(n, c)
      PROVE  ScalarsConserved'
  BY <1>1 DEF Configure, ScalarsConserved, Published, output
<1>2. CASE UNCHANGED <<rows, output, resized>>
  BY <1>2 DEF ScalarsConserved, Published, output
<1>3. ASSUME NEW s \in Shapes, Start(s) PROVE ScalarsConserved'
  BY <1>2, <1>3 DEF Start, memory
<1>4. CASE Stop \/ Send \/ Receive \/ Drop \/ UNCHANGED vars
  BY <1>2, <1>4 DEF Stop, Send, Receive, Drop, vars, memory
<1>5. CASE Process
  <2> SUFFICES ASSUME ~resized', processed' # <<>>, processed'[1].id = 0
               PROVE  Published' \o rows' = processed'
    BY DEF ScalarsConserved
  <2>1. /\ processed' = Append(Since(processed), ThisFrame)
        /\ resized' = (ThisFrame.id # 0 /\ (resized \/ Head(ready).shape # shape))
    BY <1>5, ProcessEffect
  <2>2. /\ ThisFrame \in Frames /\ ThisFrame.id = Head(ready).id
        /\ processed \in Seq(Frames) /\ rows \in Seq(Frames)
    BY <1>5, NewTyped DEF TypeInv, TypeOK
  <2>3. Published' \o rows' = FlattenSeq(RowsOf(Since(msgs))) \o NewRows
    BY <1>5, ProcessOutput DEF TypeInv
  <2>4. CASE ThisFrame.id = 0
    <3>1. /\ Since(msgs) = <<>> /\ Since(processed) = <<>>
          /\ NewRows = <<ThisFrame>>
      <4>1. RowsFor(Head(ready)) = <<>>
        BY <2>2, <2>4 DEF RowsFor
      <4>2. Append(<<>>, ThisFrame) = <<ThisFrame>>
        OBVIOUS
      <4>3. NewRows = <<ThisFrame>>
        BY <4>1, <4>2 DEF NewRows
      <4>4. Since(msgs) = <<>> /\ Since(processed) = <<>>
        BY <2>4 DEF Since
      <4> QED
        BY <4>3, <4>4
    <3>2. <<ThisFrame>> \in Seq(Frames) /\ <<>> \o <<ThisFrame>> = <<ThisFrame>>
      BY <2>2, ConcatEmptySeq
    <3>3. Published' \o rows' = <<ThisFrame>>
      BY <2>3, <3>1, <3>2, NothingOf, FlattenEmpty
    <3>4. processed' = <<ThisFrame>>
      BY <2>1, <3>1
    <3> QED
      BY <3>3, <3>4
  <2>5. CASE ThisFrame.id # 0
    <3>1. /\ Since(msgs) = msgs /\ Since(processed) = processed
          /\ NewRows = Append(rows, ThisFrame)
          /\ ~resized
      BY <2>1, <2>2, <2>5 DEF Since, NewRows, RowsFor
    <3>2. processed # <<>> /\ processed[1].id = 0
      <4>1. CASE processed = <<>>
        BY <2>1, <2>5, <3>1, <4>1
      <4>2. CASE processed # <<>>
        BY <2>1, <2>2, <3>1, <4>2
      <4> QED
        BY <4>1, <4>2
    <3>3. Published \o rows = processed /\ Published = FlattenSeq(RowsOf(msgs))
      BY <3>1, <3>2 DEF ScalarsConserved, Published, RowsOf
    <3>4. Published \in Seq(Frames)
      BY <3>3, RowsOfTyped, FlattenTyped DEF OutInv
    <3>5. Published \o Append(rows, ThisFrame) = Append(Published \o rows, ThisFrame)
      BY <2>2, <3>4, AppendConcat
    <3> QED
      BY <2>1, <2>3, <3>1, <3>3, <3>5
  <2> QED
    BY <2>4, <2>5
<1> QED
  BY <1>1, <1>3, <1>4, <1>5 DEF Next, ClientNext, Pipeline

(* Whatever frames are dropped and whenever the client stops, starts and   *)
(* configures, the scalars of every frame that process_frame has seen since*)
(* the last frame 0 are in exactly one message, in order, or still to be   *)
(* sent, for every chunk size and number of channels.                      *)
THEOREM ScalarsAllSent == Spec => []ScalarsConserved
<1>1. Init => ScalarsConserved
  BY DEF Init, ScalarsConserved
<1> QED
  BY <1>1, ConservedStep, OutAlways, TypeAlways, PTL DEF Spec

-----------------------------------------------------------------------------
(***************************************************************************)
(* As long as no frame is dropped and the client waits for the pipeline to *)
(* empty, the frames on their way are those the acquisition has sent and   *)
(* the plugin has not seen, one after the other, and where the plugin      *)
(* stands is given by the number it has seen.                              *)
(***************************************************************************)
Seen         == next - Len(ready) - Len(wire)
UnderWay     == sending \/ ready # <<>> \/ wire # <<>>
FrameSent(i) == [acq |-> acq, id |-> i, shape |-> sendShape]

QueueInv ==
  /\ Seen \in Nat
  /\ \A i \in 1 .. Len(ready) : ready[i] = FrameSent(Seen + i - 1)
  /\ \A i \in 1 .. Len(wire) : wire[i] = FrameSent(Seen + Len(ready) + i - 1)
  /\ UnderWay => asked = total

(* Where the plugin stands after the first n frames: block b, rows rs and  *)
(* pushed blocks bs.                                                       *)
At(n, b, rs, bs) ==
  /\ b.frames = n % fpb /\ b.filled = n % fpb
  /\ b.filled > 0 => b.slots[0].acq = acq
  /\ Len(bs) = n \div fpb
  /\ Len(FlattenSeq(DatasOf(bs))) = n - (n % fpb)
  /\ Len(rs) = n % fpb
  /\ \A i \in 1 .. Len(rs) : rs[i].id = n - Len(rs) + i - 1

PlaceInv == UnderWay /\ Seen > 0 => shape = sendShape /\ At(Seen, block, rows, out)

SmoothInv == smooth => QueueInv /\ PlaceInv

LabelledBlocks(bs) == \A k \in DOMAIN bs : bs[k].id = (k - 1) * Procs + Rank
LabelledRows(ms) ==
  \A k \in DOMAIN ms : \A i \in DOMAIN ms[k].rows :
    ms[k].rows[i].id = ms[k].first + i - 1

LEMMA LabelledParts == Labelled <=> (smooth => LabelledBlocks(out) /\ LabelledRows(msgs))
  BY DEF Labelled, LabelledBlocks, LabelledRows

(* The steps before the plugin.                                            *)
LEMMA SmoothClient ==
  ASSUME TypeInv, SmoothInv, ClientNext
  PROVE  SmoothInv'
<1> SUFFICES ASSUME smooth' PROVE QueueInv' /\ PlaceInv'
  BY DEF SmoothInv
<1>1. ASSUME NEW n \in 1 .. MaxFrames, NEW c \in Chunks, Configure(n, c)
      PROVE  QueueInv' /\ PlaceInv'
  <2>1. /\ smooth /\ ~sending /\ ready = <<>> /\ wire = <<>>
        /\ UNCHANGED <<sending, ready, wire, next>>
    BY <1>1 DEF Configure, PipelineEmpty, daqVars
  <2>2. Seen' = next /\ next \in Nat /\ ~UnderWay'
    BY <2>1 DEF Seen, UnderWay, TypeInv, TypeOK
  <2>3. Len(ready') = 0 /\ Len(wire') = 0
    BY <2>1
  <2>4. QueueInv'
    BY <2>2, <2>3 DEF QueueInv
  <2>5. PlaceInv'
    BY <2>2 DEF PlaceInv
  <2> QED
    BY <2>4, <2>5
<1>2. ASSUME NEW s \in Shapes, Start(s) PROVE QueueInv' /\ PlaceInv'
  <2>1. /\ ready = <<>> /\ wire = <<>> /\ next' = 0 /\ asked' = total
        /\ UNCHANGED <<ready, wire, total>>
    BY <1>2 DEF Start, PipelineEmpty, config
  <2>2. Len(ready') = 0 /\ Len(wire') = 0
    BY <2>1
  <2>3. Seen' = 0
    <3>1. next' = 0
      BY <2>1
    <3> QED
      BY <2>2, <3>1 DEF Seen
  <2>4. QueueInv'
    BY <2>1, <2>2, <2>3 DEF QueueInv
  <2>5. PlaceInv'
    BY <2>3 DEF PlaceInv
  <2> QED
    BY <2>4, <2>5
<1>3. CASE Stop
  <2>1. /\ UNCHANGED <<acq, next, sendShape, ready, wire, asked, total, shape,
                       block, rows, out, fpb, smooth>>
        /\ UnderWay' => UnderWay
    BY <1>3 DEF Stop, UnderWay, config, memory, output
  <2>2. Seen' = Seen
    BY <2>1 DEF Seen
  <2>3. QueueInv /\ PlaceInv
    BY <2>1 DEF SmoothInv
  <2>4. QueueInv'
    BY <2>1, <2>2, <2>3 DEF QueueInv, FrameSent
  <2>5. PlaceInv'
    BY <2>1, <2>2, <2>3 DEF PlaceInv, At, DatasOf
  <2> QED
    BY <2>4, <2>5
<1> QED
  BY <1>1, <1>2, <1>3 DEF ClientNext

LEMMA SmoothSend ==
  ASSUME TypeInv, SmoothInv, Send
  PROVE  SmoothInv'
<1> SUFFICES ASSUME smooth' PROVE QueueInv' /\ PlaceInv'
  BY DEF SmoothInv
<1>1. /\ UNCHANGED <<acq, asked, sendShape, ready, total, fpb, shape, block,
                     rows, out, smooth>>
      /\ wire' = Append(wire, FrameSent(next)) /\ next' = next + 1
      /\ UnderWay
  BY DEF Send, FrameSent, UnderWay, config, memory, output
<1>2. /\ wire \in Seq(Messages) /\ ready \in Seq(Messages) /\ next \in Nat
      /\ Len(wire') = Len(wire) + 1
  BY <1>1 DEF TypeInv, TypeOK
<1>3. QueueInv /\ PlaceInv
  BY <1>1 DEF SmoothInv
<1>4. Seen' = Seen
  BY <1>1, <1>2 DEF Seen
<1>5. \A i \in 1 .. Len(wire') : wire'[i] = FrameSent(Seen + Len(ready) + i - 1)
  <2> TAKE i \in 1 .. Len(wire')
  <2>1. CASE i \in 1 .. Len(wire)
    <3>1. wire'[i] = wire[i]
      BY <1>1, <1>2, <2>1
    <3> QED
      BY <1>3, <2>1, <3>1 DEF QueueInv
  <2>2. CASE i = Len(wire) + 1
    <3>1. wire'[i] = FrameSent(next)
      BY <1>1, <1>2, <2>2
    <3>2. Seen + Len(ready) + i - 1 = next
      BY <1>2, <2>2 DEF Seen
    <3> QED
      BY <3>1, <3>2
  <2> QED
    BY <1>2, <2>1, <2>2
<1>6. QueueInv'
  BY <1>1, <1>3, <1>4, <1>5 DEF QueueInv, FrameSent
<1>7. PlaceInv'
  BY <1>1, <1>3, <1>4 DEF PlaceInv, At, DatasOf
<1> QED
  BY <1>6, <1>7

LEMMA SmoothReceive ==
  ASSUME TypeInv, SmoothInv, Receive
  PROVE  SmoothInv'
<1> SUFFICES ASSUME smooth' PROVE QueueInv' /\ PlaceInv'
  BY DEF SmoothInv
<1>1. /\ UNCHANGED <<acq, asked, next, sending, sendShape, total, fpb, shape,
                     block, rows, out, smooth>>
      /\ wire # <<>> /\ wire' = Tail(wire)
      /\ ready' = Append(ready, Head(wire))
  BY DEF Receive, daqVars, config, memory, output
<1>2. /\ wire \in Seq(Messages) /\ ready \in Seq(Messages) /\ next \in Nat
  BY DEF TypeInv, TypeOK
<1>3. /\ Len(ready') = Len(ready) + 1
      /\ Len(wire) \in Nat \ {0} /\ Len(wire') = Len(wire) - 1
      /\ Head(wire) = wire[1]
      /\ \A i \in 1 .. Len(wire) - 1 : wire'[i] = wire[i + 1]
  BY <1>1, <1>2
<1>4. QueueInv /\ PlaceInv /\ UnderWay
  BY <1>1 DEF SmoothInv, UnderWay
<1>5. Seen' = Seen /\ Len(ready) \in Nat
  BY <1>1, <1>2, <1>3 DEF Seen
<1>6. \A i \in 1 .. Len(ready') : ready'[i] = FrameSent(Seen + i - 1)
  <2> TAKE i \in 1 .. Len(ready')
  <2>1. CASE i \in 1 .. Len(ready)
    <3>1. ready'[i] = ready[i]
      BY <1>1, <1>2, <2>1
    <3> QED
      BY <1>4, <2>1, <3>1 DEF QueueInv
  <2>2. CASE i = Len(ready) + 1
    <3>1. ready'[i] = wire[1] /\ 1 \in 1 .. Len(wire)
      BY <1>1, <1>2, <1>3, <2>2
    <3>2. wire[1] = FrameSent(Seen + Len(ready) + 1 - 1)
      BY <1>4, <3>1 DEF QueueInv
    <3>3. Seen + Len(ready) + 1 - 1 = Seen + i - 1
      BY <1>4, <1>5, <2>2 DEF QueueInv
    <3> QED
      BY <1>5, <3>1, <3>2, <3>3
  <2> QED
    BY <1>2, <1>3, <2>1, <2>2
<1>7. \A i \in 1 .. Len(wire') :
        wire'[i] = FrameSent(Seen + Len(ready') + i - 1)
  <2> TAKE i \in 1 .. Len(wire')
  <2>1. wire'[i] = wire[i + 1] /\ i + 1 \in 1 .. Len(wire)
    BY <1>3
  <2>2. wire[i + 1] = FrameSent(Seen + Len(ready) + (i + 1) - 1)
    BY <1>4, <2>1 DEF QueueInv
  <2>3. Seen + Len(ready) + (i + 1) - 1 = Seen + Len(ready') + i - 1
    BY <1>3, <1>4, <1>5 DEF QueueInv
  <2> QED
    BY <2>1, <2>2, <2>3
<1>8. QueueInv'
  BY <1>1, <1>4, <1>5, <1>6, <1>7 DEF QueueInv, FrameSent
<1>9. PlaceInv'
  BY <1>1, <1>4, <1>5 DEF PlaceInv, At, DatasOf
<1> QED
  BY <1>8, <1>9

(* The frame the plugin takes is the next one of the acquisition, and      *)
(* the memory it finds, cleared if it is the first, is that of the frames  *)
(* before.                                                                 *)
LEMMA BeforeFrame ==
  ASSUME TypeInv, OutInv, SmoothInv, Labelled, smooth, Process
  PROVE  /\ QueueInv /\ UnderWay
         /\ Head(ready) = FrameSent(Seen)
         /\ ThisFrame = [acq |-> acq, id |-> Seen]
         /\ Seen < next /\ next <= total
         /\ At(Seen, BlockFor(Head(ready)), RowsFor(Head(ready)), Since(out))
         /\ LabelledBlocks(Since(out)) /\ LabelledRows(Since(msgs))
<1>1. QueueInv /\ PlaceInv /\ UnderWay /\ Seen \in Nat
  BY DEF SmoothInv, UnderWay, Process, QueueInv
<1>2. /\ ready \in Seq(Messages) /\ ready # <<>> /\ wire \in Seq(Messages)
      /\ next \in Nat /\ asked \in Nat /\ total \in Nat /\ next <= asked
      /\ fpb \in Nat \ {0}
  BY ConstantTypes DEF Process, TypeInv, TypeOK
<1>3. Head(ready) = ready[1] /\ 1 \in 1 .. Len(ready)
  BY <1>2
<1>4. Head(ready) = FrameSent(Seen)
  <2>1. ready[1] = FrameSent(Seen + 1 - 1) /\ Seen + 1 - 1 = Seen
    BY <1>1, <1>3 DEF QueueInv
  <2> QED
    BY <1>3, <2>1
<1>5. /\ Head(ready).id = Seen /\ Head(ready).acq = acq
      /\ Head(ready).shape = sendShape
      /\ ThisFrame = [acq |-> acq, id |-> Seen] /\ ThisFrame.id = Seen
  BY <1>4 DEF FrameSent, ThisFrame
<1>6. Seen < next /\ next <= total
  <2>1. Len(ready) > 0 /\ Len(wire) >= 0 /\ Len(ready) \in Nat /\ Len(wire) \in Nat
    BY <1>2
  <2> QED
    BY <1>1, <1>2, <2>1 DEF Seen, QueueInv
<1>7. /\ At(Seen, BlockFor(Head(ready)), RowsFor(Head(ready)), Since(out))
      /\ LabelledBlocks(Since(out)) /\ LabelledRows(Since(msgs))
  <2>1. CASE Seen = 0
    <3>1. /\ BlockFor(Head(ready)) = ZeroBlock(fpb) /\ RowsFor(Head(ready)) = <<>>
          /\ Since(out) = <<>> /\ Since(msgs) = <<>>
      BY <1>5, <2>1 DEF BlockFor, RowsFor, Since
    <3>2. FlattenSeq(DatasOf(<<>>)) = <<>>
      BY NothingOf, FlattenEmpty
    <3>3. 0 % fpb = 0 /\ 0 \div fpb = 0
      BY <1>2
    <3>4. ZeroBlock(fpb).frames = 0 /\ ZeroBlock(fpb).filled = 0
      BY <1>2, ZeroTyped
    <3>5. At(0, ZeroBlock(fpb), <<>>, <<>>)
      BY <3>2, <3>3, <3>4 DEF At
    <3>6. LabelledBlocks(<<>>) /\ LabelledRows(<<>>)
      BY DEF LabelledBlocks, LabelledRows
    <3> QED
      BY <2>1, <3>1, <3>5, <3>6
  <2>2. CASE Seen # 0
    <3>1. shape = sendShape /\ At(Seen, block, rows, out)
      BY <1>1, <2>2 DEF PlaceInv
    <3>2. /\ BlockFor(Head(ready)) = block /\ RowsFor(Head(ready)) = rows
          /\ Since(out) = out /\ Since(msgs) = msgs
      BY <1>5, <2>2, <3>1 DEF BlockFor, RowsFor, Since
    <3> QED
      BY <3>1, <3>2, LabelledParts
  <2> QED
    BY <2>1, <2>2
<1> QED
  BY <1>1, <1>4, <1>5, <1>6, <1>7

(* The rows with the frame's own follow one another.                       *)
LEMMA RowsFollow ==
  ASSUME NEW n \in Nat, NEW rs \in Seq(Frames), NEW f \in Frames, f.id = n,
         \A i \in 1 .. Len(rs) : rs[i].id = n - Len(rs) + i - 1
  PROVE  /\ Append(rs, f) \in Seq(Frames) /\ Len(Append(rs, f)) = Len(rs) + 1
         /\ \A i \in 1 .. Len(rs) + 1 :
              Append(rs, f)[i].id = (n + 1) - (Len(rs) + 1) + i - 1
<1>1. Append(rs, f) \in Seq(Frames) /\ Len(Append(rs, f)) = Len(rs) + 1
      /\ Len(rs) \in Nat
  OBVIOUS
<1>2. ASSUME NEW i \in 1 .. Len(rs) + 1
      PROVE  Append(rs, f)[i].id = (n + 1) - (Len(rs) + 1) + i - 1
  <2>1. CASE i \in 1 .. Len(rs)
    <3>1. Append(rs, f)[i] = rs[i]
      BY <2>1
    <3>2. (n + 1) - (Len(rs) + 1) + i - 1 = n - Len(rs) + i - 1
      BY <1>1
    <3> QED
      BY <2>1, <3>1, <3>2
  <2>2. CASE i = Len(rs) + 1
    <3>1. Append(rs, f)[i] = f
      BY <2>2
    <3>2. (n + 1) - (Len(rs) + 1) + i - 1 = n
      BY <1>1, <2>2
    <3> QED
      BY <3>1, <3>2
  <2> QED
    BY <1>1, <2>1, <2>2
<1> QED
  BY <1>1, <1>2

(* Messages whose rows follow one another are labelled.                    *)
LEMMA MessagesLabelled ==
  ASSUME NEW f \in Frames, NEW rs \in Seq(Frames),
         \A i \in 1 .. Len(rs) : rs[i].id = (f.id + 1) - Len(rs) + i - 1
  PROVE  LabelledRows(MessagesFor(f, rs))
<1> DEFINE full == Len(rs) = fpb
           left == IF full THEN <<>> ELSE rs
           early == IF full THEN <<Message(f.id, rs)>> ELSE <<>>
           part(ch) == IF ch = 1 THEN left ELSE <<>>
           late == IF f.id = total - 1
                     THEN [ch \in 1 .. NumChannels |-> Message(f.id, part(ch))]
                     ELSE <<>>
           Good(m) == \A i \in DOMAIN m.rows : m.rows[i].id = m.first + i - 1
<1>1. MessagesFor(f, rs) = early \o late
  BY DEF MessagesFor
<1>2. f.id \in Int /\ NumChannels \in Nat
  BY ProcessAssumption DEF Frames
<1>3. Good(Message(f.id, rs)) /\ Good(Message(f.id, <<>>))
  <2>1. /\ Message(f.id, rs).rows = rs
        /\ Message(f.id, rs).first = f.id - Len(rs) + 1
        /\ Message(f.id, <<>>).rows = <<>>
        /\ DOMAIN rs = 1 .. Len(rs) /\ Len(rs) \in Nat
    BY DEF Message
  <2>2. \A i \in 1 .. Len(rs) :
          (f.id + 1) - Len(rs) + i - 1 = f.id - Len(rs) + 1 + i - 1
    BY <1>2, <2>1
  <2>3. Good(Message(f.id, rs))
    BY <2>1, <2>2
  <2>4. Good(Message(f.id, <<>>))
    BY <2>1
  <2> QED
    BY <2>3, <2>4
<1>4. \A ms \in {rs, <<>>} : Message(f.id, ms) \in ScalarMessages
  <2>1. rs \in Seq(Frames) /\ <<>> \in Seq(Frames)
    OBVIOUS
  <2>2. \A ms \in Seq(Frames) : Message(f.id, ms) \in ScalarMessages
    BY <1>2, MessageTyped
  <2> QED
    BY <2>1, <2>2
<1> HIDE DEF Good
<1>5. /\ early \in Seq(ScalarMessages)
      /\ \A k \in 1 .. Len(early) : Good(early[k])
  <2>1. CASE full
    <3>1. early = <<Message(f.id, rs)>> /\ Message(f.id, rs) \in ScalarMessages
      BY <1>4, <2>1
    <3> HIDE DEF early
    <3>2. early \in Seq(ScalarMessages) /\ Len(early) = 1
          /\ early[1] = Message(f.id, rs)
      BY <3>1
    <3> QED
      BY <1>3, <3>2
  <2>2. CASE ~full
    <3>1. early = <<>>
      BY <2>2
    <3> HIDE DEF early
    <3> QED
      BY <3>1
  <2> QED
    BY <2>1, <2>2
<1>6. \A ch \in 1 .. NumChannels :
        Message(f.id, part(ch)) \in ScalarMessages /\ Good(Message(f.id, part(ch)))
  <2> TAKE ch \in 1 .. NumChannels
  <2>1. part(ch) = rs \/ part(ch) = <<>>
    OBVIOUS
  <2> QED
    BY <1>3, <1>4, <2>1
<1> HIDE DEF part, early
<1>7. /\ late \in Seq(ScalarMessages)
      /\ \A k \in 1 .. Len(late) : Good(late[k])
  <2>1. CASE f.id = total - 1
    <3>1. late \in [1 .. NumChannels -> ScalarMessages]
      BY <1>6, <2>1
    <3>2. late \in Seq(ScalarMessages) /\ Len(late) = NumChannels
      BY <1>2, <3>1, FunctionIsSeq
    <3> QED
      BY <1>6, <2>1, <3>2
  <2>2. CASE f.id # total - 1
    BY <2>2
  <2> QED
    BY <2>1, <2>2
<1> HIDE DEF late
<1>8. /\ DOMAIN (early \o late) = 1 .. Len(early) + Len(late)
      /\ Len(early) \in Nat /\ Len(late) \in Nat
      /\ \A k \in 1 .. Len(early) + Len(late) :
           (early \o late)[k] = IF k <= Len(early) THEN early[k]
                                ELSE late[k - Len(early)]
  BY <1>5, <1>7, ConcatElements
<1>9. ASSUME NEW k \in DOMAIN (early \o late) PROVE Good((early \o late)[k])
  <2>1. CASE k <= Len(early)
    BY <1>5, <1>8, <2>1
  <2>2. CASE ~(k <= Len(early))
    <3>1. k - Len(early) \in 1 .. Len(late)
      BY <1>8, <2>2
    <3> QED
      BY <1>7, <1>8, <2>2, <3>1
  <2> QED
    BY <2>1, <2>2
<1> QED
  BY <1>1, <1>9 DEF LabelledRows, Good

(* The frame is added behind those of its block.                           *)
LEMMA BlockTakes ==
  ASSUME NEW n \in Nat, fpb \in Nat \ {0}, NEW f \in Frames, f.id = n,
         NEW b, b.slots \in [0 .. fpb - 1 -> Frames],
         b.frames = n % fpb, b.filled = n % fpb,
         b.filled > 0 => b.slots[0].acq = f.acq
  PROVE  /\ AddFrame(b, f).frames = (n % fpb) + 1
         /\ AddFrame(b, f).filled = (n % fpb) + 1
         /\ AddFrame(b, f).slots[0].acq = f.acq
         /\ Contents(AddFrame(b, f), (n % fpb) + 1)
              = Append(Contents(b, n % fpb), f)
         /\ Contents(b, n % fpb) # <<>> => Contents(b, n % fpb)[1].acq = f.acq
<1> DEFINE c == AddFrame(b, f)
           k == n % fpb
<1>1. k \in 0 .. fpb - 1 /\ k \in Nat /\ 0 \in 0 .. fpb - 1
  <2>1. n % fpb \in 0 .. fpb - 1
    BY Division
  <2> QED
    BY <2>1
<1>2. /\ c.slots = [b.slots EXCEPT ![k] = f]
      /\ c.frames = k + 1 /\ c.filled = k + 1
  BY DEF AddFrame
<1>3. /\ c.slots[k] = f
      /\ \A i \in 0 .. fpb - 1 : i # k => c.slots[i] = b.slots[i]
      /\ c.slots \in [0 .. fpb - 1 -> Frames]
  BY <1>1, <1>2
<1> HIDE DEF c, k
<1>4. c.slots[0].acq = f.acq
  <2>1. CASE k = 0
    BY <1>3, <2>1
  <2>2. CASE k # 0
    BY <1>1, <1>3, <2>2 DEF k
  <2> QED
    BY <2>1, <2>2
<1>5. /\ Contents(b, k) \in Seq(Frames) /\ Len(Contents(b, k)) = k
      /\ Contents(c, k + 1) \in Seq(Frames) /\ Len(Contents(c, k + 1)) = k + 1
  <2>1. fpb \in Nat /\ k \in 0 .. fpb /\ k + 1 \in 0 .. fpb
    BY <1>1
  <2> QED
    BY <1>3, <2>1, ContentsTyped
<1>6. /\ Append(Contents(b, k), f) \in Seq(Frames)
      /\ Len(Append(Contents(b, k), f)) = k + 1
  BY <1>5
<1>7. ASSUME NEW i \in 1 .. k + 1
      PROVE  Contents(c, k + 1)[i] = Append(Contents(b, k), f)[i]
  <2>1. Contents(c, k + 1)[i] = c.slots[i - 1]
    BY DEF Contents
  <2>2. CASE i = k + 1
    <3>1. i - 1 = k
      BY <1>1, <2>2
    <3>2. Append(Contents(b, k), f)[i] = f
      BY <1>5, <2>2
    <3> QED
      BY <1>3, <2>1, <3>1, <3>2
  <2>3. CASE i # k + 1
    <3>1. i \in 1 .. k /\ i - 1 \in 0 .. fpb - 1 /\ i - 1 # k
      BY <1>1, <2>3
    <3>2. Append(Contents(b, k), f)[i] = Contents(b, k)[i]
      BY <1>5, <3>1
    <3>3. Contents(b, k)[i] = b.slots[i - 1]
      BY <3>1 DEF Contents
    <3> QED
      BY <1>3, <2>1, <3>1, <3>2, <3>3
  <2> QED
    BY <2>2, <2>3
<1>8. Contents(c, k + 1) = Append(Contents(b, k), f)
  BY <1>5, <1>6, <1>7, SeqEqual
<1>9. Contents(b, k) # <<>> => Contents(b, k)[1].acq = f.acq
  <2> SUFFICES ASSUME Contents(b, k) # <<>> PROVE Contents(b, k)[1].acq = f.acq
    OBVIOUS
  <2>1. k > 0 /\ 1 \in 1 .. k
    BY <1>1, <1>5
  <2>2. Contents(b, k)[1] = b.slots[1 - 1]
    BY <2>1 DEF Contents
  <2>3. 1 - 1 = 0
    OBVIOUS
  <2> QED
    BY <2>1, <2>2, <2>3 DEF k
<1> QED
  BY <1>2, <1>4, <1>8, <1>9 DEF c, k

(* What is pushed, given how far the block is filled.                      *)
LEMMA PushedParts ==
  ASSUME NEW b, NEW f, b.filled = b.frames
  PROVE  IF b.frames = fpb \/ f.id = total - 1
           THEN Pushed(b, f) = <<[id |-> BlockId(f), data |-> Contents(b, b.filled)]>>
           ELSE Pushed(b, f) = <<>>
  BY DEF Pushed

LEMMA OneData ==
  ASSUME NEW id \in Int, NEW data \in Seq(Frames)
  PROVE  FlattenSeq(DatasOf(<<[id |-> id, data |-> data]>>)) = data
<1> DEFINE bs == <<[id |-> id, data |-> data]>>
<1>1. /\ Len(bs) = 1 /\ 1 \in DOMAIN bs /\ bs[1].data = data
  OBVIOUS
<1>2. bs \in Seq(Blocks)
  BY DEF Blocks
<1> HIDE DEF bs
<1>3. Len(DatasOf(bs)) = 1 /\ DatasOf(bs)[1] = data
  BY <1>1, <1>2, DatasOfTyped, DatasOfElement
<1>4. FlattenSeq(DatasOf(bs)) = data
  BY <1>3, FlattenOne
<1> QED
  BY <1>4 DEF bs

(* Where the plugin stands after the frame, and what it has written.       *)
Before == [written |-> FlattenSeq(DatasOf(Since(out))),
           pending |-> Contents(BlockFor(Head(ready)), BlockFor(Head(ready)).filled)]

LEMMA AfterFrame ==
  ASSUME TypeInv, OutInv, SmoothInv, Labelled, smooth, Process
  PROVE  /\ LabelledBlocks(out') /\ LabelledRows(msgs')
         /\ \E n \in Nat : n = Seen /\ (n + 1 < total => At(n + 1, block, rows, out)')
         /\ Log!Take(ThisFrame, Before.written, Before.pending)
<1>1. PICK n \in Nat, old \in {BlockFor(Head(ready))} :
        /\ n = Seen /\ old = BlockFor(Head(ready)) /\ UnderWay
        /\ ThisFrame = [acq |-> acq, id |-> n]
        /\ n < next /\ next <= total /\ total \in Nat /\ next \in Nat
        /\ At(n, old, RowsFor(Head(ready)), Since(out))
        /\ LabelledBlocks(Since(out)) /\ LabelledRows(Since(msgs))
  <2>1. Seen \in Nat
    BY BeforeFrame DEF QueueInv
  <2>2. total \in Nat /\ next \in Nat
    BY ConstantTypes DEF TypeInv, TypeOK
  <2> QED
    BY <2>1, <2>2, BeforeFrame
<1>2. /\ ThisFrame \in Frames /\ ThisFrame.id = n /\ ThisFrame.acq = acq
      /\ RowsFor(Head(ready)) \in Seq(Frames) /\ NewRows \in Seq(Frames)
      /\ old.slots \in [0 .. fpb - 1 -> Frames]
      /\ NewBlock.slots \in [0 .. fpb - 1 -> Frames]
      /\ fpb \in Nat \ {0}
  BY <1>1, NewTyped DEF TypeInv
<1>3. PICK k \in Nat :
        k = n % fpb /\ k \in 0 .. fpb - 1 /\ n \div fpb \in Nat /\ k <= n
  <2>1. n % fpb \in 0 .. fpb - 1 /\ n \div fpb \in Nat /\ n % fpb <= n
    BY <1>2, Division
  <2> QED
    BY <2>1
<1> DEFINE pushed == Pushed(NewBlock, ThisFrame)
           taken == Append(Contents(old, k), ThisFrame)
           w == FlattenSeq(DatasOf(Since(out)))
<1>4. /\ NewBlock.frames = k + 1 /\ NewBlock.filled = k + 1
      /\ NewBlock.slots[0].acq = acq
      /\ Contents(NewBlock, k + 1) = taken
      /\ Contents(old, k) # <<>> => Contents(old, k)[1].acq = acq
  <2>1. /\ old.frames = n % fpb /\ old.filled = n % fpb
        /\ old.filled > 0 => old.slots[0].acq = ThisFrame.acq
        /\ NewBlock = AddFrame(old, ThisFrame)
    BY <1>1, <1>2 DEF At, NewBlock
  <2>2. /\ AddFrame(old, ThisFrame).frames = (n % fpb) + 1
        /\ AddFrame(old, ThisFrame).filled = (n % fpb) + 1
        /\ AddFrame(old, ThisFrame).slots[0].acq = ThisFrame.acq
        /\ Contents(AddFrame(old, ThisFrame), (n % fpb) + 1)
             = Append(Contents(old, n % fpb), ThisFrame)
        /\ Contents(old, n % fpb) # <<>> =>
             Contents(old, n % fpb)[1].acq = ThisFrame.acq
    BY <1>2, <2>1, BlockTakes
  <2> QED
    BY <1>2, <1>3, <2>1, <2>2
<1>5. /\ block' = IF pushed = <<>> THEN NewBlock ELSE ZeroBlock(fpb)
      /\ out' = Since(out) \o pushed
      /\ rows' = RowsAfter(ThisFrame, NewRows)
      /\ msgs' = Since(msgs) \o MessagesFor(ThisFrame, NewRows)
      /\ fpb' = fpb /\ acq' = acq /\ total' = total
  BY ProcessEffect DEF daqVars, config
<1>6. /\ Since(out) \in Seq(Blocks) /\ pushed \in Seq(Blocks)
      /\ Since(msgs) \in Seq(ScalarMessages)
      /\ MessagesFor(ThisFrame, NewRows) \in Seq(ScalarMessages)
      /\ Written' = w \o FlattenSeq(DatasOf(pushed))
      /\ out' \in Seq(Blocks)
  BY ProcessOutput DEF TypeInv, OutInv
<1>7. IF k + 1 = fpb \/ n = total - 1
        THEN pushed = <<[id |-> BlockId(ThisFrame), data |-> taken]>>
        ELSE pushed = <<>>
  BY <1>2, <1>4, PushedParts
<1>8. BlockId(ThisFrame) = (n \div fpb) * Procs + Rank
  BY <1>2 DEF BlockId
<1>9. Len(Since(out)) = n \div fpb
  BY <1>1 DEF At
<1>10. /\ Contents(old, k) \in Seq(Frames) /\ Len(Contents(old, k)) = k
       /\ taken \in Seq(Frames) /\ Len(taken) = k + 1
  <2>1. fpb \in Nat /\ k \in 0 .. fpb
    BY <1>2, <1>3
  <2>2. Contents(old, k) \in Seq(Frames) /\ Len(Contents(old, k)) = k
    BY <1>2, <2>1, ContentsTyped
  <2> QED
    BY <1>2, <1>3, <2>2
<1>11. /\ w \in Seq(Frames) /\ Len(w) = n - k
  BY <1>1, <1>3, <1>6, DatasOfTyped, FlattenTyped DEF At
<1>12. /\ Len(NewRows) = k + 1
       /\ \A i \in 1 .. k + 1 : NewRows[i].id = (n + 1) - (k + 1) + i - 1
  <2> DEFINE rs == RowsFor(Head(ready))
  <2>1. /\ rs \in Seq(Frames) /\ Len(rs) = k
        /\ \A i \in 1 .. Len(rs) : rs[i].id = n - Len(rs) + i - 1
        /\ NewRows = Append(rs, ThisFrame)
    BY <1>1, <1>2, <1>3 DEF At, NewRows
  <2> HIDE DEF rs
  <2>2. /\ Len(Append(rs, ThisFrame)) = Len(rs) + 1
        /\ \A i \in 1 .. Len(rs) + 1 :
             Append(rs, ThisFrame)[i].id = (n + 1) - (Len(rs) + 1) + i - 1
    BY <1>2, <2>1, RowsFollow
  <2> QED
    BY <2>1, <2>2
<1>13. ZeroBlock(fpb).frames = 0 /\ ZeroBlock(fpb).filled = 0
  BY <1>2, ZeroTyped
<1> HIDE DEF pushed, taken, w
<1>14. FlattenSeq(DatasOf(pushed)) = IF k + 1 = fpb \/ n = total - 1 THEN taken ELSE <<>>
  <2>1. CASE k + 1 = fpb \/ n = total - 1
    <3>1. BlockId(ThisFrame) \in Int
      <4>1. Procs \in Int /\ Rank \in Int
        BY ProcessAssumption
      <4> QED
        BY <1>3, <1>8, <4>1
    <3> QED
      BY <1>7, <1>10, <2>1, <3>1, OneData
  <2>2. CASE ~(k + 1 = fpb \/ n = total - 1)
    BY <1>7, <2>2, NothingOf, FlattenEmpty
  <2> QED
    BY <2>1, <2>2
<1>15. LabelledBlocks(out')
  <2> SUFFICES ASSUME NEW i \in DOMAIN out'
               PROVE  out'[i].id = (i - 1) * Procs + Rank
    BY DEF LabelledBlocks
  <2>1. /\ DOMAIN out' = 1 .. Len(Since(out)) + Len(pushed)
        /\ out'[i] = IF i <= Len(Since(out)) THEN Since(out)[i]
                     ELSE pushed[i - Len(Since(out))]
        /\ Len(Since(out)) \in Nat /\ Len(pushed) \in Nat
    BY <1>5, <1>6, ConcatElements
  <2>2. CASE i <= Len(Since(out))
    <3>1. i \in DOMAIN Since(out) /\ out'[i] = Since(out)[i]
      BY <1>6, <2>1, <2>2
    <3> QED
      BY <1>1, <3>1 DEF LabelledBlocks
  <2>3. CASE ~(i <= Len(Since(out)))
    <3>1. k + 1 = fpb \/ n = total - 1
      <4> SUFFICES ASSUME ~(k + 1 = fpb \/ n = total - 1) PROVE FALSE
        OBVIOUS
      <4>1. Len(pushed) = 0
        BY <1>7
      <4> QED
        BY <2>1, <2>3, <4>1
    <3>2. Len(pushed) = 1 /\ pushed[1].id = BlockId(ThisFrame)
      BY <1>7, <3>1
    <3>3. i = Len(Since(out)) + 1 /\ out'[i] = pushed[1]
      BY <2>1, <2>3, <3>2
    <3>4. i - 1 = n \div fpb
      BY <1>3, <1>9, <3>3
    <3> QED
      BY <1>8, <3>2, <3>3, <3>4
  <2> QED
    BY <2>2, <2>3
<1>16. LabelledRows(msgs')
  <2>1. LabelledRows(MessagesFor(ThisFrame, NewRows))
    BY <1>2, <1>12, MessagesLabelled
  <2>2. LabelledRows(Since(msgs))
    BY <1>1
  <2> DEFINE ms == Since(msgs)
             ns == MessagesFor(ThisFrame, NewRows)
  <2>3. /\ DOMAIN (ms \o ns) = 1 .. Len(ms) + Len(ns)
        /\ Len(ms) \in Nat /\ Len(ns) \in Nat
        /\ DOMAIN ms = 1 .. Len(ms) /\ DOMAIN ns = 1 .. Len(ns)
        /\ \A i \in 1 .. Len(ms) + Len(ns) :
             (ms \o ns)[i] = IF i <= Len(ms) THEN ms[i] ELSE ns[i - Len(ms)]
    BY <1>6, ConcatElements
  <2>4. LabelledRows(ms) /\ LabelledRows(ns) /\ msgs' = ms \o ns
    BY <1>5, <2>1, <2>2
  <2> HIDE DEF ms, ns
  <2>5. \A i \in DOMAIN (ms \o ns) :
          \/ \E j \in DOMAIN ms : (ms \o ns)[i] = ms[j]
          \/ \E j \in DOMAIN ns : (ms \o ns)[i] = ns[j]
    <3> TAKE i \in DOMAIN (ms \o ns)
    <3>1. CASE i <= Len(ms)
      BY <2>3, <3>1
    <3>2. CASE ~(i <= Len(ms))
      <4>1. i - Len(ms) \in DOMAIN ns
        BY <2>3, <3>2
      <4> QED
        BY <2>3, <3>2, <4>1
    <3> QED
      BY <3>1, <3>2
  <2> QED
    BY <2>4, <2>5 DEF LabelledRows
<1>17. n + 1 < total => At(n + 1, block, rows, out)'
  <2> SUFFICES ASSUME n + 1 < total PROVE At(n + 1, block, rows, out)'
    OBVIOUS
  <2>1. n # total - 1
    BY <1>1
  <2>2. IF k + 1 = fpb
          THEN (n + 1) % fpb = 0 /\ (n + 1) \div fpb = (n \div fpb) + 1
          ELSE (n + 1) % fpb = k + 1 /\ (n + 1) \div fpb = n \div fpb
    BY <1>2, <1>3, DivisionNext
  <2>3. Len(out') = Len(Since(out)) + Len(pushed)
    BY <1>5, <1>6, ConcatElements
  <2>4. /\ Written' = FlattenSeq(DatasOf(out'))
        /\ Len(Written') = (n - k) + Len(FlattenSeq(DatasOf(pushed)))
    <3>1. FlattenSeq(DatasOf(pushed)) \in Seq(Frames)
      BY <1>6, DatasOfTyped, FlattenTyped
    <3>2. Len(w \o FlattenSeq(DatasOf(pushed)))
            = Len(w) + Len(FlattenSeq(DatasOf(pushed)))
      BY <1>11, <3>1, ConcatProperties
    <3> QED
      BY <1>6, <1>11, <3>2 DEF Written, DatasOf
  <2>5. CASE k + 1 = fpb
    <3>1. /\ Len(pushed) = 1 /\ pushed # <<>>
          /\ Len(FlattenSeq(DatasOf(pushed))) = k + 1
      <4>1. pushed = <<[id |-> BlockId(ThisFrame), data |-> taken]>>
        BY <1>7, <2>5
      <4>2. Len(pushed) = 1
        BY <4>1
      <4>3. pushed # <<>>
        BY <4>2
      <4>4. FlattenSeq(DatasOf(pushed)) = taken
        BY <1>14, <2>5
      <4> QED
        BY <1>10, <4>2, <4>3, <4>4
    <3>2. block' = ZeroBlock(fpb) /\ rows' = <<>>
      BY <1>5, <1>12, <2>5, <3>1 DEF RowsAfter
    <3>3. Len(out') = (n + 1) \div fpb
      BY <1>9, <2>2, <2>3, <2>5, <3>1
    <3>4. Len(FlattenSeq(DatasOf(out'))) = (n + 1) - 0
      BY <1>3, <2>4, <3>1
    <3>5. (n + 1) % fpb = 0 /\ fpb' = fpb
      BY <1>5, <2>2, <2>5
    <3>6. block'.frames = 0 /\ block'.filled = 0 /\ Len(rows') = 0
      BY <1>13, <3>2
    <3> QED
      BY <3>3, <3>4, <3>5, <3>6 DEF At
  <2>6. CASE k + 1 # fpb
    <3>1. pushed = <<>> /\ FlattenSeq(DatasOf(pushed)) = <<>>
      BY <1>7, <1>14, <2>1, <2>6
    <3>2. block' = NewBlock /\ rows' = NewRows
      BY <1>2, <1>5, <1>12, <2>1, <2>6, <3>1 DEF RowsAfter
    <3>3. Len(pushed) = 0 /\ Len(FlattenSeq(DatasOf(pushed))) = 0
      BY <3>1
    <3>4. Len(out') = (n + 1) \div fpb
      BY <1>3, <1>9, <2>2, <2>3, <2>6, <3>3
    <3>5. Len(FlattenSeq(DatasOf(out'))) = (n + 1) - (k + 1)
      BY <1>3, <2>4, <3>3
    <3>6. (n + 1) % fpb = k + 1 /\ fpb' = fpb /\ acq' = acq
      BY <1>5, <2>2, <2>6
    <3>7. /\ block'.frames = k + 1 /\ block'.filled = k + 1
          /\ block'.slots[0].acq = acq'
          /\ Len(rows') = k + 1
          /\ \A i \in 1 .. Len(rows') : rows'[i].id = (n + 1) - Len(rows') + i - 1
      BY <1>4, <1>12, <3>2, <3>6
    <3> QED
      BY <3>4, <3>5, <3>6, <3>7 DEF At
  <2> QED
    BY <2>5, <2>6
<1>18. Log!Take(ThisFrame, w, Contents(old, k))
  <2>1. ThisFrame.id = Len(w) + Len(Contents(old, k))
    BY <1>2, <1>3, <1>10, <1>11
  <2>2. Contents(old, k) # <<>> => Contents(old, k)[1].acq = ThisFrame.acq
    BY <1>2, <1>4
  <2>3. Len(taken) = fpb <=> k + 1 = fpb
    BY <1>10
  <2>4. Pending' = Contents(block', block'.filled)
    BY DEF Pending, Contents
  <2>5. CASE k + 1 = fpb \/ n = total - 1
    <3>1. pushed # <<>> /\ FlattenSeq(DatasOf(pushed)) = taken
      <4>1. pushed = <<[id |-> BlockId(ThisFrame), data |-> taken]>>
        BY <1>7, <2>5
      <4>2. Len(pushed) = 1
        BY <4>1
      <4>3. pushed # <<>>
        BY <4>2
      <4>4. FlattenSeq(DatasOf(pushed)) = taken
        BY <1>14, <2>5
      <4> QED
        BY <4>3, <4>4
    <3>2. block' = ZeroBlock(fpb)
      BY <1>5, <3>1
    <3>3. Contents(ZeroBlock(fpb), 0) = <<>>
      BY DEF Contents
    <3> QED
      BY <1>2, <1>5, <1>6, <1>13, <2>1, <2>2, <2>3, <2>4, <2>5, <3>1, <3>2, <3>3
         DEF Log!Take, taken
  <2>6. CASE ~(k + 1 = fpb \/ n = total - 1)
    <3>1. pushed = <<>> /\ FlattenSeq(DatasOf(pushed)) = <<>>
      BY <1>7, <1>14, <2>6
    <3>2. block' = NewBlock
      BY <1>5, <3>1
    <3>3. Pending' = taken
      BY <1>4, <2>4, <3>2
    <3>4. Written' = w
      BY <1>6, <1>11, <3>1, ConcatEmptySeq
    <3> QED
      BY <1>2, <1>5, <2>1, <2>2, <2>3, <2>6, <3>3, <3>4 DEF Log!Take, taken
  <2> QED
    BY <2>5, <2>6
<1>19. n = Seen /\ w = Before.written /\ Contents(old, k) = Before.pending
  BY <1>1, <1>3 DEF Before, At, w
<1> QED
  BY <1>15, <1>16, <1>17, <1>18, <1>19

LEMMA SmoothProcess ==
  ASSUME TypeInv, OutInv, SmoothInv, Labelled, Process
  PROVE  SmoothInv' /\ Labelled'
<1> SUFFICES ASSUME smooth'
             PROVE  QueueInv' /\ PlaceInv' /\ LabelledBlocks(out') /\ LabelledRows(msgs')
  BY LabelledParts DEF SmoothInv, Labelled, LabelledBlocks, LabelledRows
<1>1. /\ UNCHANGED <<acq, asked, next, sending, sendShape, wire, total, fpb, smooth>>
      /\ ready # <<>> /\ ready' = Tail(ready) /\ shape' = Head(ready).shape
  BY ProcessEffect DEF daqVars, config
<1>2. /\ ready \in Seq(Messages) /\ wire \in Seq(Messages)
      /\ next \in Nat /\ asked \in Nat /\ next <= asked
      /\ (sending => next < asked)
  BY DEF TypeInv, TypeOK, SendInv
<1>3. /\ QueueInv /\ UnderWay /\ Head(ready) = FrameSent(Seen) /\ Seen \in Nat
  BY <1>1, BeforeFrame DEF QueueInv
<1>4. /\ Len(ready) \in Nat \ {0} /\ Len(ready') = Len(ready) - 1
      /\ \A i \in 1 .. Len(ready) - 1 : ready'[i] = ready[i + 1]
      /\ Len(wire) \in Nat /\ Len(wire') = Len(wire)
  BY <1>1, <1>2
<1>5. Seen' = Seen + 1
  BY <1>1, <1>2, <1>4 DEF Seen
<1>6. \A i \in 1 .. Len(ready') : ready'[i] = FrameSent(Seen' + i - 1)
  <2> TAKE i \in 1 .. Len(ready')
  <2>1. i + 1 \in 1 .. Len(ready) /\ ready'[i] = ready[i + 1]
    BY <1>4
  <2>2. ready[i + 1] = FrameSent(Seen + (i + 1) - 1)
    BY <1>3, <2>1 DEF QueueInv
  <2>3. Seen + (i + 1) - 1 = Seen' + i - 1
    BY <1>3, <1>5
  <2> QED
    BY <2>1, <2>2, <2>3
<1>7. \A i \in 1 .. Len(wire') :
        wire'[i] = FrameSent(Seen' + Len(ready') + i - 1)
  <2> TAKE i \in 1 .. Len(wire')
  <2>1. wire'[i] = FrameSent(Seen + Len(ready) + i - 1)
    BY <1>1, <1>3 DEF QueueInv
  <2>2. Seen + Len(ready) + i - 1 = Seen' + Len(ready') + i - 1
    BY <1>3, <1>4, <1>5
  <2> QED
    BY <2>1, <2>2
<1>8. asked' = total'
  BY <1>1, <1>3 DEF QueueInv
<1>9. QueueInv'
  BY <1>1, <1>3, <1>5, <1>6, <1>7, <1>8 DEF QueueInv, FrameSent
<1>10. UnderWay' => Seen + 1 < total
  <2> SUFFICES ASSUME UnderWay' PROVE Seen + 1 < total
    OBVIOUS
  <2>1. asked = total
    BY <1>3 DEF QueueInv
  <2>2. CASE sending
    <3>1. Seen + 1 <= next
      BY <1>2, <1>4 DEF Seen
    <3> QED
      BY <1>2, <1>3, <2>1, <2>2, <3>1
  <2>3. CASE ready' # <<>> \/ wire # <<>>
    <3>1. Len(ready') + Len(wire) > 0
      <4>1. ready' \in Seq(Messages)
        BY <1>1, <1>2
      <4> QED
        BY <1>2, <1>4, <2>3, <4>1
    <3>2. Seen + 1 < next
      BY <1>2, <1>4, <3>1 DEF Seen
    <3> QED
      BY <1>2, <1>3, <2>1, <3>2
  <2> QED
    BY <1>1, <2>2, <2>3 DEF UnderWay
<1>11. PlaceInv'
  <2> SUFFICES ASSUME UnderWay'
               PROVE  shape' = sendShape' /\ At(Seen, block, rows, out)'
    BY DEF PlaceInv
  <2>1. PICK n \in Nat : n = Seen /\ (n + 1 < total => At(n + 1, block, rows, out)')
    BY <1>1, AfterFrame
  <2>2. n + 1 = Seen' /\ At(n + 1, block, rows, out)'
    BY <1>5, <1>10, <2>1
  <2>3. shape' = sendShape'
    BY <1>1, <1>3 DEF FrameSent
  <2> QED
    BY <2>2, <2>3
<1> QED
  BY <1>1, <1>9, <1>11, AfterFrame

LEMMA SmoothInit == Init => SmoothInv /\ Labelled
<1> SUFFICES ASSUME Init PROVE SmoothInv /\ Labelled
  OBVIOUS
<1>1. /\ Len(ready) = 0 /\ Len(wire) = 0 /\ next = 0 /\ ~UnderWay
      /\ out = <<>> /\ msgs = <<>>
  BY DEF Init, UnderWay
<1>2. Seen = 0
  BY <1>1 DEF Seen
<1>3. QueueInv /\ PlaceInv
  BY <1>1, <1>2 DEF QueueInv, PlaceInv
<1> QED
  BY <1>1, <1>3 DEF SmoothInv, Labelled

LEMMA SmoothStep ==
  TypeInv /\ OutInv /\ SmoothInv /\ Labelled /\ [Next]_vars
    => SmoothInv' /\ Labelled'
<1> SUFFICES ASSUME TypeInv, OutInv, SmoothInv, Labelled, [Next]_vars
             PROVE  SmoothInv' /\ Labelled'
  OBVIOUS
<1>1. CASE Process
  BY <1>1, SmoothProcess
<1>2. CASE ~Process
  <2>1. (smooth' => smooth) /\ out' = out /\ msgs' = msgs
    <3>1. CASE ClientNext
      <4>1. ASSUME NEW n \in 1 .. MaxFrames, NEW c \in Chunks, Configure(n, c)
            PROVE  (smooth' => smooth) /\ UNCHANGED output
        BY <4>1 DEF Configure
      <4>2. ASSUME NEW s \in Shapes, Start(s)
            PROVE  (smooth' => smooth) /\ UNCHANGED output
        BY <4>2 DEF Start
      <4>3. CASE Stop
        BY <4>3 DEF Stop, output
      <4> QED
        BY <3>1, <4>1, <4>2, <4>3 DEF ClientNext, output
    <3>2. CASE Send \/ Receive \/ Drop \/ UNCHANGED vars
      BY <3>2 DEF Send, Receive, Drop, vars, output
    <3> QED
      BY <1>2, <3>1, <3>2 DEF Next, Pipeline
  <2>2. Labelled'
    BY <2>1 DEF Labelled
  <2>3. SmoothInv'
    <3>1. CASE Drop
      BY <3>1 DEF Drop, SmoothInv
    <3>2. CASE UNCHANGED vars
      <4>1. UNCHANGED <<acq, asked, next, sending, sendShape, wire, ready, total,
                        fpb, shape, block, rows, out, smooth>>
        BY <3>2 DEF vars, daqVars, config, memory, output
      <4> QED
        BY <4>1 DEF SmoothInv, QueueInv, PlaceInv, At, Seen, UnderWay, FrameSent,
                    DatasOf
    <3> QED
      BY <1>2, <3>1, <3>2, SmoothClient, SmoothSend, SmoothReceive
         DEF Next, Pipeline
  <2> QED
    BY <2>2, <2>3
<1> QED
  BY <1>1, <1>2

LEMMA SmoothAlways == Spec => [](TypeInv /\ OutInv /\ SmoothInv /\ Labelled)
  BY SmoothInit, SmoothStep, OutAlways, TypeAlways, PTL DEF Spec

(* As long as no frame is dropped and the client waits for the pipeline to *)
(* empty, blocks are numbered for the file writer one after the other, and *)
(* a scalar message names the frame of its first row, whatever acquisition *)
(* was cut off before and for every chunk size, number of frames, process  *)
(* rank and number of buffers.                                             *)
THEOREM LabelsAreRight == Spec => []Labelled
  BY SmoothAlways, PTL

-----------------------------------------------------------------------------
LEMMA NothingPending ==
  ASSUME NEW n \in Nat \ {0}
  PROVE  Contents(ZeroBlock(n), ZeroBlock(n).filled) = <<>>
<1>1. ZeroBlock(n).filled = 0
  BY ZeroTyped
<1> QED
  BY <1>1 DEF Contents

(* A frame is taken by the log as by the plugin.                           *)
LEMMA LogProcess ==
  ASSUME TypeInv, OutInv, SmoothInv, Labelled, smooth, Process
  PROVE  Log!LogNext
<1>1. /\ ThisFrame = [acq |-> acq, id |-> Seen] /\ Seen \in Nat /\ UnderWay
      /\ Head(ready) = FrameSent(Seen) /\ PlaceInv
  BY BeforeFrame DEF QueueInv, SmoothInv
<1>2. ThisFrame \in [acq : 1 .. MaxAcqs, id : 0 .. MaxFrames - 1]
      /\ fpb \in Nat \ {0}
  BY NewTyped DEF TypeInv, Messages, ThisFrame
<1>3. Log!Take(ThisFrame, Before.written, Before.pending)
  BY AfterFrame
<1>4. /\ Head(ready).id = Seen /\ ThisFrame.id = Seen
      /\ Head(ready).shape = sendShape
  BY <1>1 DEF FrameSent
<1>5. CASE Seen = 0
  <2>1. Since(out) = <<>> /\ BlockFor(Head(ready)) = ZeroBlock(fpb)
    BY <1>4, <1>5 DEF Since, BlockFor
  <2>2. Before.written = <<>> /\ Before.pending = <<>>
    BY <1>2, <2>1, NothingPending, NothingOf, FlattenEmpty DEF Before
  <2>3. Log!Take(ThisFrame, <<>>, <<>>)
    BY <1>3, <2>2
  <2> QED
    BY <1>2, <2>3 DEF Log!LogNext
<1>6. CASE Seen # 0
  <2>1. shape = sendShape
    BY <1>1, <1>6 DEF PlaceInv
  <2>2. Since(out) = out /\ BlockFor(Head(ready)) = block
    BY <1>4, <1>6, <2>1 DEF Since, BlockFor
  <2>3. Before.written = Written /\ Before.pending = Pending
    BY <2>2 DEF Before, Written, Pending, DatasOf
  <2>4. Log!Take(ThisFrame, Written, Pending)
    BY <1>3, <2>3
  <2> QED
    BY <1>2, <2>4 DEF Log!LogNext
<1> QED
  BY <1>5, <1>6

LEMMA LogSteps ==
  ASSUME TypeInv, OutInv, SmoothInv, Labelled, [Next]_vars
  PROVE  [smooth' => Log!LogNext]_(Log!logVars)
<1>1. CASE UNCHANGED <<out, block, config>>
  BY <1>1 DEF Log!logVars, Written, Pending, Contents, config
<1>2. CASE Process
  <2>1. smooth' = smooth
    BY <1>2, ProcessEffect
  <2> QED
    BY <1>2, <2>1, LogProcess
<1>3. ASSUME NEW n \in 1 .. MaxFrames, NEW c \in Chunks, Configure(n, c)
      PROVE  Log!LogNext
  <2>1. Written' = Written
    BY <1>3 DEF Configure, Written, output
  <2>2. Pending' \in {<<>>, Pending}
    <3>1. CASE c = fpb
      BY <1>3, <3>1 DEF Configure, Pending, Contents
    <3>2. CASE c # fpb
      <4>1. block' = ZeroBlock(Fit(c)) /\ Fit(c) \in Nat \ {0}
        BY <1>3, <3>2, FitTyped, ConstantTypes DEF Configure
      <4>2. Pending' = Contents(block', block'.filled)
        BY DEF Pending, Contents
      <4> QED
        BY <4>1, <4>2, NothingPending
    <3> QED
      BY <3>1, <3>2
  <2> QED
    BY <2>1, <2>2 DEF Log!LogNext, Log!Resize
<1>4. CASE Send \/ Receive \/ Drop \/ Stop \/ UNCHANGED vars
  BY <1>1, <1>4 DEF Send, Receive, Drop, Stop, vars, config, memory, output
<1>5. ASSUME NEW s \in Shapes, Start(s) PROVE UNCHANGED <<out, block, config>>
  BY <1>5 DEF Start, memory, output
<1> QED
  BY <1>1, <1>2, <1>3, <1>4, <1>5 DEF Next, ClientNext, Pipeline

(* The data path implements FrameLog: as long as no frame is dropped and   *)
(* the client waits for the pipeline to empty, every step of receiver and  *)
(* plugin maps to a step of the log or to none, so that each frame is      *)
(* written once, in order, in a block of a chunk or the rest of the        *)
(* acquisition.                                                            *)
THEOREM WritesTheLog == Spec => WritesLog
<1>1. Init => Log!LogInit
  <2> SUFFICES ASSUME Init PROVE Log!LogInit
    OBVIOUS
  <2>1. out = <<>> /\ block = ZeroBlock(1)
    BY DEF Init
  <2>2. Written = FlattenSeq(DatasOf(out)) /\ Pending = Contents(block, block.filled)
    BY DEF Written, DatasOf, Pending
  <2>3. 1 \in Nat \ {0}
    OBVIOUS
  <2> QED
    BY <2>1, <2>2, <2>3, NothingOf, NothingPending, FlattenEmpty DEF Log!LogInit
<1>2. TypeInv /\ OutInv /\ SmoothInv /\ Labelled /\ [Next]_vars
        => [smooth' => Log!LogNext]_(Log!logVars)
  BY LogSteps
<1> QED
  BY <1>1, <1>2, SmoothAlways, PTL DEF Spec, WritesLog
=============================================================================
