------------------------ MODULE ControlClientProofs ------------------------
(***************************************************************************)
(* Theorems about ControlClient and ScalarWindows, for every number of     *)
(* channels, tasks and requests, and every fault.                          *)
(***************************************************************************)
EXTENDS ControlClient, SequenceTheorems, TLAPS

-----------------------------------------------------------------------------
(* The copy is read for both limits together.                              *)
SameChannels == DOMAIN cached["low"] = DOMAIN cached["high"]

TypeInv == TypeOK /\ SameChannels

LEMMA Bounds ==
  /\ NumChannels \in Nat /\ MaxValue \in Nat /\ Saved \in Windows
  /\ MaxTrouble \in Nat /\ MaxRestores \in Nat /\ MaxPuts \in Nat
  /\ \A values \in Lists : values \in Seq(Values)
  BY WindowsAssumption, ClientAssumption

LEMMA Queue ==
  ASSUME NEW S, NEW q \in Seq(S), q # <<>>
  PROVE  /\ Head(q) \in S /\ Tail(q) \in Seq(S)
         /\ DOMAIN q = 1 .. Len(q) /\ Len(q) \in Nat \ {0}
         /\ 1 \in DOMAIN q /\ Head(q) = q[1]
         /\ \A i \in DOMAIN Tail(q) : i + 1 \in DOMAIN q /\ Tail(q)[i] = q[i + 1]
  OBVIOUS

LEMMA NoItems == ASSUME NEW S PROVE <<>> \in Seq(S)
  OBVIOUS

LEMMA Appended ==
  ASSUME NEW S, NEW q \in Seq(S), NEW x \in S
  PROVE  /\ Append(q, x) \in Seq(S)
         /\ \A i \in DOMAIN Append(q, x) :
              \/ i \in DOMAIN q /\ Append(q, x)[i] = q[i]
              \/ Append(q, x)[i] = x
  OBVIOUS

(* A list of the copy is a sequence of values, for some of the channels.   *)
LEMMA ListTyped ==
  ASSUME NEW list \in ValueLists
  PROVE  /\ list \in Seq(Values) /\ DOMAIN list = 1 .. Len(list)
         /\ DOMAIN list \subseteq Channels
<1>1. PICK n \in 0 .. NumChannels : list \in [1 .. n -> Values]
  BY DEF ValueLists
<1> QED
  BY <1>1, Bounds DEF Channels

LEMMA ListMade ==
  ASSUME NEW values \in Seq(Values), DOMAIN values \subseteq Channels
  PROVE  values \in ValueLists
<1>1. values \in [1 .. Len(values) -> Values] /\ Len(values) \in Nat
  OBVIOUS
<1>2. Len(values) <= NumChannels
  <2>1. CASE Len(values) = 0
    BY <2>1, Bounds
  <2>2. CASE Len(values) # 0
    <3>1. Len(values) \in DOMAIN values
      BY <1>1, <2>2
    <3> QED
      BY <3>1, Bounds DEF Channels
  <2> QED
    BY <2>1, <2>2
<1>3. Len(values) \in 0 .. NumChannels
  BY <1>1, <1>2, Bounds
<1> QED
  BY <1>1, <1>3 DEF ValueLists

(* Reading the windows back gives two lists for the same channels, and     *)
(* the windows themselves when every channel can be read.                  *)
LEMMA ReadBackTyped ==
  ASSUME NEW w \in Windows, NEW read \in Readings
  PROVE  /\ ReadBack(w, read) \in [Limits -> ValueLists]
         /\ DOMAIN ReadBack(w, read)["low"] = DOMAIN ReadBack(w, read)["high"]
<1>1. PICK n \in 0 .. NumChannels : read \in [1 .. n -> Channels]
  BY DEF Readings
<1>2. w \in [Limits -> [Channels -> Values]]
  BY DEF Windows
<1>3. ASSUME NEW limit \in Limits
      PROVE  [i \in DOMAIN read |-> w[limit][read[i]]] \in ValueLists
  <2>1. [i \in 1 .. n |-> w[limit][read[i]]] \in [1 .. n -> Values]
    BY <1>1, <1>2
  <2> QED
    BY <1>1, <2>1 DEF ValueLists
<1> QED
  BY <1>3 DEF ReadBack, Limits

LEMMA ReadBackAll ==
  ASSUME NEW w \in Windows
  PROVE  ReadBack(w, Everything) = w
  BY DEF ReadBack, Everything, Windows

(* What a list of one limit leaves in the detector are windows.            *)
LEMMA WrittenTyped ==
  ASSUME WindowsTypeOK, SameChannels, NEW limit \in Limits,
         NEW values \in Seq(Values), Len(values) = Len(cached[limit]),
         NEW refused,
         {chan \in DOMAIN values : Inverted(Asked(limit, values, chan))}
           \subseteq refused
  PROVE  Written(limit, values, refused) \in Windows
<1>1. /\ \A l \in Limits : DOMAIN cached[l] = DOMAIN values
      /\ DOMAIN values \subseteq Channels
      /\ \A l \in Limits : cached[l] \in Seq(Values)
  <2>1. \A l \in Limits : /\ cached[l] \in Seq(Values)
                          /\ DOMAIN cached[l] = 1 .. Len(cached[l])
                          /\ DOMAIN cached[l] \subseteq Channels
    BY ListTyped DEF WindowsTypeOK
  <2>2. DOMAIN values = 1 .. Len(values)
    OBVIOUS
  <2>3. DOMAIN cached[limit] = DOMAIN values
    BY <2>1, <2>2
  <2>4. \A l \in Limits : DOMAIN cached[l] = DOMAIN cached[limit]
    BY DEF Limits, SameChannels
  <2> QED
    BY <2>1, <2>3, <2>4
<1>2. \A chan \in DOMAIN values, l \in Limits : Asked(limit, values, chan)[l] \in Values
  BY <1>1 DEF Asked
<1>3. window \in [Limits -> [Channels -> Values]]
  BY DEF WindowsTypeOK, Windows
<1>4. Written(limit, values, refused) \in [Limits -> [Channels -> Values]]
  BY <1>2, <1>3 DEF Written
<1>5. ASSUME NEW chan \in Channels
      PROVE  Written(limit, values, refused)["low"][chan]
               <= Written(limit, values, refused)["high"][chan]
  <2>1. CASE chan \in DOMAIN values \ refused
    <3>1. ~Inverted(Asked(limit, values, chan))
      BY <2>1
    <3>2. \A l \in Limits :
            Written(limit, values, refused)[l][chan] = Asked(limit, values, chan)[l]
      BY <2>1 DEF Written
    <3>3. /\ Asked(limit, values, chan)["low"] \in Values
          /\ Asked(limit, values, chan)["high"] \in Values
      BY <1>2, <2>1 DEF Limits
    <3>4. Asked(limit, values, chan)["low"] <= Asked(limit, values, chan)["high"]
      BY <3>1, <3>3, Bounds DEF Inverted, Values
    <3> QED
      BY <3>2, <3>4 DEF Limits
  <2>2. CASE chan \notin DOMAIN values \ refused
    <3>1. \A l \in Limits : Written(limit, values, refused)[l][chan] = window[l][chan]
      BY <2>2 DEF Written
    <3> QED
      BY <3>1 DEF Limits, WindowsTypeOK, Windows
  <2> QED
    BY <2>1, <2>2
<1> QED
  BY <1>4, <1>5 DEF Windows

HIDE DEF Windows, ReadBack, Readings, ValueLists

LEMMA CountTyped ==
  ASSUME trouble \in 0 .. MaxTrouble, NEW failed \in BOOLEAN, Count(failed)
  PROVE  trouble' \in 0 .. MaxTrouble
  BY Bounds DEF Count, Trouble

LEMMA ReadTyped ==
  ASSUME WindowsTypeOK, NEW w \in Windows, ReadSCAParams(w)
  PROVE  /\ cached' \in [Limits -> ValueLists] /\ SameChannels'
         /\ acked' \in BOOLEAN /\ readable' \in BOOLEAN
         /\ trouble' \in 0 .. MaxTrouble
         /\ acked' => cached' = w
         /\ readable' => readable /\ acked'
<1>1. PICK read \in Readings, other \in BOOLEAN :
        /\ Count(read # Everything \/ other)
        /\ cached' = ReadBack(w, read)
        /\ acked' = ~(read # Everything \/ other)
        /\ readable' = (readable /\ ~(read # Everything \/ other))
  BY DEF ReadSCAParams
<1>2. trouble' \in 0 .. MaxTrouble
  BY <1>1, CountTyped DEF WindowsTypeOK
<1>3. cached' \in [Limits -> ValueLists] /\ SameChannels'
  BY <1>1, ReadBackTyped DEF SameChannels
<1>4. acked' => cached' = w
  BY <1>1, ReadBackAll
<1> QED
  BY <1>1, <1>2, <1>3, <1>4 DEF WindowsTypeOK

-----------------------------------------------------------------------------
(* What the commands do to the state of the server.                        *)
ServerInv == WindowsTypeOK /\ SameChannels

(* As long as the parameters could be read back, the copy is what was      *)
(* acknowledged last, and after an acknowledgement the detector has it.    *)
CopyKept ==
  readable => /\ cached = promised
              /\ \A limit \in Limits : DOMAIN cached[limit] = Channels
              /\ acked => window = promised

LEMMA SetLimitsKeeps ==
  ASSUME ServerInv, CopyKept, NEW limit \in Limits, NEW values \in Seq(Values),
         SetLimits(limit, values)
  PROVE  ServerInv' /\ CopyKept'
<1>1. CASE Refuse
  BY <1>1 DEF Refuse, ServerInv, WindowsTypeOK, SameChannels, CopyKept, SetLimits
<1>2. CASE ~Refuse
  <2>1. PICK broken \in SUBSET DOMAIN values :
          /\ window' = Written(limit, values, Refused(limit, values, broken))
          /\ \/ /\ Refused(limit, values, broken) = {}
                /\ ReadSCAParams(window')
                /\ promised' = IF acked' THEN [promised EXCEPT ![limit] = values]
                               ELSE promised
             \/ /\ Refused(limit, values, broken) # {}
                /\ Count(broken # {})
                /\ acked' = FALSE
                /\ UNCHANGED <<cached, readable, promised>>
    BY <1>2 DEF SetLimits
  <2>2. Len(values) = Len(cached[limit]) /\ UNCHANGED <<attached, restores>>
    BY <1>2 DEF SetLimits
  <2> DEFINE refused == Refused(limit, values, broken)
  <2>3. window' \in Windows
    BY <2>1, <2>2, WrittenTyped DEF ServerInv, Refused
  <2>4. CASE refused # {}
    <3>1. Count(broken # {}) /\ acked' = FALSE /\ UNCHANGED <<cached, readable, promised>>
      BY <2>1, <2>4
    <3>2. trouble' \in 0 .. MaxTrouble
      BY <3>1, CountTyped DEF ServerInv, WindowsTypeOK
    <3> QED
      BY <2>2, <2>3, <3>1, <3>2
         DEF ServerInv, WindowsTypeOK, SameChannels, CopyKept
  <2>5. CASE refused = {}
    <3>1. /\ cached' \in [Limits -> ValueLists] /\ SameChannels'
          /\ acked' \in BOOLEAN /\ readable' \in BOOLEAN
          /\ trouble' \in 0 .. MaxTrouble
          /\ acked' => cached' = window'
          /\ readable' => readable /\ acked'
      BY <2>1, <2>3, <2>5, ReadTyped DEF ServerInv
    <3>2. promised' = IF acked' THEN [promised EXCEPT ![limit] = values] ELSE promised
      BY <2>1, <2>5
    <3>3. DOMAIN values = DOMAIN cached[limit] /\ values \in ValueLists
      <4>1. cached[limit] \in ValueLists
        BY DEF ServerInv, WindowsTypeOK
      <4>2. DOMAIN values = 1 .. Len(values)
        OBVIOUS
      <4> QED
        BY <2>2, <4>1, <4>2, ListTyped, ListMade
    <3>4. promised' \in [Limits -> ValueLists]
      BY <3>2, <3>3 DEF ServerInv, WindowsTypeOK
    <3>5. ServerInv'
      BY <2>2, <2>3, <3>1, <3>4 DEF ServerInv, WindowsTypeOK
    <3>6. ASSUME readable' PROVE window' = promised'
      <4>1. readable /\ acked' /\ cached = promised /\ cached' = window'
        BY <3>1, <3>6 DEF CopyKept
      <4>2. promised' = [cached EXCEPT ![limit] = values]
        BY <3>2, <4>1
      <4>3. window' = Written(limit, values, {})
        BY <2>1, <2>5
      <4>4. /\ \A l \in Limits : DOMAIN cached[l] = Channels
            /\ DOMAIN values = Channels
        BY <3>3, <4>1 DEF CopyKept
      <4>5. cached \in [Limits -> ValueLists]
        BY DEF ServerInv, WindowsTypeOK
      <4>6. ASSUME NEW l \in Limits PROVE window'[l] = promised'[l]
        <5>1. window'[l] =
                [chan \in Channels |-> IF l = limit THEN values[chan] ELSE cached[l][chan]]
          BY <4>3, <4>4 DEF Written, Asked
        <5>2. CASE l = limit
          <6>1. promised'[l] = values
            BY <4>2, <4>5, <5>2
          <6> QED
            BY <4>4, <5>1, <5>2, <6>1
        <5>3. CASE l # limit
          <6>1. promised'[l] = cached[l] /\ cached[l] \in Seq(Values)
            BY <4>2, <4>5, <5>3, ListTyped
          <6> QED
            BY <4>4, <5>1, <5>3, <6>1
        <5> QED
          BY <5>2, <5>3
      <4>7. window' = [l \in Limits |-> window'[l]] /\ promised' = [l \in Limits |-> promised'[l]]
        BY <2>3, <3>4 DEF Windows
      <4> QED
        BY <4>6, <4>7
    <3>7. \A l \in Limits : DOMAIN window'[l] = Channels
      BY <2>3 DEF Windows
    <3> QED
      BY <3>1, <3>5, <3>6, <3>7 DEF CopyKept
  <2> QED
    BY <2>4, <2>5
<1> QED
  BY <1>1, <1>2

LEMMA RestoreKeeps ==
  ASSUME ServerInv, CopyKept, Restore
  PROVE  ServerInv' /\ CopyKept'
<1>1. window' = Saved /\ Saved \in Windows /\ attached' = TRUE
  BY Bounds DEF Restore
<1>2. restores' \in 0 .. MaxRestores
  BY Bounds DEF Restore, ServerInv, WindowsTypeOK
<1>3. promised' = IF acked' THEN Saved ELSE promised
  BY DEF Restore
<1>4. CASE ReadSCAParams(window')
  <2>1. /\ cached' \in [Limits -> ValueLists] /\ SameChannels'
        /\ acked' \in BOOLEAN /\ readable' \in BOOLEAN
        /\ trouble' \in 0 .. MaxTrouble
        /\ acked' => cached' = window'
        /\ readable' => readable /\ acked'
    BY <1>1, <1>4, ReadTyped DEF ServerInv
  <2>2. promised' \in [Limits -> ValueLists]
    BY <1>1, <1>3, <2>1 DEF ServerInv, WindowsTypeOK
  <2>3. \A l \in Limits : DOMAIN window'[l] = Channels
    BY <1>1 DEF Windows
  <2> QED
    BY <1>1, <1>2, <1>3, <2>1, <2>2, <2>3 DEF ServerInv, WindowsTypeOK, CopyKept
<1>5. CASE ~ReadSCAParams(window')
  <2>1. acked' = FALSE /\ readable' = FALSE /\ UNCHANGED cached /\ Trouble
    BY <1>5 DEF Restore
  <2>2. trouble' \in 0 .. MaxTrouble
    BY <2>1, Bounds DEF Trouble, ServerInv, WindowsTypeOK
  <2> QED
    BY <1>1, <1>2, <1>3, <2>1, <2>2
       DEF ServerInv, WindowsTypeOK, SameChannels, CopyKept
<1> QED
  BY <1>4, <1>5

LEMMA DetachKeeps ==
  ASSUME ServerInv, CopyKept, Detach
  PROVE  ServerInv' /\ CopyKept'
<1>1. trouble' \in 0 .. MaxTrouble
  BY Bounds DEF Detach, Trouble, ServerInv, WindowsTypeOK
<1> QED
  BY <1>1 DEF Detach, ServerInv, WindowsTypeOK, SameChannels, CopyKept

(* A command of the client that counts as trouble changes nothing else of  *)
(* the server.                                                             *)
LEMMA Untouched ==
  ASSUME ServerInv, CopyKept, UNCHANGED windowVars,
         trouble' \in 0 .. MaxTrouble
  PROVE  ServerInv' /\ CopyKept'
  BY DEF ServerInv, WindowsTypeOK, SameChannels, CopyKept, windowVars

-----------------------------------------------------------------------------
(* The state of the client.                                                *)
ClientTyped ==
  /\ connected \in BOOLEAN /\ polling \in BOOLEAN
  /\ wire \in Seq(Message) /\ replies \in Seq(Reply)
  /\ sendBuffer \subseteq Message /\ recvBuffer \subseteq Reply
  /\ waiting \subseteq Wait
  /\ tree \in [Limits -> Seq(Values)]
  /\ puts \in 0 .. MaxPuts

(* An id that is still in the send buffer stands for the same request      *)
(* wherever it is found.                                                   *)
OneRequest ==
  /\ \A m, n \in sendBuffer : m.id = n.id => m = n
  /\ \A i \in DOMAIN wire, m \in sendBuffer : wire[i].id = m.id => wire[i] = m
  /\ \A i \in DOMAIN replies, m \in sendBuffer :
       replies[i].to.id = m.id => replies[i].to = m
  /\ \A r \in recvBuffer : r.to \in sendBuffer
  /\ \A r, q \in recvBuffer : r.to.id = q.to.id => r = q
  /\ \A w \in waiting : w.msg \in sendBuffer
  /\ \A v, w \in waiting : v.msg.id = w.msg.id => v = w

ClientInv == ClientTyped /\ OneRequest

IInv == ServerInv /\ CopyKept /\ ClientInv

LEMMA Initially == Init => IInv
<1> SUFFICES ASSUME Init PROVE IInv
  OBVIOUS
<1>1. [chan \in Channels |-> 0] \in ValueLists
  <2>1. [chan \in Channels |-> 0] \in [1 .. NumChannels -> Values]
    BY Bounds DEF Channels, Values
  <2> QED
    BY <2>1, Bounds DEF ValueLists
<1>2. ServerInv
  <2>1. cached = [limit \in Limits |-> [chan \in Channels |-> 0]] /\ promised = cached
    BY DEF Init, WindowsInit
  <2>2. cached \in [Limits -> ValueLists] /\ SameChannels
    BY <1>1, <2>1 DEF SameChannels, Limits
  <2>3. trouble \in 0 .. MaxTrouble /\ restores \in 0 .. MaxRestores
    BY Bounds DEF Init, WindowsInit
  <2> QED
    BY <2>1, <2>2, <2>3, Bounds DEF Init, WindowsInit, ServerInv, WindowsTypeOK
<1>3. CopyKept
  BY DEF Init, WindowsInit, CopyKept
<1>4. ClientTyped
  <2>1. wire \in Seq(Message) /\ replies \in Seq(Reply)
    BY DEF Init
  <2>2. sendBuffer \subseteq Message /\ recvBuffer \subseteq Reply /\ waiting \subseteq Wait
    BY DEF Init
  <2>3. tree \in [Limits -> Seq(Values)]
    BY DEF Init, Nothing
  <2>4. puts \in 0 .. MaxPuts
    BY Bounds DEF Init
  <2> QED
    BY <2>1, <2>2, <2>3, <2>4 DEF Init, ClientTyped
<1>5. OneRequest
  BY DEF Init, OneRequest
<1> QED
  BY <1>2, <1>3, <1>4, <1>5 DEF IInv, ClientInv

HIDE DEF ServerInv, CopyKept

(* The next id is one that nothing refers to.                              *)
LEMMA FreshId ==
  ASSUME FreeIds # {}
  PROVE  /\ GetId \in Ids
         /\ \A i \in DOMAIN wire : wire[i].id # GetId
         /\ \A i \in DOMAIN replies : replies[i].to.id # GetId
         /\ \A m \in sendBuffer : m.id # GetId
<1>1. GetId \in FreeIds
  BY DEF GetId
<1> QED
  BY <1>1 DEF FreeIds, OnWire, OnWayBack, Buffered

LEMMA SendKeeps ==
  ASSUME ClientInv, NEW task \in Tasks, NEW ask \in Limits \union {"request"},
         NEW values \in Seq(Values), NEW element \in BOOLEAN,
         Send(task, ask, values, element), puts' \in 0 .. MaxPuts
  PROVE  ClientInv'
<1> DEFINE msg == [id |-> GetId, ask |-> ask, values |-> values]
           wait == [task |-> task, msg |-> msg, element |-> element]
<1>1. /\ wire' = Append(wire, msg)
      /\ sendBuffer' = sendBuffer \union {msg}
      /\ waiting' = waiting \union {wait}
      /\ FreeIds # {}
      /\ UNCHANGED <<connected, replies, recvBuffer, tree, polling>>
  BY DEF Send
<1>2. msg \in Message /\ msg.id = GetId
  BY <1>1, FreshId DEF Message
<1>3. wait \in Wait /\ wait.msg = msg
  BY <1>2 DEF Wait
<1> HIDE DEF msg, wait
<1>4. /\ wire' \in Seq(Message)
      /\ \A i \in DOMAIN wire' : (i \in DOMAIN wire /\ wire'[i] = wire[i]) \/ wire'[i] = msg
  BY <1>1, <1>2, Appended DEF ClientInv, ClientTyped
<1>5. ClientTyped'
  BY <1>1, <1>2, <1>3, <1>4 DEF ClientInv, ClientTyped
<1>6. OneRequest'
  <2>1. \A m, n \in sendBuffer' : m.id = n.id => m = n
    BY <1>1, <1>2, FreshId DEF ClientInv, OneRequest
  <2>2. \A i \in DOMAIN wire', m \in sendBuffer' : wire'[i].id = m.id => wire'[i] = m
    BY <1>1, <1>2, <1>4, FreshId DEF ClientInv, OneRequest
  <2>3. \A i \in DOMAIN replies', m \in sendBuffer' :
          replies'[i].to.id = m.id => replies'[i].to = m
    BY <1>1, <1>2, FreshId DEF ClientInv, OneRequest
  <2>4. \A r \in recvBuffer' : r.to \in sendBuffer'
    BY <1>1 DEF ClientInv, OneRequest
  <2>5. \A r, q \in recvBuffer' : r.to.id = q.to.id => r = q
    BY <1>1 DEF ClientInv, OneRequest
  <2>6. \A w \in waiting' : w.msg \in sendBuffer'
    BY <1>1, <1>3 DEF ClientInv, OneRequest
  <2>7. \A v, w \in waiting' : v.msg.id = w.msg.id => v = w
    BY <1>1, <1>2, <1>3, FreshId DEF ClientInv, OneRequest
  <2> QED
    BY <2>1, <2>2, <2>3, <2>4, <2>5, <2>6, <2>7 DEF OneRequest
<1> QED
  BY <1>5, <1>6 DEF ClientInv

(* A task that has its answer, or gives up, takes its request out of the   *)
(* send buffer, and no reply to it is left.                                *)
LEMMA ForgetKeeps ==
  ASSUME ClientInv, NEW w \in waiting, Forget(w),
         recvBuffer' \subseteq recvBuffer,
         \A r \in recvBuffer' : r.to.id # w.msg.id,
         tree' \in [Limits -> Seq(Values)],
         UNCHANGED <<connected, polling, wire, replies, puts>>
  PROVE  ClientInv'
<1>1. ClientTyped'
  BY DEF ClientInv, ClientTyped, Forget
<1>2. /\ sendBuffer' \subseteq sendBuffer
      /\ \A m \in sendBuffer : m.id # w.msg.id => m \in sendBuffer'
      /\ waiting' \subseteq waiting /\ w \notin waiting'
  BY DEF Forget
<1>3. \A r \in recvBuffer' : r.to \in sendBuffer'
  BY <1>2 DEF ClientInv, OneRequest
<1>4. \A v \in waiting' : v.msg \in sendBuffer'
  BY <1>2 DEF ClientInv, OneRequest
<1>5. OneRequest'
  BY <1>2, <1>3, <1>4 DEF ClientInv, OneRequest
<1> QED
  BY <1>1, <1>5 DEF ClientInv

LEMMA WakeKeeps ==
  ASSUME ClientInv, NEW task \in Tasks, Wake(task)
  PROVE  ClientInv'
<1>1. PICK w \in waiting, reply \in recvBuffer :
        /\ reply.to.id = w.msg.id
        /\ tree' = TreeAfter(w, reply)
        /\ recvBuffer' = recvBuffer \ {reply}
        /\ Forget(w)
        /\ UNCHANGED <<connected, wire, replies, polling, puts>>
  BY DEF Wake
<1>2. w \in Wait /\ reply \in Reply
  BY DEF ClientInv, ClientTyped
<1>3. tree' \in [Limits -> Seq(Values)]
  <2>1. tree \in [Limits -> Seq(Values)]
    BY DEF ClientInv, ClientTyped
  <2>2. w.msg.values \in Seq(Values)
    BY <1>2 DEF Wait, Message
  <2>3. \A limit \in Limits : reply.shows[limit] \in Seq(Values)
    BY <1>2, ListTyped DEF Reply
  <2> QED
    BY <1>1, <2>1, <2>2, <2>3 DEF TreeAfter
<1>4. \A r \in recvBuffer' : r.to.id # w.msg.id
  BY <1>1 DEF ClientInv, OneRequest
<1> QED
  BY <1>1, <1>3, <1>4, ForgetKeeps

LEMMA GiveUpKeeps ==
  ASSUME ClientInv, NEW w \in waiting, GiveUp(w)
  PROVE  ClientInv' /\ UNCHANGED windowVars
<1>1. /\ Forget(w)
      /\ \A r \in recvBuffer' : r.to.id # w.msg.id
      /\ UNCHANGED <<windowVars, connected, wire, replies, recvBuffer, tree, polling, puts>>
  BY DEF GiveUp, Kept
<1>2. tree' \in [Limits -> Seq(Values)]
  BY <1>1 DEF ClientInv, ClientTyped
<1> QED
  BY <1>1, <1>2, ForgetKeeps

LEMMA ReceiveKeeps ==
  ASSUME ClientInv, Receive
  PROVE  ClientInv'
<1> DEFINE reply == Head(replies)
<1>1. /\ replies # <<>> /\ replies \in Seq(Reply)
      /\ replies' = Tail(replies)
      /\ recvBuffer' = IF Awaited(reply) THEN Stored(reply) ELSE recvBuffer
      /\ UNCHANGED <<connected, wire, sendBuffer, waiting, tree, polling, puts>>
  BY DEF Receive, ClientInv, ClientTyped
<1>2. /\ reply \in Reply /\ Tail(replies) \in Seq(Reply)
      /\ 1 \in DOMAIN replies /\ reply = replies[1]
      /\ \A i \in DOMAIN Tail(replies) :
           i + 1 \in DOMAIN replies /\ Tail(replies)[i] = replies[i + 1]
  BY <1>1, Queue
<1> HIDE DEF reply
<1>3. ClientTyped'
  BY <1>1, <1>2 DEF ClientInv, ClientTyped, Stored
<1>4. /\ \A r \in recvBuffer' : r.to \in sendBuffer
      /\ \A r, q \in recvBuffer' : r.to.id = q.to.id => r = q
  <2>1. CASE Awaited(reply)
    <3>1. PICK m \in sendBuffer : m.id = reply.to.id
      BY <2>1 DEF Awaited, Buffered
    <3>2. reply.to = m
      BY <1>2, <3>1 DEF ClientInv, OneRequest
    <3> QED
      BY <1>1, <2>1, <3>1, <3>2 DEF Stored, ClientInv, OneRequest
  <2>2. CASE ~Awaited(reply)
    BY <1>1, <2>2 DEF ClientInv, OneRequest
  <2> QED
    BY <2>1, <2>2
<1>5. \A i \in DOMAIN replies', m \in sendBuffer :
        replies'[i].to.id = m.id => replies'[i].to = m
  BY <1>1, <1>2 DEF ClientInv, OneRequest
<1>6. OneRequest'
  BY <1>1, <1>4, <1>5 DEF ClientInv, OneRequest
<1> QED
  BY <1>3, <1>6 DEF ClientInv

LEMMA ServeKeeps ==
  ASSUME IInv, Serve
  PROVE  IInv'
<1> DEFINE msg == Head(wire)
<1>1. /\ wire # <<>> /\ wire \in Seq(Message) /\ replies \in Seq(Reply)
      /\ wire' = Tail(wire)
      /\ \/ msg.ask = "request" /\ UNCHANGED serverVars
         \/ msg.ask # "request" /\ SetLimits(msg.ask, msg.values)
      /\ replies' = IF connected THEN Append(replies, Answer(msg)) ELSE replies
      /\ UNCHANGED <<connected, sendBuffer, recvBuffer, waiting, tree, polling, puts>>
  BY DEF Serve, IInv, ClientInv, ClientTyped
<1>2. /\ msg \in Message /\ Tail(wire) \in Seq(Message)
      /\ 1 \in DOMAIN wire /\ msg = wire[1]
      /\ \A i \in DOMAIN Tail(wire) : i + 1 \in DOMAIN wire /\ Tail(wire)[i] = wire[i + 1]
  BY <1>1, Queue
<1> HIDE DEF msg
<1>3. ServerInv' /\ CopyKept'
  <2>1. CASE msg.ask = "request"
    <3>1. UNCHANGED windowVars /\ trouble' = trouble
      BY <1>1, <2>1 DEF serverVars
    <3>2. trouble' \in 0 .. MaxTrouble
      BY <3>1 DEF IInv, ServerInv, WindowsTypeOK
    <3> QED
      BY <3>1, <3>2, Untouched DEF IInv
  <2>2. CASE msg.ask # "request"
    <3>1. msg.ask \in Limits /\ msg.values \in Seq(Values)
      BY <1>2, <2>2 DEF Message
    <3> QED
      BY <1>1, <2>2, <3>1, SetLimitsKeeps DEF IInv
  <2> QED
    BY <2>1, <2>2
<1>4. Answer(msg) \in Reply /\ Answer(msg).to = msg
  <2>1. <<>> \in ValueLists
    <3>1. <<>> \in [1 .. 0 -> Values] /\ 0 \in 0 .. NumChannels
      BY Bounds
    <3> QED
      BY <3>1 DEF ValueLists
  <2>2. cached \in [Limits -> ValueLists] /\ Nothing \in [Limits -> ValueLists]
    BY <2>1 DEF IInv, ServerInv, WindowsTypeOK, Nothing
  <2>3. acked' \in BOOLEAN
    BY <1>3 DEF ServerInv, WindowsTypeOK
  <2> QED
    BY <1>2, <2>2, <2>3 DEF Answer, Reply
<1>5. /\ replies' \in Seq(Reply)
      /\ \A i \in DOMAIN replies' :
           (i \in DOMAIN replies /\ replies'[i] = replies[i]) \/ replies'[i].to = msg
  <2>1. CASE connected
    BY <1>1, <1>4, <2>1, Appended
  <2>2. CASE ~connected
    BY <1>1, <2>2
  <2> QED
    BY <2>1, <2>2
<1>6. ClientTyped'
  BY <1>1, <1>2, <1>5 DEF IInv, ClientInv, ClientTyped
<1>7. \A i \in DOMAIN wire', m \in sendBuffer' : wire'[i].id = m.id => wire'[i] = m
  BY <1>1, <1>2 DEF IInv, ClientInv, OneRequest
<1>8. \A i \in DOMAIN replies', m \in sendBuffer' :
        replies'[i].to.id = m.id => replies'[i].to = m
  BY <1>1, <1>2, <1>5 DEF IInv, ClientInv, OneRequest
<1>9. OneRequest'
  BY <1>1, <1>7, <1>8 DEF IInv, ClientInv, OneRequest
<1> QED
  BY <1>3, <1>6, <1>9 DEF IInv, ClientInv

(* The other steps take messages away or leave them alone.                 *)
LEMMA OthersKeep ==
  ASSUME ClientInv,
         wire' \in {wire, <<>>}, replies' \in {replies, <<>>},
         waiting' \subseteq waiting,
         connected' \in BOOLEAN, polling' \in BOOLEAN,
         UNCHANGED <<sendBuffer, recvBuffer, tree, puts>>
  PROVE  ClientInv'
<1>1. wire' \in Seq(Message) /\ replies' \in Seq(Reply)
  BY NoItems DEF ClientInv, ClientTyped
<1>2. ClientTyped'
  BY <1>1 DEF ClientInv, ClientTyped
<1>3. /\ \A i \in DOMAIN wire' : i \in DOMAIN wire /\ wire'[i] = wire[i]
      /\ \A i \in DOMAIN replies' : i \in DOMAIN replies /\ replies'[i] = replies[i]
  OBVIOUS
<1>4. OneRequest'
  BY <1>3 DEF ClientInv, OneRequest
<1> QED
  BY <1>2, <1>4 DEF ClientInv

LEMMA TroubleTyped ==
  ASSUME ServerInv, Trouble
  PROVE  trouble' \in 0 .. MaxTrouble
  BY Bounds DEF Trouble, ServerInv, WindowsTypeOK

LEMMA QuietServer ==
  ASSUME ServerInv, CopyKept, UNCHANGED serverVars
  PROVE  ServerInv' /\ CopyKept'
<1>1. UNCHANGED windowVars /\ trouble' \in 0 .. MaxTrouble
  BY DEF serverVars, ServerInv, WindowsTypeOK
<1> QED
  BY <1>1, Untouched

(* What a user sends is a list of values.                                  *)
LEMMA UserSends ==
  ASSUME IInv, NEW user \in Users, NEW limit \in Limits,
         Put(user, limit) \/ PutElement(user, limit) \/ ReadConfig(user)
  PROVE  IInv'
<1>1. UserCalls /\ user \in Tasks
  BY DEF Put, PutElement, ReadConfig, Tasks
<1>2. puts' \in 0 .. MaxPuts
  BY <1>1, Bounds DEF UserCalls, IInv, ClientInv, ClientTyped
<1>3. PICK ask \in Limits \union {"request"}, values \in Seq(Values), element \in BOOLEAN :
        Send(user, ask, values, element)
  <2>1. CASE Put(user, limit)
    BY <2>1, Bounds DEF Put
  <2>2. CASE PutElement(user, limit)
    <3>1. PICK i \in DOMAIN tree[limit], value \in Values :
            Send(user, limit, [tree[limit] EXCEPT ![i] = value], TRUE)
      BY <2>2 DEF PutElement
    <3>2. tree[limit] \in Seq(Values)
      BY DEF IInv, ClientInv, ClientTyped
    <3>3. [tree[limit] EXCEPT ![i] = value] \in Seq(Values)
      BY <3>2
    <3> QED
      BY <3>1, <3>3
  <2>3. CASE ReadConfig(user)
    BY <2>3, NoItems DEF ReadConfig
  <2> QED
    BY <2>1, <2>2, <2>3
<1>4. UNCHANGED serverVars
  BY <1>3 DEF Send
<1> QED
  BY <1>1, <1>2, <1>3, <1>4, SendKeeps, QuietServer DEF IInv

LEMMA Step == IInv /\ [Next]_vars => IInv'
<1> SUFFICES ASSUME IInv, [Next]_vars PROVE IInv'
  OBVIOUS
<1>1. ASSUME NEW user \in Users, NEW limit \in Limits,
             Put(user, limit) \/ PutElement(user, limit)
      PROVE  IInv'
  BY <1>1, UserSends
<1>2. ASSUME NEW user \in Users, ReadConfig(user) PROVE IInv'
  <2>1. "low" \in Limits
    BY DEF Limits
  <2> QED
    BY <1>2, <2>1, UserSends
<1>3. ASSUME Poll PROVE IInv'
  <2>1. Poller \in Tasks /\ puts' \in 0 .. MaxPuts /\ UNCHANGED serverVars
    BY <1>3 DEF Poll, Send, Tasks, IInv, ClientInv, ClientTyped
  <2>2. Send(Poller, "request", <<>>, FALSE) /\ <<>> \in Seq(Values)
    BY <1>3, NoItems DEF Poll
  <2> QED
    BY <2>1, <2>2, SendKeeps, QuietServer DEF IInv
<1>4. ASSUME Receive PROVE IInv'
  BY <1>4, ReceiveKeeps, QuietServer DEF IInv, Receive
<1>5. ASSUME NEW task \in Tasks, Wake(task) PROVE IInv'
  BY <1>5, WakeKeeps, QuietServer DEF IInv, Wake
<1>6. ASSUME NEW task \in Tasks, Late(task) PROVE IInv'
  BY <1>6, GiveUpKeeps, TroubleTyped, Untouched DEF IInv, Late
<1>7. ASSUME NEW task \in Tasks, Lost(task) PROVE IInv'
  <2>1. trouble' \in 0 .. MaxTrouble
    BY <1>7 DEF Lost, IInv, ServerInv, WindowsTypeOK
  <2> QED
    BY <1>7, <2>1, GiveUpKeeps, Untouched DEF IInv, Lost
<1>8. ASSUME Stop \/ Start \/ Reconnect \/ Drop PROVE ClientInv'
  <2>1. /\ wire' \in {wire, <<>>} /\ replies' \in {replies, <<>>}
        /\ waiting' \subseteq waiting
        /\ UNCHANGED <<sendBuffer, recvBuffer, tree, puts>>
    BY <1>8 DEF Stop, Start, Reconnect, Drop
  <2>2. connected' \in BOOLEAN /\ polling' \in BOOLEAN
    BY <1>8 DEF Stop, Start, Reconnect, Drop, IInv, ClientInv, ClientTyped
  <2> QED
    BY <2>1, <2>2, OthersKeep DEF IInv
<1>9. ASSUME Stop \/ Drop PROVE IInv'
  BY <1>8, <1>9, TroubleTyped, Untouched DEF IInv, Stop, Drop
<1>10. ASSUME Start \/ Reconnect PROVE IInv'
  BY <1>8, <1>10, QuietServer DEF IInv, Start, Reconnect
<1>11. ASSUME UNCHANGED clientVars PROVE ClientInv'
  <2>1. UNCHANGED <<connected, wire, replies, sendBuffer, recvBuffer, waiting,
                    tree, polling, puts>>
    BY <1>11 DEF clientVars
  <2>2. connected' \in BOOLEAN /\ polling' \in BOOLEAN
    BY <2>1 DEF IInv, ClientInv, ClientTyped
  <2> QED
    BY <2>1, <2>2, OthersKeep DEF IInv
<1>12. ASSUME Commands PROVE IInv'
  BY <1>11, <1>12, RestoreKeeps, DetachKeeps DEF IInv, Commands
<1>13. ASSUME UNCHANGED vars PROVE IInv'
  BY <1>11, <1>13, QuietServer DEF IInv, vars
<1> QED
  BY <1>1, <1>2, <1>3, <1>4, <1>5, <1>6, <1>7, <1>9, <1>10, <1>12, <1>13,
     ServeKeeps DEF Next

THEOREM Invariant == Spec => []IInv
  BY Initially, Step, PTL DEF Spec

-----------------------------------------------------------------------------
(* Every variable keeps its type: no window of the detector is ever        *)
(* inverted, whichever limits are put and read in which order.             *)
THEOREM TypeCorrect == Spec => []TypeOK
<1>1. IInv => TypeOK
  BY DEF IInv, ServerInv, ClientInv, ClientTyped, TypeOK
<1> QED
  BY <1>1, Invariant, PTL

(* A task gets the answer to its own request.                              *)
THEOREM AnswersCorrect == Spec => []AnswersMatch
<1>1. IInv => AnswersMatch
  BY DEF IInv, ClientInv, OneRequest, AnswersMatch
<1> QED
  BY <1>1, Invariant, PTL

(* What was acknowledged is in the detector.                               *)
THEOREM AckedHeld == Spec => []AckedWindowsHold
<1>1. IInv => AckedWindowsHold
  BY DEF IInv, CopyKept, AckedWindowsHold
<1> QED
  BY <1>1, Invariant, PTL
=============================================================================
