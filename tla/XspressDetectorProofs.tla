----------------------- MODULE XspressDetectorProofs -----------------------
(***************************************************************************)
(* Theorems about XspressDetector, for every set of requests, any number of*)
(* cards and any failures of the library.                                  *)
(***************************************************************************)
EXTENDS MCXspressDetector, TLAPS

-----------------------------------------------------------------------------
(***************************************************************************)
(* The settings and the connection.  The steps that can disturb what the   *)
(* reconnect flag says are those that change it, a setting or a connection.*)
(***************************************************************************)
Linked == <<connected, reconnect, mode, param, conn>>

LEMMA ReconnectStep == ReconnectTold /\ [Next]_vars => ReconnectTold'
<1> SUFFICES ASSUME ReconnectTold, [Next]_vars PROVE ReconnectTold'
  OBVIOUS
<1> USE DEF ReconnectTold
<1>1. ASSUME UNCHANGED Linked PROVE ReconnectTold'
  BY <1>1 DEF Linked
<1>2. CASE Set
  <2>1. CASE SetParam
    BY <2>1 DEF SetParam, ReconnectRequired
  <2>2. ASSUME NEW m \in Modes, SetMode(m) PROVE ReconnectTold'
    BY <2>2 DEF SetMode, ReconnectRequired
  <2>3. CASE SetTrigger \/ SetEnergy
    BY <1>1, <2>3 DEF SetTrigger, SetEnergy, Linked, flags, settings
  <2> QED
    BY <1>2, <2>1, <2>2, <2>3 DEF Set
<1>3. CASE Command
  <2>1. CASE Connect
    <3>1. UNCHANGED <<mode, param>>
      BY <2>1 DEF Connect, settings
    <3>2. ASSUME NEW stage \in {"restored", "ready"}, ConnectTo(stage, FALSE)
          PROVE  ReconnectTold'
      BY <3>1, <3>2 DEF ConnectTo
    <3>3. ASSUME ConnectTo("open", TRUE) PROVE ReconnectTold'
      BY <3>3 DEF ConnectTo
    <3>4. ASSUME UNCHANGED <<conn, connected, reconnect, hw>>
          PROVE  ReconnectTold'
      BY <1>1, <3>1, <3>4 DEF Linked
    <3> QED
      BY <2>1, <3>2, <3>3, <3>4 DEF Connect
  <2>2. CASE Disconnect
    BY <2>2 DEF Disconnect, CloseWith, settings
  <2>3. CASE ConnectAgain \/ DisconnectClosed \/ EnableDAQ
    BY <1>1, <2>3 DEF ConnectAgain, DisconnectClosed, EnableDAQ, Linked,
       flags, settings
  <2>4. CASE Start \/ StartFails
    BY <1>1, <2>4 DEF Start, StartFails, StartRequest, Linked, settings
  <2>5. CASE StopIdle \/ StopNow \/ StopDAQ \/ SoftwareTrigger
    BY <1>1, <2>5 DEF StopIdle, StopNow, StopCards, StopDAQ, SoftwareTrigger,
       Linked, flags, settings
  <2> QED
    BY <1>3, <2>1, <2>2, <2>3, <2>4, <2>5 DEF Command
<1>4. CASE Reactor \/ StatusBegin \/ TickFails \/ BindClash
  BY <1>1, <1>4 DEF Reactor, Destroyed, Replaced, StopWaited, StopCards,
     StatusRunning, StatusEnded, StatusReply, StatusBegin, TickFails,
     BindClash, Linked, flags, settings
<1>5. CASE Daq
  BY <1>1, <1>5 DEF Daq, DaqTake, DaqLeave, DaqEnd, DaqFail, DaqAbort, DaqHalt,
     Thread, Linked, flags, settings
<1>6. CASE HwDone \/ UNCHANGED vars
  BY <1>1, <1>6 DEF HwDone, vars, Linked, flags, settings
<1> QED
  BY <1>2, <1>3, <1>4, <1>5, <1>6 DEF Next

(* The reconnect flag never hides a difference: a connection without it has*)
(* been restored and is for the mode and the parameters as they are now.   *)
THEOREM ReconnectAnnounced == Spec => []ReconnectTold
<1>1. Init => ReconnectTold
  BY DEF Init, ReconnectTold
<1> QED
  BY <1>1, ReconnectStep, PTL DEF Spec

-----------------------------------------------------------------------------
(***************************************************************************)
(* Type correctness.                                                       *)
(***************************************************************************)
LEMMA ResultTyped == \A ok \in Result : ok \in BOOLEAN
  BY DEF Result

(* What every configure message does to the errors and the history.        *)
LEMMA ConfigureTyped ==
  ASSUME TypeOK, NEW r, Configure(r)
  PROVE  acqFailed' \in BOOLEAN /\ failure' \in Knowledge
<1>1. failure' = "erased" \/ failure' = failure
  BY DEF Configure
<1>2. acqFailed' = FALSE
  BY DEF Configure
<1>3. failure \in Knowledge
  BY DEF TypeOK
<1>4. failure' \in Knowledge
  BY <1>1, <1>3 DEF Knowledge
<1>5. acqFailed' \in BOOLEAN
  BY <1>2
<1> QED
  BY <1>4, <1>5

LEMMA ReplyTyped ==
  ASSUME TypeOK, NEW ok, Reply(ok)
  PROVE  error' \in Errors /\ xspError' \in Errors
  BY DEF TypeOK, Reply, Errors

(* The fields of the DAQ object that a step sets.                          *)
LEMMA DaqTyped ==
  ASSUME NEW d \in Daqs, NEW phase \in Phases, NEW running \in BOOLEAN,
         NEW q \in Seq({"start", "shutdown"})
  PROVE  /\ [d EXCEPT !.phase = phase] \in Daqs
         /\ [d EXCEPT !.running = running] \in Daqs
         /\ [d EXCEPT !.phase = phase, !.running = running] \in Daqs
         /\ [d EXCEPT !.phase = phase, !.failed = TRUE] \in Daqs
         /\ [d EXCEPT !.queue = q] \in Daqs
         /\ [d EXCEPT !.running = running, !.queue = q] \in Daqs
         /\ [d EXCEPT !.queue = q, !.failed = FALSE, !.phase = phase] \in Daqs
  BY DEF Daqs

LEMMA DaqObjects == TypeOK => NoDaq \in Daqs /\ FreshDaq \in Daqs
<1>1. NoDaq \in Daqs
  BY DEF NoDaq, Daqs, Phases
<1>2. ASSUME TypeOK PROVE FreshDaq \in Daqs
  <2>1. param \in {0} \cup Values /\ "ready" \in Phases
    BY <1>2 DEF TypeOK, Phases
  <2> QED
    <3>1. ASSUME NEW d \in Daqs, NEW phase \in Phases, NEW v \in {0} \cup Values
          PROVE  [d EXCEPT !.phase = phase, !.param = v] \in Daqs
      BY DEF Daqs
    <3> QED
      BY <1>1, <2>1, <3>1 DEF FreshDaq
<1> QED
  BY <1>1, <1>2

(***************************************************************************)
(* The variables in the groups in which the actions leave them alone.      *)
(***************************************************************************)
FlagTypes    == connected \in BOOLEAN /\ acquiring \in BOOLEAN
                /\ reconnect \in BOOLEAN
ErrorTypes   == acqFailed \in BOOLEAN /\ xspError \in Errors /\ error \in Errors
SettingTypes == mode \in Modes /\ trigger \in {"software", "internal"}
                /\ param \in Values
ConnType     == conn \in [stage : Stages, param : {0} \cup Values, mode : Modes]
HwType       == hw \in [Cards -> CardStates]
ViewTypes    == told \in BOOLEAN /\ failure \in Knowledge

LEMMA TypeGroups ==
  TypeOK => /\ FlagTypes /\ ErrorTypes /\ SettingTypes /\ ConnType
            /\ daq \in Daqs /\ HwType /\ pc \in ReactorPcs /\ ViewTypes
  BY DEF TypeOK, FlagTypes, ErrorTypes, SettingTypes, ConnType, HwType,
     ViewTypes

LEMMA TypeGroupsNext ==
  ASSUME FlagTypes', ErrorTypes', SettingTypes', ConnType', (daq \in Daqs)',
         HwType', (pc \in ReactorPcs)', ViewTypes'
  PROVE  TypeOK'
  BY DEF TypeOK, FlagTypes, ErrorTypes, SettingTypes, ConnType, HwType,
     ViewTypes

(* A group that a step leaves alone stays typed.                           *)
LEMMA Unchanged ==
  ASSUME TypeOK
  PROVE  /\ UNCHANGED flags => FlagTypes'
         /\ UNCHANGED errors => ErrorTypes'
         /\ UNCHANGED settings => SettingTypes'
         /\ UNCHANGED conn => ConnType'
         /\ UNCHANGED daq => (daq \in Daqs)'
         /\ UNCHANGED hw => HwType'
         /\ UNCHANGED pc => (pc \in ReactorPcs)'
         /\ UNCHANGED view => ViewTypes'
  BY TypeGroups DEF FlagTypes, ErrorTypes, SettingTypes, ConnType, HwType,
     ViewTypes, flags, errors, settings, view

(* A configure message whose reply is the one of its handler, and that     *)
(* does not write what the client was told.                                *)
LEMMA ConfigureGroups ==
  ASSUME TypeOK, NEW r, Configure(r)
  PROVE  /\ \A ok : Reply(ok) => ErrorTypes'
         /\ told' \in BOOLEAN => ViewTypes'
<1>1. ASSUME NEW ok, Reply(ok) PROVE ErrorTypes'
  BY <1>1, ConfigureTyped, ReplyTyped DEF ErrorTypes
<1>2. ASSUME told' \in BOOLEAN PROVE ViewTypes'
  BY <1>2, ConfigureTyped DEF ViewTypes
<1> QED
  BY <1>1, <1>2

LEMMA SetTyped == ASSUME TypeOK, Set PROVE TypeOK'
<1>1. CASE SetParam
  <2>1. ErrorTypes' /\ ViewTypes'
    BY <1>1, ConfigureGroups DEF SetParam, TypeOK
  <2>2. FlagTypes' /\ SettingTypes'
    BY <1>1 DEF SetParam, ReconnectRequired, TypeOK, FlagTypes, SettingTypes
  <2> QED
    BY <1>1, <2>1, <2>2, Unchanged, TypeGroupsNext DEF SetParam
<1>2. ASSUME NEW m \in Modes, SetMode(m) PROVE TypeOK'
  <2>1. ErrorTypes' /\ ViewTypes'
    BY <1>2, ConfigureGroups DEF SetMode, TypeOK
  <2>2. FlagTypes' /\ SettingTypes'
    BY <1>2 DEF SetMode, ReconnectRequired, TypeOK, FlagTypes, SettingTypes
  <2> QED
    BY <1>2, <2>1, <2>2, Unchanged, TypeGroupsNext DEF SetMode
<1>3. CASE SetTrigger
  <2>1. ErrorTypes' /\ ViewTypes'
    BY <1>3, ConfigureGroups DEF SetTrigger, TypeOK
  <2>2. SettingTypes'
    BY <1>3 DEF SetTrigger, TypeOK, SettingTypes
  <2> QED
    BY <1>3, <2>1, <2>2, Unchanged, TypeGroupsNext DEF SetTrigger
<1>4. CASE SetEnergy
  <2>1. error' \in Errors /\ xspError' \in Errors
    BY <1>4 DEF SetEnergy, TypeOK, Errors
  <2>2. ErrorTypes' /\ ViewTypes'
    BY <1>4, <2>1, ConfigureTyped DEF SetEnergy, TypeOK, ErrorTypes, ViewTypes
  <2> QED
    BY <1>4, <2>2, Unchanged, TypeGroupsNext DEF SetEnergy
<1> QED
  BY <1>1, <1>2, <1>3, <1>4 DEF Set

LEMMA ConnectTyped == ASSUME TypeOK, Connect \/ Disconnect PROVE TypeOK'
<1>1. CASE Connect
  <2>1. SettingTypes' /\ (daq \in Daqs)' /\ (pc \in ReactorPcs)'
    BY <1>1, Unchanged DEF Connect
  <2>2. ViewTypes'
    BY <1>1, ConfigureGroups DEF Connect, TypeOK
  <2>3. ASSUME NEW stage \in {"open", "restored", "ready"},
               NEW flagged \in BOOLEAN, ConnectTo(stage, flagged)
        PROVE  TypeOK'
    <3>1. ConnType'
      BY <2>3, <1>1 DEF ConnectTo, ConnType, Connect, settings, TypeOK, Stages
    <3>2. FlagTypes'
      BY <2>3, <1>1 DEF ConnectTo, FlagTypes, Connect, TypeOK
    <3>3. HwType'
      BY <2>3 DEF ConnectTo, HwType, CardStates
    <3>4. ErrorTypes'
      BY <2>3, <1>1, ConfigureGroups DEF ConnectTo, Connect
    <3> QED
      BY <2>1, <2>2, <3>1, <3>2, <3>3, <3>4, TypeGroupsNext
  <2>4. ASSUME Reply(FALSE), UNCHANGED <<conn, connected, reconnect, hw>>
        PROVE  TypeOK'
    <3>1. ErrorTypes'
      BY <2>4, <1>1, ConfigureGroups DEF Connect
    <3>2. FlagTypes' /\ ConnType' /\ HwType'
      BY <2>4, <1>1, Unchanged DEF Connect, flags
    <3> QED
      BY <2>1, <2>2, <3>1, <3>2, TypeGroupsNext
  <2> QED
    BY <1>1, <2>3, <2>4 DEF Connect
<1>2. CASE Disconnect
  <2>1. PICK ok \in Result : CloseWith(ok)
    BY <1>2 DEF Disconnect
  <2>2. ConnType'
    BY <2>1, TypeGroups DEF CloseWith, ConnType, Closed, Stages, Modes
  <2>3. FlagTypes'
    BY <2>1, <1>2, ResultTyped DEF CloseWith, Disconnect, FlagTypes, TypeOK
  <2>4. ErrorTypes' /\ ViewTypes'
    BY <2>1, <1>2, ConfigureGroups DEF CloseWith, Disconnect, TypeOK
  <2>5. (daq \in Daqs)'
    <3>1. Append(daq.queue, "shutdown") \in Seq({"start", "shutdown"})
          /\ daq.queue \in Seq({"start", "shutdown"})
      BY DEF TypeOK, Daqs
    <3>2. ASSUME NEW q \in Seq({"start", "shutdown"})
          PROVE  [daq EXCEPT !.queue = q] \in Daqs
      BY DEF TypeOK, Daqs
    <3> QED
      BY <1>2, <3>1, <3>2 DEF Disconnect, QueueShutdown
  <2>6. (pc \in ReactorPcs)'
    BY <1>2 DEF Disconnect, ReactorPcs
  <2> QED
    BY <1>2, <2>2, <2>3, <2>4, <2>5, <2>6, Unchanged, TypeGroupsNext
       DEF Disconnect
<1> QED
  BY <1>1, <1>2

LEMMA CommandTyped == ASSUME TypeOK, Command PROVE TypeOK'
<1>1. CASE ConnectAgain \/ DisconnectClosed \/ StopIdle
  <2>1. ErrorTypes' /\ ViewTypes'
    BY <1>1, ConfigureGroups
       DEF ConnectAgain, DisconnectClosed, StopIdle, TypeOK
  <2> QED
    BY <1>1, <2>1, Unchanged, TypeGroupsNext
       DEF ConnectAgain, DisconnectClosed, StopIdle
<1>2. CASE EnableDAQ
  <2>1. ErrorTypes' /\ ViewTypes'
    BY <1>2, ConfigureGroups DEF EnableDAQ, TypeOK
  <2>2. (daq \in Daqs)'
    <3>1. Append(daq.queue, "shutdown") \in Seq({"start", "shutdown"})
          /\ daq.queue \in Seq({"start", "shutdown"})
      BY DEF TypeOK, Daqs
    <3>2. ASSUME NEW q \in Seq({"start", "shutdown"})
          PROVE  [daq EXCEPT !.queue = q] \in Daqs
      BY DEF TypeOK, Daqs
    <3>3. QueueShutdown => (daq \in Daqs)'
      BY <3>1, <3>2 DEF QueueShutdown
    <3> QED
      BY <1>2, <3>3, DaqObjects, TypeGroups DEF EnableDAQ
  <2>3. (pc \in ReactorPcs)'
    BY <1>2, TypeGroups DEF EnableDAQ, ReactorPcs
  <2> QED
    BY <1>2, <2>1, <2>2, <2>3, Unchanged, TypeGroupsNext DEF EnableDAQ
<1>3. CASE Start \/ StartFails
  <2>1. SettingTypes' /\ ConnType' /\ (pc \in ReactorPcs)'
    BY <1>3, Unchanged DEF Start, StartFails, StartRequest
  <2>2. ErrorTypes' /\ ViewTypes'
    BY <1>3, ConfigureGroups DEF Start, StartFails, StartRequest
  <2>3. FlagTypes'
    BY <1>3 DEF Start, StartFails, StartRequest, FlagTypes, TypeOK
  <2>4. HwType'
    BY <1>3 DEF Start, StartFails, HwType, TypeOK, CardStates
  <2>5. (daq \in Daqs)'
    <3>1. Append(daq.queue, "start") \in Seq({"start", "shutdown"})
      BY DEF TypeOK, Daqs
    <3>2. ASSUME NEW q \in Seq({"start", "shutdown"})
          PROVE  [daq EXCEPT !.running = TRUE, !.queue = q] \in Daqs
      BY DEF TypeOK, Daqs
    <3> QED
      BY <1>3, <3>1, <3>2, Unchanged DEF Start, StartFails, PrimeDAQ
  <2> QED
    BY <2>1, <2>2, <2>3, <2>4, <2>5, TypeGroupsNext
<1>4. CASE StopNow
  <2>1. PICK ok \in Result : Reply(ok) /\ hw' = IF ok THEN [c \in Cards |-> "idle"] ELSE hw
    BY <1>4 DEF StopNow, StopCards
  <2>2. ErrorTypes' /\ ViewTypes'
    BY <1>4, <2>1, ConfigureGroups DEF StopNow, StopCards, TypeOK
  <2>3. HwType'
    BY <2>1 DEF HwType, TypeOK, CardStates
  <2>4. FlagTypes'
    BY <1>4 DEF StopNow, StopCards, FlagTypes, TypeOK
  <2> QED
    BY <1>4, <2>2, <2>3, <2>4, Unchanged, TypeGroupsNext DEF StopNow, StopCards
<1>5. CASE StopDAQ
  <2>1. ErrorTypes' /\ ViewTypes'
    BY <1>5, ConfigureTyped
       DEF StopDAQ, TypeOK, ErrorTypes, ViewTypes, Errors
  <2>2. (daq \in Daqs)' /\ (pc \in ReactorPcs)'
    BY <1>5 DEF StopDAQ, TypeOK, Daqs, ReactorPcs
  <2> QED
    BY <1>5, <2>1, <2>2, Unchanged, TypeGroupsNext DEF StopDAQ
<1>6. CASE SoftwareTrigger
  <2>1. ErrorTypes' /\ ViewTypes'
    BY <1>6, ConfigureGroups DEF SoftwareTrigger, TypeOK
  <2>2. HwType'
    BY <1>6 DEF SoftwareTrigger, AllDone, HwType, TypeOK, CardStates
  <2> QED
    BY <1>6, <2>1, <2>2, Unchanged, TypeGroupsNext DEF SoftwareTrigger
<1> QED
  BY <1>1, <1>2, <1>3, <1>4, <1>5, <1>6, ConnectTyped DEF Command

(* What the reactor does between two requests, and its ticks.              *)
LEMMA ReactorTyped ==
  ASSUME TypeOK, Reactor \/ StatusBegin \/ TickFails \/ BindClash
  PROVE  TypeOK'
<1>1. CASE Destroyed \/ Replaced
  <2>1. (daq \in Daqs)' /\ (pc \in ReactorPcs)'
    BY <1>1, DaqObjects DEF Destroyed, Replaced, ReactorPcs
  <2> QED
    BY <1>1, <2>1, Unchanged, TypeGroupsNext DEF Destroyed, Replaced
<1>2. CASE StopWaited
  <2>1. PICK ok \in Result : Reply(ok) /\ hw' = IF ok THEN [c \in Cards |-> "idle"] ELSE hw
    BY <1>2 DEF StopWaited, StopCards
  <2>2. ErrorTypes' /\ ViewTypes'
    BY <1>2, <2>1, ReplyTyped
       DEF StopWaited, StopCards, TypeOK, ErrorTypes, ViewTypes
  <2>3. HwType'
    BY <2>1 DEF HwType, TypeOK, CardStates
  <2>4. FlagTypes'
    BY <1>2 DEF StopWaited, StopCards, FlagTypes, TypeOK
  <2>5. (pc \in ReactorPcs)'
    BY <1>2 DEF StopWaited, ReactorPcs
  <2> QED
    BY <1>2, <2>2, <2>3, <2>4, <2>5, Unchanged, TypeGroupsNext
       DEF StopWaited, StopCards
<1>3. CASE StatusRunning \/ StatusEnded
  <2>1. acquiring' \in BOOLEAN
    BY <1>3 DEF StatusRunning, StatusEnded, TypeOK
  <2>2. FlagTypes'
    BY <1>3, <2>1 DEF StatusRunning, StatusEnded, StatusReply, FlagTypes, TypeOK
  <2>3. acqFailed' \in BOOLEAN
    BY <1>3 DEF StatusRunning, StatusEnded, TypeOK, Daqs
  <2>4. xspError' \in Errors
    BY <1>3 DEF StatusRunning, StatusEnded, TypeOK, Errors
  <2>5. ErrorTypes'
    BY <1>3, <2>3, <2>4
       DEF StatusRunning, StatusEnded, StatusReply, ErrorTypes, TypeOK
  <2>6. failure' \in Knowledge
    BY <1>3 DEF StatusRunning, StatusEnded, StatusReply, TypeOK, Knowledge
  <2>7. told' \in BOOLEAN
    BY <1>3, <2>1 DEF StatusRunning, StatusEnded, StatusReply
  <2>8. ViewTypes' /\ (pc \in ReactorPcs)'
    BY <1>3, <2>6, <2>7
       DEF StatusRunning, StatusEnded, StatusReply, ViewTypes, ReactorPcs
  <2> QED
    BY <1>3, <2>2, <2>5, <2>8, Unchanged, TypeGroupsNext
       DEF StatusRunning, StatusEnded, StatusReply
<1>4. CASE StatusBegin
  <2>1. ErrorTypes' /\ (pc \in ReactorPcs)'
    BY <1>4 DEF StatusBegin, ErrorTypes, ReactorPcs, TypeOK
  <2> QED
    BY <1>4, <2>1, Unchanged, TypeGroupsNext DEF StatusBegin
<1>5. CASE TickFails
  <2>1. ErrorTypes'
    BY <1>5 DEF TickFails, ErrorTypes, Errors, TypeOK
  <2> QED
    BY <1>5, <2>1, Unchanged, TypeGroupsNext DEF TickFails
<1>6. CASE BindClash
  <2>1. (pc \in ReactorPcs)'
    BY <1>6 DEF BindClash, ReactorPcs
  <2> QED
    BY <1>6, <2>1, Unchanged, TypeGroupsNext DEF BindClash
<1> QED
  BY <1>1, <1>2, <1>3, <1>4, <1>5, <1>6 DEF Reactor

(* The ctrl thread writes the DAQ object, card 0 and the history.          *)
LEMMA ThreadTyped ==
  ASSUME TypeOK, Daq
  PROVE  TypeOK'
<1>1. FlagTypes' /\ ErrorTypes' /\ SettingTypes' /\ ConnType'
      /\ (pc \in ReactorPcs)' /\ told' \in BOOLEAN
  BY Unchanged DEF Daq, DaqTake, DaqLeave, DaqEnd, DaqFail, DaqAbort, DaqHalt,
     Thread, TypeOK
<1>2. failure' \in Knowledge
  BY DEF Daq, DaqTake, DaqLeave, DaqEnd, DaqFail, DaqAbort, DaqHalt, GaveUp,
     TypeOK, Knowledge
<1>3. HwType'
  <2>1. hw' = hw \/ hw' = [hw EXCEPT ![0] = "idle"]
    BY DEF Daq, DaqTake, DaqLeave, DaqEnd, DaqFail, DaqAbort, DaqHalt
  <2> QED
    BY <2>1 DEF HwType, TypeOK, CardStates
<1>4. (daq \in Daqs)'
  <2>1. /\ daq \in Daqs
        /\ daq.queue # <<>> => Tail(daq.queue) \in Seq({"start", "shutdown"})
    BY DEF TypeOK, Daqs
  <2>2. \A q \in Seq({"start", "shutdown"}), phase \in Phases :
          [daq EXCEPT !.queue = q, !.failed = FALSE, !.phase = phase] \in Daqs
    BY <2>1, DaqTyped
  <2>3. \A phase \in Phases, running \in BOOLEAN :
          /\ [daq EXCEPT !.phase = phase] \in Daqs
          /\ [daq EXCEPT !.phase = phase, !.running = running] \in Daqs
          /\ [daq EXCEPT !.phase = phase, !.failed = TRUE] \in Daqs
    BY <2>1 DEF Daqs
  <2>4. CASE DaqTake
    BY <2>1, <2>2, <2>4 DEF DaqTake, Phases
  <2>5. CASE DaqLeave \/ DaqEnd \/ DaqFail \/ DaqAbort \/ DaqHalt
    BY <2>3, <2>5 DEF DaqLeave, DaqEnd, DaqFail, DaqAbort, DaqHalt, Phases
  <2> QED
    BY <2>4, <2>5 DEF Daq
<1> QED
  BY <1>1, <1>2, <1>3, <1>4, TypeGroupsNext DEF ViewTypes

LEMMA TypeStep == TypeOK /\ [Next]_vars => TypeOK'
<1> SUFFICES ASSUME TypeOK, [Next]_vars PROVE TypeOK'
  OBVIOUS
<1>1. CASE HwDone
  <2>1. HwType'
    BY <1>1 DEF HwDone, AllDone, HwType, TypeOK, CardStates
  <2> QED
    BY <1>1, <2>1, Unchanged, TypeGroupsNext DEF HwDone
<1>2. CASE UNCHANGED vars
  BY <1>2, Unchanged, TypeGroupsNext DEF vars
<1> QED
  BY <1>1, <1>2, SetTyped, CommandTyped, ReactorTyped, ThreadTyped DEF Next

LEMMA TypeInit == Init => TypeOK
<1> SUFFICES ASSUME Init PROVE TypeOK
  OBVIOUS
<1>1. 1 \in Values
  BY DetectorAssumption DEF Values
<1>2. daq \in Daqs
  BY DaqObjects DEF Init, NoDaq, Daqs, Phases
<1>3. conn \in [stage : Stages, param : {0} \cup Values, mode : Modes]
  BY DEF Init, Closed, Stages, Modes
<1>4. hw \in [Cards -> CardStates]
  BY DEF Init, CardStates
<1>5. /\ xspError \in Errors /\ error \in Errors /\ pc \in ReactorPcs
      /\ mode \in Modes /\ trigger \in {"software", "internal"}
  BY DEF Init, Modes, Errors, ReactorPcs
<1>6. param \in Values /\ failure \in Knowledge
  BY <1>1 DEF Init, Knowledge
<1>7. /\ connected \in BOOLEAN /\ acquiring \in BOOLEAN
      /\ reconnect \in BOOLEAN /\ acqFailed \in BOOLEAN /\ told \in BOOLEAN
  BY DEF Init
<1> QED
  BY <1>2, <1>3, <1>4, <1>5, <1>6, <1>7 DEF TypeOK

(* The values of the variables, for any number of cards and any client.    *)
THEOREM TypeCorrect == Spec => []TypeOK
  BY TypeInit, TypeStep, PTL DEF Spec

-----------------------------------------------------------------------------
(***************************************************************************)
(* The DAQ object and the connection.  The property holds between the      *)
(* requests because it holds while one waits as well, but for the window   *)
(* in which the old DAQ object is destroyed; the object keeps the          *)
(* parameters it was built for, and ReconnectTold is what makes those the  *)
(* parameters of the connection, or the flag set.                          *)
(***************************************************************************)
DaqInv ==
  (pc \in {"idle", "stopping", "status", "ended", "replace"} /\ HasDaq) =>
    connected /\ (reconnect \/ daq.param = conn.param)

LEMMA DaqInvStep ==
  TypeOK /\ ReconnectTold /\ DaqInv /\ [Next]_vars => DaqInv'
<1> SUFFICES ASSUME TypeOK, ReconnectTold, DaqInv, [Next]_vars
             PROVE  DaqInv'
  OBVIOUS
<1> USE DEF DaqInv, HasDaq
<1>1. ASSUME UNCHANGED <<connected, reconnect, conn, daq, pc>> PROVE DaqInv'
  BY <1>1
<1>2. CASE Set
  BY <1>1, <1>2 DEF Set, SetParam, SetMode, SetTrigger, SetEnergy, Configure,
     ReconnectRequired, flags, settings
<1>3. CASE Command
  <2>1. CASE Connect
    <3>1. pc = "idle" /\ ~connected /\ ~HasDaq
      BY <2>1 DEF Connect, Configure
    <3> QED
      BY <2>1, <3>1 DEF Connect, ConnectTo
  <2>2. CASE Disconnect
    BY <2>2 DEF Disconnect, QueueShutdown
  <2>3. CASE EnableDAQ
    <3>1. ASSUME daq' = FreshDaq, UNCHANGED pc, connected
          PROVE  DaqInv'
      <4>1. daq'.param = param
        BY <3>1 DEF FreshDaq, NoDaq
      <4>2. UNCHANGED <<connected, reconnect, conn>>
        BY <2>3 DEF EnableDAQ, flags
      <4> QED
        BY <3>1, <4>1, <4>2 DEF ReconnectTold
    <3>2. ASSUME QueueShutdown, pc' = "replace", HasDaq, connected
          PROVE  DaqInv'
      <4>1. daq'.param = daq.param
        BY <3>2 DEF QueueShutdown, TypeOK, Daqs
      <4>2. UNCHANGED <<connected, reconnect, conn>> /\ pc = "idle"
        BY <2>3 DEF EnableDAQ, flags, Configure
      <4> QED
        BY <3>2, <4>1, <4>2
    <3>3. ASSUME UNCHANGED <<daq, pc>> PROVE DaqInv'
      BY <1>1, <2>3, <3>3 DEF EnableDAQ, flags
    <3> QED
      BY <2>3, <3>1, <3>2, <3>3 DEF EnableDAQ
  <2>4. CASE Start \/ StartFails
    <3>1. UNCHANGED <<connected, reconnect, conn, pc>>
      BY <2>4 DEF Start, StartFails, StartRequest
    <3>2. daq'.param = daq.param /\ daq'.phase = daq.phase
      BY <2>4 DEF Start, StartFails, PrimeDAQ, TypeOK, Daqs
    <3> QED
      BY <3>1, <3>2
  <2>5. CASE StopDAQ
    <3>1. UNCHANGED <<connected, reconnect, conn>>
      BY <2>5 DEF StopDAQ, flags
    <3>2. daq'.param = daq.param /\ daq'.phase = daq.phase /\ pc = "idle"
      BY <2>5 DEF StopDAQ, TypeOK, Daqs, Configure
    <3> QED
      BY <3>1, <3>2
  <2>6. CASE ConnectAgain \/ DisconnectClosed \/ StopIdle \/ SoftwareTrigger
    BY <1>1, <2>6 DEF ConnectAgain, DisconnectClosed, StopIdle, SoftwareTrigger,
       flags
  <2>7. CASE StopNow
    BY <1>1, <2>7 DEF StopNow, StopCards
  <2> QED
    BY <1>3, <2>1, <2>2, <2>3, <2>4, <2>5, <2>6, <2>7 DEF Command
<1>4. CASE Destroyed \/ BindClash
  BY <1>4 DEF Destroyed, BindClash, NoDaq
<1>5. CASE Replaced
  <2>1. daq'.param = param /\ UNCHANGED <<connected, reconnect, conn>>
    BY <1>5 DEF Replaced, FreshDaq, NoDaq, flags
  <2>2. connected
    BY <1>5 DEF Replaced
  <2> QED
    BY <2>1, <2>2 DEF ReconnectTold
<1>6. CASE StopWaited \/ StatusRunning \/ StatusEnded \/ StatusBegin \/ TickFails
  BY <1>6 DEF StopWaited, StopCards, StatusRunning, StatusEnded, StatusReply,
     StatusBegin, TickFails, flags
<1>7. CASE Daq
  <2>1. UNCHANGED <<connected, reconnect, conn, pc>>
    BY <1>7 DEF Daq, DaqTake, DaqLeave, DaqEnd, DaqFail, DaqAbort, DaqHalt,
       Thread, flags
  <2>2. daq'.param = daq.param
    BY <1>7 DEF Daq, DaqTake, DaqLeave, DaqEnd, DaqFail, DaqAbort, DaqHalt,
       TypeOK, Daqs
  <2>3. HasDaq
    BY <1>7 DEF Daq, DaqTake, DaqLeave, DaqEnd, DaqFail, DaqAbort, DaqHalt,
       Thread
  <2> QED
    BY <2>1, <2>2, <2>3
<1>8. CASE HwDone \/ UNCHANGED vars
  BY <1>1, <1>8 DEF HwDone, vars, flags
<1> QED
  BY <1>2, <1>3, <1>4, <1>5, <1>6, <1>7, <1>8 DEF Next, Reactor

LEMMA DaqInvariant == Spec => []DaqInv
<1>1. Init => DaqInv
  BY DEF Init, DaqInv, HasDaq, NoDaq
<1> QED
  BY <1>1, DaqInvStep, ReconnectAnnounced, TypeCorrect, PTL DEF Spec

(* Between requests a DAQ object serves an open connection, with the       *)
(* parameters the library was configured for or the reconnect flag set.    *)
THEOREM DaqServesConnection == Spec => []DaqMatchesConnection
<1>1. DaqInv => DaqMatchesConnection
  BY DEF DaqInv, DaqMatchesConnection
<1> QED
  BY <1>1, DaqInvariant, PTL

-----------------------------------------------------------------------------
(***************************************************************************)
(* A client that waits: it starts only when it was told that the last      *)
(* acquisition is complete, with the ctrl thread settled, and it stays in  *)
(* MCA mode.                                                               *)
(***************************************************************************)
Waits == Patient /\ Settled /\ "list" \notin Requests

(***************************************************************************)
(* For such a client acq_running_ and acquiring_ go together.  While the   *)
(* DAQ object is not being destroyed, acq_running_ is only ever true in an *)
(* acquisition, a task is queued only for an acquisition that runs, and    *)
(* the ctrl thread is in its loop with acq_running_ cleared only while a   *)
(* stop request waits for it.                                              *)
(***************************************************************************)
RunInv ==
  /\ daq.running => acquiring /\ HasDaq
  /\ daq.phase = "loop" /\ ~daq.running => pc = "stopping"
  /\ daq.phase = "halt" => ~daq.running
  /\ daq.phase # "gone"
  /\ daq.queue # <<>> =>
       daq.phase = "ready" /\ daq.running /\ daq.queue = <<"start">>

TellInv ==
  /\ mode = "mca"
  /\ told => ~acquiring
  /\ pc \notin {"replace", "crashed"}
  /\ pc # "destroy" => RunInv
  /\ pc = "ended" => ~daq.running
  /\ pc = "stopping" => ~daq.running /\ daq.queue = <<>> /\ acquiring /\ HasDaq

(***************************************************************************)
(* No reply has yet said that an acquisition that was given up is complete *)
(* only while acquiring_ is still set and the DAQ object still shows the   *)
(* failure; a reply that hides it leaves the failed flag and its error for *)
(* the next.                                                               *)
(***************************************************************************)
GivenUpInv ==
  /\ failure = "given" =>
       /\ acquiring /\ daq.failed /\ daq.queue = <<>> /\ pc # "destroy"
       /\ \/ daq.phase = "abort"
          \/ daq.phase \in {"halt", "end", "ready"} /\ ~daq.running
  /\ failure = "hidden" =>
       /\ ~acquiring
       /\ \/ pc = "idle" /\ acqFailed /\ xspError # "none"
          \/ pc = "status" /\ acqFailed /\ error # "none"
  /\ failure # "untold"

(* The fields of the DAQ object.                                           *)
LEMMA DaqFields ==
  ASSUME TypeOK
  PROVE  /\ daq \in [phase : Phases, running : BOOLEAN, failed : BOOLEAN,
                     queue : Seq({"start", "shutdown"}), param : {0} \cup Values]
         /\ daq.queue \in Seq({"start", "shutdown"})
  BY DEF TypeOK, Daqs

(* Its queue, empty or with one task.                                      *)
LEMMA QueueOfOne ==
  /\ Append(<<>>, "start") = <<"start">>
  /\ <<"start">> # <<>> /\ Head(<<"start">>) = "start" /\ Tail(<<"start">>) = <<>>
  OBVIOUS

(* A step of the reactor that leaves the DAQ object alone.                 *)
LEMMA RunKept ==
  ASSUME RunInv, UNCHANGED <<daq, pc>>, acquiring => acquiring'
  PROVE  RunInv'
  BY DEF RunInv, HasDaq

(* The requests that only change settings, or nothing.                     *)
LEMMA TellSet ==
  ASSUME Waits, TypeOK, TellInv, GivenUpInv,
         Set \/ ConnectAgain \/ DisconnectClosed \/ StopIdle \/ SoftwareTrigger
             \/ Connect
  PROVE  TellInv' /\ GivenUpInv'
<1>1. /\ pc = "idle" /\ mode' = mode
      /\ UNCHANGED <<acquiring, daq, pc, told>>
      /\ failure' \in {"erased", failure} /\ failure' # "hidden"
  BY DEF Set, SetParam, SetTrigger, SetEnergy, SetMode, ConnectAgain,
     DisconnectClosed, StopIdle, SoftwareTrigger, Connect, Configure, Erases,
     flags, settings, Waits, TellInv, Modes
<1>2. TellInv'
  BY <1>1, RunKept DEF TellInv, HasDaq
<1> QED
  BY <1>1, <1>2 DEF GivenUpInv

LEMMA TellDisconnect ==
  ASSUME Waits, TypeOK, TellInv, GivenUpInv, Disconnect
  PROVE  TellInv' /\ GivenUpInv'
<1>1. /\ pc = "idle" /\ failure' \in {"none", "erased"}
      /\ UNCHANGED <<mode, acquiring, told>>
  BY DEF Disconnect, Configure, Erases, settings, GivenUpInv, TypeOK, Knowledge
<1>2. CASE HasDaq
  BY <1>1, <1>2 DEF Disconnect, TellInv, GivenUpInv
<1>3. CASE ~HasDaq
  <2>1. UNCHANGED pc /\ daq' = daq
    BY <1>1, <1>3, DaqFields DEF Disconnect, QueueShutdown
  <2> QED
    BY <1>1, <2>1, RunKept DEF TellInv, GivenUpInv, HasDaq
<1> QED
  BY <1>2, <1>3

LEMMA TellEnable ==
  ASSUME Waits, TypeOK, TellInv, GivenUpInv, EnableDAQ
  PROVE  TellInv' /\ GivenUpInv'
<1>1. /\ pc = "idle" /\ failure' \in {"none", "erased"} /\ told /\ ~HasDaq
      /\ UNCHANGED <<mode, acquiring, told, pc>>
      /\ daq' = FreshDaq \/ UNCHANGED daq
  BY DEF EnableDAQ, Configure, Erases, settings, flags, Waits, GivenUpInv, TypeOK,
     Knowledge
<1>2. CASE daq' = FreshDaq
  <2>1. /\ daq'.phase = "ready" /\ daq'.running = FALSE /\ daq'.queue = <<>>
    BY <1>2 DEF FreshDaq, NoDaq
  <2> QED
    BY <1>1, <2>1 DEF TellInv, RunInv, GivenUpInv
<1>3. CASE UNCHANGED daq
  BY <1>1, <1>3, RunKept DEF TellInv, GivenUpInv, HasDaq
<1> QED
  BY <1>1, <1>2, <1>3

LEMMA TellStart ==
  ASSUME Waits, TypeOK, TellInv, GivenUpInv, Start \/ StartFails
  PROVE  TellInv' /\ GivenUpInv'
<1>1. /\ pc = "idle" /\ failure' \in {"none", "erased"}
      /\ told /\ ~told' /\ ~acquiring
      /\ UNCHANGED <<mode, pc>> /\ daq.phase \in {"none", "ready", "loop"}
      /\ daq.queue = <<>> /\ mode = "mca"
  BY DEF Start, StartFails, StartRequest, Configure, Erases, settings, Waits,
     TellInv, CtrlSettled, GivenUpInv, TypeOK, Knowledge
<1>2. CASE StartFails
  <2>1. UNCHANGED <<daq, acquiring>>
    BY <1>2 DEF StartFails
  <2> QED
    BY <1>1, <2>1, RunKept DEF TellInv, GivenUpInv, HasDaq
<1>3. CASE Start
  <2>1. acquiring' /\ RunInv
    BY <1>1, <1>3 DEF Start, TellInv
  <2>2. CASE HasDaq
    <3>1. daq' = [daq EXCEPT !.running = TRUE, !.queue = Append(@, "start")]
      BY <1>1, <1>3, <2>2 DEF Start, PrimeDAQ
    <3>2. /\ daq'.running = TRUE /\ daq'.phase = daq.phase
          /\ daq'.queue = <<"start">>
      BY <1>1, <3>1, DaqFields, QueueOfOne
    <3>3. daq.phase = "ready"
      BY <1>1, <2>1, <2>2 DEF RunInv, HasDaq
    <3> QED
      BY <1>1, <2>1, <2>2, <3>2, <3>3 DEF TellInv, RunInv, GivenUpInv, HasDaq
  <2>3. CASE ~HasDaq
    <3>1. UNCHANGED daq
      BY <1>3, <2>3 DEF Start, PrimeDAQ
    <3> QED
      BY <1>1, <2>1, <3>1, RunKept DEF TellInv, GivenUpInv, HasDaq
  <2> QED
    BY <2>2, <2>3
<1> QED
  BY <1>2, <1>3

LEMMA TellStop ==
  ASSUME Waits, TypeOK, TellInv, GivenUpInv, StopNow \/ StopDAQ \/ StopWaited
  PROVE  TellInv' /\ GivenUpInv'
<1>1. mode = "mca" /\ mode' = mode /\ told' = told
  BY DEF StopNow, StopDAQ, StopWaited, StopCards, settings, TellInv
<1>2. CASE StopNow
  <2>1. /\ pc = "idle" /\ acquiring' /\ ~HasDaq /\ UNCHANGED <<daq, pc>>
        /\ acquiring
        /\ failure' \in {"erased", failure} /\ failure' # "hidden"
    BY <1>1, <1>2 DEF StopNow, StopCards, Configure, Erases
  <2> QED
    BY <1>1, <2>1, RunKept DEF TellInv, GivenUpInv, HasDaq
<1>3. CASE StopDAQ
  <2>1. /\ pc = "idle" /\ acquiring /\ acquiring' /\ HasDaq
        /\ pc' = "stopping" /\ daq' = [daq EXCEPT !.running = FALSE]
        /\ daq.queue = <<>>
        /\ failure' \in {"erased", failure} /\ failure' # "hidden"
    BY <1>3 DEF StopDAQ, Configure, Erases, flags, Waits, CtrlSettled
  <2>2. /\ daq'.running = FALSE /\ daq'.phase = daq.phase /\ daq'.queue = <<>>
        /\ daq'.failed = daq.failed
    BY <2>1, DaqFields
  <2> QED
    BY <1>1, <2>1, <2>2 DEF TellInv, RunInv, GivenUpInv, HasDaq
<1>4. CASE StopWaited
  <2>1. /\ pc = "stopping" /\ daq.phase = "ready" /\ pc' = "idle" /\ acquiring'
        /\ UNCHANGED <<daq, failure>>
    BY <1>1, <1>4 DEF StopWaited, StopCards
  <2> QED
    BY <1>1, <2>1 DEF TellInv, RunInv, GivenUpInv, HasDaq
<1> QED
  BY <1>2, <1>3, <1>4

(* What a status reply makes of the history of failures.                   *)
LEMMA ReplyHistory ==
  ASSUME StatusReply
  PROVE  /\ acquiring' => failure' = failure
         /\ failure \in {"none", "erased"} => failure' = failure
         /\ failure = "hidden" /\ ~acquiring' /\ acqFailed /\ error # "none" =>
              failure' = "none"
         /\ failure = "given" /\ ~acquiring' => failure' \in {"none", "hidden"}
  BY DEF StatusReply

LEMMA TellStatus ==
  ASSUME Waits, TypeOK, TellInv, GivenUpInv,
         StatusBegin \/ StatusRunning \/ StatusEnded \/ TickFails
  PROVE  TellInv' /\ GivenUpInv'
<1>1. mode' = mode /\ daq' = daq /\ pc # "destroy" /\ pc' # "destroy" /\ RunInv
  BY DEF StatusBegin, StatusRunning, StatusEnded, StatusReply, TickFails, settings,
     TellInv
<1>2. CASE StatusBegin
  <2>1. /\ pc = "idle" /\ UNCHANGED <<acquiring, acqFailed, xspError, told, failure>>
        /\ error' = IF acqFailed THEN xspError ELSE error
        /\ pc' = IF acquiring /\ HasDaq /\ ~daq.running THEN "ended" ELSE "status"
    BY <1>2 DEF StatusBegin, flags, view
  <2> QED
    BY <1>1, <2>1 DEF TellInv, RunInv, GivenUpInv, HasDaq
<1>3. CASE StatusRunning
  <2>1. /\ pc = "status" /\ pc' = "idle" /\ UNCHANGED <<acquiring, error>>
        /\ UNCHANGED <<acqFailed, xspError>>
        /\ told' = ~acquiring
        /\ acquiring => failure' = failure
        /\ failure \in {"none", "erased"} => failure' = failure
        /\ failure = "hidden" /\ ~acquiring /\ acqFailed /\ error # "none" =>
             failure' = "none"
    BY <1>3, ReplyHistory DEF StatusRunning, StatusReply
  <2>2. failure \in {"none", "given", "hidden", "erased"}
    BY DEF TypeOK, GivenUpInv, Knowledge
  <2>3. failure' = IF failure = "hidden" THEN "none" ELSE failure
    <3>1. failure = "given" => acquiring
      BY DEF GivenUpInv
    <3>2. failure = "hidden" => ~acquiring /\ acqFailed /\ error # "none"
      BY <2>1 DEF GivenUpInv
    <3> QED
      BY <2>1, <2>2, <3>1, <3>2
  <2>4. TellInv'
    BY <1>1, <2>1, RunKept DEF TellInv, RunInv, HasDaq
  <2>5. GivenUpInv'
    BY <1>1, <2>1, <2>3 DEF GivenUpInv
  <2> QED
    BY <2>4, <2>5
<1>4. CASE StatusEnded
  <2>1. /\ pc = "ended" /\ pc' = "idle" /\ acquiring' = FALSE /\ told' = TRUE
        /\ daq.failed => acqFailed' = TRUE /\ xspError' = "acq"
        /\ failure \in {"none", "erased"} => failure' = failure
        /\ failure = "given" => failure' \in {"none", "hidden"}
        /\ ~daq.running
    BY <1>4, ReplyHistory DEF StatusEnded, StatusReply, TellInv
  <2>2. /\ failure' \in {"none", "erased", "hidden"}
        /\ failure' = "hidden" => daq.failed
    BY <2>1 DEF TypeOK, GivenUpInv, Knowledge
  <2> QED
    BY <1>1, <2>1, <2>2 DEF TellInv, RunInv, GivenUpInv, HasDaq
<1>5. CASE TickFails
  <2>1. /\ pc = "idle" /\ xspError' = "other"
        /\ UNCHANGED <<acquiring, acqFailed, error, pc, told, failure>>
    BY <1>5 DEF TickFails, flags, view
  <2> QED
    BY <1>1, <2>1 DEF TellInv, RunInv, GivenUpInv, HasDaq
<1> QED
  BY <1>2, <1>3, <1>4, <1>5

LEMMA TellDestroyed ==
  ASSUME Waits, TypeOK, TellInv, GivenUpInv, Destroyed \/ Replaced \/ BindClash
  PROVE  TellInv' /\ GivenUpInv'
<1>1. /\ pc = "destroy" /\ daq' = NoDaq /\ pc' = "idle"
      /\ UNCHANGED <<mode, acquiring, told, failure>>
  BY DEF Destroyed, Replaced, BindClash, settings, flags, view, TellInv
<1>2. daq'.phase = "none" /\ daq'.running = FALSE /\ daq'.queue = <<>>
  BY <1>1 DEF NoDaq
<1>3. failure' \in {"none", "erased"}
  BY <1>1 DEF GivenUpInv, TypeOK, Knowledge
<1> QED
  BY <1>1, <1>2, <1>3 DEF TellInv, RunInv, GivenUpInv

(* What a step of the ctrl thread makes of the DAQ object.                 *)
LEMMA ThreadSteps ==
  ASSUME TypeOK, Daq
  PROVE  /\ UNCHANGED <<mode, acquiring, told, pc, acqFailed, xspError, error>>
         /\ HasDaq
         /\ DaqFail \/ UNCHANGED failure
         /\ DaqTake \/ (daq'.queue = daq.queue /\ (daq.failed => daq'.failed))
<1>1. UNCHANGED <<mode, acquiring, told, pc, acqFailed, xspError, error>>
  BY DEF Daq, DaqTake, DaqLeave, DaqEnd, DaqFail, DaqAbort, DaqHalt, Thread, flags,
     errors, settings
<1>2. HasDaq /\ (DaqFail \/ UNCHANGED failure)
  BY DEF Daq, DaqTake, DaqLeave, DaqEnd, DaqFail, DaqAbort, DaqHalt, Thread, HasDaq
<1>3. DaqTake \/ (daq'.queue = daq.queue /\ (daq.failed => daq'.failed))
  BY DaqFields DEF Daq, DaqLeave, DaqEnd, DaqFail, DaqAbort, DaqHalt
<1> QED
  BY <1>1, <1>2, <1>3

LEMMA TellThread ==
  ASSUME Waits, TypeOK, TellInv, GivenUpInv, Daq
  PROVE  TellInv' /\ GivenUpInv'
<1>0. CASE pc = "destroy"
  <2>1. failure \in {"none", "erased"}
    BY <1>0 DEF GivenUpInv, TypeOK, Knowledge
  <2>2. failure' = failure
    BY <1>0, ThreadSteps DEF GivenUpInv, DaqFail, GaveUp
  <2> QED
    BY <1>0, <2>1, <2>2, ThreadSteps DEF TellInv, GivenUpInv
<1> SUFFICES ASSUME pc # "destroy" PROVE TellInv' /\ GivenUpInv'
  BY <1>0
<1>1. RunInv /\ HasDaq /\ HasDaq'
  BY ThreadSteps, DaqFields DEF TellInv, HasDaq, Daq, DaqTake, DaqLeave, DaqEnd,
     DaqFail, DaqAbort, DaqHalt
<1>2. UNCHANGED <<mode, acquiring, told, pc, acqFailed, xspError, error>>
  BY ThreadSteps
<1>3. CASE DaqTake
  <2>1. /\ daq.phase = "ready" /\ daq.running /\ daq.queue = <<"start">>
    BY <1>1, <1>3 DEF DaqTake, Thread, RunInv
  <2>2. /\ daq'.phase = "loop" /\ daq'.running = daq.running /\ daq'.queue = <<>>
        /\ failure' = failure
    BY <1>3, <2>1, DaqFields, QueueOfOne DEF DaqTake
  <2>3. failure # "given"
    BY <2>1, QueueOfOne DEF GivenUpInv
  <2> QED
    BY <1>1, <1>2, <2>1, <2>2, <2>3 DEF TellInv, RunInv, GivenUpInv
<1>4. CASE DaqLeave
  <2>1. /\ daq.phase = "loop" /\ daq'.phase = "end" /\ daq'.running = daq.running
        /\ daq'.queue = daq.queue /\ failure' = failure
    BY <1>4, DaqFields DEF DaqLeave, Thread
  <2> QED
    BY <1>1, <1>2, <2>1 DEF TellInv, RunInv, GivenUpInv
<1>5. CASE DaqEnd
  <2>1. /\ daq.phase = "end" /\ daq'.phase = "ready" /\ ~daq'.running
        /\ daq'.queue = daq.queue /\ failure' = failure
        /\ daq'.failed = daq.failed
    BY <1>5, DaqFields DEF DaqEnd, Thread
  <2> QED
    BY <1>1, <1>2, <2>1 DEF TellInv, RunInv, GivenUpInv
<1>6. CASE DaqFail
  <2>1. /\ daq.phase = "loop" /\ daq.running /\ daq'.phase = "abort"
        /\ daq'.queue = daq.queue /\ daq'.failed /\ daq'.running
        /\ failure' = "given"
    BY <1>6, DaqFields DEF DaqFail, Thread, GaveUp, TellInv
  <2> QED
    BY <1>1, <1>2, <2>1 DEF TellInv, RunInv, GivenUpInv
<1>7. CASE DaqAbort
  <2>1. /\ daq.phase = "abort" /\ daq'.phase = "halt" /\ ~daq'.running
        /\ daq'.queue = daq.queue /\ failure' = failure
        /\ daq'.failed = daq.failed
    BY <1>7, DaqFields DEF DaqAbort, Thread
  <2> QED
    BY <1>1, <1>2, <2>1 DEF TellInv, RunInv, GivenUpInv
<1>8. CASE DaqHalt
  <2>1. /\ daq.phase = "halt" /\ daq'.phase = "end" /\ ~daq'.running
        /\ daq'.queue = daq.queue /\ failure' = failure
        /\ daq'.failed = daq.failed
    BY <1>1, <1>8, DaqFields DEF DaqHalt, Thread, RunInv
  <2> QED
    BY <1>1, <1>2, <2>1 DEF TellInv, RunInv, GivenUpInv
<1> QED
  BY <1>3, <1>4, <1>5, <1>6, <1>7, <1>8 DEF Daq

LEMMA TellStep ==
  ASSUME Waits, TypeOK, TellInv, GivenUpInv, [Next]_vars
  PROVE  TellInv' /\ GivenUpInv'
<1>1. CASE HwDone \/ UNCHANGED vars
  <2>1. UNCHANGED <<mode, acquiring, told, pc, daq, failure, acqFailed, xspError,
                    error>>
    BY <1>1 DEF HwDone, vars, flags, errors, settings, view
  <2> QED
    BY <2>1 DEF TellInv, RunInv, GivenUpInv, HasDaq
<1> QED
  BY <1>1, TellSet, TellDisconnect, TellEnable, TellStart, TellStop, TellStatus,
     TellDestroyed, TellThread DEF Next, Command, Reactor

(* acq_running_ and acquiring_ go together for a client that waits.        *)
LEMMA TellInvariant == ASSUME Waits PROVE Spec => [](TellInv /\ GivenUpInv)
<1>1. Init => TellInv /\ GivenUpInv
  BY DEF Init, TellInv, GivenUpInv, RunInv, NoDaq
<1>2. TypeOK /\ TellInv /\ GivenUpInv /\ [Next]_vars => TellInv' /\ GivenUpInv'
  BY TellStep
<1> QED
  BY <1>1, <1>2, TypeCorrect, PTL DEF Spec

(***************************************************************************)
(* A client that waits learns of an acquisition that was given up from the *)
(* second status reply that says "complete" at the latest, unless one of   *)
(* its configure messages erased the failure after the first (the history  *)
(* is then "erased"; the client's next start is such a message).           *)
(***************************************************************************)
THEOREM FailureReported == ASSUME Waits PROVE Spec => []FailureTold
<1>1. GivenUpInv => FailureTold
  BY DEF GivenUpInv, FailureTold
<1> QED
  BY <1>1, TellInvariant, PTL
-----------------------------------------------------------------------------
(* What the history of library failures says of a step.                    *)
SoundStep ==
  /\ daq'.phase = "abort" => daq.phase = "abort" \/ ~connected
  /\ pc = "stopping" /\ pc' = "idle" => hw' = [c \in Cards |-> "idle"]
  /\ told /\ ~told' /\ ~acquiring' => hw' = hw

(* A step of the reactor or of the detector that keeps to it because it    *)
(* leaves the phase of the ctrl thread, a stop and the last reply alone.   *)
LEMMA SoundGuards == TypeOK /\ Sound!Next => SoundStep
<1> SUFFICES ASSUME TypeOK, Sound!Next PROVE SoundStep
  OBVIOUS
<1> USE DEF SoundStep
<1>1. CASE Sound!Set \/ Sound!TickFails
  <2>1. UNCHANGED <<daq, told>> /\ pc # "stopping"
    BY <1>1 DEF Sound!Set, Sound!SetParam, Sound!SetTrigger, Sound!SetEnergy,
       Sound!SetMode, Sound!Configure, Sound!TickFails, Sound!view
  <2> QED
    BY <2>1
<1>8. CASE Sound!StatusBegin \/ Sound!BindClash \/ Sound!HwDone
  <2>1. UNCHANGED <<daq, told>> /\ (pc = "stopping" => pc' # "idle")
    BY <1>8 DEF Sound!StatusBegin, Sound!BindClash, Sound!HwDone, Sound!view
  <2> QED
    BY <2>1
<1>2. CASE Sound!Command
  <2>1. pc = "idle" /\ daq'.phase = "abort" => daq.phase = "abort"
    <3>1. CASE Sound!Disconnect \/ Sound!EnableDAQ
      BY <3>1, DaqFields DEF Sound!Disconnect, Sound!EnableDAQ,
         Sound!QueueShutdown, Sound!FreshDaq, Sound!NoDaq
    <3>2. CASE Sound!Start \/ Sound!StartFails
      BY <3>2, DaqFields DEF Sound!Start, Sound!StartFails, Sound!PrimeDAQ
    <3>3. CASE Sound!StopDAQ \/ Sound!StopNow
      BY <3>3, DaqFields DEF Sound!StopDAQ, Sound!StopNow
    <3>4. CASE \/ Sound!Connect \/ Sound!ConnectAgain \/ Sound!DisconnectClosed
               \/ Sound!StopIdle \/ Sound!SoftwareTrigger
      BY <3>4 DEF Sound!Connect, Sound!ConnectAgain, Sound!DisconnectClosed,
         Sound!StopIdle, Sound!SoftwareTrigger
    <3> QED
      BY <1>2, <3>1, <3>2, <3>3, <3>4 DEF Sound!Command
  <2>2. pc = "idle"
    BY <1>2 DEF Sound!Command, Sound!Connect, Sound!ConnectAgain,
       Sound!Disconnect, Sound!DisconnectClosed, Sound!EnableDAQ, Sound!Start,
       Sound!StartFails, Sound!StartRequest, Sound!StopIdle, Sound!StopNow,
       Sound!StopDAQ, Sound!SoftwareTrigger, Sound!Configure
  <2>3. UNCHANGED told \/ Sound!Start \/ Sound!StartFails
    BY <1>2 DEF Sound!Command, Sound!Connect, Sound!ConnectAgain,
       Sound!Disconnect, Sound!DisconnectClosed, Sound!EnableDAQ, Sound!StopIdle,
       Sound!StopNow, Sound!StopCards, Sound!StopDAQ, Sound!SoftwareTrigger
  <2>4. Sound!Start => acquiring' = TRUE
    BY DEF Sound!Start
  <2>5. Sound!StartFails => hw' = hw
    BY DEF Sound!StartFails
  <2> QED
    BY <2>1, <2>2, <2>3, <2>4, <2>5
<1>3. CASE Sound!Destroyed \/ Sound!Replaced
  <2>1. daq'.phase # "abort"
    <3>1. Sound!NoDaq.phase = "none" /\ Sound!FreshDaq.phase = "ready"
      BY DEF Sound!NoDaq, Sound!FreshDaq
    <3> QED
      BY <1>3, <3>1 DEF Sound!Destroyed, Sound!Replaced
  <2>2. UNCHANGED told /\ pc # "stopping"
    BY <1>3 DEF Sound!Destroyed, Sound!Replaced, Sound!view
  <2> QED
    BY <2>1, <2>2
<1>4. CASE Sound!StopWaited
  BY <1>4 DEF Sound!StopWaited, Sound!StopCards, Sound!Result, Sound!Cards, Cards
<1>5. CASE Sound!StatusRunning \/ Sound!StatusEnded
  <2>1. UNCHANGED <<daq, hw>> /\ pc # "stopping"
    BY <1>5 DEF Sound!StatusRunning, Sound!StatusEnded, Sound!StatusReply
  <2> QED
    BY <2>1
<1>7. CASE Sound!Daq
  <2>1. UNCHANGED <<told, pc>>
    BY <1>7 DEF Sound!Daq, Sound!DaqTake, Sound!DaqLeave, Sound!DaqEnd,
       Sound!DaqFail, Sound!DaqAbort, Sound!DaqHalt, Sound!Thread
  <2>2. CASE Sound!DaqFail
    BY <2>1, <2>2 DEF Sound!DaqFail, Sound!Failing
  <2>3. CASE ~Sound!DaqFail
    <3>1. daq'.phase # "abort"
      BY <1>7, <2>3, DaqFields DEF Sound!Daq, Sound!DaqTake, Sound!DaqLeave,
         Sound!DaqEnd, Sound!DaqAbort, Sound!DaqHalt
    <3> QED
      BY <2>1, <3>1
  <2> QED
    BY <2>2, <2>3
<1> QED
  BY <1>1, <1>2, <1>3, <1>4, <1>5, <1>7, <1>8 DEF Sound!Next, Sound!Reactor

(***************************************************************************)
(* Until a call of the library fails: a card acquires only while           *)
(* acquiring_ is set, and the frames of card 0 read out mean that no card  *)
(* acquires.  The ctrl thread takes no error path, and unless it is being  *)
(* stopped, acq_running_ clear means that no card acquires, and a loop     *)
(* that ended did so because the frames were read out.                     *)
(***************************************************************************)
Active == \E c \in Cards : hw[c] \in {"armed", "running"}

CardsInv ==
  /\ Active => acquiring
  /\ \A c \in Child : hw[c] # "armed"
  /\ hw[0] = "done" => ~Active

FollowInv ==
  /\ pc = "ended" => HasDaq
  /\ HasDaq /\ pc # "destroy" => daq.phase \in {"ready", "loop", "end"}
  /\ HasDaq /\ pc \notin {"stopping", "destroy"} =>
       /\ ~daq.running => ~Active
       /\ daq.phase = "end" => hw[0] = "done"

ReachInv == CardsInv /\ FollowInv

Waiting == TypeOK /\ TellInv /\ DaqInv

(* The cards, as a function.                                               *)
LEMMA CardFields ==
  ASSUME TypeOK
  PROVE  /\ hw \in [Cards -> CardStates]
         /\ 0 \in Cards /\ Cards = {0} \cup Child /\ 0 \notin Child
  BY DetectorAssumption DEF TypeOK, Cards, Child

(* No card acquires when all of them are idle, or took the last frame.     *)
LEMMA CardsIdle ==
  ASSUME TypeOK, hw' = [c \in Cards |-> "idle"]
  PROVE  CardsInv' /\ ~Active'
  BY CardFields DEF CardsInv, Active

LEMMA CardsDone ==
  ASSUME TypeOK, CardsInv, hw' = AllDone
  PROVE  CardsInv' /\ ~Active' /\ hw'[0] = "done"
<1>1. /\ hw'[0] = "done"
      /\ \A c \in Cards : hw'[c] \notin {"armed", "running"}
  BY CardFields DEF AllDone, CardsInv, CardStates
<1> QED
  BY <1>1, CardFields DEF CardsInv, Active

(* A step of the reactor that leaves the cards and the DAQ object alone.   *)
LEMMA ReachKept ==
  ASSUME ReachInv, UNCHANGED <<hw, daq>>, acquiring => acquiring',
         pc' \in {pc, "status"} \/ (pc' = "ended" /\ HasDaq),
         pc \notin {"stopping", "destroy"} \/ pc' = pc
  PROVE  ReachInv'
  BY DEF ReachInv, CardsInv, FollowInv, Active, HasDaq

LEMMA ReachSet ==
  ASSUME Waits, Waiting, ReachInv, SoundStep,
         Set \/ ConnectAgain \/ DisconnectClosed \/ StopIdle \/ StatusBegin
             \/ TickFails
  PROVE  ReachInv'
<1>1. /\ pc = "idle" /\ UNCHANGED <<hw, daq, acquiring>>
      /\ pc' \in {pc, "status"} \/ (pc' = "ended" /\ HasDaq)
  BY DEF Set, SetParam, SetTrigger, SetEnergy, SetMode, ConnectAgain,
     DisconnectClosed, StopIdle, StatusBegin, TickFails, Configure, flags
<1> QED
  BY <1>1, ReachKept

LEMMA ReachConnect ==
  ASSUME Waits, Waiting, ReachInv, SoundStep, Connect \/ Disconnect \/ EnableDAQ
  PROVE  ReachInv'
<1> USE DEF Waiting
<1>1. pc = "idle" /\ acquiring' = acquiring
  BY DEF Connect, Disconnect, EnableDAQ, Configure, flags
<1>2. CASE Connect
  <2>1. ~HasDaq /\ UNCHANGED <<daq, pc>>
    BY <1>1, <1>2 DEF Connect, DaqInv
  <2>2. hw' = hw \/ hw' = [c \in Cards |-> "idle"]
    BY <1>2 DEF Connect, ConnectTo
  <2>3. CASE hw' = hw
    BY <1>1, <2>1, <2>3, ReachKept
  <2>4. CASE hw' = [c \in Cards |-> "idle"]
    BY <1>1, <2>1, <2>4, CardsIdle DEF ReachInv, FollowInv, HasDaq
  <2> QED
    BY <2>2, <2>3, <2>4
<1>3. CASE Disconnect
  <2>1. hw' = hw
    BY <1>3 DEF Disconnect
  <2>2. CASE HasDaq
    <3>1. pc' = "destroy"
      BY <1>3, <2>2 DEF Disconnect
    <3> QED
      BY <1>1, <2>1, <3>1 DEF ReachInv, CardsInv, FollowInv, Active
  <2>3. CASE ~HasDaq
    <3>1. pc' = pc /\ daq' = daq
      BY <1>1, <1>3, <2>3, DaqFields DEF Disconnect, QueueShutdown
    <3> QED
      BY <1>1, <2>1, <3>1, ReachKept
  <2> QED
    BY <2>2, <2>3
<1>4. CASE EnableDAQ
  <2>1. hw' = hw /\ told /\ ~HasDaq
    BY <1>4 DEF EnableDAQ, Waits
  <2>2. ~Active /\ ~Active'
    BY <2>1 DEF TellInv, ReachInv, CardsInv, Active
  <2>3. pc' = pc /\ (daq' = daq \/ daq' = FreshDaq)
    BY <1>4, <2>1 DEF EnableDAQ
  <2>4. FreshDaq.phase = "ready"
    BY DEF FreshDaq, NoDaq
  <2>5. CardsInv'
    BY <1>1, <2>1 DEF ReachInv, CardsInv, Active
  <2>6. FollowInv'
    BY <1>1, <2>1, <2>2, <2>3, <2>4 DEF FollowInv, HasDaq
  <2> QED
    BY <2>5, <2>6 DEF ReachInv
<1> QED
  BY <1>2, <1>3, <1>4

LEMMA ReachStart ==
  ASSUME Waits, Waiting, ReachInv, SoundStep, Start \/ StartFails
  PROVE  ReachInv'
<1> USE DEF Waiting
<1>1. /\ pc = "idle" /\ told /\ ~told' /\ ~acquiring /\ UNCHANGED pc
      /\ mode = "mca" /\ ~daq.running /\ daq.phase \in {"none", "ready", "loop"}
  BY DEF Start, StartFails, StartRequest, Configure, Waits, TellInv, RunInv,
     CtrlSettled
<1>2. CASE StartFails
  <2>1. UNCHANGED <<daq, acquiring>>
    BY <1>2 DEF StartFails
  <2>2. hw' = hw
    BY <1>1, <2>1 DEF SoundStep
  <2> QED
    BY <1>1, <2>1, <2>2, ReachKept
<1>3. CASE Start
  <2>1. /\ acquiring'
        /\ hw' = [c \in Cards |-> IF c = 0 /\ trigger = "software" THEN "armed"
                                                                   ELSE "running"]
    BY <1>3 DEF Start
  <2>2. (\A c \in Child : hw'[c] # "armed") /\ hw'[0] # "done"
    BY <2>1, CardFields
  <2>3. CardsInv'
    BY <2>1, <2>2 DEF CardsInv
  <2>4. CASE HasDaq
    <3>1. daq.phase = "ready"
      BY <1>1, <2>4 DEF TellInv, RunInv, HasDaq
    <3>2. daq' = [daq EXCEPT !.running = TRUE, !.queue = Append(@, "start")]
      BY <1>1, <1>3, <2>4 DEF Start, PrimeDAQ
    <3>3. daq'.running = TRUE /\ daq'.phase = "ready"
      BY <3>1, <3>2, DaqFields
    <3> QED
      BY <1>1, <2>3, <3>3 DEF ReachInv, FollowInv
  <2>5. CASE ~HasDaq
    <3>1. UNCHANGED daq
      BY <1>3, <2>5 DEF Start, PrimeDAQ
    <3> QED
      BY <1>1, <2>3, <2>5, <3>1 DEF ReachInv, FollowInv, HasDaq
  <2> QED
    BY <2>4, <2>5
<1> QED
  BY <1>2, <1>3

LEMMA ReachStop ==
  ASSUME Waits, Waiting, ReachInv, SoundStep, StopNow \/ StopDAQ \/ StopWaited
  PROVE  ReachInv'
<1> USE DEF Waiting
<1>1. CASE StopNow
  <2>1. /\ pc = "idle" /\ ~HasDaq /\ acquiring' /\ UNCHANGED <<daq, pc>>
        /\ hw' = hw \/ hw' = [c \in Cards |-> "idle"]
    BY <1>1 DEF StopNow, StopCards, Configure, TellInv
  <2>2. CASE hw' = hw
    BY <2>1, <2>2, ReachKept
  <2>3. CASE hw' = [c \in Cards |-> "idle"]
    BY <2>1, <2>3, CardsIdle DEF ReachInv, FollowInv, HasDaq
  <2> QED
    BY <2>1, <2>2, <2>3
<1>2. CASE StopDAQ
  <2>1. /\ pc = "idle" /\ pc' = "stopping" /\ UNCHANGED <<acquiring, hw>>
        /\ daq' = [daq EXCEPT !.running = FALSE] /\ HasDaq
    BY <1>2 DEF StopDAQ, Configure, flags
  <2>2. daq'.phase = daq.phase
    BY <2>1, DaqFields
  <2> QED
    BY <2>1, <2>2 DEF ReachInv, CardsInv, FollowInv, Active, HasDaq
<1>3. CASE StopWaited
  <2>1. /\ pc = "stopping" /\ pc' = "idle" /\ daq.phase = "ready"
        /\ UNCHANGED daq
    BY <1>3 DEF StopWaited
  <2>2. hw' = [c \in Cards |-> "idle"]
    BY <2>1 DEF SoundStep
  <2> QED
    BY <2>1, <2>2, CardsIdle DEF ReachInv, FollowInv
<1> QED
  BY <1>1, <1>2, <1>3

(* The steps of the detector: a frame is the last one.                     *)
LEMMA ReachDone ==
  ASSUME Waits, Waiting, ReachInv, SoundStep, SoftwareTrigger \/ HwDone
  PROVE  ReachInv'
<1> USE DEF Waiting
<1>1. /\ UNCHANGED <<acquiring, daq, pc>>
      /\ hw' = hw \/ hw' = AllDone
  BY DEF SoftwareTrigger, HwDone, flags
<1>2. CASE hw' = hw
  BY <1>1, <1>2 DEF ReachInv, CardsInv, FollowInv, Active, HasDaq
<1>3. CASE hw' = AllDone
  BY <1>1, <1>3, CardsDone DEF ReachInv, FollowInv, HasDaq
<1> QED
  BY <1>1, <1>2, <1>3

LEMMA ReachReply ==
  ASSUME Waits, Waiting, ReachInv, SoundStep,
         Destroyed \/ Replaced \/ BindClash \/ StatusRunning \/ StatusEnded
  PROVE  ReachInv'
<1> USE DEF Waiting
<1>1. CASE StatusRunning \/ StatusEnded
  <2>1. /\ UNCHANGED <<daq, hw>> /\ pc' = "idle"
        /\ \/ pc = "status" /\ UNCHANGED acquiring
           \/ pc = "ended"
    BY <1>1 DEF StatusRunning, StatusEnded, StatusReply
  <2>2. pc = "ended" => ~Active
    BY DEF TellInv, ReachInv, FollowInv
  <2> QED
    BY <2>1, <2>2 DEF ReachInv, CardsInv, FollowInv, Active, HasDaq
<1>2. CASE Destroyed
  <2>1. NoDaq.phase = "none"
    BY DEF NoDaq
  <2>2. daq' = NoDaq /\ pc' = "idle" /\ UNCHANGED <<acquiring, hw>>
    BY <1>2 DEF Destroyed, flags
  <2> QED
    BY <2>1, <2>2 DEF ReachInv, CardsInv, FollowInv, Active, HasDaq
<1>3. ~Replaced /\ ~BindClash
  BY DEF Replaced, BindClash, TellInv
<1> QED
  BY <1>1, <1>2, <1>3

LEMMA ReachThread ==
  ASSUME Waits, Waiting, ReachInv, SoundStep, Daq
  PROVE  ReachInv'
<1> USE DEF Waiting
<1>1. UNCHANGED <<acquiring, pc>> /\ HasDaq
  BY ThreadSteps
<1>2. CASE DaqHalt
  <2>1. daq.phase = "halt" /\ hw' \in {hw, [hw EXCEPT ![0] = "idle"]}
    BY <1>2 DEF DaqHalt, Thread
  <2>2. pc = "destroy"
    BY <1>1, <2>1 DEF ReachInv, FollowInv
  <2>3. \A c \in Cards : hw'[c] \in {hw[c], "idle"}
    BY <2>1, CardFields
  <2>4. hw'[0] = "done" => hw[0] = "done"
    BY <2>3, CardFields
  <2>5. \A c \in Child : hw'[c] # "armed"
    BY <2>3, CardFields DEF ReachInv, CardsInv
  <2>6. Active' => Active
    BY <2>3 DEF Active
  <2> QED
    BY <1>1, <2>2, <2>4, <2>5, <2>6 DEF ReachInv, CardsInv, FollowInv
<1>3. CASE ~DaqHalt
  <2>1. hw' = hw
    BY <1>3 DEF Daq, DaqTake, DaqLeave, DaqEnd, DaqFail, DaqAbort
  <2>2. CardsInv'
    BY <1>1, <2>1 DEF ReachInv, CardsInv, Active
  <2>3. CASE pc = "destroy"
    BY <1>1, <2>2, <2>3 DEF ReachInv, FollowInv
  <2>4. CASE pc # "destroy"
    <3>1. daq.phase \in {"ready", "loop", "end"} /\ RunInv
      BY <1>1, <2>4 DEF ReachInv, FollowInv, TellInv
    <3>2. CASE DaqTake
      <4>1. daq.queue = <<"start">>
        BY <3>1, <3>2 DEF DaqTake, RunInv
      <4>2. daq'.phase = "loop" /\ daq'.running = daq.running
        BY <3>2, <4>1, DaqFields, QueueOfOne DEF DaqTake
      <4> QED
        BY <1>1, <2>1, <2>2, <4>2 DEF ReachInv, FollowInv, Active, HasDaq
    <3>3. CASE DaqLeave
      <4>1. /\ daq.phase = "loop" /\ (hw[0] = "done" \/ ~daq.running)
            /\ daq'.phase = "end" /\ daq'.running = daq.running
        BY <3>3, DaqFields DEF DaqLeave, Thread
      <4>2. pc # "stopping" => daq.running
        BY <3>1, <3>3 DEF RunInv, DaqLeave, Thread
      <4> QED
        BY <1>1, <2>1, <2>2, <4>1, <4>2 DEF ReachInv, FollowInv, Active, HasDaq
    <3>4. CASE DaqEnd
      <4>1. daq.phase = "end" /\ daq'.phase = "ready"
        BY <3>4, DaqFields DEF DaqEnd, Thread
      <4>2. pc # "stopping" => ~Active
        BY <1>1, <2>4, <4>1 DEF ReachInv, FollowInv, CardsInv
      <4> QED
        BY <1>1, <2>1, <2>2, <4>1, <4>2 DEF ReachInv, FollowInv, Active, HasDaq
    <3>5. ~DaqFail
      <4>1. SUFFICES ASSUME DaqFail PROVE FALSE
        OBVIOUS
      <4>2. daq'.phase = "abort"
        BY <4>1, DaqFields DEF DaqFail
      <4>3. connected
        BY <1>1, <2>4 DEF DaqInv, TellInv, TypeOK, ReactorPcs
      <4> QED
        BY <3>1, <4>2, <4>3 DEF SoundStep
    <3>6. ~DaqAbort
      BY <3>1 DEF DaqAbort, Thread
    <3> QED
      BY <1>3, <3>2, <3>3, <3>4, <3>5, <3>6 DEF Daq
  <2> QED
    BY <2>3, <2>4
<1> QED
  BY <1>2, <1>3

LEMMA ReachStep ==
  ASSUME Waits, Waiting, ReachInv, SoundStep, Next
  PROVE  ReachInv'
  BY ReachSet, ReachConnect, ReachStart, ReachStop, ReachDone, ReachReply,
     ReachThread DEF Next, Command, Reactor

(* The history of library failures adds nothing to the steps.              *)
LEMMA HistoryOnly == MCSpec => Spec
<1>1. MCInit => Init
  BY DEF MCInit
<1>2. [MCNext]_<<vars, sound>> => [Next]_vars
  BY DEF MCNext
<1> QED
  BY <1>1, <1>2, PTL DEF MCSpec, Spec

(***************************************************************************)
(* For a client that waits, and until a call of the library fails, a card  *)
(* that acquires can be stopped: acquiring_ is set, so that a stop request *)
(* is not taken for one that has nothing to do.                            *)
(***************************************************************************)
THEOREM CardsCanBeStopped == ASSUME Waits PROVE MCSpec => []SoundStopReachesCards
<1> DEFINE Inv == sound => ReachInv
<1>1. MCInit => Inv
  <2> SUFFICES ASSUME MCInit PROVE ReachInv
    OBVIOUS
  <2>1. /\ hw = [c \in Cards |-> "idle"] /\ daq.phase = "none" /\ pc = "idle"
    BY DEF MCInit, Init, NoDaq
  <2> QED
    BY <2>1, DetectorAssumption DEF ReachInv, CardsInv, FollowInv, Active, HasDaq,
       Cards, Child
<1>2. Waiting /\ Inv /\ [MCNext]_<<vars, sound>> => Inv'
  <2> SUFFICES ASSUME Waiting, Inv, [MCNext]_<<vars, sound>>, sound' PROVE ReachInv'
    OBVIOUS
  <2>1. CASE MCNext
    <3>1. sound /\ Sound!Next /\ Next
      BY <2>1 DEF MCNext
    <3>2. SoundStep
      BY <3>1, SoundGuards DEF Waiting
    <3> QED
      BY <3>1, <3>2, ReachStep
  <2>2. CASE UNCHANGED <<vars, sound>>
    BY <2>2 DEF vars, flags, ReachInv, CardsInv, FollowInv, Active, HasDaq
  <2> QED
    BY <2>1, <2>2
<1>3. Spec => []Waiting
  BY TellInvariant, TypeCorrect, DaqInvariant, PTL DEF Waiting
<1>4. Inv => SoundStopReachesCards
  BY DEF ReachInv, CardsInv, Active, SoundStopReachesCards, StopReachesCards
<1> QED
  BY <1>1, <1>2, <1>3, <1>4, HistoryOnly, PTL DEF MCSpec
=============================================================================
