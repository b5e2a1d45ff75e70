--------------------------- MODULE XspressDetector ---------------------------
(***************************************************************************)
(* The detector object of the control server and the reactor thread of     *)
(* XspressController that serves it.  The reactor handles one request at a *)
(* time; the only other actors are the ctrl thread of the DAQ object,      *)
(* which is kept here at the grain of its phases (module XspressDAQ has    *)
(* its every step), and the detector itself.                               *)
(*                                                                         *)
(* A request of the client is one member of Requests.  "set" stands for    *)
(* the parameters that take effect at the next connection (cards, channels,*)
(* spectra, time frames, paths, flags), whose value is a member of Values. *)
(***************************************************************************)
EXTENDS Integers, Sequences, FiniteSets

CONSTANTS
  NumCards,   (* xsp_num_cards_                                            *)
  NumValues,  (* bound: how many values the structural parameters have     *)
  Requests,   (* the requests the client makes                             *)
  Patient,    (* it starts only when its last status reply said complete,  *)
              (* and enables the DAQ only then and once per connection     *)
  Settled,    (* a start or a stop finds the ctrl thread waiting for a task*)
              (* or in its loop, and no task queued                        *)
  MayFail,    (* calls of the library may report an error                  *)
  MaxQueue    (* bound: the tasks queued for the ctrl thread               *)

AllRequests == {"set", "mca", "list", "trigger_mode", "energy", "connect",
                "disconnect", "enable", "start", "stop", "trigger", "status"}

ASSUME DetectorAssumption ==
  /\ NumCards \in Nat \ {0}
  /\ NumValues \in Nat \ {0}
  /\ Requests \subseteq AllRequests
  /\ {Patient, Settled, MayFail} \subseteq BOOLEAN
  /\ MaxQueue \in Nat \ {0}

Cards  == 0 .. NumCards - 1
Child  == 1 .. NumCards - 1
Values == 1 .. NumValues
Modes  == {"mca", "list"}

VARIABLES
  connected,   (* connected_                                               *)
  acquiring,   (* acquiring_                                               *)
  reconnect,   (* reconnect_required_                                      *)
  acqFailed,   (* acq_failed_                                              *)
  xspError,    (* error_string_ of the detector                            *)
  error,       (* error_ of the controller                                 *)
  mode,        (* xsp_mode_                                                *)
  trigger,     (* xsp_trigger_mode_                                        *)
  param,       (* the structural parameters                                *)
  conn,        (* how far the last connection got, and with which mode and *)
               (* parameters                                               *)
  daq,         (* daq_: its flags, its queue and its ctrl thread           *)
  hw,          (* what each card does                                      *)
  pc,          (* where the reactor is                                     *)
  told,        (* the client: did the last status reply say complete       *)
  failure      (* history: what the client knows of an acquisition the DAQ *)
               (* gave up (see Knowledge)                                  *)

settings == <<mode, trigger, param>>
flags    == <<connected, acquiring, reconnect>>
errors   == <<acqFailed, xspError, error>>
view     == <<told, failure>>
vars     == <<flags, errors, settings, conn, daq, hw, pc, view>>

(* No connection; no DAQ object.                                           *)
Closed == [stage |-> "none", param |-> 0, mode |-> "mca"]
NoDaq  == [phase |-> "none", running |-> FALSE, failed |-> FALSE,
           queue |-> <<>>, param |-> 0]

(* The stages of the connect command: the library configured; the settings *)
(* restored up to the clock period; every step done.                       *)
Stages == {"none", "open", "restored", "ready"}

(* The phases of the ctrl thread: waiting for a task; in the acquisition   *)
(* loop; about to clear acq_running_ at its end; about to clear it because *)
(* of an error; about to stop the detector because of it; finished.        *)
Phases == {"none", "ready", "loop", "end", "abort", "halt", "gone"}

Daqs == [phase : Phases, running : BOOLEAN, failed : BOOLEAN,
         queue : Seq({"start", "shutdown"}), param : {0} \cup Values]

(***************************************************************************)
(* What the client knows of an acquisition that was given up: there is     *)
(* none; no reply says complete yet; one reply said complete and carried   *)
(* nothing of the failure; a second one did, too; the failure was erased   *)
(* by a configure message before any reply carried it.                     *)
(***************************************************************************)
Knowledge == {"none", "given", "hidden", "untold", "erased"}

FreshDaq == [NoDaq EXCEPT !.phase = "ready", !.param = param]
HasDaq   == daq.phase # "none"

-----------------------------------------------------------------------------
Init ==
  /\ connected = FALSE /\ acquiring = FALSE /\ reconnect = FALSE
  /\ acqFailed = FALSE /\ xspError = "none" /\ error = "none"
  /\ mode = "mca" /\ trigger = "software" /\ param = 1
  /\ conn = Closed /\ daq = NoDaq
  /\ hw = [c \in Cards |-> "idle"]
  /\ pc = "idle" /\ told = TRUE /\ failure = "none"

-----------------------------------------------------------------------------
(***************************************************************************)
(* The requests.  Every one but a status request is a configure message,   *)
(* which first clears the error text and the failed acquisition; a command *)
(* that fails leaves its error text.  A failure that a reply has hidden so *)
(* far is erased by that, and one the reactor has not found yet by a       *)
(* request that restarts, replaces or destroys the DAQ object.             *)
(***************************************************************************)
Erases(r) ==
  \/ failure = "hidden"
  \/ failure = "given" /\ r \in {"start", "disconnect", "enable"}

Configure(r) ==
  /\ pc = "idle" /\ r \in Requests
  /\ acqFailed' = FALSE
  /\ failure' = IF Erases(r) THEN "erased" ELSE failure

CtrlSettled == daq.phase \in {"none", "ready", "loop"} /\ daq.queue = <<>>

Reply(ok) ==
  /\ error' = IF ok THEN "none" ELSE "other"
  /\ xspError' = IF ok THEN xspError ELSE "other"

(* A library call succeeds, or it may not.                                 *)
Result == IF MayFail THEN BOOLEAN ELSE {TRUE}

ReconnectRequired == reconnect' = (reconnect \/ connected)

SetParam ==
  /\ Configure("set") /\ Reply(TRUE)
  /\ \E v \in Values \ {param} : param' = v
  /\ ReconnectRequired
  /\ UNCHANGED <<connected, acquiring, mode, trigger, conn, daq, hw, pc, told>>

(* Mutant: a mode that is none of the two is accepted.                     *)
SetModeUnchecked(m) ==
  /\ Configure(m) /\ Reply(TRUE)
  /\ mode # m /\ mode' \in {m, "other"}
  /\ ReconnectRequired
  /\ UNCHANGED <<connected, acquiring, trigger, param, conn, daq, hw, pc, told>>

SetMode(m) ==
  /\ Configure(m) /\ Reply(TRUE)
  /\ mode # m /\ mode' = m
  /\ ReconnectRequired
  /\ UNCHANGED <<connected, acquiring, trigger, param, conn, daq, hw, pc, told>>

SetTrigger ==
  /\ Configure("trigger_mode") /\ Reply(TRUE)
  /\ trigger' \in {"software", "internal"} \ {trigger}
  /\ UNCHANGED <<flags, mode, param, conn, daq, hw, pc, told>>

(* The energy is sent to a connected detector at once; a failure reaches   *)
(* the error string of the detector, not the reply.                        *)
SetEnergy ==
  /\ Configure("energy")
  /\ error' = "none"
  /\ \E ok \in Result :
       xspError' = IF connected /\ ~ok THEN "other" ELSE xspError
  /\ UNCHANGED <<flags, settings, conn, daq, hw, pc, told>>

(***************************************************************************)
(* The connect command runs a chain: configure the library; restore the    *)
(* settings (nine calls up to the clock period, then the trigger mode and  *)
(* the trigger input); read the connected channels; set up the clocks; set *)
(* up the control register.  A failing call ends the chain.  The reconnect *)
(* flag is written by the first call and after the ninth of the restore.   *)
(***************************************************************************)
ConnectTo(stage, flagged) ==
  /\ conn' = [stage |-> stage, param |-> param, mode |-> mode]
  /\ connected' = TRUE
  /\ reconnect' = flagged
  /\ hw' = [c \in Cards |-> "idle"]
  /\ Reply(stage = "ready")

(* Mutant: the flag is cleared whatever became of the restore.             *)
ConnectClearsFlag ==
  /\ Configure("connect") /\ ~connected
  /\ \/ ConnectTo("ready", FALSE)
     \/ MayFail /\ \E s \in {"open", "restored"} : ConnectTo(s, FALSE)
     \/ MayFail /\ Reply(FALSE) /\ UNCHANGED <<conn, connected, reconnect, hw>>
  /\ UNCHANGED <<acquiring, settings, daq, pc, told>>

Connect ==
  /\ Configure("connect") /\ ~connected
  /\ \/ ConnectTo("ready", FALSE)
     \/ MayFail /\ ConnectTo("restored", FALSE)
     \/ MayFail /\ ConnectTo("open", TRUE)
     \/ MayFail /\ Reply(FALSE) /\ UNCHANGED <<conn, connected, reconnect, hw>>
  /\ UNCHANGED <<acquiring, settings, daq, pc, told>>

ConnectAgain ==
  /\ Configure("connect") /\ connected
  /\ Reply(FALSE)
  /\ UNCHANGED <<flags, settings, conn, daq, hw, pc, told>>

(* Disconnecting closes the library, which may fail, and then destroys the *)
(* DAQ object in either case.                                              *)
CloseWith(ok) ==
  /\ connected' = (connected /\ ~ok)
  /\ conn' = IF ok THEN Closed ELSE conn
  /\ Reply(ok)

QueueShutdown ==
  daq' = [daq EXCEPT !.queue = IF HasDaq THEN Append(@, "shutdown") ELSE @]

(* Mutants: the DAQ object outlives a connection that closed; the library  *)
(* is closed only when the DAQ object is gone.                             *)
DisconnectKeepsDaq ==
  /\ Configure("disconnect") /\ connected
  /\ \E ok \in Result : CloseWith(ok)
  /\ UNCHANGED <<acquiring, reconnect, settings, hw, daq, pc, told>>

Disconnect ==
  /\ Configure("disconnect") /\ connected
  /\ \E ok \in Result : CloseWith(ok)
  /\ QueueShutdown
  /\ pc' = IF HasDaq THEN "destroy" ELSE "idle"
  /\ UNCHANGED <<acquiring, reconnect, settings, hw, told>>

DisconnectClosed ==
  /\ Configure("disconnect") /\ ~connected
  /\ Reply(TRUE)
  /\ UNCHANGED <<flags, settings, conn, daq, hw, pc, told>>

(* The destructor of the DAQ object returns.                               *)
Destroyed ==
  /\ pc = "destroy" /\ daq.phase = "gone"
  /\ daq' = NoDaq
  /\ pc' = "idle"
  /\ UNCHANGED <<flags, errors, settings, conn, hw, view>>

(* The DAQ object is built for the parameters as they are now; its status  *)
(* is not looked at, nor is that of a request with no endpoints, which     *)
(* changes nothing and has no action.                                      *)
EnableDAQ ==
  /\ Configure("enable") /\ Reply(TRUE)
  /\ Patient => told /\ ~HasDaq
  /\ \/ /\ connected /\ ~HasDaq
        /\ daq' = FreshDaq
        /\ UNCHANGED pc
     \/ /\ connected /\ HasDaq
        /\ QueueShutdown
        /\ pc' = "replace"
     \/ ~connected /\ UNCHANGED <<daq, pc>>
  /\ UNCHANGED <<flags, settings, conn, hw, told>>

(***************************************************************************)
(* A second DAQ object is built, its threads started, before the first one *)
(* is destroyed: its workers bind endpoints the first one's may still hold,*)
(* and the exception of that bind ends the process.                        *)
(***************************************************************************)
Replaced ==
  /\ pc = "replace" /\ daq.phase = "gone"
  /\ daq' = FreshDaq
  /\ pc' = "idle"
  /\ UNCHANGED <<flags, errors, settings, conn, hw, view>>

BindClash ==
  /\ pc = "replace" /\ daq.phase # "gone"
  /\ pc' = "crashed"
  /\ UNCHANGED <<flags, errors, settings, conn, daq, hw, view>>

(***************************************************************************)
(* Starting: program the trigger mode, start the child cards, arm or start *)
(* card 0 and, in MCA mode, tell the DAQ object.  After a failing call the *)
(* child cards may have started, and nothing undoes it.                    *)
(***************************************************************************)
StartRequest ==
  /\ Configure("start") /\ (Patient => told) /\ (Settled => CtrlSettled)
  /\ told' = FALSE
  /\ UNCHANGED <<connected, reconnect, settings, conn, pc>>

(* Mutant: acq_running_ is left to the ctrl thread.                        *)
PrimeDAQLate ==
  daq' = IF mode = "mca" /\ HasDaq
           THEN [daq EXCEPT !.queue = Append(@, "start")]
           ELSE daq

PrimeDAQ ==
  daq' = IF mode = "mca" /\ HasDaq
           THEN [daq EXCEPT !.running = TRUE, !.queue = Append(@, "start")]
           ELSE daq

Start ==
  /\ StartRequest /\ Reply(TRUE)
  /\ connected /\ Len(daq.queue) < MaxQueue
  /\ hw' = [c \in Cards |-> IF c = 0 /\ trigger = "software" THEN "armed"
                                                            ELSE "running"]
  /\ PrimeDAQ
  /\ acquiring' = TRUE

StartFails ==
  /\ StartRequest /\ Reply(FALSE)
  /\ \/ ~connected /\ UNCHANGED hw
     \/ /\ connected /\ MayFail
        /\ \E started \in SUBSET Child :
             hw' = [c \in Cards |-> IF c \in started THEN "running" ELSE hw[c]]
  /\ UNCHANGED <<acquiring, daq>>

(* Stopping does nothing when acquiring_ is not set.  The DAQ object is    *)
(* stopped first, which waits for its ctrl thread, then every card.        *)
StopIdle ==
  /\ Configure("stop") /\ Reply(TRUE)
  /\ ~acquiring
  /\ UNCHANGED <<flags, settings, conn, daq, hw, pc, told>>

StopCards ==
  /\ \E ok \in Result :
       /\ Reply(ok)
       /\ hw' = IF ok THEN [c \in Cards |-> "idle"] ELSE hw
  /\ acquiring' = (mode # "list")
  /\ UNCHANGED <<connected, reconnect, settings, conn, told>>

StopNow ==
  /\ Configure("stop") /\ acquiring
  /\ mode = "list" \/ ~HasDaq
  /\ StopCards
  /\ UNCHANGED <<daq, pc>>

StopDAQ ==
  /\ Configure("stop") /\ acquiring /\ (Settled => CtrlSettled)
  /\ mode = "mca" /\ HasDaq
  /\ error' = "none"
  /\ daq' = [daq EXCEPT !.running = FALSE]
  /\ pc' = "stopping"
  /\ UNCHANGED <<flags, settings, conn, hw, told, xspError>>

StopWaited ==
  /\ pc = "stopping" /\ daq.phase = "ready"
  /\ StopCards
  /\ pc' = "idle"
  /\ UNCHANGED <<daq, acqFailed, failure>>

(* A software trigger makes the armed detector take the next frame, which  *)
(* may be the last.                                                        *)
AllDone == [c \in Cards |-> IF c = 0 \/ hw[c] = "running" THEN "done" ELSE hw[c]]

SoftwareTrigger ==
  /\ Configure("trigger")
  /\ \E ok \in Result :
       /\ Reply(ok /\ acquiring /\ trigger = "software")
       /\ \/ UNCHANGED hw
          \/ /\ ok /\ acquiring /\ trigger = "software"
             /\ hw[0] = "armed" /\ hw' = AllDone
  /\ UNCHANGED <<flags, settings, conn, daq, pc, told>>

(***************************************************************************)
(* A status request copies the error of a failed acquisition first and     *)
(* polls the DAQ object afterwards, which is what finds the failure.  The  *)
(* failure is told by a reply that carries an error because of it, with    *)
(* whatever text the error string has by then.                             *)
(***************************************************************************)
StatusBegin ==
  /\ pc = "idle" /\ "status" \in Requests
  /\ error' = IF acqFailed THEN xspError ELSE error
  /\ pc' = IF acquiring /\ HasDaq /\ ~daq.running THEN "ended" ELSE "status"
  /\ UNCHANGED <<flags, acqFailed, xspError, settings, conn, daq, hw, view>>

StatusReply ==
  /\ told' = ~acquiring'
  /\ failure' = IF failure \in {"none", "erased"} \/ acquiring' THEN failure
                ELSE IF acqFailed /\ error # "none" THEN "none"
                ELSE IF failure = "given" THEN "hidden" ELSE "untold"
  /\ pc' = "idle"
  /\ UNCHANGED <<connected, reconnect, error, settings, conn, daq, hw>>

StatusRunning ==
  /\ pc = "status"
  /\ UNCHANGED <<acquiring, acqFailed, xspError>>
  /\ StatusReply

(* Mutant: the failure is put in the error string only.                    *)
StatusEndedTextOnly ==
  /\ pc = "ended"
  /\ acquiring' = FALSE
  /\ xspError' = IF daq.failed THEN "acq" ELSE xspError
  /\ UNCHANGED acqFailed
  /\ StatusReply

StatusEnded ==
  /\ pc = "ended"
  /\ acquiring' = FALSE
  /\ acqFailed' = (acqFailed \/ daq.failed)
  /\ xspError' = IF daq.failed THEN "acq" ELSE xspError
  /\ StatusReply

(* The tick of the reactor reads the counters of the cards; a failure only *)
(* overwrites the error string of the detector.                            *)
TickFails ==
  /\ pc = "idle" /\ connected /\ MayFail
  /\ xspError' = "other"
  /\ UNCHANGED <<flags, acqFailed, error, settings, conn, daq, hw, pc, view>>

-----------------------------------------------------------------------------
(***************************************************************************)
(* The ctrl thread of the DAQ object.                                      *)
(***************************************************************************)
Thread(phase) ==
  /\ daq.phase = phase /\ pc # "crashed"
  /\ UNCHANGED <<flags, errors, settings, conn, pc, told>>

DaqTake ==
  /\ Thread("ready") /\ daq.queue # <<>>
  /\ daq' = [daq EXCEPT
       !.queue = Tail(@), !.failed = FALSE,
       !.phase = IF Head(daq.queue) = "start" THEN "loop" ELSE "gone"]
  /\ UNCHANGED <<hw, failure>>

(* The loop ends when the frames are read out or acq_running_ is cleared.  *)
DaqLeave ==
  /\ Thread("loop") /\ (hw[0] = "done" \/ ~daq.running)
  /\ daq' = [daq EXCEPT !.phase = "end"]
  /\ UNCHANGED <<hw, failure>>

(* Mutant: acq_running_ is cleared by a stop only.                         *)
DaqEndKeepsRunning ==
  /\ Thread("end")
  /\ daq' = [daq EXCEPT !.phase = "ready"]
  /\ UNCHANGED <<hw, failure>>

DaqEnd ==
  /\ Thread("end")
  /\ daq' = [daq EXCEPT !.phase = "ready", !.running = FALSE]
  /\ UNCHANGED <<hw, failure>>

(* A poll of the detector fails; it does on a closed library.              *)
Failing == MayFail \/ ~connected

GaveUp == failure' = IF pc \in {"destroy", "replace"} THEN failure ELSE "given"

DaqFail ==
  /\ Thread("loop") /\ daq.running /\ Failing
  /\ daq' = [daq EXCEPT !.phase = "abort", !.failed = TRUE]
  /\ GaveUp
  /\ UNCHANGED hw

DaqAbort ==
  /\ Thread("abort")
  /\ daq' = [daq EXCEPT !.phase = "halt", !.running = FALSE]
  /\ UNCHANGED <<hw, failure>>

(* Card 0 is stopped; the loop goes on if acq_running_ was set meanwhile.  *)
DaqHalt ==
  /\ Thread("halt")
  /\ hw' \in {hw, [hw EXCEPT ![0] = "idle"]} /\ (~Failing => hw'[0] = "idle")
  /\ daq' = [daq EXCEPT !.phase = IF daq.running THEN "loop" ELSE "end"]
  /\ UNCHANGED failure

(* A running detector acquires its last frame.                             *)
HwDone ==
  /\ pc # "crashed" /\ hw[0] = "running"
  /\ hw' = AllDone
  /\ UNCHANGED <<flags, errors, settings, conn, daq, pc, view>>

-----------------------------------------------------------------------------
Set     == SetParam \/ SetTrigger \/ SetEnergy \/ \E m \in Modes : SetMode(m)
Command == \/ Connect \/ ConnectAgain \/ Disconnect \/ DisconnectClosed
           \/ EnableDAQ \/ Start \/ StartFails \/ StopIdle \/ StopNow \/ StopDAQ
           \/ SoftwareTrigger
Reactor == Destroyed \/ Replaced \/ StopWaited \/ StatusRunning \/ StatusEnded
Daq     == DaqTake \/ DaqLeave \/ DaqEnd \/ DaqFail \/ DaqAbort \/ DaqHalt

Next == \/ Set \/ Command \/ StatusBegin \/ TickFails
        \/ Reactor \/ BindClash \/ Daq \/ HwDone

Spec == Init /\ [][Next]_vars

(***************************************************************************)
(* The threads and the detector keep going, and the client keeps asking    *)
(* for the status: its requests reach the reactor in their order.          *)
(***************************************************************************)
Fairness ==
  /\ WF_vars(Reactor) /\ WF_vars(Daq) /\ WF_vars(HwDone)
  /\ SF_vars(StatusBegin)

FairSpec == Spec /\ Fairness

-----------------------------------------------------------------------------
Errors     == {"none", "acq", "other"}
CardStates == {"idle", "armed", "running", "done"}
ReactorPcs == {"idle", "destroy", "replace", "stopping", "status", "ended",
               "crashed"}

TypeOK ==
  /\ connected \in BOOLEAN /\ acquiring \in BOOLEAN /\ reconnect \in BOOLEAN
  /\ acqFailed \in BOOLEAN /\ told \in BOOLEAN
  /\ xspError \in Errors /\ error \in Errors
  /\ mode \in Modes /\ trigger \in {"software", "internal"} /\ param \in Values
  /\ conn \in [stage : Stages, param : {0} \cup Values, mode : Modes]
  /\ daq \in Daqs
  /\ hw \in [Cards -> CardStates] /\ pc \in ReactorPcs
  /\ failure \in Knowledge

(* A connection whose restore did not get through, or whose mode or        *)
(* parameters were changed since, says that a reconnection is required.    *)
ReconnectTold ==
  (connected /\ ~reconnect) =>
    /\ conn.stage \in {"restored", "ready"}
    /\ conn.mode = mode /\ conn.param = param

(* Between requests a DAQ object exists only on a connection, and reads    *)
(* the buffers for the parameters the library was configured with, or the  *)
(* reconnect flag is set.                                                  *)
DaqMatchesConnection ==
  (pc = "idle" /\ HasDaq) =>
    connected /\ (reconnect \/ daq.param = conn.param)

(* While a card acquires, a stop request reaches it: acquiring_ is set.    *)
StopReachesCards ==
  (pc \notin {"crashed", "destroy"} /\ \E c \in Cards : hw[c] \in {"armed", "running"})
    => acquiring

(***************************************************************************)
(* The failure of an acquisition comes through: of the status replies that *)
(* say complete, the first may carry nothing of it but the second carries  *)
(* an error, unless a configure message came between the two.  Whether the *)
(* ctrl thread gives up before, in or after a poll, whatever other errors  *)
(* overwrite the text, and with requests other than starts in between      *)
(* (getXspAcquiring, provideStatus and configure).                         *)
(***************************************************************************)
FailureTold == failure # "untold"
=============================================================================
