---------------------------- MODULE MCXspressDAQ ----------------------------
(***************************************************************************)
(* XspressDAQ for TLC, with histories of what the client and the detector  *)
(* have done, so that one run asks what holds in any case and what holds   *)
(* as long as they behave.                                                 *)
(***************************************************************************)
EXTENDS XspressDAQ

VARIABLES
  careful,   (* history: the client started only when it saw acq_running_  *)
             (* false, the detector reported no error and the stores of    *)
             (* the flags came in order                                    *)
  calm       (* history: careful, and the client called no stop            *)

(* The same threads with a client and a detector that behave.              *)
Careful == INSTANCE XspressDAQ WITH
  EagerStart <- FALSE, MayFail <- FALSE, OrderedFlags <- TRUE

MCInit == Init /\ careful = TRUE /\ calm = TRUE
MCNext ==
  /\ Next
  /\ careful' = (careful /\ Careful!Next)
  /\ calm' = (calm /\ careful' /\ cpc' # "stopping")

MCVars == <<vars, careful, calm>>
MCSpec == MCInit /\ [][MCNext]_MCVars /\ ThreadFairness /\ WF_vars(HwFrame)

(* A returned stop leaves the data path silent (StopIsQuiet).              *)
CarefulStopIsQuiet == careful => StopIsQuiet

(* Acknowledgements only go forwards (AckIsForward).                       *)
CarefulAckIsForward == careful => AckIsForward

(* Every worker sends every frame of an acquisition once and in order      *)
(* (SendsInOrder).                                                         *)
FramesInOrder == [][careful' => SendsInOrder]_vars

(***************************************************************************)
(* The acquisition the client sees: it is active from its call of start to *)
(* the fall of acq_running_, and the previous count is not yet zeroed at   *)
(* the beginning of the call.                                              *)
(***************************************************************************)
Abstract == INSTANCE Acquisition WITH
  active    <- running \/ cpc = "start",
  target    <- request,
  delivered <- IF cpc \in {"start", "reset"} THEN 0 ELSE frames,
  withdrawn <- ~calm

(***************************************************************************)
(* With a client that never stops an acquisition and a detector that       *)
(* never reports an error, the threads implement the abstract acquisition: *)
(* the client sees acq_running_ fall only when every frame it asked for is *)
(* counted, and, as long as the peers of the workers' sockets pull, it     *)
(* does fall.                                                              *)
(***************************************************************************)
ImplementsAcquisition ==
  Abstract!AcqSafety /\ (PeersPull => Abstract!AcqLiveness)

(***************************************************************************)
(* The calls that wait for the threads return, as long as the peers pull:  *)
(* stopAcquisition in whatever state it is called; the destructor if no    *)
(* acquisition is running when it is called, and also in the middle of one *)
(* if the client has stopped none before and the detector, which delivers  *)
(* its frames, reports no error: the shutdown task then waits behind the   *)
(* acquisition.  (A START left over by a stop may ask for more frames than *)
(* the detector is set up for, and the destructor then waits for ever.)    *)
(***************************************************************************)
CallsReturn ==
  PeersPull =>
    /\ cpc = "stopping" ~> cpc = "stopped"
    /\ cpc = "joining" /\ ~running ~> cpc = "gone"
    /\ cpc = "joining" /\ calm ~> cpc = "gone" \/ ~calm
=============================================================================
