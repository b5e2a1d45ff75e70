-------------------------- MODULE MCXspressDetector --------------------------
(***************************************************************************)
(* XspressDetector for TLC, with a history of library failures, so that    *)
(* one run asks what holds with them and what holds until the first.       *)
(***************************************************************************)
EXTENDS XspressDetector

VARIABLE sound   (* history: no call of the library has failed             *)

(* The same detector with a library that does not fail.                    *)
Sound == INSTANCE XspressDetector WITH MayFail <- FALSE

MCInit == Init /\ sound = TRUE
MCNext == Next /\ sound' = (sound /\ Sound!Next)

(* A failure may happen, and nothing may rely on it to happen: fairness is *)
(* that of the steps without one.                                          *)
MCSpec == MCInit /\ [][MCNext]_<<vars, sound>> /\ Sound!Fairness

(* A stop request reaches every card that acquires (StopReachesCards),     *)
(* until a call of the library fails.                                      *)
SoundStopReachesCards == sound => StopReachesCards

(* What the client waits for comes: an *)
(* acquisition that the detector runs by itself, or that is stopped, is    *)
(* reported complete to a client that keeps asking, and disconnecting      *)
(* returns, in the middle of an acquisition too.                           *)
SoundCallsEnd ==
  /\ (sound /\ acquiring /\ HasDaq /\ hw[0] = "running") ~>
       (told \/ ~connected \/ ~sound)
  /\ (sound /\ pc = "stopping") ~> (told \/ ~connected \/ ~sound)
  /\ (sound /\ pc = "destroy") ~> (pc = "idle" \/ ~sound)
=============================================================================
