---------------------------- MODULE Acquisition ----------------------------
(***************************************************************************)
(* What the data acquisition promises its client, without threads: an      *)
(* acquisition is begun for a number of frames, its frames are counted as  *)
(* they are read out, and it finishes when all of them are.  The promise   *)
(* is for a client that stops none: once it has, nothing is promised.      *)
(***************************************************************************)
EXTENDS Naturals

CONSTANT MaxFrames   (* the largest number of frames of an acquisition     *)

VARIABLES
  active,      (* an acquisition is running                                *)
  target,      (* the frames it was begun for                              *)
  delivered,   (* the frames read out so far                               *)
  withdrawn    (* the client has stopped an acquisition                    *)

acqVars == <<active, target, delivered, withdrawn>>

AcqInit == ~active /\ target = 0 /\ delivered = 0 /\ ~withdrawn

Begin(n) ==
  /\ ~active
  /\ active' = TRUE /\ target' = n /\ delivered' = 0

Deliver ==
  /\ active
  /\ delivered' \in delivered + 1 .. target
  /\ UNCHANGED <<active, target>>

Finish ==
  /\ active /\ delivered = target
  /\ active' = FALSE
  /\ UNCHANGED <<target, delivered>>

Promised(action) == ~withdrawn /\ action /\ withdrawn' = FALSE
Withdrawn        == withdrawn' = TRUE

AcqNext ==
  Withdrawn \/ Promised((\E n \in 0 .. MaxFrames : Begin(n)) \/ Deliver \/ Finish)

AcqSafety == AcqInit /\ [][AcqNext]_acqVars

(* Frames go on being counted, and a complete acquisition finishes.        *)
AcqLiveness ==
  WF_acqVars(Promised(Deliver)) /\ WF_acqVars(Promised(Finish))

AcqSpec == AcqSafety /\ AcqLiveness
=============================================================================
