----------------------------- MODULE FrameLog ------------------------------
(***************************************************************************)
(* What a writer promises of the frames of an acquisition, without buffers:*)
(* they are taken in order from the first one, none missing and none twice;*)
(* taken frames are pending until a chunk of them is complete or the last  *)
(* frame has come, and are then written all together, in order.  A new     *)
(* acquisition starts from nothing; a frame that was pending when its      *)
(* acquisition was abandoned is never written.                             *)
(***************************************************************************)
EXTENDS Naturals, Sequences

CONSTANT LogFrames   (* the frames there are: an acquisition and a number   *)

VARIABLES
  written,     (* the frames written                                       *)
  pending,     (* the frames taken and not written                         *)
  chunk,       (* the number of frames written together                    *)
  total        (* the number of frames of an acquisition                   *)

logVars == <<written, pending, chunk, total>>

LogInit == written = <<>> /\ pending = <<>>

(* Frame f, with the frames p pending and w written before it.             *)
Take(f, w, p) ==
  LET taken == Append(p, f) IN
    /\ f.id = Len(w) + Len(p)
    /\ p # <<>> => p[1].acq = f.acq
    /\ IF Len(taken) = chunk \/ f.id = total - 1
         THEN written' = w \o taken /\ pending' = <<>>
         ELSE written' = w /\ pending' = taken
    /\ UNCHANGED <<chunk, total>>

(* A new chunk size or number of frames; a block of the old size is lost.  *)
Resize == written' = written /\ pending' \in {<<>>, pending}

LogNext ==
  \/ Resize
  \/ \E f \in LogFrames : Take(f, written, pending) \/ Take(f, <<>>, <<>>)

LogSpec == LogInit /\ [][LogNext]_logVars
=============================================================================
