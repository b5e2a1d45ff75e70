--------------------------- MODULE ScalarWindows ---------------------------
(***************************************************************************)
(* The limits of a scalar's window in the control server: the windows that *)
(* the detector holds, and the copy that XspressDetector keeps of them and *)
(* that clients are shown.  The library sets a window as a pair, so a new  *)
(* low limit goes out with the high limit of the copy, and a new high      *)
(* limit with the low limit of the copy.  SCA5 and SCA6 are the same code  *)
(* with other names; this is either of them.                               *)
(***************************************************************************)
EXTENDS Integers, Sequences, FiniteSets

CONSTANTS
  NumChannels,   \* xsp_mca_channels_, which no client changes here
  MaxValue,      \* bound: limits are 0 .. MaxValue
  Saved,         \* the windows in the settings that a connection restores
  SetsFail,      \* may xsp3_set_window fail?
  ReadsFail,     \* may a call that reads the parameters back fail?
  MaxTrouble,    \* bound: things that go wrong, here and in ControlClient
  MaxRestores    \* bound: connect and restore commands

Channels == 1 .. NumChannels
Values == 0 .. MaxValue
Limits == {"low", "high"}
ValueLists == UNION {[1 .. n -> Values] : n \in 0 .. NumChannels}
Windows == {w \in [Limits -> [Channels -> Values]] :
              \A chan \in Channels : w["low"][chan] <= w["high"][chan]}

ASSUME WindowsAssumption ==
  /\ NumChannels \in Nat /\ MaxValue \in Nat
  /\ Saved \in Windows
  /\ SetsFail \in BOOLEAN /\ ReadsFail \in BOOLEAN
  /\ MaxTrouble \in Nat /\ MaxRestores \in Nat

VARIABLES
  attached,   \* connected_
  window,     \* the windows in the detector, per limit and channel
  cached,     \* xsp_chan_sca5_low_lim_ and xsp_chan_sca5_high_lim_
  acked,      \* was the last command about windows acknowledged?
  readable,   \* history: the parameters have always been read back
  promised,   \* history: the list of each limit acknowledged last
  trouble, restores

windowVars == <<attached, window, cached, acked, readable, promised, restores>>
serverVars == <<windowVars, trouble>>

WindowsTypeOK ==
  /\ attached \in BOOLEAN
  /\ window \in Windows
  /\ cached \in [Limits -> ValueLists]
  /\ acked \in BOOLEAN
  /\ readable \in BOOLEAN
  /\ promised \in [Limits -> ValueLists]
  /\ trouble \in 0 .. MaxTrouble
  /\ restores \in 0 .. MaxRestores

(* The copy is sized before the detector is connected, and filled with 0.  *)
(* The number of channels may also be set while the detector is connected, *)
(* which fills the copy with 0 again; this is not modelled.                *)
WindowsInit ==
  /\ attached = FALSE
  /\ window = Saved
  /\ cached = [limit \in Limits |-> [chan \in Channels |-> 0]]
  /\ acked = FALSE
  /\ readable = TRUE
  /\ promised = cached
  /\ trouble = 0
  /\ restores = 0

Trouble == trouble < MaxTrouble /\ trouble' = trouble + 1
Count(failed) == IF failed THEN Trouble ELSE UNCHANGED trouble

(* The channels whose windows could be read, in their order.               *)
Readings ==
  {read \in UNION {[1 .. n -> Channels] : n \in 0 .. NumChannels} :
     \A i, j \in DOMAIN read : i < j => read[i] < read[j]}
Everything == [chan \in Channels |-> chan]

(* Mutant: the copy is not read back.                                      *)
ReadBackNot(w, read) == cached

(* The lists are emptied and filled channel by channel.  A channel whose   *)
(* window cannot be read adds nothing, and the channels after it move up.  *)
ReadBack(w, read) ==
  [limit \in Limits |-> [i \in DOMAIN read |-> w[limit][read[i]]]]

(* Reads the windows w of the detector into the copy.  One call reads both *)
(* limits of a channel; the other parameters, which are read in the same   *)
(* loop, make it fail too.                                                 *)
ReadSCAParams(w) ==
  \E read \in Readings, other \in BOOLEAN :
    LET failed == read # Everything \/ other
    IN  /\ failed => ReadsFail
        /\ Count(failed)
        /\ cached' = ReadBack(w, read)
        /\ acked' = ~failed
        /\ readable' = (readable /\ ~failed)

(* The window that a new list asks for a channel: the other limit is that  *)
(* of the copy.                                                            *)
Asked(limit, values, chan) ==
  [l \in Limits |-> IF l = limit THEN values[chan] ELSE cached[l][chan]]

(* A window with its low limit above its high one is not set.              *)
Inverted(asked) == asked["low"] > asked["high"]

(* The channels that are not set: the library is not called for, or fails  *)
(* for, these.                                                             *)
Refused(limit, values, broken) ==
  broken \union {chan \in DOMAIN values : Inverted(Asked(limit, values, chan))}

Written(limit, values, refused) ==
  [l \in Limits |-> [chan \in Channels |->
     IF chan \in DOMAIN values \ refused
     THEN Asked(limit, values, chan)[l] ELSE window[l][chan]]]

Refuse ==
  acked' = FALSE /\ UNCHANGED <<window, cached, readable, promised, trouble>>

(* A new list of one limit.  A channel that is refused does not keep the   *)
(* others from being set, but the copy is only read back when none is.     *)
SetLimits(limit, values) ==
  /\ \/ /\ ~attached \/ Len(values) # Len(cached[limit])
        /\ Refuse
     \/ /\ attached /\ Len(values) = Len(cached[limit])
        /\ \E broken \in SUBSET DOMAIN values :
             LET refused == Refused(limit, values, broken)
             IN  /\ broken # {} => SetsFail
                 /\ window' = Written(limit, values, refused)
                 /\ \/ /\ refused = {}
                       /\ ReadSCAParams(window')
                       /\ promised' = IF acked' THEN [promised EXCEPT ![limit] = values]
                                      ELSE promised
                    \/ /\ refused # {}
                       /\ Count(broken # {})
                       /\ acked' = FALSE
                       /\ UNCHANGED <<cached, readable, promised>>
  /\ UNCHANGED <<attached, restores>>

(* A connect or restore command, of this or another client: the settings   *)
(* are restored, and the parameters read back unless a call before that    *)
(* has failed.                                                             *)
Restore ==
  /\ restores < MaxRestores
  /\ restores' = restores + 1
  /\ attached' = TRUE
  /\ window' = Saved
  /\ \/ ReadSCAParams(window')
     \/ /\ ReadsFail
        /\ Trouble
        /\ acked' = FALSE
        /\ readable' = FALSE
        /\ UNCHANGED cached
  /\ promised' = IF acked' THEN Saved ELSE promised

(* A disconnect command.                                                   *)
Detach ==
  /\ attached
  /\ attached' = FALSE
  /\ Trouble
  /\ UNCHANGED <<window, cached, acked, readable, promised, restores>>

(* After a command that was acknowledged, both limits of every window in   *)
(* the detector are the ones acknowledged last, if they could always be    *)
(* read back.  A list that was refused for some channels has changed the   *)
(* others, and the next list that is taken, of the other limit too, puts   *)
(* them back (XspressDetector.setSca5LowLimits and the others).            *)
AckedWindowsHold == readable /\ acked => window = promised
=============================================================================
