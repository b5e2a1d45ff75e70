------------------------ MODULE MCXspressMetaWriter ------------------------
(* Two processors, one of two channels and one of a single channel.        *)
EXTENDS XspressMetaWriter

CONSTANTS s, t

MCFirst == [x \in {s, t} |-> IF x = s THEN 0 ELSE 2]
MCNum   == [x \in {s, t} |-> IF x = s THEN 2 ELSE 1]

=============================================================================
