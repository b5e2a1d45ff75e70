-------------------------- MODULE MCXspressListMode --------------------------
(* Two channels and blocks of four words.  The second packet of the second *)
(* channel is split over two blocks, and its third fills a block to its    *)
(* last word.                                                              *)
EXTENDS XspressListMode

CONSTANTS a, b

P(n)   == [len |-> n, last |-> FALSE]
End(n) == [len |-> n, last |-> TRUE]

MCScript ==
  [c \in {a, b} |-> IF c = a THEN <<End(1)>> ELSE <<P(1), P(2), End(2)>>]
=============================================================================
