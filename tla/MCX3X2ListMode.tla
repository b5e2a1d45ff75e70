--------------------------- MODULE MCX3X2ListMode ---------------------------
(* A card with two channels that are recorded and one that is not.  The    *)
(* first has an event in each of two time frames; the second has none in   *)
(* its first time frame and a dummy event in the other.                    *)
EXTENDS X3X2ListMode

CONSTANTS a, b, m

E(k) == [kind |-> "event", tf |-> k]
D(k) == [kind |-> "dummy", tf |-> k]
X(k) == [kind |-> "end", tf |-> k]

MCScript ==
  [c \in {a, b, m} |->
     CASE c = a -> <<E(0), X(0), E(1), X(1)>>
       [] c = b -> <<X(0), D(1), X(1)>>
       [] c = m -> <<X(0)>>]
=============================================================================
