------------------------------- MODULE Delivery -------------------------------
(***************************************************************************)
(* What an iterator promises to the one loop that consumes it: the items   *)
(* of its source, numbered 1 .. Items, each once and in order; it says     *)
(* that it is exhausted only when every item was delivered.                *)
(***************************************************************************)
EXTENDS Naturals, Sequences

CONSTANT Items

VARIABLES delivered, exhausted

Init == delivered = <<>> /\ exhausted = FALSE

Deliver ==
    /\ ~exhausted
    /\ Len(delivered) < Items
    /\ delivered' = Append(delivered, Len(delivered) + 1)
    /\ UNCHANGED exhausted

Exhaust ==
    /\ Len(delivered) = Items
    /\ exhausted' = TRUE
    /\ UNCHANGED delivered

Next == Deliver \/ Exhaust

Spec == Init /\ [][Next]_<<delivered, exhausted>>
=============================================================================
