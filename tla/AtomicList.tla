------------------------------ MODULE AtomicList ------------------------------
(***************************************************************************)
(* What a list shared by threads promises: each change of its contents is  *)
(* the whole of one call, computed from the contents it replaces.  A call  *)
(* that fails changes nothing.                                             *)
(***************************************************************************)
CONSTANTS
    Calls,          \* the calls threads may make
    Original,       \* the list of construction time
    Throws(_, _),   \* whether a call fails on a list
    After(_, _)     \* what a call makes of a list

VARIABLE list

Init == list = Original

Mutate(call) == ~Throws(call, list) /\ list' = After(call, list)

Next == \E call \in Calls : Mutate(call)

Spec == Init /\ [][Next]_list
=============================================================================
