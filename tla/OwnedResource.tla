---------------------------- MODULE OwnedResource ----------------------------
(***************************************************************************)
(* What a wrapper class of the bindings promises about the C object behind *)
(* it: the object is acquired at most once, released at most once, and     *)
(* the native memory region that holds its handle is given back only after *)
(* the object is gone.  Releasing is the implementation's business (an     *)
(* explicit close, a failed constructor, a cleaner), so the abstract       *)
(* specification says nothing of who does it.                              *)
(***************************************************************************)
CONSTANT Handles

VARIABLE phase

Phases == {"absent", "open", "held", "released", "reclaimed"}

TypeOK == phase \in [Handles -> Phases]

Init == phase = [h \in Handles |-> "absent"]

Advance(h, from, to) ==
    /\ phase[h] \in from
    /\ phase' = [phase EXCEPT ![h] = to]

\* The region exists, the C object does not yet (or never will).
Open(h) == Advance(h, {"absent"}, "open")

\* The C library hands out the object.
Acquire(h) == Advance(h, {"absent", "open"}, "held")

\* The object's C free function runs.
Release(h) == Advance(h, {"held"}, "released")

\* The region is given back: never while the object is held.
Reclaim(h) == Advance(h, {"open", "released"}, "reclaimed")

Next == \E h \in Handles : Open(h) \/ Acquire(h) \/ Release(h) \/ Reclaim(h)

Spec == Init /\ [][Next]_phase
=============================================================================
