------------------------ MODULE MCNativeMutableList ------------------------
(* Instances of NativeMutableList for TLC: a list that was given elements   *)
(* and every kind of call, and an empty one that is added to and cleared.   *)
EXTENDS NativeMutableList

CONSTANTS x, y, z

TwoElements == <<x, y>>
NoElements  == <<>>

EveryKind ==
    {AddAll(<<z>>), RemoveOne(x), RemoveAll(<<y>>), RetainAll(<<x, z>>),
     Splice(0, 0, <<z>>), Splice(0, 1, <<>>), Splice(1, 2, <<z>>), Clear}

Clearing == {AddAll(<<x>>), AddAll(<<y>>), Clear}
=============================================================================
