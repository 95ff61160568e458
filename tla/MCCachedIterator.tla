--------------------------- MODULE MCCachedIterator ---------------------------
(* Instances of CachedIterator for TLC: threads that share one iterator and *)
(* call it in any order, and one loop with an iterator of its own.          *)
EXTENDS CachedIterator

CONSTANTS t1, t2

Both    == {t1, t2}
One     == {t1}
Nobody  == {}
=============================================================================
