-------------------------- MODULE NativeMutableList --------------------------
(***************************************************************************)
(* concurrency/NativeMutableList.kt: a mutable list for several threads.   *)
(* It holds an AtomicReference to an immutable list.  Every mutator reads  *)
(* the reference once for the list it expects, once or twice for the lists *)
(* it computes the new one from, and then compares and sets, by identity   *)
(* of the list objects, without another attempt.                           *)
(*                                                                         *)
(* A call is a record: its kind, the positions from and to of a splice     *)
(* (Kotlin positions, from zero) and its elements, a sequence.  add(i) and *)
(* addAll(i) are splices with to = from, removeAt and set are splices with *)
(* to = from + 1.  A list object is named by the call that created it;     *)
(* emptyList() is one object for the whole program.                        *)
(***************************************************************************)
EXTENDS Naturals, Sequences, SequencesExt

CONSTANTS
    Threads,
    Calls,       \* the calls threads may make
    Original,    \* the list given to the constructor
    MaxCalls     \* bound: calls made in a behaviour

ASSUME ListAssumption ==
    /\ MaxCalls \in Nat
    /\ Calls # {}

VARIABLES
    ref,        \* the object the reference holds, and its contents
    calls,      \* calls begun so far
    pc, call, number, expected, head, tail   \* each thread's step and locals

locals == <<call, number, expected, head, tail>>
vars == <<ref, calls, pc, locals>>

EmptyList == 0      \* the object emptyList() answers
GivenList == 1      \* the object given to the constructor
FirstList == IF Original = <<>> THEN EmptyList ELSE GivenList
Objects   == 0 .. MaxCalls + 1

Steps == {"idle", "readExpected", "readHead", "readTail", "cas"}

Init ==
    /\ ref      = [id |-> FirstList, list |-> Original]
    /\ calls    = 0
    /\ pc       = [t \in Threads |-> "idle"]
    /\ call     = [t \in Threads |-> CHOOSE c \in Calls : TRUE]
    /\ number   = [t \in Threads |-> 0]
    /\ expected = [t \in Threads |-> FirstList]
    /\ head     = [t \in Threads |-> <<>>]
    /\ tail     = [t \in Threads |-> <<>>]

-----------------------------------------------------------------------------
(* What a call computes                                                    *)

\* "List<E> by ref.value" is evaluated by the constructor, so size stays
\* that of the list given to it.
Size == Len(Original)

Clear             == [kind |-> "clear", from |-> 0, to |-> 0, elements |-> <<>>]
AddAll(es)        == [kind |-> "add", from |-> 0, to |-> 0, elements |-> es]
Splice(i, j, es)  == [kind |-> "splice", from |-> i, to |-> j, elements |-> es]
RemoveOne(e)      == [kind |-> "remove", from |-> 0, to |-> 0, elements |-> <<e>>]
RemoveAll(es)     == [kind |-> "removeAll", from |-> 0, to |-> 0, elements |-> es]
RetainAll(es)     == [kind |-> "retainAll", from |-> 0, to |-> 0, elements |-> es]

\* ref.value.take(from) + elements + ref.value.subList(to, size): take is
\* content with a shorter list.
Spliced(c, xs, ys) ==
    SubSeq(xs, 1, IF c.from < Len(xs) THEN c.from ELSE Len(xs))
        \o c.elements \o SubSeq(ys, c.to + 1, Size)

\* subList wants to <= size and size within the list.
Throws(c, ys) ==
    c.kind = "splice" /\ (c.to > Size \/ Size > Len(ys))

\* What the other mutators make of one list.
Whole(c, xs) ==
    LET Named(e) == e \in Range(c.elements)
        Other(e) == ~Named(e)
    IN  CASE c.kind = "clear"     -> <<>>
          [] c.kind = "add"       -> xs \o c.elements
          [] c.kind = "remove"    -> RemoveFirst(xs, c.elements[1])
          [] c.kind = "removeAll" -> SelectSeq(xs, Other)
          [] c.kind = "retainAll" -> SelectSeq(xs, Named)

\* The list a call computes from what it read; the two reads differ only
\* when another thread changed the list between them.
Result(c, xs, ys) ==
    IF c.kind = "splice" THEN Spliced(c, xs, ys) ELSE Whole(c, xs)
-----------------------------------------------------------------------------
Goto(t, step) == pc' = [pc EXCEPT ![t] = step]

Begin(t, c) ==
    /\ pc[t] = "idle"
    /\ calls < MaxCalls
    /\ calls' = calls + 1
    /\ call' = [call EXCEPT ![t] = c]
    /\ number' = [number EXCEPT ![t] = calls']
    /\ Goto(t, "readExpected")
    /\ UNCHANGED <<ref, expected, head, tail>>

\* The first argument of compareAndSet: which object the call expects.
ReadExpected(t) ==
    /\ pc[t] = "readExpected"
    /\ expected' = [expected EXCEPT ![t] = ref.id]
    /\ Goto(t, IF call[t].kind = "clear" THEN "cas" ELSE "readHead")
    /\ UNCHANGED <<ref, calls, call, number, head, tail>>

\* The second argument reads the reference again ...
ReadHead(t) ==
    /\ pc[t] = "readHead"
    /\ head' = [head EXCEPT ![t] = ref.list]
    /\ Goto(t, IF call[t].kind = "splice" THEN "readTail" ELSE "cas")
    /\ UNCHANGED <<ref, calls, call, number, expected, tail>>

\* ... and, for the positional mutators, once more; subList may throw.
ReadTail(t) ==
    /\ pc[t] = "readTail"
    /\ tail' = [tail EXCEPT ![t] = ref.list]
    /\ Goto(t, IF Throws(call[t], ref.list) THEN "idle" ELSE "cas")
    /\ UNCHANGED <<ref, calls, call, number, expected, head>>

\* The object a call installs is a new one, except for clear and for taking
\* nothing from a list that is empty: minus answers toList() then.
Created(t) ==
    IF \/ call[t].kind = "clear"
       \/ call[t].kind = "removeAll" /\ call[t].elements = <<>> /\ head[t] = <<>>
    THEN EmptyList
    ELSE number[t] + 1

Computed(t) == Result(call[t], head[t], tail[t])

\* Mutated form of CompareAndSet: the reference is set whatever it holds.
SetAlways(t) ==
    /\ pc[t] = "cas"
    /\ ref' = [id |-> Created(t), list |-> Computed(t)]
    /\ Goto(t, "idle")
    /\ UNCHANGED <<calls, locals>>

\* Mutated form of CompareAndSet: the object itself is changed.
SetInPlace(t) ==
    /\ pc[t] = "cas"
    /\ ref' = IF ref.id = expected[t] THEN [id |-> ref.id, list |-> Computed(t)] ELSE ref
    /\ Goto(t, "idle")
    /\ UNCHANGED <<calls, locals>>

\* The comparison is by identity; the caller of a call that lost may be
\* told (add) or not (clear, add(i), set).
CompareAndSet(t) ==
    /\ pc[t] = "cas"
    /\ ref' = IF ref.id = expected[t]
              THEN [id |-> Created(t), list |-> Computed(t)]
              ELSE ref
    /\ Goto(t, "idle")
    /\ UNCHANGED <<calls, locals>>

-----------------------------------------------------------------------------
Step(t) == ReadExpected(t) \/ ReadHead(t) \/ ReadTail(t) \/ CompareAndSet(t)

Next == \E t \in Threads : (\E c \in Calls : Begin(t, c)) \/ Step(t)

Spec == Init /\ [][Next]_vars

-----------------------------------------------------------------------------
(* Properties                                                              *)

After(c, xs) == Result(c, xs, xs)

Shared == INSTANCE AtomicList WITH list <- ref.list

\* The list is a list for several threads: each change of its contents is
\* one call applied to the contents it replaces, although the call read
\* them two or three times before (NativeMutableList.kt:25-51).  It holds
\* as long as no list object is installed twice, which clear() does.
ImplementsList == Shared!Spec

\* The same with clear() among the calls: whatever is lost or comes back,
\* it comes back to a list that was cleared; every change of a list that
\* holds another object than emptyList() is the whole of one call.
ChangesAreWholeCalls ==
    [][ref.id # EmptyList => \E c \in Calls : Shared!Mutate(c)]_(ref.list)

-----------------------------------------------------------------------------
(* The inductive strengthening                                             *)

\* No call installs emptyList() again.
NobodyEmpties ==
    \A c \in Calls : c.kind # "clear" /\ (c.kind = "removeAll" => c.elements # <<>>)

\* What a thread read is what the reference holds, if it still holds the
\* object the thread expects: list objects are immutable and, once replaced,
\* do not come back, with the exception of emptyList().
SnapshotIsCurrent(t) ==
    expected[t] = ref.id /\ (NobodyEmpties \/ ref.id # EmptyList) =>
        /\ pc[t] \in {"readTail", "cas"} /\ call[t].kind # "clear" => head[t] = ref.list
        /\ pc[t] = "cas" /\ call[t].kind = "splice" =>
             tail[t] = ref.list /\ ~Throws(call[t], tail[t])

\* An object not created yet is neither held nor expected.
FreshIsUnused(t) ==
    pc[t] # "idle" =>
        /\ number[t] \in 1 .. calls
        /\ ref.id # number[t] + 1
        /\ \A u \in Threads : expected[u] # number[t] + 1
        /\ \A u \in Threads : u # t /\ pc[u] # "idle" => number[u] # number[t]

TypeOK ==
    /\ ref.id \in Objects
    /\ calls \in 0 .. MaxCalls
    /\ pc \in [Threads -> Steps]
    /\ call \in [Threads -> Calls]
    /\ number \in [Threads -> 0 .. MaxCalls]
    /\ expected \in [Threads -> Objects]
    /\ head = [t \in Threads |-> head[t]]
    /\ tail = [t \in Threads |-> tail[t]]

ListInvariant ==
    /\ TypeOK
    /\ ref.id <= calls + 1
    /\ \A t \in Threads : SnapshotIsCurrent(t) /\ FreshIsUnused(t)
    /\ \A t \in Threads : expected[t] <= calls + 1
=============================================================================
