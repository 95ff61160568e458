----------------------- MODULE NativeMutableList_proofs -----------------------
(***************************************************************************)
(* Proofs about NativeMutableList, for every set of threads, calls and     *)
(* every original list.                                                    *)
(*                                                                         *)
(* The comparison by identity is worth something only because an object    *)
(* that was replaced does not return: a call that finds the object it      *)
(* expects also finds the contents it computed from.  emptyList() does     *)
(* return when a call installs it, and then only what is found under its   *)
(* name may be another list than the one that was read.                    *)
(***************************************************************************)
EXTENDS NativeMutableList, TLAPS

-----------------------------------------------------------------------------
LEMMA InitHolds == Init => ListInvariant
<1> SUFFICES ASSUME Init PROVE ListInvariant
  OBVIOUS
<1> USE ListAssumption DEF Init
<1>1. TypeOK
  <2>1. (CHOOSE c \in Calls : TRUE) \in Calls
    OBVIOUS
  <2>2. FirstList \in Objects
    BY DEF FirstList, Objects, EmptyList, GivenList
  <2>3. QED
    BY <2>1, <2>2 DEF TypeOK, Steps
<1>2. FirstList \in {0, 1}
  BY DEF FirstList, EmptyList, GivenList
<1>3. QED
  BY <1>1, <1>2 DEF ListInvariant, SnapshotIsCurrent, FreshIsUnused

\* A call takes a number nobody has, for an object that does not exist.
LEMMA BeginPreserves ==
  ASSUME ListInvariant, NEW t \in Threads, NEW c \in Calls, Begin(t, c)
  PROVE  ListInvariant'
<1> USE ListAssumption DEF ListInvariant, TypeOK, Begin, Goto
<1>1. TypeOK'
  BY DEF Steps
<1>2. \A u \in Threads : SnapshotIsCurrent(u)'
  BY DEF SnapshotIsCurrent, Throws
<1>3. \A u \in Threads : FreshIsUnused(u)'
  BY DEF FreshIsUnused, Objects
<1>4. QED
  BY <1>1, <1>2, <1>3 DEF Objects

\* The thread expects what is held, and has read nothing yet.
LEMMA ReadExpectedPreserves ==
  ASSUME ListInvariant, NEW t \in Threads, ReadExpected(t)
  PROVE  ListInvariant'
<1> USE ListAssumption DEF ListInvariant, TypeOK, ReadExpected, Goto
<1>1. TypeOK'
  BY DEF Steps
<1>2. \A u \in Threads : SnapshotIsCurrent(u)'
  BY DEF SnapshotIsCurrent, Throws
<1>3. \A u \in Threads : FreshIsUnused(u)'
  BY DEF FreshIsUnused, Objects
<1>4. QED
  BY <1>1, <1>2, <1>3 DEF Objects

\* The contents read now are those of the object held now.
LEMMA ReadHeadPreserves ==
  ASSUME ListInvariant, NEW t \in Threads, ReadHead(t)
  PROVE  ListInvariant'
<1> USE ListAssumption DEF ListInvariant, TypeOK, ReadHead, Goto
<1>1. TypeOK'
  BY DEF Steps
<1>2. \A u \in Threads : SnapshotIsCurrent(u)'
  BY DEF SnapshotIsCurrent, Throws
<1>3. \A u \in Threads : FreshIsUnused(u)'
  BY DEF FreshIsUnused
<1>4. QED
  BY <1>1, <1>2, <1>3

LEMMA ReadTailPreserves ==
  ASSUME ListInvariant, NEW t \in Threads, ReadTail(t)
  PROVE  ListInvariant'
<1> USE ListAssumption DEF ListInvariant, TypeOK, ReadTail, Goto
<1>1. TypeOK'
  BY DEF Steps
<1>2. \A u \in Threads : SnapshotIsCurrent(u)'
  BY DEF SnapshotIsCurrent, Throws
<1>3. \A u \in Threads : FreshIsUnused(u)'
  BY DEF FreshIsUnused
<1>4. QED
  BY <1>1, <1>2, <1>3

\* The object installed was never held and nobody expects it, unless it is
\* emptyList().
LEMMA CreatedIsFresh ==
  ASSUME ListInvariant, NEW t \in Threads, pc[t] = "cas"
  PROVE  \/ Created(t) = EmptyList /\ ~NobodyEmpties
         \/ /\ Created(t) = number[t] + 1
            /\ number[t] \in 1 .. calls
            /\ \A u \in Threads : expected[u] # Created(t)
            /\ \A u \in Threads : u # t /\ pc[u] # "idle" => Created(t) # number[u] + 1
<1> USE DEF ListInvariant, TypeOK
<1>1. CASE Created(t) = number[t] + 1
  BY <1>1 DEF FreshIsUnused
<1>2. CASE Created(t) # number[t] + 1
  <2>1. call[t].kind = "clear" \/ (call[t].kind = "removeAll" /\ call[t].elements = <<>>)
    BY <1>2 DEF Created
  <2>2. ~NobodyEmpties
    BY <2>1 DEF NobodyEmpties
  <2>3. Created(t) = EmptyList
    BY <1>2 DEF Created
  <2>4. QED
    BY <2>2, <2>3
<1>3. QED
  BY <1>1, <1>2

LEMMA CompareAndSetPreserves ==
  ASSUME ListInvariant, NEW t \in Threads, CompareAndSet(t)
  PROVE  ListInvariant'
<1> USE ListAssumption DEF ListInvariant, TypeOK, CompareAndSet, Goto, locals
<1>1. ref'.id \in {ref.id, Created(t)}
  OBVIOUS
<1>2. /\ Created(t) \in Objects /\ Created(t) <= calls + 1
      /\ \A u \in Threads : u # t /\ pc[u] # "idle" => Created(t) # number[u] + 1
  BY CreatedIsFresh DEF Objects, EmptyList, FreshIsUnused
<1>3. TypeOK'
  BY <1>1, <1>2 DEF Steps
<1>4. \A u \in Threads : SnapshotIsCurrent(u)'
  <2> SUFFICES ASSUME NEW u \in Threads PROVE SnapshotIsCurrent(u)'
    OBVIOUS
  <2>1. CASE ref.id = expected[t]
    <3>1. ref'.id = Created(t)
      BY <2>1
    <3>2. CASE Created(t) = EmptyList /\ ~NobodyEmpties
      BY <3>1, <3>2 DEF SnapshotIsCurrent, NobodyEmpties
    <3>3. CASE expected[u] # Created(t)
      BY <3>1, <3>3 DEF SnapshotIsCurrent
    <3>4. QED
      BY <3>2, <3>3, CreatedIsFresh
  <2>2. CASE ref.id # expected[t]
    BY <2>2 DEF SnapshotIsCurrent, Throws, NobodyEmpties
  <2>3. QED
    BY <2>1, <2>2
<1>5. \A u \in Threads : FreshIsUnused(u)'
  BY <1>1, <1>2 DEF FreshIsUnused
<1>6. QED
  BY <1>1, <1>2, <1>3, <1>4, <1>5

LEMMA StutterPreserves ==
  ASSUME ListInvariant, UNCHANGED vars
  PROVE  ListInvariant'
BY DEF ListInvariant, TypeOK, SnapshotIsCurrent, FreshIsUnused, NobodyEmpties, Throws, vars, locals

LEMMA NextPreserves ==
  ASSUME ListInvariant, [Next]_vars
  PROVE  ListInvariant'
<1>1. CASE UNCHANGED vars
  BY <1>1, StutterPreserves
<1>2. ASSUME NEW t \in Threads, NEW c \in Calls, Begin(t, c) PROVE ListInvariant'
  BY <1>2, BeginPreserves
<1>3. ASSUME NEW t \in Threads, Step(t) PROVE ListInvariant'
  BY <1>3, ReadExpectedPreserves, ReadHeadPreserves, ReadTailPreserves,
     CompareAndSetPreserves DEF Step
<1>4. QED
  BY <1>1, <1>2, <1>3 DEF Next

\* A thread that finds the object it expects has computed from its contents,
\* unless the object is emptyList() and was installed again
\* (NativeMutableList.kt:25-51).
THEOREM SnapshotsAreCurrent == Spec => []ListInvariant
<1>1. Init => ListInvariant
  BY InitHolds
<1>2. ListInvariant /\ [Next]_vars => ListInvariant'
  BY NextPreserves
<1>3. QED
  BY <1>1, <1>2, PTL DEF Spec

-----------------------------------------------------------------------------
\* A compare-and-set that succeeds is one call applied to the contents it
\* replaces.
LEMMA CompareAndSetMutates ==
  ASSUME ListInvariant, NobodyEmpties \/ ref.id # EmptyList,
         NEW t \in Threads, CompareAndSet(t), ref'.list # ref.list
  PROVE  \E c \in Calls : Shared!Mutate(c)
<1>1. ref.id = expected[t] /\ pc[t] = "cas"
  BY DEF CompareAndSet
<1>2. call[t] \in Calls
  BY DEF ListInvariant, TypeOK
<1>3. call[t].kind # "clear" => head[t] = ref.list
  BY <1>1 DEF ListInvariant, SnapshotIsCurrent
<1>4. call[t].kind = "splice" => tail[t] = ref.list /\ ~Throws(call[t], ref.list)
  BY <1>1 DEF ListInvariant, SnapshotIsCurrent
<1>5. ~Throws(call[t], ref.list)
  BY <1>4 DEF Throws
<1>6. Computed(t) = After(call[t], ref.list)
  <2>1. CASE call[t].kind = "clear"
    BY <2>1 DEF Computed, After, Result, Whole
  <2>2. CASE call[t].kind # "clear"
    BY <1>3, <1>4, <2>2 DEF Computed, After, Result
  <2>3. QED
    BY <2>1, <2>2
<1>7. ref'.list = After(call[t], ref.list)
  BY <1>1, <1>6 DEF CompareAndSet
<1>8. Shared!Mutate(call[t])
  BY <1>5, <1>7 DEF Shared!Mutate
<1>9. QED
  BY <1>2, <1>8

LEMMA NextMutates ==
  ASSUME ListInvariant, NobodyEmpties \/ ref.id # EmptyList, Next, ref'.list # ref.list
  PROVE  \E c \in Calls : Shared!Mutate(c)
<1>1. PICK t \in Threads : CompareAndSet(t)
  BY DEF Next, Begin, Step, ReadExpected, ReadHead, ReadTail
<1>2. QED
  BY <1>1, CompareAndSetMutates

\* Every change of a list is the whole of one call applied to the contents it
\* replaces, for any threads and calls, unless the list is emptyList().
THEOREM WholeCallsUnlessEmptied == Spec => ChangesAreWholeCalls
<1>1. ListInvariant /\ [Next]_vars
        => [ref.id # EmptyList => \E c \in Calls : Shared!Mutate(c)]_(ref.list)
  BY NextMutates DEF vars
<1>2. QED
  BY <1>1, SnapshotsAreCurrent, PTL DEF Spec, ChangesAreWholeCalls

\* For every number of threads and every original list, a list nobody empties
\* behaves as one list changed by whole calls (NativeMutableList.kt:25-51).
THEOREM ImplementsAtomicList ==
  ASSUME NobodyEmpties
  PROVE  Spec => ImplementsList
<1>1. Init => Shared!Init
  BY DEF Init, Shared!Init
<1>2. ListInvariant /\ [Next]_vars => [Shared!Next]_(ref.list)
  BY NextMutates DEF vars, Shared!Next
<1>3. QED
  BY <1>1, <1>2, SnapshotsAreCurrent, PTL DEF Spec, ImplementsList, Shared!Spec
=============================================================================
