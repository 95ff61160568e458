---------------------------- MODULE CachedIterator ----------------------------
(***************************************************************************)
(* memory/IteratorBase.kt over concurrency/NativeMutableList.kt: hasNext   *)
(* fetches one item from C into a cache, next takes the item at an atomic  *)
(* index.  The list keeps an AtomicReference to an immutable list; add     *)
(* reads it twice and compares-and-sets it once, and its caller ignores    *)
(* whether that succeeded.  Several threads may share an iterator.         *)
(*                                                                         *)
(* Items are numbered in the order C hands them out.  A list is modelled   *)
(* by its contents: the lists installed in the reference only ever grow,   *)
(* so equal contents mean the same list object.                            *)
(***************************************************************************)
EXTENDS Integers, Sequences, SequencesExt

CONSTANTS
    Threads,
    Looping,   \* those that call hasNext and next in turns, as for and toList do
    Items,     \* the number of items C hands out before it reports IterOver
    MaxIndex   \* bound: next is not called once the index is this large

ASSUME IteratorAssumption ==
    /\ Looping \subseteq Threads
    /\ Items \in Nat
    /\ MaxIndex \in Nat

VARIABLES
    handed,     \* items C has handed out
    cache,      \* NativeMutableList.ref of the cache
    index,      \* IteratorBase.index
    pc, item, expected, current, mine,   \* each thread's step and locals
    answer,     \* how each thread's last call ended
    delivered   \* history: the items next returned, in order

locals == <<item, expected, current, mine>>
vars == <<handed, cache, index, pc, item, expected, current, mine, answer, delivered>>

Steps == {"idle", "fetch", "readExpected", "readCurrent", "cas", "get"}
Answers == {"none", "yes", "no", "item", "threw", "outOfBounds"}
Lists == Seq(1 .. Items)

TypeOK ==
    /\ handed \in 0 .. Items
    /\ cache \in Lists
    /\ index \in -1 .. MaxIndex
    /\ pc \in [Threads -> Steps]
    /\ item \in [Threads -> 0 .. Items]
    /\ expected \in [Threads -> Lists]
    /\ current \in [Threads -> Lists]
    /\ mine \in [Threads -> -1 .. MaxIndex]
    /\ answer \in [Threads -> Answers]
    /\ delivered \in Lists

Init ==
    /\ handed    = 0
    /\ cache     = <<>>
    /\ index     = -1
    /\ pc        = [t \in Threads |-> "idle"]
    /\ item      = [t \in Threads |-> 0]
    /\ expected  = [t \in Threads |-> <<>>]
    /\ current   = [t \in Threads |-> <<>>]
    /\ mine      = [t \in Threads |-> -1]
    /\ answer    = [t \in Threads |-> "none"]
    /\ delivered = <<>>

-----------------------------------------------------------------------------
Goto(t, step) == pc' = [pc EXCEPT ![t] = step]

Return(t, result) ==
    /\ Goto(t, "idle")
    /\ answer' = [answer EXCEPT ![t] = result]

\* "List<E> by ref.value" delegates to the list of construction time: the
\* cache's size is that of the empty list, whatever was added since.
CacheSize == 0

-----------------------------------------------------------------------------
(* hasNext                                                                 *)

\* A loop asks when it starts and after each item.
HasNext(t) ==
    /\ pc[t] = "idle"
    /\ t \in Looping => answer[t] \in {"none", "item"}
    /\ IF index < CacheSize - 1
       THEN Return(t, "yes")
       ELSE Goto(t, "fetch") /\ UNCHANGED answer
    /\ UNCHANGED <<handed, cache, index, locals, delivered>>

\* nextRaw(): C hands out the next item,
FetchItem(t) ==
    /\ pc[t] = "fetch"
    /\ handed < Items
    /\ handed' = handed + 1
    /\ item' = [item EXCEPT ![t] = handed']
    /\ Goto(t, "readExpected")
    /\ UNCHANGED <<cache, index, expected, current, mine, answer, delivered>>

\* Mutated form of FetchOver: the return code of C is not checked.
FetchOverUnchecked(t) ==
    /\ pc[t] = "fetch"
    /\ handed = Items
    /\ Goto(t, "readExpected")
    /\ UNCHANGED <<handed, cache, index, locals, answer, delivered>>

\* or reports IterOver, which hasNext answers with false,
FetchOver(t) ==
    /\ pc[t] = "fetch"
    /\ handed = Items
    /\ Return(t, "no")
    /\ UNCHANGED <<handed, cache, index, locals, delivered>>

\* Mutated form of FetchFails: every failure counts as the end.
FetchFailsQuietly(t) ==
    /\ pc[t] = "fetch"
    /\ Return(t, "no")
    /\ UNCHANGED <<handed, cache, index, locals, delivered>>

\* or fails with another error, which hasNext throws.
FetchFails(t) ==
    /\ pc[t] = "fetch"
    /\ Return(t, "threw")
    /\ UNCHANGED <<handed, cache, index, locals, delivered>>

\* cache.add: ref.compareAndSet(ref.value, ref.value + element), the two
\* arguments evaluated one after the other ...
ReadExpected(t) ==
    /\ pc[t] = "readExpected"
    /\ expected' = [expected EXCEPT ![t] = cache]
    /\ Goto(t, "readCurrent")
    /\ UNCHANGED <<handed, cache, index, item, current, mine, answer, delivered>>

ReadCurrent(t) ==
    /\ pc[t] = "readCurrent"
    /\ current' = [current EXCEPT ![t] = cache]
    /\ Goto(t, "cas")
    /\ UNCHANGED <<handed, cache, index, item, expected, mine, answer, delivered>>

\* Mutated form of CasAppend: the reference is set, not compared.
SetAppend(t) ==
    /\ pc[t] = "cas"
    /\ cache' = Append(current[t], item[t])
    /\ Return(t, "yes")
    /\ UNCHANGED <<handed, index, locals, delivered>>

\* ... and the result ignored: hasNext answers true.
CasAppend(t) ==
    /\ pc[t] = "cas"
    /\ cache' = IF cache = expected[t] THEN Append(current[t], item[t]) ELSE cache
    /\ Return(t, "yes")
    /\ UNCHANGED <<handed, index, locals, delivered>>

-----------------------------------------------------------------------------
(* next                                                                    *)

\* index.incrementAndGet()
IncrementIndex(t) ==
    /\ pc[t] = "idle"
    /\ t \in Looping => answer[t] = "yes"
    /\ index < MaxIndex
    /\ index' = index + 1
    /\ mine' = [mine EXCEPT ![t] = index']
    /\ Goto(t, "get")
    /\ UNCHANGED <<handed, cache, item, expected, current, answer, delivered>>

\* Mutated form of Get: the index is read again after the increment.
GetAtIndex(t) ==
    /\ pc[t] = "get"
    /\ IF index < Len(cache)
       THEN delivered' = Append(delivered, cache[index + 1]) /\ Return(t, "item")
       ELSE UNCHANGED delivered /\ Return(t, "outOfBounds")
    /\ UNCHANGED <<handed, cache, index, locals>>

\* cache[...]: the list counts from zero and throws beyond its end.
Get(t) ==
    /\ pc[t] = "get"
    /\ IF mine[t] < Len(cache)
       THEN delivered' = Append(delivered, cache[mine[t] + 1]) /\ Return(t, "item")
       ELSE UNCHANGED delivered /\ Return(t, "outOfBounds")
    /\ UNCHANGED <<handed, cache, index, locals>>

-----------------------------------------------------------------------------
Add(t) == ReadExpected(t) \/ ReadCurrent(t) \/ CasAppend(t)

Step(t) ==
    \/ HasNext(t)
    \/ FetchItem(t)
    \/ FetchOver(t)
    \/ FetchFails(t)
    \/ Add(t)
    \/ IncrementIndex(t)
    \/ Get(t)

Next == \E t \in Threads : Step(t)

Spec == Init /\ [][Next]_vars

\* A thread inside toList() or a for loop runs until the loop is over.
FairSpec == Spec /\ \A t \in Looping : WF_vars(Step(t))

-----------------------------------------------------------------------------
(* Properties                                                              *)

\* Even when several threads share the iterator, and calls race in any
\* order, no item is delivered twice: the index gives out each place once
\* and no add overwrites a place (IteratorBase.kt:30).
NoItemTwice == IsInjective(delivered)

\* A lost add loses its own item and nobody else's: the cache is only ever
\* extended, although each add compares one read and appends to another
\* (NativeMutableList.kt:25).
CacheOnlyGrows == [][IsPrefix(cache, cache')]_vars

\* The cache is a NativeMutableList that is only added to: each change of its
\* contents is the whole of one add to the contents it replaces.
NeverThrows(i, list) == FALSE
Added(i, list) == Append(list, i)

Cache == INSTANCE AtomicList WITH
    list <- cache, Calls <- 1 .. Items, Original <- <<>>,
    Throws <- NeverThrows, After <- Added

CacheImplementsList == Cache!Spec

Exhausted == \E t \in Threads : answer[t] = "no"

Loop == INSTANCE Delivery WITH exhausted <- Exhausted

\* One loop over an iterator of its own is told of every item, in order, and
\* is not told of the end before (IteratorBase.kt:15-30).
ImplementsDelivery == Loop!Spec

\* toList() ends, with the list or with the error nextRaw reported: C says
\* IterOver in the end and hasNext listens (IteratorBase.kt:21-26, 32).
ListEnds == \A t \in Looping : <>(answer[t] \in {"no", "threw"})

-----------------------------------------------------------------------------
(* What an iterator shared by threads preserves                            *)

Adding(t) == pc[t] \in {"readExpected", "readCurrent", "cas"}

\* What an add has read, earlier and later, is what the cache began with.
ReadsArePrefixes(t) ==
    /\ pc[t] \in {"readCurrent", "cas"} => IsPrefix(expected[t], cache)
    /\ pc[t] = "cas" => IsPrefix(expected[t], current[t]) /\ IsPrefix(current[t], cache)

\* An item on its way to the cache is not there, and no one else brings it.
ItemIsNew(t) ==
    Adding(t) =>
        /\ item[t] \in 1 .. handed
        /\ \A i \in 1 .. Len(cache) : cache[i] # item[t]
        /\ \A u \in Threads \ {t} : Adding(u) => item[u] # item[t]

\* A place that was given out is one thread's, and its item not delivered yet.
PlaceIsMine(t) ==
    pc[t] = "get" =>
        /\ mine[t] \in 0 .. index
        /\ \A u \in Threads \ {t} : pc[u] = "get" => mine[u] # mine[t]
        /\ mine[t] < Len(cache) =>
               \A k \in 1 .. Len(delivered) : delivered[k] # cache[mine[t] + 1]

\* The cache holds items C handed out, each once.
CacheIsOfItems ==
    /\ \A i \in 1 .. Len(cache) : cache[i] <= handed
    /\ IsInjective(cache)

\* What was delivered came from a place given out before.
DeliveredWasCached ==
    \A k \in 1 .. Len(delivered) :
        \E i \in 1 .. Len(cache) : i <= index + 1 /\ cache[i] = delivered[k]

IteratorInvariant ==
    /\ TypeOK
    /\ CacheIsOfItems
    /\ \A t \in Threads : ReadsArePrefixes(t) /\ ItemIsNew(t) /\ PlaceIsMine(t)
    /\ DeliveredWasCached
    /\ NoItemTwice

-----------------------------------------------------------------------------
(* What a loop over an iterator of its own preserves                       *)

\* Items are cached and delivered in the order C hands them out.
InOrder(list) == \A i \in 1 .. Len(list) : list[i] = i

\* How far C, the cache, the index and the loop are, at each step of it.
LoopProgress(t) ==
    LET Even(n) == handed = n /\ Len(cache) = n /\ index = n - 1
        n == Len(delivered)
    IN  /\ pc[t] = "idle" /\ answer[t] \in {"none", "item"} => Even(n)
        /\ pc[t] = "fetch" => Even(n)
        /\ Adding(t) => handed = n + 1 /\ item[t] = n + 1 /\ Len(cache) = n /\ index = n - 1
        /\ pc[t] = "cas" => expected[t] = cache
        /\ pc[t] = "readCurrent" => expected[t] = cache
        /\ pc[t] = "idle" /\ answer[t] = "yes" =>
               handed = n + 1 /\ Len(cache) = n + 1 /\ index = n - 1
        /\ pc[t] = "get" => Even(n + 1) /\ mine[t] = n

\* The end is reported between calls, when everything was delivered.
LoopAnswer(t) ==
    /\ answer[t] = "no" => pc[t] = "idle" /\ Len(delivered) = Items
    /\ answer[t] = "yes" => pc[t] \in {"idle", "get"}
    /\ answer[t] \in {"none", "item"} => pc[t] # "get"
    /\ answer[t] \in {"threw", "outOfBounds"} => pc[t] = "idle"

LoopInvariant ==
    /\ IteratorInvariant
    /\ InOrder(cache) /\ InOrder(delivered)
    /\ \A t \in Looping : LoopProgress(t) /\ LoopAnswer(t)
=============================================================================
