# TLA+ models of kgit2

kgit2 binds libgit2 1.5 to Kotlin/Native. Its own logic is not git: it is the
*ownership* of C objects from a garbage-collected language. Every wrapper must
release its C object once and in the right order, payloads must live as long as
C may call back, iterators must not lose or repeat what C hands out, and options
and lists kept twice (Kotlin and C) must agree. This directory holds TLA+
modules of that logic, TLC configurations, and TLAPS proofs. Paths below are
relative to `src/`; `common/` abbreviates `src/commonMain/kotlin/com/kgit2/`.

## 1. Inventory

| Component | State it keeps | Operations | Interacts through |
|---|---|---|---|
| Handle lifetime: `memory/Raw.kt`, `memory/RawWrapper*.kt`, `common/memory/Memory.kt` | `Raw.freed` (atomic flag), `Memory.arena`, `Memory.isFreed`, one or two cleaners per wrapper | construct, raw getter, free, move, close, cleaner | every other class; the cleaner worker of the runtime |
| Generated `XxxRaw` classes: `ksp/` | none at run time | secondary constructors with failure path, `beforeFree` | called by the wrappers' constructors |
| Callback payloads: `memory/CallbackAble.kt` and its implementors, `forEach` calls | a `StableRef` per wrapper or call, a payload pointer in a C structure | create, resolve in a static callback, dispose | C holds the pointer, perhaps a copy of it; the collector treats it as a root |
| Iterators: `memory/IteratorBase.kt` and the concrete iterators | a cache, an atomic index | hasNext, next, toList | C hands out the next item; the cache is a `NativeMutableList` |
| `concurrency/NativeMutableList.kt` | an atomic reference to an immutable list | the mutators of a list, one compare-and-set each | the threads that share it |
| Derived wrappers: `XxxRaw(Memory(), pointer)` in trees, commits, references, reflogs, indexes, options, iterators | a handle whose pointer may lead into another wrapper's object | vals of a constructor, operations that answer a wrapper | parent and child share a C object; each has cleaners of its own |
| `memory/IterableBase.kt`, `model/StrArray.kt`, `common/…/MutableListBase.kt` | sizes read at construction; a Kotlin list beside a C array | list operations, `updateRaw`, `clearRaw` | C reads, and frees, the array |
| Credential helper: `credential/CredentialHelper.kt` | username, list of commands, path | config, setUsername, execute | helper processes, git configuration |
| Streams (odb, blob) | the handle | read, write, close | handle lifetime |
| Conversions of objects, references, certificates | the handle | asXxx, peelToXxx | handle lifetime (`move`) |
| Repository, index, config, diff, remote, merge, rebase, … | a handle each, otherwise none | one libgit2 call each | handles, callbacks, iterators |
| Submodule update | a queue of repositories | breadth-first update | repository, submodules |
| Options | a C structure and a Kotlin copy of its fields | setters, flag masks | C reads the structure |
| `KGit2.kt` | library counter, leak checkers | initial, shutdown | runtime, libgit2 |
| Build, Rust generator, tables of constants | none | none at run time | none |

`PROJECT.json` lists each of these with its sources, its status and why it is,
or is not, modelled.

**What is hard here.** The cleaner worker runs beside the application; classes
that override `cleaner` have two cleaners over one `Raw`; constructors fail
before or after C handed out the object; an options structure with a payload is
copied into C objects that outlive it; inner-class payloads keep their own
wrapper alive; the cache of an iterator is updated by one compare-and-set whose result
nobody looks at; a wrapper made from another one may point into it and be freed
before or after it; helpers answer partially, wrongly or not at all.

**What makes each component correct.**

- *Handles*: each C object is released at most once, before its memory, and
  eventually if the wrapper became garbage; a failed constructor leaves nothing;
  no call is made through a freed handle.
- *Payloads*: a callback always resolves a live reference; each reference is
  disposed once; what the application dropped is cleaned up.
- *Iterators*: each item once and in order, the end reported only at the end,
  loops end.
- *Credentials*: a returned password belongs to the username returned with it;
  nobody is asked after the answer is complete.
- *Shared lists*: each change is the whole of one call, applied to the contents
  it replaces.
- *Derived wrappers*: what a held wrapper points to is there; an object is freed
  by the wrapper that owns it and by no other.

## 2. Modules

| Module | Models | Composed with |
|---|---|---|
| `OwnedResource` | abstract: absent → open → held → released → reclaimed | refined by the next three |
| `RawLifetime` | Raw, Memory, wrappers, generated constructors, cleaners, close, move | `Resource == INSTANCE OwnedResource WITH phase <- ResourcePhase` |
| `DerivedHandles` | wrappers made from wrappers: who owns, who borrows, who keeps whom | `Resource == INSTANCE OwnedResource WITH …` over the parents and owning children that nobody else frees |
| `CallbackLifetime` | StableRefs of wrappers and calls, reachability, cleaners, C's copies | `Reference == INSTANCE OwnedResource WITH …` |
| `AtomicList` | abstract: a list changed by one whole call at a time | refined by the next, and by the cache of `CachedIterator` |
| `NativeMutableList` | every mutator, each read of the reference and the CAS a step | `Shared == INSTANCE AtomicList WITH list <- ref.list` |
| `Delivery` | abstract: items 1..Items in order, then exhausted | refined by the next |
| `CachedIterator` | IteratorBase over the add of NativeMutableList, step by step | `Loop == INSTANCE Delivery WITH …`, `Cache == INSTANCE AtomicList WITH list <- cache, …` |
| `CredentialHelper` | config, setUsername, execute | alone |
| `…_proofs` | theorems about the module they extend | all but the abstract ones have one |
| `MC…` | constants for TLC | extend the module they instantiate |

### RawLifetime

A *handle* is a wrapper with its `Raw`, its `Memory` and its C object. One
action per step another thread can observe:

- `BeginConstruct` (default arguments: the arena is allocated), then
  `InitialSucceeds`, `InitialFails` or `InitialNull` (`raw-declare.ftl`: the
  block, `onFailure`, and `value!!` outside the `runCatching`); after a failure
  `FreeOnFailure` and `MemoryOnFailure`. `Adopt` wraps an existing pointer.
- `BeginUse`/`BeginClose`/`BeginConvert` are the raw getter (throws when
  `freed`); `CallC`/`ReturnFromC` the C call; `Move`/`AfterMove` the two reads of
  `raw` in a conversion.
- `CasFreed`, `BeforeFree`, `MemoryFree` are `Raw.free`, run by a closing thread
  or by the cleaner worker, in the code's order.
- `Drop` makes a wrapper garbage (never while an operation has it on its stack),
  `RunCleaner` runs one of its cleaners.

`moved` is a history variable, `outcome` records how each thread's last
operation ended. `ReleaseInvariant` is the safety side of liveness: whatever is
not released has somebody left who will release it (`HasReleaser`), a moved
object is kept as it is (`MovedIsKept`), and a conversion that moved always
finds the flag set (`ConversionFindsFlag`). `WhatFailureLeaves` says what a
failed constructor leaves: nothing after `onFailure`, the arena after `value!!`.
`RevivedArenaIsLost` is about `Memory.alloc` after `Memory.free`: it takes a use
that a close of another thread overtook, and that memory is never cleared.

### CallbackLifetime

`Reachable` is what the collector sees: the application, the stack of a C call,
and a live `StableRef` to an inner-class payload. A wrapper's cleaner runs only
when it is not reachable. `CopyInto` is C copying a structure (`Remote.connect`,
`git_rebase_init`), `EnterC` a C call that may call back, directly or through
the copy; `Close` is `OdbPackWriter.close`. Calls with their own payload run
`StartCall`, `EnterCallback`, `LeaveCallback`, and `ReturnOk` or `ReturnError`
(`errorCheck` before `dispose`, as in the code). Handle details that
`RawLifetime` models (flag, arena) are one variable, `cstruct`, here.

Calls that dispose in the callback (`submodules()`) are part of the model and of
its invariant: `CallState` gives the state of the reference by the number of
callbacks that returned. `PayloadLastsAsLongAsItsOwner` says exactly when C
finds the payload: always for wrappers and for other calls, at the first item
and at no later one for these.

### DerivedHandles

`RawLifetime` follows one handle through every step of its flags; here a handle
is its life (`unborn`, `building`, `held`, `garbage`, `freeing`, `cleaned`) and
the interest is in two that share an object. A *parent* owns a C object or is a
structure in its arena; a *child* has an object C made for it (`Own`) or points
into the parent (borrowed). The constants say what the class of a child does:
whether it is a val of the parent's constructor (`Embedded`), has a C free
function (`Freeing`), is moved at once (`Disowned`), is used after construction
(`Lazy`), refers to its parent (`Keeping`), has an object that needs the parent's
(`Backed`). `Construct`, `Derive`, `Finish` are construction with its vals,
`GiveUp` a val that threw (`git_commit_body(…)!!`): the wrapper has its cleaner
and becomes garbage together with the vals it made. `Mutate` is a C call that
replaces what the parent contains, `Drop` the application letting go,
`FreeObject` and `FreeMemory` are `Raw.free` in the cleaner worker, `Delete` and
`DeleteMemory` the same in `Reference.delete()`, of a parent that stays in use
(lives `deleting`, `deleted`) and whose cleaner then finds the flag set. `CFree`
of a borrowed pointer corrupts the owner's object.

`DerivedInvariant` makes no assumption about classes: it gives the state of every
object as a function of the lives of the wrappers that lead into it
(`ObjectAsFreed`). An object is corrupt exactly when a borrower of a class with
a free function was cleaned, whether before or after the owner.

Discipline is local. `FreesAlone(w)` says that the class of `w` frees what it
owns and no child that borrows from `w` frees anything; such parents and owning
children are the `Resources`. `Disciplined(w)` says that what `w` points into is
a resource and that it uses it no longer than that lasts (`BorrowsSafely`). A
class that breaks the rules harms the objects it points into and nothing else,
so the properties are about all classes at once, the bad ones beside the good.

How classes of the repository fall out:

| Class, made by | Owns | Freed | Keeps parent | Disciplined |
|---|---|---|---|---|
| `Reference` from `ReferenceIterator`, `Tree.getEntryByPath`, `RevSpec.from` | yes | yes | – | yes |
| `InnerIterator` (iterators, `IterableBase`) | no | no | yes | yes |
| `ConfigEntry` from `ConfigIterator` (moved, read at construction) | no | no | no | yes |
| `Oid` of a reference, commit, tree | no | no | no | no: dangles |
| `Commit`, `Tree`, … of a `Repository` | yes | yes | no | no: backed by the repository |
| nested options (`RebaseOptions.mergeOptions`) | no | no | no | no: dangle |
| `TreeEntry` from `getEntryById`, `Signature` of a commit | no | yes | no | no: freed twice |

### NativeMutableList

A call is a record (kind, positions, elements), so that one set of actions
models all mutators: `Begin`, `ReadExpected` (first argument of
`compareAndSet`), `ReadHead` and, for the positional ones, `ReadTail` (the
further reads of the second argument), `CompareAndSet`. List objects are named
by the call that made them because Kotlin/Native compares references by
identity; `emptyList()` is one object for the whole program, and `minus` of an
empty collection from an empty list answers it too. `Size` is that of the list
given to the constructor, for ever: the interface is delegated to that list.
`ChangesAreWholeCalls` is the promise of `AtomicList` for every change but those
that replace the shared empty list; `ImplementsList`, for all of them.
The snapshot iterators (lines 53–60) change nothing and are left out.

### CachedIterator

`HasNext`, `FetchItem`/`FetchOver`/`FetchFails` (the three results of
`nextRaw`), `ReadExpected`, `ReadCurrent`, `CasAppend` (the two reads and the
compare-and-set of `NativeMutableList.add`, result ignored), `IncrementIndex`,
`Get`. `CacheSize` is 0: the list is *delegated* to the value the reference had
at construction, so `size` never changes. Lists are compared by contents; that
equals identity while lists only grow. `CacheImplementsList` says that they do,
one whole add at a time.

### CredentialHelper

`Config` models the three keys (exact url, protocol and host, none): the most
specific entry decides the username and `useHttpPath`, every entry adds a helper
command. `Execute`, `AskNext`, `GiveUp` are the loop of `execute()`; `LastValue`
is `parseOutput` (last line with the key, the part between the first two `=`).
`asked` is the history of the execution. `CommandThrows` is what nothing catches:
a process without the pipe, a pipe that breaks, a wait that fails. `threw`
records it, and an execution that ends so has found no complete answer before.

Modules also hold definitions whose comment begins "Mutated form of": plausible
slips in one definition. No action uses them; substituted for the definition
they name, they make the property paired with them in `PROJECT.json` fail. They
show that the properties say something about the code.

## 3. Runs

| Run | Bound | Question and answer |
|---|---|---|
| `threads` | 2 handles (closeable stream, convertible blob), 2 threads, cleaner worker | Is each object released once, before its memory, for every interleaving? Does whatever is not released have somebody left to release it? Are failed constructors clean but for `value!!`, is garbage released, no arena left, nothing used after free that nobody can close under its user, and does an arena come back to life only under a close by another thread, for good? Yes. |
| `convert` | the same with 1 thread, with fairness | Is "This object has been freed" true when it is thrown? No: conversions read `raw` after `move()`. |
| `derived` | 4 parents with a child each, one of them a signature that frees what it borrowed, one a reference that may be deleted | Do the lives of the wrappers tell what became of each object, is what a disciplined wrapper points to there while it is held, and is each object nobody else frees freed once by its owner, whatever the order of drops, deletions, failures and cleaners? Yes. |
| `borrowed` | a reference with its id, options inside options, a repository with a commit; none deleted | Is what a held wrapper points to there? No: no child keeps its parent. |
| `callbacks` | 3 wrappers (copied, never disposing, closeable), a call that disposes after it and one that disposes in the callback, 2 items | Does C find a live payload, but for the later items of `submodules()`, is each other reference disposed at most once, are plain wrappers released? Yes. |
| `leak` | 1 options wrapper | Are all cleaners run, as the leak checker demands? No: an inner-class payload keeps its wrapper reachable. |
| `submodules` | 1 call that disposes in its callback, 2 items | Does C find a live payload? No, at the second submodule. |
| `list` | 2 threads, 4 calls of 8 kinds on a list of 2 | Is each change one whole call on the contents it replaces, unless it replaces the shared empty list? Yes. |
| `list_clear` | 2 threads, 3 calls, add and clear on an empty list | The same of every change? No: the shared empty list comes back. |
| `iterator_shared` | 2 threads, 3 items | Is no item delivered twice, and is each change of the cache one whole add to what is there, for any order of calls? Yes. |
| `iterator_loop` | 1 loop, 20 items | Does a loop get all items in order, are cache and index in step with it, and does it end? Yes. |
| `credentials` | all mixes of usernames and helpers at 3 places, outputs of up to 2 lines, 3 commands | Does `execute()` stop at the first complete answer, tell known usernames on, and match password with username? Yes. |

**Why these bounds are enough.** Handles do not interact except through the
actors that work on them, so two, one of each kind, and two threads beside the
worker reach every pair of racing operations; the proofs then cover every
number, and handles that own nothing but their arena. Wrappers of different
parents do not interact, so one family of each sort is enough: a child that
keeps its parent, one that owns its object and outlives a parent that may be
deleted, one that is moved while its parent mutates, and one that frees what it
borrowed; families with more children, and structures as parents beside all of
these, are left to the proofs. Two threads and four
calls let a call be overtaken by two others and a third build on the result, on
a list of two (positions before, at and behind the end). Two items give a callback after a callback, which is what `submodules()`
needs to fail; a call that never disposes (`Odb.forEach`) is `tags` without its
last step, left out of the instance and covered by the proofs. Three items and two threads let an add fail, a
later add succeed and an index run ahead of the cache. `iterator_loop` has 20
items because its only question is about length (it is deterministic but for
errors). `MaxIndex` bounds `next()` beyond the end (each such call only
increments the index and throws). `MaxCommands = 3` is what one configuration
adds; `Config` may be repeated while there is room for three more.

**Deadlock** is not an error in the lifetime, callback, list and iterator runs: when
every handle is garbage, every call made and every loop over, the program is
simply done. The credentials run checks for it: an execution can always go on.

**Fairness.** `RawLifetime`, `DerivedHandles` and `CallbackLifetime` assume weak fairness of the
runtime alone: it keeps collecting and running cleaners. No application thread
is obliged to start, finish or drop anything. `CachedIterator` assumes that a
thread inside a loop keeps running it (`iterator_loop`); `CredentialHelper`
and `NativeMutableList` assume none. A garbage wrapper that was *moved* is excluded from the liveness
properties: `move()` hands its release to a new owner (which, as `convert`
shows, never comes to exist: finding 1).

## 4. Proofs

| Theorem | Says | Assumes |
|---|---|---|
| `LifetimeIsInvariant`, `TypeCorrect` | the inductive invariant of `RawLifetime` | `LifetimeAssumption` |
| `FreedAtMostOnce`, `RegionFreedLast` | no object freed twice; memory after object | the same |
| `FailureLeavesNothing` | a constructor that rethrows is clean; one that fails on `value!!` leaves its arena | the same |
| `RevivedArenasAreLost` | memory allocated after the memory was freed is never cleared, and comes only of a close under another thread's use | the same |
| `UsersAreSafe` | no use after free of handles that one thread uses, or nobody closes | the same |
| `HandlesImplementResource` | `RawLifetime` implements `OwnedResource` | the same |
| `NothingIsForgotten` | what is not released has somebody left to release it, or was moved | the same |
| `MovedObjectsAreLost`, `ConversionsAlwaysThrow` | finding 1 for every behaviour: a moved object stays for ever, every conversion throws | the same |
| `CallbackInvariantHolds` | references, structures and cleaners follow what holds them | `CallbackAssumption` |
| `PayloadIsThere` | C finds every payload, but for the later items of a call that disposes it in the callback: there it never does | the same |
| `PayloadIsAlive` | C finds every payload | and `DisposedInside = {} \/ MaxItems <= 1` |
| `InnerPayloadIsKeptForEver` | finding 2 for every behaviour: a wrapper with an inner-class payload is always reachable | `CallbackAssumption` |
| `ReferencesRefineResource` | references that one place disposes implement `OwnedResource` | the same |
| `DerivedIsInvariant`, `DerivedImplementResource` | what became of each object, of any class; the resources of `DerivedHandles` implement `OwnedResource` | `DerivedAssumption` |
| `DisciplinedHandlesAreAlive` | what a held, disciplined wrapper points to is there | the same |
| `SnapshotsAreCurrent`, `WholeCallsUnlessEmptied` | a call that wins computed from what it replaces; each change that does not replace the shared empty list is a whole call | `ListAssumption` |
| `ImplementsAtomicList` | the list implements `AtomicList` | and `NobodyEmpties` |
| `SharedIterator`, `ItemsAreDeliveredOnce` | the invariant of a shared iterator; no item twice | `IteratorAssumption` |
| `AddsExtendTheCache`, `CacheImplementsAtomicList` | the cache only grows; it implements `AtomicList` with one kind of call, the add | the same |
| `LoopIsInStep`, `LoopImplementsDelivery` | a loop over an iterator of its own is in step with C, and implements `Delivery` | and one thread, which loops |
| `CredentialInvariantHolds`, `SameUserThroughout`, `PasswordBelongsToUser` | locals match the history; one username per execution; password and username belong together | the four assumptions of the module |
| `StopsWhenAnswered` | the execution stops at the first complete answer and returns it | the same |

Assumptions beyond the modules' own are in the last column. No theorem assumes
that a class is well behaved: those about derived wrappers say of every object,
in a program with any classes, what becomes of it.

*Handles.* That an object is freed once is not inductive: two actors may be in
`Raw.free` of one handle. `LifetimeInvariant` adds what each control point knows
(`ConstructState`, `OperateState`), that a wrapper nobody freed is intact
(`UnfreedIsIntact`), and `Exclusive`: at most one actor is in the steps that
change object or memory, because only the winner of the compare-and-set enters
them. One lemma per action, then the refinement: each step moves one handle's
phase by one arrow of `OwnedResource`, or none. `UsersAreSafe` adds that while a
thread is inside a call the handle is reachable, hence no cleaner runs, and
unfreed, because nobody else may close it (`Undisturbed`).

*Release.* `NothingIsForgotten` is inductive on top of `LifetimeInvariant`. For a
born handle with the flag down there is a pending cleaner, or the cleaner worker
is about to read the flag; with the flag up its memory is gone, somebody is in
the steps that free it, or it was moved. The steps that could break it are the
compare-and-set (the winner becomes the releaser, the loser needs none),
`MemoryFree` (the releaser leaves with the work done) and `Move` (it raises the
flag without becoming a releaser). The last is the code's mistake, and the same
invariant shows its price: nobody can enter the freeing steps of a moved handle,
because the flag is up.

*Derived wrappers.* `DerivedInvariant` is a closed form: `ObjectAsFreed` computes
each object from the lives of its wrappers. It is inductive because a free
function meets one of three cases (`ObjectsAfterFree`): the class frees nothing;
the wrapper owns the object, which is then as its borrowers left it; or the
wrapper borrows, and the parent's object is corrupt from then on. A wrapper is
made with no borrower behind it, since children come after their parents
(`ParentIsInUse`). Of a resource the closed form leaves the wrapper's own life
alone (`ResourceFollowsLife`), from which the refinement follows. The second
half of `ParentIsInUse` is what a held child that keeps its parent finds: not
even garbage, since `Drop` waits for it and `GiveUp` takes both.

*Lists.* The compare-and-set compares objects, the property speaks of contents.
`SnapshotIsCurrent` links them: if the reference still holds the object a thread
expects, it holds what the thread read. That survives other threads' steps
because a new object is neither held nor expected by anybody (`FreshIsUnused`).
`emptyList()` is the one object that can come back, so nothing is claimed about
a thread that expects it, unless no call installs it (`NobodyEmpties`).

*Iterators.* `ReadsArePrefixes` bounds the two reads of an add by the cache, so
a successful compare-and-set has the same list at both; `ItemIsNew` keeps the
cache free of repetitions, `PlaceIsMine` and `DeliveredWasCached` tie delivered
items to places below the index, which the atomic increment gives out once.

*Loops.* With one thread that alternates, as `for` does, nothing overtakes an
add. `LoopProgress` gives, for every control point, how far C, the cache, the
index and the delivered items are apart, and `LoopAnswer` that the end is
answered only when all items were delivered. Between calls the three are level
(`Even`): the size `hasNext` compares with is 0 for ever, so it fetches at every
call, and the loop takes exactly the item it fetched before asking again. Each
step is then one delivery, the end, or a stutter of `Delivery`.

*Callbacks.* The argument is about reachability. `WrapperState` ties reference,
structure and pending cleaners to what holds the wrapper: an overriding cleaner
is pending exactly as long as the reference it is to dispose lives; an
inner-class payload keeps its reference live for ever (which is why C finds it,
and why `leak` fails). For calls the number of callbacks that returned
(`Finished`) decides: none, and a reference that a callback disposes is live;
one, and it is disposed; more, and it was disposed twice.

*Credentials.* `LocalsState` says that the username, once set, is what every
told helper was told, that an untold helper named it or nobody, and that the
password is one of the answers. `LoopState` says that while the loop runs the
locals are the first name and the last secret of the answers so far and no
prefix of them was complete; the last answer then makes the first complete one.
The lemmas about the most specific entry and the last line give the types of
values taken by `CHOOSE`.

**Only model-checked** is liveness: `GarbageIsReleased` (of both modules),
`ArenaIsReclaimed`, `PlainWrapperIsReleased`, `ListEnds`. The prover used here
has no rules for ENABLED, so what fairness brings about stays with TLC. What
liveness rests on is proved: that a releaser is there (`NothingIsForgotten`),
where an arena can come back to life and that it then stays
(`RevivedArenasAreLost`), that a cleaner is pending as long as what it is to
release (`CallbackInvariantHolds`), and that every turn of a loop takes one item
and the end is answered only after the last (`LoopIsInStep`). Every invariant,
every action property and every refinement that holds of a run is a theorem.

## 5. Findings

1. `convert` — every conversion throws "This object has been freed" of a live
   object, which nobody releases any more (for every behaviour:
   `ConversionsAlwaysThrow`, `MovedObjectsAreLost`).
2. `leak` — wrappers with an inner-class payload are never collected
   (`InnerPayloadIsKeptForEver`).
3. `submodules` — the payload of `Repository.submodules()` is disposed in the
   first callback; no later one finds it (`PayloadIsThere`).
4. `borrowed` — ids answered by a reference, and objects answered by a
   repository, outlive what they point to, and the getter cannot tell.
5. `list_clear` — `NativeMutableList.clear` lets a pending call bring cleared
   elements back.

Seen while modelling, without a run of their own: `OdbReader.close` throws the
second time although its comment (lines 25–26) calls it safe; an add that loses
its compare-and-set loses its item while `hasNext` answers true; the loop over
notes never learns of the end because the result of `git_note_next` is ignored.

## 6. Abstractions and limits

- The C library is external: an object is *none, owned, released* or, after a
  second free, *corrupt*; what it does with data is not modelled.
- An action is the longest stretch no other thread can tell apart.
- A wrapper is on the stack of the thread using it, hence never collected during
  an operation. (A compiler that ends the lifetime of a receiver earlier would
  be outside the model.)
- `NoUseAfterFree` is stated for handles no other thread can close
  (`Undisturbed`). A stream that one thread closes between the other's check and
  its call is used after it was freed, and nothing in the code promises otherwise.
- `DerivedHandles` abstracts from the flag and the race of two cleaners, which
  `RawLifetime` covers; a child there has one parent, and an arena that parent
  and child share (`raw.memory` passed on, as in `TreeBuilder.get`) is not
  modelled.
- The classes' free functions are those of their annotations; that the processor
  leaves them out where none is given (`RawAnnotatedVisitor.kt:38-40`) depends on
  how KSP reports an omitted argument.
- `NativeMutableList` is proved for every bound on the number of calls; identity
  comparison of `AtomicReference`, and `emptyList()` being one object, are taken
  from the Kotlin runtime.
- In `CachedIterator` lists are compared by contents, which is identity there:
  the cache is never cleared and no item is added twice.
- An exception thrown by the application's callback ends the process in
  Kotlin/Native and is not modelled.
- In `CallbackLifetime` constructors succeed; failures are in `RawLifetime`.
- Helper commands, urls and the arguments of processes are values, not strings;
  a process that cannot be started behaves as one that wrote nothing.
- `IteratorBase.resetCache` has no caller and is left out.
- Thin calls to libgit2, tables of constants, the build and the generators keep
  no state to check.

## 7. Not modelled

- *Most lines of the repository.* By line count it is almost all vendored
  grammar tables (`generator/tree-sitter-kotlin/src/parser.c`, 240,594 lines of
  generated C), with a parser header, a Node binding and a demo (`native/`) that
  the Kotlin code never calls. The program is the Kotlin code under
  `src/commonMain` (about 11,000 lines), the KSP processor and its template;
  `map` points there only.
- *Operations that are one call to libgit2* (most of `Repository`, `Index`,
  `Diff`, `Config`, `Remote`, …): they keep no state in this code beyond their
  handle.
- *Sequential details listed as hazards*: `OdbReader.read`, `StrArray` and its
  allocators, the size of `Index`, the cut of values in `parseOutput`. Each is
  visible in a line or two; a state machine adds nothing to reading it.
- *`updateSubmodules`*: its loop stands on `submodules()`, which fails beyond
  the first submodule.
- *Tables of constants, options' fields, library initialisation*: no behaviour
  over time, apart from the leak checker used in `leak`.
- *Build-time programs*: the KSP processor (what it generates is modelled), the
  Rust generator, the Gradle build.
