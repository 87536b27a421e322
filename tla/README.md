# TLA+ models of deemon

deemon is a scripting language with a reference-counted object system, a
cycle-collecting garbage collector and real threads without a global lock. Its
runtime (`src/deemon/`, headers in `include/deemon/`) is C. This directory
models the parts of the runtime on which everything else stands and which are
hardest to test: the life of an object, the collector, the mutex the collector
uses, threads, the hash map that dictionaries share between threads, and the
modules of extensions from their initialization to their unloading. Paths below
are relative to the repository's root.

## Inventory

| component | source | state | operations | talks to |
|---|---|---|---|---|
| native mutex, semaphore | `src/deemon/mutex.c` | `m_counter`, `m_owner`, `m_recursion`, the semaphore | acquire, timed and interruptible acquire, try, release in three variants | threads (interrupts), the collector (its list lock), the `mutex` type |
| objects | `object_refcnt.h`, `object.core.destroy.inl`, `object.core.reference.inl`, `weakref.c` | `__ob_refcnt`, `__ob_weakcnt`, `__ob_type` | INCREF, DECREF, weak twins, lock of a weak reference, destruction (tp_clear, tp_dtor, tp_free) | every component; calls destructors, which run user code |
| garbage collector | `gc.c` | `_dee_gc_tracked`, `_dee_gc_tracked_pending`, visit ids, `gc_refs` | TrackedAdd, TrackedRem, CollectNow, aggressive collection | objects (destroys them), all types (tp_visit, tp_clear) |
| threads | `thread.c`, `mp/thread.h`, part of `error.c` | `t_state`, `t_handle`, `t_rt_return`, two global counters | start, interrupt, detach, join, try_join, join_timed, check_interrupt, no-interrupt blocks | objects (a thread owns a reference to itself), exceptions, finalization |
| thread-local storage | `tls.c`, `sys/` | ids, values per thread | alloc, free, get, set, xch | threads (`t_rt_tls_list`, freed at the end) |
| initialise-once, spin locks | `optional/atomic_once.h`, `optional/atomic_mutex.h` | one flag each | enter, commit, abort; acquire, release | everything |
| module loading | `dex.c`, `dex.*.inl` | map of modules, list of the initialized ones, `dm_state`, `dm_tickets`, cached values of exports | open, acquire, try-acquire, release, operations on exports, memory collection, shutdown, quit | finalization; calls `DeeDex_Main` of the libraries, which use other modules |
| start and end of the runtime | `deemonrun.c` | recursion counter, exit callbacks | initialize, finalize | all: waits for threads, repeats the collection, clears pools |
| signal handlers, processes, pipes, sockets | `signalhandler.c`, `process.c`, `pipe.c`, `socket.c` | one state word each | wrappers of system calls | threads (interrupt points) |
| dictionaries and sets | `dict.c`, `set.c` and their `.impl` files, `optional/hashmap.h`, `optional/hashset.h` | buckets, sizes, a lock | get, set, delete, rehash, iterate | user code (hash and equality) while the table may change |
| lists, tuples, arrays, cells, structured data | `list.c`, `tuple.c`, `array.c`, `cell.c`, `structured.c`, `struct.c` | elements, a lock | sequence operations | user code in comparisons |
| iterators, sequences | `iterator.c`, `sequence.c` | position | next, combinators | the containers |
| strings, numbers | `unicode/`, `integer.c`, `float.c`, `math.c`, `random.c` | pools; otherwise immutable | conversions, arithmetic | |
| files, buffers, file system | `file/`, `io_buffer.c`, `fs/`, `fs_api.c` | a ring buffer with a lock; descriptors | read, write, seek; wrappers | pipes |
| marshalling | `marshal.c`, `marshal_data.c` | | write, read an object graph | types |
| types and classes | `type.c`, `object.c`, `class/` | slots, attributes | dispatch, instantiate | destructors of classes may revive an object |
| exceptions | `error.c`, `traceback.c` | list per thread | throw, catch, handled | the interrupt signal restores a flag when it is destroyed |
| interpreter, compiler | `runtime/`, `compiler/` | frames, stack; syntax trees, code | execute; parse, optimize, emit | everything |
| extension modules, tools, scripts | `src/dex`, `src/tpp`, `src/debug_new`, `lib` | | | |

What is hard here:

* **Interleaving.** Counts and flags are changed by single atomic
  instructions, and several of them must agree: two reference counts, a flag
  and a counter of interrupts, a counter of claims and a semaphore.
* **Callbacks.** tp_clear and tp_dtor run user code in the middle of a
  destruction and in the middle of a walk over the collector's list; they may
  create references to the dying object, and track and untrack others.
* **Comparisons without the lock.** A dictionary releases its lock to compare
  two keys, and finds out afterwards whether what it looked at is still there.
* **Timeouts and failures.** A wait that is given up, a semaphore that cannot
  be posted, a system thread that cannot be created, a module that cannot be
  initialized.
* **Termination.** The runtime must not end before its threads, it repeats the
  collection until nothing is left, and it unloads every module after its last
  user.

What makes each part correct: the mutex excludes, nests and loses no wakeup;
an object is intact while somebody holds it, is destroyed level by level once,
freed once, by the right function, after its last use; the collector's lists
hold what is tracked and nothing else; a collection spares what the program
can reach and the repetition leaves nothing it cannot; a system thread is
joined or detached exactly once, an interrupt is delivered and accounted for,
and nothing runs after the finalization; a dictionary is a map to every thread
that uses it, whatever others do while it compares keys, and a traversal yields
each key once; a library is initialized once before it is used and finalized
once afterwards.

## Modules

| module | models | notes |
|---|---|---|
| `RecursiveLock` | what a recursive mutex promises | abstract: a holder and a depth. Implemented by `NativeMutex`, used by `GCTracked` as the list lock |
| `NativeMutex` | `DeeNativeMutex` on `DeeNativeSemaphore` | one step per atomic operation or store; `pc` is the place in the C function. `Acquire` is the first instruction of all three blocking functions, which differ in `GiveUp` only |
| `MCNativeMutex` | | instances, symmetry |
| `NativeMutexProofs` | | proofs, see below |
| `ObjectLifetime` | one object: INCREF, DECREF, weak references, `_DeeObject_InternalDestroy` | the type is a chain of levels; `kind` says whether it is tracked and which levels always clear. `strong` and `weak` are the references each thread owns, which the C code does not store |
| `MCObjectLifetime` | | kinds of objects |
| `ObjectLifetimeProofs` | | proofs |
| `GCTracked` | the two lists of the collector with their links, both locks, the walk of a collection | `next` and `prev` are `gc_next` and `gc_prev`, stored one at a time; the collector may condemn any object |
| `GCTrackedProofs` | | proofs |
| `GCCollect` | `_deegc_should_delete`, `DeeGC_CollectNow`, its repetition | one thread, a heap of objects with ordered references. The search for dependencies is made of steps, one for each call of the visit procedure and each return of a tp_visit; `stack` is its recursion, `deps`, `seen`, `visited` and `changed` are `copy_data`. What an object can reach, and what is left of a heap after a destruction, are defined without recursion, as the least and the greatest set with a property |
| `MCGCCollect` | | three objects |
| `GCCollectProofs` | | proofs |
| `ThreadLifecycle` | thread objects | flags of `t_state` as a set, the counters, the handle, t_lock and the reference the thread owns |
| `ThreadLifecycleProofs` | | proofs |
| `SharedMap` | what a dictionary promises the threads that share it | abstract: a function from keys to items. A call that changes it takes effect at one moment, a call that only answers says what was true at some moment of the call |
| `HashMap` | `DeeHashMap` with the lock of `dict.c`: get, set, setnew, setold, pop, del, clear, traversal, rehash | a step is what happens between ACQUIRE and RELEASE; the comparison of keys lies between two steps. A bucket is the sequence of its nodes, an address a number that tells it from others. `dict`, `seen`, `stays` and `reply` are history variables |
| `MCHashMap` | | four keys, what each thread calls |
| `HashMapProofs` | | proofs |
| `Dex` | module objects: tickets and flags, `_dex_modules_map`, `_dex_init_list`, `_DeeDex_ShutdownApi`, `_DeeDex_QuitApi` and what of `Dee_FinalizeEx` lies between | a frame is a call in progress, above it the calls its `DeeDex_Main` makes; `pc` of a frame is the place in the C functions. `main` is the walk of the finalization. The flags are a set, the links of the list are pointers. `lost` is a history variable |
| `MCDex` | | three libraries, who uses which |
| `DexProofs` | | proofs |
| `Sums` | | lemmas on the sum of a function over a finite set, used by the proofs |

`GCTracked` composes with the mutex through `RecursiveLock`: the refinement
`ImplementsLock` of `NativeMutex` is what allows its list lock to be one step.
`GCTracked` decides nothing about which object dies and `GCCollect` nothing
about lists, so that each abstracts the other. `ObjectLifetime` uses the fact
that tracking is a bit, which `GCTracked!ListsExact` justifies. `HashMap`
implements `SharedMap` (`MapImplemented`): the refinement maps the buckets to
the function that an undisturbed look into each key's bucket finds, `Contents`.
`Dex` looks a module up and inserts it in one step each, as `SharedMap` allows;
that `DeeThread_PrepareFinalize` returns when the threads have ended is
`ThreadLifecycle!QuietWhenFinal`.

The definitions named after a fault (`OthersSubRefs`, `LockStore`, ...) stand
before the definition they are a faulty version of. They are not part of any
specification; each is a plausible bug that one of the properties detects.

## Runs

| run | configuration | expected | what it shows |
|---|---|---|---|
| `mutex` | `NativeMutex.cfg` | pass | three threads that nest twice, no one gives up: exclusion, exact counter, every token has a taker, no lost wakeup, implements `RecursiveLock` |
| `mutex_timed` | `NativeMutex_timed.cfg` | pass | with callers that give up and posts that fail: the counter still equals the claims |
| `mutex_exclusion` | `NativeMutex_exclusion.cfg` | violation | a wait given up too late breaks exclusion |
| `object` | `ObjectLifetime_safe.cfg` | pass | three threads share an object that is not revived while tracked; one thread alone with every kind |
| `object_revive` | `ObjectLifetime_revive.cfg` | violation | an instance revived by its destructor is freed by another thread and then tracked |
| `gc_lists` | `GCTracked.cfg` | pass | two threads, three objects: both lists exact, the walk stays in the list, a collection ends |
| `gc_garbage` | `GCCollect.cfg` | pass | every heap of three objects with up to two references each: spares the living, leaves no garbage, ends |
| `gc_shared_plain` | `GCCollect_plain.cfg` | violation | tuples with more than one reference make the collector clear what the program can reach |
| `thread` | `ThreadLifecycle.cfg` | pass | two thread objects, three actors: interrupts counted, handles used once, joins find results, quiet after finalization |
| `thread_early` | `ThreadLifecycle_early.cfg` | violation | a join during `DeeThread_Start` uses an uninitialized handle |
| `hashmap` | `HashMap.cfg` | pass | two threads call, clear and traverse one map: the table is exact between any two steps, a traversal yields every key that stayed and none twice, the map implements `SharedMap` |
| `dex` | `Dex.cfg` | pass | two threads and three libraries, up to the end of the finalization: tickets are exact, the events of a library are in order, the list has every initialized module, all calls return and everything is unloaded unless a ticket was lost |

### Bounds

* Mutex: three threads are one holder, one that leaves or gives up and one
  contender, which is what every race in the code needs; depth 2 tells a
  nested from an outermost release. `SemMax = 1` is the value on Windows and
  the only one at which a post can fail. `MaxDepth` is the only bound in a
  guard. Symmetry is used for `mutex_timed` only, where no property is temporal.
* Objects: two levels tell the most derived type from a base, with one
  reference of each sort per thread; the destroyer, a thread that locks a weak
  reference and a third that drops one meet. `MaxRefs` is the bound.
* Lists: three objects make a first, a middle and a last one. The links are
  real pointers, so a wrong store shows.
* Collector: three objects with two references each contain the example of the
  comment in `_deegc_should_delete` (`a` to `b`, `b` to `c` and `a`, `c` to
  `b`), in both orders of visit; every heap is an initial state.
* Threads: two thread objects that can start, interrupt and join each other
  and themselves, and the main thread. The two 16-bit counters keep their
  width where they wrap.

* Hash map: `k1` and `k2` have the same hash, `k3` shares their bucket when
  there are two buckets only, and `k4` is in the first bucket; so chains of one
  to three nodes, walks that pass a node of the same hash, and both ends of the
  range of valid buckets occur. With four keys the table is created with eight
  buckets, and shrinks and grows through two and four. `Makes` bounds what each
  thread calls: each operation is called by at least one, both add `k3`, and
  each removes keys the other adds or replaces. A thread may also clear the map
  at any time. `Places` are the addresses; four are enough that the allocator
  always finds one that nothing remembers.

* Modules: library `a` uses `b` to initialize itself, so that calls nest twice
  (`MaxDepth`); the main thread uses `b` too, so that the two race for opening
  it, for initializing it and wait for each other; with `c` an object leaves the
  middle of the list. `t1` collects memory. One initialization fails or one wait
  is interrupted (`MaxFaults`), which is enough for a lost ticket and for a
  second initialization. Two rounds of the finalization (`MaxRounds`) let a
  destructor of the collector use a module after the threads have ended. Two
  objects of a library (`MaxCopies`) are as many as two threads can make.

`CHECK_DEADLOCK FALSE` is set where the system stops: the modules are unloaded, the object is gone, the
last collection is done, the lock of a map was left locked, every thread has ended (or threads join each other,
which the code does not prevent). The mutex and the lists are checked for
deadlock.

### Fairness

* `NativeMutex!FairSpec`: weak fairness of each step inside the mutex, for the
  operating system schedules the thread, and of `Release`, for what is held is
  released by its holder. Starting an acquisition is not fair. Waiting for the
  semaphore needs no strong fairness for `NoLostWakeup`, which says that
  *somebody* comes in.
* `GCTracked!FairSpec`: strong fairness of each thread's steps, because they
  include acquiring a lock that others take and release again, which the spin
  lock and the semaphore grant eventually but not at once; and of the
  collector's progress, for the destructors it calls return.
* `GCCollect!Spec`: the one thread runs. The formula is weak fairness of `Next`
  with its enabling condition written out (`Running`).
* `Dex!Fairness`: weak fairness of every call in progress and of the
  finalization once it has begun, for `DeeDex_Main` and the operations on
  exports return; strong fairness of `QuitApi`, for the destructors of a
  collection make finitely many calls, between which it is enabled. The
  threads need not begin or end.
* `ObjectLifetime`, `ThreadLifecycle` and `HashMap` have safety properties only.

## Findings

1. **Exclusion is lost after a timed-out wait** (`mutex.c:368`, also `:345`).
   A releaser that sees the claim of a waiting thread posts the semaphore for
   it; if that thread then gives up, the token stays and the next contender
   enters with it beside a thread that found the counter at zero.
2. **A revived object is used after the last reference is given up**
   (`object.core.destroy.inl:210`).
3. **References to objects outside the collector are not compared**
   (`gc.c:425`): `l = []; t = (l,); l.append(t)` with only `t` held gets `l`
   cleared by a collection.
4. **Join races start** (`thread.c:849`): the flag is set before the handle.

Each passing run excludes exactly the condition of its finding, by a constant:
`MayGiveUp`, `Kinds`, `SharedPlain`, `Early`.

The models contain more faults of the code, which no run is about:

* An addition to the collector's lists may stay on the pending list with no
  call in progress (`gc.c:193`): the pending list is unlocked first and the
  tracked list after it, against the comment above.
* A wait for an initialization that is interrupted keeps its ticket
  (`dex.c:228`): `Interrupted`, after which `Shutdown` of that module waits for
  ever. `LoadingEnds` says that nothing else keeps the finalization from ending.
* Two threads that open a library at once make two objects of it, and the
  destruction of the slower one's empties the table of exports of both
  (`dex.c:300`), without `dm_cachelock`, though a comment claims exclusive
  access to it: `Insert`, `Drain`. That the value may be freed while it is
  handed out is not modelled.
* Modules are unloaded in the order of a hash map, where a comment promises the
  reverse order of initialization (`dex.c:76`); `_DeeDex_FinalizeApi`, which
  would do that, is never called. `INITIALIZING`, which "can never be removed"
  (`dex.h:404`), is removed at `dex.c:219`.
* A map that is emptied during a comparison has no buckets, and its bucket is
  looked up modulo zero (`dict.impl.hashmap.inl:730`): the step `Trap`, after
  which nothing happens.
* `DeeHashMap_DelItem` returns from an empty map without releasing the lock
  (`:1548`): the step `LeaveLocked`, after which no step needs the lock again.
* Two threads that insert the same key while another key has its hash may both
  add it (`:992`): each compares that other key, and neither looks at the nodes
  added in front of it meanwhile. `InsertAssumption` excludes such calls;
  without it `KeysUnique`, a part of `TableExact`, is violated in a few steps.

## Proofs

Every proof is for any values of the constants that satisfy `ConstantsOK` of
the module and the hypotheses named here, each of which excludes a finding.

**`NativeMutexProofs`**, from `MayGiveUp = FALSE` (finding 1; the runtime's own
locks use the functions that cannot give up), for every set of threads, every
`MaxDepth` and every `SemMax`:

* `Invariance`: `Spec => []IInv`
* `TypeCorrect`, `Exclusion`, `OwnerCorrect`: the invariants `TypeOK`,
  `MutualExclusion`, `OwnerIsHolder` that the run `mutex` checks
* `Refinement`: `Spec => ImplementsLock`, the mutex implements `RecursiveLock`

Exclusion is not inductive: a thread enters because the counter was zero or
because it took a token, and neither says anything about `held`. `IInv` adds
the *baton*: a thread that is inside, on its way in or out, one that still has
to post, or the token itself. `OneBaton` says there is at most one, counting
the token; `BatonCounted` that the counter is at least what the baton's owner
claims, so that it is above zero while there is one and nobody enters through
the counter; `Local` what a thread knows at each of its steps, for instance
that `owner = t` exactly when `t` holds the mutex or is about to. `StepIInv`
has one step per action. The refinement follows from `Exclusion` in both
states: an acquisition is `Deepen`, a release is `Release`, and every other
step leaves holder and depth alone.

One theorem needs no `MayGiveUp = FALSE`, only a finite set of threads:

* `CounterCorrect`: `CounterExact`, `m_counter` is the sum of the threads' claims.
  It shows that finding 1 is not a miscounted `m_counter`: the claims that are
  undone are counted right, it is the token that goes to the wrong thread.

It is what the last theorem, which needs both hypotheses, adds to `IInv`:

* `TokenCorrect`: `TokenHasTaker`, a token in the semaphore has a thread that is
  going to take it. A token is the baton, so no thread is inside; the counter is
  above zero, so some thread has a claim; and a claim without the baton is that
  of a thread on its way to the semaphore.

**`ObjectLifetimeProofs`**, from `KindsAssumption` (an object of the collector
does not clear itself always, finding 2, and only the most derived type of
another does) and a finite set of threads, for every number of levels, every
`MaxRefs` and any users of the object:

* `Invariance`: `Spec => []IInv`
* `TypeCorrect`, `NoUseAfterFreed`, `NothingLeaks`, `HeldObjectsIntact`,
  `OwnTypeFrees`, `FreedUntracked`, `HeldTracked`, `CountsCorrect`: every
  invariant of the run `object`

The counters are compared with one and zero, so the invariant must say what
they count. `Refs` and `WeakRefs` are sets: a pair for each reference, numbered
for each thread, `<<t, 0>>` for the fake reference of `tp_clear`, and
`<<0, 0>>` for the token the destruction has in `__ob_weakcnt`. `Counts`
says that each counter is the size of its set; a step adds an element, removes
one, or leaves the set alone (`StepRefcnt`, `StepWeakcnt`). `CountsExact` says it
with a sum over the threads, which is the size of the same set (`SizeOfRefs`,
`SizeOfWeakRefs`). From `Counts`, `LastRef`: a counter that is one counts one thing,
so that whoever takes it to zero is alone. The other parts say who that is:
`OneDestroyer`, `OneFreer`, what the destroyer knows at each step (`Local`),
that a dead object has a destroyer or is destroyed (`Alive`), that what has no
reference left has a thread that frees it or is freed (`FreedLast`), and that
the type is the object's own again when others may free it (`Restored`).

The run `object` also has kinds of objects that `KindsAssumption` excludes, used
by one thread only: they are model-checked.

**`ThreadLifecycleProofs`**, from `Early = FALSE` (finding 4) and a finite set
of thread objects:

* `Invariance`: `Spec => []IInv`
* `TypeCorrect`, `HandlesIntact`, `HandlesFreed`, `JoinsFindResult`,
  `QuietAtEnd`: every invariant of the run `thread` but `InterruptsCounted`
* `InterruptsCorrect`: `InterruptsCounted`, with fewer thread objects than a 16-bit
  counter can count. With more of them, the counter is the same for two numbers
  of interrupts, and the property says nothing the code promises.

`HandleIntact` is not inductive because the flag and the handle are two
variables. `Claims` are the places of an actor that has set DETACHED and not yet
used the handle; one actor at a time is there (`OneClaim`) and finds the handle
joinable (`Claimed`), a handle whose flag is clear is joinable (`Unclaimed`),
and a joinable one whose flag is set has an actor at such a place (`Claimant`).
An object that is being started is used by its creator alone (`Starts`,
`LockOwned`, `Fresh`). `QuietWhenFinal` needs `running` to be
the size of a set, `Counted`: the threads that run and those that an actor has
counted but not yet created. When the finalization reads zero the set is empty.
`CreateFailsSets` is about the addition of a complement at `thread.c:604`: from
STARTED alone it sets every flag, so that such an object looks terminated,
detached and interrupted, and nobody claims its handle.

`InterruptsCounted` is a range, because an interrupt of a thread that has already
terminated stays in the counter or not, depending on when it came. A range is not
inductive: which of them stayed must be remembered. `Balance` says that there is
a set of threads whose size the counter is, with what the actors are about to add
and to take, but for a multiple of 2^16; it has every thread whose interrupt is
still to be handled, and only threads with an interrupt nobody handled. A step puts
a thread into the set, takes one out, or changes who adds and takes
(`StepBalance`). The counter wraps around in C and is `%` in the model; that
`(i % w + 1) % w` and `i + 1` differ by a multiple of `w` is proved for every `w`
first (`Wraps` to `CountedDown`), since the solver's own reasoning about `%` with a
number of this size is not to be relied upon.

**`GCTrackedProofs`**, from `ConstantsOK` alone, for every set of threads and
of objects:

* `Invariance`: `Spec => []IInv`
* `TypeCorrect`, `ListsCorrect`, `IterCorrect`: every invariant of the run
  `gc_lists`

The lists are linked in memory, so a proof has to say what is reachable after a
link changed. `Elements` defines a list as the least set that has its first
object and whose members lead to members, so that two facts suffice for all of
it: a list is such a set (`ElementsClosed`) and is contained in every such set
(`ElementsLeast`). From them follow what a list is behind its first object, that
a doubly linked one has no loop (`NoLoop`), what remains without an object
(`Without`), and what two joined lists have (`Joined`); none of it counts steps
along the links, and none of it needs finitely many objects. `ListsExact` says
nothing while a change is half done. `IInv` says what then holds: `Members`, that
the sets of both lists are right at all times, and disjoint but for the moment
between the two assignments of a publication; `Back` and `First`, which `gc_prev`
is not what it should be, and because of whose call. `Locks` is why the calls do
not meet: the tracked list is changed by the holder of its lock, the pending list
by the holder of the spin lock, and a removal, which may touch either, has both.
`Heads` keeps the objects of calls apart.

**`GCCollectProofs`**, for any number of objects in any order and any number of
references each:

* `Invariance`: `Spec => []IInv`, and `TypeCorrect`, from `ConstantsOK` alone
* `DependenciesCorrect`, `LivingSpared`, `CleanAtZero`: the other safety properties
  of the run `gc_garbage`, from `SharedPlain = FALSE` (finding 3)

The objects and their references are a graph, `Edges`, and what a search is for is
a property of the graph: `InCycle`, the tracked objects from which one gets back to
the object in question. That the search finds nothing else follows from `Calls`:
its calls were made from one another, so all of them are on a way to the dependency
that was met (`ChainInCycle`). That it finds all of them does not follow from what
it found but from what it has met, and how: `Explored` says that each reference of
an object that was met is still to be visited, or leads to an object that was met,
and if that is a dependency and the search has found no new one, the first is
marked. An object is marked if it is a dependency or is reached from one through
objects without a head, which are no dependencies themselves. When nothing is left
to visit, what was met and is not marked refers to nothing that is marked, so that
no way leads from it back to the object in question, which is (`SearchExact`).
There a plain object with two references breaks the proof as it does the
code: it may be marked for the sake of one object that refers to it, and another
is not (`Single`). A search that has found something new says nothing, and is
repeated; one search does not suffice, which is the mutant of `SparesTheLiving`.

Counts of references that agree mean that all references come from the cycle
(`AllFrom`, `Doomed`), so the program, which has none, reaches nothing of it
(`DoomedDead`), and what it reaches survives the destruction of the rest
(`LivingRemain`). For the converse: of dead objects, one reaches the fewest
(`Source`); all that reach it are in a cycle with it, and so, since each dead object
has a reference, is one with a head, which is doomed (`DeadDoomed`). A call that
passed it without destroying anything would have found it (`SweepOK`). A destruction
leaves a heap of the same sort (`DroppedHeap`): everything alive has a reference from
something alive, and objects without a head alone are in no cycle.

**`DexProofs`**, from `ConstantsOK` alone, for every finite set of threads, any
libraries that use each other in any way, and any bounds:

* `Invariance`: `Spec => []IInv`
* `TypeCorrect`, `TicketsCorrect`, `EventsCorrect`, `ListCorrect`: every invariant
  of the run `dex`

INITIALIZED and FINALIZED are flags of a module object, and `EventsInOrder` is
about a library, which may have several objects. So the argument is about the
map: a call that uses a module uses the object the map has for its library
(`Mapped`, `Bound`); one that has made an object, or destroys one, is alone with
it, and before the finalization such an object was never initialized (`Own`,
`FlagsKnown`). Two calls of one library therefore meet in one `dm_state`, where
the compare-exchange that sets INITIALIZING lets one of them call INITIALIZE
(`OneInitializer`), and a library has one initialized object (`FlagsMean`). An
initialized object is finalized after `_DeeDex_QuitApi` has emptied the map,
which happens when the other threads have ended and the main thread is in no call
(`Phases`); that no call is left above one that has returned is `Nested`.
`TicketsExact` is itself inductive once it is known that a call keeps its object:
`Holders` are the calls that have a ticket, and a step adds one, removes one, or
leaves them alone (`Recounted`). `Changes` sorts the actions by what they change,
so that the lemma about a part of the invariant treats only those that disturb it.
The proof needs no `UsesOK`: libraries that need each other wait for ever, but
break no safety property.

`ListExact` says what a walk along `dm_prev` meets, and a module leaves the list
wherever it is, as soon as the last reference to it is dropped. `ListInv` gives
the objects ages (`Ages`): `dm_prev` leads from each to the next older one, and
`_dex_init_list` is the newest. An object that is registered gets an age above all
others, and one that leaves takes its own with it, so that no other age changes
(`EnterAges`, `LeaveAges`). `Linked` is the other direction and the links of
objects that are not in the list, `MainKnows` that the finalization has the
lock while it walks and the module it tells to shut down is still in the list.
That a walk of the length of the list meets every object, and none twice, is by
induction over the length of walks (`WalkExists`, `WalkOrdered`, `NewestAll`).
`Registering` says that one call registers an object: INITIALIZED is set once
(`FlagsKnown`).

**`HashMapProofs`**, for every set of keys and items, every hash function, and
all calls of any finite set of threads, from three assumptions besides that the
constants are told apart: `InsertAssumption`, which excludes the fault described
above; `PlacesAssumption`, that there is memory for one more node or array than
the map and its threads refer to, since failed allocations are not modelled; and
that the allocator does not give out again what a thread still remembers
(`NewNode`, `NewArray`), see the simplifications below:

* `Invariant`: `Spec => []IInv`
* `TypeCorrect`, `TableCorrect`, `TraversalCorrect`: every invariant of the run
  `hashmap`
* `MapCorrect`: `Spec => MapImplemented`, the map implements `SharedMap`

`IInv` has two parts. `Table` is about the map between two steps and is inductive
by itself: which nodes each bucket has, in terms of the set `InUse` of nodes that
were added and not removed; `Ranged`, the range of valid buckets; `Sized`, that the
array has more buckets than nodes and `hm_map_size` counts them.
Each operation has a lemma that leads from a good table to a good table, for one
more or one less node (`LinkedTable`, `Rehashed`, `CreatedTable`, `RemovedTable`).
`Unique`, one node for a key, is not: a call adds a node without looking at the
whole bucket again when it comes back from a comparison. So the other part,
`Thread`, says what a thread knows while the lock is not held. For a call
(`InCall`): if its array and node are still there, a node of its own key in front
of that node was added since the call began, so that the call has seen its key
without an item, and it is no call that inserts, by `InsertAssumption`. For a
traversal (`Going`): in an array that is still there, the keys that stayed and were
not yielded are in the nodes from its own on or in later buckets, and no yielded
key is there. Both survive what other threads do because a node is put at the
front of a bucket only and a removal changes the order of no others (`MapCreated`,
`MapRemoved`, `MapCleared`, `Waiting`), and a rehash makes them void. The refinement
maps the table to what a look into each bucket finds; with `IInv` that is the item of
the node of each key (`Answered`). A call that ends without a node has seen its key
absent now or before (`NoHits`), which is what `SharedMap` lets it answer, and each
action is one of the abstract map or a stutter (`RefineNext`). Rehashing is written
with a recursive function over the nodes in their order (`Distributed`); that it
loses none is by induction over their number (`Rehashed` and the lemmas before it).

**`Sums`** has what these proofs need about `SumFunction`: it changes by what one
thread's number changes (`SumChange`), and it is the size of a set that has that
many pairs for each thread (`SumIsSize`). The sum is defined by recursion over the
set of threads, so the lemmas are proved by induction over finite sets, and those
on walks by induction over numbers. The library's induction theorems take an
operator, which the provers cannot instantiate; `NumberInduction` and
`SetInduction` take a *set* of numbers or of finite sets in its place, and are
proved by the least counterexample, which `WFMin` of the library supplies.

Only model-checked is all liveness (`NoLostWakeup`, `CollectionEnds`,
`CollectionFinishes`, `LoadingEnds`), which is out of the prover's reach.

## Not modelled, and simplifications

* Memory order: all atomic operations are sequentially consistent. The code
  asks for acquire and release in the mutex, and for sequential consistency
  elsewhere.
* `sem_wait` interrupted by a signal (EINTR) is taken for a wait that goes on;
  the runtime's handlers restart system calls.
* `sem_timedwait` is given a duration in place of an absolute time
  (`mutex.c:73`): the model's wait may end at any time, so it does not matter.
* In `ObjectLifetime` the references to types are left out, and the collector
  that destroys an object in place (`_DeeObject_InternalDestroyGC`) is in
  `GCTracked` (what it unlinks) and `GCCollect` (what it destroys) only.
* `GCCollect` leaves out types as nodes of the heap, revival in tp_clear, and
  the aggressive collection after 1024 cycles.
* `ThreadLifecycle` follows the build without `_GNU_SOURCE`; a thread that
  fails to start keeps the flags the code leaves it with (`Complement`). The
  check for interrupts at the start of `DeeThread_Join` is the action
  `CheckInterrupt`, which may precede any operation of a thread.
* `HashMap` leaves out: memory that is used again while a stale pointer to it
  is still compared (a call could take a new node for the one it compared);
  failed allocations (`_DeeHashMap_Rehash` without memory leaves the size
  changed); comparisons that raise an exception in get and set (the helper
  returns without the lock, and its caller releases it once more); keys that
  are dropped by another thread during the comparison (`GetNodeEx` holds no
  reference); the variants for string keys; `PopSomething`; a traversal whose
  body uses the map itself (the other thread does it in the model); load
  factors other than 1.0. The hash set is the same code without items and has
  no model of its own.
* `Dex` leaves out: the search for the file and the order of its places; that
  16 bits of tickets wrap around; modules without `DeeDex_Main` and libraries
  that are not found before the shutdown; a `DeeDex_Main` that collects memory,
  or uses its own module, while it initializes it, which waits for itself for
  ever (`dex.c:260`), and libraries that need each other, which wait for each
  other (`UsesOK` excludes them); a `DeeDex_Main` that uses modules in other
  events; visits by the collector, which use a module as memory collection
  does; modules that something else than the map refers to at the end.
  `DeeDexModule_Shutdown` is called by the destructor alone, so that its SHUTDOWN
  flag is never seen by a thread; the model keeps the branches that look for it.
* The components listed above without a module.

## Plan

1. Objects and the collector together: a second thread that locks weak
   references of members of a cycle while the collector destroys it
   (`object.core.destroy.inl:158`); `DeeObject_IS_UNIQUE` in the build whose
   counters are not 32 bits (`object_refcnt.h:112`), where a weak reference can
   be locked and dropped between the two compare-exchanges.
2. The hash map with what is left out above: failing comparisons in get and set
   first, then memory that is used again.
3. Thread-local storage with threads that end; initialise-once with a failing
   initialiser.
4. Lists under their lock with iterators; the ring of `io_buffer.c` as a
   refinement of a sequence.
5. Liveness of interrupts: a thread that keeps checking receives one.
6. Proofs about what the above adds.
