------------------------------ MODULE GCTracked ------------------------------
(***************************************************************************)
(* The lists of objects the garbage collector of src/deemon/gc.c knows:    *)
(* _dee_gc_tracked, under the recursive mutex _dee_gc_tracked_lock, and    *)
(* _dee_gc_tracked_pending, under a spin lock, where DeeGC_TrackedAdd puts *)
(* objects while the first lock is taken.  The links gc_prev and gc_next   *)
(* are modelled as they are, one store to a list at a time; the mutex is   *)
(* the abstract lock that NativeMutex implements.  Which objects the       *)
(* collector destroys is the subject of GCCollect: here it may destroy     *)
(* any.                                                                    *)
(***************************************************************************)
EXTENDS Naturals

CONSTANTS
  Threads,    (* the threads of the program                                 *)
  Objects,    (* the addresses of objects with a garbage collector head     *)
  NoThread,   (* nobody, as the holder of a lock                            *)
  NULL        (* the null pointer                                           *)

ASSUME ConstantsOK == NoThread \notin Threads /\ NULL \notin Objects

VARIABLES
  holder, depth,   (* _dee_gc_tracked_lock                                  *)
  spin,            (* the holder of _dee_gc_tracked_pending_lock            *)
  collector,       (* the holder of _dee_gc_collect_lock                    *)
  tracked,         (* _dee_gc_tracked                                       *)
  pending,         (* _dee_gc_tracked_pending                               *)
  next, prev,      (* gc_next and gc_prev of each head                      *)
  status,          (* status[o]: "free" memory, or an object that is        *)
                   (* being added, "tracked", or being removed              *)
  pc,              (* pc[t]: the next step of t; "visit" in a collection    *)
  head,            (* head[t]: the object of the call t is in               *)
  iter             (* the collector's position in the list                  *)

lockVars == <<holder, depth>>
lists    == <<tracked, pending, next, prev>>
vars     == <<lockVars, spin, collector, lists, status, pc, head, iter>>

TrackedLock == INSTANCE RecursiveLock

Init ==
  /\ TrackedLock!Init
  /\ spin = NoThread
  /\ collector = NoThread
  /\ tracked = NULL
  /\ pending = NULL
  /\ next = [o \in Objects |-> NULL]
  /\ prev = [o \in Objects |-> NULL]
  /\ status = [o \in Objects |-> "free"]
  /\ pc = [t \in Threads |-> "idle"]
  /\ head = [t \in Threads |-> NULL]
  /\ iter = NULL

Goto(t, label) == pc' = [pc EXCEPT ![t] = label]

(* Where a call returns to: the collector's come from destructors. *)
Caller(t) == IF collector = t THEN "visit" ELSE "idle"

(* pointer->field = value, unless the pointer is null. *)
Store(field, pointer, value) ==
  IF pointer = NULL THEN field ELSE [field EXCEPT ![pointer] = value]

----------------------------------------------------------------------------
(* DeeGC_TrackedAdd of a new object *)
Add(t, o) ==
  /\ pc[t] = Caller(t)
  /\ status[o] = "free"
  /\ status' = [status EXCEPT ![o] = "adding"]
  /\ head' = [head EXCEPT ![t] = o]
  /\ prev' = [prev EXCEPT ![o] = NULL]
  /\ Goto(t, "addtry")
  /\ UNCHANGED <<lockVars, spin, collector, tracked, pending, next, iter>>

(* _dee_gc_tracked_lock_try_acquire: it fails while others hold the lock. *)
AddTry(t) ==
  /\ pc[t] = "addtry"
  /\ \/ TrackedLock!Acquire(t) /\ Goto(t, "addlink")
     \/ holder \notin {NoThread, t} /\ Goto(t, "addspin") /\ UNCHANGED lockVars
  /\ UNCHANGED <<spin, collector, lists, status, head, iter>>

(* head->gc_next = _dee_gc_tracked, and back. *)
AddLink(t) ==
  /\ pc[t] = "addlink"
  /\ next' = [next EXCEPT ![head[t]] = tracked]
  /\ prev' = Store(prev, tracked, head[t])
  /\ Goto(t, "addhead")
  /\ UNCHANGED <<lockVars, spin, collector, tracked, pending, status, head, iter>>

(* _dee_gc_tracked = head *)
AddHead(t) ==
  /\ pc[t] = "addhead"
  /\ tracked' = head[t]
  /\ status' = [status EXCEPT ![head[t]] = "tracked"]
  /\ Goto(t, "publish")
  /\ UNCHANGED <<lockVars, spin, collector, pending, next, prev, head, iter>>

(* DeeAtomicMutex_Acquire of the pending list's lock. *)
Spin(t, from, to) ==
  /\ pc[t] = from
  /\ spin = NoThread
  /\ spin' = t
  /\ Goto(t, to)
  /\ UNCHANGED <<lockVars, collector, lists, status, head, iter>>

(* head->gc_next = _dee_gc_tracked_pending, and back. *)
PendLink(t) ==
  /\ pc[t] = "pendlink"
  /\ next' = [next EXCEPT ![head[t]] = pending]
  /\ prev' = Store(prev, pending, head[t])
  /\ Goto(t, "pendhead")
  /\ UNCHANGED <<lockVars, spin, collector, tracked, pending, status, head, iter>>

(* _dee_gc_tracked_pending = head, and the spin lock is released. *)
PendHead(t) ==
  /\ pc[t] = "pendhead"
  /\ pending' = head[t]
  /\ status' = [status EXCEPT ![head[t]] = "tracked"]
  /\ spin' = NoThread
  /\ Goto(t, Caller(t))
  /\ UNCHANGED <<lockVars, collector, tracked, next, prev, head, iter>>

----------------------------------------------------------------------------
(* DeeGC_TrackedRem of an object whose last reference is gone; tp_clear of *)
(* the object being collected never removes that object itself.            *)
Remove(t, o) ==
  /\ pc[t] = Caller(t)
  /\ status[o] = "tracked"
  /\ collector = t => o # iter
  /\ status' = [status EXCEPT ![o] = "removing"]
  /\ head' = [head EXCEPT ![t] = o]
  /\ Goto(t, "remlock")
  /\ UNCHANGED <<lockVars, spin, collector, lists, iter>>

(* _dee_gc_tracked_lock_acquire, also on behalf of the collector. *)
Lock(t) ==
  /\ pc[t] \in {"remlock", "collock"}
  /\ TrackedLock!Acquire(t)
  /\ IF pc[t] = "remlock"
     THEN Goto(t, "remspin") /\ UNCHANGED iter
     ELSE Goto(t, "visit") /\ iter' = tracked
  /\ UNCHANGED <<spin, collector, lists, status, head>>

(* if (head->gc_next) head->gc_next->gc_prev = head->gc_prev *)
RemNext(t) ==
  /\ pc[t] = "remnext"
  /\ prev' = Store(prev, next[head[t]], prev[head[t]])
  /\ Goto(t, "remprev")
  /\ UNCHANGED <<lockVars, spin, collector, tracked, pending, next, status, head, iter>>

(* Fault: a first object is looked for in the tracked list only. *)
RemPrevTrackedOnly(t) ==
  LET o == head[t] IN
  /\ pc[t] = "remprev"
  /\ next' = Store(next, prev[o], next[o])
  /\ tracked' = IF prev[o] = NULL /\ tracked = o THEN next[o] ELSE tracked
  /\ status' = [status EXCEPT ![o] = "removed"]
  /\ spin' = NoThread
  /\ Goto(t, "publish")
  /\ UNCHANGED <<lockVars, collector, pending, prev, head, iter>>

(* The link from the predecessor, or the list head that names the object. *)
RemPrev(t) ==
  LET o == head[t] IN
  /\ pc[t] = "remprev"
  /\ next' = Store(next, prev[o], next[o])
  /\ tracked' = IF prev[o] = NULL /\ tracked = o THEN next[o] ELSE tracked
  /\ pending' = IF prev[o] = NULL /\ tracked # o /\ pending = o
                THEN next[o] ELSE pending
  /\ status' = [status EXCEPT ![o] = "removed"]
  /\ spin' = NoThread
  /\ Goto(t, "publish")
  /\ UNCHANGED <<lockVars, collector, prev, head, iter>>

----------------------------------------------------------------------------
(* _dee_gc_tracked_lock_release *)

(* The elements of the list that starts at h, if succ leads from each to the *)
(* next: the least set that has h and whose members lead to members.         *)
Closed(S, succ) == \A o \in S : succ[o] \in S \cup {NULL}

Elements(h, succ) ==
  {o \in Objects : \A S \in SUBSET Objects :
                     h \in S \cup {NULL} /\ Closed(S, succ) => o \in S}

Chain(h) == Elements(h, next)

(* Pending additions are linked in front of the tracked objects... *)
Splice(t) ==
  /\ pc[t] = "splice"
  /\ IF pending = NULL
     THEN Goto(t, "unspin") /\ UNCHANGED <<next, prev>>
     ELSE \E end \in Chain(pending) :
            /\ next[end] = NULL
            /\ next' = [next EXCEPT ![end] = tracked]
            /\ prev' = Store(prev, tracked, end)
            /\ Goto(t, "swap")
  /\ UNCHANGED <<lockVars, spin, collector, tracked, pending, status, head, iter>>

(* ... and become the head of the list. *)
Swap(t) ==
  /\ pc[t] = "swap"
  /\ tracked' = pending
  /\ pending' = NULL
  /\ Goto(t, "unspin")
  /\ UNCHANGED <<lockVars, spin, collector, next, prev, status, head, iter>>

Unspin(t) ==
  /\ pc[t] = "unspin"
  /\ spin' = NoThread
  /\ Goto(t, "unlock")
  /\ UNCHANGED <<lockVars, collector, lists, status, head, iter>>

(* Fault: a call from a destructor returns without its release. *)
UnlockOutermost(t) ==
  /\ pc[t] = "unlock"
  /\ IF depth > 1 THEN UNCHANGED lockVars ELSE TrackedLock!Release(t)
  /\ head' = [head EXCEPT ![t] = NULL]
  /\ collector' = IF collector = t /\ depth = 1 THEN NoThread ELSE collector
  /\ Goto(t, IF collector = t /\ depth > 1 THEN "visit" ELSE "idle")
  /\ status' = [o \in Objects |->
       IF o = head[t] /\ status[o] = "removed" THEN "free" ELSE status[o]]
  /\ UNCHANGED <<spin, lists, iter>>

(* DeeNativeMutex_ReleaseNoexcept; a removed object's memory is freed by *)
(* its destructor after the call, a collection ends.                     *)
Unlock(t) ==
  /\ pc[t] = "unlock"
  /\ TrackedLock!Release(t)
  /\ head' = [head EXCEPT ![t] = NULL]
  /\ collector' = IF collector = t /\ depth = 1 THEN NoThread ELSE collector
  /\ Goto(t, IF collector = t /\ depth > 1 THEN "visit" ELSE "idle")
  /\ status' = [o \in Objects |->
       IF o = head[t] /\ status[o] = "removed" THEN "free" ELSE status[o]]
  /\ UNCHANGED <<spin, lists, iter>>

----------------------------------------------------------------------------
(* DeeGC_CollectNow, if no other thread is collecting. *)
Collect(t) ==
  /\ pc[t] = "idle"
  /\ collector = NoThread
  /\ collector' = t
  /\ Goto(t, "collock")
  /\ UNCHANGED <<lockVars, spin, lists, status, head, iter>>

(* Fault: after an object that is kept the collection starts over. *)
KeepRestarts(t) ==
  /\ collector = t /\ pc[t] = "visit" /\ iter # NULL
  /\ iter' = tracked
  /\ UNCHANGED <<lockVars, spin, collector, lists, status, pc, head>>

(* An object that is kept, or was not or only partly destroyed. *)
Keep(t) ==
  /\ collector = t /\ pc[t] = "visit" /\ iter # NULL
  /\ iter' = next[iter]
  /\ UNCHANGED <<lockVars, spin, collector, lists, status, pc, head>>

(* Fault: the collection stays at the object it has freed. *)
CondemnStays(t) ==
  /\ collector = t /\ pc[t] = "visit" /\ iter # NULL
  /\ status[iter] = "tracked"
  /\ iter' = iter
  /\ prev' = Store(prev, next[iter], prev[iter])
  /\ next' = Store(next, prev[iter], next[iter])
  /\ tracked' = IF prev[iter] = NULL THEN next[iter] ELSE tracked
  /\ status' = [status EXCEPT ![iter] = "free"]
  /\ UNCHANGED <<lockVars, spin, collector, pending, pc, head>>

(* _DeeObject_InternalDestroyGC unlinks a destroyed object; another thread  *)
(* that is destroying it keeps its reference count at zero, and it is kept. *)
Condemn(t) ==
  /\ collector = t /\ pc[t] = "visit" /\ iter # NULL
  /\ status[iter] = "tracked"
  /\ iter' = next[iter]
  /\ prev' = Store(prev, next[iter], prev[iter])
  /\ next' = Store(next, prev[iter], next[iter])
  /\ tracked' = IF prev[iter] = NULL THEN next[iter] ELSE tracked
  /\ status' = [status EXCEPT ![iter] = "free"]
  /\ UNCHANGED <<lockVars, spin, collector, pending, pc, head>>

EndCollect(t) ==
  /\ collector = t /\ pc[t] = "visit" /\ iter = NULL
  /\ Goto(t, "publish")
  /\ UNCHANGED <<lockVars, spin, collector, lists, status, head, iter>>

----------------------------------------------------------------------------
Step(t) ==
  \/ AddTry(t) \/ AddLink(t) \/ AddHead(t) \/ Spin(t, "addspin", "pendlink")
  \/ PendLink(t) \/ PendHead(t)
  \/ Lock(t) \/ Spin(t, "remspin", "remnext") \/ RemNext(t) \/ RemPrev(t)
  \/ Spin(t, "publish", "splice") \/ Splice(t) \/ Swap(t) \/ Unspin(t)
  \/ Unlock(t)

Advance(t) == Keep(t) \/ Condemn(t) \/ EndCollect(t)

(* Addresses are interchangeable: of those the allocator could return for a *)
(* new object, one is as good as another.                                   *)
Call(t) ==
  \/ Collect(t)
  \/ \E o \in Objects : Remove(t, o)
  \/ \E o \in {x \in Objects : status[x] = "free"} :
       o = (CHOOSE x \in Objects : status[x] = "free") /\ Add(t, o)

Next == \E t \in Threads : Step(t) \/ Advance(t) \/ Call(t)

Spec == Init /\ [][Next]_vars

(* Threads inside these functions are scheduled, a lock that keeps being    *)
(* released is obtained, and the destructors the collector calls return.    *)
FairSpec == Spec /\ \A t \in Threads : SF_vars(Step(t)) /\ SF_vars(Advance(t))

----------------------------------------------------------------------------
Pointer == Objects \cup {NULL}

(* Type invariant *)
TypeOK ==
  /\ holder \in Threads \cup {NoThread} /\ depth \in 0..2
  /\ spin \in Threads \cup {NoThread}
  /\ collector \in Threads \cup {NoThread}
  /\ tracked \in Pointer /\ pending \in Pointer
  /\ next \in [Objects -> Pointer] /\ prev \in [Objects -> Pointer]
  /\ status \in [Objects -> {"free", "adding", "tracked", "removing", "removed"}]
  /\ pc \in [Threads -> {"idle", "visit", "addtry", "addlink", "addhead",
                         "addspin", "pendlink", "pendhead", "remlock",
                         "collock", "remspin", "remnext", "remprev", "publish",
                         "splice", "swap", "unspin", "unlock"}]
  /\ head \in [Threads -> Pointer]
  /\ iter \in Pointer

(* No thread is between the two stores of a change to a list. *)
Settled ==
  \A t \in Threads : pc[t] \notin {"addhead", "pendhead", "remprev", "swap"}

(* A list's links agree in both directions, and its first has no predecessor. *)
DoublyLinked(h) ==
  /\ h # NULL => prev[h] = NULL
  /\ \A o \in Chain(h) : next[o] # NULL => prev[next[o]] = o

(* Between changes both lists are doubly linked, no object is in both, and  *)
(* together they hold exactly the objects whose TrackedAdd is done and whose *)
(* removal is not: none is lost to the collector and none dangles.          *)
ListsExact ==
  Settled =>
    /\ DoublyLinked(tracked) /\ DoublyLinked(pending)
    /\ Chain(tracked) \cap Chain(pending) = {}
    /\ Chain(tracked) \cup Chain(pending)
         = {o \in Objects : status[o] \in {"tracked", "removing"}}

(* The object a collection looks at next is in the list of tracked objects,  *)
(* whatever destructors and other threads have added and removed meanwhile.  *)
IterTracked ==
  Settled /\ collector # NoThread /\ pc[collector] # "collock" /\ iter # NULL
    => iter \in Chain(tracked)

(* A collection ends: what is added meanwhile goes in front of its position. *)
CollectionEnds == collector # NoThread ~> collector = NoThread
=============================================================================
