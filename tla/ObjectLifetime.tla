--------------------------- MODULE ObjectLifetime ---------------------------
(***************************************************************************)
(* The life of one object: Dee_INCREF, Dee_DECREF and their weak twins of  *)
(* include/deemon/optional/object_refcnt.h, DeeObject_LockWeakref of       *)
(* object.core.reference.inl, and _DeeObject_InternalDestroy of            *)
(* object.core.destroy.inl, by threads that share the object.  Each atomic *)
(* operation and each callback into the object's type is a step.           *)
(*                                                                         *)
(* The type of the object is a chain of levels, 1 the most derived type    *)
(* and Levels the root, `object'.  References to the types themselves are  *)
(* left out.                                                               *)
(***************************************************************************)
EXTENDS Integers, FiniteSets, Functions

CONSTANTS
  Threads,   (* the threads of the program                                 *)
  Levels,    (* length of the chain of base types                          *)
  Kinds,     (* kinds of object: [gc |-> DeeObject_IS_GC,                  *)
             (*   clears |-> the levels with DEE_TYPE_FLAG_ALWAYS_CLEAR,   *)
             (*   users |-> the threads that may get a reference to it]    *)
  MaxRefs    (* model bound: strong (and weak) references of one thread    *)

ASSUME ConstantsOK ==
  /\ Levels \in Nat \ {0}
  /\ MaxRefs \in Nat \ {0}
  /\ Kinds \subseteq [gc : BOOLEAN, clears : SUBSET (1..Levels),
                      users : SUBSET Threads]

VARIABLES
  kind,      (* what the object is, fixed when it is created               *)
  refcnt,    (* __ob_refcnt                                                *)
  weakcnt,   (* __ob_weakcnt: weak references, and one while not destroyed *)
  type,      (* __ob_type, as a level                                      *)
  tracked,   (* whether the object is in the list of the garbage collector *)
  freed,     (* how often tp_free was called                               *)
  dtors,     (* dtors[l]: how often tp_dtor of level l was called          *)
  strong,    (* strong[t]: the references thread t owns                    *)
  weak,      (* weak[t]: the weak references thread t owns                 *)
  pc,        (* pc[t]: the next step of t, "idle" outside these functions  *)
  first,     (* first[t]: the local tp_first of t                          *)
  level,     (* level[t]: the local tp_iter of t                           *)
  seen       (* seen[t]: the local v of DeeObject_LockWeakref              *)

counts == <<refcnt, weakcnt>>
owned  == <<strong, weak>>
body   == <<kind, type, tracked, freed, dtors>>
locals == <<first, level, seen>>
vars   == <<counts, owned, body, pc, locals>>

Users == kind.users

(* DeeObject_INIT, and DeeGC_TrackedAdd for the types that need it. *)
Init ==
  /\ kind \in Kinds
  /\ refcnt = 1
  /\ weakcnt = 1
  /\ type = 1
  /\ tracked = kind.gc
  /\ freed = 0
  /\ dtors = [l \in 1..Levels |-> 0]
  /\ \E t \in kind.users :
       strong = [u \in Threads |-> IF u = t THEN 1 ELSE 0]
  /\ weak = [t \in Threads |-> 0]
  /\ pc = [t \in Threads |-> "idle"]
  /\ first = [t \in Threads |-> 1]
  /\ level = [t \in Threads |-> 1]
  /\ seen = [t \in Threads |-> 0]

Goto(t, label) == pc' = [pc EXCEPT ![t] = label]

----------------------------------------------------------------------------
(* References *)

(* Dee_INCREF by a thread that owns a reference, for itself or another. *)
IncRef(t, u) ==
  /\ pc[t] = "idle" /\ strong[t] > 0
  /\ strong[u] < MaxRefs
  /\ refcnt' = refcnt + 1
  /\ strong' = [strong EXCEPT ![u] = @ + 1]
  /\ UNCHANGED <<weakcnt, weak, body, pc, locals>>

(* Dee_WEAKINCREF by a thread that owns a reference of either sort. *)
WeakIncRef(t, u) ==
  /\ pc[t] = "idle" /\ strong[t] + weak[t] > 0
  /\ weak[u] < MaxRefs
  /\ weakcnt' = weakcnt + 1
  /\ weak' = [weak EXCEPT ![u] = @ + 1]
  /\ UNCHANGED <<refcnt, strong, body, pc, locals>>

(* Dee_DECREF: the last reference destroys the object, as tp_first says. *)
DecRef(t) ==
  /\ pc[t] = "idle" /\ strong[t] > 0
  /\ refcnt' = refcnt - 1
  /\ strong' = [strong EXCEPT ![t] = @ - 1]
  /\ IF refcnt = 1
     THEN /\ Goto(t, IF kind.gc THEN "untrack" ELSE "level")
          /\ first' = [first EXCEPT ![t] = type]
          /\ level' = [level EXCEPT ![t] = type]
     ELSE UNCHANGED <<pc, first, level>>
  /\ UNCHANGED <<weakcnt, weak, body, seen>>

(* Dee_WEAKDECREF: the last one frees what is left of the object. *)
WeakDecRef(t) ==
  /\ pc[t] = "idle" /\ weak[t] > 0
  /\ weakcnt' = weakcnt - 1
  /\ weak' = [weak EXCEPT ![t] = @ - 1]
  /\ Goto(t, IF weakcnt = 1 THEN "weakfree" ELSE "idle")
  /\ UNCHANGED <<refcnt, strong, body, locals>>

(* _DeeObject_InternalDestroyWeak: tp_free of the type the object has. *)
WeakFree(t) ==
  /\ pc[t] = "weakfree"
  /\ freed' = freed + 1
  /\ Goto(t, "idle")
  /\ UNCHANGED <<counts, owned, kind, type, tracked, dtors, locals>>

(* Fault: an object whose destruction has begun is locked like any other. *)
LockReadDead(t) ==
  /\ pc[t] \in {"idle", "relock"}
  /\ weak[t] > 0
  /\ strong[t] < MaxRefs
  /\ seen' = [seen EXCEPT ![t] = refcnt]
  /\ Goto(t, "lockcas")
  /\ UNCHANGED <<counts, owned, body, first, level>>

(* DeeObject_LockWeakref: read the counter, give up on zero... *)
LockRead(t) ==
  /\ pc[t] \in {"idle", "relock"}
  /\ weak[t] > 0
  /\ strong[t] < MaxRefs
  /\ seen' = [seen EXCEPT ![t] = refcnt]
  /\ Goto(t, IF refcnt = 0 THEN "idle" ELSE "lockcas")
  /\ UNCHANGED <<counts, owned, body, first, level>>

(* Fault: the new count is stored, whatever happened since the read. *)
LockStore(t) ==
  /\ pc[t] = "lockcas"
  /\ refcnt' = seen[t] + 1
  /\ strong' = [strong EXCEPT ![t] = @ + 1]
  /\ Goto(t, "idle")
  /\ UNCHANGED <<weakcnt, weak, body, locals>>

(* ... and count the new reference unless the counter has changed. *)
LockCas(t) ==
  /\ pc[t] = "lockcas"
  /\ IF refcnt = seen[t]
     THEN /\ refcnt' = refcnt + 1
          /\ strong' = [strong EXCEPT ![t] = @ + 1]
          /\ Goto(t, "idle")
     ELSE Goto(t, "relock") /\ UNCHANGED <<refcnt, strong>>
  /\ UNCHANGED <<weakcnt, weak, body, locals>>

----------------------------------------------------------------------------
(* _DeeObject_InternalDestroy *)

(* Fault: the object is destroyed while it stays in the collector's list. *)
UntrackForgets(t) ==
  /\ pc[t] = "untrack"
  /\ Goto(t, "level")
  /\ UNCHANGED <<counts, owned, body, locals>>

(* DeeGC_TrackedRem *)
Untrack(t) ==
  /\ pc[t] = "untrack"
  /\ tracked' = FALSE
  /\ Goto(t, "level")
  /\ UNCHANGED <<counts, owned, kind, type, freed, dtors, locals>>

(* Fault: tp_clear runs without the fake reference. *)
EnterLevelUnfaked(t) ==
  /\ pc[t] = "level"
  /\ Goto(t, IF level[t] \in kind.clears THEN "clear" ELSE "dtor")
  /\ UNCHANGED <<counts, owned, body, locals>>

(* A level that is always cleared runs tp_clear under a fake reference. *)
EnterLevel(t) ==
  /\ pc[t] = "level"
  /\ IF level[t] \in kind.clears
     THEN refcnt' = refcnt + 1 /\ Goto(t, "clear")
     ELSE refcnt' = refcnt /\ Goto(t, "dtor")
  /\ UNCHANGED <<weakcnt, owned, body, locals>>

(* tp_clear, a user's destructor, stores the object somewhere: thread u *)
(* owns a new reference...                                              *)
ClearKeeps(t, u) ==
  /\ pc[t] = "clear"
  /\ strong[u] < MaxRefs
  /\ refcnt' = refcnt + 1
  /\ strong' = [strong EXCEPT ![u] = @ + 1]
  /\ UNCHANGED <<weakcnt, weak, body, pc, locals>>

(* ... or a new weak reference. *)
ClearKeepsWeak(t, u) ==
  /\ pc[t] = "clear"
  /\ weak[u] < MaxRefs
  /\ weakcnt' = weakcnt + 1
  /\ weak' = [weak EXCEPT ![u] = @ + 1]
  /\ UNCHANGED <<refcnt, strong, body, pc, locals>>

(* Fault: a revived object is not tracked again. *)
UnfakeUntracked(t) ==
  /\ pc[t] = "clear"
  /\ refcnt' = refcnt - 1
  /\ Goto(t, IF refcnt = 1 THEN "dtor"
             ELSE IF level[t] # first[t] THEN "retype" ELSE "idle")
  /\ UNCHANGED <<weakcnt, owned, body, locals>>

(* tp_clear returns and the fake reference is dropped: if references are *)
(* left the destruction is aborted.                                      *)
Unfake(t) ==
  /\ pc[t] = "clear"
  /\ refcnt' = refcnt - 1
  /\ Goto(t, IF refcnt = 1 THEN "dtor"
             ELSE IF level[t] # first[t] THEN "retype"
             ELSE IF kind.gc THEN "retrack" ELSE "idle")
  /\ UNCHANGED <<weakcnt, owned, body, locals>>

(* Destruction aborted below tp_first: __ob_type is read once more, to *)
(* move the object's reference from one type to the other.             *)
Retype(t) ==
  /\ pc[t] = "retype"
  /\ Goto(t, IF kind.gc THEN "retrack" ELSE "idle")
  /\ UNCHANGED <<counts, owned, body, locals>>

(* DeeGC_TrackedAdd of the revived object *)
Retrack(t) ==
  /\ pc[t] = "retrack"
  /\ tracked' = TRUE
  /\ Goto(t, "idle")
  /\ UNCHANGED <<counts, owned, kind, type, freed, dtors, locals>>

(* tp_dtor, then on to the base type. *)
Dtor(t) ==
  /\ pc[t] = "dtor"
  /\ dtors' = [dtors EXCEPT ![level[t]] = @ + 1]
  /\ IF level[t] = Levels
     THEN Goto(t, "weakcas") /\ UNCHANGED <<type, level>>
     ELSE /\ type' = level[t] + 1
          /\ level' = [level EXCEPT ![t] = @ + 1]
          /\ Goto(t, "level")
  /\ UNCHANGED <<counts, owned, kind, tracked, freed, first, seen>>

(* Fault: the memory is freed under the weak references that are left. *)
WeakCasIgnored(t) ==
  /\ pc[t] = "weakcas"
  /\ weakcnt' = IF weakcnt = 1 THEN 0 ELSE weakcnt
  /\ Goto(t, "free")
  /\ UNCHANGED <<refcnt, owned, body, locals>>

(* CompareExchange(__ob_weakcnt, 1, 0): no weak reference is left. *)
WeakCas(t) ==
  /\ pc[t] = "weakcas"
  /\ weakcnt' = IF weakcnt = 1 THEN 0 ELSE weakcnt
  /\ Goto(t, IF weakcnt = 1 THEN "free" ELSE "restore")
  /\ UNCHANGED <<refcnt, owned, body, locals>>

(* Fault: the type stays the root of the chain. *)
RestoreForgets(t) ==
  /\ pc[t] = "restore"
  /\ Goto(t, "weakdec")
  /\ UNCHANGED <<counts, owned, body, locals>>

(* ob->__ob_type = tp_first, for whoever frees the object later. *)
Restore(t) ==
  /\ pc[t] = "restore"
  /\ type' = first[t]
  /\ Goto(t, "weakdec")
  /\ UNCHANGED <<counts, owned, kind, tracked, freed, dtors, locals>>

(* Fault: weak references that went away since the comparison go unnoticed. *)
WeakDecLeaks(t) ==
  /\ pc[t] = "weakdec"
  /\ weakcnt' = weakcnt - 1
  /\ Goto(t, "idle")
  /\ UNCHANGED <<refcnt, owned, body, locals>>

(* DecFetch(__ob_weakcnt), unless the weak references are gone by now. *)
WeakDec(t) ==
  /\ pc[t] = "weakdec"
  /\ weakcnt' = weakcnt - 1
  /\ Goto(t, IF weakcnt = 1 THEN "free" ELSE "idle")
  /\ UNCHANGED <<refcnt, owned, body, locals>>

(* tp_free of tp_first *)
Free(t) ==
  /\ pc[t] = "free"
  /\ freed' = freed + 1
  /\ Goto(t, "idle")
  /\ UNCHANGED <<counts, owned, kind, type, tracked, dtors, locals>>

----------------------------------------------------------------------------
(* The steps that complete a call, the drops of references, and the rest. *)
Destroy(t) ==
  \/ Untrack(t) \/ EnterLevel(t) \/ Unfake(t) \/ Retype(t) \/ Retrack(t)
  \/ Dtor(t) \/ WeakCas(t) \/ Restore(t) \/ WeakDec(t) \/ Free(t)
  \/ WeakFree(t)

Drop(t) == DecRef(t) \/ WeakDecRef(t)

Use(t) ==
  \/ LockRead(t) \/ LockCas(t)
  \/ \E u \in Users : \/ IncRef(t, u) \/ WeakIncRef(t, u)
                      \/ ClearKeeps(t, u) \/ ClearKeepsWeak(t, u)

Next == \E t \in Users : Destroy(t) \/ Drop(t) \/ Use(t)

Spec == Init /\ [][Next]_vars

----------------------------------------------------------------------------
(* Type invariant *)
TypeOK ==
  /\ kind \in Kinds
  /\ refcnt \in Nat /\ weakcnt \in Nat
  /\ type \in 1..Levels
  /\ tracked \in BOOLEAN
  /\ freed \in Nat
  /\ dtors \in [1..Levels -> Nat]
  /\ strong \in [Threads -> Nat] /\ weak \in [Threads -> Nat]
  /\ pc \in [Threads -> {"idle", "weakfree", "relock", "lockcas", "untrack",
                         "level", "clear", "retype", "retrack", "dtor",
                         "weakcas", "restore", "weakdec", "free"}]
  /\ first \in [Threads -> 1..Levels] /\ level \in [Threads -> 1..Levels]
  /\ seen \in [Threads -> Nat]

(* The threads at one of the given steps. *)
At(labels) == {t \in Threads : pc[t] \in labels}

(* Both counters say what is owned: __ob_refcnt the references and the fake *)
(* one of a running tp_clear, __ob_weakcnt the weak references and one for  *)
(* as long as the object's destruction is not complete.                     *)
CountsExact ==
  /\ refcnt = SumFunction(strong) + Cardinality(At({"clear"}))
  /\ weakcnt = SumFunction(weak) +
       IF dtors[Levels] = 0 \/ At({"weakcas", "restore", "weakdec"}) # {}
       THEN 1 ELSE 0

(* tp_free runs once, when no thread owns a reference of either sort and no *)
(* thread is inside a function that still touches the object.               *)
NoUseAfterFree ==
  freed > 0 => /\ freed = 1
               /\ \A t \in Threads :
                    pc[t] = "idle" /\ strong[t] = 0 /\ weak[t] = 0

(* When every call has returned and no reference is left the object is gone, *)
(* whichever of the last DECREF and the last WEAKDECREF came first.          *)
NoLeak ==
  (\A t \in Threads : pc[t] = "idle" /\ strong[t] = 0 /\ weak[t] = 0)
    => freed = 1

(* Whoever owns a reference, also one made from a weak reference while a     *)
(* destruction was on its way, has an object none of whose remaining levels  *)
(* was destructed; and no level is ever destructed twice.                    *)
HeldIntact ==
  /\ \A l \in 1..Levels : dtors[l] <= 1
  /\ (\E t \in Threads : strong[t] > 0)
       => \A l \in type..Levels : dtors[l] = 0

(* The last weak reference frees the object with the tp_free of the type it  *)
(* had when its destruction began, not of a base the destructors moved to.   *)
FreedByOwnType ==
  \A t \in At({"weakfree"}) : type \in {1} \cup kind.clears

(* A freed object is not in the list of the garbage collector ("GC object    *)
(* still tracked in free function", asserted by _DeeGC_TpFree).              *)
NotTrackedWhenFreed == freed > 0 => ~tracked

(* The garbage collector knows every object of its kind that somebody holds, *)
(* also one that was revived, whenever no call is in progress.               *)
TrackedWhileHeld ==
  At({"idle"}) = Threads /\ refcnt > 0 => tracked = kind.gc
=============================================================================
