------------------------------ MODULE GCCollect ------------------------------
(***************************************************************************)
(* Which objects the garbage collector of src/deemon/gc.c destroys:        *)
(* _deegc_should_delete, which searches the objects a tracked object       *)
(* depends on and compares their reference counts with the references      *)
(* found, and DeeGC_CollectNow, which walks the tracked objects and is     *)
(* called until it does nothing (Dee_FinalizeEx).  One thread runs; the    *)
(* lists and the threads are the subject of GCTracked.                     *)
(*                                                                         *)
(* A heap is what every object visits, in the order of its tp_visit, and   *)
(* how many references the outside (stacks, globals, C code) holds.  Types *)
(* are left out, and so are destructors of user classes, which may revive  *)
(* an object (ObjectLifetime).                                             *)
(***************************************************************************)
EXTENDS Naturals, SequencesExt

CONSTANTS
  Order,       (* the objects, in the order of the list of tracked objects *)
  MaxVisits,   (* model bound: references an object holds                  *)
  SharedPlain  (* whether objects without a head of the collector, tuples  *)
               (* for one, may have more than one reference                *)

Objects == ToSet(Order)

ASSUME ConstantsOK ==
  SharedPlain \in BOOLEAN /\ MaxVisits \in Nat /\ Order \in Seq(Objects)

VARIABLES
  gc,          (* the objects for which DeeObject_IS_GC                    *)
  refs,        (* refs[o]: the objects o holds a reference to, in order    *)
  extern,      (* extern[o]: references to o from outside the heap         *)
  alive,       (* the objects that are not destroyed                       *)
  iter,        (* the place in Order of the object CollectNow looks at     *)
  result,      (* what this call of CollectNow has destroyed               *)
  deps,        (* the dependencies found for that object, copy_data.deps   *)
  seen,        (* objects whose gc_last_seen is the id of this search      *)
  visited,     (* objects without a head that were met, copy_data.visited  *)
  changed,     (* whether this search has found dependencies               *)
  stack        (* its calls of tp_visit, the last one first: the object,   *)
               (* and the references not yet visited                       *)

heap == <<gc, refs, extern, alive>>
search == <<deps, seen, visited, changed, stack>>
vars == <<heap, iter, result, search>>

(* The references held by the given objects to o. *)
References(objects, o) ==
  {r \in objects \X (1..MaxVisits) : r[2] \in DOMAIN refs[r[1]] /\ refs[r[1]][r[2]] = o}

RefsFrom(objects, o) == Cardinality(References(objects, o))

(* __ob_refcnt *)
RefCount(o) == extern[o] + RefsFrom(alive, o)

(* The next tracked object from place i on, in what is left. *)
From(i, left) ==
  CHOOSE j \in i..Len(Order) + 1 :
    /\ j > Len(Order) \/ Order[j] \in left
    /\ \A k \in i..j - 1 : Order[k] \notin left

(* A tuple is built from objects that exist, so that plain objects alone form *)
(* no cycle: among any of them, one refers to none of the others.             *)
PlainAcyclic ==
  \A s \in SUBSET (Objects \ gc) :
    s # {} => \E o \in s : ToSet(refs[o]) \cap s = {}

(* Any heap whose objects are all referenced by something. *)
Init ==
  /\ gc \in SUBSET Objects
  /\ refs \in [Objects -> BoundedSeq(Objects, MaxVisits)]
  /\ extern \in [Objects -> 0..1]
  /\ alive = Objects
  /\ \A o \in Objects : RefCount(o) > 0
  /\ PlainAcyclic
  /\ SharedPlain \/ \A o \in Objects \ gc : RefCount(o) = 1
  /\ iter = From(1, gc)
  /\ result = 0
  /\ deps = {} /\ seen = {} /\ visited = {} /\ changed = FALSE /\ stack = <<>>

----------------------------------------------------------------------------
(* _deegc_should_delete *)

Call(o) == [ob |-> o, todo |-> refs[o]]

(* A search from the object in question, which is a dependency of itself: *)
(* the first one, or another because the last one found dependencies.     *)
Search ==
  /\ iter <= Len(Order) /\ stack = <<>>
  /\ deps = {} \/ changed
  /\ deps' = deps \cup {Order[iter]}
  /\ seen' = {Order[iter]}
  /\ visited' = {}
  /\ changed' = FALSE
  /\ stack' = <<Call(Order[iter])>>
  /\ UNCHANGED <<heap, iter, result>>

(* The visit procedure is called for the next reference, to o, ... *)
Visiting(o) ==
  /\ stack # <<>> /\ Head(stack).todo # <<>>
  /\ o = Head(Head(stack).todo)

(* ... and is done with it, or calls tp_visit of o. *)
Visited == <<[Head(stack) EXCEPT !.todo = Tail(@)]>> \o Tail(stack)
Enters(o) == stack' = <<Call(o)>> \o Visited
Skips == stack' = Visited

(* An object without a head is walked through once. *)
VisitPlain(o) ==
  /\ Visiting(o) /\ o \notin gc
  /\ IF o \in visited THEN Skips ELSE Enters(o)
  /\ visited' = visited \cup {o}
  /\ UNCHANGED <<heap, iter, result, deps, seen, changed>>

(* Fault: an object that was seen is not looked at as a dependency. *)
VisitGCUnseen(o) ==
  LET chain == {i \in DOMAIN stack : \A j \in 1..i : stack[j].ob \notin deps}
      new == IF o \in deps \ seen THEN {stack[i].ob : i \in chain} \cap gc ELSE {}
  IN /\ Visiting(o) /\ o \in gc
     /\ deps' = deps \cup new
     /\ changed' = (changed \/ new # {})
     /\ IF o \in seen THEN Skips ELSE Enters(o)
     /\ seen' = seen \cup {o}
     /\ UNCHANGED <<heap, iter, result, visited>>

(* One with a head, if it is a dependency, adds the chain that led to it, up *)
(* to the first that is known already, whether it was seen or not; the chain *)
(* is that of the calls for objects with a head.                             *)
VisitGC(o) ==
  LET chain == {i \in DOMAIN stack : \A j \in 1..i : stack[j].ob \notin deps}
      new == IF o \in deps THEN {stack[i].ob : i \in chain} \cap gc ELSE {}
  IN /\ Visiting(o) /\ o \in gc
     /\ deps' = deps \cup new
     /\ changed' = (changed \/ new # {})
     /\ IF o \in seen THEN Skips ELSE Enters(o)
     /\ seen' = seen \cup {o}
     /\ UNCHANGED <<heap, iter, result, visited>>

(* A call of tp_visit returns. *)
Return ==
  /\ stack # <<>> /\ Head(stack).todo = <<>>
  /\ stack' = Tail(stack)
  /\ UNCHANGED <<heap, iter, result, deps, seen, visited, changed>>

(* Fault: a single search, without the dependencies of dependencies. *)
SearchedOnce == deps # {} /\ stack = <<>>

(* The search is repeated while it finds more dependencies. *)
Searched == deps # {} /\ stack = <<>> /\ ~changed

(* What can be reached from the given objects by following references: it is *)
(* in every set that has these objects and what its members refer to.        *)
Reachable(objects) ==
  {o \in Objects :
     \A s \in SUBSET Objects :
       objects \subseteq s /\ (\A p \in s : ToSet(refs[p]) \subseteq s) => o \in s}

(* Fault: the references an object has to itself are not subtracted. *)
OthersSubRefs(o) == RefsFrom(Reachable({o}) \ {o}, o)

(* _deegc_subrefs_visitproc: the references to o from what o can reach. *)
SubRefs(o) == RefsFrom(Reachable({o}), o)

(* Every dependency is referenced only by what it references itself. *)
ShouldDelete == \A d \in deps : RefCount(d) = SubRefs(d)

----------------------------------------------------------------------------
(* DeeGC_CollectNow *)

(* What is left of objects when o has dropped its references but is kept, and *)
(* whatever loses its last reference is destroyed and drops its own: as much  *)
(* as still has a reference from something left.                              *)
Left(o) ==
  LET Held(left, x) == extern[x] > 0 \/ RefsFrom(left \ {o}, x) > 0
      kept == UNION {left \in SUBSET alive : \A x \in left \ {o} : Held(left, x)}
  IN IF Held(kept, o) THEN kept ELSE kept \ {o}

(* The next object, for which nothing is known yet. *)
Advance(left) ==
  /\ iter' = From(iter + 1, gc \cap left)
  /\ deps' = {} /\ seen' = {} /\ visited' = {} /\ changed' = FALSE
  /\ UNCHANGED stack

Keep ==
  /\ Searched /\ ~ShouldDelete
  /\ Advance(alive)
  /\ UNCHANGED <<heap, result>>

(* Faults: the next object is read before the destruction; tp_clear leaves *)
(* the references.                                                         *)
DestroyNextFirst ==
  /\ Searched /\ ShouldDelete
  /\ alive' = Left(Order[iter])
  /\ refs' = [o \in Objects |->
       IF o = Order[iter] \/ o \notin alive' THEN <<>> ELSE refs[o]]
  /\ result' = result + 1
  /\ Advance(alive)
  /\ UNCHANGED <<gc, extern>>

DestroyUncleared ==
  /\ Searched /\ ShouldDelete
  /\ result' = result + 1
  /\ Advance(alive)
  /\ UNCHANGED heap

(* _DeeObject_InternalDestroyGC: tp_clear drops the references of the object. *)
(* It is destroyed if none are left to it, and else stays, partly destroyed.  *)
Destroy ==
  /\ Searched /\ ShouldDelete
  /\ alive' = Left(Order[iter])
  /\ refs' = [o \in Objects |->
       IF o = Order[iter] \/ o \notin alive' THEN <<>> ELSE refs[o]]
  /\ result' = result + 1
  /\ Advance(alive')
  /\ UNCHANGED <<gc, extern>>

(* while (DeeGC_CollectNow()) *)
Again ==
  /\ iter > Len(Order)
  /\ result > 0
  /\ iter' = From(1, gc \cap alive)
  /\ result' = 0
  /\ UNCHANGED <<heap, search>>

Next ==
  \/ Search \/ Return
  \/ \E o \in Objects : VisitPlain(o) \/ VisitGC(o)
  \/ Keep \/ Destroy \/ Again

(* A step is possible until a call has done nothing. *)
Running == iter <= Len(Order) \/ result > 0

(* The collecting thread runs: WF_vars(Next), with Running for its ENABLED, *)
(* which TLC would evaluate by another search for every state.              *)
Spec ==
  /\ Init
  /\ [][Next]_vars
  /\ ([]<>~Running \/ []<><<TRUE>>_vars)

----------------------------------------------------------------------------
(* Type invariant; the place of the collection is a tracked object's or the  *)
(* end's, whatever the destruction of the last object has destroyed with it. *)
TypeOK ==
  /\ gc \subseteq Objects /\ alive \subseteq Objects
  /\ refs \in [Objects -> Seq(Objects)]
  /\ extern \in [Objects -> Nat]
  /\ result \in 0..Len(Order)
  /\ iter \in 1..Len(Order) + 1
  /\ iter <= Len(Order) => Order[iter] \in gc \cap alive
  /\ deps \subseteq gc /\ seen \subseteq gc /\ visited \subseteq Objects \ gc
  /\ changed \in BOOLEAN
  /\ stack \in Seq([ob : Objects, todo : Seq(Objects)])

(* What the program can still reach. *)
Live == Reachable({o \in alive : extern[o] > 0})

(* A collection neither destroys nor clears what the program can reach. *)
SparesTheLiving ==
  [][\A o \in Live : o \in alive' /\ refs'[o] = refs[o]]_vars

(* The tracked objects that o is in a cycle with. *)
Cycle(o) == {d \in gc : d \in Reachable({o}) /\ o \in Reachable({d})}

(* The dependencies of an object are the tracked objects it is in a cycle     *)
(* with, in whatever order the references happen to be visited ("Keep         *)
(* searching for additional dependencies").                                   *)
DependenciesExact == Searched => deps = Cycle(Order[iter])

(* "We continue doing this until the gc is finished": a call of CollectNow   *)
(* that did nothing leaves no garbage behind.                                *)
ZeroMeansClean == ~Running => alive \cap gc \subseteq Live

(* The calls come to an end. *)
CollectionFinishes == <>~Running
=============================================================================
