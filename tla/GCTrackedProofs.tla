--------------------------- MODULE GCTrackedProofs ---------------------------
(***************************************************************************)
(* Proofs about the lists of GCTracked, for any number of threads and      *)
(* objects.  A list is the least set that has its first object and whose   *)
(* members lead to members: what is reachable before and after a link      *)
(* changes is compared by these two facts, without counting steps.         *)
(***************************************************************************)
EXTENDS GCTracked, TLAPS

(***************************************************************************)
(* Lists as sets: what the elements of a list are after its links changed. *)
(* f is what gc_next leads to, b what gc_prev leads to.                    *)
(***************************************************************************)
Maps == [Objects -> Pointer]

(* The elements of a list have its first, and lead to elements... *)
LEMMA ElementsClosed ==
  ASSUME NEW f \in Maps, NEW h \in Pointer
  PROVE  /\ Elements(h, f) \in SUBSET Objects
         /\ h \in Elements(h, f) \cup {NULL}
         /\ Closed(Elements(h, f), f)
<1>1. Elements(h, f) \in SUBSET Objects
  BY DEF Elements
<1>2. h \in Elements(h, f) \cup {NULL}
  BY DEF Elements, Pointer
<1>3. ASSUME NEW o \in Elements(h, f), f[o] # NULL
      PROVE  f[o] \in Elements(h, f)
  <2>1. o \in Objects /\ f[o] \in Objects
    BY <1>3 DEF Elements, Maps, Pointer
  <2>2. ASSUME NEW S \in SUBSET Objects, h \in S \cup {NULL}, Closed(S, f)
        PROVE  f[o] \in S
    <3>1. o \in S
      BY <2>2 DEF Elements
    <3>2. QED
      BY <1>3, <2>2, <3>1 DEF Closed
  <2>3. QED
    BY <2>1, <2>2 DEF Elements
<1>4. QED
  BY <1>1, <1>2, <1>3 DEF Closed

(* ... and there are no more of them than in any set that does. *)
LEMMA ElementsLeast ==
  ASSUME NEW f, NEW h, NEW S \in SUBSET Objects, h \in S \cup {NULL}, Closed(S, f)
  PROVE  Elements(h, f) \subseteq S
BY DEF Elements

(* No list, no elements. *)
LEMMA ElementsOfNull ==
  ASSUME NEW f
  PROVE  Elements(NULL, f) = {}
<1>1. Closed({}, f)
  BY DEF Closed
<1>2. QED
  BY <1>1, ElementsLeast

(* Links outside a list do not matter to it. *)
LEMMA ElementsSame ==
  ASSUME NEW f \in Maps, NEW g \in Maps, NEW h \in Pointer,
         \A o \in Elements(h, f) : g[o] = f[o]
  PROVE  Elements(h, g) = Elements(h, f)
<1>1. Closed(Elements(h, f), g)
  BY ElementsClosed DEF Closed
<1>2. Elements(h, g) \subseteq Elements(h, f)
  BY <1>1, ElementsClosed, ElementsLeast
<1>3. Closed(Elements(h, g), f)
  BY <1>2, ElementsClosed DEF Closed
<1>4. Elements(h, f) \subseteq Elements(h, g)
  BY <1>3, ElementsClosed, ElementsLeast
<1>5. QED
  BY <1>2, <1>4

(* A list is its first element and the list behind it. *)
LEMMA ElementsFront ==
  ASSUME NEW f \in Maps, NEW o \in Objects
  PROVE  Elements(o, f) = {o} \cup Elements(f[o], f)
<1>0. f[o] \in Pointer /\ o \in Pointer /\ o # NULL
  BY ConstantsOK DEF Maps, Pointer
<1>1. Closed({o} \cup Elements(f[o], f), f)
  BY <1>0, ElementsClosed DEF Closed
<1>2. Elements(o, f) \subseteq {o} \cup Elements(f[o], f)
  <2>1. {o} \cup Elements(f[o], f) \in SUBSET Objects
    BY <1>0, ElementsClosed
  <2>2. QED
    BY <1>1, <2>1, ElementsLeast
<1>3. o \in Elements(o, f) /\ f[o] \in Elements(o, f) \cup {NULL}
  BY <1>0, ElementsClosed DEF Closed
<1>4. Elements(f[o], f) \subseteq Elements(o, f)
  BY <1>0, <1>3, ElementsClosed, ElementsLeast
<1>5. QED
  BY <1>2, <1>3, <1>4

(* Every element but the first is the successor of one. *)
LEMMA Predecessor ==
  ASSUME NEW f \in Maps, NEW h \in Pointer, NEW o \in Elements(h, f), o # h
  PROVE  \E p \in Elements(h, f) : f[p] = o
<1> DEFINE E == Elements(h, f)
           S == {x \in E : x = h \/ \E p \in E : f[p] = x}
<1>1. S \in SUBSET Objects /\ h \in S \cup {NULL}
  BY ElementsClosed
<1>2. Closed(S, f)
  BY ElementsClosed DEF Closed
<1>3. E \subseteq S
  BY <1>1, <1>2, ElementsLeast
<1>4. QED
  BY <1>3

(* A doubly linked list whose first element has no predecessor... *)
TwoWay(h, f, b) ==
  /\ h # NULL => b[h] = NULL
  /\ \A o \in Elements(h, f) : f[o] # NULL => b[f[o]] = o

(* ... has no element that leads to itself, ... *)
LEMMA NoLoop ==
  ASSUME NEW f \in Maps, NEW b, NEW h \in Pointer, TwoWay(h, f, b),
         NEW o \in Elements(h, f)
  PROVE  f[o] # o
<1> DEFINE S == Elements(h, f) \ {o}
<1>0. /\ Elements(h, f) \in SUBSET Objects /\ h \in Elements(h, f) \cup {NULL}
      /\ Closed(Elements(h, f), f) /\ o # NULL
  BY ElementsClosed, ConstantsOK
<1>1. SUFFICES ASSUME f[o] = o PROVE FALSE
  OBVIOUS
<1>2. b[o] = o
  BY <1>0, <1>1 DEF TwoWay
<1>3. h # o
  BY <1>0, <1>2 DEF TwoWay
<1>4. S \in SUBSET Objects /\ h \in S \cup {NULL}
  BY <1>0, <1>3
<1>5. ASSUME NEW x \in S, f[x] # NULL
      PROVE  f[x] \in S
  <2>1. f[x] \in Elements(h, f) /\ b[f[x]] = x
    BY <1>0, <1>5 DEF Closed, TwoWay
  <2>2. f[x] # o
    BY <1>2, <2>1
  <2>3. QED
    BY <2>1, <2>2
<1>6. Closed(S, f)
  BY <1>5 DEF Closed
<1>7. Elements(h, f) \subseteq S
  BY <1>4, <1>6, ElementsLeast
<1>8. QED
  BY <1>7

(* ... and its elements other than the first are behind their gc_prev.  The  *)
(* successor of the element itself may already have been given its own.      *)
LEMMA PrevIsPredecessor ==
  ASSUME NEW f \in Maps, NEW b, NEW h \in Pointer, NEW o \in Elements(h, f), f[o] # o,
         h # NULL => b[h] = NULL,
         \A x \in Elements(h, f) : f[x] # NULL /\ x # o => b[f[x]] = x
  PROVE  /\ b[o] = NULL <=> o = h
         /\ o # h => b[o] \in Elements(h, f) /\ b[o] # o /\ f[b[o]] = o
<1>0. Elements(h, f) \in SUBSET Objects /\ o # NULL
  BY ElementsClosed, ConstantsOK
<1>1. CASE o = h
  BY <1>0, <1>1
<1>2. CASE o # h
  <2>1. PICK p \in Elements(h, f) : f[p] = o
    BY <1>2, Predecessor
  <2>2. p # o /\ b[o] = p /\ p # NULL
    BY <1>0, <2>1, ConstantsOK
  <2>3. QED
    BY <1>2, <2>1, <2>2
<1>3. QED
  BY <1>1, <1>2

(* Without its first element. *)
LEMMA UnlinkFirst ==
  ASSUME NEW f \in Maps, NEW b, NEW h \in Objects, f[h] # h, b[h] = NULL,
         \A x \in Elements(h, f) : f[x] # NULL /\ x # h => b[f[x]] = x
  PROVE  Elements(f[h], f) = Elements(h, f) \ {h}
<1>0. /\ Elements(h, f) \in SUBSET Objects /\ h \in Elements(h, f)
      /\ Closed(Elements(h, f), f) /\ h # NULL /\ h \in Pointer /\ f[h] \in Pointer
      /\ NULL \notin Objects
  BY ElementsClosed, ConstantsOK DEF Pointer, Maps
<1>1. ASSUME NEW x \in Elements(h, f) \ {h}, f[x] # NULL
      PROVE  f[x] \in Elements(h, f) \ {h}
  <2>1. f[x] \in Elements(h, f) /\ b[f[x]] = x /\ x # NULL
    BY <1>0, <1>1 DEF Closed
  <2>2. f[x] # h
    BY <2>1
  <2>3. QED
    BY <2>1, <2>2
<1>2. Closed(Elements(h, f) \ {h}, f)
  BY <1>1 DEF Closed
<1>3. f[h] \in (Elements(h, f) \ {h}) \cup {NULL}
  BY <1>0 DEF Closed
<1>4. Elements(f[h], f) \subseteq Elements(h, f) \ {h}
  BY <1>0, <1>2, <1>3, ElementsLeast
<1>5. QED
  BY <1>4, ElementsFront

(* Without another element, its predecessor linked to its successor. *)
LEMMA UnlinkLater ==
  ASSUME NEW f \in Maps, NEW b, NEW h \in Pointer, NEW o \in Elements(h, f),
         f[o] # o, o # h, h # NULL => b[h] = NULL,
         \A x \in Elements(h, f) : f[x] # NULL /\ x # o => b[f[x]] = x
  PROVE  Elements(h, [f EXCEPT ![b[o]] = f[o]]) = Elements(h, f) \ {o}
<1> DEFINE p == b[o]
           g == [f EXCEPT ![p] = f[o]]
           E == Elements(h, f)
<1>0. E \in SUBSET Objects /\ h \in E \cup {NULL} /\ Closed(E, f) /\ NULL \notin Objects
  BY ElementsClosed, ConstantsOK
<1>1. p \in E /\ p # o /\ f[p] = o
  BY PrevIsPredecessor
<1>2. g \in Maps /\ g[p] = f[o] /\ \A x \in Objects \ {p} : g[x] = f[x]
  BY <1>0, <1>1 DEF Maps
<1>3. ASSUME NEW x \in E \ {o}, g[x] # NULL
      PROVE  g[x] \in E \ {o}
  <2>1. CASE x = p
    BY <1>0, <1>2, <1>3, <2>1 DEF Closed
  <2>2. CASE x # p
    <3>1. g[x] = f[x] /\ f[x] \in E /\ b[f[x]] = x
      BY <1>0, <1>2, <1>3, <2>2 DEF Closed
    <3>2. QED
      BY <2>2, <3>1
  <2>3. QED
    BY <2>1, <2>2
<1>4. Closed(E \ {o}, g) /\ h \in (E \ {o}) \cup {NULL}
  BY <1>0, <1>3 DEF Closed
<1>5. Elements(h, g) \subseteq E \ {o}
  BY <1>0, <1>4, ElementsLeast
<1>6. /\ Elements(h, g) \in SUBSET Objects /\ h \in Elements(h, g) \cup {NULL}
      /\ \A x \in Elements(h, g) : g[x] \in Elements(h, g) \cup {NULL}
  BY <1>2, ElementsClosed DEF Closed
<1>7. \A S \in SUBSET Objects : h \in S \cup {NULL} /\ Closed(S, f) => E \subseteq S
  BY ElementsLeast
<1>8. p \in Elements(h, g)
  <2>1. SUFFICES ASSUME p \notin Elements(h, g) PROVE FALSE
    OBVIOUS
  <2>2. Closed(Elements(h, g), f)
    BY <1>2, <1>6, <2>1 DEF Closed
  <2>3. E \subseteq Elements(h, g)
    BY <1>6, <1>7, <2>2
  <2>4. QED
    BY <1>1, <2>1, <2>3
<1>9. Closed(Elements(h, g) \cup {o}, f)
  <2>1. f[o] \in Elements(h, g) \cup {NULL}
    BY <1>2, <1>8, <1>6
  <2>2. ASSUME NEW x \in Elements(h, g)
        PROVE  f[x] \in Elements(h, g) \cup {o, NULL}
    <3>1. CASE x = p
      BY <1>1, <3>1
    <3>2. CASE x # p
      BY <1>2, <1>6, <3>2
    <3>3. QED
      BY <3>1, <3>2
  <2>3. QED
    BY <2>1, <2>2 DEF Closed
<1>10. E \subseteq Elements(h, g) \cup {o}
  <2>1. /\ Elements(h, g) \cup {o} \in SUBSET Objects
        /\ h \in (Elements(h, g) \cup {o}) \cup {NULL}
    BY <1>0, <1>6
  <2>2. QED
    BY <1>7, <1>9, <2>1
<1>11. QED
  BY <1>5, <1>10

(* Both at once, with another list that has none of its elements. *)
LEMMA Without ==
  ASSUME NEW f \in Maps, NEW b \in Maps, NEW h \in Pointer, NEW k \in Pointer,
         NEW o \in Elements(h, f), f[o] # o, h # NULL => b[h] = NULL,
         \A x \in Elements(h, f) : f[x] # NULL /\ x # o => b[f[x]] = x,
         Elements(h, f) \cap Elements(k, f) = {}
  PROVE  /\ Elements(IF b[o] = NULL THEN f[o] ELSE h, Store(f, b[o], f[o]))
               = Elements(h, f) \ {o}
         /\ Elements(k, Store(f, b[o], f[o])) = Elements(k, f)
<1>1. /\ b[o] = NULL <=> o = h
      /\ o # h => b[o] \in Elements(h, f) /\ b[o] # o /\ f[b[o]] = o
  <2>1. \A x \in Elements(h, f) : f[x] # NULL /\ x # o => b[f[x]] = x
    OBVIOUS
  <2>2. b[o] = NULL <=> o = h
    BY <2>1, PrevIsPredecessor
  <2>3. o # h => b[o] \in Elements(h, f) /\ b[o] # o /\ f[b[o]] = o
    BY <2>1, PrevIsPredecessor
  <2>4. QED
    BY <2>2, <2>3
<1>2. Elements(h, f) \in SUBSET Objects
  BY ElementsClosed
<1>3. CASE b[o] = NULL
  <2>1. Elements(f[o], f) = Elements(h, f) \ {o}
    BY <1>1, <1>2, <1>3, UnlinkFirst
  <2>2. QED
    BY <1>3, <2>1 DEF Store
<1>4. CASE b[o] # NULL
  <2>1. Elements(h, [f EXCEPT ![b[o]] = f[o]]) = Elements(h, f) \ {o}
    BY <1>1, <1>4, UnlinkLater
  <2>2. Elements(k, [f EXCEPT ![b[o]] = f[o]]) = Elements(k, f)
    <3>1. [f EXCEPT ![b[o]] = f[o]] \in Maps
      BY <1>2 DEF Maps
    <3>2. \A x \in Elements(k, f) : [f EXCEPT ![b[o]] = f[o]][x] = f[x]
      BY <1>1, <1>4, ElementsClosed DEF Maps
    <3>3. QED
      BY <3>1, <3>2, ElementsSame
  <2>3. QED
    BY <1>4, <2>1, <2>2 DEF Store
<1>5. QED
  BY <1>3, <1>4

(* A list whose last element is linked to another list. *)
LEMMA Joined ==
  ASSUME NEW f \in Maps, NEW h \in Pointer, NEW k \in Pointer,
         NEW e \in Elements(h, f), f[e] = NULL, e \notin Elements(k, f),
         NEW g \in Maps, g[e] = k, \A x \in Objects \ {e} : g[x] = f[x]
  PROVE  /\ Elements(k, g) = Elements(k, f)
         /\ Elements(h, g) = Elements(h, f) \cup Elements(k, f)
<1> DEFINE U == Elements(h, f) \cup Elements(k, f)
<1>0. /\ U \in SUBSET Objects /\ h \in Elements(h, f) \cup {NULL}
      /\ k \in Elements(k, f) \cup {NULL}
      /\ Closed(Elements(h, f), f) /\ Closed(Elements(k, f), f)
  BY ElementsClosed
<1>1. \A x \in Elements(k, f) : g[x] = f[x]
  BY <1>0
<1>2. Elements(k, g) = Elements(k, f)
  BY <1>1, ElementsSame
<1>3. Closed(U, g)
  <2>1. ASSUME NEW x \in U
        PROVE  g[x] \in U \cup {NULL}
    BY <1>0 DEF Closed
  <2>2. QED
    BY <2>1 DEF Closed
<1>4. Elements(h, g) \subseteq U
  BY <1>0, <1>3, ElementsLeast
<1>5. /\ Elements(h, g) \in SUBSET Objects /\ h \in Elements(h, g) \cup {NULL}
       /\ \A x \in Elements(h, g) : g[x] \in Elements(h, g) \cup {NULL}
  BY ElementsClosed DEF Closed
<1>6. Closed(Elements(h, g), f)
  <2>1. ASSUME NEW x \in Elements(h, g)
        PROVE  f[x] \in Elements(h, g) \cup {NULL}
    BY <1>5
  <2>2. QED
    BY <2>1 DEF Closed
<1>7. Elements(h, f) \subseteq Elements(h, g)
  BY <1>6, <1>5, ElementsLeast
<1>8. k \in Elements(h, g) \cup {NULL}
  BY <1>7, <1>5
<1>9. Elements(k, g) \subseteq Elements(h, g)
  BY <1>8, <1>5, ElementsLeast DEF Closed
<1>10. QED
  BY <1>2, <1>4, <1>7, <1>9

(* The places of a call inside the lock of the tracked list... *)
Inside == {"addlink", "addhead", "remspin", "remnext", "remprev",
           "publish", "splice", "swap", "unspin", "unlock"}

(* ... and inside that of the pending list. *)
Spinning == {"pendlink", "pendhead", "remnext", "remprev", "splice", "swap", "unspin"}

(* A call that adds an object, and one that removes one. *)
Adding == {"addtry", "addlink", "addhead", "addspin", "pendlink", "pendhead"}
Removing == {"remlock", "remspin", "remnext", "remprev"}

Collecting(t) == collector = t /\ pc[t] # "collock"

(* Who has which lock, and how often: a destructor called by the collector  *)
(* acquires the recursive one a second time, and never waits for the other. *)
Locks ==
  /\ holder = NoThread => depth = 0
  /\ holder # NoThread => depth > 0
  /\ \A t \in Threads :
       /\ holder = t <=> pc[t] \in Inside \/ Collecting(t)
       /\ spin = t <=> pc[t] \in Spinning
       /\ holder = t /\ collector # t => depth = 1
       /\ collector = t /\ pc[t] \in {"visit", "addtry", "remlock"} => depth = 1
       /\ collector = t /\ pc[t] \in {"addlink", "addhead", "remspin", "remnext", "remprev"}
            => depth = 2
       /\ collector = t => pc[t] \notin {"idle", "addspin", "pendlink", "pendhead"}
       /\ pc[t] \in {"visit", "collock"} => collector = t

(* The objects of the calls: nobody else's, and those that are being added  *)
(* lead to the list, but the list does not yet lead to them.                *)
Heads ==
  /\ \A t \in Threads :
       /\ pc[t] \in Adding \cup Removing => head[t] \in Objects
       /\ pc[t] \in Adding => status[head[t]] = "adding" /\ prev[head[t]] = NULL
       /\ pc[t] \in Removing => status[head[t]] = "removing"
       /\ pc[t] = "addhead" => next[head[t]] = tracked
       /\ pc[t] = "pendhead" => next[head[t]] = pending
       /\ pc[t] = "remprev" =>
            /\ next[head[t]] # head[t]
            /\ next[head[t]] # NULL => prev[next[head[t]]] = prev[head[t]]
       /\ pc[t] \in Removing /\ Collecting(t) => head[t] # iter
  /\ \A t, u \in Threads :
       {pc[t], pc[u]} \subseteq Adding \cup Removing /\ t # u => head[t] # head[u]

Listed == {o \in Objects : status[o] \in {"tracked", "removing"}}

At(label) == \E t \in Threads : pc[t] = label

(* The objects of both lists, also while they change. *)
Members ==
  /\ Chain(tracked) \cup Chain(pending) = Listed
  /\ ~At("swap") => Chain(tracked) \cap Chain(pending) = {}
  /\ At("swap") => Chain(tracked) \subseteq Chain(pending) /\ pending # NULL

(* gc_prev of a successor leads back, but for an object being removed. *)
Back ==
  \A o \in Listed : next[o] # NULL =>
    \/ prev[next[o]] = o
    \/ \E t \in Threads : pc[t] = "remprev" /\ head[t] = o

(* gc_prev of the first objects is NULL, or already the object to be added. *)
First ==
  /\ tracked # NULL /\ ~At("swap") =>
       \/ prev[tracked] = NULL /\ ~At("addhead")
       \/ \E t \in Threads : pc[t] = "addhead" /\ prev[tracked] = head[t]
  /\ pending # NULL =>
       \/ prev[pending] = NULL /\ ~At("pendhead")
       \/ \E t \in Threads : pc[t] = "pendhead" /\ prev[pending] = head[t]

IterIn == \A t \in Threads : Collecting(t) /\ iter # NULL => iter \in Chain(tracked)

IInv == TypeOK /\ Locks /\ Heads /\ Members /\ Back /\ First /\ IterIn

(* A step keeps the types: objects are linked to objects. *)
LEMMA StepTypes ==
  ASSUME TypeOK, Locks, Heads,
         NEW t \in Threads, Step(t) \/ Advance(t) \/ Call(t)
  PROVE  TypeOK'
<1> USE ConstantsOK DEF TypeOK, Pointer, Goto, Store, lockVars, lists,
    TrackedLock!Acquire, TrackedLock!Release
<1>1. ASSUME NEW o \in Objects, Add(t, o)
      PROVE  TypeOK'
  BY <1>1 DEF Add
<1>2. CASE AddTry(t)
  BY <1>2 DEF AddTry, Locks, Collecting, Inside
<1>3. CASE AddLink(t)
  BY <1>3 DEF AddLink
<1>4. CASE AddHead(t)
  BY <1>4 DEF AddHead
<1>5. CASE Spin(t, "addspin", "pendlink")
  BY <1>5 DEF Spin
<1>6. CASE PendLink(t)
  BY <1>6 DEF PendLink
<1>7. CASE PendHead(t)
  BY <1>7 DEF PendHead, Caller
<1>8. ASSUME NEW o \in Objects, Remove(t, o)
      PROVE  TypeOK'
  BY <1>8 DEF Remove
<1>9. CASE Lock(t)
  BY <1>9 DEF Lock, Locks, Collecting, Inside
<1>10. CASE Spin(t, "remspin", "remnext")
  BY <1>10 DEF Spin
<1>11. CASE RemNext(t)
  BY <1>11 DEF RemNext, Heads, Adding, Removing
<1>12. CASE RemPrev(t)
  BY <1>12 DEF RemPrev, Heads, Adding, Removing
<1>13. CASE Spin(t, "publish", "splice")
  BY <1>13 DEF Spin
<1>14. CASE Splice(t)
  BY <1>14 DEF Splice, Chain, Elements
<1>15. CASE Swap(t)
  BY <1>15 DEF Swap
<1>16. CASE Unspin(t)
  BY <1>16 DEF Unspin
<1>17. CASE Unlock(t)
  BY <1>17 DEF Unlock
<1>18. CASE Collect(t)
  BY <1>18 DEF Collect
<1>19. CASE Keep(t)
  BY <1>19 DEF Keep
<1>20. CASE Condemn(t)
  BY <1>20 DEF Condemn
<1>21. CASE EndCollect(t)
  BY <1>21 DEF EndCollect
<1>22. QED
  BY <1>1, <1>2, <1>3, <1>4, <1>5, <1>6, <1>7, <1>8, <1>9, <1>10, <1>11,
     <1>12, <1>13, <1>14, <1>15, <1>16, <1>17, <1>18, <1>19, <1>20, <1>21 DEF
     Step, Advance, Call

(* A step takes and gives back the locks in the order the places say. *)
LEMMA StepLocks ==
  ASSUME TypeOK, Locks,
         NEW t \in Threads, Step(t) \/ Advance(t) \/ Call(t)
  PROVE  Locks'
<1> USE ConstantsOK DEF TypeOK, Locks, Goto, lockVars, Inside, Spinning, Collecting,
    TrackedLock!Acquire, TrackedLock!Release
<1>1. ASSUME NEW o \in Objects, Add(t, o)
      PROVE  Locks'
  BY <1>1 DEF Add, Caller
<1>2. CASE AddTry(t)
  BY <1>2 DEF AddTry
<1>3. CASE AddLink(t)
  BY <1>3 DEF AddLink
<1>4. CASE AddHead(t)
  BY <1>4 DEF AddHead
<1>5. CASE Spin(t, "addspin", "pendlink")
  BY <1>5 DEF Spin
<1>6. CASE PendLink(t)
  BY <1>6 DEF PendLink
<1>7. CASE PendHead(t)
  BY <1>7 DEF PendHead, Caller
<1>8. ASSUME NEW o \in Objects, Remove(t, o)
      PROVE  Locks'
  BY <1>8 DEF Remove, Caller
<1>9. CASE Lock(t)
  BY <1>9 DEF Lock
<1>10. CASE Spin(t, "remspin", "remnext")
  BY <1>10 DEF Spin
<1>11. CASE RemNext(t)
  BY <1>11 DEF RemNext
<1>12. CASE RemPrev(t)
  BY <1>12 DEF RemPrev
<1>13. CASE Spin(t, "publish", "splice")
  BY <1>13 DEF Spin
<1>14. CASE Splice(t)
  BY <1>14 DEF Splice
<1>15. CASE Swap(t)
  BY <1>15 DEF Swap
<1>16. CASE Unspin(t)
  BY <1>16 DEF Unspin
<1>17. CASE Unlock(t)
  BY <1>17 DEF Unlock
<1>18. CASE Collect(t)
  BY <1>18 DEF Collect
<1>19. CASE Keep(t)
  BY <1>19 DEF Keep
<1>20. CASE Condemn(t)
  BY <1>20 DEF Condemn
<1>21. CASE EndCollect(t)
  BY <1>21 DEF EndCollect
<1>22. QED
  BY <1>1, <1>2, <1>3, <1>4, <1>5, <1>6, <1>7, <1>8, <1>9, <1>10, <1>11,
     <1>12, <1>13, <1>14, <1>15, <1>16, <1>17, <1>18, <1>19, <1>20, <1>21 DEF
     Step, Advance, Call

(* What the members of the lists lead to. *)
LEMMA ListFacts ==
  ASSUME TypeOK, Members
  PROVE  /\ next \in Maps /\ tracked \in Pointer /\ pending \in Pointer
         /\ Listed \in SUBSET Objects
         /\ tracked \in Chain(tracked) \cup {NULL} /\ pending \in Chain(pending) \cup {NULL}
         /\ tracked \in Listed \cup {NULL} /\ pending \in Listed \cup {NULL}
         /\ Closed(Chain(tracked), next) /\ Closed(Chain(pending), next)
         /\ \A o \in Listed : next[o] \in Listed \cup {NULL}
<1>1. next \in Maps /\ tracked \in Pointer /\ pending \in Pointer
  BY DEF TypeOK, Maps
<1>2. /\ tracked \in Chain(tracked) \cup {NULL} /\ pending \in Chain(pending) \cup {NULL}
      /\ Closed(Chain(tracked), next) /\ Closed(Chain(pending), next)
  BY <1>1, ElementsClosed DEF Chain
<1>3. QED
  BY <1>1, <1>2 DEF Members, Listed, Closed

(* One thread at a time is inside each lock. *)
LEMMA Alone ==
  ASSUME Locks, NEW t \in Threads, NEW u \in Threads, t # u
  PROVE  /\ pc[t] \in Inside \/ Collecting(t) => pc[u] \notin Inside /\ ~Collecting(u)
         /\ pc[t] \in Spinning => pc[u] \notin Spinning
BY DEF Locks

(* A list nobody changes is doubly linked. *)
LEMMA TrackedTwoWay ==
  ASSUME TypeOK, Members, Back, First, ~At("addhead"), ~At("remprev"), ~At("swap")
  PROVE  TwoWay(tracked, next, prev)
BY DEF Members, Back, First, At, TwoWay, Chain

(* So is the pending list. *)
LEMMA PendingTwoWay ==
  ASSUME TypeOK, Members, Back, First, ~At("pendhead"), ~At("remprev")
  PROVE  TwoWay(pending, next, prev)
BY DEF Members, Back, First, At, TwoWay, Chain

(* In a doubly linked list, gc_prev leads back. *)
LEMMA Neighbours ==
  ASSUME NEW f \in Maps, NEW b, NEW h \in Pointer, TwoWay(h, f, b), NEW o \in Elements(h, f)
  PROVE  /\ f[o] # o
         /\ b[o] = NULL <=> o = h
         /\ o # h => b[o] \in Elements(h, f) /\ b[o] # o /\ f[b[o]] = o
<1>1. f[o] # o
  BY NoLoop
<1>2. QED
  BY <1>1, PrevIsPredecessor DEF TwoWay

(* The object the collector is about to destroy is in a list nobody changes. *)
LEMMA CondemnFacts ==
  ASSUME TypeOK, Locks, Members, Back, First, IterIn, NEW t \in Threads, Condemn(t)
  PROVE  /\ iter \in Chain(tracked) /\ iter \in Listed
         /\ TwoWay(tracked, next, prev)
         /\ next[iter] # iter
         /\ prev[iter] = NULL <=> iter = tracked
         /\ iter # tracked => /\ prev[iter] \in Chain(tracked) /\ prev[iter] # iter
                              /\ next[prev[iter]] = iter
         /\ ~At("addhead") /\ ~At("remprev") /\ ~At("swap")
<1>1. iter \in Chain(tracked) /\ iter \in Listed
  BY DEF Condemn, IterIn, Collecting, Members
<1>2. ~At("addhead") /\ ~At("remprev") /\ ~At("swap")
  BY DEF Condemn, Locks, Collecting, Inside, At
<1>3. TwoWay(tracked, next, prev)
  BY <1>2, TrackedTwoWay
<1>4. QED
  BY <1>1, <1>2, <1>3, ListFacts, Neighbours DEF Chain

(* So is one whose removal has both locks and begins. *)
LEMMA RemNextFacts ==
  ASSUME TypeOK, Locks, Heads, Members, Back, First, NEW t \in Threads, pc[t] = "remnext"
  PROVE  /\ TwoWay(tracked, next, prev) /\ TwoWay(pending, next, prev)
         /\ head[t] \in Listed
         /\ next[head[t]] # head[t]
         /\ ~At("addhead") /\ ~At("pendhead") /\ ~At("remprev") /\ ~At("swap")
<1>1. ~At("addhead") /\ ~At("pendhead") /\ ~At("remprev") /\ ~At("swap")
  BY DEF Locks, Inside, Spinning, At
<1>2. TwoWay(tracked, next, prev) /\ TwoWay(pending, next, prev)
  BY <1>1, TrackedTwoWay, PendingTwoWay
<1>3. head[t] \in Listed
  BY DEF Heads, Removing, Listed
<1>4. head[t] \in Elements(tracked, next) \/ head[t] \in Elements(pending, next)
  BY <1>3 DEF Members, Chain
<1>5. QED
  BY <1>1, <1>2, <1>3, <1>4, ListFacts, NoLoop

(* A step leaves the objects of other calls alone. *)
LEMMA StepHeads ==
  ASSUME TypeOK, Locks, Heads, Members, Back, First, IterIn,
         NEW t \in Threads, Step(t) \/ Advance(t) \/ Call(t)
  PROVE  Heads'
<1> USE ConstantsOK DEF TypeOK, Pointer, Goto, Store, lockVars, lists, Listed,
    Adding, Removing, Inside, Spinning, Heads, Collecting
<1>0. /\ tracked \in Listed \cup {NULL} /\ pending \in Listed \cup {NULL}
      /\ \A p \in Listed : next[p] \in Listed \cup {NULL}
      /\ \A u, v \in Threads : u # v =>
           /\ pc[u] \in Inside \/ Collecting(u) => pc[v] \notin Inside /\ ~Collecting(v)
           /\ pc[u] \in Spinning => pc[v] \notin Spinning
  BY ListFacts, Alone
<1>1. ASSUME NEW o \in Objects, Add(t, o)
      PROVE  Heads'
  BY <1>0, <1>1 DEF Add
<1>2. CASE AddTry(t)
  BY <1>0, <1>2 DEF AddTry
<1>3. CASE AddLink(t)
  BY <1>0, <1>3 DEF AddLink
<1>4. CASE AddHead(t)
  BY <1>0, <1>4 DEF AddHead
<1>5. CASE Spin(t, "addspin", "pendlink")
  BY <1>0, <1>5 DEF Spin
<1>6. CASE PendLink(t)
  BY <1>0, <1>6 DEF PendLink
<1>7. CASE PendHead(t)
  BY <1>0, <1>7 DEF PendHead, Caller
<1>8. ASSUME NEW o \in Objects, Remove(t, o)
      PROVE  Heads'
  BY <1>0, <1>8 DEF Remove
<1>9. CASE Lock(t)
  <2>1. CASE pc[t] = "remlock"
    BY <1>0, <1>9, <2>1 DEF Lock
  <2>2. CASE pc[t] = "collock"
    BY <1>0, <1>9, <2>2, Alone DEF Lock, Locks
  <2>3. QED
    BY <1>9, <2>1, <2>2 DEF Lock
<1>10. CASE Spin(t, "remspin", "remnext")
  BY <1>0, <1>10 DEF Spin
<1>11. CASE RemNext(t)
  BY <1>0, <1>11, RemNextFacts DEF RemNext
<1>12. CASE RemPrev(t)
  BY <1>0, <1>12 DEF RemPrev
<1>13. CASE Spin(t, "publish", "splice")
  BY <1>0, <1>13 DEF Spin
<1>14. CASE Splice(t)
  BY <1>0, <1>14 DEF Splice
<1>15. CASE Swap(t)
  BY <1>0, <1>15 DEF Swap
<1>16. CASE Unspin(t)
  BY <1>0, <1>16 DEF Unspin
<1>17. CASE Unlock(t)
  BY <1>0, <1>17 DEF Unlock
<1>18. CASE Collect(t)
  BY <1>0, <1>18 DEF Collect
<1>19. CASE Keep(t)
  BY <1>0, <1>19 DEF Keep
<1>20. CASE Condemn(t)
  <2>1. /\ iter \in Listed /\ next[iter] # iter /\ ~At("addhead") /\ ~At("remprev")
        /\ prev[iter] \in Listed \cup {NULL}
    BY <1>20, CondemnFacts DEF Members
  <2>2. QED
    BY <1>0, <1>20, <2>1, Alone DEF Condemn, At
<1>21. CASE EndCollect(t)
  BY <1>0, <1>21 DEF EndCollect
<1>22. QED
  BY <1>1, <1>2, <1>3, <1>4, <1>5, <1>6, <1>7, <1>8, <1>9, <1>10, <1>11,
     <1>12, <1>13, <1>14, <1>15, <1>16, <1>17, <1>18, <1>19, <1>20, <1>21 DEF
     Step, Advance, Call

(* So is one whose removal links its neighbours to each other. *)
LEMMA RemPrevFacts ==
  ASSUME TypeOK, Locks, Heads, Members, Back, First, NEW t \in Threads, pc[t] = "remprev"
  PROVE  /\ head[t] \in Listed /\ next[head[t]] # head[t]
         /\ tracked # NULL => prev[tracked] = NULL
         /\ pending # NULL => prev[pending] = NULL
         /\ \A x \in Listed : next[x] # NULL /\ x # head[t] => prev[next[x]] = x
         /\ Chain(tracked) \cap Chain(pending) = {}
         /\ ~At("addhead") /\ ~At("pendhead") /\ ~At("swap")
         /\ \A u \in Threads \ {t} : pc[u] # "remprev"
<1>1. /\ ~At("addhead") /\ ~At("pendhead") /\ ~At("swap")
      /\ \A u \in Threads \ {t} : pc[u] # "remprev"
  BY DEF Locks, Inside, Spinning, At
<1>2. head[t] \in Listed /\ next[head[t]] # head[t]
  BY DEF Heads, Removing, Listed
<1>3. QED
  BY <1>1, <1>2 DEF Members, Back, First, At

(***************************************************************************)
(* The elements of both lists after each change.                           *)
(***************************************************************************)
(* Links of an object that is not in a list yet. *)
LEMMA ChainsAdd ==
  ASSUME TypeOK, TypeOK', Locks, Heads, Members, NEW t \in Threads, AddLink(t) \/ PendLink(t)
  PROVE  Chain(tracked)' = Chain(tracked) /\ Chain(pending)' = Chain(pending)
<1>1. /\ tracked' = tracked /\ pending' = pending
      /\ \A x \in Listed : next'[x] = next[x]
  BY DEF AddLink, PendLink, TypeOK, Heads, Adding, Listed
<1>2. next \in Maps /\ next' \in Maps /\ tracked \in Pointer /\ pending \in Pointer
  BY DEF TypeOK, Maps
<1>3. QED
  BY <1>1, <1>2, ElementsSame DEF Chain, Members

(* The first of the tracked objects. *)
LEMMA ChainsAddHead ==
  ASSUME TypeOK, Locks, Heads, Members, NEW t \in Threads, AddHead(t)
  PROVE  Chain(tracked)' = {head[t]} \cup Chain(tracked) /\ Chain(pending)' = Chain(pending)
<1>1. /\ tracked' = head[t] /\ pending' = pending /\ next' = next
      /\ head[t] \in Objects /\ next[head[t]] = tracked
  BY DEF AddHead, Heads, Adding
<1>2. next \in Maps
  BY DEF TypeOK, Maps
<1>3. QED
  BY <1>1, <1>2, ElementsFront DEF Chain

(* The first of the pending objects. *)
LEMMA ChainsPendHead ==
  ASSUME TypeOK, Locks, Heads, Members, NEW t \in Threads, PendHead(t)
  PROVE  Chain(pending)' = {head[t]} \cup Chain(pending) /\ Chain(tracked)' = Chain(tracked)
<1>1. /\ pending' = head[t] /\ tracked' = tracked /\ next' = next
      /\ head[t] \in Objects /\ next[head[t]] = pending
  BY DEF PendHead, Heads, Adding
<1>2. next \in Maps
  BY DEF TypeOK, Maps
<1>3. QED
  BY <1>1, <1>2, ElementsFront DEF Chain

(* A removal, from whichever list has the object. *)
LEMMA ChainsRemPrev ==
  ASSUME TypeOK, Locks, Heads, Members, Back, First, NEW t \in Threads, RemPrev(t)
  PROVE  /\ Chain(tracked)' = Chain(tracked) \ {head[t]}
         /\ Chain(pending)' = Chain(pending) \ {head[t]}
         /\ prev[head[t]] = NULL <=> head[t] \in {tracked, pending}
         /\ prev[head[t]] # NULL => /\ prev[head[t]] \in Listed /\ prev[head[t]] # head[t]
                                    /\ next[prev[head[t]]] = head[t]
<1> DEFINE o == head[t]
<1>0. /\ next \in Maps /\ prev \in Maps /\ tracked \in Pointer /\ pending \in Pointer
      /\ tracked \in Chain(tracked) \cup {NULL} /\ pending \in Chain(pending) \cup {NULL}
      /\ NULL \notin Objects
  BY ListFacts, ConstantsOK DEF TypeOK, Maps
<1>1. /\ o \in Listed /\ o \in Objects /\ next[o] # o /\ Chain(tracked) \cap Chain(pending) = {}
      /\ tracked # NULL => prev[tracked] = NULL
      /\ pending # NULL => prev[pending] = NULL
      /\ \A x \in Listed : next[x] # NULL /\ x # o => prev[next[x]] = x
  BY RemPrevFacts DEF RemPrev, Listed
<1>2. next' = Store(next, prev[o], next[o])
  BY DEF RemPrev
<1>3. Chain(tracked) \subseteq Listed /\ Chain(pending) \subseteq Listed
  BY DEF Members
<1>4. CASE o \in Chain(tracked)
  <2>1. /\ prev[o] = NULL <=> o = tracked
        /\ o # tracked => prev[o] \in Chain(tracked) /\ prev[o] # o /\ next[prev[o]] = o
    BY <1>0, <1>1, <1>3, <1>4, PrevIsPredecessor DEF Chain
  <2>2. o # pending
    BY <1>0, <1>1, <1>4
  <2>3. /\ tracked' = IF prev[o] = NULL THEN next[o] ELSE tracked
        /\ pending' = pending
    BY <2>1, <2>2 DEF RemPrev
  <2>4. /\ Elements(tracked', next') = Chain(tracked) \ {o}
        /\ Elements(pending', next') = Chain(pending)
    BY <1>0, <1>1, <1>2, <1>3, <1>4, <2>3, Without DEF Chain
  <2>5. QED
    BY <1>0, <1>1, <1>3, <1>4, <2>1, <2>2, <2>4 DEF Chain
<1>5. CASE o \in Chain(pending)
  <2>1. /\ prev[o] = NULL <=> o = pending
        /\ o # pending => prev[o] \in Chain(pending) /\ prev[o] # o /\ next[prev[o]] = o
    BY <1>0, <1>1, <1>3, <1>5, PrevIsPredecessor DEF Chain
  <2>2. o # tracked
    BY <1>0, <1>1, <1>5
  <2>3. /\ pending' = IF prev[o] = NULL THEN next[o] ELSE pending
        /\ tracked' = tracked
    BY <2>1, <2>2 DEF RemPrev
  <2>4. /\ Elements(pending', next') = Chain(pending) \ {o}
        /\ Elements(tracked', next') = Chain(tracked)
    BY <1>0, <1>1, <1>2, <1>3, <1>5, <2>3, Without DEF Chain
  <2>5. QED
    BY <1>0, <1>1, <1>3, <1>5, <2>1, <2>2, <2>4 DEF Chain
<1>6. QED
  BY <1>1, <1>4, <1>5 DEF Members

(* A destroyed object is taken from the tracked list. *)
LEMMA ChainsCondemn ==
  ASSUME TypeOK, Locks, Members, Back, First, IterIn, NEW t \in Threads, Condemn(t)
  PROVE  /\ Chain(tracked)' = Chain(tracked) \ {iter}
         /\ Chain(pending)' = Chain(pending)
<1>0. next \in Maps /\ prev \in Maps /\ tracked \in Pointer /\ pending \in Pointer
  BY DEF TypeOK, Maps
<1>1. /\ next' = Store(next, prev[iter], next[iter])
      /\ tracked' = IF prev[iter] = NULL THEN next[iter] ELSE tracked
      /\ pending' = pending
  BY DEF Condemn
<1>2. /\ iter \in Chain(tracked) /\ next[iter] # iter /\ TwoWay(tracked, next, prev)
      /\ Chain(tracked) \cap Chain(pending) = {}
  BY CondemnFacts DEF Members
<1>3. QED
  BY <1>0, <1>1, <1>2, Without DEF Chain, TwoWay

(* For a moment the pending list has the objects of both... *)
LEMMA ChainsSplice ==
  ASSUME TypeOK, Locks, Members, NEW t \in Threads, Splice(t), pending # NULL
  PROVE  /\ Chain(tracked)' = Chain(tracked)
         /\ Chain(pending)' = Chain(pending) \cup Chain(tracked)
<1>0. next \in Maps /\ tracked \in Pointer /\ pending \in Pointer
  BY DEF TypeOK, Maps
<1>1. PICK end \in Chain(pending) : /\ next[end] = NULL
                                   /\ next' = [next EXCEPT ![end] = tracked]
  BY DEF Splice
<1>2. ~At("swap")
  BY DEF Splice, Locks, Spinning, At
<1>3. end \notin Chain(tracked) /\ tracked' = tracked /\ pending' = pending
  BY <1>2 DEF Members, Splice
<1>4. /\ end \in Elements(pending, next) /\ end \notin Elements(tracked, next)
      /\ next[end] = NULL
  BY <1>1, <1>3 DEF Chain
<1>5. /\ Elements(tracked, next') = Elements(tracked, next)
      /\ Elements(pending, next') = Elements(pending, next) \cup Elements(tracked, next)
  <2>1. next' \in Maps /\ next'[end] = tracked /\ \A x \in Objects \ {end} : next'[x] = next[x]
    BY <1>0, <1>1, <1>4 DEF Maps, Elements
  <2>2. QED
    BY <1>0, <1>4, <2>1, Joined
<1>6. QED
  BY <1>3, <1>5 DEF Chain

(* ... and then the tracked list has them. *)
LEMMA ChainsSwap ==
  ASSUME TypeOK, NEW t \in Threads, Swap(t)
  PROVE  Chain(tracked)' = Chain(pending) /\ Chain(pending)' = {}
BY ElementsOfNull DEF Swap, Chain

(* A step adds to the lists and removes from them what it says. *)
LEMMA StepMembers ==
  ASSUME TypeOK, TypeOK', Locks, Heads, Members, Back, First, IterIn,
         NEW t \in Threads, Step(t) \/ Advance(t) \/ Call(t)
  PROVE  Members'
<1> USE ConstantsOK
<1>0. UNCHANGED <<tracked, pending, next>> => UNCHANGED <<Chain(tracked), Chain(pending)>>
  BY DEF Chain
<1>1. ASSUME NEW o \in Objects, Add(t, o)
      PROVE  Members'
  BY <1>0, <1>1 DEF Add, Caller, Members, Listed, At, TypeOK, Goto, lists, lockVars
<1>2. CASE AddTry(t)
  BY <1>0, <1>2 DEF AddTry, Members, Listed, At, TypeOK, Goto, lists, lockVars
<1>3. CASE AddLink(t)
  <2>1. Chain(tracked)' = Chain(tracked) /\ Chain(pending)' = Chain(pending)
    BY <1>3, ChainsAdd
  <2>2. QED
    BY <1>3, <2>1 DEF AddLink, Members, Listed, At, TypeOK, Goto, lists, lockVars
<1>4. CASE AddHead(t)
  <2>1. Chain(tracked)' = {head[t]} \cup Chain(tracked) /\ Chain(pending)' = Chain(pending)
    BY <1>4, ChainsAddHead
  <2>2. QED
    BY <1>4, <2>1 DEF AddHead, Heads, Adding, Locks, Inside, Members, Listed,
        At, TypeOK, Goto, lists, lockVars
<1>5. CASE Spin(t, "addspin", "pendlink")
  BY <1>0, <1>5 DEF Spin, Members, Listed, At, TypeOK, Goto, lists, lockVars
<1>6. CASE PendLink(t)
  <2>1. Chain(tracked)' = Chain(tracked) /\ Chain(pending)' = Chain(pending)
    BY <1>6, ChainsAdd
  <2>2. QED
    BY <1>6, <2>1 DEF PendLink, Members, Listed, At, TypeOK, Goto, lists, lockVars
<1>7. CASE PendHead(t)
  <2>1. Chain(pending)' = {head[t]} \cup Chain(pending) /\ Chain(tracked)' = Chain(tracked)
    BY <1>7, ChainsPendHead
  <2>2. QED
    BY <1>7, <2>1 DEF PendHead, Caller, Heads, Adding, Locks, Spinning, Members,
        Listed, At, TypeOK, Goto, lists, lockVars
<1>8. ASSUME NEW o \in Objects, Remove(t, o)
      PROVE  Members'
  BY <1>0, <1>8 DEF Remove, Caller, Members, Listed, At, TypeOK, Goto, lists,
      lockVars
<1>9. CASE Lock(t)
  BY <1>0, <1>9 DEF Lock, Members, Listed, At, TypeOK, Goto, lists, lockVars
<1>10. CASE Spin(t, "remspin", "remnext")
  BY <1>0, <1>10 DEF Spin, Members, Listed, At, TypeOK, Goto, lists, lockVars
<1>11. CASE RemNext(t)
  BY <1>0, <1>11 DEF RemNext, Members, Listed, At, TypeOK, Goto, lists, lockVars
<1>12. CASE RemPrev(t)
  <2>1. /\ Chain(tracked)' = Chain(tracked) \ {head[t]}
        /\ Chain(pending)' = Chain(pending) \ {head[t]}
    BY <1>12, ChainsRemPrev
  <2>2. ~At("swap") /\ pc[t] = "remprev"
    BY <1>12, RemPrevFacts DEF RemPrev
  <2>3. QED
    BY <1>12, <2>1, <2>2 DEF RemPrev, Members, Listed, At, TypeOK, Goto
<1>13. CASE Spin(t, "publish", "splice")
  BY <1>0, <1>13 DEF Spin, Members, Listed, At, TypeOK, Goto, lists, lockVars
<1>14. CASE Splice(t)
  <2>1. CASE pending = NULL
    BY <1>0, <1>14, <2>1 DEF Splice, Members, Listed, At, TypeOK, Goto
  <2>2. CASE pending # NULL
    <3>1. /\ Chain(tracked)' = Chain(tracked)
          /\ Chain(pending)' = Chain(pending) \cup Chain(tracked)
      BY <1>14, <2>2, ChainsSplice
    <3>2. QED
      BY <1>14, <2>2, <3>1 DEF Splice, Locks, Spinning, Members, Listed, At,
          TypeOK, Goto
  <2>3. QED
    BY <2>1, <2>2
<1>15. CASE Swap(t)
  <2>1. Chain(tracked)' = Chain(pending) /\ Chain(pending)' = {}
    BY <1>15, ChainsSwap
  <2>2. QED
    BY <1>15, <2>1 DEF Swap, Locks, Spinning, Members, Listed, At, TypeOK, Goto
<1>16. CASE Unspin(t)
  BY <1>0, <1>16 DEF Unspin, Members, Listed, At, TypeOK, Goto, lists, lockVars
<1>17. CASE Unlock(t)
  BY <1>0, <1>17 DEF Unlock, Members, Listed, At, TypeOK, Goto, lists, lockVars
<1>18. CASE Collect(t)
  BY <1>0, <1>18 DEF Collect, Members, Listed, At, TypeOK, Goto, lists, lockVars
<1>19. CASE Keep(t)
  BY <1>0, <1>19 DEF Keep, Members, Listed, At, TypeOK, Goto, lists, lockVars
<1>20. CASE Condemn(t)
  <2>1. /\ Chain(tracked)' = Chain(tracked) \ {iter}
        /\ Chain(pending)' = Chain(pending)
    BY <1>20, ChainsCondemn
  <2>2. ~At("swap") /\ iter \in Chain(tracked)
    BY <1>20, CondemnFacts
  <2>3. QED
    BY <1>20, <2>1, <2>2 DEF Condemn, Members, Listed, At, TypeOK
<1>21. CASE EndCollect(t)
  BY <1>0, <1>21 DEF EndCollect, Members, Listed, At, TypeOK, Goto, lists, lockVars
<1>22. QED
  BY <1>1, <1>2, <1>3, <1>4, <1>5, <1>6, <1>7, <1>8, <1>9, <1>10, <1>11,
     <1>12, <1>13, <1>14, <1>15, <1>16, <1>17, <1>18, <1>19, <1>20, <1>21 DEF
     Step, Advance, Call

(* A step keeps gc_prev of all successors. *)
LEMMA StepBack ==
  ASSUME TypeOK, TypeOK', Locks, Heads, Members, Back, First, IterIn,
         NEW t \in Threads, Step(t) \/ Advance(t) \/ Call(t)
  PROVE  Back'
<1> USE ConstantsOK DEF Back, Listed, TypeOK, Goto, Store, lists, lockVars
<1>0. /\ tracked \in Listed \cup {NULL} /\ pending \in Listed \cup {NULL}
      /\ \A x \in Listed : next[x] \in Listed \cup {NULL}
  BY ListFacts
<1>1. ASSUME NEW o \in Objects, Add(t, o)
      PROVE  Back'
  BY <1>0, <1>1 DEF Add, Caller
<1>2. CASE AddTry(t)
  BY <1>0, <1>2 DEF AddTry
<1>3. CASE AddLink(t)
  <2>1. TwoWay(tracked, next, prev)
    BY <1>3, TrackedTwoWay DEF AddLink, Locks, Inside, At
  <2>2. QED
    BY <1>0, <1>3, <2>1 DEF AddLink, Heads, Adding, TwoWay
<1>4. CASE AddHead(t)
  BY <1>0, <1>4 DEF AddHead, Heads, Adding, First, Locks, Inside, At
<1>5. CASE Spin(t, "addspin", "pendlink")
  BY <1>0, <1>5 DEF Spin
<1>6. CASE PendLink(t)
  <2>1. TwoWay(pending, next, prev)
    BY <1>6, PendingTwoWay DEF PendLink, Locks, Spinning, At
  <2>2. QED
    BY <1>0, <1>6, <2>1 DEF PendLink, Heads, Adding, TwoWay
<1>7. CASE PendHead(t)
  BY <1>0, <1>7 DEF PendHead, Caller, Heads, Adding, First, Locks, Spinning, At
<1>8. ASSUME NEW o \in Objects, Remove(t, o)
      PROVE  Back'
  BY <1>0, <1>8 DEF Remove, Caller
<1>9. CASE Lock(t)
  BY <1>0, <1>9 DEF Lock
<1>10. CASE Spin(t, "remspin", "remnext")
  BY <1>0, <1>10 DEF Spin
<1>11. CASE RemNext(t)
  <2>1. /\ TwoWay(tracked, next, prev) /\ TwoWay(pending, next, prev)
        /\ head[t] \in Listed /\ next[head[t]] # head[t] /\ ~At("remprev")
    BY <1>11, RemNextFacts DEF RemNext
  <2>2. \A x \in Listed : next[x] # NULL => prev[next[x]] = x
    BY <2>1 DEF At
  <2>3. QED
    BY <1>0, <1>11, <2>1, <2>2 DEF RemNext
<1>12. CASE RemPrev(t)
  BY <1>0, <1>12, ChainsRemPrev, RemPrevFacts DEF RemPrev, Heads
<1>13. CASE Spin(t, "publish", "splice")
  BY <1>0, <1>13 DEF Spin
<1>14. CASE Splice(t)
  <2>1. TwoWay(tracked, next, prev)
    BY <1>14, TrackedTwoWay DEF Splice, Locks, Inside, Spinning, At
  <2>2. QED
    BY <1>0, <1>14, <2>1 DEF Splice, Chain, Elements, TwoWay
<1>15. CASE Swap(t)
  BY <1>0, <1>15 DEF Swap
<1>16. CASE Unspin(t)
  BY <1>0, <1>16 DEF Unspin
<1>17. CASE Unlock(t)
  BY <1>0, <1>17 DEF Unlock
<1>18. CASE Collect(t)
  BY <1>0, <1>18 DEF Collect
<1>19. CASE Keep(t)
  BY <1>0, <1>19 DEF Keep
<1>20. CASE Condemn(t)
  BY <1>0, <1>20, CondemnFacts DEF Condemn, At, TwoWay
<1>21. CASE EndCollect(t)
  BY <1>0, <1>21 DEF EndCollect
<1>22. QED
  BY <1>1, <1>2, <1>3, <1>4, <1>5, <1>6, <1>7, <1>8, <1>9, <1>10, <1>11,
     <1>12, <1>13, <1>14, <1>15, <1>16, <1>17, <1>18, <1>19, <1>20, <1>21 DEF
     Step, Advance, Call

(* A step keeps gc_prev of the first objects. *)
LEMMA StepFirst ==
  ASSUME TypeOK, TypeOK', Locks, Heads, Members, Back, First, IterIn,
         NEW t \in Threads, Step(t) \/ Advance(t) \/ Call(t)
  PROVE  First'
<1> USE ConstantsOK DEF First, Listed, At, TypeOK, Goto, Store, lists, lockVars
<1>0. /\ tracked \in Chain(tracked) \cup {NULL} /\ pending \in Chain(pending) \cup {NULL}
      /\ tracked \in Listed \cup {NULL} /\ pending \in Listed \cup {NULL}
      /\ \A x \in Listed : next[x] \in Listed \cup {NULL}
  BY ListFacts
<1>1. ASSUME NEW o \in Objects, Add(t, o)
      PROVE  First'
  BY <1>0, <1>1 DEF Add, Caller
<1>2. CASE AddTry(t)
  BY <1>0, <1>2 DEF AddTry
<1>3. CASE AddLink(t)
  BY <1>0, <1>3 DEF AddLink, Heads, Adding, Locks, Inside, Members
<1>4. CASE AddHead(t)
  BY <1>0, <1>4 DEF AddHead, Heads, Adding, Locks, Inside
<1>5. CASE Spin(t, "addspin", "pendlink")
  BY <1>0, <1>5 DEF Spin
<1>6. CASE PendLink(t)
  BY <1>0, <1>6 DEF PendLink, Heads, Adding, Locks, Spinning, Members
<1>7. CASE PendHead(t)
  BY <1>0, <1>7 DEF PendHead, Caller, Heads, Adding, Locks, Spinning
<1>8. ASSUME NEW o \in Objects, Remove(t, o)
      PROVE  First'
  BY <1>0, <1>8 DEF Remove, Caller
<1>9. CASE Lock(t)
  BY <1>0, <1>9 DEF Lock
<1>10. CASE Spin(t, "remspin", "remnext")
  BY <1>0, <1>10 DEF Spin
<1>11. CASE RemNext(t)
  <2>1. /\ tracked # NULL => prev[tracked] = NULL
        /\ pending # NULL => prev[pending] = NULL
        /\ head[t] \in Listed /\ pc[t] = "remnext"
        /\ \A u \in Threads : pc[u] \notin {"addhead", "pendhead", "remprev", "swap"}
        /\ next[head[t]] # NULL => prev[next[head[t]]] = head[t]
    <3>1. head[t] \in Chain(tracked) \/ head[t] \in Chain(pending)
      BY <1>11, RemNextFacts DEF Members, RemNext
    <3>2. QED
      BY <1>11, <3>1, RemNextFacts DEF RemNext, TwoWay, Chain
  <2>2. next[head[t]] \notin {tracked, pending} \ {NULL}
    BY <1>0, <2>1
  <2>3. QED
    BY <1>0, <1>11, <2>1, <2>2 DEF RemNext
<1>12. CASE RemPrev(t)
  BY <1>0, <1>12, ChainsRemPrev, RemPrevFacts DEF RemPrev, Heads
<1>13. CASE Spin(t, "publish", "splice")
  BY <1>0, <1>13 DEF Spin
<1>14. CASE Splice(t)
  BY <1>0, <1>14 DEF Splice, Locks, Spinning, Members
<1>15. CASE Swap(t)
  BY <1>0, <1>15 DEF Swap, Locks, Inside, Spinning, Members
<1>16. CASE Unspin(t)
  BY <1>0, <1>16 DEF Unspin
<1>17. CASE Unlock(t)
  BY <1>0, <1>17 DEF Unlock
<1>18. CASE Collect(t)
  BY <1>0, <1>18 DEF Collect
<1>19. CASE Keep(t)
  BY <1>0, <1>19 DEF Keep
<1>20. CASE Condemn(t)
  <2>1. /\ iter \in Chain(tracked) /\ ~At("addhead") /\ ~At("swap")
        /\ tracked # NULL => prev[tracked] = NULL
        /\ next[iter] # NULL => prev[next[iter]] = iter
        /\ next[iter] \in Chain(tracked) \cup {NULL} /\ next[iter] # iter
        /\ prev[iter] = NULL <=> iter = tracked
    BY <1>20, CondemnFacts, ListFacts DEF TwoWay, Chain, Closed
  <2>2. pending # NULL => pending # next[iter] /\ pending # iter
    BY <1>0, <2>1 DEF Members
  <2>3. iter # NULL /\ iter \in Objects
    BY <1>20 DEF Condemn, Pointer
  <2>4. /\ tracked' = IF prev[iter] = NULL THEN next[iter] ELSE tracked
        /\ prev' = Store(prev, next[iter], prev[iter])
        /\ UNCHANGED <<pending, pc, head>>
    BY <1>20 DEF Condemn
  <2>5. tracked' # NULL => prev'[tracked'] = NULL
    BY <1>0, <2>1, <2>3, <2>4
  <2>6. pending # NULL => prev'[pending] = prev[pending]
    BY <1>0, <2>2, <2>4
  <2>7. QED
    BY <2>1, <2>4, <2>5, <2>6
<1>21. CASE EndCollect(t)
  BY <1>0, <1>21 DEF EndCollect
<1>22. QED
  BY <1>1, <1>2, <1>3, <1>4, <1>5, <1>6, <1>7, <1>8, <1>9, <1>10, <1>11,
     <1>12, <1>13, <1>14, <1>15, <1>16, <1>17, <1>18, <1>19, <1>20, <1>21 DEF
     Step, Advance, Call

(* A step keeps the position of the collector in the list. *)
LEMMA StepIterIn ==
  ASSUME TypeOK, TypeOK', Locks, Heads, Members, Back, First, IterIn,
         NEW t \in Threads, Step(t) \/ Advance(t) \/ Call(t)
  PROVE  IterIn'
<1> USE ConstantsOK DEF IterIn, Collecting, TypeOK, Goto, lists, lockVars
<1>0. UNCHANGED <<tracked, pending, next>> => UNCHANGED <<Chain(tracked), Chain(pending)>>
  BY DEF Chain
<1>1. ASSUME NEW o \in Objects, Add(t, o)
      PROVE  IterIn'
  BY <1>0, <1>1 DEF Add, Caller
<1>2. CASE AddTry(t)
  BY <1>0, <1>2 DEF AddTry
<1>3. CASE AddLink(t)
  BY <1>3, ChainsAdd DEF AddLink
<1>4. CASE AddHead(t)
  <2>1. Chain(tracked)' = {head[t]} \cup Chain(tracked)
    BY <1>4, ChainsAddHead
  <2>2. QED
    BY <1>4, <2>1 DEF AddHead
<1>5. CASE Spin(t, "addspin", "pendlink")
  BY <1>0, <1>5 DEF Spin
<1>6. CASE PendLink(t)
  BY <1>6, ChainsAdd DEF PendLink
<1>7. CASE PendHead(t)
  <2>1. Chain(tracked)' = Chain(tracked)
    BY <1>7, ChainsPendHead
  <2>2. iter' = iter /\ \A u \in Threads : Collecting(u)' => Collecting(u)
    BY <1>7 DEF PendHead, Caller
  <2>3. QED
    BY <2>1, <2>2
<1>8. ASSUME NEW o \in Objects, Remove(t, o)
      PROVE  IterIn'
  BY <1>0, <1>8 DEF Remove, Caller
<1>9. CASE Lock(t)
  <2>1. UNCHANGED Chain(tracked) /\ tracked \in Chain(tracked) \cup {NULL}
    BY <1>0, <1>9, ListFacts DEF Lock
  <2>2. CASE pc[t] = "collock"
    BY <1>9, <2>1, <2>2, Alone DEF Lock
  <2>3. CASE pc[t] = "remlock"
    <3>1. iter' = iter /\ collector' = collector /\ pc' = [pc EXCEPT ![t] = "remspin"]
      BY <1>9, <2>3 DEF Lock
    <3>2. QED
      BY <2>1, <2>3, <3>1
  <2>4. QED
    BY <1>9, <2>2, <2>3 DEF Lock
<1>10. CASE Spin(t, "remspin", "remnext")
  BY <1>0, <1>10 DEF Spin
<1>11. CASE RemNext(t)
  BY <1>0, <1>11 DEF RemNext
<1>12. CASE RemPrev(t)
  <2>1. Chain(tracked)' = Chain(tracked) \ {head[t]}
    BY <1>12, ChainsRemPrev
  <2>2. \A u \in Threads : Collecting(u) => u = t /\ head[t] # iter
    BY <1>12, Alone DEF RemPrev, Heads, Removing, Inside
  <2>3. QED
    BY <1>12, <2>1, <2>2 DEF RemPrev
<1>13. CASE Spin(t, "publish", "splice")
  BY <1>0, <1>13 DEF Spin
<1>14. CASE Splice(t)
  <2>1. CASE pending = NULL
    BY <1>0, <1>14, <2>1 DEF Splice
  <2>2. CASE pending # NULL
    BY <1>14, <2>2, ChainsSplice DEF Splice
  <2>3. QED
    BY <2>1, <2>2
<1>15. CASE Swap(t)
  <2>1. Chain(tracked) \subseteq Chain(pending)
    BY <1>15 DEF Swap, Members, At
  <2>2. Chain(tracked)' = Chain(pending)
    BY <1>15, ChainsSwap
  <2>3. iter' = iter /\ collector' = collector /\ pc' = [pc EXCEPT ![t] = "unspin"]
    BY <1>15 DEF Swap
  <2>4. \A u \in Threads : Collecting(u)' => Collecting(u)
    BY <1>15, <2>3 DEF Swap
  <2>5. QED
    BY <2>1, <2>2, <2>3, <2>4
<1>16. CASE Unspin(t)
  BY <1>0, <1>16 DEF Unspin
<1>17. CASE Unlock(t)
  BY <1>0, <1>17 DEF Unlock
<1>18. CASE Collect(t)
  BY <1>0, <1>18 DEF Collect
<1>19. CASE Keep(t)
  BY <1>0, <1>19, ListFacts DEF Keep, Closed
<1>20. CASE Condemn(t)
  BY <1>20, ChainsCondemn, CondemnFacts, ListFacts, Alone DEF Condemn, Closed
<1>21. CASE EndCollect(t)
  BY <1>0, <1>21 DEF EndCollect
<1>22. QED
  BY <1>1, <1>2, <1>3, <1>4, <1>5, <1>6, <1>7, <1>8, <1>9, <1>10, <1>11,
     <1>12, <1>13, <1>14, <1>15, <1>16, <1>17, <1>18, <1>19, <1>20, <1>21 DEF
     Step, Advance, Call

(***************************************************************************)
(* The theorems.                                                           *)
(***************************************************************************)

(* The inductive invariant. *)
THEOREM Invariance == Spec => []IInv
<1>1. Init => IInv
  <2> SUFFICES ASSUME Init PROVE IInv
    OBVIOUS
  <2> USE ConstantsOK DEF Init, TrackedLock!Init
  <2>1. TypeOK
    BY DEF TypeOK, Pointer
  <2>2. Chain(tracked) = {} /\ Chain(pending) = {}
    BY ElementsOfNull DEF Chain
  <2>3. Locks /\ Heads
    BY DEF Locks, Heads, Inside, Spinning, Collecting, Adding, Removing
  <2>4. Members /\ Back /\ First
    BY <2>2 DEF Members, Back, First, Listed, At
  <2>5. IterIn
    BY DEF IterIn
  <2>6. QED
    BY <2>1, <2>3, <2>4, <2>5 DEF IInv
<1>2. IInv /\ [Next]_vars => IInv'
  <2> SUFFICES ASSUME IInv, [Next]_vars PROVE IInv'
    OBVIOUS
  <2>1. ASSUME NEW t \in Threads, Step(t) \/ Advance(t) \/ Call(t)
        PROVE  IInv'
    <3>1. TypeOK'
      BY <2>1, StepTypes DEF IInv
    <3>2. Locks' /\ Heads'
      BY <2>1, StepLocks, StepHeads DEF IInv
    <3>3. Members' /\ Back' /\ First' /\ IterIn'
      BY <2>1, <3>1, StepMembers, StepBack, StepFirst, StepIterIn DEF IInv
    <3>4. QED
      BY <3>1, <3>2, <3>3 DEF IInv
  <2>2. CASE UNCHANGED vars
    BY <2>2 DEF vars, lockVars, lists, IInv, TypeOK, Locks, Heads, Members,
        Back, First,
                IterIn, Collecting, Listed, At, Chain
  <2>3. QED
    BY <2>1, <2>2 DEF Next
<1>3. QED
  BY <1>1, <1>2, PTL DEF Spec

(* Every link leads to an object or to nothing, and the lock of the tracked  *)
(* list is held at most twice by one thread.                                 *)
THEOREM TypeCorrect == Spec => []TypeOK
<1>1. IInv => TypeOK
  BY DEF IInv
<1>2. QED
  BY <1>1, Invariance, PTL

(* Between changes both lists are doubly linked, disjoint, and hold exactly  *)
(* the objects that were added and not yet removed.                          *)
THEOREM ListsCorrect == Spec => []ListsExact
<1>1. IInv => ListsExact
  <2> SUFFICES ASSUME IInv, Settled PROVE /\ DoublyLinked(tracked) /\ DoublyLinked(pending)
                                          /\ Chain(tracked) \cap Chain(pending) = {}
                                          /\ Chain(tracked) \cup Chain(pending) = Listed
    BY DEF ListsExact, Listed
  <2>1. ~At("addhead") /\ ~At("pendhead") /\ ~At("remprev") /\ ~At("swap")
    BY DEF Settled, At
  <2>2. TwoWay(tracked, next, prev) /\ TwoWay(pending, next, prev)
    BY <2>1, TrackedTwoWay, PendingTwoWay DEF IInv
  <2>3. QED
    BY <2>1, <2>2 DEF IInv, Members, TwoWay, DoublyLinked, Chain
<1>2. QED
  BY <1>1, Invariance, PTL

(* The collector's position is in the list of tracked objects, whatever      *)
(* destructors and other threads have added and removed meanwhile.           *)
THEOREM IterCorrect == Spec => []IterTracked
<1>1. IInv => IterTracked
  BY DEF IInv, TypeOK, IterIn, IterTracked, Collecting
<1>2. QED
  BY <1>1, Invariance, PTL
=============================================================================
