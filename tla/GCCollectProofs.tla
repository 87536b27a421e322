---------------------------- MODULE GCCollectProofs ----------------------------
(***************************************************************************)
(* Proofs about GCCollect for any number of objects and any heap.  The     *)
(* argument: a search keeps an account of what it has met (Explored), so   *)
(* that one that finds no more dependencies has found all objects in a     *)
(* cycle with the object in question; to compare the reference counts of   *)
(* these is to ask whether all references to them come from the cycle      *)
(* (Doomed); such an object is not reached by the program, and of objects  *)
(* that are not reached one is such an object.                             *)
(***************************************************************************)
EXTENDS GCCollect, Sums

(* Graphs: what each object refers to. *)
Graphs == [Objects -> SUBSET Objects]

(* What is reached from s. *)
Reached(G, s) ==
  {o \in Objects : \A c \in SUBSET Objects : s \subseteq c /\ (\A p \in c : G[p] \subseteq c) => o \in c}

(* The graph of objects without a head only, ... *)
PlainOnly(G, g) == [p \in Objects |-> IF p \in g THEN {} ELSE G[p] \ g]

(* ... and those that are reached from o through no others. *)
Via(G, g, o) == Reached(PlainOnly(G, g), G[o] \ g)

(* The tracked objects in a cycle with o. *)
InCycle(G, g, o) == {d \in g : d \in Reached(G, {o}) /\ o \in Reached(G, {d})}

----------------------------------------------------------------------------
(* Graphs. *)

(* A set is reached from itself, ... *)
LEMMA ReachSelf ==
  ASSUME NEW G \in Graphs, NEW s \in SUBSET Objects
  PROVE  s \subseteq Reached(G, s) /\ Reached(G, s) \subseteq Objects
BY DEF Reached

(* ... with what its members refer to, ... *)
LEMMA ReachNext ==
  ASSUME NEW G \in Graphs, NEW s \in SUBSET Objects, NEW p \in Reached(G, s)
  PROVE  G[p] \subseteq Reached(G, s)
<1> SUFFICES ASSUME NEW x \in G[p], NEW c \in SUBSET Objects, s \subseteq c,
                    \A q \in c : G[q] \subseteq c
             PROVE  x \in c
  <2>1. p \in Objects
    BY DEF Reached
  <2>2. G[p] \subseteq Objects
    BY <2>1 DEF Graphs
  <2> QED
    BY <2>2 DEF Reached
<1>1. p \in c
  BY DEF Reached
<1> QED
  BY <1>1

(* ... and is the least such set. *)
LEMMA ReachLeast ==
  ASSUME NEW G, NEW s, NEW c \in SUBSET Objects, s \subseteq c, \A p \in c : G[p] \subseteq c
  PROVE  Reached(G, s) \subseteq c
BY DEF Reached

(* To reach is transitive. *)
LEMMA ReachTrans ==
  ASSUME NEW G \in Graphs, NEW z \in Objects, NEW y \in Reached(G, {z}), NEW x \in Reached(G, {y})
  PROVE  x \in Reached(G, {z})
<1>1. Reached(G, {z}) \subseteq Objects
  BY ReachSelf
<1>2. \A p \in Reached(G, {z}) : G[p] \subseteq Reached(G, {z})
  BY ReachNext
<1>3. Reached(G, {y}) \subseteq Reached(G, {z})
  BY <1>1, <1>2, ReachLeast
<1> QED
  BY <1>3

(* What is reached and not among the first is referred to by what is reached. *)
LEMMA ReachBack ==
  ASSUME NEW G \in Graphs, NEW s \in SUBSET Objects, NEW x \in Reached(G, s), x \notin s
  PROVE  \E p \in Reached(G, s) : x \in G[p]
<1> SUFFICES ASSUME \A p \in Reached(G, s) : x \notin G[p] PROVE FALSE
  OBVIOUS
<1> DEFINE c == Reached(G, s) \ {x}
<1>1. c \in SUBSET Objects /\ s \subseteq c
  BY ReachSelf
<1>2. \A p \in c : G[p] \subseteq c
  BY ReachNext
<1>3. Reached(G, s) \subseteq c
  BY <1>1, <1>2, ReachLeast
<1> QED
  BY <1>3

(* A reference leads to what is reached. *)
LEMMA ReachEdge ==
  ASSUME NEW G \in Graphs, NEW p \in Objects, NEW x \in G[p]
  PROVE  x \in Objects /\ x \in Reached(G, {p})
<1>1. p \in Reached(G, {p})
  BY ReachSelf
<1>2. G[p] \subseteq Reached(G, {p})
  BY <1>1, ReachNext
<1> QED
  BY <1>2 DEF Graphs

(* The graph of objects without a head is a graph, ... *)
LEMMA PlainGraph ==
  ASSUME NEW G \in Graphs, NEW g
  PROVE  PlainOnly(G, g) \in Graphs
BY DEF PlainOnly, Graphs

(* ... in which one reaches objects without a head, ... *)
LEMMA ViaPlain ==
  ASSUME NEW G \in Graphs, NEW g \in SUBSET Objects, NEW o \in Objects
  PROVE  Via(G, g, o) \subseteq Objects \ g
<1> DEFINE H == PlainOnly(G, g)
           c == Objects \ g
<1>1. G[o] \ g \subseteq c
  BY DEF Graphs
<1>2. \A p \in c : H[p] \subseteq c
  BY DEF Graphs, PlainOnly
<1> HIDE DEF H
<1>3. Reached(H, G[o] \ g) \subseteq c
  BY <1>1, <1>2, ReachLeast
<1> QED
  BY <1>3 DEF Via, H

(* ... those the first object refers to, ... *)
LEMMA ViaFirst ==
  ASSUME NEW G \in Graphs, NEW g \in SUBSET Objects, NEW o \in Objects, NEW x \in G[o] \ g
  PROVE  x \in Via(G, g, o)
<1>1. G[o] \ g \in SUBSET Objects
  BY DEF Graphs
<1> QED
  BY <1>1, PlainGraph, ReachSelf DEF Via

(* ... and those that others among them refer to, ... *)
LEMMA ViaNext ==
  ASSUME NEW G \in Graphs, NEW g \in SUBSET Objects, NEW o \in Objects,
         NEW p \in Via(G, g, o), NEW x \in G[p] \ g
  PROVE  x \in Via(G, g, o)
<1> DEFINE H == PlainOnly(G, g)
<1>1. G[o] \ g \in SUBSET Objects
  BY DEF Graphs
<1>2. H \in Graphs
  BY PlainGraph
<1>3. p \in Objects \ g
  BY ViaPlain
<1>4. x \in H[p]
  BY <1>3 DEF PlainOnly
<1> HIDE DEF H
<1>5. H[p] \subseteq Reached(H, G[o] \ g)
  BY <1>1, <1>2, ReachNext DEF Via, H
<1> QED
  BY <1>4, <1>5 DEF Via, H

(* ... and no others. *)
LEMMA ViaBack ==
  ASSUME NEW G \in Graphs, NEW g \in SUBSET Objects, NEW o \in Objects, NEW x \in Via(G, g, o)
  PROVE  \E p \in Via(G, g, o) \cup {o} : x \in G[p]
<1> DEFINE H == PlainOnly(G, g)
<1>1. G[o] \ g \in SUBSET Objects
  BY DEF Graphs
<1>2. H \in Graphs
  BY PlainGraph
<1>3. CASE x \in G[o]
  BY <1>3
<1>4. CASE x \notin G[o]
  <2>1. PICK p \in Reached(H, G[o] \ g) : x \in H[p]
    BY <1>1, <1>2, <1>4, ReachBack DEF Via
  <2>2. p \in Objects /\ p \in Via(G, g, o)
    BY <2>1, ViaPlain DEF Via
  <2>3. x \in G[p]
    BY <2>1, <2>2 DEF PlainOnly
  <2> QED
    BY <2>2, <2>3
<1> QED
  BY <1>3, <1>4

----------------------------------------------------------------------------
(* Heaps: the graph G of the references, the objects g with a head, those    *)
(* alive, a, and the references from outside, x.                             *)

(* What is alive refers to what is alive, and has a reference itself. *)
Heap(G, g, a, x) ==
  /\ G \in Graphs /\ g \in SUBSET Objects /\ a \in SUBSET Objects /\ x \in [Objects -> Nat]
  /\ \A p \in Objects : G[p] \subseteq a
  /\ \A p \in Objects \ a : G[p] = {}
  /\ \A o \in a : x[o] > 0 \/ \E p \in a : o \in G[p]

(* Objects without a head are in no cycle by themselves, ... *)
NoPlainCycle(G, g) == \A s \in SUBSET (Objects \ g) : s # {} => \E o \in s : G[o] \cap s = {}

(* ... and have one reference, from an object or from outside. *)
Single(G, g, x) ==
  \A o \in Objects \ g, p \in Objects :
    o \in G[p] => x[o] = 0 /\ \A q \in Objects : o \in G[q] => p = q

(* What the program can reach. *)
Living(G, a, x) == Reached(G, {o \in a : x[o] > 0})

(* Every reference to what is in a cycle with o comes from there. *)
Doomed(G, g, a, x, o) ==
  \A d \in InCycle(G, g, o) : x[d] = 0 /\ \A p \in a : d \in G[p] => p \in Reached(G, {d})

(* The program reaches living objects only. *)
LEMMA LivingAlive ==
  ASSUME NEW G, NEW g, NEW a, NEW x, Heap(G, g, a, x)
  PROVE  Living(G, a, x) \subseteq a
BY ReachLeast DEF Heap, Living

(* A doomed object is not reached by the program. *)
LEMMA DoomedDead ==
  ASSUME NEW G, NEW g, NEW a, NEW x, Heap(G, g, a, x), Single(G, g, x), NEW o \in g,
         Doomed(G, g, a, x, o)
  PROVE  o \notin Living(G, a, x)
<1> DEFINE R == Reached(G, {o})
           cycle == {y \in R : o \in Reached(G, {y})}
           c == a \ cycle
           roots == {p \in a : x[p] > 0}
<1>0. G \in Graphs /\ g \in SUBSET Objects /\ o \in Objects /\ o \in R /\ R \subseteq Objects
  BY ReachSelf DEF Heap
<1>1. ASSUME NEW y \in cycle PROVE x[y] = 0 /\ \A p \in a : y \in G[p] => p \in R
  <2>1. CASE y \in g
    <3>1. y \in InCycle(G, g, o)
      BY <2>1 DEF InCycle
    <3>2. x[y] = 0 /\ \A p \in a : y \in G[p] => p \in Reached(G, {y})
      BY <3>1 DEF Doomed
    <3> QED
      BY <1>0, <3>2, ReachTrans
  <2>2. CASE y \notin g
    <3>1. PICK p \in R : y \in G[p]
      BY <1>0, <2>2, ReachBack
    <3>2. y \in Objects \ g /\ p \in Objects
      BY <1>0, <2>2, <3>1
    <3>3. x[y] = 0 /\ \A q \in Objects : y \in G[q] => p = q
      BY <3>1, <3>2 DEF Single
    <3> QED
      BY <3>1, <3>3 DEF Heap
  <2> QED
    BY <2>1, <2>2
<1>2. ASSUME NEW p \in c PROVE G[p] \subseteq c
  <2> SUFFICES ASSUME NEW y \in G[p], y \in cycle PROVE FALSE
    BY DEF Heap
  <2>1. p \in Objects /\ p \in R
    BY <1>1 DEF Heap
  <2>2. o \in Reached(G, {y}) /\ y \in Reached(G, {p})
    BY <1>0, <2>1, ReachEdge
  <2>3. o \in Reached(G, {p})
    BY <1>0, <2>1, <2>2, ReachTrans
  <2> QED
    BY <2>1, <2>3
<1>3. roots \subseteq c
  BY <1>1 DEF Heap
<1>4. c \in SUBSET Objects
  BY DEF Heap
<1>5. Living(G, a, x) \subseteq c
  <2> HIDE DEF c, roots
  <2>1. Reached(G, roots) \subseteq c
    BY <1>2, <1>3, <1>4, ReachLeast
  <2> QED
    BY <2>1 DEF Living, roots
<1>6. o \in cycle
  BY <1>0
<1> QED
  BY <1>5, <1>6

(* Among dead objects there is one that is reached only by what it reaches. *)
LEMMA Source ==
  ASSUME NEW G, NEW g, NEW a, NEW x, Heap(G, g, a, x), IsFiniteSet(Objects),
         a \ Living(G, a, x) # {}
  PROVE  \E o \in a \ Living(G, a, x) :
           \A p \in a : o \in Reached(G, {p}) => p \in Reached(G, {o})
<1> DEFINE D == a \ Living(G, a, x)
           S == {Objects \ Reached(G, {o}) : o \in D}
<1>0. G \in Graphs /\ D \subseteq Objects /\ a \subseteq Objects
  BY DEF Heap
<1>1. S \in SUBSET SUBSET Objects /\ S # {}
  OBVIOUS
<1>2. PICK T \in S : \A U \in S : U \subseteq T => U = T
  <2> HIDE DEF S
  <2> QED
    BY <1>1, SmallestSet
<1>3. PICK o \in D : T = Objects \ Reached(G, {o})
  BY <1>2
<1>4. ASSUME NEW p \in a, o \in Reached(G, {p}) PROVE p \in Reached(G, {o})
  <2>1. p \in D
    <3> SUFFICES ASSUME p \in Living(G, a, x) PROVE FALSE
      OBVIOUS
    <3>1. \A q \in Living(G, a, x) : G[q] \subseteq Living(G, a, x)
      BY <1>0, ReachNext DEF Living
    <3>2. Living(G, a, x) \in SUBSET Objects
      BY <1>0, LivingAlive
    <3>3. Reached(G, {p}) \subseteq Living(G, a, x)
      BY <3>1, <3>2, ReachLeast
    <3> QED
      BY <1>4, <3>3
  <2>2. Reached(G, {o}) \subseteq Reached(G, {p})
    <3>1. \A q \in Reached(G, {o}) : q \in Reached(G, {p})
      BY <1>0, <1>4, ReachTrans
    <3> QED
      BY <3>1
  <2>3. Objects \ Reached(G, {p}) \in S
    BY <2>1
  <2>4. Objects \ Reached(G, {p}) = T
    BY <1>2, <1>3, <2>2, <2>3
  <2>5. p \in Reached(G, {p}) /\ Reached(G, {p}) \subseteq Objects
    BY <1>0, ReachSelf
  <2> QED
    BY <1>3, <2>4, <2>5
<1> QED
  BY <1>4

(* Where there are dead objects with a head, one of them is doomed: in such a *)
(* cycle nothing has a reference from elsewhere, and not all are without head. *)
LEMMA DeadDoomed ==
  ASSUME NEW G, NEW g, NEW a, NEW x, Heap(G, g, a, x), NoPlainCycle(G, g),
         NEW o \in a \ Living(G, a, x),
         \A p \in a : o \in Reached(G, {p}) => p \in Reached(G, {o})
  PROVE  \E d \in g \cap a : Doomed(G, g, a, x, d)
<1> DEFINE L == Living(G, a, x)
           c == {y \in Reached(G, {o}) : o \in Reached(G, {y})}
<1>0. /\ G \in Graphs /\ a \subseteq Objects /\ g \subseteq Objects /\ o \in Objects
      /\ o \in Reached(G, {o}) /\ Reached(G, {o}) \subseteq Objects
  BY ReachSelf DEF Heap
<1>1. c \subseteq a
  <2>1. Reached(G, {o}) \subseteq a
    BY ReachLeast DEF Heap
  <2> QED
    BY <2>1
<1>2. ASSUME NEW y \in c PROVE y \notin L
  <2> SUFFICES ASSUME y \in L PROVE FALSE
    OBVIOUS
  <2>1. \A q \in L : G[q] \subseteq L
    BY <1>0, ReachNext DEF Living
  <2>2. L \in SUBSET Objects
    BY <1>0, LivingAlive
  <2>3. Reached(G, {y}) \subseteq L
    BY <2>1, <2>2, ReachLeast
  <2> QED
    BY <2>3
<1>3. ASSUME NEW y \in c PROVE x[y] = 0
  <2>1. y \in a /\ y \notin L
    BY <1>1, <1>2
  <2>2. {p \in a : x[p] > 0} \subseteq L
    BY <1>0, ReachSelf DEF Living
  <2> QED
    BY <2>1, <2>2 DEF Heap
<1>4. ASSUME NEW y \in c, NEW p \in a, y \in G[p] PROVE p \in c
  <2>1. y \in Reached(G, {p})
    BY <1>0, <1>4, ReachEdge
  <2>2. o \in Reached(G, {p})
    BY <1>0, <2>1, ReachTrans
  <2> QED
    BY <2>2
<1>5. c \cap g # {}
  <2> SUFFICES ASSUME c \cap g = {} PROVE FALSE
    OBVIOUS
  <2>1. c \in SUBSET (Objects \ g) /\ c # {}
    BY <1>0
  <2>2. PICK w \in c : G[w] \cap c = {}
    BY <2>1 DEF NoPlainCycle
  <2>3. PICK q \in c : w \in G[q]
    <3>1. w \in a /\ x[w] = 0
      BY <1>1, <1>3
    <3>2. PICK q \in a : w \in G[q]
      BY <3>1 DEF Heap
    <3> QED
      BY <1>4, <3>2
  <2> DEFINE T == {w} \cup {y \in Reached(G, {w}) : o \notin Reached(G, {y})}
  <2>4. w \in Objects /\ w \in Reached(G, {w}) /\ Reached(G, {w}) \subseteq Objects
    BY <1>0, ReachSelf
  <2>5. ASSUME NEW y \in T PROVE G[y] \subseteq T
    <3> SUFFICES ASSUME NEW z \in G[y], o \in Reached(G, {z}) PROVE z \in T
      <4>1. y \in Reached(G, {w})
        BY <2>4
      <4>2. G[y] \subseteq Reached(G, {w})
        BY <1>0, <2>4, <4>1, ReachNext
      <4> QED
        BY <4>2
    <3>1. y \in Objects
      BY <2>4
    <3>2. z \in Objects /\ z \in Reached(G, {y})
      BY <1>0, <3>1, ReachEdge
    <3>3. o \in Reached(G, {y})
      BY <1>0, <3>1, <3>2, ReachTrans
    <3>4. y = w
      BY <3>3
    <3>5. z \in Reached(G, {o})
      BY <1>0, <3>2, <3>4, ReachTrans
    <3>6. z \in c
      BY <3>5
    <3> QED
      BY <2>2, <3>4, <3>6
  <2>6. Reached(G, {w}) \subseteq T
    <3>1. T \in SUBSET Objects /\ {w} \subseteq T
      BY <2>4
    <3> HIDE DEF T
    <3> QED
      BY <2>5, <3>1, ReachLeast
  <2>7. q \in Reached(G, {w})
    BY <1>0, <2>4, ReachTrans
  <2>8. q = w
    BY <2>6, <2>7
  <2> QED
    BY <2>2, <2>3, <2>8
<1>6. PICK d \in c \cap g : TRUE
  BY <1>5
<1>7. Doomed(G, g, a, x, d)
  <2> SUFFICES ASSUME NEW e \in InCycle(G, g, d)
               PROVE  x[e] = 0 /\ \A p \in a : e \in G[p] => p \in Reached(G, {e})
    BY DEF Doomed
  <2>1. d \in Objects /\ e \in Reached(G, {d}) /\ d \in Reached(G, {e}) /\ e \in Objects
    BY <1>0 DEF InCycle
  <2>2. e \in c
    <3>1. e \in Reached(G, {o})
      BY <1>0, <2>1, ReachTrans
    <3>2. o \in Reached(G, {e})
      BY <1>0, <2>1, ReachTrans
    <3> QED
      BY <3>1, <3>2
  <2>3. \A p \in c : p \in Reached(G, {e})
    BY <1>0, <2>1, <2>2, ReachTrans
  <2> QED
    BY <1>3, <1>4, <2>2, <2>3
<1> QED
  BY <1>1, <1>6, <1>7

----------------------------------------------------------------------------
(* The calls of a search. *)

Frames == [ob : Objects, todo : Seq(Objects)]

(* The stack when the visit procedure has taken the next reference. *)
Skipped(s) == <<[Head(s) EXCEPT !.todo = Tail(@)]>> \o Tail(s)

(* The calls of a search from o: each was made from the one below it. *)
Calls(s, G, g, o) ==
  /\ s \in Seq(Frames)
  /\ \A i \in 1 .. Len(s) : s[i].ob \in Reached(G, {o}) /\ ToSet(s[i].todo) \subseteq G[s[i].ob]
  /\ \A i \in 1 .. Len(s), j \in 1 .. Len(s) : i <= j => s[i].ob \in Reached(G, {s[j].ob})
  /\ \A i \in 1 .. Len(s) : s[i].ob \notin g =>
       \E k \in 1 .. Len(s) :
         /\ i <= k /\ s[k].ob \in g /\ s[i].ob \in Via(G, g, s[k].ob)
         /\ \A j \in 1 .. Len(s) : i <= j /\ j < k => s[j].ob \notin g

(* The reference of p to x is still to be visited. *)
Pending(s, p, x) == \E i \in 1 .. Len(s) : s[i].ob = p /\ x \in ToSet(s[i].todo)

(* A sequence is its first element and the others. *)
LEMMA HeadTail ==
  ASSUME NEW S, NEW s \in Seq(S), s # <<>>
  PROVE  /\ Len(s) \in Nat \ {0} /\ s[1] = Head(s) /\ Head(s) \in S
         /\ Tail(s) \in Seq(S) /\ Len(Tail(s)) = Len(s) - 1
         /\ \A i \in 1 .. Len(s) - 1 : Tail(s)[i] = s[i + 1]
         /\ ToSet(s) = {Head(s)} \cup ToSet(Tail(s))
<1>1. /\ Len(s) \in Nat \ {0} /\ s[1] = Head(s) /\ Head(s) \in S
      /\ Tail(s) \in Seq(S) /\ Len(Tail(s)) = Len(s) - 1
      /\ \A i \in 1 .. Len(s) - 1 : Tail(s)[i] = s[i + 1]
  OBVIOUS
<1>2. DOMAIN s = 1 .. Len(s) /\ DOMAIN Tail(s) = 1 .. Len(s) - 1
  BY <1>1
<1>3. ToSet(s) \subseteq {Head(s)} \cup ToSet(Tail(s))
  <2> SUFFICES ASSUME NEW i \in 1 .. Len(s), i # 1 PROVE s[i] \in ToSet(Tail(s))
    BY <1>1, <1>2 DEF ToSet
  <2>1. i - 1 \in 1 .. Len(s) - 1 /\ s[i] = Tail(s)[i - 1]
    BY <1>1
  <2> QED
    BY <1>2, <2>1 DEF ToSet
<1>4. ToSet(Tail(s)) \subseteq ToSet(s)
  <2> SUFFICES ASSUME NEW i \in 1 .. Len(s) - 1 PROVE Tail(s)[i] \in ToSet(s)
    BY <1>2 DEF ToSet
  <2>1. i + 1 \in 1 .. Len(s) /\ Tail(s)[i] = s[i + 1]
    BY <1>1
  <2> QED
    BY <1>2, <2>1 DEF ToSet
<1>5. Head(s) \in ToSet(s)
  BY <1>1, <1>2 DEF ToSet
<1> QED
  BY <1>1, <1>3, <1>4, <1>5

(* An element in front of a sequence. *)
LEMMA InFront ==
  ASSUME NEW S, NEW s \in Seq(S), NEW f \in S
  PROVE  /\ <<f>> \o s \in Seq(S) /\ Len(<<f>> \o s) = Len(s) + 1 /\ Len(s) \in Nat
         /\ (<<f>> \o s)[1] = f
         /\ \A i \in 1 .. Len(s) : (<<f>> \o s)[i + 1] = s[i]
OBVIOUS

(* The stack after one reference was taken: the same calls. *)
LEMMA SkippedStack ==
  ASSUME NEW s \in Seq(Frames), s # <<>>, Head(s).todo # <<>>
  PROVE  /\ Skipped(s) \in Seq(Frames) /\ Len(Skipped(s)) = Len(s) /\ Skipped(s) # <<>>
         /\ \A i \in 1 .. Len(s) : Skipped(s)[i].ob = s[i].ob
         /\ Skipped(s)[1].todo = Tail(s[1].todo)
         /\ \A i \in 2 .. Len(s) : Skipped(s)[i] = s[i]
<1> DEFINE h == Head(s)
           f == [h EXCEPT !.todo = Tail(@)]
<1>1. /\ Len(s) \in Nat \ {0} /\ s[1] = h /\ h \in Frames
      /\ Tail(s) \in Seq(Frames) /\ Len(Tail(s)) = Len(s) - 1
      /\ \A i \in 1 .. Len(s) - 1 : Tail(s)[i] = s[i + 1]
  BY HeadTail
<1>2. h.todo \in Seq(Objects) /\ Tail(h.todo) \in Seq(Objects)
  BY <1>1 DEF Frames
<1>3. f \in Frames /\ f.ob = h.ob /\ f.todo = Tail(h.todo)
  BY <1>1, <1>2 DEF Frames
<1>4. Skipped(s) = <<f>> \o Tail(s)
  BY DEF Skipped
<1> HIDE DEF f, h
<1>5. /\ Skipped(s) \in Seq(Frames) /\ Len(Skipped(s)) = Len(Tail(s)) + 1
      /\ Skipped(s)[1] = f
      /\ \A i \in 1 .. Len(Tail(s)) : Skipped(s)[i + 1] = Tail(s)[i]
  BY <1>1, <1>3, <1>4, InFront
<1>6. ASSUME NEW i \in 2 .. Len(s) PROVE Skipped(s)[i] = s[i]
  <2>1. i - 1 \in 1 .. Len(s) - 1 /\ i - 1 + 1 = i
    BY <1>1
  <2> QED
    BY <1>1, <1>5, <2>1
<1>7. ASSUME NEW i \in 1 .. Len(s), i # 1 PROVE i \in 2 .. Len(s)
  BY <1>1, <1>7
<1> QED
  BY <1>1, <1>3, <1>5, <1>6, <1>7

(* A reference is taken, ... *)
LEMMA CallsSkip ==
  ASSUME NEW s, NEW G, NEW g, NEW o, Calls(s, G, g, o), s # <<>>, Head(s).todo # <<>>
  PROVE  Calls(Skipped(s), G, g, o)
<1>1. s \in Seq(Frames)
  BY DEF Calls
<1>2. /\ Skipped(s) \in Seq(Frames) /\ Len(Skipped(s)) = Len(s)
      /\ \A i \in 1 .. Len(s) : Skipped(s)[i].ob = s[i].ob
      /\ Skipped(s)[1].todo = Tail(s[1].todo)
      /\ \A i \in 2 .. Len(s) : Skipped(s)[i] = s[i]
  BY <1>1, SkippedStack
<1>3. \A i \in 1 .. Len(s) : ToSet(Skipped(s)[i].todo) \subseteq ToSet(s[i].todo)
  <2> TAKE i \in 1 .. Len(s)
  <2>1. CASE i = 1
    <3>1. s[1] = Head(s) /\ s[1] \in Frames
      BY <1>1, HeadTail
    <3>2. s[1].todo \in Seq(Objects) /\ s[1].todo # <<>>
      BY <3>1 DEF Frames
    <3>3. ToSet(Tail(s[1].todo)) \subseteq ToSet(s[1].todo)
      BY <3>2, HeadTail
    <3> QED
      BY <1>2, <2>1, <3>3
  <2>2. CASE i # 1
    <3>1. i \in 2 .. Len(s)
      BY <1>1, <2>2
    <3> QED
      BY <1>2, <3>1
  <2> QED
    BY <2>1, <2>2
<1> QED
  BY <1>1, <1>2, <1>3 DEF Calls

(* ... tp_visit of an object is called, ... *)
LEMMA CallsEnter ==
  ASSUME NEW s, NEW G \in Graphs, NEW g \in SUBSET Objects, NEW o \in Objects,
         Calls(s, G, g, o), s # <<>>,
         NEW f \in Frames, f.ob \in G[Head(s).ob], ToSet(f.todo) \subseteq G[f.ob]
  PROVE  Calls(<<f>> \o s, G, g, o)
<1> DEFINE u == <<f>> \o s
<1>1. s \in Seq(Frames)
  BY DEF Calls
<1>2. /\ u \in Seq(Frames) /\ Len(u) = Len(s) + 1 /\ Len(s) \in Nat /\ u[1] = f
      /\ \A i \in 1 .. Len(s) : u[i + 1] = s[i]
  BY <1>1, InFront
<1>3. Len(s) # 0 /\ 1 \in 1 .. Len(s) /\ s[1] = Head(s) /\ s[1] \in Frames
  BY <1>1, HeadTail
<1>4. \A i \in 1 .. Len(u) : i # 1 => i - 1 \in 1 .. Len(s) /\ u[i] = s[i - 1]
  <2> TAKE i \in 1 .. Len(u)
  <2> HAVE i # 1
  <2>1. i - 1 \in 1 .. Len(s) /\ (i - 1) + 1 = i
    BY <1>2
  <2> QED
    BY <1>2, <2>1
<1> HIDE DEF u
<1>5. f.ob \in Reached(G, {s[1].ob}) /\ f.ob \in Objects /\ s[1].ob \in Objects
  BY <1>3, ReachEdge DEF Frames
<1>6. \A j \in 1 .. Len(s) : f.ob \in Reached(G, {s[j].ob}) /\ s[j].ob \in Objects
  <2> TAKE j \in 1 .. Len(s)
  <2>1. s[1].ob \in Reached(G, {s[j].ob}) /\ s[j].ob \in Objects
    <3>1. 1 <= j
      OBVIOUS
    <3>2. s[1].ob \in Reached(G, {s[j].ob})
      BY <1>3, <3>1 DEF Calls
    <3>3. s[j] \in Frames
      BY <1>1
    <3> QED
      BY <3>2, <3>3 DEF Frames
  <2> QED
    BY <1>5, <2>1, ReachTrans
<1>7. f.ob \in Reached(G, {o})
  <2>1. s[1].ob \in Reached(G, {o})
    BY <1>3 DEF Calls
  <2> QED
    BY <1>5, <2>1, ReachTrans
<1>8. \A i \in 1 .. Len(u) : u[i].ob \in Reached(G, {o}) /\ ToSet(u[i].todo) \subseteq G[u[i].ob]
  BY <1>2, <1>4, <1>7 DEF Calls
<1>9. ASSUME NEW i \in 1 .. Len(u), NEW j \in 1 .. Len(u), i <= j
      PROVE  u[i].ob \in Reached(G, {u[j].ob})
  <2>1. CASE j = 1
    <3>1. i = 1
      BY <1>9, <2>1
    <3>2. f.ob \in Reached(G, {f.ob})
      BY <1>5, ReachSelf
    <3> QED
      BY <1>2, <2>1, <3>1, <3>2
  <2>2. CASE i = 1 /\ j # 1
    BY <1>2, <1>4, <1>6, <2>2
  <2>3. CASE i # 1
    <3>1. j # 1 /\ i - 1 <= j - 1
      BY <1>2, <1>9, <2>3
    <3> QED
      BY <1>4, <2>3, <3>1 DEF Calls
  <2> QED
    BY <2>1, <2>2, <2>3
<1>10. ASSUME NEW i \in 1 .. Len(u), u[i].ob \notin g
       PROVE  \E k \in 1 .. Len(u) :
                /\ i <= k /\ u[k].ob \in g /\ u[i].ob \in Via(G, g, u[k].ob)
                /\ \A j \in 1 .. Len(u) : i <= j /\ j < k => u[j].ob \notin g
  <2>1. ASSUME NEW k \in 1 .. Len(s), s[k].ob \in g, u[i].ob \in Via(G, g, s[k].ob), i <= k + 1,
               \A j \in 1 .. Len(s) : i <= j + 1 /\ j < k => s[j].ob \notin g
        PROVE  \E l \in 1 .. Len(u) :
                 /\ i <= l /\ u[l].ob \in g /\ u[i].ob \in Via(G, g, u[l].ob)
                 /\ \A j \in 1 .. Len(u) : i <= j /\ j < l => u[j].ob \notin g
    <3>1. k + 1 \in 1 .. Len(u) /\ u[k + 1] = s[k]
      BY <1>2
    <3>2. \A j \in 1 .. Len(u) : i <= j /\ j < k + 1 => u[j].ob \notin g
      <4> SUFFICES ASSUME NEW j \in 1 .. Len(u), i <= j, j < k + 1 PROVE u[j].ob \notin g
        OBVIOUS
      <4>1. CASE j = 1
        <5>1. i = 1
          BY <4>1
        <5> QED
          BY <1>10, <4>1, <5>1
      <4>2. CASE j # 1
        <5>1. j - 1 \in 1 .. Len(s) /\ u[j] = s[j - 1]
          BY <1>4, <4>2
        <5>2. i <= (j - 1) + 1 /\ j - 1 < k
          BY <1>2
        <5> QED
          BY <2>1, <5>1, <5>2
      <4> QED
        BY <4>1, <4>2
    <3> QED
      BY <2>1, <3>1, <3>2
  <2>2. CASE i = 1
    <3>1. f.ob \in G[s[1].ob] \ g
      BY <1>2, <1>3, <1>10, <2>2
    <3>2. CASE s[1].ob \in g
      <4>1. f.ob \in Via(G, g, s[1].ob)
        BY <1>5, <3>1, ViaFirst
      <4>2. \A j \in 1 .. Len(s) : ~(j < 1)
        OBVIOUS
      <4> QED
        BY <1>2, <1>3, <2>1, <2>2, <3>2, <4>1, <4>2
    <3>3. CASE s[1].ob \notin g
      <4>1. PICK k \in 1 .. Len(s) :
              /\ 1 <= k /\ s[k].ob \in g /\ s[1].ob \in Via(G, g, s[k].ob)
              /\ \A j \in 1 .. Len(s) : 1 <= j /\ j < k => s[j].ob \notin g
        BY <1>3, <3>3 DEF Calls
      <4>2. f.ob \in Via(G, g, s[k].ob)
        BY <1>6, <3>1, <4>1, ViaNext
      <4>3. i <= k + 1 /\ u[i].ob = f.ob
        BY <1>2, <2>2
      <4>4. \A j \in 1 .. Len(s) : i <= j + 1 /\ j < k => s[j].ob \notin g
        BY <4>1
      <4> QED
        BY <2>1, <4>1, <4>2, <4>3, <4>4
    <3> QED
      BY <3>2, <3>3
  <2>3. CASE i # 1
    <3>1. i - 1 \in 1 .. Len(s) /\ u[i] = s[i - 1]
      BY <1>4, <2>3
    <3>2. PICK k \in 1 .. Len(s) :
            /\ i - 1 <= k /\ s[k].ob \in g /\ s[i - 1].ob \in Via(G, g, s[k].ob)
            /\ \A j \in 1 .. Len(s) : i - 1 <= j /\ j < k => s[j].ob \notin g
      BY <1>10, <3>1 DEF Calls
    <3>3. i <= k + 1
      BY <1>2, <3>2
    <3>4. \A j \in 1 .. Len(s) : i <= j + 1 /\ j < k => s[j].ob \notin g
      <4> SUFFICES ASSUME NEW j \in 1 .. Len(s), i <= j + 1, j < k PROVE s[j].ob \notin g
        OBVIOUS
      <4>1. i - 1 <= j
        BY <1>2
      <4> QED
        BY <3>2, <4>1
    <3> QED
      BY <2>1, <3>1, <3>2, <3>3, <3>4
  <2> QED
    BY <2>2, <2>3
<1> QED
  BY <1>2, <1>8, <1>9, <1>10 DEF Calls, u

(* ... and returns. *)
LEMMA CallsReturn ==
  ASSUME NEW s, NEW G, NEW g, NEW o, Calls(s, G, g, o), s # <<>>
  PROVE  Calls(Tail(s), G, g, o)
<1> DEFINE u == Tail(s)
<1>1. s \in Seq(Frames)
  BY DEF Calls
<1>2. /\ u \in Seq(Frames) /\ Len(u) = Len(s) - 1 /\ Len(s) \in Nat \ {0}
      /\ \A i \in 1 .. Len(s) - 1 : u[i] = s[i + 1]
  BY <1>1, HeadTail
<1>3. \A i \in 1 .. Len(u) : i + 1 \in 1 .. Len(s) /\ u[i] = s[i + 1]
  BY <1>2
<1> HIDE DEF u
<1>4. \A i \in 1 .. Len(u) : u[i].ob \in Reached(G, {o}) /\ ToSet(u[i].todo) \subseteq G[u[i].ob]
  BY <1>3 DEF Calls
<1>5. ASSUME NEW i \in 1 .. Len(u), NEW j \in 1 .. Len(u), i <= j
      PROVE  u[i].ob \in Reached(G, {u[j].ob})
  <2>1. i + 1 <= j + 1
    BY <1>2, <1>5
  <2> QED
    BY <1>3, <2>1 DEF Calls
<1>6. ASSUME NEW i \in 1 .. Len(u), u[i].ob \notin g
      PROVE  \E k \in 1 .. Len(u) :
               /\ i <= k /\ u[k].ob \in g /\ u[i].ob \in Via(G, g, u[k].ob)
               /\ \A j \in 1 .. Len(u) : i <= j /\ j < k => u[j].ob \notin g
  <2>1. PICK k \in 1 .. Len(s) :
          /\ i + 1 <= k /\ s[k].ob \in g /\ s[i + 1].ob \in Via(G, g, s[k].ob)
          /\ \A j \in 1 .. Len(s) : i + 1 <= j /\ j < k => s[j].ob \notin g
    BY <1>3, <1>6 DEF Calls
  <2>2. PICK l \in 1 .. Len(u) : k = l + 1
    <3>1. k - 1 \in 1 .. Len(u) /\ k = (k - 1) + 1
      BY <1>2, <2>1
    <3> QED
      BY <3>1
  <2>3. i <= l /\ u[l] = s[k]
    BY <1>2, <1>3, <2>1, <2>2
  <2>4. \A j \in 1 .. Len(u) : i <= j /\ j < l => u[j].ob \notin g
    <3> SUFFICES ASSUME NEW j \in 1 .. Len(u), i <= j, j < l PROVE u[j].ob \notin g
      OBVIOUS
    <3>1. i + 1 <= j + 1 /\ j + 1 < k
      BY <1>2, <2>2
    <3> QED
      BY <1>3, <2>1, <3>1
  <2> QED
    BY <1>3, <2>1, <2>3, <2>4
<1> QED
  BY <1>2, <1>4, <1>5, <1>6 DEF Calls, u

(* An object is known to lead to one of the dependencies d: it is one, or the *)
(* calls from one to it were for objects without a head only.                 *)
Marked(G, g, d, p) == p \in d \/ \E e \in d : p \in Via(G, g, e)

(* Each reference of an object that was met is still to be visited, or leads *)
(* to one that was met, and if that is a dependency the object is marked.    *)
Explored(s, G, g, known, d, new) ==
  \A p \in known : \A x \in G[p] :
    \/ Pending(s, p, x)
    \/ x \in known /\ (x \in d /\ ~new => Marked(G, g, d, p))

(* What is pending stays so but for the reference that was taken, ... *)
LEMMA PendingSkip ==
  ASSUME NEW s \in Seq(Frames), s # <<>>, Head(s).todo # <<>>, NEW p, NEW x, Pending(s, p, x)
  PROVE  Pending(Skipped(s), p, x) \/ (p = Head(s).ob /\ x = Head(Head(s).todo))
<1> DEFINE u == Skipped(s)
<1>1. /\ Len(u) = Len(s) /\ \A i \in 1 .. Len(s) : u[i].ob = s[i].ob
      /\ u[1].todo = Tail(s[1].todo) /\ \A i \in 2 .. Len(s) : u[i] = s[i]
  BY SkippedStack
<1>2. PICK i \in 1 .. Len(s) : s[i].ob = p /\ x \in ToSet(s[i].todo)
  BY DEF Pending
<1>3. s[1] = Head(s) /\ Len(s) \in Nat \ {0} /\ Head(s) \in Frames
  BY HeadTail
<1>4. CASE i = 1
  <2>1. Head(s).todo \in Seq(Objects)
    BY <1>3 DEF Frames
  <2>2. ToSet(Head(s).todo) = {Head(Head(s).todo)} \cup ToSet(Tail(Head(s).todo))
    BY <2>1, HeadTail
  <2>3. CASE x \in ToSet(Tail(s[1].todo))
    <3>1. u[1].ob = p /\ x \in ToSet(u[1].todo) /\ 1 \in 1 .. Len(u)
      BY <1>1, <1>2, <1>3, <1>4, <2>3
    <3> QED
      BY <3>1 DEF Pending
  <2> QED
    BY <1>2, <1>3, <1>4, <2>2, <2>3
<1>5. CASE i # 1
  <2>1. i \in 2 .. Len(s)
    BY <1>3, <1>5
  <2>2. u[i].ob = p /\ x \in ToSet(u[i].todo) /\ i \in 1 .. Len(u)
    BY <1>1, <1>2, <2>1
  <2> QED
    BY <2>2 DEF Pending
<1> QED
  BY <1>4, <1>5

(* ... and another call adds its own. *)
LEMMA PendingEnter ==
  ASSUME NEW s \in Seq(Frames), NEW f \in Frames
  PROVE  /\ \A p, x : Pending(s, p, x) => Pending(<<f>> \o s, p, x)
         /\ \A x \in ToSet(f.todo) : Pending(<<f>> \o s, f.ob, x)
<1> DEFINE u == <<f>> \o s
<1>1. /\ Len(u) = Len(s) + 1 /\ Len(s) \in Nat /\ u[1] = f
      /\ \A i \in 1 .. Len(s) : u[i + 1] = s[i]
  BY InFront
<1> HIDE DEF u
<1>2. ASSUME NEW p, NEW x, Pending(s, p, x) PROVE Pending(u, p, x)
  <2>1. PICK i \in 1 .. Len(s) : s[i].ob = p /\ x \in ToSet(s[i].todo)
    BY <1>2 DEF Pending
  <2>2. i + 1 \in 1 .. Len(u) /\ u[i + 1] = s[i]
    BY <1>1
  <2> QED
    BY <2>1, <2>2 DEF Pending
<1>3. 1 \in 1 .. Len(u)
  BY <1>1
<1> QED
  BY <1>1, <1>2, <1>3 DEF Pending, u

(* A call returns when it has visited everything. *)
LEMMA PendingReturn ==
  ASSUME NEW s \in Seq(Frames), s # <<>>, Head(s).todo = <<>>, NEW p, NEW x, Pending(s, p, x)
  PROVE  Pending(Tail(s), p, x)
<1>1. /\ Len(s) \in Nat \ {0} /\ s[1] = Head(s) /\ Len(Tail(s)) = Len(s) - 1
      /\ \A i \in 1 .. Len(s) - 1 : Tail(s)[i] = s[i + 1]
  BY HeadTail
<1>2. PICK i \in 1 .. Len(s) : s[i].ob = p /\ x \in ToSet(s[i].todo)
  BY DEF Pending
<1>3. ToSet(<<>>) = {}
  BY DEF ToSet
<1>4. i # 1
  BY <1>1, <1>2, <1>3
<1>5. PICK j \in 1 .. Len(s) - 1 : i = j + 1
  <2>1. i - 1 \in 1 .. Len(s) - 1 /\ i = (i - 1) + 1
    BY <1>1, <1>4
  <2> QED
    BY <2>1
<1>6. j \in 1 .. Len(Tail(s)) /\ Tail(s)[j] = s[i]
  BY <1>1, <1>5
<1> QED
  BY <1>2, <1>6 DEF Pending

(* What was met after a reference to x was visited: either the search has    *)
(* found new dependencies, or the object x was visited from is marked if x   *)
(* is a dependency.                                                          *)
LEMMA ExploredVisit ==
  ASSUME NEW s \in Seq(Frames), s # <<>>, Head(s).todo # <<>>,
         NEW G, NEW g, NEW known, NEW d, NEW c, Explored(s, G, g, known, d, c),
         NEW x, x = Head(Head(s).todo),
         NEW f \in Frames, f.ob = x, ToSet(f.todo) = G[x],
         NEW e, NEW n, n \/ (e = d /\ ~c /\ (x \in d => Marked(G, g, d, Head(s).ob))),
         NEW t, IF x \in known THEN t = Skipped(s) ELSE t = <<f>> \o Skipped(s)
  PROVE  Explored(t, G, g, known \cup {x}, e, n)
<1> SUFFICES ASSUME NEW p \in known \cup {x}, NEW y \in G[p]
             PROVE  \/ Pending(t, p, y)
                    \/ y \in known \cup {x} /\ (y \in e /\ ~n => Marked(G, g, e, p))
  BY DEF Explored
<1>1. Skipped(s) \in Seq(Frames)
  BY SkippedStack
<1>2. CASE p \notin known
  <2>1. p = x /\ t = <<f>> \o Skipped(s)
    BY <1>2
  <2>2. y \in ToSet(f.todo)
    BY <2>1
  <2>3. Pending(<<f>> \o Skipped(s), f.ob, y)
    BY <1>1, <2>2, PendingEnter
  <2> QED
    BY <2>1, <2>3
<1>3. CASE p \in known /\ Pending(s, p, y)
  <2>1. CASE Pending(Skipped(s), p, y)
    <3>1. Pending(<<f>> \o Skipped(s), p, y)
      BY <1>1, <2>1, PendingEnter
    <3> QED
      BY <2>1, <3>1
  <2>2. CASE p = Head(s).ob /\ y = x
    <3>1. y \in e /\ ~n => Marked(G, g, e, p)
      BY <2>2
    <3> QED
      BY <2>2, <3>1
  <2> QED
    BY <1>3, <2>1, <2>2, PendingSkip
<1>4. CASE p \in known /\ ~Pending(s, p, y)
  <2>1. y \in known /\ (y \in d /\ ~c => Marked(G, g, d, p))
    BY <1>4 DEF Explored
  <2>2. y \in e /\ ~n => Marked(G, g, e, p)
    BY <2>1
  <2> QED
    BY <2>1, <2>2
<1> QED
  BY <1>2, <1>3, <1>4

(* The calls up to the first that is a dependency; if none of these has a    *)
(* head, the object of the last call is marked.                              *)
LEMMA TopMarked ==
  ASSUME NEW s, NEW G, NEW g, NEW o, Calls(s, G, g, o), s # <<>>,
         NEW d \in SUBSET g,
         \A i \in 1 .. Len(s) : s[i].ob \in g => \E j \in 1 .. i : s[j].ob \in d
  PROVE  Marked(G, g, d, Head(s).ob)
<1>1. Len(s) \in Nat \ {0} /\ s[1] = Head(s) /\ 1 \in 1 .. Len(s)
  BY HeadTail DEF Calls
<1>2. CASE s[1].ob \in g
  <2>1. \E j \in 1 .. 1 : s[j].ob \in d
    BY <1>1, <1>2
  <2> QED
    BY <1>1, <2>1 DEF Marked
<1>3. CASE s[1].ob \notin g
  <2>1. PICK k \in 1 .. Len(s) :
          /\ 1 <= k /\ s[k].ob \in g /\ s[1].ob \in Via(G, g, s[k].ob)
          /\ \A j \in 1 .. Len(s) : 1 <= j /\ j < k => s[j].ob \notin g
    BY <1>1, <1>3 DEF Calls
  <2>2. PICK j \in 1 .. k : s[j].ob \in d
    BY <2>1
  <2>3. j = k
    <3>1. j \in 1 .. Len(s) /\ 1 <= j /\ (j < k \/ j = k)
      BY <1>1, <2>1, <2>2
    <3> QED
      BY <2>1, <2>2, <3>1
  <2> QED
    BY <1>1, <2>1, <2>2, <2>3 DEF Marked
<1> QED
  BY <1>2, <1>3

(* All calls that led to a dependency are for objects in a cycle with o. *)
LEMMA ChainInCycle ==
  ASSUME NEW s, NEW G \in Graphs, NEW g \in SUBSET Objects, NEW o \in Objects,
         Calls(s, G, g, o), s # <<>>,
         NEW x \in G[Head(s).ob], x \in InCycle(G, g, o),
         NEW i \in 1 .. Len(s), s[i].ob \in g
  PROVE  s[i].ob \in InCycle(G, g, o)
<1>1. Len(s) \in Nat \ {0} /\ s[1] = Head(s) /\ 1 \in 1 .. Len(s) /\ 1 <= i
  BY HeadTail DEF Calls
<1>2. s[i].ob \in Reached(G, {o}) /\ s[1].ob \in Reached(G, {s[i].ob})
  BY <1>1 DEF Calls
<1>3. s[i].ob \in Objects /\ Reached(G, {s[i].ob}) \subseteq Objects
  BY ReachSelf
<1>4. x \in Objects /\ x \in Reached(G, {s[1].ob})
  BY <1>1, <1>2, <1>3, ReachEdge
<1>5. x \in Reached(G, {s[i].ob})
  BY <1>2, <1>3, <1>4, ReachTrans
<1>6. o \in Reached(G, {x})
  BY DEF InCycle
<1>7. o \in Reached(G, {s[i].ob})
  BY <1>3, <1>5, <1>6, ReachTrans
<1> QED
  BY <1>2, <1>7 DEF InCycle

(* A search that ends without another dependency has found all of them. *)
LEMMA SearchExact ==
  ASSUME NEW G \in Graphs, NEW g \in SUBSET Objects, NEW x, Single(G, g, x),
         NEW known \in SUBSET Objects, NEW o \in known, NEW d, o \in d, d \subseteq InCycle(G, g, o),
         Explored(<<>>, G, g, known, d, FALSE)
  PROVE  d = InCycle(G, g, o)
<1> SUFFICES ASSUME NEW y \in InCycle(G, g, o), y \notin d PROVE FALSE
  OBVIOUS
<1> DEFINE c == {p \in known : ~Marked(G, g, d, p)}
<1>0. d \subseteq g
  BY DEF InCycle
<1>1. ASSUME NEW p \in known, NEW z \in G[p]
      PROVE  z \in known /\ (z \in d => Marked(G, g, d, p))
  <2>1. ~Pending(<<>>, p, z)
    BY DEF Pending
  <2> QED
    BY <2>1 DEF Explored
<1>2. Reached(G, {o}) \subseteq known
  <2>1. \A p \in known : G[p] \subseteq known
    BY <1>1
  <2> QED
    BY <2>1, ReachLeast
<1>3. ASSUME NEW p \in c PROVE G[p] \subseteq c
  <2> SUFFICES ASSUME NEW z \in G[p], Marked(G, g, d, z) PROVE FALSE
    BY <1>1
  <2>1. z \notin d
    BY <1>1
  <2>2. PICK e \in d : z \in Via(G, g, e)
    BY <2>1 DEF Marked
  <2>3. e \in Objects /\ z \in Objects \ g /\ p \in Objects
    BY <1>0, <2>2, ViaPlain
  <2>4. PICK q \in Via(G, g, e) \cup {e} : z \in G[q]
    BY <2>2, <2>3, ViaBack
  <2>5. q \in Objects
    BY <2>3, <2>4, ViaPlain
  <2>6. p = q
    BY <2>3, <2>4, <2>5 DEF Single
  <2> QED
    BY <2>4, <2>6 DEF Marked
<1>4. y \in c
  <2>1. y \in g /\ y \in known
    BY <1>2 DEF InCycle
  <2>2. ~Marked(G, g, d, y)
    <3>1. \A e \in d : y \notin Via(G, g, e)
      BY <1>0, <2>1, ViaPlain
    <3> QED
      BY <3>1 DEF Marked
  <2> QED
    BY <2>1, <2>2
<1>5. Reached(G, {y}) \subseteq c
  <2>1. c \in SUBSET Objects /\ {y} \subseteq c
    BY <1>4
  <2> HIDE DEF c
  <2> QED
    BY <1>3, <2>1, ReachLeast
<1>6. o \in c
  BY <1>5 DEF InCycle
<1> QED
  BY <1>6 DEF Marked

----------------------------------------------------------------------------
(* The heap of a state. *)

Edges == [p \in Objects |-> ToSet(refs[p])]

HeapTypes ==
  /\ gc \in SUBSET Objects /\ alive \in SUBSET Objects /\ extern \in [Objects -> Nat]
  /\ refs \in [Objects -> Seq(Objects)] /\ \A o \in Objects : Len(refs[o]) <= MaxVisits

HeapOK ==
  /\ HeapTypes
  /\ Heap(Edges, gc, alive, extern)
  /\ NoPlainCycle(Edges, gc)
  /\ SharedPlain \/ Single(Edges, gc, extern)

(* There are finitely many objects. *)
LEMMA FiniteObjects == IsFiniteSet(Objects)
<1>1. Order \in Seq(Objects)
  BY ConstantsOK
<1>2. IsFiniteSet(1 .. Len(Order)) /\ DOMAIN Order = 1 .. Len(Order)
  BY <1>1, FS_Interval
<1> DEFINE f == [i \in 1 .. Len(Order) |-> Order[i]]
<1>3. f \in Surjection(1 .. Len(Order), Objects)
  <2>1. f \in [1 .. Len(Order) -> Objects]
    BY <1>1
  <2>2. \A o \in Objects : \E i \in 1 .. Len(Order) : f[i] = o
    BY <1>2 DEF Objects, ToSet
  <2> HIDE DEF f
  <2> QED
    BY <2>1, <2>2 DEF Surjection
<1> HIDE DEF f
<1> QED
  BY <1>2, <1>3, FS_Surjection

(* The elements of a sequence of objects. *)
LEMMA EdgesAre ==
  ASSUME HeapTypes
  PROVE  /\ Edges \in Graphs
         /\ \A p \in Objects : Edges[p] = ToSet(refs[p])
         /\ \A p \in Objects : \A o : o \in Edges[p] <=> \E i \in 1 .. MaxVisits : i \in DOMAIN refs[p] /\ refs[p][i] = o
<1>1. ASSUME NEW p \in Objects
      PROVE  /\ ToSet(refs[p]) \subseteq Objects
             /\ \A o : o \in ToSet(refs[p]) <=>
                         \E i \in 1 .. MaxVisits : i \in DOMAIN refs[p] /\ refs[p][i] = o
  <2>1. refs[p] \in Seq(Objects) /\ Len(refs[p]) <= MaxVisits /\ MaxVisits \in Nat
    BY ConstantsOK DEF HeapTypes
  <2>2. DOMAIN refs[p] = 1 .. Len(refs[p]) /\ \A i \in 1 .. Len(refs[p]) : refs[p][i] \in Objects
    BY <2>1
  <2>3. \A i \in DOMAIN refs[p] : i \in 1 .. MaxVisits
    BY <2>1, <2>2
  <2> QED
    BY <2>2, <2>3 DEF ToSet
<1>2. Edges \in Graphs
  BY <1>1 DEF Edges, Graphs
<1> QED
  BY <1>1, <1>2 DEF Edges

(* Reachability in the model and in the graph. *)
LEMMA ReachableIs ==
  ASSUME NEW s
  PROVE  Reachable(s) = Reached(Edges, s)
<1>1. \A c \in SUBSET Objects : \A p \in c : Edges[p] = ToSet(refs[p])
  BY DEF Edges
<1> QED
  BY <1>1 DEF Reachable, Reached

(* References are counted. *)
LEMMA Counted ==
  ASSUME HeapTypes, NEW A \in SUBSET Objects, NEW o
  PROVE  /\ IsFiniteSet(References(A, o)) /\ RefsFrom(A, o) \in Nat
         /\ RefsFrom(A, o) > 0 <=> \E p \in A : o \in Edges[p]
         /\ RefsFrom(A, o) = 1 => \A p, q \in A : o \in Edges[p] /\ o \in Edges[q] => p = q
<1> DEFINE R == References(A, o)
<1>1. IsFiniteSet(R)
  <2>1. IsFiniteSet(A) /\ IsFiniteSet(1 .. MaxVisits)
    BY FiniteObjects, ConstantsOK, FS_Subset, FS_Interval
  <2>2. IsFiniteSet(A \X (1 .. MaxVisits))
    BY <2>1, FS_Product
  <2>3. R \in SUBSET (A \X (1 .. MaxVisits))
    BY DEF References
  <2> QED
    BY <2>2, <2>3, FS_Subset
<1>2. \A p \in A : o \in Edges[p] <=> \E r \in R : r[1] = p
  <2> TAKE p \in A
  <2>1. o \in Edges[p] <=> \E i \in 1 .. MaxVisits : i \in DOMAIN refs[p] /\ refs[p][i] = o
    BY EdgesAre
  <2>2. ASSUME NEW i \in 1 .. MaxVisits, i \in DOMAIN refs[p], refs[p][i] = o PROVE \E r \in R : r[1] = p
    <3>1. <<p, i>> \in R
      BY <2>2 DEF References
    <3> QED
      BY <3>1
  <2>3. ASSUME NEW r \in R, r[1] = p
        PROVE  r[2] \in 1 .. MaxVisits /\ r[2] \in DOMAIN refs[p] /\ refs[p][r[2]] = o
    BY <2>3 DEF References
  <2> QED
    BY <2>1, <2>2, <2>3
<1>3. \A r \in R : r[1] \in A
  BY DEF References
<1>4. Cardinality(R) \in Nat /\ (Cardinality(R) = 0 <=> R = {})
  BY <1>1, FS_CardinalityType, FS_EmptySet
<1>5. Cardinality(R) > 0 <=> \E p \in A : o \in Edges[p]
  BY <1>2, <1>3, <1>4
<1>6. Cardinality(R) = 1 => \A r, s \in R : r = s
  BY <1>1, FS_Singleton
<1>7. Cardinality(R) = 1 => \A p, q \in A : o \in Edges[p] /\ o \in Edges[q] => p = q
  BY <1>2, <1>6
<1>8. RefsFrom(A, o) = Cardinality(R)
  BY DEF RefsFrom
<1> QED
  BY <1>1, <1>4, <1>5, <1>7, <1>8

(* As many references from some objects as there are in all: all are from    *)
(* these, and none from outside.                                             *)
LEMMA AllFrom ==
  ASSUME HeapTypes, NEW A \in SUBSET Objects, NEW B \in SUBSET A, NEW o \in Objects
  PROVE  extern[o] + RefsFrom(A, o) = RefsFrom(B, o)
           <=> extern[o] = 0 /\ \A p \in A : o \in Edges[p] => p \in B
<1> DEFINE R == References(A, o)
           S == References(B, o)
<1>0. B \in SUBSET Objects /\ extern[o] \in Nat
  BY DEF HeapTypes
<1>1. IsFiniteSet(R) /\ IsFiniteSet(S) /\ Cardinality(R) \in Nat /\ Cardinality(S) \in Nat
  BY <1>0, Counted DEF RefsFrom
<1>2. S \in SUBSET R
  BY DEF References
<1>3. Cardinality(S) <= Cardinality(R) /\ (Cardinality(R) = Cardinality(S) => R = S)
  BY <1>1, <1>2, FS_Subset
<1>4. R = S <=> \A p \in A : o \in Edges[p] => p \in B
  <2>1. ASSUME R = S, NEW p \in A, o \in Edges[p] PROVE p \in B
    <3>1. PICK i \in 1 .. MaxVisits : i \in DOMAIN refs[p] /\ refs[p][i] = o
      BY <2>1, EdgesAre
    <3>2. <<p, i>> \in S
      BY <2>1, <3>1 DEF References
    <3> QED
      BY <3>2 DEF References
  <2>2. ASSUME \A p \in A : o \in Edges[p] => p \in B, NEW r \in R PROVE r \in S
    <3>1. r[1] \in A /\ r[2] \in 1 .. MaxVisits /\ r[2] \in DOMAIN refs[r[1]] /\ refs[r[1]][r[2]] = o
      BY DEF References
    <3>2. o \in Edges[r[1]]
      BY <3>1, EdgesAre
    <3>3. r[1] \in B
      BY <2>2, <3>1, <3>2
    <3> QED
      BY <3>1, <3>3 DEF References
  <2> QED
    BY <1>2, <2>1, <2>2
<1>5. RefsFrom(A, o) = Cardinality(R) /\ RefsFrom(B, o) = Cardinality(S)
  BY DEF RefsFrom
<1> HIDE DEF R, S
<1>6. extern[o] + Cardinality(R) = Cardinality(S) <=> extern[o] = 0 /\ R = S
  BY <1>0, <1>1, <1>3
<1> QED
  BY <1>4, <1>5, <1>6

(* ShouldDelete compares the counts of all in a cycle with the object. *)
LEMMA ShouldDeleteIs ==
  ASSUME HeapOK, NEW o \in gc \cap alive, deps = InCycle(Edges, gc, o)
  PROVE  ShouldDelete <=> Doomed(Edges, gc, alive, extern, o)
<1>0. Heap(Edges, gc, alive, extern) /\ HeapTypes /\ Edges \in Graphs
  BY EdgesAre DEF HeapOK
<1>1. ASSUME NEW y \in alive PROVE Reached(Edges, {y}) \in SUBSET alive
  <2>1. \A p \in alive : Edges[p] \subseteq alive
    BY <1>0 DEF Heap
  <2> QED
    BY <1>0, <2>1, ReachLeast DEF HeapTypes
<1>2. ASSUME NEW d \in deps
      PROVE  RefCount(d) = SubRefs(d)
               <=> extern[d] = 0 /\ \A p \in alive : d \in Edges[p] => p \in Reached(Edges, {d})
  <2>1. d \in Reached(Edges, {o})
    BY <1>2 DEF InCycle
  <2>2. d \in alive /\ d \in Objects
    BY <1>0, <1>1, <2>1 DEF HeapTypes
  <2>3. Reached(Edges, {d}) \in SUBSET alive
    BY <1>1, <2>2
  <2>4. SubRefs(d) = RefsFrom(Reached(Edges, {d}), d)
    BY ReachableIs DEF SubRefs
  <2>5. RefCount(d) = extern[d] + RefsFrom(alive, d)
    BY DEF RefCount
  <2>6. alive \in SUBSET Objects
    BY <1>0 DEF HeapTypes
  <2>7. extern[d] + RefsFrom(alive, d) = RefsFrom(Reached(Edges, {d}), d)
          <=> extern[d] = 0 /\ \A p \in alive : d \in Edges[p] => p \in Reached(Edges, {d})
    BY <1>0, <2>2, <2>3, <2>6, AllFrom
  <2> QED
    BY <2>4, <2>5, <2>7
<1> QED
  BY <1>2 DEF ShouldDelete, Doomed

(* The next tracked object. *)
LEMMA FromIs ==
  ASSUME NEW i \in 1 .. Len(Order) + 1, NEW left
  PROVE  /\ From(i, left) \in i .. Len(Order) + 1
         /\ From(i, left) <= Len(Order) => Order[From(i, left)] \in left
         /\ \A k \in i .. From(i, left) - 1 : Order[k] \notin left
<1> DEFINE S == {j \in i .. Len(Order) + 1 : j > Len(Order) \/ Order[j] \in left}
<1>0. Len(Order) \in Nat
  BY ConstantsOK
<1>1. S \in SUBSET Nat /\ S # {}
  <2>1. Len(Order) + 1 \in S
    BY <1>0
  <2> QED
    BY <1>0, <2>1
<1>2. PICK j \in S : \A k \in S : j <= k
  <2> HIDE DEF S
  <2> QED
    BY <1>1, LeastNumber
<1>3. \A k \in i .. j - 1 : Order[k] \notin left
  <2> SUFFICES ASSUME NEW k \in i .. j - 1, Order[k] \in left PROVE FALSE
    OBVIOUS
  <2>1. k \in S
    BY <1>0, <1>2
  <2>2. j <= k
    BY <1>2, <2>1
  <2> QED
    BY <1>0, <1>2, <2>2
<1>4. \E n \in i .. Len(Order) + 1 :
        (n > Len(Order) \/ Order[n] \in left) /\ \A k \in i .. n - 1 : Order[k] \notin left
  BY <1>2, <1>3
<1> DEFINE m == From(i, left)
<1>5. m \in i .. Len(Order) + 1 /\ (m > Len(Order) \/ Order[m] \in left)
      /\ \A k \in i .. m - 1 : Order[k] \notin left
  BY <1>4 DEF From
<1> HIDE DEF m
<1>6. m <= Len(Order) => Order[m] \in left
  BY <1>0, <1>5
<1> QED
  BY <1>5, <1>6 DEF m

----------------------------------------------------------------------------
(* The destruction of an object. *)

(* What is left of the heap L when o was destroyed: everything left has a   *)
(* reference from what is left, what that refers to is left, and so is what *)
(* holds itself without o.                                                  *)
Remains(G, a, x, o, L) ==
  /\ L \subseteq a
  /\ \A y \in L : x[y] > 0 \/ \E p \in L \ {o} : y \in G[p]
  /\ \A p \in L \ {o} : G[p] \subseteq L
  /\ \A s \in SUBSET (a \ {o}) : (\A y \in s : x[y] > 0 \/ \E p \in s : y \in G[p]) => s \subseteq L

(* Left leaves that. *)
LEMMA LeftIs ==
  ASSUME HeapOK, NEW o \in alive
  PROVE  Remains(Edges, alive, extern, o, Left(o))
<1> DEFINE G == Edges
           Held(left, y) == extern[y] > 0 \/ \E p \in left \ {o} : y \in G[p]
           All == {left \in SUBSET alive : \A y \in left \ {o} : Held(left, y)}
           kept == UNION All
           L == IF Held(kept, o) THEN kept ELSE kept \ {o}
<1>0. HeapTypes /\ Heap(G, gc, alive, extern) /\ alive \in SUBSET Objects /\ kept \subseteq alive
  BY DEF HeapOK, HeapTypes
<1>1. Left(o) = L
  <2>1. ASSUME NEW left \in SUBSET alive, NEW y
        PROVE  extern[y] > 0 \/ RefsFrom(left \ {o}, y) > 0 <=> Held(left, y)
    <3>1. left \ {o} \in SUBSET Objects
      BY <1>0
    <3>2. RefsFrom(left \ {o}, y) > 0 <=> \E p \in left \ {o} : y \in G[p]
      BY <1>0, <3>1, Counted
    <3> QED
      BY <3>2
  <2>2. All = {left \in SUBSET alive :
                 \A y \in left \ {o} : extern[y] > 0 \/ RefsFrom(left \ {o}, y) > 0}
    <3> HIDE DEF Held
    <3> QED
      BY <2>1
  <2>3. Held(kept, o) <=> extern[o] > 0 \/ RefsFrom(kept \ {o}, o) > 0
    <3>1. kept \in SUBSET alive
      BY <1>0
    <3> HIDE DEF Held, kept, All
    <3> QED
      BY <2>1, <3>1
  <2> HIDE DEF Held, All
  <2> QED
    BY <2>2, <2>3 DEF Left
<1>2. ASSUME NEW left \in All PROVE left \subseteq kept
  OBVIOUS
<1>3. ASSUME NEW y \in kept \ {o} PROVE Held(kept, y)
  <2>1. PICK left \in All : y \in left
    OBVIOUS
  <2>2. Held(left, y)
    BY <2>1
  <2>3. left \subseteq kept
    BY <1>2
  <2> QED
    BY <2>2, <2>3
<1>4. L \subseteq kept /\ kept \ {o} \subseteq L /\ (o \in L => Held(kept, o))
  OBVIOUS
<1>5. kept \in All
  BY <1>0, <1>3
<1>6. ASSUME NEW y \in alive, Held(kept, y) PROVE y \in L
  <2>1. kept \cup {y} \in All
    <3>1. ASSUME NEW z \in (kept \cup {y}) \ {o} PROVE Held(kept \cup {y}, z)
      <4>1. Held(kept, z)
        BY <1>3, <1>6, <3>1
      <4> QED
        BY <4>1
    <3> QED
      BY <1>0, <3>1
  <2>2. y \in kept
    BY <1>2, <2>1
  <2> QED
    BY <1>6, <2>2
<1> HIDE DEF kept, All, L
<1>7. L \subseteq alive
  BY <1>0, <1>4
<1>8. \A y \in L : extern[y] > 0 \/ \E p \in L \ {o} : y \in G[p]
  <2> TAKE y \in L
  <2>1. Held(kept, y)
    BY <1>3, <1>4
  <2> QED
    BY <1>4, <2>1
<1>9. \A p \in L \ {o} : G[p] \subseteq L
  <2> SUFFICES ASSUME NEW p \in L \ {o}, NEW y \in G[p] PROVE y \in L
    OBVIOUS
  <2>1. y \in alive /\ p \in kept \ {o}
    BY <1>0, <1>4, <1>7 DEF Heap
  <2> QED
    BY <1>6, <2>1
<1>10. \A s \in SUBSET (alive \ {o}) :
         (\A y \in s : extern[y] > 0 \/ \E p \in s : y \in G[p]) => s \subseteq L
  <2> SUFFICES ASSUME NEW s \in SUBSET (alive \ {o}), \A y \in s : extern[y] > 0 \/ \E p \in s : y \in G[p]
               PROVE  s \subseteq L
    OBVIOUS
  <2>1. s \in All
    BY DEF All
  <2> QED
    BY <1>2, <1>4, <2>1
<1> QED
  BY <1>1, <1>7, <1>8, <1>9, <1>10 DEF Remains

(* The graph when o and what is not left hold nothing any more. *)
Dropped(G, o, L) == [p \in Objects |-> IF p = o \/ p \notin L THEN {} ELSE G[p]]

(* The heap after a destruction is a good heap again. *)
LEMMA DroppedHeap ==
  ASSUME NEW G, NEW g, NEW a, NEW x, Heap(G, g, a, x), NEW o \in a, NEW L, Remains(G, a, x, o, L)
  PROVE  /\ Heap(Dropped(G, o, L), g, L, x)
         /\ NoPlainCycle(G, g) => NoPlainCycle(Dropped(G, o, L), g)
         /\ Single(G, g, x) => Single(Dropped(G, o, L), g, x)
<1> DEFINE H == Dropped(G, o, L)
<1>0. /\ G \in Graphs /\ g \in SUBSET Objects /\ a \in SUBSET Objects /\ x \in [Objects -> Nat]
      /\ L \subseteq a
  BY DEF Heap, Remains
<1>1. \A p \in Objects : H[p] = IF p = o \/ p \notin L THEN {} ELSE G[p]
  BY DEF Dropped
<1>2. H \in Graphs
  BY <1>0 DEF Dropped, Graphs
<1>3. \A p \in Objects : H[p] \subseteq G[p]
  BY <1>1
<1> HIDE DEF H
<1>4. \A p \in Objects : H[p] \subseteq L
  BY <1>1 DEF Remains
<1>5. \A p \in Objects \ L : H[p] = {}
  BY <1>1
<1>6. \A y \in L : x[y] > 0 \/ \E p \in L : y \in H[p]
  <2> SUFFICES ASSUME NEW y \in L, ~(x[y] > 0) PROVE \E p \in L : y \in H[p]
    OBVIOUS
  <2>1. PICK p \in L \ {o} : y \in G[p]
    BY DEF Remains
  <2>2. p \in Objects
    BY <1>0
  <2> QED
    BY <1>1, <2>1, <2>2
<1>7. Heap(H, g, L, x)
  BY <1>0, <1>2, <1>4, <1>5, <1>6 DEF Heap
<1>8. NoPlainCycle(G, g) => NoPlainCycle(H, g)
  <2> SUFFICES ASSUME NoPlainCycle(G, g), NEW s \in SUBSET (Objects \ g), s # {}
               PROVE  \E y \in s : H[y] \cap s = {}
    BY DEF NoPlainCycle
  <2>1. PICK y \in s : G[y] \cap s = {}
    BY DEF NoPlainCycle
  <2> QED
    BY <1>3, <2>1
<1>9. Single(G, g, x) => Single(H, g, x)
  BY <1>3 DEF Single
<1> QED
  BY <1>7, <1>8, <1>9 DEF H

(* What the program can reach is left when a dead object was destroyed. *)
LEMMA LivingRemain ==
  ASSUME NEW G, NEW g, NEW a, NEW x, Heap(G, g, a, x), NEW o \in a, o \notin Living(G, a, x),
         NEW L, Remains(G, a, x, o, L)
  PROVE  Living(G, a, x) \subseteq L
<1> DEFINE S == Living(G, a, x)
           roots == {p \in a : x[p] > 0}
<1>1. S \in SUBSET (a \ {o})
  BY LivingAlive
<1>2. G \in Graphs /\ roots \in SUBSET Objects /\ x \in [Objects -> Nat] /\ a \in SUBSET Objects
  BY DEF Heap
<1>3. S = Reached(G, roots)
  BY DEF Living
<1>4. \A y \in S : x[y] > 0 \/ \E p \in S : y \in G[p]
  <2> HIDE DEF S, roots
  <2> SUFFICES ASSUME NEW y \in S, ~\E p \in S : y \in G[p] PROVE x[y] > 0
    OBVIOUS
  <2>1. y \in roots
    BY <1>2, <1>3, ReachBack
  <2> QED
    BY <2>1 DEF roots
<1> HIDE DEF S
<1>5. S \subseteq L
  BY <1>1, <1>4 DEF Remains
<1> QED
  BY <1>5 DEF S

(* Nothing at all but the collector's own variables changes. *)
LEMMA HeapKept ==
  ASSUME HeapOK, UNCHANGED heap
  PROVE  HeapOK' /\ Edges' = Edges
<1>1. Edges' = Edges
  BY DEF heap, Edges
<1>2. HeapTypes' <=> HeapTypes
  BY DEF heap, HeapTypes
<1> QED
  BY <1>1, <1>2 DEF heap, HeapOK

(* The heap at the start. *)
LEMMA InitHeap ==
  ASSUME Init
  PROVE  HeapOK
<1>1. HeapTypes
  <2>1. ASSUME NEW o \in Objects PROVE refs[o] \in Seq(Objects) /\ Len(refs[o]) <= MaxVisits
    <3>1. refs[o] \in BoundedSeq(Objects, MaxVisits)
      BY DEF Init
    <3>2. PICK n \in 0 .. MaxVisits : refs[o] \in [1 .. n -> Objects]
      BY <3>1 DEF BoundedSeq, SeqOf
    <3>3. n \in Nat /\ n <= MaxVisits
      BY <3>2, ConstantsOK
    <3> QED
      BY <3>2, <3>3
  <2>2. DOMAIN refs = Objects /\ refs = [o \in Objects |-> refs[o]]
    BY DEF Init
  <2>3. refs \in [Objects -> Seq(Objects)]
    BY <2>1, <2>2
  <2>4. extern \in [Objects -> Nat]
    BY DEF Init
  <2> QED
    BY <2>1, <2>3, <2>4 DEF Init, HeapTypes
<1>2. Edges \in Graphs /\ \A p \in Objects : Edges[p] = ToSet(refs[p])
  BY <1>1, EdgesAre
<1>3. alive = Objects
  BY DEF Init
<1>4. ASSUME NEW o \in Objects
      PROVE  /\ RefCount(o) = extern[o] + RefsFrom(Objects, o) /\ RefsFrom(Objects, o) \in Nat
             /\ extern[o] \in Nat
             /\ RefsFrom(Objects, o) > 0 <=> \E p \in Objects : o \in Edges[p]
             /\ RefsFrom(Objects, o) = 1 =>
                  \A p, q \in Objects : o \in Edges[p] /\ o \in Edges[q] => p = q
  <2>1. RefCount(o) = extern[o] + RefsFrom(Objects, o)
    BY <1>3 DEF RefCount
  <2>2. extern[o] \in Nat
    BY <1>1 DEF HeapTypes
  <2> QED
    BY <1>1, <2>1, <2>2, Counted
<1>5. Heap(Edges, gc, alive, extern)
  <2>1. \A o \in alive : extern[o] > 0 \/ \E p \in alive : o \in Edges[p]
    <3> TAKE o \in alive
    <3>1. o \in Objects /\ RefCount(o) > 0
      BY <1>3 DEF Init
    <3>2. extern[o] > 0 \/ RefsFrom(Objects, o) > 0
      BY <1>4, <3>1
    <3> QED
      BY <1>3, <1>4, <3>1, <3>2
  <2>2. \A p \in Objects : Edges[p] \subseteq alive
    BY <1>2, <1>3 DEF Graphs
  <2> QED
    BY <1>1, <1>2, <1>3, <2>1, <2>2 DEF Heap, HeapTypes
<1>6. NoPlainCycle(Edges, gc)
  <2> SUFFICES ASSUME NEW s \in SUBSET (Objects \ gc), s # {}
               PROVE  \E o \in s : Edges[o] \cap s = {}
    BY DEF NoPlainCycle
  <2>1. PICK o \in s : ToSet(refs[o]) \cap s = {}
    BY DEF Init, PlainAcyclic
  <2> QED
    BY <1>2, <2>1
<1>7. SharedPlain \/ Single(Edges, gc, extern)
  <2> SUFFICES ASSUME ~SharedPlain, NEW o \in Objects \ gc, NEW p \in Objects, o \in Edges[p]
               PROVE  extern[o] = 0 /\ \A q \in Objects : o \in Edges[q] => p = q
    BY DEF Single
  <2>1. RefCount(o) = 1
    BY DEF Init
  <2>2. RefsFrom(Objects, o) > 0
    BY <1>4
  <2>3. extern[o] = 0 /\ RefsFrom(Objects, o) = 1
    BY <1>4, <2>1, <2>2
  <2> QED
    BY <1>4, <2>3
<1> QED
  BY <1>1, <1>5, <1>6, <1>7 DEF HeapOK


----------------------------------------------------------------------------
(* The inductive invariant. *)

(* The collection is at a tracked object, or at the end. *)
PlaceOK ==
  /\ iter \in 1 .. Len(Order) + 1
  /\ iter <= Len(Order) => Order[iter] \in gc \cap alive
  /\ result \in Nat /\ result <= iter - 1

SearchTypes ==
  /\ deps \in SUBSET gc /\ seen \in SUBSET gc /\ visited \in SUBSET (Objects \ gc)
  /\ changed \in BOOLEAN /\ stack \in Seq(Frames)

(* No search has begun; or its dependencies are in a cycle with the object,   *)
(* its calls were made from one another, and it has left nothing out.         *)
SearchOK ==
  IF deps = {} THEN stack = <<>>
  ELSE /\ iter <= Len(Order)
       /\ Order[iter] \in deps \cap seen
       /\ deps \subseteq InCycle(Edges, gc, Order[iter])
       /\ Calls(stack, Edges, gc, Order[iter])
       /\ Explored(stack, Edges, gc, seen \cup visited, deps, changed)

(* As long as nothing was destroyed, nothing that was passed is doomed. *)
SweepOK ==
  ~SharedPlain /\ result = 0 =>
    \A j \in 1 .. iter - 1 :
      Order[j] \in gc \cap alive => ~Doomed(Edges, gc, alive, extern, Order[j])

IInv == HeapOK /\ PlaceOK /\ SearchTypes /\ SearchOK /\ SweepOK

(* The heap's types, for the lemmas about graphs. *)
LEMMA Facts ==
  ASSUME IInv
  PROVE  /\ Edges \in Graphs /\ HeapTypes /\ HeapOK /\ Heap(Edges, gc, alive, extern)
         /\ gc \in SUBSET Objects /\ alive \in SUBSET Objects
         /\ Len(Order) \in Nat /\ iter \in Nat /\ result \in Nat
         /\ deps # {} => Order[iter] \in gc /\ Order[iter] \in Objects
<1>1. HeapTypes /\ HeapOK /\ Heap(Edges, gc, alive, extern)
  BY DEF IInv, HeapOK
<1>2. gc \in SUBSET Objects /\ alive \in SUBSET Objects
  BY <1>1 DEF HeapTypes
<1>3. Len(Order) \in Nat
  BY ConstantsOK
<1> QED
  BY <1>1, <1>2, <1>3, EdgesAre DEF IInv, PlaceOK, SearchOK, SearchTypes

(* A step of a search leaves the heap and the place of the collection. *)
LEMMA QuietStep ==
  ASSUME IInv, UNCHANGED <<heap, iter, result>>
  PROVE  HeapOK' /\ PlaceOK' /\ SweepOK' /\ Edges' = Edges
<1>1. HeapOK' /\ Edges' = Edges
  BY HeapKept DEF IInv
<1>2. PlaceOK'
  BY DEF IInv, PlaceOK, heap
<1>3. SweepOK'
  BY <1>1 DEF IInv, SweepOK, heap
<1> QED
  BY <1>1, <1>2, <1>3

(* A call of tp_visit has all references of its object to visit. *)
LEMMA CallIs ==
  ASSUME HeapTypes, NEW o \in Objects
  PROVE  Call(o) \in Frames /\ Call(o).ob = o /\ ToSet(Call(o).todo) = Edges[o]
<1>1. refs[o] \in Seq(Objects)
  BY DEF HeapTypes
<1>2. Edges[o] = ToSet(refs[o])
  BY EdgesAre
<1> QED
  BY <1>1, <1>2 DEF Call, Frames

(* A search begins. *)
LEMMA SearchKeeps ==
  ASSUME IInv, Search
  PROVE  IInv'
<1> DEFINE o == Order[iter]
           s == <<Call(o)>>
<1>1. HeapOK' /\ PlaceOK' /\ SweepOK' /\ Edges' = Edges
  BY QuietStep DEF Search
<1>2. Edges \in Graphs /\ HeapTypes /\ gc \in SUBSET Objects
  BY Facts
<1>3. o \in gc /\ o \in Objects
  BY <1>2 DEF IInv, PlaceOK, Search
<1>4. Call(o) \in Frames /\ Call(o).ob = o /\ ToSet(Call(o).todo) = Edges[o]
  BY <1>2, <1>3, CallIs
<1>5. o \in Reached(Edges, {o})
  BY <1>2, <1>3, ReachSelf
<1>6. /\ stack' = s /\ deps' = deps \cup {o} /\ seen' = {o} /\ visited' = {} /\ changed' = FALSE
      /\ iter <= Len(Order)
  BY DEF Search
<1>7. s \in Seq(Frames) /\ Len(s) = 1 /\ s[1] = Call(o)
  BY <1>4
<1>8. \A i \in 1 .. Len(s) : i = 1
  BY <1>7
<1>9. Calls(s, Edges, gc, o)
  <2> HIDE DEF s
  <2>1. \A i \in 1 .. Len(s) : s[i].ob = o /\ ToSet(s[i].todo) = Edges[o]
    BY <1>4, <1>7, <1>8
  <2> HIDE DEF o
  <2> QED
    BY <1>3, <1>5, <1>7, <2>1 DEF Calls
<1>10. Explored(s, Edges, gc, {o}, deps', FALSE)
  <2> SUFFICES ASSUME NEW x \in Edges[o] PROVE Pending(s, o, x)
    BY DEF Explored
  <2> HIDE DEF s
  <2>1. 1 \in 1 .. Len(s)
    BY <1>7
  <2> QED
    BY <1>4, <1>7, <2>1 DEF Pending
<1>11. deps' \subseteq InCycle(Edges, gc, o)
  <2>1. o \in InCycle(Edges, gc, o)
    BY <1>3, <1>5 DEF InCycle
  <2>2. deps \subseteq InCycle(Edges, gc, o)
    BY DEF IInv, SearchOK
  <2> QED
    BY <1>6, <2>1, <2>2
<1>12. gc' = gc /\ iter' = iter
  BY DEF Search, heap
<1>13. SearchTypes'
  BY <1>3, <1>6, <1>7, <1>12 DEF IInv, SearchTypes
<1>14. SearchOK'
  <2>1. {o} \cup {} = {o}
    OBVIOUS
  <2>2. Order[iter'] = o
    BY <1>12
  <2> HIDE DEF s, o
  <2>3. deps' # {} /\ o \in deps' \cap seen'
    BY <1>6
  <2>4. seen' \cup visited' = {o}
    BY <1>6
  <2>5. Calls(stack', Edges', gc', Order[iter'])
    BY <1>1, <1>6, <1>9, <1>12, <2>2
  <2>6. Explored(stack', Edges', gc', seen' \cup visited', deps', changed')
    BY <1>1, <1>6, <1>10, <1>12, <2>4
  <2>7. deps' \subseteq InCycle(Edges', gc', Order[iter'])
    BY <1>1, <1>11, <1>12, <2>2
  <2> QED
    BY <1>6, <1>12, <2>2, <2>3, <2>5, <2>6, <2>7 DEF SearchOK
<1> QED
  BY <1>1, <1>13, <1>14 DEF IInv

(* The calls after a reference was visited. *)
LEMMA VisitCalls ==
  ASSUME IInv, NEW x, Visiting(x), IF x \in seen \cup visited THEN Skips ELSE Enters(x)
  PROVE  /\ deps # {} /\ x \in Objects /\ stack \in Seq(Frames) /\ x \in Edges[Head(stack).ob]
         /\ IF x \in seen \cup visited THEN stack' = Skipped(stack)
                                       ELSE stack' = <<Call(x)>> \o Skipped(stack)
         /\ stack' \in Seq(Frames)
         /\ Calls(stack', Edges, gc, Order[iter])
<1> DEFINE o == Order[iter]
           t == Skipped(stack)
<1>1. stack # <<>> /\ Head(stack).todo # <<>> /\ x = Head(Head(stack).todo)
  BY DEF Visiting
<1>2. deps # {} /\ Calls(stack, Edges, gc, o) /\ stack \in Seq(Frames)
  BY <1>1 DEF IInv, SearchOK, SearchTypes
<1>3. Edges \in Graphs /\ HeapTypes /\ gc \in SUBSET Objects /\ o \in Objects
  BY <1>2, Facts
<1>4. Head(stack) \in Frames /\ stack[1] = Head(stack) /\ 1 \in 1 .. Len(stack)
  BY <1>1, <1>2, HeadTail
<1>5. x \in ToSet(Head(stack).todo) /\ x \in Objects
  <2>1. Head(stack).todo \in Seq(Objects)
    BY <1>4 DEF Frames
  <2> QED
    BY <1>1, <2>1, HeadTail
<1>6. x \in Edges[Head(stack).ob]
  <2>1. ToSet(stack[1].todo) \subseteq Edges[stack[1].ob]
    BY <1>2, <1>4 DEF Calls
  <2> QED
    BY <1>4, <1>5, <2>1
<1>7. IF x \in seen \cup visited THEN stack' = t ELSE stack' = <<Call(x)>> \o t
  BY DEF Skips, Enters, Visited, Skipped
<1>8. Calls(t, Edges, gc, o)
  BY <1>1, <1>2, CallsSkip
<1>9. t \in Seq(Frames) /\ t # <<>> /\ Head(t).ob = Head(stack).ob
  <2>1. t \in Seq(Frames) /\ t # <<>> /\ t[1].ob = stack[1].ob
    BY <1>1, <1>2, <1>4, SkippedStack
  <2> HIDE DEF t
  <2>2. t[1] = Head(t)
    BY <2>1, HeadTail
  <2> QED
    BY <1>4, <2>1, <2>2
<1>10. Call(x) \in Frames /\ Call(x).ob = x /\ ToSet(Call(x).todo) = Edges[x]
  BY <1>3, <1>5, CallIs
<1> HIDE DEF t, o
<1>11. Calls(<<Call(x)>> \o t, Edges, gc, o)
  BY <1>3, <1>6, <1>8, <1>9, <1>10, CallsEnter
<1>12. <<Call(x)>> \o t \in Seq(Frames)
  BY <1>9, <1>10, InFront
<1> QED
  BY <1>2, <1>5, <1>6, <1>7, <1>8, <1>9, <1>11, <1>12 DEF t, o

(* A reference to an object without a head is visited. *)
LEMMA VisitPlainKeeps ==
  ASSUME IInv, NEW x, VisitPlain(x)
  PROVE  IInv'
<1> DEFINE known == seen \cup visited
<1>1. HeapOK' /\ PlaceOK' /\ SweepOK' /\ Edges' = Edges
  BY QuietStep DEF VisitPlain
<1>2. /\ seen \subseteq gc /\ deps \subseteq gc /\ visited \in SUBSET (Objects \ gc)
      /\ x \notin gc /\ changed \in BOOLEAN
  BY DEF IInv, SearchTypes, VisitPlain
<1>3. Visiting(x) /\ IF x \in known THEN Skips ELSE Enters(x)
  BY <1>2 DEF VisitPlain
<1>4. /\ deps # {} /\ x \in Objects /\ stack \in Seq(Frames)
      /\ IF x \in known THEN stack' = Skipped(stack)
                        ELSE stack' = <<Call(x)>> \o Skipped(stack)
      /\ stack' \in Seq(Frames) /\ Calls(stack', Edges, gc, Order[iter])
  BY <1>3, VisitCalls
<1>5. /\ deps' = deps /\ seen' = seen /\ changed' = changed /\ visited' = visited \cup {x}
      /\ gc' = gc /\ iter' = iter
  BY DEF VisitPlain, heap
<1>6. Explored(stack, Edges, gc, known, deps, changed)
  BY <1>4 DEF IInv, SearchOK
<1>7. Call(x) \in Frames /\ Call(x).ob = x /\ ToSet(Call(x).todo) = Edges[x]
  BY <1>4, CallIs, Facts
<1>8. stack # <<>> /\ Head(stack).todo # <<>> /\ x = Head(Head(stack).todo)
  BY <1>3 DEF Visiting
<1> HIDE DEF known
<1>9. Explored(stack', Edges, gc, known \cup {x}, deps, changed)
  <2>1. changed \/ (deps = deps /\ ~changed /\ (x \in deps => Marked(Edges, gc, deps, Head(stack).ob)))
    BY <1>2
  <2> QED
    BY <1>4, <1>6, <1>7, <1>8, <2>1, ExploredVisit
<1>10. known \cup {x} = seen' \cup visited'
  BY <1>5 DEF known
<1>11. SearchTypes'
  BY <1>2, <1>4, <1>5 DEF IInv, SearchTypes
<1>12. SearchOK'
  <2>1. /\ iter <= Len(Order) /\ Order[iter] \in deps \cap seen
        /\ deps \subseteq InCycle(Edges, gc, Order[iter])
    BY <1>4 DEF IInv, SearchOK
  <2>2. Explored(stack', Edges', gc', seen' \cup visited', deps', changed')
    BY <1>1, <1>5, <1>9, <1>10
  <2> QED
    BY <1>1, <1>4, <1>5, <2>1, <2>2 DEF SearchOK
<1> QED
  BY <1>1, <1>11, <1>12 DEF IInv

(* A reference to one with a head is visited, which may add dependencies. *)
LEMMA VisitGCKeeps ==
  ASSUME IInv, NEW x, VisitGC(x)
  PROVE  IInv'
<1> DEFINE known == seen \cup visited
           o == Order[iter]
           chain == {i \in DOMAIN stack : \A j \in 1 .. i : stack[j].ob \notin deps}
           new == IF x \in deps THEN {stack[i].ob : i \in chain} \cap gc ELSE {}
<1>1. HeapOK' /\ PlaceOK' /\ SweepOK' /\ Edges' = Edges
  BY QuietStep DEF VisitGC
<1>2. /\ seen \subseteq gc /\ deps \subseteq gc /\ visited \in SUBSET (Objects \ gc)
      /\ x \in gc /\ changed \in BOOLEAN
  BY DEF IInv, SearchTypes, VisitGC
<1>3. Visiting(x) /\ IF x \in known THEN Skips ELSE Enters(x)
  BY <1>2 DEF VisitGC
<1>4. /\ deps # {} /\ x \in Objects /\ stack \in Seq(Frames) /\ x \in Edges[Head(stack).ob]
      /\ IF x \in known THEN stack' = Skipped(stack)
                        ELSE stack' = <<Call(x)>> \o Skipped(stack)
      /\ stack' \in Seq(Frames) /\ Calls(stack', Edges, gc, o)
  BY <1>3, VisitCalls
<1>5. /\ deps' = deps \cup new /\ changed' = (changed \/ new # {})
      /\ seen' = seen \cup {x} /\ visited' = visited
      /\ gc' = gc /\ iter' = iter
  BY DEF VisitGC, heap
<1>6. /\ iter <= Len(Order) /\ o \in deps \cap seen /\ deps \subseteq InCycle(Edges, gc, o)
      /\ Calls(stack, Edges, gc, o) /\ Explored(stack, Edges, gc, known, deps, changed)
  BY <1>4 DEF IInv, SearchOK
<1>7. Call(x) \in Frames /\ Call(x).ob = x /\ ToSet(Call(x).todo) = Edges[x]
  BY <1>4, CallIs, Facts
<1>8. stack # <<>> /\ Head(stack).todo # <<>> /\ x = Head(Head(stack).todo)
  BY <1>3 DEF Visiting
<1>9. DOMAIN stack = 1 .. Len(stack)
  BY <1>4
<1>10. Edges \in Graphs /\ gc \in SUBSET Objects /\ o \in Objects
  BY <1>4, Facts
<1>11. new \subseteq InCycle(Edges, gc, o) /\ new \subseteq gc
  <2> SUFFICES ASSUME x \in deps, NEW i \in chain, stack[i].ob \in gc
               PROVE  stack[i].ob \in InCycle(Edges, gc, o)
    OBVIOUS
  <2>1. x \in InCycle(Edges, gc, o) /\ i \in 1 .. Len(stack)
    BY <1>6, <1>9
  <2> HIDE DEF o, chain
  <2> QED
    BY <1>4, <1>6, <1>8, <1>10, <2>1, ChainInCycle
<1>12. ASSUME new = {}, x \in deps PROVE Marked(Edges, gc, deps, Head(stack).ob)
  <2>1. ASSUME NEW i \in 1 .. Len(stack), stack[i].ob \in gc
        PROVE  \E j \in 1 .. i : stack[j].ob \in deps
    <3>1. i \notin chain
      BY <1>12, <2>1
    <3> QED
      BY <1>9, <3>1
  <2> HIDE DEF o, new
  <2> QED
    BY <1>2, <1>6, <1>8, <2>1, TopMarked
<1> HIDE DEF known, o, chain, new
<1>13. Explored(stack', Edges, gc, known \cup {x}, deps', changed')
  <2>1. changed' \/ (deps' = deps /\ ~changed /\ (x \in deps => Marked(Edges, gc, deps, Head(stack).ob)))
    <3>1. CASE new = {}
      BY <1>2, <1>5, <1>12, <3>1
    <3>2. CASE new # {}
      BY <1>5, <3>2
    <3> QED
      BY <3>1, <3>2
  <2> QED
    BY <1>4, <1>6, <1>7, <1>8, <2>1, ExploredVisit
<1>14. known \cup {x} = seen' \cup visited'
  BY <1>5 DEF known
<1>15. SearchTypes'
  BY <1>2, <1>4, <1>5, <1>11 DEF IInv, SearchTypes
<1>16. SearchOK'
  <2>1. Order[iter'] = o
    BY <1>5 DEF o
  <2>2. Explored(stack', Edges', gc', seen' \cup visited', deps', changed')
    BY <1>1, <1>5, <1>13, <1>14
  <2>3. Calls(stack', Edges', gc', Order[iter'])
    BY <1>1, <1>4, <1>5, <2>1
  <2>4. deps' \subseteq InCycle(Edges', gc', Order[iter'])
    BY <1>1, <1>5, <1>6, <1>11, <2>1
  <2>5. deps' # {} /\ iter' <= Len(Order) /\ Order[iter'] \in deps' \cap seen'
    BY <1>5, <1>6, <2>1
  <2> QED
    BY <2>2, <2>3, <2>4, <2>5 DEF SearchOK
<1> QED
  BY <1>1, <1>15, <1>16 DEF IInv

(* A call returns. *)
LEMMA ReturnKeeps ==
  ASSUME IInv, Return
  PROVE  IInv'
<1> DEFINE known == seen \cup visited
           o == Order[iter]
<1>1. HeapOK' /\ PlaceOK' /\ SweepOK' /\ Edges' = Edges
  BY QuietStep DEF Return
<1>2. /\ stack # <<>> /\ Head(stack).todo = <<>> /\ stack' = Tail(stack)
      /\ deps' = deps /\ seen' = seen /\ visited' = visited /\ changed' = changed
      /\ gc' = gc /\ iter' = iter
  BY DEF Return, heap
<1>3. /\ stack \in Seq(Frames) /\ deps # {} /\ iter <= Len(Order) /\ o \in deps \cap seen
      /\ deps \subseteq InCycle(Edges, gc, o)
      /\ Calls(stack, Edges, gc, o) /\ Explored(stack, Edges, gc, known, deps, changed)
  BY <1>2 DEF IInv, SearchOK, SearchTypes
<1> HIDE DEF known, o
<1>4. Calls(stack', Edges, gc, o)
  BY <1>2, <1>3, CallsReturn
<1>5. Explored(stack', Edges, gc, known, deps, changed)
  <2>1. \A p, x : Pending(stack, p, x) => Pending(stack', p, x)
    BY <1>2, <1>3, PendingReturn
  <2> QED
    BY <1>3, <2>1 DEF Explored
<1>6. SearchTypes'
  BY <1>2, <1>4 DEF IInv, SearchTypes, Calls
<1>7. SearchOK'
  <2>1. known = seen' \cup visited' /\ Order[iter'] = o
    BY <1>2 DEF known, o
  <2>2. Explored(stack', Edges', gc', seen' \cup visited', deps', changed')
    BY <1>1, <1>2, <1>5, <2>1
  <2>3. Calls(stack', Edges', gc', Order[iter'])
    BY <1>1, <1>2, <1>4, <2>1
  <2> QED
    BY <1>1, <1>2, <1>3, <2>1, <2>2, <2>3 DEF SearchOK
<1> QED
  BY <1>1, <1>6, <1>7 DEF IInv

(* The object in question is passed, and the search begins anew at the next. *)
LEMMA AdvanceKeeps ==
  ASSUME IInv, Searched, NEW left, Advance(left), gc' = gc, HeapOK',
         gc' \cap alive' = gc \cap left, result' \in Nat, result' <= result + 1
  PROVE  /\ PlaceOK' /\ SearchTypes' /\ SearchOK'
         /\ iter' >= iter + 1 /\ iter <= Len(Order)
         /\ \A j \in 1 .. iter' - 1 : Order[j] \in gc' \cap alive' => j <= iter
<1>1. stack = <<>> /\ deps # {}
  BY DEF Searched
<1>2. iter \in 1 .. Len(Order) + 1 /\ result <= iter - 1 /\ Len(Order) \in Nat /\ result \in Nat
      /\ iter <= Len(Order)
  BY <1>1, Facts DEF IInv, PlaceOK, SearchOK
<1>3. iter + 1 \in 1 .. Len(Order) + 1
  BY <1>2
<1> DEFINE n == From(iter + 1, gc \cap left)
<1>4. n \in iter + 1 .. Len(Order) + 1 /\ (n <= Len(Order) => Order[n] \in gc \cap left)
      /\ \A k \in iter + 1 .. n - 1 : Order[k] \notin gc \cap left
  BY <1>3, FromIs
<1>5. /\ iter' = n /\ deps' = {} /\ seen' = {} /\ visited' = {} /\ changed' = FALSE
      /\ stack' = <<>>
  BY <1>1 DEF Advance
<1> HIDE DEF n
<1>6. PlaceOK'
  BY <1>2, <1>4, <1>5 DEF PlaceOK
<1>7. SearchTypes'
  <2>1. <<>> \in Seq(Frames)
    OBVIOUS
  <2> QED
    BY <1>5, <2>1 DEF SearchTypes
<1>8. SearchOK'
  BY <1>5 DEF SearchOK
<1>9. \A j \in 1 .. iter' - 1 : Order[j] \in gc' \cap alive' => j <= iter
  <2> SUFFICES ASSUME NEW j \in 1 .. n - 1, Order[j] \in gc \cap left, j > iter PROVE FALSE
    BY <1>2, <1>4, <1>5
  <2>1. j \in iter + 1 .. n - 1
    BY <1>2, <1>4
  <2> QED
    BY <1>4, <2>1
<1> QED
  BY <1>2, <1>4, <1>5, <1>6, <1>7, <1>8, <1>9

(* The search has found all dependencies, unless a plain object is shared. *)
LEMMA SearchedAll ==
  ASSUME IInv, Searched, ~SharedPlain
  PROVE  /\ deps = InCycle(Edges, gc, Order[iter])
         /\ ShouldDelete <=> Doomed(Edges, gc, alive, extern, Order[iter])
<1> DEFINE o == Order[iter]
           known == seen \cup visited
<1>1. deps # {} /\ stack = <<>> /\ ~changed /\ changed \in BOOLEAN
  BY DEF Searched, IInv, SearchTypes
<1>2. /\ iter <= Len(Order) /\ o \in deps \cap seen /\ deps \subseteq InCycle(Edges, gc, o)
      /\ Explored(stack, Edges, gc, known, deps, changed)
  BY <1>1 DEF IInv, SearchOK
<1>3. Edges \in Graphs /\ gc \in SUBSET Objects /\ HeapOK
  BY Facts
<1>4. Single(Edges, gc, extern)
  BY <1>3 DEF HeapOK
<1>5. known \in SUBSET Objects /\ o \in known
  BY <1>2, <1>3 DEF IInv, SearchTypes
<1>6. Explored(<<>>, Edges, gc, known, deps, FALSE)
  BY <1>1, <1>2
<1>7. o \in gc \cap alive
  BY <1>2 DEF IInv, PlaceOK
<1> HIDE DEF o, known
<1>8. deps = InCycle(Edges, gc, o)
  BY <1>2, <1>3, <1>4, <1>5, <1>6, SearchExact
<1>9. ShouldDelete <=> Doomed(Edges, gc, alive, extern, o)
  BY <1>3, <1>7, <1>8, ShouldDeleteIs
<1> QED
  BY <1>8, <1>9 DEF o

(* An object is kept. *)
LEMMA KeepKeeps ==
  ASSUME IInv, Keep
  PROVE  IInv'
<1>1. Searched /\ ~ShouldDelete /\ Advance(alive) /\ UNCHANGED heap /\ result' = result
  BY DEF Keep
<1>2. HeapOK' /\ Edges' = Edges
  BY <1>1, HeapKept DEF IInv
<1>3. gc' = gc /\ alive' = alive /\ extern' = extern
  BY <1>1 DEF heap
<1>4. result' \in Nat /\ result' <= result + 1
  BY <1>1, Facts
<1>5. /\ PlaceOK' /\ SearchTypes' /\ SearchOK' /\ iter' >= iter + 1 /\ iter <= Len(Order)
      /\ \A j \in 1 .. iter' - 1 : Order[j] \in gc' \cap alive' => j <= iter
  BY <1>1, <1>2, <1>3, <1>4, AdvanceKeeps
<1>6. SweepOK'
  <2> SUFFICES ASSUME ~SharedPlain, result = 0, NEW j \in 1 .. iter' - 1, Order[j] \in gc \cap alive
               PROVE  ~Doomed(Edges, gc, alive, extern, Order[j])
    BY <1>1, <1>2, <1>3 DEF SweepOK
  <2>1. j <= iter
    BY <1>3, <1>5
  <2>2. CASE j = iter
    BY <1>1, <2>2, SearchedAll
  <2>3. CASE j # iter
    <3>1. j \in 1 .. iter - 1
      BY <2>1, <2>3, Facts
    <3> QED
      BY <3>1 DEF IInv, SweepOK
  <2> QED
    BY <2>2, <2>3
<1> QED
  BY <1>2, <1>5, <1>6 DEF IInv

(* What the destruction of an object leaves of the heap. *)
LEMMA DestroyHeap ==
  ASSUME IInv, Destroy
  PROVE  /\ Order[iter] \in gc \cap alive
         /\ Remains(Edges, alive, extern, Order[iter], alive')
         /\ Edges' = Dropped(Edges, Order[iter], alive') /\ HeapOK'
<1> DEFINE o == Order[iter]
<1>1. HeapTypes /\ HeapOK /\ Heap(Edges, gc, alive, extern)
  BY Facts
<1>2. deps # {} /\ iter <= Len(Order) /\ o \in gc \cap alive
  BY DEF Destroy, Searched, IInv, SearchOK, PlaceOK
<1>3. gc' = gc /\ extern' = extern /\ alive' = Left(o)
      /\ refs' = [p \in Objects |-> IF p = o \/ p \notin alive' THEN <<>> ELSE refs[p]]
  BY DEF Destroy
<1> HIDE DEF o
<1>4. Remains(Edges, alive, extern, o, alive')
  BY <1>1, <1>2, <1>3, LeftIs
<1>5. Edges' = Dropped(Edges, o, alive')
  <2>1. ToSet(<<>>) = {}
    BY DEF ToSet
  <2>2. Edges' = [p \in Objects |-> ToSet(refs'[p])]
    BY DEF Edges
  <2>3. ASSUME NEW p \in Objects
        PROVE  ToSet(refs'[p]) = IF p = o \/ p \notin alive' THEN {} ELSE Edges[p]
    BY <1>3, <2>1 DEF Edges
  <2> QED
    BY <2>2, <2>3 DEF Dropped
<1>6. HeapTypes'
  <2>1. alive' \in SUBSET Objects
    BY <1>1, <1>4 DEF Remains, HeapTypes
  <2>2. ASSUME NEW p \in Objects PROVE refs'[p] \in Seq(Objects) /\ Len(refs'[p]) <= MaxVisits
    <3>1. <<>> \in Seq(Objects) /\ Len(<<>>) = 0
      OBVIOUS
    <3>2. refs[p] \in Seq(Objects) /\ Len(refs[p]) <= MaxVisits /\ MaxVisits \in Nat
      BY <1>1, ConstantsOK DEF HeapTypes
    <3>3. CASE p = o \/ p \notin alive'
      <4>1. refs'[p] = <<>>
        BY <1>3, <3>3
      <4> QED
        BY <3>1, <3>2, <4>1
    <3>4. CASE ~(p = o \/ p \notin alive')
      <4>1. refs'[p] = refs[p]
        BY <1>3, <3>4
      <4> QED
        BY <3>2, <4>1
    <3> QED
      BY <3>3, <3>4
  <2>3. refs' \in [Objects -> Seq(Objects)]
    BY <1>3, <2>2
  <2>4. gc' \in SUBSET Objects /\ extern' \in [Objects -> Nat]
    BY <1>1, <1>3 DEF HeapTypes
  <2> QED
    BY <2>1, <2>2, <2>3, <2>4 DEF HeapTypes
<1>7. /\ Heap(Edges', gc', alive', extern')
      /\ NoPlainCycle(Edges, gc) => NoPlainCycle(Edges', gc')
      /\ Single(Edges, gc, extern) => Single(Edges', gc', extern')
  BY <1>1, <1>2, <1>3, <1>4, <1>5, DroppedHeap
<1>8. HeapOK'
  BY <1>1, <1>6, <1>7 DEF HeapOK
<1> QED
  BY <1>2, <1>4, <1>5, <1>8 DEF o

(* An object is destroyed. *)
LEMMA DestroyKeeps ==
  ASSUME IInv, Destroy
  PROVE  IInv'
<1>1. HeapOK'
  BY DestroyHeap
<1>2. Searched /\ Advance(alive') /\ gc' = gc /\ result' = result + 1
  BY DEF Destroy
<1>3. result \in Nat
  BY Facts
<1>4. result' \in Nat /\ result' <= result + 1 /\ result' # 0
  BY <1>2, <1>3
<1>5. gc' \cap alive' = gc \cap alive'
  BY <1>2
<1>6. PlaceOK' /\ SearchTypes' /\ SearchOK'
  BY <1>1, <1>2, <1>4, <1>5, AdvanceKeeps
<1>7. SweepOK'
  BY <1>4 DEF SweepOK
<1> QED
  BY <1>1, <1>6, <1>7 DEF IInv

(* The collection begins again. *)
LEMMA AgainKeeps ==
  ASSUME IInv, Again
  PROVE  IInv'
<1>1. /\ iter > Len(Order) /\ iter' = From(1, gc \cap alive) /\ result' = 0
      /\ UNCHANGED heap /\ UNCHANGED search
  BY DEF Again
<1>2. HeapOK' /\ Edges' = Edges
  BY <1>1, HeapKept DEF IInv
<1>3. gc' = gc /\ alive' = alive
      /\ deps' = deps /\ seen' = seen /\ visited' = visited /\ changed' = changed /\ stack' = stack
  BY <1>1 DEF heap, search
<1>4. Len(Order) \in Nat /\ iter \in Nat
  BY Facts
<1>5. 1 \in 1 .. Len(Order) + 1
  BY <1>4
<1>6. iter' \in 1 .. Len(Order) + 1 /\ (iter' <= Len(Order) => Order[iter'] \in gc \cap alive)
      /\ \A k \in 1 .. iter' - 1 : Order[k] \notin gc \cap alive
  BY <1>1, <1>5, FromIs
<1>7. PlaceOK'
  BY <1>1, <1>3, <1>6 DEF PlaceOK
<1>8. SearchTypes'
  BY <1>3 DEF IInv, SearchTypes
<1>9. SearchOK'
  <2>1. deps = {} /\ stack = <<>>
    BY <1>1, <1>4 DEF IInv, SearchOK
  <2> QED
    BY <1>3, <2>1 DEF SearchOK
<1>10. SweepOK'
  BY <1>3, <1>6 DEF SweepOK
<1> QED
  BY <1>2, <1>7, <1>8, <1>9, <1>10 DEF IInv

(* The invariant at the start. *)
LEMMA InitKeeps ==
  ASSUME Init
  PROVE  IInv
<1>1. HeapOK
  BY InitHeap
<1>2. iter = From(1, gc) /\ result = 0 /\ alive = Objects /\ gc \subseteq Objects
  BY DEF Init
<1>3. 1 \in 1 .. Len(Order) + 1 /\ Len(Order) \in Nat
  BY ConstantsOK
<1>4. iter \in 1 .. Len(Order) + 1 /\ (iter <= Len(Order) => Order[iter] \in gc)
      /\ \A k \in 1 .. iter - 1 : Order[k] \notin gc
  BY <1>2, <1>3, FromIs
<1>5. PlaceOK
  BY <1>2, <1>4 DEF PlaceOK
<1>6. SearchTypes /\ SearchOK
  <2>1. <<>> \in Seq(Frames)
    OBVIOUS
  <2> QED
    BY <2>1 DEF Init, SearchTypes, SearchOK
<1>7. SweepOK
  BY <1>4 DEF SweepOK
<1> QED
  BY <1>1, <1>5, <1>6, <1>7 DEF IInv

(* Every step keeps the invariant. *)
LEMMA StepKeeps ==
  ASSUME IInv, [Next]_vars
  PROVE  IInv'
<1>1. CASE Search
  BY <1>1, SearchKeeps
<1>2. CASE Return
  BY <1>2, ReturnKeeps
<1>3. ASSUME NEW x \in Objects, VisitPlain(x) PROVE IInv'
  BY <1>3, VisitPlainKeeps
<1>4. ASSUME NEW x \in Objects, VisitGC(x) PROVE IInv'
  BY <1>4, VisitGCKeeps
<1>5. CASE Keep
  BY <1>5, KeepKeeps
<1>6. CASE Destroy
  BY <1>6, DestroyKeeps
<1>7. CASE Again
  BY <1>7, AgainKeeps
<1>8. CASE UNCHANGED vars
  <2>1. UNCHANGED <<heap, iter, result>> /\ UNCHANGED search
    BY <1>8 DEF vars
  <2>2. HeapOK' /\ PlaceOK' /\ SweepOK' /\ Edges' = Edges
    BY <2>1, QuietStep
  <2>3. deps' = deps /\ seen' = seen /\ visited' = visited /\ changed' = changed /\ stack' = stack
        /\ gc' = gc /\ iter' = iter
    BY <2>1 DEF search, heap
  <2>4. SearchTypes'
    BY <2>3 DEF IInv, SearchTypes
  <2>5. SearchOK'
    BY <2>2, <2>3 DEF IInv, SearchOK
  <2> QED
    BY <2>2, <2>4, <2>5 DEF IInv
<1> QED
  BY <1>1, <1>2, <1>3, <1>4, <1>5, <1>6, <1>7, <1>8 DEF Next

----------------------------------------------------------------------------
(* The theorems. *)

(* The search has always an account of what it has met, whatever the heap. *)
THEOREM Invariance == Spec => []IInv
<1>1. Init => IInv
  BY InitKeeps
<1>2. IInv /\ [Next]_vars => IInv'
  BY StepKeeps
<1> QED
  BY <1>1, <1>2, PTL DEF Spec

(* Types, and the place of the collection is always that of a tracked object *)
(* that is not destroyed, or the end.                                        *)
THEOREM TypeCorrect == Spec => []TypeOK
<1>1. IInv => TypeOK
  <2> SUFFICES ASSUME IInv PROVE TypeOK
    OBVIOUS
  <2>1. HeapTypes /\ Len(Order) \in Nat
    BY Facts
  <2>2. result \in 0 .. Len(Order)
    BY <2>1 DEF IInv, PlaceOK
  <2> QED
    BY <2>1, <2>2 DEF IInv, HeapTypes, PlaceOK, SearchTypes, TypeOK, Frames
<1> QED
  BY <1>1, Invariance, PTL

(* The search finds exactly the tracked objects in a cycle with the object,  *)
(* in whatever order references are visited.                                 *)
THEOREM DependenciesCorrect ==
  ASSUME SharedPlain = FALSE
  PROVE  Spec => []DependenciesExact
<1>1. IInv => DependenciesExact
  <2> SUFFICES ASSUME IInv, Searched PROVE deps = Cycle(Order[iter])
    BY DEF DependenciesExact
  <2>1. deps = InCycle(Edges, gc, Order[iter])
    BY SearchedAll
  <2>2. InCycle(Edges, gc, Order[iter]) = Cycle(Order[iter])
    BY ReachableIs DEF InCycle, Cycle
  <2> QED
    BY <2>1, <2>2
<1> QED
  BY <1>1, Invariance, PTL

(* The collection destroys and clears nothing that the program can reach. *)
THEOREM LivingSpared ==
  ASSUME SharedPlain = FALSE
  PROVE  Spec => SparesTheLiving
<1>1. ASSUME IInv, [Next]_vars, NEW o \in Live PROVE o \in alive' /\ refs'[o] = refs[o]
  <2> DEFINE L == Living(Edges, alive, extern)
  <2>1. o \in L
    BY <1>1, ReachableIs DEF Live, Living
  <2>2. Heap(Edges, gc, alive, extern) /\ HeapOK /\ alive \in SUBSET Objects
    BY <1>1, Facts
  <2>3. L \subseteq alive
    BY <2>2, LivingAlive
  <2>4. CASE Destroy
    <3>1. /\ Order[iter] \in gc \cap alive
          /\ Remains(Edges, alive, extern, Order[iter], alive')
      BY <1>1, <2>4, DestroyHeap
    <3>2. Doomed(Edges, gc, alive, extern, Order[iter])
      BY <1>1, <2>4, SearchedAll DEF Destroy
    <3>3. Single(Edges, gc, extern)
      BY <2>2 DEF HeapOK
    <3>4. Order[iter] \notin L
      BY <2>2, <3>1, <3>2, <3>3, DoomedDead
    <3>5. L \subseteq alive'
      BY <2>2, <3>1, <3>4, LivingRemain
    <3> QED
      BY <2>1, <2>2, <2>3, <2>4, <3>4, <3>5 DEF Destroy
  <2>5. CASE UNCHANGED heap
    BY <2>1, <2>3, <2>5 DEF heap
  <2>6. Destroy \/ UNCHANGED heap
    BY <1>1 DEF Next, Search, Return, VisitPlain, VisitGC, Keep, Again, vars
  <2> QED
    BY <2>4, <2>5, <2>6
<1>2. IInv /\ [Next]_vars => [\A o \in Live : o \in alive' /\ refs'[o] = refs[o]]_vars
  BY <1>1
<1> QED
  BY <1>2, Invariance, PTL DEF Spec, SparesTheLiving

(* When a call has destroyed nothing, no tracked object is garbage. *)
THEOREM CleanAtZero ==
  ASSUME SharedPlain = FALSE
  PROVE  Spec => []ZeroMeansClean
<1>1. IInv => ZeroMeansClean
  <2> SUFFICES ASSUME IInv, ~Running, ~(alive \cap gc \subseteq Live) PROVE FALSE
    BY DEF ZeroMeansClean
  <2> DEFINE L == Living(Edges, alive, extern)
  <2>1. Live = L
    BY ReachableIs DEF Live, Living
  <2>2. Heap(Edges, gc, alive, extern) /\ HeapOK /\ Len(Order) \in Nat /\ iter \in Nat
        /\ result \in Nat /\ gc \in SUBSET Objects /\ NoPlainCycle(Edges, gc)
    BY Facts DEF HeapOK
  <2>3. alive \ L # {}
    BY <2>1
  <2>4. PICK o \in alive \ L : \A p \in alive : o \in Reached(Edges, {p}) => p \in Reached(Edges, {o})
    BY <2>2, <2>3, FiniteObjects, Source
  <2>5. PICK d \in gc \cap alive : Doomed(Edges, gc, alive, extern, d)
    BY <2>2, <2>4, DeadDoomed
  <2>6. PICK j \in 1 .. Len(Order) : Order[j] = d
    <3>1. d \in ToSet(Order) /\ DOMAIN Order = 1 .. Len(Order)
      BY <2>2, <2>5, ConstantsOK DEF Objects
    <3> QED
      BY <3>1 DEF ToSet
  <2>7. result = 0 /\ iter > Len(Order)
    BY <2>2 DEF Running
  <2>8. j \in 1 .. iter - 1
    BY <2>2, <2>7
  <2> QED
    BY <2>5, <2>6, <2>7, <2>8 DEF IInv, SweepOK
<1> QED
  BY <1>1, Invariance, PTL
=============================================================================
