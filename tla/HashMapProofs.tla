---------------------------- MODULE HashMapProofs ----------------------------
(***************************************************************************)
(* Proofs about the hash map: its types, that its table has every node     *)
(* once and in the right bucket with the range of buckets in use and the   *)
(* capacity as they should be, that a traversal yields each key that stays *)
(* and none twice, and that the map implements SharedMap.                  *)
(*                                                                         *)
(* The argument: threads meet between the unlock before a comparison and   *)
(* the lock after it. A call that comes back and finds its array and its   *)
(* node again goes on from that node, and would miss a node of its key in  *)
(* front of it. InCall says why that is harmless: nodes are put in front   *)
(* of a bucket only, so such a node was added during the call, and the     *)
(* call has seen its key without an item. A rehash is noticed, for the new *)
(* array is at an address no thread remembers, and so is a removal, for a  *)
(* new node is at such an address too (FreshArray, FreshNode; the model    *)
(* takes this of the allocator). Going says the like of iterators: the     *)
(* keys that stay and were not yielded are ahead.                          *)
(***************************************************************************)
EXTENDS HashMap, Sums

(* The nodes that were added and not yet removed. *)
InUse == {n \in Nodes : hmn_item[n] # NULL}

(* The nodes of a bucket from n on. *)
Onward(s, n) == {s[j] : j \in {j \in 1..Len(s) : \E i \in 1..j : s[i] = n}}

(* The fields of a map. *)
Fields == {"hm_buckets", "hm_bucket_count", "chain", "hm_map_size", "valid_begin", "valid_end"}

(* A header has all its fields, ... *)
Header(m) ==
  /\ DOMAIN m = Fields
  /\ m.hm_bucket_count \in Nat /\ m.hm_map_size \in Nat
  /\ m.valid_begin \in Nat /\ m.valid_end \in Nat
  /\ IF m.hm_bucket_count = 0 THEN m.hm_buckets = NULL
     ELSE m.hm_buckets \in {m.hm_bucket_count} \X Places

(* ... its buckets hold the nodes of N, each once and in the right place, ... *)
Buckets(m, N) ==
  /\ m.chain \in [0 .. m.hm_bucket_count - 1 -> Seq(Nodes)]
  /\ m.hm_bucket_count = 0 => N = {}
  /\ \A i \in 0 .. m.hm_bucket_count - 1 :
       /\ IsInjective(m.chain[i])
       /\ ToSet(m.chain[i]) = {n \in N : BucketOf(hmn_key(n), m.hm_bucket_count) = i}

(* ... the range has every bucket with a node, ... *)
Covered(m) ==
  /\ m.valid_end <= m.hm_bucket_count
  /\ \A i \in Filled(m) : m.valid_begin <= i /\ i < m.valid_end

(* ... and begins and ends with one, ... *)
Ranged(m) ==
  /\ Covered(m)
  /\ IF Filled(m) = {} THEN m.valid_begin = 0 /\ m.valid_end = 0
     ELSE m.valid_begin \in Filled(m) /\ m.valid_end - 1 \in Filled(m)

(* ... and there are more buckets than nodes, or neither. *)
Sized(m, N) ==
  /\ IsFiniteSet(N) /\ m.hm_map_size = Cardinality(N)
  /\ m.hm_map_size < m.hm_bucket_count \/ m.hm_bucket_count = 0
  /\ N = {} => m.hm_bucket_count = 0

(* A good table with the nodes of N. *)
Table(m, N) == Header(m) /\ Buckets(m, N) /\ Ranged(m) /\ Sized(m, N)

(* No key is there twice. *)
Unique(N) == \A n, o \in N : hmn_key(n) = hmn_key(o) => n = o

(* What a call knows: a node of its key in front of the node it compares was *)
(* added during the call, and the key had no item before.                    *)
InCall(t) ==
  /\ call[t] \in Makes[t] /\ iter[t] = NoIter
  /\ at[t] \in [b : Arrays, node : Nodes]
  /\ Hash[hmn_key(at[t].node)] = Hash[call[t].key]
  /\ at[t].b = map.hm_buckets /\ at[t].node \in InUse =>
       \A n \in InUse :
         hmn_key(n) = call[t].key /\ n \notin Onward(Bucket(t), at[t].node) =>
           NoItem \in seen[t] /\ call[t].op \notin {"set", "setnew"}

(* Where an iterator is, and the keys it has yielded. *)
Iterators == [b : Arrays, begin : Nat, end : Nat, curr : Nodes \cup {NULL}, yielded : Seq(Keys)]

(* The keys an iterator still has to yield are those of the nodes from its   *)
(* own on and of the later buckets, and no others it has yielded are there.  *)
Going(m, N, i, S) ==
  /\ i.end <= m.hm_bucket_count
  /\ i.curr # NULL => i.begin < i.end /\ BucketOf(hmn_key(i.curr), m.hm_bucket_count) = i.begin
  /\ \A k \in S : BucketOf(k, m.hm_bucket_count) < i.end
  /\ \A k \in ToSet(i.yielded) : BucketOf(k, m.hm_bucket_count) <= i.begin
  /\ i.curr \in N =>
       LET ahead == {hmn_key(n) : n \in Onward(m.chain[i.begin], i.curr)}
       IN /\ ahead \cap ToSet(i.yielded) = {}
          /\ \A k \in S : \/ k \in ToSet(i.yielded) \/ k \in ahead
                          \/ BucketOf(k, m.hm_bucket_count) > i.begin

(* An iterator that is not at its end, and whose array is still that of the  *)
(* map, is going through the keys of S.                                      *)
Yields(m, N, i, S) ==
  /\ i \in Iterators
  /\ IsInjective(i.yielded)
  /\ i.curr = NULL => S \subseteq ToSet(i.yielded)
  /\ i.b = m.hm_buckets => Going(m, N, i, S)

(* What holds of each thread. *)
Thread(t) ==
  /\ call[t] = Idle => at[t] = Nowhere
  /\ call[t] # Idle => InCall(t)
  /\ iter[t] # NoIter => Yields(map, InUse, iter[t], stays[t])
  /\ stays[t] \subseteq Present(dict)

(* The array and the node a call compares, or none. *)
Remembered == [b : Arrays, node : Nodes] \cup {Nowhere}

(* The types the proofs need. *)
Types ==
  /\ hmn_item \in [Nodes -> Items \cup {NULL}]
  /\ call \in [Threads -> Calls \cup {Idle}]
  /\ at \in [Threads -> Remembered] /\ DOMAIN iter = Threads
  /\ DOMAIN seen = Threads /\ DOMAIN stays = Threads
  /\ lock \in Threads \cup {NULL}
  /\ trapped \in BOOLEAN
  /\ reply \in Items \cup {NoItem}

(* The inductive invariant: a good table that stands for the dictionary, and *)
(* what each thread knows of it.                                             *)
IInv ==
  /\ Types
  /\ Table(map, InUse) /\ Unique(InUse)
  /\ dict = Contents
  /\ \A t \in Threads : Thread(t)
----------------------------------------------------------------------------
(* Sequences. *)

(* The nodes from one on are those at its place and at later ones.           *)
LEMMA OnwardFrom ==
  ASSUME NEW S, NEW s \in Seq(S), IsInjective(s), NEW p \in 1 .. Len(s)
  PROVE  Onward(s, s[p]) = {s[j] : j \in p .. Len(s)}
<1>1. DOMAIN s = 1 .. Len(s) /\ Len(s) \in Nat
  OBVIOUS
<1>2. \A j \in 1 .. Len(s) : (\E i \in 1 .. j : s[i] = s[p]) <=> j \in p .. Len(s)
  <2>1. ASSUME NEW j \in 1 .. Len(s), NEW i \in 1 .. j, s[i] = s[p] PROVE j \in p .. Len(s)
    <3>1. i \in 1 .. Len(s)
      BY <1>1
    <3>2. i = p
      BY <1>1, <2>1, <3>1 DEF IsInjective
    <3> QED
      BY <1>1, <3>2
  <2>2. ASSUME NEW j \in 1 .. Len(s), j \in p .. Len(s) PROVE p \in 1 .. j
    BY <1>1, <2>2
  <2> QED
    BY <2>1, <2>2
<1>3. \A j \in p .. Len(s) : j \in 1 .. Len(s)
  BY <1>1
<1> QED
  BY <1>2, <1>3 DEF Onward

(* What one more element at the front changes. *)
LEMMA AtFront ==
  ASSUME NEW S, NEW s \in Seq(S), NEW x \in S
  PROVE  LET r == <<x>> \o s
         IN /\ r \in Seq(S) /\ Len(r) = Len(s) + 1 /\ r[1] = x
            /\ \A i \in 1 .. Len(s) : r[i + 1] = s[i]
            /\ \A i \in 2 .. Len(r) : r[i] = s[i - 1] /\ i - 1 \in 1 .. Len(s)
            /\ ToSet(r) = ToSet(s) \cup {x}
<1> DEFINE r == <<x>> \o s
<1>1. /\ r \in Seq(S) /\ Len(r) = Len(s) + 1 /\ r[1] = x
      /\ \A i \in 1 .. Len(s) : r[i + 1] = s[i]
  OBVIOUS
<1>2. \A i \in 2 .. Len(r) : r[i] = s[i - 1] /\ i - 1 \in 1 .. Len(s)
  <2> SUFFICES ASSUME NEW i \in 2 .. Len(r) PROVE r[i] = s[i - 1] /\ i - 1 \in 1 .. Len(s)
    OBVIOUS
  <2>1. Len(s) \in Nat
    OBVIOUS
  <2> HIDE DEF r
  <2>2. i - 1 \in 1 .. Len(s) /\ i = (i - 1) + 1
    BY <1>1, <2>1
  <2> QED
    BY <1>1, <2>2
<1>3. DOMAIN r = 1 .. Len(r) /\ DOMAIN s = 1 .. Len(s) /\ Len(s) \in Nat
  OBVIOUS
<1> HIDE DEF r
<1>4. ToSet(r) = ToSet(s) \cup {x}
  <2>1. ASSUME NEW i \in 1 .. Len(r) PROVE r[i] \in ToSet(s) \cup {x}
    <3>1. CASE i = 1
      BY <1>1, <3>1
    <3>2. CASE i # 1
      <4>1. i \in 2 .. Len(r)
        BY <1>1, <1>3, <3>2
      <4> QED
        BY <1>2, <1>3, <4>1 DEF ToSet
    <3> QED
      BY <3>1, <3>2
  <2>2. x \in ToSet(r)
    <3>1. 1 \in 1 .. Len(r)
      BY <1>1, <1>3
    <3> QED
      BY <1>1, <1>3, <3>1 DEF ToSet
  <2>3. ASSUME NEW i \in 1 .. Len(s) PROVE s[i] \in ToSet(r)
    <3>1. i + 1 \in 1 .. Len(r)
      BY <1>1, <1>3
    <3> QED
      BY <1>1, <1>3, <3>1 DEF ToSet
  <2> QED
    BY <1>3, <2>1, <2>2, <2>3 DEF ToSet
<1> QED
  BY <1>1, <1>2, <1>4 DEF r

(* A sequence with each element once has that still with a new one in front. *)
LEMMA InjectiveAtFront ==
  ASSUME NEW S, NEW s \in Seq(S), IsInjective(s), NEW x \in S \ ToSet(s)
  PROVE  IsInjective(<<x>> \o s)
<1> DEFINE r == <<x>> \o s
<1>1. /\ Len(r) = Len(s) + 1 /\ r[1] = x /\ Len(s) \in Nat
      /\ \A i \in 2 .. Len(r) : r[i] = s[i - 1] /\ i - 1 \in 1 .. Len(s)
  BY AtFront
<1>2. DOMAIN r = 1 .. Len(r) /\ DOMAIN s = 1 .. Len(s)
  OBVIOUS
<1> HIDE DEF r
<1>3. ASSUME NEW i \in 1 .. Len(r), NEW j \in 1 .. Len(r), r[i] = r[j], i # 1 PROVE i = j
  <2>1. i \in 2 .. Len(r)
    BY <1>1, <1>3
  <2>2. r[i] \in ToSet(s)
    BY <1>1, <1>2, <2>1 DEF ToSet
  <2>3. j \in 2 .. Len(r)
    BY <1>1, <1>3, <2>2
  <2>4. i - 1 = j - 1
    BY <1>1, <1>2, <1>3, <2>1, <2>3 DEF IsInjective
  <2> QED
    BY <2>1, <2>3, <2>4
<1> QED
  BY <1>1, <1>2, <1>3 DEF IsInjective, r

(* A node put in front of a bucket is not behind one that is already there.  *)
LEMMA OnwardAtFront ==
  ASSUME NEW S, NEW s \in Seq(S), NEW x \in S \ ToSet(s), IsInjective(s), NEW n \in ToSet(s)
  PROVE  Onward(<<x>> \o s, n) = Onward(s, n)
<1> DEFINE r == <<x>> \o s
<1>1. /\ r \in Seq(S) /\ Len(r) = Len(s) + 1 /\ r[1] = x /\ Len(s) \in Nat
      /\ \A i \in 1 .. Len(s) : r[i + 1] = s[i]
      /\ \A i \in 2 .. Len(r) : r[i] = s[i - 1] /\ i - 1 \in 1 .. Len(s)
  BY AtFront
<1>2. PICK p \in 1 .. Len(s) : s[p] = n
  BY DEF ToSet
<1>3. IsInjective(r)
  BY InjectiveAtFront
<1> HIDE DEF r
<1>4. PICK q \in 1 .. Len(r) : q = p + 1 /\ r[q] = n
  BY <1>1, <1>2
<1>5. Onward(r, n) = {r[j] : j \in p + 1 .. Len(r)}
  <2>0. r \in Seq(S)
    BY <1>1
  <2>1. Onward(r, r[q]) = {r[j] : j \in q .. Len(r)}
    BY <1>3, <2>0, OnwardFrom
  <2> QED
    BY <1>4, <2>1
<1>6. Onward(s, n) = {s[j] : j \in p .. Len(s)}
  BY <1>2, OnwardFrom
<1>7. \A j \in p + 1 .. Len(r) : r[j] = s[j - 1] /\ j - 1 \in p .. Len(s)
  BY <1>1
<1>8. \A j \in p .. Len(s) : s[j] = r[j + 1] /\ j + 1 \in p + 1 .. Len(r)
  BY <1>1
<1>9. {r[j] : j \in p + 1 .. Len(r)} \subseteq {s[j] : j \in p .. Len(s)}
  BY ONLY <1>7
<1>10. {s[j] : j \in p .. Len(s)} \subseteq {r[j] : j \in p + 1 .. Len(r)}
  BY ONLY <1>8
<1>11. {r[j] : j \in p + 1 .. Len(r)} = {s[j] : j \in p .. Len(s)}
  BY ONLY <1>9, <1>10
<1> QED
  BY ONLY <1>5, <1>6, <1>11 DEF r

(* The nodes behind a node. *)
LEMMA OnwardNext ==
  ASSUME NEW S, NEW s \in Seq(S), IsInjective(s), NEW p \in 1 .. Len(s)
  PROVE  {s[j] : j \in p + 1 .. Len(s)} = Onward(s, s[p]) \ {s[p]}
<1>1. Onward(s, s[p]) = {s[j] : j \in p .. Len(s)}
  BY OnwardFrom
<1>2. DOMAIN s = 1 .. Len(s) /\ Len(s) \in Nat
  OBVIOUS
<1>3. \A j \in p + 1 .. Len(s) : j \in p .. Len(s) /\ j # p /\ j \in 1 .. Len(s)
  BY <1>2
<1>4. \A j \in p + 1 .. Len(s) : s[j] # s[p]
  BY <1>2, <1>3 DEF IsInjective
<1>5. \A j \in p .. Len(s) : j = p \/ j \in p + 1 .. Len(s)
  BY <1>2
<1> QED
  BY <1>1, <1>3, <1>4, <1>5

(* All nodes of a bucket are from the first one on.                          *)
LEMMA OnwardFirst ==
  ASSUME NEW S, NEW s \in Seq(S), s # <<>>
  PROVE  Head(s) \in S /\ Head(s) \in ToSet(s) /\ Onward(s, Head(s)) = ToSet(s)
<1>1. DOMAIN s = 1 .. Len(s) /\ Len(s) \in Nat /\ Len(s) # 0 /\ Head(s) = s[1] /\ s[1] \in S
  OBVIOUS
<1>2. 1 \in 1 .. Len(s)
  BY <1>1
<1>3. \A j \in 1 .. Len(s) : \E i \in 1 .. j : s[i] = Head(s)
  <2>1. \A j \in 1 .. Len(s) : 1 \in 1 .. j
    BY <1>1
  <2> QED
    BY <1>1, <2>1
<1> QED
  BY <1>1, <1>2, <1>3 DEF Onward, ToSet

(* Where a node is in a bucket. *)
LEMMA Least ==
  ASSUME NEW D \in SUBSET Nat, D # {}
  PROVE  Min(D) \in D /\ \A d \in D : Min(D) <= d
BY LeastNumber DEF Min

(* A set of numbers below a bound has a greatest one, which Max chooses.     *)
LEMMA Greatest ==
  ASSUME NEW D \in SUBSET Nat, D # {}, NEW b \in Nat, \A d \in D : d <= b
  PROVE  Max(D) \in D /\ \A d \in D : d <= Max(D)
<1> DEFINE E == {b - d : d \in D}
<1>1. E \in SUBSET Nat /\ E # {}
  <2>1. ASSUME NEW d \in D PROVE b - d \in Nat
    <3>1. d \in Nat /\ d <= b
      OBVIOUS
    <3> QED
      BY <3>1
  <2>2. E \subseteq Nat
    BY <2>1
  <2>3. PICK d \in D : TRUE
    OBVIOUS
  <2>4. b - d \in E
    OBVIOUS
  <2> QED
    BY <2>2, <2>4
<1>2. PICK e \in E : \A f \in E : e <= f
  BY <1>1, LeastNumber
<1>3. PICK d \in D : e = b - d
  BY <1>2
<1>4. \A c \in D : b - d <= b - c
  BY <1>2, <1>3
<1>5. \A c \in D : d >= c
  BY <1>3, <1>4
<1>6. \E c \in D : \A y \in D : c >= y
  BY <1>3, <1>5
<1>7. Max(D) \in D /\ \A y \in D : Max(D) >= y
  BY <1>6 DEF Max
<1> QED
  BY <1>7

(* The place of an element that is in the sequence, which SelectInSeq finds. *)
LEMMA Place ==
  ASSUME NEW S, NEW s \in Seq(S), NEW n \in ToSet(s)
  PROVE  LET p == SelectInSeq(s, LAMBDA m : m = n)
         IN p \in 1 .. Len(s) /\ s[p] = n
<1> DEFINE I == {i \in 1 .. Len(s) : s[i] = n}
<1>1. I # {} /\ I \in SUBSET Nat
  BY DEF ToSet
<1>2. SelectInSeq(s, LAMBDA m : m = n) = Min(I)
  BY <1>1 DEF SelectInSeq
<1>3. Min(I) \in I
  BY <1>1, Least
<1> QED
  BY <1>2, <1>3

(* What the removal of an element changes. *)
LEMMA Without ==
  ASSUME NEW S, NEW s \in Seq(S), NEW p \in 1 .. Len(s)
  PROVE  LET r == RemoveAt(s, p)
         IN /\ r \in Seq(S) /\ Len(r) = Len(s) - 1
            /\ \A i \in 1 .. Len(s) - 1 : r[i] = IF i < p THEN s[i] ELSE s[i + 1]
<1> DEFINE a == SubSeq(s, 1, p - 1)
           b == SubSeq(s, p + 1, Len(s))
<1>1. a \in Seq(S) /\ Len(a) = p - 1 /\ \A i \in 1 .. p - 1 : a[i] = s[i]
  OBVIOUS
<1>2. b \in Seq(S) /\ Len(b) = Len(s) - p /\ \A i \in 1 .. Len(s) - p : b[i] = s[p + i]
  OBVIOUS
<1>3. RemoveAt(s, p) = a \o b /\ Len(s) \in Nat
  BY DEF RemoveAt
<1> HIDE DEF a, b
<1>4. a \o b \in Seq(S) /\ Len(a \o b) = Len(s) - 1
  BY <1>1, <1>2, <1>3
<1>5. \A i \in 1 .. Len(s) - 1 : (a \o b)[i] = IF i < p THEN s[i] ELSE s[i + 1]
  <2> SUFFICES ASSUME NEW i \in 1 .. Len(s) - 1
               PROVE  (a \o b)[i] = IF i < p THEN s[i] ELSE s[i + 1]
    OBVIOUS
  <2>1. (a \o b)[i] = IF i <= Len(a) THEN a[i] ELSE b[i - Len(a)]
    BY <1>1, <1>2, <1>3
  <2>2. CASE i < p
    BY <1>1, <2>1, <2>2
  <2>3. CASE ~(i < p)
    <3>1. i - (p - 1) \in 1 .. Len(s) - p /\ p + (i - (p - 1)) = i + 1
      BY <1>3, <2>3
    <3> QED
      BY <1>1, <1>2, <2>1, <2>3, <3>1
  <2> QED
    BY <2>2, <2>3
<1> QED
  BY <1>3, <1>4, <1>5

(* A node taken out of a bucket leaves the others in their order.            *)
LEMMA Taken ==
  ASSUME NEW S, NEW s \in Seq(S), IsInjective(s), NEW n \in ToSet(s)
  PROVE  LET r == RemoveFirst(s, n)
         IN /\ r \in Seq(S) /\ IsInjective(r) /\ ToSet(r) = ToSet(s) \ {n}
            /\ \A m \in ToSet(s) \ {n} : Onward(r, m) = Onward(s, m) \ {n}
<1> DEFINE p == SelectInSeq(s, LAMBDA v : v = n)
           r == RemoveAt(s, p)
<1>1. p \in 1 .. Len(s) /\ s[p] = n
  BY Place
<1>2. DOMAIN s = 1 .. Len(s) /\ Len(s) \in Nat
  OBVIOUS
<1>3. RemoveFirst(s, n) = r
  BY <1>1 DEF RemoveFirst
<1> HIDE DEF p
<1>4. /\ r \in Seq(S) /\ Len(r) = Len(s) - 1
      /\ \A i \in 1 .. Len(s) - 1 : r[i] = IF i < p THEN s[i] ELSE s[i + 1]
  BY <1>1, Without
<1>5. DOMAIN r = 1 .. Len(s) - 1
  BY <1>4
<1> HIDE DEF r
<1> DEFINE old(i) == IF i < p THEN i ELSE i + 1
<1>6. \A i \in 1 .. Len(s) - 1 : old(i) \in 1 .. Len(s) /\ old(i) # p /\ r[i] = s[old(i)]
  BY <1>1, <1>2, <1>4
<1>7. \A j \in 1 .. Len(s) : j # p => \E i \in 1 .. Len(s) - 1 : old(i) = j
  <2> SUFFICES ASSUME NEW j \in 1 .. Len(s), j # p
               PROVE  \E i \in 1 .. Len(s) - 1 : old(i) = j
    OBVIOUS
  <2>1. CASE j < p
    BY <1>1, <1>2, <2>1
  <2>2. CASE ~(j < p)
    <3>1. j - 1 \in 1 .. Len(s) - 1 /\ old(j - 1) = j
      BY <1>1, <1>2, <2>2
    <3> QED
      BY <3>1
  <2> QED
    BY <2>1, <2>2
<1>8. \A i, j \in 1 .. Len(s) - 1 : /\ old(i) = old(j) => i = j
                                   /\ i <= j <=> old(i) <= old(j)
  BY <1>1, <1>2
<1> HIDE DEF old
<1>9. IsInjective(r)
  <2> SUFFICES ASSUME NEW i \in 1 .. Len(s) - 1, NEW j \in 1 .. Len(s) - 1, r[i] = r[j]
               PROVE  i = j
    BY <1>5 DEF IsInjective
  <2>1. old(i) = old(j)
    BY <1>2, <1>6 DEF IsInjective
  <2> QED
    BY <1>8, <2>1
<1>10. \A j \in 1 .. Len(s) : s[j] = n <=> j = p
  BY <1>1, <1>2 DEF IsInjective
<1>11. ToSet(r) = ToSet(s) \ {n}
  <2>1. ASSUME NEW i \in 1 .. Len(s) - 1 PROVE r[i] \in ToSet(s) \ {n}
    BY <1>2, <1>6, <1>10 DEF ToSet
  <2>2. ASSUME NEW j \in 1 .. Len(s), s[j] # n PROVE s[j] \in ToSet(r)
    BY <1>5, <1>6, <1>7, <1>10, <2>2 DEF ToSet
  <2> QED
    BY <1>2, <1>5, <2>1, <2>2 DEF ToSet
<1>12. ASSUME NEW m \in ToSet(s) \ {n} PROVE Onward(r, m) = Onward(s, m) \ {n}
  <2>1. PICK q \in 1 .. Len(s) - 1 : s[old(q)] = m
    BY <1>1, <1>2, <1>7 DEF ToSet
  <2>2. r[q] = m /\ old(q) \in 1 .. Len(s) /\ Len(r) = Len(s) - 1
    BY <1>4, <1>6, <2>1
  <2>3. Onward(r, m) = {r[j] : j \in q .. Len(s) - 1}
    BY <1>4, <1>9, <2>2, OnwardFrom
  <2>4. Onward(s, m) = {s[j] : j \in old(q) .. Len(s)}
    BY <2>1, <2>2, OnwardFrom
  <2>5. ASSUME NEW j \in q .. Len(s) - 1 PROVE r[j] \in Onward(s, m) \ {n}
    <3>1. j \in 1 .. Len(s) - 1 /\ q <= j
      BY <1>2
    <3>2. old(j) \in 1 .. Len(s) /\ old(j) # p /\ r[j] = s[old(j)] /\ old(q) <= old(j)
      BY <1>6, <1>8, <3>1
    <3>3. old(j) \in old(q) .. Len(s)
      BY <1>2, <2>2, <3>2
    <3> QED
      BY <1>10, <2>4, <3>2, <3>3
  <2>6. ASSUME NEW j \in old(q) .. Len(s), s[j] # n PROVE s[j] \in Onward(r, m)
    <3>1. j \in 1 .. Len(s) /\ j # p /\ old(q) <= j
      BY <1>2, <1>10, <2>2, <2>6
    <3>2. PICK i \in 1 .. Len(s) - 1 : old(i) = j
      BY <1>7, <3>1
    <3>3. q <= i /\ r[i] = s[j]
      BY <1>6, <1>8, <3>1, <3>2
    <3>4. i \in q .. Len(s) - 1
      BY <3>3, <1>2
    <3> QED
      BY <2>3, <3>3, <3>4
  <2> QED
    BY <2>3, <2>4, <2>5, <2>6
<1> QED
  BY <1>3, <1>4, <1>9, <1>11, <1>12
(* f has the value a first, and each further value is G's of the one before. *)
Recursion(f, b, n, V, a, G) ==
  /\ f \in [b .. n -> V]
  /\ \A i \in b .. n : f[i] = IF i = b THEN a ELSE G[<<i, f[i - 1]>>]

(* A function defined by recursion over a range exists. *)
LEMMA RecursiveFunction ==
  ASSUME NEW b \in Nat, NEW n \in Nat, b <= n, NEW V, NEW a \in V, NEW G \in [Nat \X V -> V]
  PROVE  \E f : Recursion(f, b, n, V, a, G)
<1> DEFINE IsF(f, m) == \A i \in b .. m : f[i] = IF i = b THEN a ELSE G[<<i, f[i - 1]>>]
           D == {d \in Nat : \E f \in [b .. b + d -> V] : IsF(f, b + d)}
<1> HIDE DEF IsF, D
<1>1. 0 \in D
  <2>1. b + 0 = b /\ b .. b = {b}
    OBVIOUS
  <2>2. [i \in b .. b |-> a] \in [b .. b -> V]
    OBVIOUS
  <2>3. IsF([i \in b .. b |-> a], b)
    BY <2>1 DEF IsF
  <2> QED
    BY <2>1, <2>2, <2>3 DEF D
<1>2. ASSUME NEW d \in D PROVE d + 1 \in D
  <2>1. d \in Nat /\ \E f \in [b .. b + d -> V] : IsF(f, b + d)
    BY DEF D
  <2>2. PICK m \in Nat : m = b + d /\ b <= m
    BY <2>1
  <2>3. PICK f \in [b .. m -> V] : IsF(f, m)
    BY <2>1, <2>2
  <2> DEFINE g == [i \in b .. m + 1 |-> IF i = m + 1 THEN G[<<m + 1, f[m]>>] ELSE f[i]]
  <2>4. m \in b .. m /\ m \in b .. m + 1 /\ m + 1 \in b .. m + 1 /\ m # m + 1 /\ m + 1 # b
    BY <2>2
  <2>5. f[m] \in V /\ <<m + 1, f[m]>> \in Nat \X V
    BY <2>2, <2>4
  <2>6. G[<<m + 1, f[m]>>] \in V
    BY <2>5
  <2>7. g \in [b .. m + 1 -> V] /\ g[m + 1] = G[<<m + 1, f[m]>>] /\ g[m] = f[m]
    <3>1. \A i \in b .. m + 1 : i # m + 1 => i \in b .. m
      BY <2>2
    <3>2. \A i \in b .. m + 1 : (IF i = m + 1 THEN G[<<m + 1, f[m]>>] ELSE f[i]) \in V
      BY <2>6, <3>1
    <3> QED
      BY <2>4, <3>2
  <2>8. ASSUME NEW i \in b .. m PROVE i \in b .. m + 1 /\ i # m + 1 /\ g[i] = f[i]
    <3>1. i \in b .. m + 1 /\ i # m + 1
      BY <2>2
    <3> QED
      BY <3>1
  <2> HIDE DEF g
  <2>9. ASSUME NEW i \in b .. m + 1 PROVE g[i] = IF i = b THEN a ELSE G[<<i, g[i - 1]>>]
    <3>1. CASE i = m + 1
      <4>1. i - 1 = m /\ i # b
        BY <2>2, <3>1
      <4> QED
        BY <2>7, <3>1, <4>1
    <3>2. CASE i # m + 1
      <4>1. i \in b .. m /\ (i # b => i - 1 \in b .. m)
        BY <2>2, <3>2
      <4>2. f[i] = IF i = b THEN a ELSE G[<<i, f[i - 1]>>]
        BY <2>3, <4>1 DEF IsF
      <4> QED
        BY <2>8, <4>1, <4>2
    <3> QED
      BY <3>1, <3>2
  <2>10. IsF(g, m + 1)
    BY <2>9 DEF IsF
  <2>11. m + 1 = b + (d + 1) /\ d + 1 \in Nat
    BY <2>1, <2>2
  <2> QED
    BY <2>7, <2>10, <2>11 DEF D
<1>3. D = Nat
  <2>1. D \subseteq Nat
    BY DEF D
  <2> QED
    BY <1>1, <1>2, <2>1, NumberInduction
<1>4. PICK d \in Nat : b + d = n
  <2>1. n - b \in Nat /\ b + (n - b) = n
    OBVIOUS
  <2> QED
    BY <2>1
<1>5. \E f \in [b .. n -> V] : IsF(f, n)
  BY <1>3, <1>4 DEF D
<1> QED
  BY <1>5 DEF IsF, Recursion

(* Two sequences with no common element, one behind the other.               *)
LEMMA Joined ==
  ASSUME NEW S, NEW s \in Seq(S), NEW r \in Seq(S), IsInjective(s), IsInjective(r),
         ToSet(s) \cap ToSet(r) = {}
  PROVE  /\ s \o r \in Seq(S) /\ IsInjective(s \o r)
         /\ ToSet(s \o r) = ToSet(s) \cup ToSet(r)
<1> DEFINE j == s \o r
<1>1. /\ j \in Seq(S) /\ Len(j) = Len(s) + Len(r) /\ Len(s) \in Nat /\ Len(r) \in Nat
      /\ DOMAIN s = 1 .. Len(s) /\ DOMAIN r = 1 .. Len(r) /\ DOMAIN j = 1 .. Len(j)
  OBVIOUS
<1>2. \A i \in 1 .. Len(j) : j[i] = IF i <= Len(s) THEN s[i] ELSE r[i - Len(s)]
  BY <1>1
<1> HIDE DEF j
<1>3. ASSUME NEW i \in 1 .. Len(j)
      PROVE  \/ i \in 1 .. Len(s) /\ j[i] = s[i] /\ j[i] \in ToSet(s)
             \/ i - Len(s) \in 1 .. Len(r) /\ j[i] = r[i - Len(s)] /\ j[i] \in ToSet(r)
  <2>1. CASE i <= Len(s)
    <3>1. i \in 1 .. Len(s)
      BY <1>1, <2>1
    <3> QED
      BY <1>1, <1>2, <2>1, <3>1 DEF ToSet
  <2>2. CASE ~(i <= Len(s))
    <3>1. i - Len(s) \in 1 .. Len(r)
      BY <1>1, <2>2
    <3> QED
      BY <1>1, <1>2, <2>2, <3>1 DEF ToSet
  <2> QED
    BY <2>1, <2>2
<1>4. IsInjective(j)
  <2> SUFFICES ASSUME NEW i \in 1 .. Len(j), NEW k \in 1 .. Len(j), j[i] = j[k] PROVE i = k
    BY <1>1 DEF IsInjective
  <2>1. CASE i \in 1 .. Len(s) /\ j[i] = s[i] /\ j[i] \in ToSet(s)
    <3>1. k \in 1 .. Len(s) /\ j[k] = s[k]
      BY <1>3, <2>1
    <3> QED
      BY <1>1, <2>1, <3>1 DEF IsInjective
  <2>2. CASE i - Len(s) \in 1 .. Len(r) /\ j[i] = r[i - Len(s)] /\ j[i] \in ToSet(r)
    <3>1. k - Len(s) \in 1 .. Len(r) /\ j[k] = r[k - Len(s)]
      BY <1>3, <2>2
    <3>2. i - Len(s) = k - Len(s)
      BY <1>1, <2>2, <3>1 DEF IsInjective
    <3> QED
      BY <1>1, <3>2
  <2> QED
    BY <1>3, <2>1, <2>2
<1>5. ToSet(j) = ToSet(s) \cup ToSet(r)
  <2>1. ToSet(j) \subseteq ToSet(s) \cup ToSet(r)
    BY <1>1, <1>3 DEF ToSet
  <2>2. ASSUME NEW i \in 1 .. Len(s) PROVE s[i] \in ToSet(j)
    <3>1. i \in 1 .. Len(j) /\ i <= Len(s)
      BY <1>1
    <3> QED
      BY <1>1, <1>2, <3>1 DEF ToSet
  <2>3. ASSUME NEW i \in 1 .. Len(r) PROVE r[i] \in ToSet(j)
    <3>1. i + Len(s) \in 1 .. Len(j) /\ ~(i + Len(s) <= Len(s)) /\ i + Len(s) - Len(s) = i
      BY <1>1
    <3>2. j[i + Len(s)] = r[i]
      BY <1>2, <3>1
    <3> QED
      BY <1>1, <3>1, <3>2 DEF ToSet
  <2> QED
    BY <1>1, <2>1, <2>2, <2>3 DEF ToSet
<1> QED
  BY <1>1, <1>4, <1>5 DEF j

(* The elements of sequences put one behind the other. *)
LEMMA Flattened ==
  ASSUME NEW S, NEW ss \in Seq(Seq(S)), \A i \in 1 .. Len(ss) : IsInjective(ss[i]),
         \A i, j \in 1 .. Len(ss) : i # j => ToSet(ss[i]) \cap ToSet(ss[j]) = {}
  PROVE  /\ FlattenSeq(ss) \in Seq(S) /\ IsInjective(FlattenSeq(ss))
         /\ ToSet(FlattenSeq(ss)) = UNION {ToSet(ss[i]) : i \in 1 .. Len(ss)}
<1>0. Len(ss) \in Nat /\ \A i \in 1 .. Len(ss) : ss[i] \in Seq(S)
  OBVIOUS
<1>1. CASE Len(ss) = 0
  <2>1. ss = <<>> /\ FlattenSeq(ss) = <<>>
    BY <1>1 DEF FlattenSeq
  <2>2. <<>> \in Seq(S) /\ DOMAIN <<>> = {} /\ 1 .. Len(ss) = {}
    BY <1>1
  <2> QED
    BY <2>1, <2>2 DEF ToSet, IsInjective
<1>2. CASE Len(ss) # 0
  <2> DEFINE n == Len(ss)
             IsF(f) == f = [i \in 1 .. n |-> IF i = 1 THEN ss[i] ELSE f[i - 1] \o ss[i]]
             V == Seq(S)
             G == [p \in Nat \X V |-> IF p[1] \in 1 .. n THEN p[2] \o ss[p[1]] ELSE p[2]]
  <2>1. n \in Nat /\ 1 \in Nat /\ 1 <= n /\ 1 \in 1 .. n
    BY <1>0, <1>2
  <2>2. ss[1] \in V
    BY <1>0, <2>1
  <2> HIDE DEF IsF
  <2>3. G \in [Nat \X V -> V]
    <3>1. ASSUME NEW p \in Nat \X V PROVE (IF p[1] \in 1 .. n THEN p[2] \o ss[p[1]] ELSE p[2]) \in V
      <4>1. p[2] \in Seq(S)
        OBVIOUS
      <4>2. p[1] \in 1 .. n => ss[p[1]] \in Seq(S)
        BY <1>0
      <4> QED
        BY <4>1, <4>2
    <3> QED
      BY <3>1
  <2>4. PICK f \in [1 .. n -> V] : \A i \in 1 .. n : f[i] = IF i = 1 THEN ss[1] ELSE G[<<i, f[i - 1]>>]
    <3> DEFINE a == ss[1]
    <3>1. a \in V
      BY <2>2
    <3> HIDE DEF V, G, n, a
    <3>2. \E f : Recursion(f, 1, n, V, a, G)
      BY <2>1, <2>3, <3>1, RecursiveFunction
    <3> QED
      BY <3>2 DEF Recursion, a
  <2>5. IsF(f)
    <3>1. ASSUME NEW i \in 1 .. n
          PROVE  f[i] = IF i = 1 THEN ss[i] ELSE f[i - 1] \o ss[i]
      <4>1. CASE i = 1
        BY <2>4, <4>1
      <4>2. CASE i # 1
        <5>1. PICK k \in 1 .. n : k = i - 1
          BY <2>1, <4>2
        <5>2. i \in Nat /\ f[k] \in V
          <6> HIDE DEF V, G, n
          <6> QED
            BY <2>1
        <5>3. G[<<i, f[k]>>] = f[k] \o ss[i]
          BY <5>2
        <5> HIDE DEF G, V, n
        <5> QED
          BY <2>4, <4>2, <5>1, <5>3
      <4> QED
        BY <4>1, <4>2
    <3>2. f = [i \in 1 .. n |-> f[i]]
      OBVIOUS
    <3> HIDE DEF n
    <3> QED
      BY <3>1, <3>2 DEF IsF
  <2> DEFINE h == CHOOSE f1 : IsF(f1)
  <2>6. IsF(h)
    BY <2>5
  <2>7. FlattenSeq(ss) = h[n]
    BY <1>2 DEF FlattenSeq, IsF
  <2> HIDE DEF h
  <2>8. \A i \in 1 .. n : h[i] = IF i = 1 THEN ss[i] ELSE h[i - 1] \o ss[i]
    BY <2>6 DEF IsF
  <2> HIDE DEF G, V
  <2> DEFINE Good(i) == /\ h[i] \in Seq(S) /\ IsInjective(h[i])
                        /\ ToSet(h[i]) = UNION {ToSet(ss[j]) : j \in 1 .. i}
             D == {i \in Nat : i + 1 <= n => Good(i + 1)}
  <2> HIDE DEF Good, D, n
  <2>9. 0 \in D
    <3>1. h[1] = ss[1]
      BY <2>1, <2>8
    <3>2. UNION {ToSet(ss[j]) : j \in 1 .. 1} = ToSet(ss[1])
      <4>1. 1 .. 1 = {1}
        OBVIOUS
      <4> QED
        BY <4>1
    <3>3. Good(1)
      BY <1>0, <2>1, <3>1, <3>2 DEF Good, n
    <3> QED
      BY <3>3 DEF D
  <2>10. ASSUME NEW i \in D PROVE i + 1 \in D
    <3>1. i \in Nat /\ (i + 1 <= n => Good(i + 1))
      BY DEF D
    <3> SUFFICES ASSUME i + 1 + 1 <= n PROVE Good(i + 1 + 1)
      BY <3>1 DEF D
    <3>2. PICK k \in Nat : k = i + 1
      BY <3>1
    <3>3. k \in 1 .. n /\ k + 1 \in 1 .. n /\ k + 1 # 1 /\ k + 1 - 1 = k
      BY <2>1, <3>1, <3>2
    <3>4. Good(k)
      BY <2>1, <3>1, <3>2
    <3>5. h[k + 1] = h[k] \o ss[k + 1]
      <4>1. PICK j \in 1 .. n : j = k + 1 /\ j # 1 /\ j - 1 = k
        BY <3>3
      <4>2. h[j] = h[j - 1] \o ss[j]
        BY <2>8, <4>1
      <4> QED
        BY <4>1, <4>2
    <3>6. ToSet(h[k]) \cap ToSet(ss[k + 1]) = {}
      <4>1. \A j \in 1 .. k : j \in 1 .. n /\ j # k + 1
        BY <3>3, <2>1
      <4>2. \A j \in 1 .. k : ToSet(ss[j]) \cap ToSet(ss[k + 1]) = {}
        BY <3>3, <4>1 DEF n
      <4> QED
        BY <3>4, <4>2 DEF Good
    <3>7. ss[k + 1] \in Seq(S) /\ IsInjective(ss[k + 1])
      BY <1>0, <3>3 DEF n
    <3>8. h[k] \in Seq(S) /\ IsInjective(h[k])
      BY <3>4 DEF Good
    <3>9. /\ h[k] \o ss[k + 1] \in Seq(S) /\ IsInjective(h[k] \o ss[k + 1])
          /\ ToSet(h[k] \o ss[k + 1]) = ToSet(h[k]) \cup ToSet(ss[k + 1])
      BY <3>6, <3>7, <3>8, Joined
    <3>10. 1 .. k + 1 = (1 .. k) \cup {k + 1}
      OBVIOUS
    <3>11. UNION {ToSet(ss[j]) : j \in 1 .. k + 1} = ToSet(h[k]) \cup ToSet(ss[k + 1])
      BY <3>4, <3>10 DEF Good
    <3>12. Good(k + 1)
      BY <3>5, <3>9, <3>11 DEF Good
    <3> QED
      BY <3>2, <3>12
  <2>11. Good(n)
    <3>1. D = Nat
      <4>1. D \subseteq Nat
        BY DEF D
      <4> QED
        BY <2>9, <2>10, <4>1, NumberInduction
    <3>2. PICK i \in Nat : i + 1 = n
      <4>1. n - 1 \in Nat /\ (n - 1) + 1 = n
        BY <2>1
      <4> QED
        BY <4>1
    <3>3. i + 1 <= n => Good(i + 1)
      BY <3>1 DEF D
    <3> QED
      BY <2>1, <3>2, <3>3
  <2> QED
    BY <2>7, <2>11 DEF Good, n
<1> QED
  BY <1>1, <1>2

----------------------------------------------------------------------------
(* Tables. *)

(* The bucket of a node is one of the array.                                 *)
LEMMA BucketIn ==
  ASSUME NEW n \in Nodes, NEW count \in Nat \ {0}
  PROVE  /\ hmn_key(n) \in Keys
         /\ BucketOf(hmn_key(n), count) \in Nat /\ BucketOf(hmn_key(n), count) < count
         /\ BucketOf(hmn_key(n), count) \in 0 .. count - 1
<1>1. hmn_key(n) \in Keys
  BY DEF Nodes, hmn_key
<1>2. Hash[hmn_key(n)] \in Nat
  BY <1>1, HashAssumption
<1> QED
  BY <1>1, <1>2 DEF BucketOf

(* The nodes put into their buckets one by one. *)
LEMMA Spread ==
  ASSUME NEW nodes \in Seq(Nodes), IsInjective(nodes), NEW count \in Nat \ {0}
  PROVE  /\ Distributed(nodes, count) \in [0 .. count - 1 -> Seq(Nodes)]
         /\ \A i \in 0 .. count - 1 :
              /\ IsInjective(Distributed(nodes, count)[i])
              /\ ToSet(Distributed(nodes, count)[i])
                   = {n \in ToSet(nodes) : BucketOf(hmn_key(n), count) = i}
<1> DEFINE l == Len(nodes)
           V == [0 .. count - 1 -> Seq(Nodes)]
           place(n) == BucketOf(hmn_key(n), count)
           put(v, n) == [v EXCEPT ![place(n)] = <<n>> \o @]
           a == [i \in 0 .. count - 1 |-> <<>>]
           IsF(f) == f = [j \in 0 .. l |-> IF j = 0 THEN a ELSE put(f[j - 1], nodes[j])]
           G == [p \in Nat \X V |-> IF p[1] \in 1 .. l THEN put(p[2], nodes[p[1]]) ELSE p[2]]
<1>1. l \in Nat /\ 0 \in Nat /\ 0 <= l /\ DOMAIN nodes = 1 .. l
  OBVIOUS
<1>2. \A i \in 1 .. l : nodes[i] \in Nodes
  BY <1>1
<1>3. a \in V
  <2>1. <<>> \in Seq(Nodes)
    OBVIOUS
  <2> QED
    BY <2>1
<1>4. \A n \in Nodes : place(n) \in 0 .. count - 1
  BY BucketIn
<1> HIDE DEF place
<1>5. ASSUME NEW v \in V, NEW n \in Nodes
      PROVE  /\ put(v, n) \in V
             /\ put(v, n)[place(n)] = <<n>> \o v[place(n)]
             /\ \A i \in 0 .. count - 1 : i # place(n) => put(v, n)[i] = v[i]
  <2>1. place(n) \in 0 .. count - 1 /\ v[place(n)] \in Seq(Nodes)
    BY <1>4
  <2>2. <<n>> \o v[place(n)] \in Seq(Nodes)
    BY <2>1
  <2> QED
    BY <2>1, <2>2
<1> HIDE DEF put, V, a, l, IsF
<1>6. G \in [Nat \X V -> V]
  <2>1. ASSUME NEW p \in Nat \X V
        PROVE  (IF p[1] \in 1 .. l THEN put(p[2], nodes[p[1]]) ELSE p[2]) \in V
    <3>1. p[2] \in V /\ (p[1] \in 1 .. l => nodes[p[1]] \in Nodes)
      BY <1>2
    <3> QED
      BY <1>5, <3>1
  <2> QED
    BY <2>1
<1>7. ASSUME NEW i \in 1 .. l, NEW v \in V PROVE G[<<i, v>>] = put(v, nodes[i])
  <2>1. <<i, v>> \in Nat \X V
    BY <1>1
  <2> QED
    BY <2>1
<1> HIDE DEF G
<1>8. PICK f : Recursion(f, 0, l, V, a, G)
  BY <1>1, <1>3, <1>6, RecursiveFunction
<1>9. IsF(f)
  <2>1. f \in [0 .. l -> V]
    BY <1>8 DEF Recursion
  <2>2. ASSUME NEW j \in 0 .. l PROVE f[j] = IF j = 0 THEN a ELSE put(f[j - 1], nodes[j])
    <3>1. CASE j = 0
      BY <1>8, <3>1 DEF Recursion
    <3>2. CASE j # 0
      <4>1. PICK k \in 0 .. l : k = j - 1
        BY <1>1, <3>2
      <4>2. j \in 1 .. l
        BY <1>1, <3>2
      <4>3. f[j] = G[<<j, f[k]>>] /\ f[k] \in V
        BY <1>8, <2>1, <3>2, <4>1 DEF Recursion
      <4>4. G[<<j, f[k]>>] = put(f[k], nodes[j])
        BY <1>7, <4>2, <4>3
      <4> QED
        BY <3>2, <4>1, <4>3, <4>4
    <3> QED
      BY <3>1, <3>2
  <2>3. f = [j \in 0 .. l |-> f[j]]
    BY <2>1
  <2> QED
    BY <2>2, <2>3 DEF IsF
<1> DEFINE h == CHOOSE f1 : IsF(f1)
<1>10. IsF(h)
  BY <1>9
<1>11. Distributed(nodes, count) = h[l]
  BY DEF Distributed, IsF, l, a, put, place
<1> HIDE DEF h
<1>12. /\ h[0] = a
       /\ \A j \in 1 .. l : h[j] = put(h[j - 1], nodes[j])
  <2>1. \A j \in 0 .. l : h[j] = IF j = 0 THEN a ELSE put(h[j - 1], nodes[j])
    BY <1>10 DEF IsF
  <2>2. 0 \in 0 .. l /\ \A j \in 1 .. l : j \in 0 .. l /\ j # 0
    BY <1>1
  <2> QED
    BY <2>1, <2>2
<1> DEFINE Has(v, j) == /\ v \in V
                        /\ \A i \in 0 .. count - 1 :
                             /\ IsInjective(v[i])
                             /\ \A n : n \in ToSet(v[i]) <=> \E k \in 1 .. j : n = nodes[k] /\ place(n) = i
           D == {j \in Nat : j <= l => Has(h[j], j)}
<1>13. Has(a, 0)
  <2>1. \A i \in 0 .. count - 1 : a[i] = <<>>
    BY DEF a
  <2>2. ToSet(<<>>) = {} /\ IsInjective(<<>>) /\ 1 .. 0 = {}
    <3>1. DOMAIN <<>> = {}
      OBVIOUS
    <3> QED
      BY <3>1 DEF ToSet, IsInjective
  <2> QED
    BY <1>3, <2>1, <2>2
<1>14. ASSUME NEW j \in 1 .. l, NEW v, NEW k \in Nat, k = j - 1, Has(v, k)
       PROVE  Has(put(v, nodes[j]), j)
  <2> DEFINE n == nodes[j]
             p == place(n)
             w == put(v, n)
  <2>1. n \in Nodes /\ p \in 0 .. count - 1
    BY <1>2, <1>4
  <2>0. v \in V
    BY <1>14
  <2>2. v \in V /\ w \in V /\ w[p] = <<n>> \o v[p] /\ \A i \in 0 .. count - 1 : i # p => w[i] = v[i]
    <3> HIDE DEF Has, D, n
    <3> QED
      BY <1>5, <2>0, <2>1
  <2>3. \A m \in 1 .. k : m \in 1 .. l /\ m # j /\ nodes[m] # n
    <3>1. \A m \in 1 .. k : m \in 1 .. l /\ m # j
      BY <1>1, <1>14
    <3> QED
      BY <1>1, <3>1 DEF IsInjective
  <2>4. \A m \in 1 .. j : m = j \/ m \in 1 .. k
    BY <1>1, <1>14
  <2>5. j \in 1 .. j /\ \A m \in 1 .. k : m \in 1 .. j
    BY <1>1, <1>14
  <2>6. n \notin ToSet(v[p])
    BY <1>14, <2>1, <2>3
  <2>7. v[p] \in Seq(Nodes) /\ IsInjective(v[p])
    BY <1>14, <2>1, <2>2 DEF V
  <2>8. IsInjective(w[p])
    <3>1. IsInjective(<<n>> \o v[p])
      BY <2>1, <2>6, <2>7, InjectiveAtFront
    <3> QED
      BY <2>2, <3>1
  <2>9. ToSet(w[p]) = ToSet(v[p]) \cup {n}
    <3>1. ToSet(<<n>> \o v[p]) = ToSet(v[p]) \cup {n}
      BY <2>1, <2>7, AtFront
    <3> QED
      BY <2>2, <3>1
  <2> HIDE DEF n, w, p
  <2>10. n = nodes[j] /\ p = place(n)
    BY DEF n, p
  <2>11. ASSUME NEW i \in 0 .. count - 1
         PROVE  /\ IsInjective(w[i])
                /\ \A x : x \in ToSet(w[i]) <=> \E m \in 1 .. j : x = nodes[m] /\ place(x) = i
    <3>1. CASE i = p
      <4>1. ASSUME NEW x, x \in ToSet(w[i])
            PROVE  \E m \in 1 .. j : x = nodes[m] /\ place(x) = i
        <5>1. CASE x = n
          BY <2>5, <2>10, <3>1, <5>1
        <5>2. CASE x \in ToSet(v[i])
          BY <1>14, <2>5, <5>2
        <5> QED
          BY <2>9, <3>1, <4>1, <5>1, <5>2
      <4>2. ASSUME NEW x, NEW m \in 1 .. j, x = nodes[m], place(x) = i PROVE x \in ToSet(w[i])
        <5>1. CASE m = j
          BY <2>9, <2>10, <3>1, <4>2, <5>1
        <5>2. CASE m \in 1 .. k
          BY <1>14, <2>9, <3>1, <4>2, <5>2
        <5> QED
          BY <2>4, <5>1, <5>2
      <4> QED
        BY <2>8, <3>1, <4>1, <4>2
    <3>2. CASE i # p
      <4>1. w[i] = v[i]
        BY <2>2, <3>2
      <4>2. ASSUME NEW x, x \in ToSet(w[i])
            PROVE  \E m \in 1 .. j : x = nodes[m] /\ place(x) = i
        BY <1>14, <2>5, <4>1, <4>2
      <4>3. ASSUME NEW x, NEW m \in 1 .. j, x = nodes[m], place(x) = i PROVE x \in ToSet(w[i])
        BY <1>14, <2>4, <2>10, <3>2, <4>1, <4>3
      <4> QED
        BY <1>14, <4>1, <4>2, <4>3
    <3> QED
      BY <3>1, <3>2
  <2> QED
    BY <2>2, <2>11 DEF n, w
<1> HIDE DEF Has, D
<1>15. 0 \in D
  BY <1>12, <1>13 DEF D
<1>16. ASSUME NEW k \in D PROVE k + 1 \in D
  <2>1. k \in Nat /\ (k <= l => Has(h[k], k))
    BY DEF D
  <2> SUFFICES ASSUME k + 1 <= l PROVE Has(h[k + 1], k + 1)
    BY <2>1 DEF D
  <2>2. PICK j \in 1 .. l : j = k + 1 /\ k = j - 1 /\ k <= l
    BY <1>1, <2>1
  <2>3. h[j] = put(h[k], nodes[j])
    BY <1>12, <2>2
  <2>4. Has(put(h[k], nodes[j]), j)
    BY <1>14, <2>1, <2>2
  <2> QED
    BY <2>2, <2>3, <2>4
<1>17. Has(h[l], l)
  <2>1. D \subseteq Nat
    BY DEF D
  <2>2. D = Nat
    BY <1>15, <1>16, <2>1, NumberInduction
  <2>3. l \in D
    BY <1>1, <2>2
  <2>4. l <= l
    BY <1>1
  <2> QED
    BY <2>3, <2>4 DEF D
<1>18. ASSUME NEW i \in 0 .. count - 1
       PROVE  /\ IsInjective(h[l][i])
              /\ ToSet(h[l][i]) = {n \in ToSet(nodes) : place(n) = i}
  <2>1. \A n : n \in ToSet(nodes) <=> \E k \in 1 .. l : n = nodes[k]
    BY <1>1 DEF ToSet
  <2>2. /\ IsInjective(h[l][i])
        /\ \A n : n \in ToSet(h[l][i]) <=> \E k \in 1 .. l : n = nodes[k] /\ place(n) = i
    BY <1>17 DEF Has
  <2>3. ASSUME NEW n PROVE n \in ToSet(h[l][i]) <=> n \in {x \in ToSet(nodes) : place(x) = i}
    BY <2>1, <2>2
  <2> QED
    BY <2>2, <2>3
<1> QED
  BY <1>11, <1>17, <1>18 DEF Has, V, place

(* The capacity for a number of nodes is greater than it, so that the array  *)
(* always keeps an empty place (_DeeDictCapacityOf).                         *)
LEMMA Capacity ==
  ASSUME NEW x \in Nat
  PROVE  /\ _DeeDictCapacityOf(x) \in Nat
         /\ x = 0 => _DeeDictCapacityOf(x) = 0
         /\ x # 0 => _DeeDictCapacityOf(x) > x
<1>1. CASE x = 0
  BY <1>1 DEF _DeeDictCapacityOf
<1>2. CASE x # 0
  <2> DEFINE twos == {p \in 1 .. x : /\ x % p = 0
                                     /\ \A d \in 1 .. p : p % d = 0 /\ d % 2 = 1 => d = 1}
  <2>1. 1 \in twos
    <3>1. 1 \in 1 .. x
      BY <1>2
    <3>2. x % 1 = 0
      OBVIOUS
    <3>3. \A d \in 1 .. 1 : d = 1
      OBVIOUS
    <3> QED
      BY <3>1, <3>2, <3>3
  <2>2. twos \in SUBSET Nat /\ \A p \in twos : p <= x /\ p >= 1
    OBVIOUS
  <2>3. _DeeDictCapacityOf(x) = x + Max(twos)
    BY <1>2 DEF _DeeDictCapacityOf
  <2> HIDE DEF twos
  <2>4. Max(twos) \in twos
    BY <2>1, <2>2, Greatest
  <2>5. Max(twos) \in Nat /\ Max(twos) >= 1
    BY <2>2, <2>4
  <2> QED
    BY <1>2, <2>3, <2>5
<1> QED
  BY <1>1, <1>2

(* A bucket is empty when it has no elements.                                *)
LEMMA NoElements ==
  ASSUME NEW S, NEW s \in Seq(S)
  PROVE  s = <<>> <=> ToSet(s) = {}
<1>1. DOMAIN s = 1 .. Len(s) /\ Len(s) \in Nat /\ (s = <<>> <=> Len(s) = 0)
  OBVIOUS
<1>2. Len(s) # 0 => 1 \in 1 .. Len(s)
  BY <1>1
<1>3. Len(s) = 0 => 1 .. Len(s) = {}
  OBVIOUS
<1> QED
  BY <1>1, <1>2, <1>3 DEF ToSet

(* The buckets that have a node. *)
LEMMA FilledAre ==
  ASSUME NEW m, NEW N \in SUBSET Nodes, m.hm_bucket_count \in Nat, Buckets(m, N)
  PROVE  /\ Filled(m) = {i \in 0 .. m.hm_bucket_count - 1 :
                           \E n \in N : BucketOf(hmn_key(n), m.hm_bucket_count) = i}
         /\ Filled(m) \in SUBSET Nat
         /\ \A i \in Filled(m) : i < m.hm_bucket_count /\ i <= m.hm_bucket_count
         /\ Filled(m) = {} <=> N = {}
         /\ NodesOf(m) = N
<1> DEFINE count == m.hm_bucket_count
           place(n) == BucketOf(hmn_key(n), count)
<1>1. DOMAIN m.chain = 0 .. count - 1 /\ count \in Nat
  BY DEF Buckets
<1>2. \A n \in N : count # 0 /\ place(n) \in 0 .. count - 1
  BY BucketIn DEF Buckets
<1>3. ASSUME NEW i \in 0 .. count - 1
      PROVE  m.chain[i] # <<>> <=> \E n \in N : place(n) = i
  <2>1. m.chain[i] \in Seq(Nodes) /\ ToSet(m.chain[i]) = {n \in N : place(n) = i}
    BY <1>1 DEF Buckets
  <2> QED
    BY <2>1, NoElements
<1>4. Filled(m) = {i \in 0 .. count - 1 : \E n \in N : place(n) = i}
  BY <1>1, <1>3 DEF Filled
<1>5. NodesOf(m) = N
  <2>1. ASSUME NEW n \in N PROVE n \in NodesOf(m)
    <3>1. n \in ToSet(m.chain[place(n)]) /\ place(n) \in DOMAIN m.chain
      BY <1>1, <1>2 DEF Buckets
    <3> QED
      BY <3>1 DEF NodesOf
  <2>2. ASSUME NEW n \in NodesOf(m) PROVE n \in N
    BY <1>1 DEF NodesOf, Buckets
  <2> QED
    BY <2>1, <2>2
<1> HIDE DEF place
<1>6. Filled(m) \in SUBSET Nat /\ \A i \in Filled(m) : i < count /\ i <= count
  BY <1>1, <1>4
<1>7. Filled(m) = {} <=> N = {}
  BY <1>2, <1>4
<1> QED
  BY <1>4, <1>5, <1>6, <1>7 DEF place

(* The range, looked up in the whole array. *)
LEMMA Updated ==
  ASSUME NEW m, NEW N \in SUBSET Nodes, N # {}, Header(m), Buckets(m, N)
  PROVE  LET u == _DeeHashMap_UpdateValidBuckets(m)
         IN /\ Header(u) /\ Buckets(u, N) /\ Ranged(u)
            /\ u.hm_buckets = m.hm_buckets /\ u.hm_bucket_count = m.hm_bucket_count
            /\ u.hm_map_size = m.hm_map_size /\ u.chain = m.chain
<1> DEFINE F == Filled(m)
           u == _DeeHashMap_UpdateValidBuckets(m)
<1>1. F \in SUBSET Nat /\ F # {} /\ \A i \in F : i < m.hm_bucket_count /\ i <= m.hm_bucket_count
  BY FilledAre DEF Header
<1>2. Min(F) \in F /\ \A i \in F : Min(F) <= i
  BY <1>1, Least
<1>3. Max(F) \in F /\ \A i \in F : i <= Max(F)
  BY <1>1, Greatest DEF Header
<1>4. /\ DOMAIN u = Fields
      /\ u.hm_buckets = m.hm_buckets /\ u.hm_bucket_count = m.hm_bucket_count
      /\ u.hm_map_size = m.hm_map_size /\ u.chain = m.chain
      /\ u.valid_begin = Min(F) /\ u.valid_end = Max(F) + 1
  BY DEF Header, Fields, _DeeHashMap_UpdateValidBuckets
<1> HIDE DEF u
<1>5. Filled(u) = F
  BY <1>4 DEF Filled
<1>6. Min(F) \in Nat /\ Max(F) \in Nat /\ Max(F) + 1 \in Nat /\ Max(F) + 1 - 1 = Max(F)
  BY <1>1, <1>2, <1>3
<1>7. Header(u)
  BY <1>4, <1>6 DEF Header
<1>8. Buckets(u, N)
  BY <1>4 DEF Buckets
<1>9. Covered(u)
  <2>1. Max(F) + 1 <= m.hm_bucket_count
    BY <1>1, <1>3, <1>6 DEF Header
  <2>2. \A i \in F : Min(F) <= i /\ i < Max(F) + 1
    BY <1>1, <1>2, <1>3, <1>6
  <2> QED
    BY <1>4, <1>5, <2>1, <2>2 DEF Covered
<1>10. Ranged(u)
  BY <1>1, <1>2, <1>3, <1>4, <1>5, <1>6, <1>9 DEF Ranged
<1> QED
  BY <1>4, <1>7, <1>8, <1>10 DEF u

(* The nodes of the buckets in the range, in their order. *)
LEMMA Ordered ==
  ASSUME NEW m, NEW N \in SUBSET Nodes, N # {}, Header(m), Buckets(m, N), Covered(m)
  PROVE  /\ InOrder(m) \in Seq(Nodes) /\ IsInjective(InOrder(m))
         /\ ToSet(InOrder(m)) = N
<1> DEFINE b == m.valid_begin
           l == m.valid_end - b
           ss == [j \in 1 .. l |-> m.chain[b + j - 1]]
           place(n) == BucketOf(hmn_key(n), m.hm_bucket_count)
<1>1. m.hm_bucket_count \in Nat /\ b \in Nat /\ m.valid_end \in Nat /\ m.valid_end <= m.hm_bucket_count
  BY DEF Header, Covered
<1>2. \A n \in N : place(n) \in Filled(m) /\ b <= place(n) /\ place(n) < m.valid_end
  <2>1. ASSUME NEW n \in N PROVE place(n) \in 0 .. m.hm_bucket_count - 1
    <3>1. m.hm_bucket_count \in Nat \ {0}
      BY <1>1 DEF Buckets
    <3> QED
      BY <3>1, BucketIn
  <2>2. \A n \in N : place(n) \in Filled(m)
    <3> HIDE DEF place
    <3>1. Filled(m) = {i \in 0 .. m.hm_bucket_count - 1 : \E n \in N : place(n) = i}
      BY <1>1, FilledAre DEF place
    <3> QED
      BY <2>1, <3>1
  <2> QED
    BY <2>2 DEF Covered
<1>3. \A n \in N : place(n) \in Nat
  <2>1. Filled(m) \in SUBSET Nat
    BY <1>1, FilledAre
  <2> QED
    BY <1>2, <2>1
<1>4. \A i \in 0 .. m.hm_bucket_count - 1 :
        /\ m.chain[i] \in Seq(Nodes) /\ IsInjective(m.chain[i])
        /\ ToSet(m.chain[i]) = {n \in N : place(n) = i}
  BY DEF Buckets
<1> HIDE DEF place
<1>5. l \in Nat
  <2>1. PICK n \in N : TRUE
    OBVIOUS
  <2>2. place(n) \in Nat /\ b <= place(n) /\ place(n) < m.valid_end
    BY <1>2, <1>3
  <2> QED
    BY <1>1, <2>2
<1>6. ASSUME NEW j \in 1 .. l PROVE b + j - 1 \in 0 .. m.hm_bucket_count - 1
  BY <1>1, <1>5
<1>7. ss \in Seq(Seq(Nodes)) /\ Len(ss) = l
  BY <1>4, <1>5, <1>6
<1>8. \A j \in 1 .. l : ss[j] = m.chain[b + j - 1]
  OBVIOUS
<1> HIDE DEF ss
<1>9. \A j \in 1 .. l : IsInjective(ss[j]) /\ ToSet(ss[j]) = {n \in N : place(n) = b + j - 1}
  BY <1>4, <1>6, <1>8
<1>10. ASSUME NEW i \in 1 .. l, NEW j \in 1 .. l, i # j
       PROVE  ToSet(ss[i]) \cap ToSet(ss[j]) = {}
  <2>1. b + i - 1 # b + j - 1
    BY <1>1, <1>5, <1>10
  <2> QED
    BY <1>9, <2>1
<1>11. UNION {ToSet(ss[j]) : j \in 1 .. l} = N
  <2>1. ASSUME NEW n \in N PROVE \E j \in 1 .. l : n \in ToSet(ss[j])
    <3>1. PICK j \in 1 .. l : b + j - 1 = place(n)
      <4>1. place(n) - b + 1 \in 1 .. l /\ b + (place(n) - b + 1) - 1 = place(n)
        BY <1>1, <1>2, <1>3, <1>5
      <4> QED
        BY <4>1
    <3> QED
      BY <1>9, <3>1
  <2>2. \A j \in 1 .. l : ToSet(ss[j]) \subseteq N
    BY <1>9
  <2> QED
    BY <2>1, <2>2
<1>12. InOrder(m) = FlattenSeq(ss)
  BY DEF InOrder, ss
<1>13. \A i \in 1 .. Len(ss) : IsInjective(ss[i])
  BY <1>7, <1>9
<1>14. \A i, j \in 1 .. Len(ss) : i # j => ToSet(ss[i]) \cap ToSet(ss[j]) = {}
  BY <1>7, <1>10
<1>15. UNION {ToSet(ss[j]) : j \in 1 .. Len(ss)} = N
  BY <1>7, <1>11
<1>16. ss \in Seq(Seq(Nodes))
  BY <1>7
<1>17. /\ FlattenSeq(ss) \in Seq(Nodes) /\ IsInjective(FlattenSeq(ss))
       /\ ToSet(FlattenSeq(ss)) = UNION {ToSet(ss[j]) : j \in 1 .. Len(ss)}
  BY ONLY <1>13, <1>14, <1>16, Flattened
<1> QED
  BY ONLY <1>12, <1>15, <1>17

(* A rehash keeps the nodes. *)
LEMMA Rehashed ==
  ASSUME NEW m, NEW N \in SUBSET Nodes, N # {}, Header(m), Buckets(m, N), Covered(m),
         NEW count \in Nat \ {0}, NewArray(count) \in {count} \X Places
  PROVE  LET u == _DeeHashMap_Rehash(m, count)
         IN /\ Header(u) /\ Buckets(u, N) /\ Ranged(u)
            /\ u.hm_buckets = NewArray(count) /\ u.hm_bucket_count = count
            /\ u.hm_map_size = m.hm_map_size
<1> DEFINE c == Distributed(InOrder(m), count)
           w == [m EXCEPT !.hm_buckets = NewArray(count), !.hm_bucket_count = count, !.chain = c]
<1>1. InOrder(m) \in Seq(Nodes) /\ IsInjective(InOrder(m)) /\ ToSet(InOrder(m)) = N
  BY Ordered
<1>2. /\ c \in [0 .. count - 1 -> Seq(Nodes)]
      /\ \A i \in 0 .. count - 1 :
           /\ IsInjective(c[i])
           /\ ToSet(c[i]) = {n \in N : BucketOf(hmn_key(n), count) = i}
  BY <1>1, Spread
<1> HIDE DEF c
<1>3. /\ DOMAIN w = Fields /\ w.hm_buckets = NewArray(count) /\ w.hm_bucket_count = count
      /\ w.chain = c /\ w.hm_map_size = m.hm_map_size
      /\ w.valid_begin = m.valid_begin /\ w.valid_end = m.valid_end
  BY DEF Header, Fields
<1>4. _DeeHashMap_Rehash(m, count) = _DeeHashMap_UpdateValidBuckets(w)
  BY DEF _DeeHashMap_Rehash, c
<1> HIDE DEF w
<1>5. Header(w)
  BY <1>3 DEF Header
<1>6. Buckets(w, N)
  BY <1>2, <1>3 DEF Buckets
<1> QED
  BY <1>3, <1>4, <1>5, <1>6, Updated


----------------------------------------------------------------------------
(* The map with a node more, and with a node less. *)

With(f, i, s) == [f EXCEPT ![i] = s]

(* What becomes of the array: nobody remembers it yet, there is none, or it  *)
(* is the one of before and only the bucket of node n has changed.           *)
Same(u, n, s) ==
  /\ map.hm_bucket_count # 0
  /\ u.hm_buckets = map.hm_buckets /\ u.hm_bucket_count = map.hm_bucket_count
  /\ u.chain = With(map.chain, BucketOf(hmn_key(n), map.hm_bucket_count), s)

Moved(u) == u.hm_buckets = NULL \/ \E count \in Nat \ {0} : u.hm_buckets = NewArray(count)

(* A node put in front of its bucket, with the range of the buckets in use   *)
(* set as GetOrCreateNode does it: the table holds that node too.            *)
LEMMA LinkedTable ==
  ASSUME NEW m, NEW N \in SUBSET Nodes, Header(m), Buckets(m, N), m.hm_bucket_count # 0,
         NEW n \in Nodes \ N, NEW i, i = BucketOf(hmn_key(n), m.hm_bucket_count),
         N = {} => m.valid_begin = i /\ m.valid_end = i, N # {} => Ranged(m)
  PROVE  LET u == Linked(m, n, i)
         IN /\ Header(u) /\ Buckets(u, N \cup {n}) /\ Ranged(u)
            /\ u.hm_buckets = m.hm_buckets /\ u.hm_bucket_count = m.hm_bucket_count
            /\ u.hm_map_size = m.hm_map_size
            /\ u.chain = With(m.chain, i, <<n>> \o m.chain[i])
<1> DEFINE u == Linked(m, n, i)
           count == m.hm_bucket_count
           b == m.valid_begin
           e == m.valid_end
           place(x) == BucketOf(hmn_key(x), count)
           M == N \cup {n}
<1>1. /\ count \in Nat \ {0} /\ b \in Nat /\ e \in Nat /\ i \in 0 .. count - 1
      /\ i \in Nat /\ i < count
  <2>1. count \in Nat \ {0} /\ b \in Nat /\ e \in Nat
    BY DEF Header
  <2> QED
    BY <2>1, BucketIn
<1>2. m.chain \in [0 .. count - 1 -> Seq(Nodes)] /\ DOMAIN m.chain = 0 .. count - 1
  BY DEF Buckets
<1>3. /\ DOMAIN u = Fields
      /\ u.hm_buckets = m.hm_buckets /\ u.hm_bucket_count = count
      /\ u.hm_map_size = m.hm_map_size
      /\ u.valid_begin = (IF i < b THEN i ELSE b)
      /\ u.valid_end = (IF i >= e THEN i + 1 ELSE e)
      /\ u.chain = With(m.chain, i, <<n>> \o m.chain[i])
  <2>1. DOMAIN m = Fields
    BY DEF Header
  <2> QED
    BY <1>1, <1>2, <2>1 DEF Linked, Fields, With
<1> HIDE DEF u, M
<1>4. m.chain[i] \in Seq(Nodes) /\ IsInjective(m.chain[i])
      /\ ToSet(m.chain[i]) = {x \in N : place(x) = i}
  BY <1>1 DEF Buckets
<1>5. /\ <<n>> \o m.chain[i] \in Seq(Nodes) /\ IsInjective(<<n>> \o m.chain[i])
      /\ ToSet(<<n>> \o m.chain[i]) = ToSet(m.chain[i]) \cup {n}
  <2>1. n \in Nodes \ ToSet(m.chain[i])
    BY <1>4
  <2> QED
    BY <1>4, <2>1, AtFront, InjectiveAtFront
<1>6. u.chain \in [0 .. count - 1 -> Seq(Nodes)]
  BY <1>1, <1>2, <1>3, <1>5 DEF With
<1>7. u.chain[i] = <<n>> \o m.chain[i] /\ \A j \in 0 .. count - 1 : j # i => u.chain[j] = m.chain[j]
  BY <1>1, <1>2, <1>3 DEF With
<1>8. ASSUME NEW j \in 0 .. count - 1
      PROVE  IsInjective(u.chain[j]) /\ ToSet(u.chain[j]) = {x \in M : place(x) = j}
  <2>1. CASE j = i
    BY <1>4, <1>5, <1>7, <2>1 DEF M
  <2>2. CASE j # i
    <3>1. u.chain[j] = m.chain[j]
      BY <1>7, <2>2
    <3>2. IsInjective(m.chain[j]) /\ ToSet(m.chain[j]) = {x \in N : place(x) = j}
      BY DEF Buckets
    <3> QED
      BY <2>2, <3>1, <3>2 DEF M
  <2> QED
    BY <2>1, <2>2
<1>9. Buckets(u, M)
  <2>1. u.hm_bucket_count = count /\ count # 0
    BY <1>1, <1>3
  <2> HIDE DEF count
  <2> QED
    BY <1>6, <1>8, <2>1 DEF Buckets
<1>10. Header(u)
  <2>1. u.valid_begin \in Nat /\ u.valid_end \in Nat
    BY <1>1, <1>3
  <2> QED
    BY <1>3, <2>1 DEF Header
<1>11. Filled(u) = Filled(m) \cup {i}
  <2>1. DOMAIN u.chain = 0 .. count - 1
    BY <1>6
  <2>2. u.chain[i] # <<>>
    <3>1. n \in ToSet(u.chain[i]) /\ u.chain[i] \in Seq(Nodes)
      BY <1>1, <1>5, <1>6, <1>7
    <3> QED
      BY <3>1, NoElements
  <2>3. ASSUME NEW j \in 0 .. count - 1 PROVE u.chain[j] # <<>> <=> m.chain[j] # <<>> \/ j = i
    BY <1>7, <2>2
  <2> QED
    BY <1>1, <1>2, <2>1, <2>3 DEF Filled
<1>12. Filled(m) \in SUBSET Nat /\ (Filled(m) = {} <=> N = {}) /\ \A j \in Filled(m) : j < count
  <2>1. m.hm_bucket_count \in Nat
    BY <1>1
  <2> QED
    BY <2>1, FilledAre
<1>13. Ranged(u)
  <2>1. CASE N = {}
    <3>1. Filled(u) = {i} /\ u.valid_begin = i /\ u.valid_end = i + 1
      BY <1>1, <1>3, <1>11, <1>12, <2>1
    <3> QED
      BY <1>1, <1>3, <3>1 DEF Ranged, Covered
  <2>2. CASE N # {}
    <3>1. /\ e <= count /\ \A j \in Filled(m) : b <= j /\ j < e
          /\ b \in Filled(m) /\ e - 1 \in Filled(m)
      BY <1>12, <2>2 DEF Ranged, Covered
    <3>2. u.valid_end <= count
      BY <1>1, <1>3, <3>1
    <3>3. ASSUME NEW j \in Filled(u) PROVE u.valid_begin <= j /\ j < u.valid_end
      <4>1. j \in Nat /\ (j = i \/ (b <= j /\ j < e))
        BY <1>1, <1>11, <1>12, <3>1
      <4> QED
        BY <1>1, <1>3, <4>1
    <3>4. u.valid_begin \in Filled(u) /\ u.valid_end - 1 \in Filled(u)
      <4>1. i + 1 - 1 = i
        BY <1>1
      <4>2. u.valid_begin \in {i, b} /\ u.valid_end - 1 \in {i, e - 1}
        <5>1. u.valid_begin \in {i, b}
          BY <1>3
        <5>2. u.valid_end \in {i + 1, e}
          BY <1>3
        <5> QED
          BY <1>1, <4>1, <5>1, <5>2
      <4> QED
        BY <1>11, <3>1, <4>2
    <3> QED
      BY <1>3, <3>2, <3>3, <3>4 DEF Ranged, Covered
  <2> QED
    BY <2>1, <2>2
<1> QED
  BY <1>3, <1>9, <1>10, <1>13 DEF u, M

(* GetOrCreateNode adds a node to a good table, with a rehash or without,    *)
(* and leaves a good table: the array is another one, or only the bucket of  *)
(* the node has changed.                                                     *)
LEMMA CreatedTable ==
  ASSUME Table(map, InUse), NEW n \in Nodes \ InUse,
         \A count \in Nat \ {0} : NewArray(count) \in {count} \X Places
  PROVE  LET u == Created(n, hmn_key(n))
             i == BucketOf(hmn_key(n), map.hm_bucket_count)
         IN /\ Table(u, InUse \cup {n})
            /\ Moved(u) \/ Same(u, n, <<n>> \o map.chain[i])
<1> DEFINE N == InUse
           k == hmn_key(n)
           u == Created(n, k)
           initial == DEE_HASHMAP_INITIAL_BUCKET_COUNT
           first == [DeeHashMap_INIT EXCEPT
                       !.hm_buckets = NewArray(initial), !.hm_bucket_count = initial,
                       !.chain = [j \in 0 .. (initial - 1) |-> <<>>], !.hm_map_size = 1,
                       !.valid_begin = BucketOf(k, initial), !.valid_end = BucketOf(k, initial)]
           more == [map EXCEPT !.hm_map_size = @ + 1]
           count == _DeeDictCapacityOf(more.hm_map_size)
           room == IF map.hm_buckets = NULL THEN first
                   ELSE IF count > map.hm_bucket_count THEN _DeeHashMap_Rehash(more, count)
                   ELSE more
           i == BucketOf(k, room.hm_bucket_count)
<1>0. N \in SUBSET Nodes /\ n \in Nodes /\ n \notin N
  BY DEF InUse
<1>1. u = Linked(room, n, i)
  BY DEF Created
<1>2. /\ Header(map) /\ Buckets(map, N) /\ Ranged(map) /\ Covered(map) /\ Sized(map, N)
      /\ map.hm_map_size \in Nat /\ map.hm_bucket_count \in Nat
      /\ IsFiniteSet(N) /\ map.hm_map_size = Cardinality(N)
  BY DEF Table, Ranged, Header, Sized
<1>3. IsFiniteSet(N \cup {n}) /\ map.hm_map_size + 1 = Cardinality(N \cup {n}) /\ N \cup {n} # {}
  BY <1>0, <1>2, FS_AddElement
<1>4. /\ DOMAIN more = Fields /\ more.hm_map_size = map.hm_map_size + 1
      /\ more.hm_buckets = map.hm_buckets /\ more.hm_bucket_count = map.hm_bucket_count
      /\ more.chain = map.chain /\ more.valid_begin = map.valid_begin
      /\ more.valid_end = map.valid_end
  <2>1. DOMAIN map = Fields
    BY <1>2 DEF Header
  <2> QED
    BY <2>1 DEF Fields
<1>5. /\ DOMAIN first = Fields /\ first.hm_map_size = 1
      /\ first.hm_buckets = NewArray(initial) /\ first.hm_bucket_count = initial
      /\ first.chain = [j \in 0 .. initial - 1 |-> <<>>]
      /\ first.valid_begin = BucketOf(k, initial) /\ first.valid_end = BucketOf(k, initial)
  BY DEF Fields, DeeHashMap_INIT
<1>6. initial \in Nat \ {0} /\ initial = 8
  BY DEF DEE_HASHMAP_INITIAL_BUCKET_COUNT
<1>7. /\ more.hm_map_size \in Nat /\ more.hm_map_size # 0 /\ count \in Nat
      /\ count > more.hm_map_size
  <2> HIDE DEF more
  <2>1. more.hm_map_size \in Nat /\ more.hm_map_size # 0
    BY <1>2, <1>4
  <2> QED
    BY <2>1, Capacity
<1>8. Header(more) /\ Buckets(more, N) /\ Ranged(more) /\ Covered(more)
  <2>1. Filled(more) = Filled(map)
    BY <1>4 DEF Filled
  <2>2. Header(more)
    BY <1>2, <1>4, <1>7 DEF Header
  <2>3. Buckets(more, N)
    BY <1>2, <1>4 DEF Buckets
  <2> QED
    BY <1>2, <1>4, <2>1, <2>2, <2>3 DEF Ranged, Covered
<1> HIDE DEF first, more, count, initial, room, i
<1>9. ASSUME Header(room), Buckets(room, N), room.hm_bucket_count # 0,
             N = {} => room.valid_begin = i /\ room.valid_end = i, N # {} => Ranged(room),
             room.hm_map_size = map.hm_map_size + 1, room.hm_map_size < room.hm_bucket_count
      PROVE  /\ Table(u, N \cup {n})
             /\ u.hm_buckets = room.hm_buckets /\ u.hm_bucket_count = room.hm_bucket_count
             /\ u.chain = With(room.chain, i, <<n>> \o room.chain[i])
  <2>1. i = BucketOf(hmn_key(n), room.hm_bucket_count)
    BY DEF i
  <2> HIDE DEF u, N
  <2>2. /\ Header(u) /\ Buckets(u, N \cup {n}) /\ Ranged(u)
        /\ u.hm_buckets = room.hm_buckets /\ u.hm_bucket_count = room.hm_bucket_count
        /\ u.hm_map_size = room.hm_map_size
        /\ u.chain = With(room.chain, i, <<n>> \o room.chain[i])
    <3>1. n \in Nodes \ N
      BY <1>0
    <3>2. /\ N \in SUBSET Nodes /\ Header(room) /\ Buckets(room, N)
          /\ room.hm_bucket_count # 0
      BY <1>0, <1>9
    <3>3. (N = {} => room.valid_begin = i /\ room.valid_end = i) /\ (N # {} => Ranged(room))
      BY <1>9
    <3> HIDE DEF k
    <3> QED
      BY ONLY <1>1, <2>1, <3>1, <3>2, <3>3, LinkedTable
  <2>3. Sized(u, N \cup {n})
    BY <1>3, <1>9, <2>2 DEF Sized
  <2> QED
    BY <2>2, <2>3 DEF Table
<1> HIDE DEF u, N
<1>10. CASE map.hm_buckets = NULL
  <2>1. N = {}
    <3>1. map.hm_bucket_count = 0
      <4>1. map.hm_bucket_count # 0 => map.hm_buckets \in Arrays
        BY <1>2 DEF Header, Arrays
      <4> QED
        BY <1>10, <4>1, NullAssumption
    <3> QED
      BY <1>2, <3>1 DEF Buckets
  <2>2. room = first
    BY <1>10 DEF room
  <2>3. room.hm_buckets \in {initial} \X Places
    BY <1>5, <1>6, <2>2
  <2>4. i = BucketOf(k, initial) /\ i \in Nat /\ i < 8 /\ i \in 0 .. initial - 1
    BY <1>0, <1>5, <1>6, <2>2, BucketIn DEF i
  <2>5. Header(room)
    BY <1>5, <1>6, <2>2, <2>3, <2>4 DEF Header
  <2>6. Buckets(room, N)
    <3>1. ToSet(<<>>) = {} /\ IsInjective(<<>>) /\ <<>> \in Seq(Nodes)
      <4>1. DOMAIN <<>> = {}
        OBVIOUS
      <4> QED
        BY <4>1 DEF ToSet, IsInjective
    <3> QED
      BY <1>5, <1>6, <2>1, <2>2, <3>1 DEF Buckets
  <2>7. map.hm_map_size = 0
    BY <1>2, <2>1, FS_EmptySet
  <2>8. Table(u, N \cup {n}) /\ u.hm_buckets = room.hm_buckets
    BY <1>5, <1>6, <1>9, <2>1, <2>2, <2>4, <2>5, <2>6, <2>7
  <2>9. Moved(u)
    BY <1>5, <1>6, <2>2, <2>8 DEF Moved
  <2> QED
    BY <2>8, <2>9 DEF u, N
<1>11. CASE map.hm_buckets # NULL
  <2>1. map.hm_bucket_count # 0
    BY <1>2, <1>11 DEF Header
  <2>2. N # {}
    BY <1>2, <2>1 DEF Sized
  <2>3. CASE count > map.hm_bucket_count
    <3>1. room = _DeeHashMap_Rehash(more, count)
      BY <1>11, <2>3 DEF room
    <3>2. count \in Nat \ {0}
      BY <1>2, <1>7, <2>3
    <3>3. NewArray(count) \in {count} \X Places
      BY <3>2
    <3>4. /\ Header(room) /\ Buckets(room, N) /\ Ranged(room)
          /\ room.hm_buckets = NewArray(count) /\ room.hm_bucket_count = count
          /\ room.hm_map_size = more.hm_map_size
      BY <1>0, <1>8, <2>2, <3>1, <3>2, <3>3, Rehashed
    <3>5. Table(u, N \cup {n}) /\ u.hm_buckets = room.hm_buckets
      BY <1>4, <1>7, <1>9, <2>2, <3>2, <3>4
    <3>6. Moved(u)
      BY <3>2, <3>4, <3>5 DEF Moved
    <3> QED
      BY <3>5, <3>6 DEF u, N
  <2>4. CASE ~(count > map.hm_bucket_count)
    <3>1. room = more
      BY <1>11, <2>4 DEF room
    <3>2. room.hm_map_size < room.hm_bucket_count
      BY <1>2, <1>4, <1>7, <2>4, <3>1
    <3>3. /\ Table(u, N \cup {n})
          /\ u.hm_buckets = room.hm_buckets /\ u.hm_bucket_count = room.hm_bucket_count
          /\ u.chain = With(room.chain, i, <<n>> \o room.chain[i])
      BY <1>4, <1>8, <1>9, <2>1, <2>2, <3>1, <3>2
    <3>4. i = BucketOf(hmn_key(n), map.hm_bucket_count)
      BY <1>4, <3>1 DEF i
    <3>5. Same(u, n, <<n>> \o map.chain[i])
      BY <1>4, <2>1, <3>1, <3>3, <3>4 DEF Same
    <3> QED
      BY <3>3, <3>4, <3>5 DEF u, N
  <2> QED
    BY <2>3, <2>4
<1> QED
  BY <1>10, <1>11

(* The array without a node, and its range still the old one. *)
Less(m, n, i, u) ==
  /\ DOMAIN u = Fields /\ u.hm_map_size \in Nat
  /\ u.hm_buckets = m.hm_buckets /\ u.hm_bucket_count = m.hm_bucket_count
  /\ u.valid_begin = m.valid_begin /\ u.valid_end = m.valid_end
  /\ u.chain = With(m.chain, i, RemoveFirst(m.chain[i], n))

(* The table with a node taken out, before the range of the buckets in use   *)
(* is set again, ...                                                         *)
LEMMA LessTable ==
  ASSUME NEW m, NEW N \in SUBSET Nodes, Header(m), Buckets(m, N), NEW n \in N,
         NEW i, i = BucketOf(hmn_key(n), m.hm_bucket_count),
         NEW u, Less(m, n, i, u)
  PROVE  /\ Header(u) /\ Buckets(u, N \ {n})
         /\ i \in Filled(m) /\ i \in DOMAIN u.chain
         /\ Filled(u) \subseteq Filled(m) /\ Filled(m) \subseteq Filled(u) \cup {i}
<1> DEFINE count == m.hm_bucket_count
           place(x) == BucketOf(hmn_key(x), count)
           M == N \ {n}
<1>0. /\ DOMAIN u = Fields /\ u.hm_map_size \in Nat
      /\ u.hm_buckets = m.hm_buckets /\ u.hm_bucket_count = m.hm_bucket_count
      /\ u.valid_begin = m.valid_begin /\ u.valid_end = m.valid_end
      /\ u.chain = With(m.chain, i, RemoveFirst(m.chain[i], n))
  BY DEF Less
<1>1. count \in Nat \ {0} /\ i \in 0 .. count - 1
  <2>1. count \in Nat \ {0}
    BY DEF Header, Buckets
  <2> QED
    BY <2>1, BucketIn
<1>2. m.chain \in [0 .. count - 1 -> Seq(Nodes)] /\ DOMAIN m.chain = 0 .. count - 1
  BY DEF Buckets
<1>3. m.chain[i] \in Seq(Nodes) /\ IsInjective(m.chain[i])
      /\ ToSet(m.chain[i]) = {x \in N : place(x) = i}
  BY <1>1 DEF Buckets
<1> DEFINE r == RemoveFirst(m.chain[i], n)
<1>4. /\ r \in Seq(Nodes) /\ IsInjective(r) /\ ToSet(r) = ToSet(m.chain[i]) \ {n}
      /\ n \in ToSet(m.chain[i])
  <2>1. n \in ToSet(m.chain[i])
    BY <1>3
  <2> QED
    BY <1>3, <2>1, Taken
<1> HIDE DEF r
<1>5. u.chain = [m.chain EXCEPT ![i] = r]
  BY <1>0 DEF With, r
<1>6. u.chain \in [0 .. count - 1 -> Seq(Nodes)] /\ DOMAIN u.chain = 0 .. count - 1
  BY <1>1, <1>2, <1>4, <1>5
<1>7. u.chain[i] = r /\ \A j \in 0 .. count - 1 : j # i => u.chain[j] = m.chain[j]
  BY <1>1, <1>2, <1>5
<1> HIDE DEF M
<1>8. ASSUME NEW j \in 0 .. count - 1
      PROVE  IsInjective(u.chain[j]) /\ ToSet(u.chain[j]) = {x \in M : place(x) = j}
  <2>1. CASE j = i
    BY <1>3, <1>4, <1>7, <2>1 DEF M
  <2>2. CASE j # i
    <3>1. u.chain[j] = m.chain[j]
      BY <1>7, <2>2
    <3>2. IsInjective(m.chain[j]) /\ ToSet(m.chain[j]) = {x \in N : place(x) = j}
      BY DEF Buckets
    <3> QED
      BY <2>2, <3>1, <3>2 DEF M
  <2> QED
    BY <2>1, <2>2
<1>9. Buckets(u, M)
  <2>1. u.hm_bucket_count = count /\ count # 0
    BY <1>0, <1>1
  <2> HIDE DEF count
  <2> QED
    BY <1>6, <1>8, <2>1 DEF Buckets
<1>10. Header(u)
  BY <1>0 DEF Header
<1>11. m.chain[i] # <<>>
  BY <1>3, <1>4, NoElements
<1>12. i \in Filled(m)
  BY <1>1, <1>2, <1>11 DEF Filled
<1>13. Filled(u) \subseteq Filled(m)
  BY <1>2, <1>6, <1>7, <1>11 DEF Filled
<1>14. Filled(m) \subseteq Filled(u) \cup {i}
  BY <1>2, <1>6, <1>7 DEF Filled
<1> QED
  BY <1>1, <1>6, <1>9, <1>10, <1>12, <1>13, <1>14 DEF M

(* Its range moved to the next bucket with a node. *)
LEMMA ShrunkTable ==
  ASSUME NEW m, Header(m), NEW F \in SUBSET Nat, NEW i \in F, i \in DOMAIN m.chain,
         Filled(m) \subseteq F, F \subseteq Filled(m) \cup {i}, Filled(m) # {},
         m.valid_begin \in F, m.valid_end - 1 \in F, m.valid_end <= m.hm_bucket_count,
         \A j \in F : m.valid_begin <= j /\ j < m.valid_end
  PROVE  LET u == Shrunk(m, i)
         IN /\ Header(u) /\ Ranged(u)
            /\ u.hm_buckets = m.hm_buckets /\ u.hm_bucket_count = m.hm_bucket_count
            /\ u.hm_map_size = m.hm_map_size /\ u.chain = m.chain
<1> DEFINE u == Shrunk(m, i)
           G == Filled(m)
           b == m.valid_begin
           e == m.valid_end
<1>1. /\ DOMAIN m = Fields /\ b \in Nat /\ e \in Nat /\ m.hm_bucket_count \in Nat
      /\ i \in Nat /\ e - 1 \in Nat
  BY DEF Header
<1>2. m.chain[i] # <<>> <=> i \in G
  BY DEF Filled
<1>3. G \in SUBSET Nat /\ \A j \in G : j < e /\ j <= e
  <2>1. G \in SUBSET Nat /\ \A j \in G : j < e
    OBVIOUS
  <2> HIDE DEF G, e
  <2> QED
    BY <1>1, <2>1
<1>4. Min(G) \in G /\ \A j \in G : Min(G) <= j
  BY <1>3, Least
<1>5. Max(G) \in G /\ \A j \in G : j <= Max(G)
  BY <1>1, <1>3, Greatest
<1>6. ASSUME NEW v, DOMAIN v = Fields, v.chain = m.chain, v.hm_buckets = m.hm_buckets,
             v.hm_bucket_count = m.hm_bucket_count, v.hm_map_size = m.hm_map_size,
             v.valid_begin \in G, NEW l \in G, v.valid_end = l + 1,
             \A j \in G : v.valid_begin <= j /\ j <= l
      PROVE  Header(v) /\ Ranged(v)
  <2>1. Filled(v) = G
    BY <1>6 DEF Filled
  <2>2. v.valid_begin \in Nat /\ v.valid_end \in Nat /\ v.valid_end - 1 = l /\ v.valid_end <= e
    BY <1>1, <1>3, <1>6
  <2>3. Header(v)
    BY <1>6, <2>2 DEF Header
  <2>4. v.valid_end <= v.hm_bucket_count
    BY <1>1, <1>6, <2>2
  <2>5. \A j \in G : j < v.valid_end
    BY <1>3, <1>6
  <2> QED
    BY <1>6, <2>1, <2>2, <2>3, <2>4, <2>5 DEF Ranged, Covered
<1> DEFINE same(v) == /\ DOMAIN v = Fields /\ v.chain = m.chain /\ v.hm_buckets = m.hm_buckets
                      /\ v.hm_bucket_count = m.hm_bucket_count /\ v.hm_map_size = m.hm_map_size
<1>7. PICK l \in F : l = e - 1 /\ l + 1 = e
  BY <1>1
<1>8. \A j \in G : b <= j /\ j <= l
  BY <1>1, <1>3, <1>7
<1>9. CASE i \in G
  <2>1. u = m
    BY <1>2, <1>9 DEF Shrunk
  <2>2. b \in G /\ l \in G
    BY <1>9
  <2> QED
    BY <1>1, <1>6, <1>7, <1>8, <2>1, <2>2
<1>10. CASE i \notin G /\ i = l
  <2>1. u = [m EXCEPT !.valid_end = Max(G) + 1]
    BY <1>2, <1>7, <1>10 DEF Shrunk
  <2>2. same(u) /\ u.valid_begin = b /\ u.valid_end = Max(G) + 1
    BY <1>1, <2>1 DEF Fields
  <2> HIDE DEF u
  <2>3. b \in G
    <3>1. Max(G) # i /\ Max(G) \in Nat /\ b <= Max(G) /\ Max(G) <= l
      BY <1>3, <1>5, <1>8, <1>10
    <3>2. b # i
      BY <1>1, <1>10, <3>1
    <3> QED
      BY <3>2
  <2>4. \A j \in G : b <= j /\ j <= Max(G)
    BY <1>5, <1>8
  <2>5. Header(u) /\ Ranged(u)
    BY <1>5, <1>6, <2>2, <2>3, <2>4
  <2> QED
    BY <2>2, <2>5 DEF u
<1>11. CASE i \notin G /\ i # l
  <2>1. l \in G
    BY <1>7, <1>11
  <2>2. CASE i = b
    <3>1. u = [m EXCEPT !.valid_begin = Min(G)]
      BY <1>2, <1>7, <1>11, <2>2 DEF Shrunk
    <3>2. same(u) /\ u.valid_begin = Min(G) /\ u.valid_end = l + 1
      BY <1>1, <1>7, <3>1 DEF Fields
    <3> HIDE DEF u
    <3>3. \A j \in G : Min(G) <= j /\ j <= l
      BY <1>4, <1>8
    <3>4. Header(u) /\ Ranged(u)
      BY <1>4, <1>6, <2>1, <3>2, <3>3
    <3> QED
      BY <3>2, <3>4 DEF u
  <2>3. CASE i # b
    <3>1. u = m
      BY <1>2, <1>7, <1>11, <2>3 DEF Shrunk
    <3>2. b \in G
      BY <2>3
    <3> QED
      BY <1>1, <1>6, <1>7, <1>8, <2>1, <3>1, <3>2
  <2> QED
    BY <2>2, <2>3
<1> QED
  BY <1>9, <1>10, <1>11

(* ... and after DelItem has set the range, or rehashed: a good table.       *)
LEMMA RemovedTable ==
  ASSUME Table(map, InUse), NEW n \in InUse,
         \A count \in Nat \ {0} : NewArray(count) \in {count} \X Places
  PROVE  LET u == Removed(n)
             i == BucketOf(hmn_key(n), map.hm_bucket_count)
         IN /\ Table(u, InUse \ {n})
            /\ Moved(u) \/ Same(u, n, RemoveFirst(map.chain[i], n))
<1> DEFINE N == InUse
           M == N \ {n}
           u == Removed(n)
           i == BucketOf(hmn_key(n), map.hm_bucket_count)
           less == [map EXCEPT !.chain[i] = RemoveFirst(@, n), !.hm_map_size = @ - 1]
           count == _DeeDictCapacityOf(less.hm_map_size)
<1>0. N \in SUBSET Nodes /\ n \in N /\ n \in Nodes
  BY DEF InUse
<1>1. u = IF count < map.hm_bucket_count THEN _DeeHashMap_Rehash(less, count) ELSE Shrunk(less, i)
  BY DEF Removed
<1>2. /\ Header(map) /\ Buckets(map, N) /\ Ranged(map) /\ Covered(map) /\ Sized(map, N)
      /\ map.hm_map_size \in Nat /\ map.hm_bucket_count \in Nat
      /\ IsFiniteSet(N) /\ map.hm_map_size = Cardinality(N)
  BY DEF Table, Ranged, Header, Sized
<1>3. /\ IsFiniteSet(M) /\ Cardinality(M) = map.hm_map_size - 1
      /\ map.hm_map_size - 1 \in Nat /\ (M = {} <=> map.hm_map_size - 1 = 0)
  <2>1. IsFiniteSet(M) /\ Cardinality(M) = map.hm_map_size - 1
    BY <1>0, <1>2, FS_RemoveElement
  <2> QED
    BY <2>1, FS_CardinalityType, FS_EmptySet
<1>4. map.hm_bucket_count # 0 /\ N # {} /\ map.hm_map_size < map.hm_bucket_count
  BY <1>0, <1>2 DEF Buckets, Sized
<1>5. i \in DOMAIN map.chain
  <2>1. i \in 0 .. map.hm_bucket_count - 1
    BY <1>0, <1>2, <1>4, BucketIn
  <2> QED
    BY <1>2, <2>1 DEF Buckets
<1> HIDE DEF i
<1>6. /\ DOMAIN less = Fields /\ less.hm_map_size = map.hm_map_size - 1
      /\ less.hm_buckets = map.hm_buckets /\ less.hm_bucket_count = map.hm_bucket_count
      /\ less.chain = With(map.chain, i, RemoveFirst(map.chain[i], n))
      /\ less.valid_begin = map.valid_begin /\ less.valid_end = map.valid_end
  <2>1. DOMAIN map = Fields
    BY <1>2 DEF Header
  <2> QED
    BY <1>5, <2>1 DEF Fields, With
<1> HIDE DEF less, count, u, N, M
<1>7. /\ Header(less) /\ Buckets(less, M) /\ i \in Filled(map) /\ i \in DOMAIN less.chain
      /\ Filled(less) \subseteq Filled(map) /\ Filled(map) \subseteq Filled(less) \cup {i}
  <2>1. i = BucketOf(hmn_key(n), map.hm_bucket_count) /\ M = N \ {n}
    BY DEF i, M
  <2>2. less.hm_map_size \in Nat
    BY <1>3, <1>6
  <2>3. Less(map, n, i, less) /\ Header(map) /\ Buckets(map, N)
    BY <1>2, <1>6, <2>2 DEF Less
  <2>4. /\ Header(less) /\ Buckets(less, N \ {n}) /\ i \in Filled(map)
        /\ i \in DOMAIN less.chain
        /\ Filled(less) \subseteq Filled(map) /\ Filled(map) \subseteq Filled(less) \cup {i}
    BY <1>0, <2>1, <2>3, LessTable
  <2> QED
    BY <2>1, <2>4
<1>8. /\ count \in Nat /\ (M = {} => count = 0)
      /\ (M # {} => count > less.hm_map_size /\ count # 0)
  <2>1. less.hm_map_size \in Nat /\ (less.hm_map_size = 0 <=> M = {})
    BY <1>3, <1>6
  <2> QED
    BY <2>1, Capacity DEF count
<1>9. M \in SUBSET Nodes
  BY <1>0 DEF M
<1>10. CASE count < map.hm_bucket_count /\ M = {}
  <2>1. u = [DeeHashMap_INIT EXCEPT !.hm_map_size = less.hm_map_size]
    BY <1>1, <1>8, <1>10 DEF _DeeHashMap_Rehash
  <2>2. /\ DOMAIN u = Fields /\ u.hm_buckets = NULL /\ u.hm_bucket_count = 0 /\ u.chain = <<>>
        /\ u.hm_map_size = 0 /\ u.valid_begin = 0 /\ u.valid_end = 0
    BY <1>3, <1>6, <1>10, <2>1 DEF Fields, DeeHashMap_INIT
  <2>3. Table(u, M)
    <3>1. Header(u)
      BY <2>2 DEF Header
    <3>2. u.chain \in [0 .. u.hm_bucket_count - 1 -> Seq(Nodes)] /\ DOMAIN u.chain = {}
      <4>1. 0 .. 0 - 1 = {} /\ DOMAIN <<>> = {} /\ <<>> = [x \in {} |-> {}]
        OBVIOUS
      <4> QED
        BY <2>2, <4>1
    <3>3. Buckets(u, M)
      <4>1. 0 .. 0 - 1 = {}
        OBVIOUS
      <4> QED
        BY <1>10, <2>2, <3>2, <4>1 DEF Buckets
    <3>4. Filled(u) = {}
      BY <3>2 DEF Filled
    <3>5. Ranged(u)
      BY <2>2, <3>4 DEF Ranged, Covered
    <3>6. Sized(u, M)
      BY <1>3, <1>10, <2>2 DEF Sized
    <3> QED
      BY <3>1, <3>3, <3>5, <3>6 DEF Table
  <2>4. Moved(u)
    BY <2>2 DEF Moved
  <2> QED
    BY <2>3, <2>4 DEF u, M, N
<1>11. CASE count < map.hm_bucket_count /\ M # {}
  <2>1. u = _DeeHashMap_Rehash(less, count) /\ count \in Nat \ {0}
    BY <1>1, <1>8, <1>11
  <2>2. NewArray(count) \in {count} \X Places
    BY <2>1
  <2>3. Covered(less)
    BY <1>2, <1>6, <1>7 DEF Covered
  <2>4. /\ Header(u) /\ Buckets(u, M) /\ Ranged(u)
        /\ u.hm_buckets = NewArray(count) /\ u.hm_bucket_count = count
        /\ u.hm_map_size = less.hm_map_size
    BY <1>7, <1>9, <1>11, <2>1, <2>2, <2>3, Rehashed
  <2>5. Sized(u, M)
    BY <1>3, <1>6, <1>8, <1>11, <2>4 DEF Sized
  <2>6. Moved(u)
    BY <2>1, <2>4 DEF Moved
  <2> QED
    BY <2>4, <2>5, <2>6 DEF u, M, N, Table
<1>12. CASE ~(count < map.hm_bucket_count)
  <2>1. u = Shrunk(less, i) /\ M # {}
    BY <1>1, <1>2, <1>4, <1>8, <1>12
  <2>2. /\ Filled(map) \in SUBSET Nat /\ Filled(less) # {}
    <3>1. less.hm_bucket_count \in Nat
      BY <1>2, <1>6
    <3> QED
      BY <1>0, <1>2, <1>7, <1>9, <2>1, <3>1, FilledAre
  <2>3. /\ less.valid_begin \in Filled(map) /\ less.valid_end - 1 \in Filled(map)
        /\ less.valid_end <= less.hm_bucket_count
        /\ \A j \in Filled(map) : less.valid_begin <= j /\ j < less.valid_end
    BY <1>2, <1>6, <1>7 DEF Ranged, Covered
  <2>4. /\ Header(u) /\ Ranged(u)
        /\ u.hm_buckets = less.hm_buckets /\ u.hm_bucket_count = less.hm_bucket_count
        /\ u.hm_map_size = less.hm_map_size /\ u.chain = less.chain
    BY <1>7, <2>1, <2>2, <2>3, ShrunkTable
  <2>5. Buckets(u, M)
    BY <1>7, <2>4 DEF Buckets
  <2>6. Sized(u, M)
    <3>1. u.hm_map_size < u.hm_bucket_count
      BY <1>2, <1>4, <1>3, <1>6, <2>4
    <3> QED
      BY <1>3, <1>6, <2>1, <2>4, <3>1 DEF Sized
  <2>7. Same(u, n, RemoveFirst(map.chain[i], n))
    BY <1>4, <1>6, <2>4 DEF Same, i
  <2> QED
    BY <2>4, <2>5, <2>6, <2>7 DEF u, M, N, Table, i
<1> QED
  BY <1>10, <1>11, <1>12

----------------------------------------------------------------------------
(* What the map answers. *)

Answer(m, items, k) ==
  IF m.hm_buckets = NULL THEN NoItem
  ELSE LET chain == m.chain[BucketOf(k, m.hm_bucket_count)]
           j == SelectInSeq(chain, LAMBDA n : hmn_key(n) = k)
       IN IF j = 0 THEN NoItem ELSE items[chain[j]]

(* The item of the node with the key, or none. *)
Shows(d, N, items) ==
  /\ d \in [Keys -> Items \cup {NoItem}]
  /\ \A n \in N : hmn_key(n) \in Keys /\ d[hmn_key(n)] = items[n] /\ items[n] \in Items
  /\ \A k \in Keys : (\A n \in N : hmn_key(n) # k) => d[k] = NoItem

(* The bucket of a key is one of the array.                                  *)
LEMMA KeyIn ==
  ASSUME NEW k \in Keys, NEW count \in Nat \ {0}
  PROVE  BucketOf(k, count) \in Nat /\ BucketOf(k, count) < count
         /\ BucketOf(k, count) \in 0 .. count - 1
<1>1. Hash[k] \in Nat
  BY HashAssumption
<1> QED
  BY <1>1 DEF BucketOf

(* A map has no array when it has no buckets.                                *)
LEMMA NoBuckets ==
  ASSUME NEW m, Header(m)
  PROVE  m.hm_buckets = NULL <=> m.hm_bucket_count = 0
<1>1. m.hm_bucket_count # 0 => m.hm_buckets \in Arrays
  BY DEF Header, Arrays
<1> QED
  BY <1>1, NullAssumption DEF Header

(* A lookup in a good table that has each key once answers with the item of  *)
(* the node that has the key, and finds nothing when no node has.            *)
LEMMA Answered ==
  ASSUME NEW m, NEW items \in [Nodes -> Items \cup {NULL}],
         NEW N \in SUBSET Nodes, N = {n \in Nodes : items[n] # NULL}, Table(m, N), Unique(N)
  PROVE  Shows([k \in Keys |-> Answer(m, items, k)], N, items)
<1> DEFINE d == [k \in Keys |-> Answer(m, items, k)]
           count == m.hm_bucket_count
<1>0. Header(m) /\ Buckets(m, N)
  BY DEF Table
<1>1. \A n \in N : hmn_key(n) \in Keys /\ items[n] \in Items
  BY DEF Nodes, hmn_key
<1>2. ASSUME NEW k \in Keys
      PROVE  /\ \A n \in N : hmn_key(n) = k => Answer(m, items, k) = items[n]
             /\ (\A n \in N : hmn_key(n) # k) => Answer(m, items, k) = NoItem
  <2>1. CASE count = 0
    BY <1>0, <2>1, NoBuckets DEF Answer, Buckets
  <2>2. CASE count # 0
    <3> DEFINE i == BucketOf(k, count)
               chain == m.chain[i]
               J == {j \in 1 .. Len(chain) : hmn_key(chain[j]) = k}
               sel == SelectInSeq(chain, LAMBDA n : hmn_key(n) = k)
    <3>1. m.hm_buckets # NULL /\ count \in Nat \ {0}
      BY <1>0, <2>2, NoBuckets DEF Header
    <3>2. i \in 0 .. count - 1
      BY <3>1, KeyIn
    <3>3. chain \in Seq(Nodes) /\ ToSet(chain) = {n \in N : BucketOf(hmn_key(n), count) = i}
      BY <1>0, <3>2 DEF Buckets
    <3>4. Answer(m, items, k) = IF sel = 0 THEN NoItem ELSE items[chain[sel]]
      BY <3>1 DEF Answer
    <3>5. sel = IF J # {} THEN Min(J) ELSE 0
      BY DEF SelectInSeq
    <3> HIDE DEF sel
    <3>6. \A n \in N : hmn_key(n) = k => n \in ToSet(chain)
      BY <3>3
    <3> HIDE DEF chain, i
    <3>7. \A j \in 1 .. Len(chain) : chain[j] \in N
      BY <3>3 DEF ToSet
    <3>8. \A n \in N : hmn_key(n) = k => \E j \in 1 .. Len(chain) : chain[j] = n
      BY <3>3, <3>6 DEF ToSet
    <3>9. CASE J = {}
      BY <3>4, <3>5, <3>8, <3>9
    <3>10. CASE J # {}
      <4>1. J \in SUBSET Nat
        OBVIOUS
      <4>2. sel \in J
        BY <3>5, <3>10, <4>1, Least
      <4>3. sel # 0 /\ chain[sel] \in N /\ hmn_key(chain[sel]) = k
        BY <3>7, <4>2
      <4>4. \A n \in N : hmn_key(n) = k => n = chain[sel]
        BY <4>3 DEF Unique
      <4> QED
        BY <3>4, <4>3, <4>4
    <3> QED
      BY <3>9, <3>10
  <2> QED
    BY <2>1, <2>2
<1>3. \A k \in Keys : Answer(m, items, k) \in Items \cup {NoItem}
  BY <1>1, <1>2
<1> HIDE DEF d
<1>4. d \in [Keys -> Items \cup {NoItem}] /\ \A k \in Keys : d[k] = Answer(m, items, k)
  BY <1>3 DEF d
<1>5. \A n \in N : d[hmn_key(n)] = items[n]
  BY <1>1, <1>2, <1>4
<1>6. \A k \in Keys : (\A n \in N : hmn_key(n) # k) => d[k] = NoItem
  BY <1>2, <1>4
<1> QED
  BY <1>1, <1>4, <1>5, <1>6 DEF Shows, d

----------------------------------------------------------------------------
(* There is memory for an array and for a node. *)

(* As many places as there are threads and one cannot all be remembered.     *)
LEMMA Free ==
  ASSUME NEW V, NEW f \in [Threads -> V], NEW x
  PROVE  \E p \in Places : p # x /\ \A t \in Threads : p # f[t]
<1> DEFINE R == {f[t] : t \in Threads}
           T == R \cup {x}
<1>1. f \in Surjection(Threads, R)
  BY DEF Surjection
<1> HIDE DEF R
<1>2. IsFiniteSet(R) /\ Cardinality(R) <= Cardinality(Threads)
  BY <1>1, PlacesAssumption, FS_Surjection
<1>3. IsFiniteSet(T) /\ Cardinality(T) <= Cardinality(Threads) + 1
  <2>1. IsFiniteSet(T) /\ Cardinality(T) = IF x \in R THEN Cardinality(R) ELSE Cardinality(R) + 1
    BY <1>2, FS_AddElement
  <2>2. Cardinality(R) \in Nat /\ Cardinality(Threads) \in Nat
    BY <1>2, PlacesAssumption, FS_CardinalityType
  <2> QED
    BY <1>2, <2>1, <2>2
<1> HIDE DEF T
<1>4. ~(Places \subseteq T)
  <2> SUFFICES ASSUME Places \in SUBSET T PROVE FALSE
    OBVIOUS
  <2>1. Cardinality(Places) <= Cardinality(T)
    BY <1>3, FS_Subset
  <2>2. /\ Cardinality(Places) \in Nat /\ Cardinality(T) \in Nat /\ Cardinality(Threads) \in Nat
        /\ Cardinality(Places) > Cardinality(Threads) + 1
    BY <1>3, PlacesAssumption, FS_CardinalityType
  <2> QED
    BY <1>3, <2>1, <2>2
<1>5. PICK p \in Places : p \notin T
  BY <1>4
<1> QED
  BY <1>5 DEF T, R

(* A thread remembers one array, or one node, at most. *)
LEMMA Remembers ==
  ASSUME IInv, NEW t \in Threads
  PROVE  /\ at[t] = Nowhere \/ iter[t] = NoIter
         /\ at[t] = Nowhere \/ (at[t].b \in Arrays /\ at[t].node \in Nodes)
         /\ iter[t] = NoIter \/ (iter[t].b \in Arrays /\ iter[t].curr \in Nodes \cup {NULL})
         /\ Nowhere.b = NULL /\ Nowhere.node = NULL /\ NoIter.b = NULL /\ NoIter.curr = NULL
         /\ NULL \notin Nodes /\ NULL \notin Arrays
  <1>1. Thread(t)
    BY DEF IInv
  <1>2. call[t] # Idle => iter[t] = NoIter /\ at[t] \in [b : Arrays, node : Nodes]
    BY <1>1 DEF Thread, InCall
  <1>3. iter[t] # NoIter => iter[t] \in Iterators
    BY <1>1 DEF Thread, Yields
  <1>4. call[t] = Idle => at[t] = Nowhere
    BY <1>1 DEF Thread
  <1>5. iter[t] = NoIter \/ (iter[t].b \in Arrays /\ iter[t].curr \in Nodes \cup {NULL})
    BY <1>3 DEF Iterators
  <1> QED
    BY <1>2, <1>4, <1>5, NullAssumption DEF Nowhere, NoIter

(* The new array is at an address that neither the map nor a call or an      *)
(* iterator knows, ...                                                       *)
LEMMA FreshArray ==
  ASSUME IInv, NEW count \in Nat \ {0}
  PROVE  /\ NewArray(count) \in {count} \X Places
         /\ NewArray(count) \in Arrays
         /\ NewArray(count) # map.hm_buckets
         /\ \A t \in Threads : NewArray(count) \notin {at[t].b, iter[t].b}
<1> DEFINE V == {IF at[t] # Nowhere THEN at[t].b[2] ELSE iter[t].b[2] : t \in Threads}
           f == [t \in Threads |-> IF at[t] # Nowhere THEN at[t].b[2] ELSE iter[t].b[2]]
           ok(a) == a # map.hm_buckets /\ \A t \in Threads : a \notin {at[t].b, iter[t].b}
<1>1. f \in [Threads -> V]
  OBVIOUS
<1>2. \A t \in Threads : f[t] = IF at[t] # Nowhere THEN at[t].b[2] ELSE iter[t].b[2]
  OBVIOUS
<1> HIDE DEF f, V
<1>3. PICK p \in Places : p # map.hm_buckets[2] /\ \A t \in Threads : p # f[t]
  BY <1>1, Free
<1> DEFINE a == <<count, p>>
<1>4. a \in {count} \X Places /\ a \in Arrays /\ a[2] = p
  BY DEF Arrays
<1> HIDE DEF a
<1>5. ASSUME NEW t \in Threads PROVE a # at[t].b /\ a # iter[t].b
  <2>1. p # f[t] /\ a # NULL
    BY <1>3, <1>4, Remembers
  <2>2. CASE at[t] # Nowhere
    <3>1. a # at[t].b
      BY <1>2, <1>4, <2>1, <2>2
    <3>2. iter[t].b = NULL
      BY <2>2, Remembers
    <3> QED
      BY <2>1, <3>1, <3>2
  <2>3. CASE at[t] = Nowhere
    <3>1. a # iter[t].b
      BY <1>2, <1>4, <2>1, <2>3
    <3>2. at[t].b = NULL
      BY <2>3, Remembers
    <3> QED
      BY <2>1, <3>1, <3>2
  <2> QED
    BY <2>2, <2>3
<1>6. ok(a)
  BY <1>3, <1>4, <1>5
<1>7. NewArray(count) = CHOOSE x \in {count} \X Places : ok(x)
  BY DEF NewArray
<1> HIDE DEF ok
<1>8. NewArray(count) \in {count} \X Places /\ ok(NewArray(count))
  BY <1>4, <1>6, <1>7
<1>9. NewArray(count) \in Arrays
  BY <1>8 DEF Arrays
<1> QED
  BY <1>8, <1>9 DEF ok

(* ... and so is the new node.                                               *)
LEMMA FreshNode ==
  ASSUME IInv, NEW k \in Keys
  PROVE  /\ NewNode(k) \in Nodes /\ hmn_key(NewNode(k)) = k
         /\ NewNode(k) \notin InUse
         /\ \A t \in Threads : NewNode(k) \notin {at[t].node, iter[t].curr}
<1> DEFINE V == {IF at[t] # Nowhere THEN at[t].node[2] ELSE iter[t].curr[2] : t \in Threads}
           f == [t \in Threads |-> IF at[t] # Nowhere THEN at[t].node[2] ELSE iter[t].curr[2]]
           x == CHOOSE n \in InUse : hmn_key(n) = k
           ok(n) == hmn_item[n] = NULL /\ \A t \in Threads : n \notin {at[t].node, iter[t].curr}
<1>1. f \in [Threads -> V]
  OBVIOUS
<1>2. \A t \in Threads : f[t] = IF at[t] # Nowhere THEN at[t].node[2] ELSE iter[t].curr[2]
  OBVIOUS
<1>3. \A n \in InUse : hmn_key(n) = k => n = x
  <2>1. ASSUME NEW n \in InUse, hmn_key(n) = k PROVE n = x
    <3>1. x \in InUse /\ hmn_key(x) = k
      BY <2>1
    <3> QED
      BY <2>1, <3>1 DEF IInv, Unique
  <2> QED
    BY <2>1
<1> HIDE DEF f, V, x
<1>4. PICK p \in Places : p # x[2] /\ \A t \in Threads : p # f[t]
  BY <1>1, Free
<1> DEFINE a == <<k, p>>
<1>5. a \in {k} \X Places /\ a \in Nodes /\ a[2] = p /\ hmn_key(a) = k
  BY DEF Nodes, hmn_key
<1> HIDE DEF a
<1>6. ASSUME NEW t \in Threads PROVE a # at[t].node /\ a # iter[t].curr
  <2>1. p # f[t] /\ a # NULL
    BY <1>4, <1>5, Remembers
  <2>2. CASE at[t] # Nowhere
    <3>1. a # at[t].node
      BY <1>2, <1>5, <2>1, <2>2
    <3>2. iter[t].curr = NULL
      BY <2>2, Remembers
    <3> QED
      BY <2>1, <3>1, <3>2
  <2>3. CASE at[t] = Nowhere
    <3>1. a # iter[t].curr
      BY <1>2, <1>5, <2>1, <2>3
    <3>2. at[t].node = NULL
      BY <2>3, Remembers
    <3> QED
      BY <2>1, <3>1, <3>2
  <2> QED
    BY <2>2, <2>3
<1>7. ok(a)
  <2>1. a \notin InUse
    BY <1>3, <1>4, <1>5
  <2> QED
    BY <1>5, <1>6, <2>1 DEF InUse
<1>8. NewNode(k) = CHOOSE n \in {k} \X Places : ok(n)
  BY DEF NewNode
<1> HIDE DEF ok
<1>9. NewNode(k) \in {k} \X Places /\ ok(NewNode(k))
  BY <1>5, <1>7, <1>8
<1>10. NewNode(k) \in Nodes /\ hmn_key(NewNode(k)) = k
  BY <1>9 DEF Nodes, hmn_key
<1> QED
  BY <1>9, <1>10 DEF ok, InUse

----------------------------------------------------------------------------
(* What a step leaves to the threads that do not take it. *)

(* The map is in the array of before, whose buckets are in the old order but *)
(* for the nodes that are gone, or new at the front.                         *)
Followed(u, N) ==
  /\ map.hm_bucket_count # 0
  /\ u.hm_buckets = map.hm_buckets /\ u.hm_bucket_count = map.hm_bucket_count
  /\ \A i \in 0 .. map.hm_bucket_count - 1 : \A x \in ToSet(map.chain[i]) \cap N :
       Onward(u.chain[i], x) = Onward(map.chain[i], x) \cap N

(* The array, if any, is this one or one the thread does not remember.       *)
Known(u, N, t) == \/ u.hm_buckets = NULL \/ u.hm_buckets \notin {at[t].b, iter[t].b}
                  \/ Followed(u, N)

(* A new node is unknown to the thread, has a key that was not there, and    *)
(* was added by another thread.                                              *)
Unseen(N, t) ==
  \A n \in N \ InUse :
    /\ n # at[t].node /\ n # iter[t].curr
    /\ \A m \in InUse : hmn_key(m) # hmn_key(n)
    /\ hmn_key(n) \in Keys /\ \E u \in Threads \ {t} : Inserts(u, hmn_key(n))

(* What the invariant says of the table and of the dictionary it stands for. *)
LEMMA Shown ==
  ASSUME IInv
  PROVE  /\ Shows(dict, InUse, hmn_item)
         /\ InUse \in SUBSET Nodes
         /\ Header(map) /\ Buckets(map, InUse) /\ Ranged(map) /\ Sized(map, InUse) /\ Unique(InUse)
<1>1. dict = [k \in Keys |-> Answer(map, hmn_item, k)]
  BY DEF IInv, Contents, ItemOf, Answer
<1>2. InUse \in SUBSET Nodes /\ hmn_item \in [Nodes -> Items \cup {NULL}]
  BY DEF InUse, IInv, Types
<1>3. InUse = {n \in Nodes : hmn_item[n] # NULL} /\ Table(map, InUse) /\ Unique(InUse)
  BY DEF InUse, IInv
<1>4. Shows(dict, InUse, hmn_item)
  BY <1>1, <1>2, <1>3, Answered
<1> QED
  BY <1>2, <1>3, <1>4 DEF Table

(* The dictionary after a step that leaves a good table is what the table    *)
(* shows.                                                                    *)
LEMMA ShownAfter ==
  ASSUME Observe, hmn_item' \in [Nodes -> Items \cup {NULL}], Table(map', InUse'), Unique(InUse')
  PROVE  Shows(dict', InUse', hmn_item') /\ InUse' \in SUBSET Nodes
<1>1. dict' = [k \in Keys |-> Answer(map', hmn_item', k)]
  <2>1. dict' = Contents'
    BY DEF Observe
  <2>2. Contents' = [k \in Keys |-> Answer(map', hmn_item', k)]
    BY DEF Contents, ItemOf, Answer, SelectInSeq
  <2> QED
    BY <2>1, <2>2
<1>2. InUse' \in SUBSET Nodes /\ InUse' = {n \in Nodes : hmn_item'[n] # NULL}
  BY DEF InUse
<1> QED
  BY <1>1, <1>2, Answered

(* The keys that are there are those of the nodes. *)
LEMMA PresentAre ==
  ASSUME NEW d, NEW N, NEW items, Shows(d, N, items)
  PROVE  /\ Present(d) = {hmn_key(n) : n \in N}
         /\ \A k \in Keys : d[k] = NoItem <=> \A n \in N : hmn_key(n) # k
<1>1. ASSUME NEW k \in Keys PROVE d[k] # NoItem <=> \E n \in N : hmn_key(n) = k
  BY NoItemAssumption DEF Shows
<1>2. \A n \in N : hmn_key(n) \in Keys
  BY DEF Shows
<1> QED
  BY <1>1, <1>2 DEF Present

(* What the observers of calls and of iterators record in a step.            *)
LEMMA Observed ==
  ASSUME Observe, NEW t \in Threads
  PROVE  /\ call'[t] # Idle => /\ seen[t] \subseteq seen'[t]
                               /\ dict[call'[t].key] \in seen'[t]
                               /\ dict'[call'[t].key] \in seen'[t]
         /\ stays'[t] \subseteq Present(dict')
         /\ iter'[t] # NoIter /\ iter[t] # NoIter => stays'[t] = stays[t] \cap Present(dict')
         /\ iter'[t] # NoIter /\ iter[t] = NoIter => stays'[t] = Present(dict) \cap Present(dict')
         /\ DOMAIN seen' = Threads /\ DOMAIN stays' = Threads
<1>1. seen'[t] = IF call'[t] = Idle THEN {}
                 ELSE seen[t] \cup {dict[call'[t].key], dict'[call'[t].key]}
  BY DEF Observe
<1>2. stays'[t] = IF iter'[t] = NoIter THEN {}
                  ELSE (IF iter[t] = NoIter THEN Present(dict) ELSE stays[t]) \cap Present(dict')
  BY DEF Observe
<1>3. DOMAIN seen' = Threads /\ DOMAIN stays' = Threads
  BY DEF Observe
<1> QED
  BY <1>1, <1>2, <1>3

(* A node is in the bucket of its key. *)
LEMMA NodeIn ==
  ASSUME IInv, NEW n \in InUse
  PROVE  LET i == BucketOf(hmn_key(n), map.hm_bucket_count)
         IN /\ hmn_key(n) \in Keys /\ map.hm_bucket_count \in Nat \ {0}
            /\ i \in Nat /\ i \in 0 .. map.hm_bucket_count - 1
            /\ n \in ToSet(map.chain[i]) /\ map.chain[i] \in Seq(Nodes) /\ IsInjective(map.chain[i])
            /\ ToSet(map.chain[i]) \subseteq InUse
<1>1. map.hm_bucket_count \in Nat \ {0} /\ n \in Nodes
  BY Shown DEF Header, Buckets
<1>2. /\ hmn_key(n) \in Keys
      /\ BucketOf(hmn_key(n), map.hm_bucket_count) \in Nat
      /\ BucketOf(hmn_key(n), map.hm_bucket_count) \in 0 .. map.hm_bucket_count - 1
  BY <1>1, BucketIn
<1>3. Buckets(map, InUse)
  BY Shown
<1> QED
  BY <1>1, <1>2, <1>3 DEF Buckets

(* The nodes from one on are nodes of the bucket.                            *)
LEMMA OnwardIn ==
  ASSUME NEW S, NEW s \in Seq(S), NEW n PROVE Onward(s, n) \subseteq ToSet(s)
BY DEF Onward, ToSet

(* A call that waits in its comparison still knows what it knew after        *)
(* another thread has changed the map: nodes put in front of its own have    *)
(* been added since, ...                                                     *)
LEMMA WaitingCall ==
  ASSUME IInv, Observe, NEW t \in Threads, call'[t] # Idle,
         call'[t] = call[t], at'[t] = at[t], iter'[t] = iter[t],
         Known(map', InUse', t), Unseen(InUse', t)
  PROVE  InCall(t)'
<1> DEFINE c == call[t]
           node == at[t].node
           count == map.hm_bucket_count
           i == BucketOf(c.key, count)
<1>1. InCall(t)
  BY DEF IInv, Thread
<1>2. /\ c \in Makes[t] /\ iter[t] = NoIter
      /\ at[t] \in [b : Arrays, node : Nodes]
      /\ Hash[hmn_key(node)] = Hash[c.key]
  BY <1>1 DEF InCall
<1>3. seen[t] \subseteq seen'[t] /\ dict[c.key] \in seen'[t]
  BY Observed
<1> SUFFICES ASSUME at[t].b = map'.hm_buckets, node \in InUse',
                    NEW m \in InUse', hmn_key(m) = c.key,
                    m \notin Onward(Bucket(t)', node)
             PROVE  NoItem \in seen'[t] /\ c.op \notin {"set", "setnew"}
  BY <1>2 DEF InCall
<1>4. Followed(map', InUse')
  BY <1>2, NullAssumption DEF Known
<1>5. node \in InUse
  BY DEF Unseen
<1>6. i = BucketOf(hmn_key(node), count) /\ node \in ToSet(map.chain[i]) /\ i \in 0 .. count - 1
      /\ map.chain[i] \in Seq(Nodes)
  <2>1. i = BucketOf(hmn_key(node), count)
    BY <1>2 DEF BucketOf
  <2> QED
    BY <1>5, <2>1, NodeIn
<1>7. Bucket(t) = map.chain[i] /\ Bucket(t)' = map'.chain[i]
  BY <1>4 DEF Bucket, Followed
<1>8. m \notin Onward(map.chain[i], node)
  <2>1. Onward(map'.chain[i], node) = Onward(map.chain[i], node) \cap InUse'
    BY <1>4, <1>6 DEF Followed
  <2> QED
    BY <1>7, <2>1
<1>9. CASE m \in InUse
  BY <1>1, <1>3, <1>4, <1>5, <1>7, <1>8, <1>9 DEF InCall, Followed
<1>10. CASE m \notin InUse
  <2>1. /\ \A n \in InUse : hmn_key(n) # c.key
        /\ c.key \in Keys /\ \E u \in Threads \ {t} : Inserts(u, c.key)
    BY <1>10 DEF Unseen
  <2>2. dict[c.key] = NoItem
    BY <2>1, Shown, PresentAre
  <2>3. c.op \notin {"set", "setnew"}
    <3> SUFFICES ASSUME c.op \in {"set", "setnew"} PROVE FALSE
      OBVIOUS
    <3>1. Inserts(t, c.key)
      BY <1>2 DEF Inserts
    <3>2. hmn_key(node) \in Keys /\ hmn_key(node) # c.key
      BY <1>5, <2>1, NodeIn
    <3> QED
      BY <1>2, <2>1, <3>1, <3>2, InsertAssumption
  <2> QED
    BY <1>3, <2>2, <2>3
<1> QED
  BY <1>9, <1>10

(* ... and an iterator that waits still has before it all the keys that      *)
(* stay, or its array is not that of the map any more.                       *)
LEMMA WaitingIter ==
  ASSUME IInv, Observe, NEW t \in Threads, iter'[t] # NoIter, iter'[t] = iter[t],
         Shows(dict', InUse', hmn_item'),
         Known(map', InUse', t), Unseen(InUse', t)
  PROVE  Yields(map', InUse', iter'[t], stays'[t])
<1> DEFINE i == iter[t]
           S == stays[t]
           count == map.hm_bucket_count
<1>1. Yields(map, InUse, i, S)
  BY DEF IInv, Thread
<1>2. stays'[t] = S \cap Present(dict')
  BY Observed
<1>3. i \in Iterators /\ i.b # NULL /\ i.begin \in Nat
  BY <1>1, NullAssumption DEF Yields, Iterators
<1> DEFINE R == S \cap Present(dict')
<1> SUFFICES ASSUME i.b = map'.hm_buckets PROVE Going(map', InUse', i, R)
  BY <1>1, <1>2 DEF Yields
<1>4. Followed(map', InUse')
  BY <1>3 DEF Known
<1>5. map'.hm_bucket_count = count /\ Going(map, InUse, i, S)
  BY <1>1, <1>4 DEF Yields, Followed
<1> SUFFICES ASSUME i.curr \in InUse'
             PROVE  LET ahead == {hmn_key(n) : n \in Onward(map'.chain[i.begin], i.curr)}
                    IN /\ ahead \cap ToSet(i.yielded) = {}
                       /\ \A k \in R : \/ k \in ToSet(i.yielded) \/ k \in ahead
                                       \/ BucketOf(k, count) > i.begin
  BY <1>5 DEF Going
<1>6. i.curr \in InUse
  BY DEF Unseen
<1>7. /\ i.begin = BucketOf(hmn_key(i.curr), count) /\ i.begin \in 0 .. count - 1
      /\ i.curr \in ToSet(map.chain[i.begin]) /\ map.chain[i.begin] \in Seq(Nodes)
      /\ ToSet(map.chain[i.begin]) \subseteq InUse
  <2>1. i.curr # NULL
    BY <1>6, Shown, NullAssumption
  <2>2. i.begin = BucketOf(hmn_key(i.curr), count)
    BY <1>5, <2>1 DEF Going
  <2> QED
    BY <1>6, <2>2, NodeIn
<1> DEFINE old == Onward(map.chain[i.begin], i.curr)
           new == Onward(map'.chain[i.begin], i.curr)
<1>8. new = old \cap InUse'
  BY <1>4, <1>7 DEF Followed
<1>9. /\ {hmn_key(n) : n \in old} \cap ToSet(i.yielded) = {}
      /\ \A k \in S : \/ k \in ToSet(i.yielded) \/ k \in {hmn_key(n) : n \in old}
                      \/ BucketOf(k, count) > i.begin
  BY <1>5, <1>6 DEF Going
<1>10. old \subseteq InUse
  BY <1>7, OnwardIn
<1> HIDE DEF old, new, i, S
<1>11. ASSUME NEW n \in old, hmn_key(n) \in Present(dict') PROVE n \in new
  <2>1. PICK m \in InUse' : hmn_key(m) = hmn_key(n)
    BY <1>11, PresentAre
  <2>2. n \in InUse
    BY <1>10
  <2>3. m \in InUse
    BY <2>1, <2>2 DEF Unseen
  <2>4. m = n
    BY <2>1, <2>2, <2>3, Shown DEF Unique
  <2> QED
    BY <1>8, <2>4
<1>12. {hmn_key(n) : n \in new} \cap ToSet(i.yielded) = {}
  BY <1>8, <1>9
<1>13. ASSUME NEW k \in R
       PROVE  \/ k \in ToSet(i.yielded) \/ k \in {hmn_key(n) : n \in new}
              \/ BucketOf(k, count) > i.begin
  BY <1>9, <1>11
<1> QED
  BY <1>12, <1>13 DEF new

(* Both together: a thread that does nothing in the step keeps its           *)
(* invariant.                                                                *)
LEMMA Waiting ==
  ASSUME IInv, Observe, NEW t \in Threads,
         call'[t] = call[t], at'[t] = at[t], iter'[t] = iter[t],
         Shows(dict', InUse', hmn_item'),
         Known(map', InUse', t), Unseen(InUse', t)
  PROVE  Thread(t)'
<1>1. call'[t] = Idle => at'[t] = Nowhere
  BY DEF IInv, Thread
<1>2. stays'[t] \subseteq Present(dict')
  BY Observed
<1>3. call'[t] # Idle => InCall(t)'
  BY WaitingCall
<1>4. iter'[t] # NoIter => Yields(map', InUse', iter'[t], stays'[t])
  BY WaitingIter
<1> QED
  BY <1>1, <1>2, <1>3, <1>4 DEF Thread

----------------------------------------------------------------------------
(* The ways a step changes the map. *)

(* The operations a call can be of, and their items.                         *)
LEMMA CallIs ==
  ASSUME NEW t \in Threads, NEW c \in Makes[t]
  PROVE  /\ c \in Calls /\ c.key \in Keys /\ c # Idle
         /\ c.op \in {"get", "pop", "del", "set", "setnew", "setold"}
         /\ c.op \in {"set", "setnew", "setold"} => c.item \in Items
<1>1. c \in Calls
  BY MakesAssumption
<1>2. CASE c \in [op : {"get", "pop", "del"}, key : Keys]
  BY <1>1, <1>2 DEF Idle
<1>3. CASE c \in [op : {"set", "setnew", "setold"}, key : Keys, item : Items]
  BY <1>1, <1>3 DEF Idle
<1> QED
  BY <1>1, <1>2, <1>3 DEF Calls

(* The bucket of a table holds the nodes in use whose key belongs there.     *)
LEMMA InUseIn ==
  ASSUME IInv, NEW i \in 0 .. map.hm_bucket_count - 1
  PROVE  /\ map.chain[i] \in Seq(Nodes) /\ IsInjective(map.chain[i])
         /\ ToSet(map.chain[i]) = {n \in InUse : BucketOf(hmn_key(n), map.hm_bucket_count) = i}
         /\ ToSet(map.chain[i]) \subseteq InUse
         /\ \A n : Onward(map.chain[i], n) \subseteq InUse
<1>1. Buckets(map, InUse)
  BY Shown
<1>2. /\ map.chain[i] \in Seq(Nodes) /\ IsInjective(map.chain[i])
      /\ ToSet(map.chain[i]) = {n \in InUse : BucketOf(hmn_key(n), map.hm_bucket_count) = i}
  BY <1>1 DEF Buckets
<1>3. \A n : Onward(map.chain[i], n) \subseteq ToSet(map.chain[i])
  BY <1>2, OnwardIn
<1> QED
  BY <1>2, <1>3

(* A step that leaves the map alone hides nothing from another thread, ...   *)
LEMMA MapKept ==
  ASSUME IInv, map' = map, InUse' = InUse
  PROVE  /\ Table(map', InUse') /\ Unique(InUse')
         /\ \A t \in Threads : Known(map', InUse', t) /\ Unseen(InUse', t)
<1>1. map.hm_buckets = NULL \/ Followed(map, InUse)
  <2>1. map.hm_buckets # NULL => map.hm_bucket_count # 0
    BY Shown, NoBuckets
  <2>2. \A i \in 0 .. map.hm_bucket_count - 1 : \A x \in ToSet(map.chain[i]) \cap InUse :
          Onward(map.chain[i], x) = Onward(map.chain[i], x) \cap InUse
    BY InUseIn
  <2> QED
    BY <2>1, <2>2 DEF Followed
<1> QED
  BY <1>1 DEF IInv, Known, Unseen

(* ... nor does one that adds a node for a key that has none, ...            *)
LEMMA MapCreated ==
  ASSUME IInv, NEW t \in Threads, NEW c \in Makes[t], c.op \in {"set", "setnew"},
         \A m \in InUse : hmn_key(m) # c.key,
         map' = Created(NewNode(c.key), c.key),
         hmn_item' = [hmn_item EXCEPT ![NewNode(c.key)] = c.item]
  PROVE  /\ hmn_item' \in [Nodes -> Items \cup {NULL}]
         /\ InUse' = InUse \cup {NewNode(c.key)}
         /\ Table(map', InUse') /\ Unique(InUse')
         /\ \A u \in Threads \ {t} : Known(map', InUse', u) /\ Unseen(InUse', u)
<1> DEFINE k == c.key
           n == NewNode(k)
           i == BucketOf(hmn_key(n), map.hm_bucket_count)
<1>1. k \in Keys /\ c.item \in Items /\ Inserts(t, k)
  BY CallIs DEF Inserts
<1>2. /\ n \in Nodes /\ hmn_key(n) = k /\ n \notin InUse
      /\ \A u \in Threads : n \notin {at[u].node, iter[u].curr}
  BY <1>1, FreshNode
<1> HIDE DEF k, n
<1>3. hmn_item \in [Nodes -> Items \cup {NULL}] /\ c.item # NULL
  BY <1>1, NoItemAssumption DEF IInv, Types
<1>4. hmn_item' = [hmn_item EXCEPT ![n] = c.item] /\ map' = Created(n, hmn_key(n))
  BY <1>2 DEF n, k
<1>5. hmn_item' \in [Nodes -> Items \cup {NULL}]
  BY <1>1, <1>2, <1>3, <1>4
<1>6. InUse' = InUse \cup {n}
  BY <1>2, <1>3, <1>4 DEF InUse
<1>7. \A count \in Nat \ {0} : NewArray(count) \in {count} \X Places
  BY FreshArray
<1>8. /\ Table(map', InUse \cup {n})
      /\ Moved(map') \/ Same(map', n, <<n>> \o map.chain[i])
  BY <1>2, <1>4, <1>7, CreatedTable DEF IInv
<1>9. Unique(InUse')
  BY <1>2, <1>6, Shown DEF Unique, k
<1>10. ASSUME NEW u \in Threads \ {t} PROVE Unseen(InUse', u)
  BY <1>1, <1>2, <1>6 DEF Unseen, k
<1>11. ASSUME NEW u \in Threads PROVE Known(map', InUse', u)
  <2>1. CASE Moved(map')
    BY <2>1, FreshArray DEF Known, Moved
  <2>2. CASE Same(map', n, <<n>> \o map.chain[i])
    <3> DEFINE s == map.chain[i]
    <3>1. /\ map.hm_bucket_count # 0
          /\ map'.hm_buckets = map.hm_buckets /\ map'.hm_bucket_count = map.hm_bucket_count
          /\ map'.chain = [map.chain EXCEPT ![i] = <<n>> \o s]
      BY <2>2 DEF Same, With
    <3>2. map.hm_bucket_count \in Nat \ {0} /\ DOMAIN map.chain = 0 .. map.hm_bucket_count - 1
      BY <3>1, Shown DEF Header, Buckets
    <3>3. i \in 0 .. map.hm_bucket_count - 1
      BY <1>2, <3>2, BucketIn
    <3> HIDE DEF i
    <3>4. ASSUME NEW j \in 0 .. map.hm_bucket_count - 1, NEW x \in ToSet(map.chain[j])
          PROVE  Onward(map'.chain[j], x) = Onward(map.chain[j], x)
      <4>1. CASE j = i
        <5>1. s \in Seq(Nodes) /\ IsInjective(s) /\ n \in Nodes \ ToSet(s) /\ x \in ToSet(s)
          BY <1>2, <3>3, <3>4, <4>1, InUseIn
        <5>2. map'.chain[j] = <<n>> \o s
          BY <3>1, <3>2, <3>3, <4>1
        <5> QED
          BY <4>1, <5>1, <5>2, OnwardAtFront
      <4>2. CASE j # i
        BY <3>1, <3>2, <4>2
      <4> QED
        BY <4>1, <4>2
    <3>5. \A j \in 0 .. map.hm_bucket_count - 1 : \A x \in ToSet(map.chain[j]) \cap InUse' :
            Onward(map'.chain[j], x) = Onward(map.chain[j], x) \cap InUse'
      BY <1>6, <3>4, InUseIn
    <3> QED
      BY <3>1, <3>5 DEF Known, Followed
  <2> QED
    BY <1>8, <2>1, <2>2
<1> QED
  BY <1>5, <1>6, <1>8, <1>9, <1>10, <1>11 DEF n, k

(* ... nor one that removes a node, ...                                      *)
LEMMA MapRemoved ==
  ASSUME IInv, NEW n \in InUse,
         map' = Removed(n), hmn_item' = [hmn_item EXCEPT ![n] = NULL]
  PROVE  /\ hmn_item' \in [Nodes -> Items \cup {NULL}]
         /\ InUse' = InUse \ {n}
         /\ Table(map', InUse') /\ Unique(InUse')
         /\ \A u \in Threads : Known(map', InUse', u) /\ Unseen(InUse', u)
<1> DEFINE i == BucketOf(hmn_key(n), map.hm_bucket_count)
<1>1. hmn_item \in [Nodes -> Items \cup {NULL}] /\ n \in Nodes
  BY Shown DEF IInv, Types
<1>2. hmn_item' \in [Nodes -> Items \cup {NULL}]
  BY <1>1
<1>3. InUse' = InUse \ {n}
  BY <1>1 DEF InUse
<1>4. \A count \in Nat \ {0} : NewArray(count) \in {count} \X Places
  BY FreshArray
<1>5. /\ Table(map', InUse \ {n})
      /\ Moved(map') \/ Same(map', n, RemoveFirst(map.chain[i], n))
  BY <1>4, RemovedTable DEF IInv
<1>6. Unique(InUse')
  BY <1>3, Shown DEF Unique
<1>7. \A u \in Threads : Unseen(InUse', u)
  BY <1>3 DEF Unseen
<1>8. ASSUME NEW u \in Threads PROVE Known(map', InUse', u)
  <2>1. CASE Moved(map')
    BY <2>1, FreshArray DEF Known, Moved
  <2>2. CASE Same(map', n, RemoveFirst(map.chain[i], n))
    <3> DEFINE s == map.chain[i]
    <3>1. /\ map.hm_bucket_count # 0
          /\ map'.hm_buckets = map.hm_buckets /\ map'.hm_bucket_count = map.hm_bucket_count
          /\ map'.chain = [map.chain EXCEPT ![i] = RemoveFirst(s, n)]
      BY <2>2 DEF Same, With
    <3>2. map.hm_bucket_count \in Nat \ {0} /\ DOMAIN map.chain = 0 .. map.hm_bucket_count - 1
      BY <3>1, Shown DEF Header, Buckets
    <3>3. i \in 0 .. map.hm_bucket_count - 1 /\ n \in ToSet(s)
      BY NodeIn
    <3>0. i = BucketOf(hmn_key(n), map.hm_bucket_count)
      OBVIOUS
    <3> HIDE DEF i
    <3>4. ASSUME NEW j \in 0 .. map.hm_bucket_count - 1, NEW x \in ToSet(map.chain[j]), x # n
          PROVE  Onward(map'.chain[j], x) = Onward(map.chain[j], x) \ {n}
      <4>1. CASE j = i
        <5>1. s \in Seq(Nodes) /\ IsInjective(s) /\ n \in ToSet(s) /\ x \in ToSet(s) \ {n}
          BY <3>3, <3>4, <4>1, InUseIn
        <5>2. map'.chain[j] = RemoveFirst(s, n)
          BY <3>1, <3>2, <3>3, <4>1
        <5>3. Onward(RemoveFirst(s, n), x) = Onward(s, x) \ {n}
          BY <5>1, Taken
        <5> QED
          BY <4>1, <5>2, <5>3
      <4>2. CASE j # i
        <5>1. map'.chain[j] = map.chain[j]
          BY <3>1, <3>2, <4>2
        <5>2. n \notin ToSet(map.chain[j]) /\ map.chain[j] \in Seq(Nodes)
          BY <3>0, <4>2, InUseIn
        <5>3. n \notin Onward(map.chain[j], x)
          BY <5>2, OnwardIn
        <5> QED
          BY <5>1, <5>3
      <4> QED
        BY <4>1, <4>2
    <3>5. \A j \in 0 .. map.hm_bucket_count - 1 : \A x \in ToSet(map.chain[j]) \cap InUse' :
            Onward(map'.chain[j], x) = Onward(map.chain[j], x) \cap InUse'
      <4>1. ASSUME NEW j \in 0 .. map.hm_bucket_count - 1, NEW x \in ToSet(map.chain[j]) \cap InUse'
            PROVE  Onward(map'.chain[j], x) = Onward(map.chain[j], x) \cap InUse'
        <5>1. Onward(map'.chain[j], x) = Onward(map.chain[j], x) \ {n}
          BY <1>3, <3>4
        <5>2. Onward(map.chain[j], x) \subseteq InUse
          BY InUseIn
        <5> QED
          BY <1>3, <5>1, <5>2
      <4> QED
        BY <4>1
    <3> QED
      BY <3>1, <3>5 DEF Known, Followed
  <2> QED
    BY <1>5, <2>1, <2>2
<1> QED
  BY <1>2, <1>3, <1>5, <1>6, <1>7, <1>8

(* The empty map is a good table.                                            *)
LEMMA EmptyTable ==
  /\ Table(DeeHashMap_INIT, {}) /\ DeeHashMap_INIT.hm_buckets = NULL
  /\ DeeHashMap_INIT.hm_bucket_count = 0 /\ Unique({})
<1> DEFINE u == DeeHashMap_INIT
<1>1. /\ DOMAIN u = Fields /\ u.hm_buckets = NULL /\ u.hm_bucket_count = 0 /\ u.chain = <<>>
      /\ u.hm_map_size = 0 /\ u.valid_begin = 0 /\ u.valid_end = 0
  BY DEF DeeHashMap_INIT, Fields
<1> HIDE DEF u
<1>2. Header(u)
  BY <1>1 DEF Header
<1>3. 0 .. 0 - 1 = {} /\ DOMAIN <<>> = {} /\ <<>> \in [{} -> Seq(Nodes)]
  OBVIOUS
<1>4. Buckets(u, {})
  BY <1>1, <1>3 DEF Buckets
<1>5. Filled(u) = {}
  BY <1>1, <1>3 DEF Filled
<1>6. Ranged(u)
  BY <1>1, <1>5 DEF Ranged, Covered
<1>7. Sized(u, {})
  BY <1>1, FS_EmptySet DEF Sized
<1> QED
  BY <1>1, <1>2, <1>4, <1>6, <1>7 DEF Table, Unique, u

(* ... nor DeeHashMap_Clear, which leaves no array that another thread       *)
(* knows.                                                                    *)
LEMMA MapCleared ==
  ASSUME IInv, map' = DeeHashMap_INIT, hmn_item' = [n \in Nodes |-> NULL]
  PROVE  /\ hmn_item' \in [Nodes -> Items \cup {NULL}]
         /\ InUse' = {}
         /\ Table(map', InUse') /\ Unique(InUse')
         /\ \A u \in Threads : Known(map', InUse', u) /\ Unseen(InUse', u)
<1>1. InUse' = {}
  BY DEF InUse
<1> QED
  BY <1>1, EmptyTable DEF Known, Unseen

----------------------------------------------------------------------------
(* What a call has learned of the nodes it does not look at any more. *)

BucketFor(k) == map.chain[BucketOf(k, map.hm_bucket_count)]

Learned(t, c) == NoItem \in seen[t] /\ c.op \notin {"set", "setnew"}

Searched(t, c, from) ==
  \A m \in InUse :
    hmn_key(m) = c.key /\ (\A j \in from .. Len(BucketFor(c.key)) : BucketFor(c.key)[j] # m) =>
      Learned(t, c)

(* A call that begins has searched no node yet, ...                          *)
LEMMA FromStart ==
  ASSUME IInv, NEW t \in Threads, NEW c \in Makes[t]
  PROVE  Searched(t, c, 1)
<1> SUFFICES ASSUME NEW m \in InUse, hmn_key(m) = c.key,
                    \A j \in 1 .. Len(BucketFor(c.key)) : BucketFor(c.key)[j] # m
             PROVE  FALSE
  BY DEF Searched
<1>1. m \in ToSet(BucketFor(c.key)) /\ BucketFor(c.key) \in Seq(Nodes)
  BY NodeIn DEF BucketFor
<1> QED
  BY <1>1 DEF ToSet

(* The node of a comparison that is still in its bucket. *)
LEMMA NodeFound ==
  ASSUME IInv, NEW t \in Threads, call[t] # Idle, map.hm_bucket_count # 0, Reachable(t)
  PROVE  LET s == BucketFor(call[t].key)
             p == SelectInSeq(Bucket(t), LAMBDA n : n = at[t].node)
         IN /\ call[t] \in Makes[t] /\ iter[t] = NoIter
            /\ s = Bucket(t) /\ s \in Seq(Nodes) /\ IsInjective(s) /\ ToSet(s) \subseteq InUse
            /\ p \in 1 .. Len(s) /\ s[p] = at[t].node /\ at[t].node \in InUse
            /\ p + 1 \in Nat \ {0}
<1> DEFINE s == BucketFor(call[t].key)
           p == SelectInSeq(s, LAMBDA n : n = at[t].node)
<1>1. call[t] \in Makes[t] /\ iter[t] = NoIter
  BY DEF IInv, Thread, InCall
<1>2. s = Bucket(t)
  BY DEF BucketFor, Bucket
<1>3. s \in Seq(Nodes) /\ IsInjective(s) /\ ToSet(s) \subseteq InUse
  <2>1. map.hm_bucket_count \in Nat \ {0} /\ call[t].key \in Keys
    BY <1>1, CallIs, Shown DEF Header
  <2>2. BucketOf(call[t].key, map.hm_bucket_count) \in 0 .. map.hm_bucket_count - 1
    BY <2>1, KeyIn
  <2> QED
    BY <2>2, InUseIn DEF BucketFor
<1>4. at[t].node \in ToSet(s)
  BY <1>2, <1>3 DEF Reachable, Contains, ToSet
<1>5. p \in 1 .. Len(s) /\ s[p] = at[t].node
  BY <1>3, <1>4, Place
<1>6. p = SelectInSeq(Bucket(t), LAMBDA n : n = at[t].node)
  BY <1>2
<1> HIDE DEF p, s
<1>7. p + 1 \in Nat \ {0}
  BY <1>3, <1>5
<1> QED
  BY <1>1, <1>2, <1>3, <1>4, <1>5, <1>6, <1>7 DEF s

(* ... and one that comes back from a comparison with another key has        *)
(* searched the nodes up to that one, or has seen its key absent.            *)
LEMMA FromHere ==
  ASSUME IInv, NEW t \in Threads, call[t] # Idle, map.hm_bucket_count # 0,
         SameBucket(t), Reachable(t), hmn_key(at[t].node) # call[t].key
  PROVE  Searched(t, call[t], SelectInSeq(Bucket(t), LAMBDA n : n = at[t].node) + 1)
<1> DEFINE c == call[t]
           s == BucketFor(c.key)
           p == SelectInSeq(Bucket(t), LAMBDA n : n = at[t].node)
<1>1. /\ s = Bucket(t) /\ s \in Seq(Nodes) /\ IsInjective(s) /\ ToSet(s) \subseteq InUse
      /\ p \in 1 .. Len(s) /\ s[p] = at[t].node /\ at[t].node \in InUse
  BY NodeFound
<1>2. InCall(t) /\ at[t].b = map.hm_buckets
  BY DEF IInv, Thread, SameBucket
<1> HIDE DEF p, s
<1> SUFFICES ASSUME NEW m \in InUse, hmn_key(m) = c.key,
                    \A j \in p + 1 .. Len(s) : s[j] # m
             PROVE  Learned(t, c)
  BY DEF Searched, p, s
<1>3. Onward(s, at[t].node) = {s[j] : j \in p .. Len(s)}
  <2>1. s \in Seq(Nodes) /\ IsInjective(s) /\ p \in 1 .. Len(s)
    BY <1>1
  <2>2. Onward(s, s[p]) = {s[j] : j \in p .. Len(s)}
    BY ONLY <2>1, OnwardFrom
  <2> QED
    BY <1>1, <2>2
<1>4. \A j \in p .. Len(s) : j = p \/ j \in p + 1 .. Len(s)
  BY <1>1
<1>5. m \notin Onward(s, at[t].node)
  BY <1>1, <1>3, <1>4
<1> QED
  BY <1>1, <1>2, <1>5 DEF InCall, Learned

(* A search that has met no other node of the hash, while one has the key:   *)
(* the call has seen the key absent.                                         *)
LEMMA NoHits ==
  ASSUME IInv, NEW t \in Threads, NEW c \in Makes[t], NEW from \in Nat \ {0},
         Searched(t, c, from), Candidates(c.key, from) = {},
         NEW m \in InUse, hmn_key(m) = c.key
  PROVE  Learned(t, c)
<1>1. map.hm_buckets # NULL
  BY Shown, NoBuckets DEF Buckets
<1>2. Candidates(c.key, from)
        = {j \in from .. Len(BucketFor(c.key)) : Hash[hmn_key(BucketFor(c.key)[j])] = Hash[c.key]}
  BY <1>1 DEF Candidates, BucketFor
<1>3. \A j \in from .. Len(BucketFor(c.key)) : BucketFor(c.key)[j] # m
  BY <1>2
<1> QED
  BY <1>3 DEF Searched

(* The node a search stops at is in use, and what lies before it is known.   *)
LEMMA Hits ==
  ASSUME IInv, NEW t \in Threads, NEW c \in Makes[t], NEW from \in Nat \ {0},
         Searched(t, c, from), Candidates(c.key, from) # {}
  PROVE  LET n == BucketFor(c.key)[Min(Candidates(c.key, from))]
         IN /\ n \in InUse /\ Hash[hmn_key(n)] = Hash[c.key] /\ map.hm_buckets \in Arrays
            /\ \A m \in InUse :
                 hmn_key(m) = c.key /\ m \notin Onward(BucketFor(c.key), n) => Learned(t, c)
<1> DEFINE s == BucketFor(c.key)
           H == Candidates(c.key, from)
           q == Min(H)
<1>1. map.hm_buckets # NULL
  BY DEF Candidates
<1>2. map.hm_bucket_count \in Nat \ {0} /\ map.hm_buckets \in Arrays
  <2>1. map.hm_bucket_count \in Nat \ {0}
    BY <1>1, Shown, NoBuckets DEF Header
  <2> QED
    BY <2>1, Shown DEF Header, Arrays
<1>3. H = {j \in from .. Len(s) : Hash[hmn_key(s[j])] = Hash[c.key]}
  BY <1>1 DEF Candidates, BucketFor
<1>4. s \in Seq(Nodes) /\ IsInjective(s) /\ ToSet(s) \subseteq InUse
  <2>1. BucketOf(c.key, map.hm_bucket_count) \in 0 .. map.hm_bucket_count - 1
    BY <1>2, CallIs, KeyIn
  <2> QED
    BY <2>1, InUseIn DEF BucketFor
<1> HIDE DEF s, H
<1>5. H \in SUBSET Nat
  BY <1>3
<1>6. q \in H /\ \A j \in H : q <= j
  BY <1>5, Least DEF H
<1> HIDE DEF q
<1>7. q \in 1 .. Len(s) /\ q \in from .. Len(s) /\ Hash[hmn_key(s[q])] = Hash[c.key]
  BY <1>3, <1>4, <1>6
<1>8. s[q] \in InUse
  BY <1>4, <1>7 DEF ToSet
<1>9. Onward(s, s[q]) = {s[j] : j \in q .. Len(s)}
  BY <1>4, <1>7, OnwardFrom
<1>10. ASSUME NEW m \in InUse, hmn_key(m) = c.key, m \notin Onward(s, s[q])
       PROVE  Learned(t, c)
  <2>1. ASSUME NEW j \in from .. Len(s), s[j] = m PROVE FALSE
    <3>1. j \in H
      BY <1>3, <1>10, <2>1
    <3>2. j \in q .. Len(s)
      BY <1>4, <1>6, <1>7, <3>1
    <3> QED
      BY <1>9, <1>10, <2>1, <3>2
  <2> QED
    BY <1>10, <2>1 DEF Searched, s
<1> QED
  BY <1>2, <1>7, <1>8, <1>10 DEF s, q, H

----------------------------------------------------------------------------
(* The steps of the calls. *)

(* What every step has to keep, and what Observe adds to it. *)
LEMMA Enough ==
  ASSUME Observe, hmn_item' \in [Nodes -> Items \cup {NULL}],
         call' \in [Threads -> Calls \cup {Idle}],
         at' \in [Threads -> Remembered], DOMAIN iter' = Threads,
         lock' \in Threads \cup {NULL}, trapped' \in BOOLEAN, reply' \in Items \cup {NoItem},
         Table(map', InUse'), Unique(InUse'),
         \A t \in Threads : Thread(t)'
  PROVE  IInv'
<1>1. dict' = Contents'
  BY DEF Observe
<1>2. DOMAIN seen' = Threads /\ DOMAIN stays' = Threads
  BY DEF Observe
<1>3. Types'
  BY <1>2 DEF Types
<1> QED
  BY <1>1, <1>3 DEF IInv

(* The types, as the invariant states them.                                  *)
LEMMA TypesAre ==
  ASSUME IInv
  PROVE  /\ hmn_item \in [Nodes -> Items \cup {NULL}]
         /\ call \in [Threads -> Calls \cup {Idle}]
         /\ at \in [Threads -> Remembered] /\ DOMAIN iter = Threads
         /\ DOMAIN seen = Threads /\ DOMAIN stays = Threads
         /\ lock \in Threads \cup {NULL} /\ trapped \in BOOLEAN
         /\ reply \in Items \cup {NoItem}
BY DEF IInv, Types

(* A call that returns, in a step that leaves a good table and hides nothing *)
(* from the other threads, keeps the invariant.                              *)
LEMMA Returned ==
  ASSUME IInv, Observe, NEW t \in Threads, NEW answer \in Items \cup {NoItem},
         iter[t] = NoIter, Return(t, answer),
         hmn_item' \in [Nodes -> Items \cup {NULL}], lock' \in Threads \cup {NULL},
         Table(map', InUse'), Unique(InUse'),
         \A u \in Threads \ {t} : Known(map', InUse', u) /\ Unseen(InUse', u)
  PROVE  IInv'
<1>1. /\ call' = [call EXCEPT ![t] = Idle] /\ at' = [at EXCEPT ![t] = Nowhere]
      /\ reply' = answer /\ iter' = iter /\ trapped' = trapped
  BY DEF Return
<1>2. call' \in [Threads -> Calls \cup {Idle}] /\ at' \in [Threads -> Remembered] /\ DOMAIN iter' = Threads
  BY <1>1, TypesAre DEF Remembered
<1>3. call'[t] = Idle /\ at'[t] = Nowhere /\ iter'[t] = NoIter
  BY <1>1, TypesAre
<1>4. Thread(t)'
  BY <1>3, Observed DEF Thread
<1>5. Shows(dict', InUse', hmn_item')
  BY ShownAfter
<1>6. ASSUME NEW u \in Threads \ {t} PROVE Thread(u)'
  <2>1. call'[u] = call[u] /\ at'[u] = at[u] /\ iter'[u] = iter[u]
    BY <1>1, TypesAre
  <2> QED
    BY <1>5, <2>1, Waiting
<1>7. \A u \in Threads : Thread(u)'
  BY <1>4, <1>6
<1>8. trapped' \in BOOLEAN /\ reply' \in Items \cup {NoItem}
  BY <1>1, TypesAre
<1> QED
  BY <1>2, <1>7, <1>8, Enough

(* A call unlocks the map and compares its key with that of a node: it       *)
(* remembers the array and the node, and what it knows of the nodes before   *)
(* it.                                                                       *)
LEMMA CompareStep ==
  ASSUME IInv, Observe, NEW t \in Threads, NEW c \in Makes[t], iter[t] = NoIter,
         NEW n \in InUse, Compare(t, c, n),
         Hash[hmn_key(n)] = Hash[c.key], map.hm_buckets \in Arrays,
         \A m \in InUse : hmn_key(m) = c.key /\ m \notin Onward(BucketFor(c.key), n) => Learned(t, c)
  PROVE  IInv'
<1>1. /\ call' = [call EXCEPT ![t] = c]
      /\ at' = [at EXCEPT ![t] = [b |-> map.hm_buckets, node |-> n]]
      /\ reply' = NoItem /\ map' = map /\ hmn_item' = hmn_item /\ iter' = iter
      /\ lock' = lock /\ trapped' = trapped
  BY DEF Compare
<1>2. /\ call' \in [Threads -> Calls \cup {Idle}] /\ at' \in [Threads -> Remembered] /\ DOMAIN iter' = Threads
      /\ hmn_item' \in [Nodes -> Items \cup {NULL}] /\ lock' \in Threads \cup {NULL}
      /\ trapped' \in BOOLEAN /\ reply' \in Items \cup {NoItem}
  <2>1. [b |-> map.hm_buckets, node |-> n] \in Remembered
    BY Shown DEF Remembered
  <2> QED
    BY <1>1, <2>1, TypesAre, CallIs
<1>3. InUse' = InUse
  BY <1>1 DEF InUse
<1>4. /\ Table(map', InUse') /\ Unique(InUse')
      /\ \A u \in Threads : Known(map', InUse', u) /\ Unseen(InUse', u)
  BY <1>1, <1>3, MapKept
<1>5. call'[t] = c /\ at'[t] = [b |-> map.hm_buckets, node |-> n] /\ iter'[t] = NoIter
  BY <1>1, TypesAre
<1>6. InCall(t)'
  <2>1. Bucket(t)' = BucketFor(c.key)
    BY <1>1, <1>5 DEF Bucket, BucketFor
  <2>2. seen[t] \subseteq seen'[t]
    BY <1>5, CallIs, Observed
  <2>3. at'[t] \in [b : Arrays, node : Nodes] /\ at'[t].node = n
    BY <1>5, Shown
  <2> QED
    BY <1>3, <1>5, <2>1, <2>2, <2>3 DEF InCall, Learned
<1>7. Thread(t)'
  BY <1>5, <1>6, CallIs, Observed DEF Thread
<1>8. Shows(dict', InUse', hmn_item')
  BY <1>2, <1>4, ShownAfter
<1>9. ASSUME NEW u \in Threads, u # t PROVE Thread(u)'
  <2>1. call'[u] = call[u] /\ at'[u] = at[u] /\ iter'[u] = iter[u]
    BY <1>1, <1>9, TypesAre
  <2> QED
    BY <1>4, <1>8, <2>1, Waiting
<1>10. \A u \in Threads : Thread(u)'
  BY <1>7, <1>9
<1> QED
  BY <1>2, <1>4, <1>10, Enough

(* A call adds a node for its key.                                           *)
LEMMA CreateStep ==
  ASSUME IInv, Observe, NEW t \in Threads, NEW c \in Makes[t], iter[t] = NoIter,
         Create(t, c), \A m \in InUse : hmn_key(m) # c.key
  PROVE  IInv'
<1>1. /\ c.op \in {"set", "setnew"} /\ map' = Created(NewNode(c.key), c.key)
      /\ hmn_item' = [hmn_item EXCEPT ![NewNode(c.key)] = c.item]
      /\ Return(t, NoItem) /\ lock' = lock
  BY DEF Create
<1>2. /\ hmn_item' \in [Nodes -> Items \cup {NULL}]
      /\ Table(map', InUse') /\ Unique(InUse')
      /\ \A u \in Threads \ {t} : Known(map', InUse', u) /\ Unseen(InUse', u)
  BY <1>1, MapCreated
<1>3. lock' \in Threads \cup {NULL}
  BY <1>1, TypesAre
<1> QED
  BY <1>1, <1>2, <1>3, Returned

(* A call returns without a node, with the lock or without it.               *)
LEMMA MissStep ==
  ASSUME IInv, Observe, NEW t \in Threads, NEW c \in Makes[t], iter[t] = NoIter,
         Miss(t, c) \/ LeaveLocked(t, c)
  PROVE  IInv'
<1>1. /\ Return(t, NoItem) /\ map' = map /\ hmn_item' = hmn_item /\ lock' \in Threads \cup {NULL}
  BY TypesAre DEF Miss, LeaveLocked
<1>2. InUse' = InUse /\ hmn_item' \in [Nodes -> Items \cup {NULL}]
  BY <1>1, TypesAre DEF InUse
<1>3. /\ Table(map', InUse') /\ Unique(InUse')
      /\ \A u \in Threads : Known(map', InUse', u) /\ Unseen(InUse', u)
  BY <1>1, <1>2, MapKept
<1> QED
  BY <1>1, <1>2, <1>3, Returned

(* A call goes on along its bucket, until a comparison or the end.           *)
LEMMA WalkStep ==
  ASSUME IInv, Observe, NEW t \in Threads, NEW c \in Makes[t], iter[t] = NoIter,
         NEW from \in Nat \ {0}, Searched(t, c, from), Walk(t, c, from)
  PROVE  IInv'
<1> DEFINE hits == Candidates(c.key, from)
<1>1. CASE /\ hits # {} /\ Compare(t, c, BucketFor(c.key)[Min(hits)])
  BY <1>1, Hits, CompareStep
<1>2. CASE hits = {} /\ Create(t, c)
  <2>1. \A m \in InUse : hmn_key(m) # c.key
    BY <1>2, NoHits DEF Learned, Create
  <2> QED
    BY <1>2, <2>1, CreateStep
<1>3. CASE hits = {} /\ (Miss(t, c) \/ LeaveLocked(t, c))
  BY <1>3, MissStep
<1> QED
  BY <1>1, <1>2, <1>3 DEF Walk, BucketFor

(* A call has found the node of its key, and reads, sets or removes it.      *)
LEMMA FoundStep ==
  ASSUME IInv, Observe, NEW t \in Threads, NEW c \in Makes[t], iter[t] = NoIter,
         NEW n \in InUse, Found(t, c, n)
  PROVE  IInv'
<1>0. hmn_item[n] \in Items /\ n \in Nodes
  BY Shown DEF Shows
<1>1. CASE Use(t, c, n)
  <2>1. /\ c.op \in {"get", "set", "setnew", "setold"}
        /\ hmn_item' = [hmn_item EXCEPT ![n] = IF c.op \in {"set", "setold"} THEN c.item
                                               ELSE hmn_item[n]]
        /\ Return(t, hmn_item[n]) /\ map' = map /\ lock' = lock
    BY <1>1 DEF Use
  <2> DEFINE x == IF c.op \in {"set", "setold"} THEN c.item ELSE hmn_item[n]
  <2>2. x \in Items /\ x # NULL /\ hmn_item[n] # NULL
    BY <1>0, CallIs, NoItemAssumption
  <2>3. hmn_item' = [hmn_item EXCEPT ![n] = x]
    BY <2>1
  <2> HIDE DEF x
  <2>4. hmn_item' \in [Nodes -> Items \cup {NULL}]
    BY <2>2, <2>3, TypesAre
  <2>5. InUse' = InUse
    BY <1>0, <2>2, <2>3, TypesAre DEF InUse
  <2>6. /\ Table(map', InUse') /\ Unique(InUse')
        /\ \A u \in Threads : Known(map', InUse', u) /\ Unseen(InUse', u)
    BY <2>1, <2>5, MapKept
  <2>7. lock' \in Threads \cup {NULL} /\ hmn_item[n] \in Items \cup {NoItem}
    BY <1>0, <2>1, TypesAre
  <2> QED
    BY <2>1, <2>4, <2>6, <2>7, Returned
<1>2. CASE Unlink(t, c, n)
  <2>1. /\ map' = Removed(n) /\ hmn_item' = [hmn_item EXCEPT ![n] = NULL]
        /\ Return(t, hmn_item[n]) /\ lock' = lock
    BY <1>2 DEF Unlink
  <2>2. /\ hmn_item' \in [Nodes -> Items \cup {NULL}]
        /\ Table(map', InUse') /\ Unique(InUse')
        /\ \A u \in Threads : Known(map', InUse', u) /\ Unseen(InUse', u)
    BY <2>1, MapRemoved
  <2>3. lock' \in Threads \cup {NULL} /\ hmn_item[n] \in Items \cup {NoItem}
    BY <1>0, <2>1, TypesAre
  <2> QED
    BY <2>1, <2>2, <2>3, Returned
<1> QED
  BY <1>1, <1>2 DEF Found

(* A call begins, ...                                                        *)
LEMMA EnterStep ==
  ASSUME IInv, NEW t \in Threads, NEW c \in Makes[t], Enter(t, c)
  PROVE  IInv'
<1>1. Observe /\ iter[t] = NoIter /\ Walk(t, c, 1)
  BY DEF Enter
<1> QED
  BY <1>1, FromStart, WalkStep

(* ... goes on after a comparison, with the array and the node as it finds   *)
(* them now, ...                                                             *)
LEMMA ResumeStep ==
  ASSUME IInv, NEW t \in Threads, Resume(t)
  PROVE  IInv'
<1> DEFINE c == call[t]
           n == at[t].node
           from == SelectInSeq(Bucket(t), LAMBDA x : x = at[t].node) + 1
<1>1. Observe /\ c # Idle /\ map.hm_bucket_count # 0
  BY DEF Resume
<1>2. c \in Makes[t] /\ iter[t] = NoIter
  BY <1>1 DEF IInv, Thread, InCall
<1>3. CASE SameBucket(t) /\ Reachable(t) /\ hmn_key(n) = c.key
  <2>1. Found(t, c, n)
    BY <1>3 DEF Resume
  <2>2. n \in InUse
    BY <1>1, <1>3, NodeFound
  <2> QED
    BY <1>1, <1>2, <2>1, <2>2, FoundStep
<1>4. CASE SameBucket(t) /\ Reachable(t) /\ hmn_key(n) # c.key
  <2>1. Walk(t, c, from)
    BY <1>4 DEF Resume
  <2>2. from \in Nat \ {0}
    BY <1>1, <1>4, NodeFound
  <2>3. Searched(t, c, from)
    BY <1>1, <1>4, FromHere
  <2> HIDE DEF from, c
  <2> QED
    BY <1>1, <1>2, <2>1, <2>2, <2>3, WalkStep
<1>5. CASE ~(SameBucket(t) /\ Reachable(t))
  <2>1. Walk(t, c, 1)
    BY <1>5 DEF Resume
  <2> QED
    BY <1>1, <1>2, <2>1, FromStart, WalkStep
<1> QED
  BY <1>3, <1>4, <1>5

(* ... divides by the number of buckets of a map that has none any more, ... *)
LEMMA TrapStep ==
  ASSUME IInv, NEW t \in Threads, Trap(t)
  PROVE  IInv'
<1>1. /\ Observe /\ map' = map /\ hmn_item' = hmn_item /\ call' = call /\ at' = at /\ iter' = iter
      /\ lock' = lock /\ trapped' = TRUE /\ reply' = NoItem
  BY DEF Trap
<1>2. InUse' = InUse
  BY <1>1 DEF InUse
<1>3. /\ Table(map', InUse') /\ Unique(InUse')
      /\ \A u \in Threads : Known(map', InUse', u) /\ Unseen(InUse', u)
  BY <1>1, <1>2, MapKept
<1>4. /\ hmn_item' \in [Nodes -> Items \cup {NULL}] /\ call' \in [Threads -> Calls \cup {Idle}]
      /\ at' \in [Threads -> Remembered] /\ DOMAIN iter' = Threads
      /\ lock' \in Threads \cup {NULL} /\ trapped' \in BOOLEAN /\ reply' \in Items \cup {NoItem}
  BY <1>1, TypesAre
<1>5. Shows(dict', InUse', hmn_item')
  BY <1>1, <1>3, <1>4, ShownAfter
<1>6. \A u \in Threads : Thread(u)'
  BY <1>1, <1>3, <1>5, Waiting
<1> QED
  BY <1>1, <1>3, <1>4, <1>6, Enough

(* ... or ends because its comparison raised an exception.                   *)
LEMMA RaiseStep ==
  ASSUME IInv, NEW t \in Threads, Raise(t)
  PROVE  IInv'
<1>1. /\ Observe /\ map' = map /\ hmn_item' = hmn_item /\ lock' = lock /\ call[t] # Idle
      /\ Return(t, NoItem)
  BY DEF Raise, Return
<1>2. InUse' = InUse /\ hmn_item' \in [Nodes -> Items \cup {NULL}] /\ lock' \in Threads \cup {NULL}
  BY <1>1, TypesAre DEF InUse
<1>3. /\ Table(map', InUse') /\ Unique(InUse')
      /\ \A u \in Threads : Known(map', InUse', u) /\ Unseen(InUse', u)
  BY <1>1, <1>2, MapKept
<1>4. iter[t] = NoIter
  BY <1>1 DEF IInv, Thread, InCall
<1> QED
  BY <1>1, <1>2, <1>3, <1>4, Returned

(* The map is cleared.                                                       *)
LEMMA ClearStep ==
  ASSUME IInv, NEW t \in Threads, DeeHashMap_Clear(t)
  PROVE  IInv'
<1>1. /\ Observe /\ map' = DeeHashMap_INIT /\ hmn_item' = [n \in Nodes |-> NULL]
      /\ call' = call /\ at' = at /\ iter' = iter
      /\ lock' = lock /\ trapped' = trapped /\ reply' = NoItem
  BY DEF DeeHashMap_Clear
<1>2. /\ hmn_item' \in [Nodes -> Items \cup {NULL}]
      /\ Table(map', InUse') /\ Unique(InUse')
      /\ \A u \in Threads : Known(map', InUse', u) /\ Unseen(InUse', u)
  BY <1>1, MapCleared
<1>3. /\ call' \in [Threads -> Calls \cup {Idle}]
      /\ at' \in [Threads -> Remembered] /\ DOMAIN iter' = Threads
      /\ lock' \in Threads \cup {NULL} /\ trapped' \in BOOLEAN /\ reply' \in Items \cup {NoItem}
  BY <1>1, TypesAre
<1>4. Shows(dict', InUse', hmn_item')
  BY <1>1, <1>2, ShownAfter
<1>5. \A u \in Threads : Thread(u)'
  BY <1>1, <1>2, <1>4, Waiting
<1> QED
  BY <1>1, <1>2, <1>3, <1>5, Enough

----------------------------------------------------------------------------
(* The steps of the traversals. *)

(* A key put behind the keys that were yielded.                              *)
LEMMA AtEnd ==
  ASSUME NEW S, NEW s \in Seq(S), IsInjective(s), NEW x \in S \ ToSet(s)
  PROVE  Append(s, x) \in Seq(S) /\ IsInjective(Append(s, x)) /\ ToSet(Append(s, x)) = ToSet(s) \cup {x}
<1> DEFINE r == Append(s, x)
           l == Len(s)
<1>1. /\ r \in Seq(S) /\ DOMAIN r = 1 .. l + 1 /\ DOMAIN s = 1 .. l /\ l \in Nat
      /\ r[l + 1] = x /\ \A i \in 1 .. l : r[i] = s[i]
  OBVIOUS
<1> HIDE DEF r, l
<1>2. \A i \in 1 .. l + 1 : i = l + 1 \/ i \in 1 .. l
  BY <1>1
<1>3. l + 1 \in 1 .. l + 1 /\ \A i \in 1 .. l : i \in 1 .. l + 1
  BY <1>1
<1>4. ToSet(r) = ToSet(s) \cup {x}
  BY <1>1, <1>2, <1>3 DEF ToSet
<1>5. \A i \in 1 .. l : s[i] # x
  BY <1>1 DEF ToSet
<1>6. IsInjective(r)
  BY <1>1, <1>2, <1>5 DEF IsInjective
<1> QED
  BY <1>1, <1>4, <1>6 DEF r

(* The nodes behind a place of a bucket. *)
LEMMA Behind ==
  ASSUME NEW S, NEW s \in Seq(S), IsInjective(s), NEW p \in 1 .. Len(s)
  PROVE  LET r == SubSeq(s, p + 1, Len(s))
         IN /\ r # <<>> => /\ Head(r) \in ToSet(s) /\ Head(r) \in S
                           /\ Onward(s, Head(r)) = Onward(s, s[p]) \ {s[p]}
            /\ r = <<>> => Onward(s, s[p]) \subseteq {s[p]}
<1> DEFINE r == SubSeq(s, p + 1, Len(s))
<1>1. {s[j] : j \in p + 1 .. Len(s)} = Onward(s, s[p]) \ {s[p]}
  BY OnwardNext
<1>2. r # <<>> => p + 1 \in 1 .. Len(s) /\ Head(r) = s[p + 1]
  OBVIOUS
<1>3. r = <<>> => p + 1 .. Len(s) = {}
  OBVIOUS
<1> HIDE DEF r
<1>4. ASSUME r # <<>>
      PROVE  Head(r) \in ToSet(s) /\ Head(r) \in S /\ Onward(s, Head(r)) = Onward(s, s[p]) \ {s[p]}
  <2>1. PICK q \in 1 .. Len(s) : q = p + 1 /\ Head(r) = s[q]
    BY <1>2, <1>4
  <2>2. Onward(s, s[q]) = {s[j] : j \in q .. Len(s)}
    BY OnwardFrom
  <2>3. Onward(s, Head(r)) = Onward(s, s[p]) \ {s[p]}
    BY <1>1, <2>1, <2>2
  <2>4. s[q] \in ToSet(s) /\ s[q] \in S
    BY DEF ToSet
  <2> QED
    BY <2>1, <2>3, <2>4
<1>5. r = <<>> => Onward(s, s[p]) \subseteq {s[p]}
  BY <1>1, <1>3
<1> QED
  BY <1>4, <1>5 DEF r

(* The node of a valid iterator. *)
LEMMA ValidIs ==
  ASSUME IInv, NEW i \in Iterators, Valid(i)
  PROVE  LET s == map.chain[i.begin]
             p == SelectInSeq(s, LAMBDA n : n = i.curr)
         IN /\ map.hm_bucket_count \in Nat \ {0} /\ i.begin \in 0 .. map.hm_bucket_count - 1
            /\ i.begin \in Nat /\ i.b = map.hm_buckets
            /\ s \in Seq(Nodes) /\ IsInjective(s)
            /\ ToSet(s) = {n \in InUse : BucketOf(hmn_key(n), map.hm_bucket_count) = i.begin}
            /\ i.curr \in InUse /\ i.curr \in Nodes /\ i.curr # NULL /\ hmn_key(i.curr) \in Keys
            /\ BucketOf(hmn_key(i.curr), map.hm_bucket_count) = i.begin
            /\ p \in 1 .. Len(s) /\ s[p] = i.curr
<1> DEFINE s == map.chain[i.begin]
           p == SelectInSeq(s, LAMBDA n : n = i.curr)
<1>1. i.begin \in Nat /\ i.begin < map.valid_end /\ Contains(s, i.curr) /\ i.b = map.hm_buckets
  BY DEF Iterators, Valid
<1>2. map.hm_bucket_count \in Nat \ {0} /\ i.begin \in 0 .. map.hm_bucket_count - 1
  <2>1. map.hm_bucket_count \in Nat /\ map.valid_end \in Nat /\ map.valid_end <= map.hm_bucket_count
    BY Shown DEF Header, Ranged, Covered
  <2> QED
    BY <1>1, <2>1
<1>3. /\ s \in Seq(Nodes) /\ IsInjective(s)
      /\ ToSet(s) = {n \in InUse : BucketOf(hmn_key(n), map.hm_bucket_count) = i.begin}
  BY <1>2, InUseIn
<1> HIDE DEF s
<1>4. i.curr \in ToSet(s)
  BY <1>1, <1>3 DEF Contains, ToSet
<1>5. p \in 1 .. Len(s) /\ s[p] = i.curr
  BY <1>3, <1>4, Place
<1> HIDE DEF p
<1>6. i.curr \in InUse /\ BucketOf(hmn_key(i.curr), map.hm_bucket_count) = i.begin
  BY <1>3, <1>4
<1>7. i.curr \in Nodes /\ i.curr # NULL /\ hmn_key(i.curr) \in Keys
  BY <1>6, Shown, NodeIn, NullAssumption
<1> QED
  BY <1>1, <1>2, <1>3, <1>5, <1>6, <1>7 DEF s, p

(* An iterator that advances from a node yields the key of that node, and    *)
(* comes to the next node of the bucket or to the first of the next bucket   *)
(* that has one: no key that stays is passed over, none is yielded twice.    *)
LEMMA AdvancedYields ==
  ASSUME IInv, NEW i \in Iterators, Valid(i), IsInjective(i.yielded),
         NEW S \in SUBSET Present(dict), Going(map, InUse, i, S)
  PROVE  Yields(map, InUse, Advanced(i), S)
<1> DEFINE s == map.chain[i.begin]
           p == SelectInSeq(s, LAMBDA n : n = i.curr)
           rest == SubSeq(s, p + 1, Len(s))
           later == {j \in (i.begin + 1) .. (i.end - 1) : map.chain[j] # <<>>}
           next == IF later = {} THEN i.end ELSE Min(later)
           moved == IF rest # <<>> THEN [i EXCEPT !.curr = Head(rest)]
                    ELSE [i EXCEPT !.begin = next,
                                   !.curr = IF later = {} THEN NULL ELSE Head(map.chain[next])]
           a == Advanced(i)
           k0 == hmn_key(i.curr)
           count == map.hm_bucket_count
           Y == ToSet(i.yielded)
           place(k) == BucketOf(k, count)
           ahead == {hmn_key(n) : n \in Onward(s, i.curr)}
<1>1. /\ count \in Nat \ {0} /\ i.begin \in 0 .. count - 1 /\ i.begin \in Nat
      /\ s \in Seq(Nodes) /\ IsInjective(s) /\ i.b = map.hm_buckets
      /\ ToSet(s) = {n \in InUse : place(hmn_key(n)) = i.begin}
      /\ i.curr \in InUse /\ i.curr \in Nodes /\ i.curr # NULL /\ k0 \in Keys
      /\ place(k0) = i.begin /\ p \in 1 .. Len(s) /\ s[p] = i.curr
  BY ValidIs
<1>2. a = [moved EXCEPT !.yielded = Append(@, k0)]
  BY DEF Advanced
<1>3. /\ i.end <= count /\ i.begin < i.end
      /\ \A k \in S : place(k) < i.end
      /\ \A k \in Y : place(k) <= i.begin
      /\ ahead \cap Y = {}
      /\ \A k \in S : k \in Y \/ k \in ahead \/ place(k) > i.begin
  BY <1>1 DEF Going
<1>4. i.yielded \in Seq(Keys) /\ i.end \in Nat
  BY DEF Iterators
<1>5. /\ rest # <<>> => /\ Head(rest) \in ToSet(s) /\ Head(rest) \in Nodes
                        /\ Onward(s, Head(rest)) = Onward(s, i.curr) \ {i.curr}
      /\ rest = <<>> => Onward(s, i.curr) \subseteq {i.curr}
  <2> HIDE DEF s, p
  <2>1. s \in Seq(Nodes) /\ IsInjective(s) /\ p \in 1 .. Len(s)
    BY <1>1
  <2>2. /\ rest # <<>> => /\ Head(rest) \in ToSet(s) /\ Head(rest) \in Nodes
                          /\ Onward(s, Head(rest)) = Onward(s, s[p]) \ {s[p]}
        /\ rest = <<>> => Onward(s, s[p]) \subseteq {s[p]}
    BY <2>1, Behind
  <2>3. s[p] = i.curr
    BY <1>1
  <2> HIDE DEF rest
  <2> QED
    BY <2>2, <2>3
<1>6. Onward(s, i.curr) \subseteq InUse /\ i.curr \in Onward(s, i.curr)
  <2>1. Onward(s, i.curr) \subseteq InUse
    BY <1>1, InUseIn
  <2> HIDE DEF s, p
  <2>2. p \in p .. Len(s)
    BY <1>1
  <2>3. Onward(s, s[p]) = {s[j] : j \in p .. Len(s)}
    BY <1>1, OnwardFrom
  <2> QED
    BY <1>1, <2>1, <2>2, <2>3
<1>7. k0 \in ahead
  BY <1>6
<1>8. \A n \in Onward(s, i.curr) : hmn_key(n) = k0 => n = i.curr
  BY <1>1, <1>6, Shown DEF Unique
<1> HIDE DEF s, p, rest, later, next, k0, Y, place, ahead
<1> DEFINE Z == Append(i.yielded, k0)
<1>9. Z \in Seq(Keys) /\ IsInjective(Z) /\ ToSet(Z) = Y \cup {k0}
  <2>1. k0 \in Keys \ ToSet(i.yielded)
    BY <1>1, <1>3, <1>7 DEF Y
  <2> QED
    BY <1>4, <2>1, AtEnd DEF Y
<1>10. \A k \in Y \cup {k0} : place(k) <= i.begin
  BY <1>1, <1>3
<1> HIDE DEF Z
<1>11. CASE rest # <<>>
  <2>1. moved = [i EXCEPT !.curr = Head(rest)]
    BY <1>11
  <2> HIDE DEF moved
  <2>2. /\ a \in Iterators
        /\ a.b = i.b /\ a.begin = i.begin /\ a.end = i.end /\ a.curr = Head(rest) /\ a.yielded = Z
    BY <1>1, <1>2, <1>5, <1>9, <1>11, <2>1 DEF Iterators, Z
  <2> HIDE DEF a
  <2>3. /\ place(hmn_key(Head(rest))) = i.begin /\ Head(rest) # NULL
    BY <1>1, <1>5, <1>11, NullAssumption
  <2> DEFINE then == {hmn_key(n) : n \in Onward(s, Head(rest))}
  <2>4. then \cap (Y \cup {k0}) = {}
    BY <1>3, <1>5, <1>8, <1>11 DEF ahead
  <2>5. \A k \in ahead : k = k0 \/ k \in then
    BY <1>5, <1>11 DEF ahead, k0
  <2>6. \A k \in S : k \in Y \cup {k0} \/ k \in then \/ place(k) > i.begin
    BY <1>3, <2>5
  <2>7. Going(map, InUse, a, S)
    BY <1>3, <1>9, <1>10, <2>2, <2>3, <2>4, <2>6 DEF Going, s, place
  <2> QED
    BY <1>9, <2>2, <2>3, <2>7 DEF Yields, a
<1>12. CASE rest = <<>> /\ later = {}
  <2>1. moved = [i EXCEPT !.begin = i.end, !.curr = NULL]
    BY <1>12 DEF next
  <2> HIDE DEF moved
  <2>2. /\ a \in Iterators
        /\ a.b = i.b /\ a.begin = i.end /\ a.end = i.end /\ a.curr = NULL /\ a.yielded = Z
    BY <1>2, <1>4, <1>9, <2>1 DEF Iterators, Z
  <2> HIDE DEF a
  <2>3. ASSUME NEW k \in S PROVE k \in Y \cup {k0}
    <3>1. CASE k \in ahead
      BY <1>5, <1>12, <3>1 DEF ahead, k0
    <3>2. CASE place(k) > i.begin
      <4>1. PICK n \in InUse : hmn_key(n) = k
        BY Shown, PresentAre
      <4>2. /\ place(k) \in Nat /\ n \in ToSet(map.chain[place(k)])
            /\ map.chain[place(k)] \in Seq(Nodes)
        BY <4>1, NodeIn DEF place
      <4>3. place(k) \in i.begin + 1 .. i.end - 1
        BY <1>1, <1>3, <1>4, <3>2, <4>2
      <4>4. map.chain[place(k)] # <<>>
        BY <4>2, NoElements
      <4> QED
        BY <1>12, <4>3, <4>4 DEF later
    <3> QED
      BY <1>3, <3>1, <3>2
  <2>4. \A k \in Y \cup {k0} : place(k) <= i.end
    <3>1. ASSUME NEW k \in Y \cup {k0} PROVE place(k) <= i.end
      <4>1. k \in Keys
        BY <1>1, <1>9, <1>4 DEF ToSet, Y
      <4>2. place(k) \in Nat
        BY <1>1, <4>1, KeyIn DEF place
      <4> QED
        BY <1>1, <1>3, <1>4, <1>10, <4>2
    <3> QED
      BY <3>1
  <2>5. NULL \notin InUse
    BY Shown, NullAssumption
  <2>6. Going(map, InUse, a, S)
    BY <1>3, <1>9, <2>2, <2>4, <2>5 DEF Going, place
  <2> QED
    BY <1>9, <2>2, <2>3, <2>6 DEF Yields, a
<1>13. CASE rest = <<>> /\ later # {}
  <2>0. later \in SUBSET Nat
    BY <1>1, <1>4 DEF later
  <2>1. next \in later /\ \A j \in later : next <= j
    BY <1>13, <2>0, Least DEF next
  <2> DEFINE r == map.chain[next]
  <2>2. next \in Nat /\ i.begin < next /\ next < i.end /\ next \in 0 .. count - 1 /\ r # <<>>
    BY <1>1, <1>3, <1>4, <2>0, <2>1 DEF later
  <2>3. r \in Seq(Nodes) /\ ToSet(r) = {n \in InUse : place(hmn_key(n)) = next}
    BY <2>2, InUseIn DEF place
  <2>4. Head(r) \in Nodes /\ Head(r) \in ToSet(r) /\ Onward(r, Head(r)) = ToSet(r)
    BY <2>2, <2>3, OnwardFirst
  <2>5. Head(r) \in InUse /\ place(hmn_key(Head(r))) = next /\ Head(r) # NULL
    BY <2>3, <2>4, NullAssumption
  <2>6. moved = [i EXCEPT !.begin = next, !.curr = Head(r)]
    BY <1>13
  <2> HIDE DEF moved, r
  <2>7. /\ a \in Iterators
        /\ a.b = i.b /\ a.begin = next /\ a.end = i.end /\ a.curr = Head(r) /\ a.yielded = Z
    BY <1>2, <1>4, <1>9, <2>2, <2>4, <2>6 DEF Iterators, Z
  <2> HIDE DEF a
  <2> DEFINE then == {hmn_key(n) : n \in Onward(r, Head(r))}
  <2>8. \A k \in Y \cup {k0} : k \in Keys /\ place(k) \in Nat /\ place(k) <= next /\ place(k) # next
    <3>1. ASSUME NEW k \in Y \cup {k0}
          PROVE  k \in Keys /\ place(k) \in Nat /\ place(k) <= next /\ place(k) # next
      <4>1. k \in Keys
        BY <1>1, <1>4, <1>9 DEF ToSet, Y
      <4>2. place(k) \in Nat
        BY <1>1, <4>1, KeyIn DEF place
      <4> QED
        BY <1>1, <1>10, <2>2, <4>1, <4>2
    <3> QED
      BY <3>1
  <2>9. \A k \in then : place(k) = next
    BY <2>3, <2>4
  <2>10. then \cap (Y \cup {k0}) = {}
    BY <2>8, <2>9
  <2>11. ASSUME NEW k \in S PROVE k \in Y \cup {k0} \/ k \in then \/ place(k) > next
    <3>1. CASE k \in ahead
      BY <1>5, <1>13, <3>1 DEF ahead, k0
    <3>2. CASE place(k) > i.begin
      <4>1. PICK n \in InUse : hmn_key(n) = k
        BY Shown, PresentAre
      <4>2. /\ place(k) \in Nat /\ n \in ToSet(map.chain[place(k)])
            /\ map.chain[place(k)] \in Seq(Nodes)
        BY <4>1, NodeIn DEF place
      <4>3. place(k) \in i.begin + 1 .. i.end - 1
        BY <1>1, <1>3, <1>4, <3>2, <4>2
      <4>4. place(k) \in later
        BY <4>2, <4>3, NoElements DEF later
      <4>5. next <= place(k)
        BY <2>1, <4>4
      <4>6. place(k) = next => n \in ToSet(r)
        BY <2>3, <4>1
      <4>7. place(k) = next => k \in then
        BY <2>4, <4>1, <4>6
      <4> HIDE DEF then
      <4> QED
        BY <2>2, <4>2, <4>5, <4>7
    <3> QED
      BY <1>3, <3>1, <3>2
  <2>12. Going(map, InUse, a, S)
    BY <1>3, <1>9, <2>2, <2>5, <2>7, <2>8, <2>10, <2>11 DEF Going, place, r
  <2> QED
    BY <1>9, <2>5, <2>7, <2>12 DEF Yields, a
<1> QED
  BY <1>11, <1>12, <1>13

(* An iterator begins at the first node of the first bucket in use.          *)
LEMMA InitYields ==
  ASSUME IInv, Valid(DeeHashMapIterator_Init)
  PROVE  LET i == DeeHashMapIterator_Init
         IN i \in Iterators /\ IsInjective(i.yielded) /\ Going(map, InUse, i, Present(dict))
<1> DEFINE i == DeeHashMapIterator_Init
           b == map.valid_begin
           e == map.valid_end
           s == map.chain[b]
           count == map.hm_bucket_count
<1>1. b \in Nat /\ e \in Nat /\ count \in Nat /\ e <= count /\ b < e
  BY Shown DEF Header, Ranged, Covered, Valid, DeeHashMapIterator_Init
<1>2. Filled(map) # {} /\ b \in Filled(map) /\ \A j \in Filled(map) : b <= j /\ j < e
  BY <1>1, Shown DEF Ranged, Covered
<1>3. b \in 0 .. count - 1 /\ count # 0 /\ s # <<>>
  BY <1>1, <1>2 DEF Filled
<1>4. s \in Seq(Nodes) /\ ToSet(s) = {n \in InUse : BucketOf(hmn_key(n), count) = b}
  BY <1>3, InUseIn
<1>5. Head(s) \in Nodes /\ Head(s) \in ToSet(s) /\ Onward(s, Head(s)) = ToSet(s)
  BY <1>3, <1>4, OnwardFirst
<1>6. map.hm_buckets \in Arrays
  BY <1>3, Shown DEF Header, Arrays
<1>7. i = [b |-> map.hm_buckets, begin |-> b, end |-> e, curr |-> Head(s), yielded |-> <<>>]
  <2>1. b # e
    BY <1>1
  <2> QED
    BY <2>1 DEF DeeHashMapIterator_Init
<1> HIDE DEF i, s
<1>8. <<>> \in Seq(Keys) /\ IsInjective(<<>>) /\ ToSet(<<>>) = {}
  <2>1. DOMAIN <<>> = {} /\ <<>> \in Seq(Keys)
    OBVIOUS
  <2> QED
    BY <2>1 DEF ToSet, IsInjective
<1>9. /\ i \in Iterators /\ i.begin = b /\ i.end = e /\ i.curr = Head(s) /\ i.yielded = <<>>
  BY <1>1, <1>5, <1>6, <1>7, <1>8 DEF Iterators
<1> HIDE DEF b, e, count
<1>10. BucketOf(hmn_key(Head(s)), count) = b
  BY <1>4, <1>5
<1>11. ASSUME NEW k \in Present(dict)
       PROVE  /\ BucketOf(k, count) < e
              /\ k \in {hmn_key(n) : n \in Onward(s, Head(s))} \/ BucketOf(k, count) > b
  <2>1. PICK n \in InUse : hmn_key(n) = k
    BY Shown, PresentAre
  <2>2. BucketOf(k, count) \in Filled(map)
    <3>1. /\ BucketOf(k, count) \in 0 .. count - 1
          /\ n \in ToSet(map.chain[BucketOf(k, count)])
          /\ map.chain[BucketOf(k, count)] \in Seq(Nodes)
      BY <2>1, NodeIn DEF count
    <3>2. DOMAIN map.chain = 0 .. count - 1
      BY Shown DEF Buckets, count
    <3> QED
      BY <3>1, <3>2, NoElements DEF Filled
  <2>3. BucketOf(k, count) \in Nat /\ b <= BucketOf(k, count) /\ BucketOf(k, count) < e
    BY <1>2, <2>1, <2>2, NodeIn DEF count
  <2>4. BucketOf(k, count) = b => k \in {hmn_key(m) : m \in Onward(s, Head(s))}
    BY <1>4, <1>5, <2>1
  <2> QED
    BY <1>1, <2>3, <2>4
<1>12. Going(map, InUse, i, Present(dict))
  BY <1>1, <1>8, <1>9, <1>10, <1>11 DEF Going, count, s, b
<1> QED
  BY <1>8, <1>9, <1>12 DEF i

(* A step that changes only an iterator. *)
LEMMA IteratorStep ==
  ASSUME IInv, Observe, NEW t \in Threads, NEW i, iter' = [iter EXCEPT ![t] = i],
         reply' = NoItem, UNCHANGED <<map, hmn_item, call, at, lock, trapped>>, call[t] = Idle,
         i # NoIter => Yields(map, InUse, i, stays'[t])
  PROVE  IInv'
<1>1. InUse' = InUse
  BY DEF InUse
<1>2. /\ Table(map', InUse') /\ Unique(InUse')
      /\ \A u \in Threads : Known(map', InUse', u) /\ Unseen(InUse', u)
  BY <1>1, MapKept
<1>3. /\ hmn_item' \in [Nodes -> Items \cup {NULL}] /\ call' \in [Threads -> Calls \cup {Idle}]
      /\ at' \in [Threads -> Remembered] /\ DOMAIN iter' = Threads
      /\ lock' \in Threads \cup {NULL} /\ trapped' \in BOOLEAN /\ reply' \in Items \cup {NoItem}
  BY TypesAre
<1>4. Shows(dict', InUse', hmn_item')
  BY <1>2, <1>3, ShownAfter
<1>5. ASSUME NEW u \in Threads, u # t PROVE Thread(u)'
  <2>1. call'[u] = call[u] /\ at'[u] = at[u] /\ iter'[u] = iter[u]
    BY <1>5, TypesAre
  <2> QED
    BY <1>2, <1>4, <2>1, Waiting
<1>6. Thread(t)'
  <2>1. call'[t] = Idle /\ at'[t] = Nowhere
    BY DEF IInv, Thread
  <2>2. iter'[t] = i
    BY TypesAre
  <2>3. iter'[t] # NoIter => Yields(map', InUse', iter'[t], stays'[t])
    BY <1>1, <2>2
  <2> QED
    BY <2>1, <2>3, Observed DEF Thread
<1>7. \A u \in Threads : Thread(u)'
  BY <1>5, <1>6
<1> QED
  BY <1>2, <1>3, <1>7, Enough

(* A map that does not change stands for the same dictionary.                *)
LEMMA DictKept ==
  ASSUME IInv, Observe, map' = map, hmn_item' = hmn_item
  PROVE  dict' = dict
<1>1. dict' = [k \in Keys |-> Answer(map', hmn_item', k)]
  <2>1. Contents' = [k \in Keys |-> Answer(map', hmn_item', k)]
    BY DEF Contents, ItemOf, Answer, SelectInSeq
  <2> QED
    BY <2>1 DEF Observe
<1>2. dict = [k \in Keys |-> Answer(map, hmn_item, k)]
  BY DEF IInv, Contents, ItemOf, Answer
<1> QED
  BY <1>1, <1>2

(* A traversal begins, ...                                                   *)
LEMMA BeginStep ==
  ASSUME IInv, NEW t \in Threads, TraverseBegin(t)
  PROVE  IInv'
<1> DEFINE i0 == DeeHashMapIterator_Init
           i == IF Valid(i0) THEN Advanced(i0) ELSE NoIter
<1>1. /\ Observe /\ iter' = [iter EXCEPT ![t] = i] /\ iter[t] = NoIter /\ call[t] = Idle
      /\ reply' = NoItem /\ UNCHANGED <<map, hmn_item, call, at, lock, trapped>>
  BY DEF TraverseBegin, DeeHashMapIterator_Yield
<1>2. dict' = dict
  BY <1>1, DictKept
<1> HIDE DEF i
<1>3. ASSUME i # NoIter PROVE Yields(map, InUse, i, stays'[t])
  <2>1. Valid(i0) /\ i = Advanced(i0)
    BY <1>3 DEF i
  <2>2. iter'[t] # NoIter
    BY <1>1, <1>3, TypesAre
  <2>3. stays'[t] = Present(dict)
    BY <1>1, <1>2, <2>2, Observed
  <2> HIDE DEF i0
  <2>4. i0 \in Iterators /\ IsInjective(i0.yielded) /\ Going(map, InUse, i0, Present(dict))
    BY <2>1, InitYields DEF i0
  <2> QED
    BY <2>1, <2>3, <2>4, AdvancedYields
<1> QED
  BY <1>1, <1>3, IteratorStep

(* ... goes to the next node, or ends where the array is not the one it      *)
(* began with, ...                                                           *)
LEMMA NextStep ==
  ASSUME IInv, NEW t \in Threads, TraverseNext(t)
  PROVE  IInv'
<1> DEFINE i0 == iter[t]
           i == IF Valid(i0) THEN Advanced(i0) ELSE NoIter
<1>1. /\ Observe /\ iter' = [iter EXCEPT ![t] = i] /\ iter[t] # NoIter /\ call[t] = Idle
      /\ reply' = NoItem /\ UNCHANGED <<map, hmn_item, call, at, lock, trapped>>
  BY DEF TraverseNext, DeeHashMapIterator_Yield
<1>2. dict' = dict
  BY <1>1, DictKept
<1> HIDE DEF i
<1>3. ASSUME i # NoIter PROVE Yields(map, InUse, i, stays'[t])
  <2>1. Valid(i0) /\ i = Advanced(i0)
    BY <1>3 DEF i
  <2>2. iter'[t] # NoIter
    BY <1>1, <1>3, TypesAre
  <2>3. stays[t] \subseteq Present(dict)
    BY DEF IInv, Thread
  <2>4. stays'[t] = stays[t]
    BY <1>1, <1>2, <2>2, <2>3, Observed
  <2>5. Yields(map, InUse, i0, stays[t])
    BY <1>1 DEF IInv, Thread
  <2>6. i0 \in Iterators /\ IsInjective(i0.yielded) /\ Going(map, InUse, i0, stays[t])
    BY <2>1, <2>5 DEF Yields, Valid
  <2> QED
    BY <2>1, <2>3, <2>4, <2>6, AdvancedYields
<1> QED
  BY <1>1, <1>3, IteratorStep

(* ... and is given up.                                                      *)
LEMMA StopStep ==
  ASSUME IInv, NEW t \in Threads, TraverseStop(t)
  PROVE  IInv'
<1>1. /\ Observe /\ iter' = [iter EXCEPT ![t] = NoIter] /\ call[t] = Idle
      /\ reply' = NoItem /\ UNCHANGED <<map, hmn_item, call, at, lock, trapped>>
  BY DEF TraverseStop
<1> QED
  BY <1>1, IteratorStep

----------------------------------------------------------------------------
(* The invariant, and what it is for. *)

(* The invariant holds at the start, ...                                     *)
LEMMA InitInv == Init => IInv
<1> SUFFICES ASSUME Init PROVE IInv
  OBVIOUS
<1>1. InUse = {}
  BY DEF Init, InUse
<1>2. Types
  BY DEF Init, Types, Remembered
<1>3. Table(map, InUse) /\ Unique(InUse)
  BY <1>1, EmptyTable DEF Init
<1>4. ASSUME NEW t \in Threads PROVE Thread(t)
  BY DEF Init, Thread
<1> QED
  BY <1>2, <1>3, <1>4 DEF Init, IInv

(* ... in a step that changes nothing, ...                                   *)
LEMMA StutterStep ==
  ASSUME IInv, UNCHANGED vars
  PROVE  IInv'
<1>1. /\ map' = map /\ hmn_item' = hmn_item /\ call' = call /\ at' = at /\ iter' = iter
      /\ lock' = lock /\ trapped' = trapped /\ reply' = reply /\ dict' = dict /\ seen' = seen
      /\ stays' = stays
  BY DEF vars
<1>2. InUse' = InUse
  BY <1>1 DEF InUse
<1>3. Types'
  BY <1>1, TypesAre DEF Types
<1>4. Contents' = Contents
  BY <1>1 DEF Contents, ItemOf, SelectInSeq
<1>5. ASSUME NEW t \in Threads PROVE Thread(t)'
  <2>1. Thread(t)
    BY DEF IInv
  <2>2. Bucket(t)' = Bucket(t)
    BY <1>1 DEF Bucket
  <2>3. InCall(t) => InCall(t)'
    BY <1>1, <1>2, <2>2 DEF InCall
  <2> QED
    BY <1>1, <1>2, <2>1, <2>3 DEF Thread
<1> QED
  BY <1>1, <1>2, <1>3, <1>4, <1>5 DEF IInv

(* ... and after every step.                                                 *)
LEMMA NextInv == IInv /\ [Next]_vars => IInv'
<1> SUFFICES ASSUME IInv, [Next]_vars PROVE IInv'
  OBVIOUS
<1>1. ASSUME NEW t \in Threads, NEW c \in Makes[t], Enter(t, c) PROVE IInv'
  BY <1>1, EnterStep
<1>2. ASSUME NEW t \in Threads, Resume(t) PROVE IInv'
  BY <1>2, ResumeStep
<1>3. ASSUME NEW t \in Threads, Trap(t) PROVE IInv'
  BY <1>3, TrapStep
<1>4. ASSUME NEW t \in Threads, Raise(t) PROVE IInv'
  BY <1>4, RaiseStep
<1>5. ASSUME NEW t \in Threads, DeeHashMap_Clear(t) PROVE IInv'
  BY <1>5, ClearStep
<1>6. ASSUME NEW t \in Threads, TraverseBegin(t) PROVE IInv'
  BY <1>6, BeginStep
<1>7. ASSUME NEW t \in Threads, TraverseNext(t) PROVE IInv'
  BY <1>7, NextStep
<1>8. ASSUME NEW t \in Threads, TraverseStop(t) PROVE IInv'
  BY <1>8, StopStep
<1>9. CASE UNCHANGED vars
  BY <1>9, StutterStep
<1> QED
  BY <1>1, <1>2, <1>3, <1>4, <1>5, <1>6, <1>7, <1>8, <1>9 DEF Next

(* The inductive invariant of the map and of the threads that share it. *)
THEOREM Invariant == Spec => []IInv
<1> QED
  BY InitInv, NextInv, PTL DEF Spec

(* Type correctness: the structures of dict.c and of its callers hold what   *)
(* their declarations say.                                                   *)
THEOREM TypeCorrect == Spec => []TypeOK
<1>1. IInv => TypeOK
  <2> SUFFICES ASSUME IInv PROVE TypeOK
    OBVIOUS
  <2>1. /\ map.hm_buckets \in Arrays \cup {NULL}
        /\ map.hm_bucket_count \in Nat /\ map.hm_map_size \in Nat
        /\ map.valid_begin \in Nat /\ map.valid_end \in Nat
    BY Shown DEF Header, Arrays
  <2>2. /\ DOMAIN map.chain = 0 .. map.hm_bucket_count - 1
        /\ \A i \in DOMAIN map.chain : map.chain[i] \in Seq(Nodes)
    BY Shown DEF Buckets
  <2>3. at \in [Threads -> [b : Arrays, node : Nodes] \cup {Nowhere}]
    BY TypesAre DEF Remembered
  <2>4. ASSUME NEW t \in Threads, iter[t] # NoIter
        PROVE  /\ iter[t].b \in Arrays /\ iter[t].curr \in Nodes \cup {NULL}
               /\ iter[t].yielded \in Seq(Keys)
    <3>1. iter[t] \in Iterators
      BY <2>4 DEF IInv, Thread, Yields
    <3> QED
      BY <3>1 DEF Iterators
  <2> QED
    BY <2>1, <2>2, <2>3, <2>4, TypesAre DEF TypeOK
<1> QED
  BY <1>1, Invariant, PTL

(* The table is exact after every step of every thread: the buckets hold the *)
(* nodes that were added and not removed, each once and in its place, the    *)
(* range begins and ends with one, there are more buckets than nodes, and no *)
(* key is there twice.                                                       *)
THEOREM TableCorrect == Spec => []TableExact
<1>1. IInv => TableExact
  <2> SUFFICES ASSUME IInv PROVE TableExact
    OBVIOUS
  <2> DEFINE F == Filled(map)
             count == map.hm_bucket_count
  <2>1. /\ Header(map) /\ Buckets(map, InUse) /\ Ranged(map) /\ Sized(map, InUse) /\ Unique(InUse)
        /\ InUse \in SUBSET Nodes /\ count \in Nat
    BY Shown DEF Header
  <2>2. NodesOf(map) = InUse /\ F \in SUBSET Nat /\ \A i \in F : i <= count
    BY <2>1, FilledAre
  <2>3. NodesExact
    <3>1. \A i \in DOMAIN map.chain :
            /\ IsInjective(map.chain[i])
            /\ \A n \in ToSet(map.chain[i]) : BucketOf(hmn_key(n), count) = i
      BY <2>1 DEF Buckets
    <3>2. NodesOf(map) = {n \in Nodes : hmn_item[n] # NULL}
      BY <2>2 DEF InUse
    <3>3. map.hm_map_size = Cardinality(NodesOf(map))
      BY <2>1, <2>2 DEF Sized
    <3> QED
      BY <3>1, <3>2, <3>3 DEF NodesExact
  <2>4. RangeExact
    <3>1. CASE F = {}
      BY <2>1, <3>1 DEF RangeExact, Ranged
    <3>2. CASE F # {}
      <4> DEFINE b == map.valid_begin
                 e == map.valid_end
      <4>1. /\ b \in F /\ e - 1 \in F /\ \A i \in F : b <= i /\ i < e
            /\ b \in Nat /\ e \in Nat
        BY <2>1, <3>2 DEF Ranged, Covered, Header
      <4>2. Min(F) \in F /\ \A i \in F : Min(F) <= i
        BY <2>2, <3>2, Least
      <4>3. Max(F) \in F /\ \A i \in F : i <= Max(F)
        BY <2>1, <2>2, <3>2, Greatest
      <4> HIDE DEF b, e, F
      <4>4. Min(F) = b
        <5>1. PICK a \in F : a = Min(F)
          BY <4>2
        <5>2. a \in Nat /\ b \in Nat /\ a <= b /\ b <= a
          BY <2>2, <4>1, <4>2, <5>1
        <5> QED
          BY <5>1, <5>2
      <4>5. Max(F) + 1 = e
        <5>1. PICK l \in F : l = e - 1
          BY <4>1
        <5>2. Max(F) \in Nat /\ l \in Nat /\ Max(F) < e /\ l <= Max(F)
          BY <2>2, <4>1, <4>3
        <5> QED
          BY <4>1, <5>1, <5>2
      <4> QED
        BY <3>2, <4>4, <4>5 DEF RangeExact, b, e, F
    <3> QED
      BY <3>1, <3>2
  <2>5. MoreBucketsThanNodes
    <3>1. CASE count = 0
      <4>1. InUse = {} /\ map.hm_buckets = NULL
        BY <2>1, <3>1, NoBuckets DEF Buckets
      <4>2. map.hm_map_size = 0
        BY <2>1, <4>1, FS_EmptySet DEF Sized
      <4> QED
        BY <3>1, <4>1, <4>2 DEF MoreBucketsThanNodes
    <3>2. CASE count # 0
      BY <2>1, <3>2 DEF Sized, MoreBucketsThanNodes
    <3> QED
      BY <3>1, <3>2
  <2>6. KeysUnique
    BY <2>1, <2>2 DEF KeysUnique, Unique
  <2> QED
    BY <2>3, <2>4, <2>5, <2>6 DEF TableExact
<1> QED
  BY <1>1, Invariant, PTL

(* A traversal yields no key twice, whatever its body and other threads do   *)
(* to the map, and every key that was there throughout if it came to its end.*)
THEOREM TraversalCorrect == Spec => []TraversalSound
<1>1. IInv => TraversalSound
  <2> SUFFICES ASSUME IInv, NEW t \in Threads, iter[t] # NoIter
               PROVE  /\ IsInjective(iter[t].yielded)
                      /\ iter[t].curr = NULL => stays[t] \subseteq ToSet(iter[t].yielded)
    BY DEF TraversalSound
  <2> QED
    BY DEF IInv, Thread, Yields
<1> QED
  BY <1>1, Invariant, PTL

----------------------------------------------------------------------------
(* The map implements SharedMap. *)

(* The observers of the detailed map and of the abstract one are the same.   *)
LEMMA AbstractObserve == Observe => Abstract!Observe
BY DEF Observe, Abstract!Observe, Idle, Abstract!Idle

(* One key has got another item. *)
LEMMA DictSet ==
  ASSUME NEW d, NEW N, NEW items, Shows(d, N, items),
         NEW e, NEW M, NEW jtems, Shows(e, M, jtems),
         NEW k \in Keys, NEW v, e[k] = v,
         \A n : hmn_key(n) # k => (n \in N <=> n \in M) /\ (n \in N => items[n] = jtems[n])
  PROVE  e = [d EXCEPT ![k] = v]
<1>1. d \in [Keys -> Items \cup {NoItem}] /\ e \in [Keys -> Items \cup {NoItem}]
  BY DEF Shows
<1>2. ASSUME NEW l \in Keys, l # k PROVE e[l] = d[l]
  <2>1. CASE \E n \in N : hmn_key(n) = l
    <3>1. PICK n \in N : hmn_key(n) = l
      BY <2>1
    <3>2. n \in M /\ items[n] = jtems[n]
      BY <1>2, <3>1
    <3>3. d[l] = items[n] /\ e[l] = jtems[n]
      BY <3>1, <3>2 DEF Shows
    <3> QED
      BY <3>2, <3>3
  <2>2. CASE \A n \in N : hmn_key(n) # l
    <3>1. \A n \in M : hmn_key(n) # l
      BY <1>2, <2>2
    <3> QED
      BY <2>2, <3>1 DEF Shows
  <2> QED
    BY <2>1, <2>2
<1> QED
  BY <1>1, <1>2

(* To the abstract map a comparison is a call that waits, ...                *)
LEMMA RefineCompare ==
  ASSUME IInv, Observe, NEW t \in Threads, NEW c \in Makes[t], NEW n, Compare(t, c, n),
         call[t] \in {Idle, c}
  PROVE  Abstract!Next
<1>1. /\ call' = [call EXCEPT ![t] = c] /\ reply' = NoItem /\ dict' = dict
  BY DictKept DEF Compare
<1>2. Abstract!Observe
  BY AbstractObserve
<1>3. CASE call[t] = Idle
  <2>1. Abstract!Begin(t, c)
    BY <1>1, <1>2, <1>3 DEF Abstract!Begin, Abstract!Idle, Idle
  <2>2. c \in Abstract!Calls
    BY CallIs DEF Calls, Abstract!Calls
  <2> QED
    BY <2>1, <2>2 DEF Abstract!Next
<1>4. CASE call[t] = c
  <2>1. call' = call
    BY <1>1, <1>4, TypesAre
  <2> QED
    BY <1>1, <1>2, <2>1 DEF Abstract!Next, Abstract!Quiet
<1> QED
  BY <1>3, <1>4

(* ... a call that returns is one of its hits, creations or looks, ...       *)
LEMMA RefineReturn ==
  ASSUME IInv, Observe, NEW t \in Threads, NEW c \in Makes[t], NEW answer, Return(t, answer),
         call[t] \in {Idle, c},
         Abstract!Hit(t, c) \/ Abstract!Create(t, c) \/ Abstract!Look(t, c)
  PROVE  Abstract!Next
<1>1. Abstract!Finish(t, c)
  BY AbstractObserve DEF Abstract!Finish, Abstract!Idle, Idle, Return
<1>2. c \in Abstract!Calls
  BY CallIs DEF Calls, Abstract!Calls
<1> QED
  BY <1>1, <1>2 DEF Abstract!Next

(* ... an added node sets an item of a key that had none, ...                *)
LEMMA RefineCreate ==
  ASSUME IInv, Observe, NEW t \in Threads, NEW c \in Makes[t], call[t] \in {Idle, c},
         Create(t, c), \A m \in InUse : hmn_key(m) # c.key
  PROVE  Abstract!Next
<1> DEFINE n == NewNode(c.key)
<1>1. /\ c.op \in {"set", "setnew"} /\ map' = Created(n, c.key)
      /\ hmn_item' = [hmn_item EXCEPT ![n] = c.item]
      /\ Return(t, NoItem) /\ reply' = NoItem
  BY DEF Create, Return
<1>2. /\ hmn_item' \in [Nodes -> Items \cup {NULL}] /\ InUse' = InUse \cup {n}
      /\ Table(map', InUse') /\ Unique(InUse')
  BY <1>1, MapCreated
<1>3. c.key \in Keys /\ n \in Nodes /\ hmn_key(n) = c.key
  BY CallIs, FreshNode
<1>4. Shows(dict', InUse', hmn_item') /\ Shows(dict, InUse, hmn_item)
  BY <1>2, Shown, ShownAfter
<1> HIDE DEF n
<1>5. dict[c.key] = NoItem
  BY <1>3, <1>4, PresentAre
<1>6. hmn_item'[n] = c.item /\ \A m \in InUse : hmn_item'[m] = hmn_item[m]
  BY <1>1, <1>3, Shown, TypesAre
<1>7. dict'[c.key] = c.item
  BY <1>2, <1>3, <1>4, <1>6 DEF Shows
<1>8. dict' = [dict EXCEPT ![c.key] = c.item]
  BY <1>2, <1>3, <1>4, <1>6, <1>7, DictSet
<1>9. Abstract!Create(t, c)
  BY <1>1, <1>5, <1>8 DEF Abstract!Create
<1> QED
  BY <1>1, <1>9, RefineReturn

(* ... a search without result has seen the key absent at some moment of the *)
(* call, ...                                                                 *)
LEMMA RefineMiss ==
  ASSUME IInv, Observe, NEW t \in Threads, NEW c \in Makes[t], call[t] \in {Idle, c},
         Miss(t, c) \/ LeaveLocked(t, c),
         \A m \in InUse : hmn_key(m) = c.key => Learned(t, c)
  PROVE  Abstract!Next
<1>1. /\ Return(t, NoItem) /\ reply' = NoItem /\ dict' = dict
      /\ c.op \notin {"set", "setnew"}
  BY DictKept DEF Miss, LeaveLocked, Return
<1>2. NoItem \in seen[t] \cup {dict[c.key]}
  <2>1. CASE \A m \in InUse : hmn_key(m) # c.key
    BY <2>1, CallIs, Shown, PresentAre
  <2>2. CASE \E m \in InUse : hmn_key(m) = c.key
    BY <2>2 DEF Learned
  <2> QED
    BY <2>1, <2>2
<1>3. Abstract!Look(t, c)
  BY <1>1, <1>2 DEF Abstract!Look
<1> QED
  BY <1>1, <1>3, RefineReturn

(* ... going on along a bucket is one of these, ...                          *)
LEMMA RefineWalk ==
  ASSUME IInv, Observe, NEW t \in Threads, NEW c \in Makes[t], call[t] \in {Idle, c},
         NEW from \in Nat \ {0}, Searched(t, c, from), Walk(t, c, from)
  PROVE  Abstract!Next
<1> DEFINE hits == Candidates(c.key, from)
<1>1. CASE /\ hits # {} /\ Compare(t, c, BucketFor(c.key)[Min(hits)])
  BY <1>1, RefineCompare
<1>2. CASE hits = {} /\ Create(t, c)
  <2>1. \A m \in InUse : hmn_key(m) # c.key
    BY <1>2, NoHits DEF Learned, Create
  <2> QED
    BY <1>2, <2>1, RefineCreate
<1>3. CASE hits = {} /\ (Miss(t, c) \/ LeaveLocked(t, c))
  <2>1. \A m \in InUse : hmn_key(m) = c.key => Learned(t, c)
    BY <1>3, NoHits
  <2> QED
    BY <1>3, <2>1, RefineMiss
<1> QED
  BY <1>1, <1>2, <1>3 DEF Walk, BucketFor

(* ... a found node is in the map at this moment, so that its item is the    *)
(* one of the key, ...                                                       *)
LEMMA RefineFound ==
  ASSUME IInv, Observe, NEW t \in Threads, NEW c \in Makes[t], call[t] \in {Idle, c},
         NEW n \in InUse, hmn_key(n) = c.key, Found(t, c, n)
  PROVE  Abstract!Next
<1>1. /\ hmn_item[n] \in Items /\ n \in Nodes /\ c.key \in Keys
      /\ dict[c.key] = hmn_item[n] /\ dict[c.key] # NoItem
      /\ Shows(dict, InUse, hmn_item) /\ Unique(InUse)
  BY Shown, NoItemAssumption DEF Shows
<1>2. CASE Use(t, c, n)
  <2> DEFINE x == IF c.op \in {"set", "setold"} THEN c.item ELSE hmn_item[n]
  <2>1. /\ c.op \in {"get", "set", "setnew", "setold"}
        /\ hmn_item' = [hmn_item EXCEPT ![n] = x]
        /\ Return(t, hmn_item[n]) /\ reply' = hmn_item[n] /\ map' = map
    BY <1>2 DEF Use, Return
  <2>2. x \in Items /\ x # NULL /\ hmn_item[n] # NULL
    BY <1>1, <2>1, CallIs, NoItemAssumption
  <2>3. x = IF c.op \in {"set", "setold"} THEN c.item ELSE dict[c.key]
    BY <1>1
  <2> HIDE DEF x
  <2>4. /\ hmn_item' \in [Nodes -> Items \cup {NULL}] /\ hmn_item'[n] = x
        /\ \A m \in Nodes : m # n => hmn_item'[m] = hmn_item[m]
    BY <1>1, <2>1, <2>2, TypesAre
  <2>5. InUse' = InUse
    BY <2>2, <2>4 DEF InUse
  <2>6. Table(map', InUse') /\ Unique(InUse')
    BY <2>1, <2>5, MapKept
  <2>7. Shows(dict', InUse', hmn_item')
    BY <2>4, <2>6, ShownAfter
  <2>8. dict'[c.key] = x
    BY <2>4, <2>5, <2>7 DEF Shows
  <2>9. \A m : hmn_key(m) # c.key =>
                 (m \in InUse <=> m \in InUse') /\ (m \in InUse => hmn_item[m] = hmn_item'[m])
    BY <2>4, <2>5, Shown
  <2>10. dict' = [dict EXCEPT ![c.key] = x]
    BY <1>1, <2>7, <2>8, <2>9, DictSet
  <2>11. CASE c.op = "get"
    <3>1. dict' = dict
      BY <1>1, <2>3, <2>10, <2>11 DEF Shows
    <3>2. Abstract!Look(t, c)
      BY <1>1, <2>1, <2>11, <3>1 DEF Abstract!Look
    <3> QED
      BY <2>1, <3>2, RefineReturn
  <2>12. CASE c.op # "get"
    <3>1. dict' = [dict EXCEPT ![c.key] = IF c.op \in {"pop", "del"} THEN NoItem
                                          ELSE IF c.op = "setnew" THEN dict[c.key] ELSE c.item]
      BY <2>1, <2>3, <2>10, <2>12
    <3>2. Abstract!Hit(t, c)
      BY <1>1, <2>1, <2>12, <3>1 DEF Abstract!Hit
    <3> QED
      BY <2>1, <3>2, RefineReturn
  <2> QED
    BY <2>11, <2>12
<1>3. CASE Unlink(t, c, n)
  <2>1. /\ c.op \in {"pop", "del"}
        /\ map' = Removed(n) /\ hmn_item' = [hmn_item EXCEPT ![n] = NULL]
        /\ Return(t, hmn_item[n]) /\ reply' = hmn_item[n]
    BY <1>3 DEF Unlink, Return
  <2>2. /\ hmn_item' \in [Nodes -> Items \cup {NULL}] /\ InUse' = InUse \ {n}
        /\ Table(map', InUse') /\ Unique(InUse')
    BY <2>1, MapRemoved
  <2>3. Shows(dict', InUse', hmn_item')
    BY <2>2, ShownAfter
  <2>4. \A m \in InUse' : hmn_key(m) # c.key
    BY <1>1, <2>2 DEF Unique
  <2>5. dict'[c.key] = NoItem
    BY <1>1, <2>3, <2>4, PresentAre
  <2>6. \A m : hmn_key(m) # c.key =>
                 (m \in InUse <=> m \in InUse') /\ (m \in InUse => hmn_item[m] = hmn_item'[m])
    BY <2>1, <2>2, Shown, TypesAre
  <2>7. dict' = [dict EXCEPT ![c.key] = NoItem]
    BY <1>1, <2>3, <2>5, <2>6, DictSet
  <2>8. Abstract!Hit(t, c)
    BY <1>1, <2>1, <2>7 DEF Abstract!Hit
  <2> QED
    BY <2>1, <2>8, RefineReturn
<1> QED
  BY <1>2, <1>3 DEF Found

(* ... going on after a comparison is one of these too, ...                  *)
LEMMA RefineResume ==
  ASSUME IInv, NEW t \in Threads, Resume(t)
  PROVE  Abstract!Next
<1> DEFINE c == call[t]
           n == at[t].node
           from == SelectInSeq(Bucket(t), LAMBDA x : x = at[t].node) + 1
<1>1. Observe /\ c # Idle /\ map.hm_bucket_count # 0
  BY DEF Resume
<1>2. c \in Makes[t] /\ call[t] \in {Idle, c}
  BY <1>1 DEF IInv, Thread, InCall
<1>3. CASE SameBucket(t) /\ Reachable(t) /\ hmn_key(n) = c.key
  <2>1. Found(t, c, n)
    BY <1>3 DEF Resume
  <2>2. n \in InUse
    BY <1>1, <1>3, NodeFound
  <2> QED
    BY <1>1, <1>2, <1>3, <2>1, <2>2, RefineFound
<1>4. CASE SameBucket(t) /\ Reachable(t) /\ hmn_key(n) # c.key
  <2>1. Walk(t, c, from)
    BY <1>4 DEF Resume
  <2>2. from \in Nat \ {0}
    BY <1>1, <1>4, NodeFound
  <2>3. Searched(t, c, from)
    BY <1>1, <1>4, FromHere
  <2> HIDE DEF from, c
  <2> QED
    BY <1>1, <1>2, <2>1, <2>2, <2>3, RefineWalk
<1>5. CASE ~(SameBucket(t) /\ Reachable(t))
  <2>1. Walk(t, c, 1)
    BY <1>5 DEF Resume
  <2> QED
    BY <1>1, <1>2, <2>1, FromStart, RefineWalk
<1> QED
  BY <1>3, <1>4, <1>5

(* ... the steps of iterators are not seen, ...                              *)
LEMMA RefineQuiet ==
  ASSUME IInv, Observe, UNCHANGED <<map, hmn_item, call>>, reply' = NoItem
  PROVE  Abstract!Next
<1>1. dict' = dict
  BY DictKept
<1> QED
  BY <1>1, AbstractObserve DEF Abstract!Next, Abstract!Quiet

(* ... and clearing removes all items.                                       *)
LEMMA RefineClear ==
  ASSUME IInv, NEW t \in Threads, DeeHashMap_Clear(t)
  PROVE  Abstract!Next
<1>1. /\ Observe /\ map' = DeeHashMap_INIT /\ hmn_item' = [n \in Nodes |-> NULL]
      /\ call' = call /\ reply' = NoItem
  BY DEF DeeHashMap_Clear
<1>2. /\ hmn_item' \in [Nodes -> Items \cup {NULL}] /\ InUse' = {}
      /\ Table(map', InUse') /\ Unique(InUse')
  BY <1>1, MapCleared
<1>3. Shows(dict', {}, hmn_item')
  BY <1>1, <1>2, ShownAfter
<1>4. dict' = [k \in Keys |-> NoItem]
  BY <1>3 DEF Shows
<1> QED
  BY <1>1, <1>4, AbstractObserve DEF Abstract!Next, Abstract!Clear

(* The detailed map begins as the abstract one does, ...                     *)
LEMMA RefineInit == Init => Abstract!Init
<1> SUFFICES ASSUME Init PROVE Abstract!Init
  OBVIOUS
<1>1. map.hm_buckets = NULL
  BY EmptyTable DEF Init
<1>2. dict = [k \in Keys |-> NoItem]
  BY <1>1 DEF Init, Contents, ItemOf
<1> QED
  BY <1>2 DEF Init, Abstract!Init, Idle, Abstract!Idle

(* ... and each of its steps is a step of the abstract map, or none.         *)
LEMMA RefineNext == IInv /\ [Next]_vars => [Abstract!Next]_Abstract!mapVars
<1> SUFFICES ASSUME IInv, [Next]_vars PROVE [Abstract!Next]_Abstract!mapVars
  OBVIOUS
<1>1. ASSUME NEW t \in Threads, NEW c \in Makes[t], Enter(t, c) PROVE Abstract!Next
  <2>1. Observe /\ call[t] = Idle /\ Walk(t, c, 1)
    BY <1>1 DEF Enter
  <2> QED
    BY <2>1, FromStart, RefineWalk
<1>2. ASSUME NEW t \in Threads, Resume(t) PROVE Abstract!Next
  BY <1>2, RefineResume
<1>3. ASSUME NEW t \in Threads, Trap(t) PROVE Abstract!Next
  BY <1>3, RefineQuiet DEF Trap
<1>4. ASSUME NEW t \in Threads, Raise(t) PROVE Abstract!Next
  <2>1. /\ Observe /\ dict' = dict /\ call' = [call EXCEPT ![t] = Idle] /\ reply' = NoItem
    BY <1>4, DictKept DEF Raise
  <2>2. Abstract!Abort(t)
    BY <2>1, AbstractObserve DEF Abstract!Abort, Abstract!Idle, Idle
  <2> QED
    BY <2>2 DEF Abstract!Next
<1>5. ASSUME NEW t \in Threads, DeeHashMap_Clear(t) PROVE Abstract!Next
  BY <1>5, RefineClear
<1>6. ASSUME NEW t \in Threads, TraverseBegin(t) \/ TraverseNext(t) PROVE Abstract!Next
  BY <1>6, RefineQuiet DEF TraverseBegin, TraverseNext, DeeHashMapIterator_Yield
<1>7. ASSUME NEW t \in Threads, TraverseStop(t) PROVE Abstract!Next
  BY <1>7, RefineQuiet DEF TraverseStop
<1>8. CASE UNCHANGED vars
  BY <1>8 DEF vars, Abstract!mapVars
<1> QED
  BY <1>1, <1>2, <1>3, <1>4, <1>5, <1>6, <1>7, <1>8 DEF Next

(* The calls of all threads are those of a map on which each call is one     *)
(* step: a call that changes the map takes effect at one moment of the call, *)
(* and one that answers without changing it answers what its key had at some *)
(* moment of the call, whatever was added, removed and rehashed during the   *)
(* comparisons, when the lock was not held.                                  *)
THEOREM MapCorrect == Spec => MapImplemented
<1> QED
  BY RefineInit, RefineNext, Invariant, PTL DEF Spec, MapImplemented, Abstract!Spec
=============================================================================
