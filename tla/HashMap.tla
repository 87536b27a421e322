------------------------------- MODULE HashMap -------------------------------
(***************************************************************************)
(* The hash map of a dict and the calls of the threads that share it, from *)
(* src/deemon/dict.c and the functions "WithLock" and "AndLock" of         *)
(* src/deemon/dict.impl.hashmap.inl.                                       *)
(*                                                                         *)
(* The lock of the dict is not held while two keys are compared, since     *)
(* that runs code of the user.  Afterwards a call only looks whether its   *)
(* bucket and its node are still where they were, and else starts again.   *)
(* What a call does between ACQUIRE and RELEASE is one step here; the      *)
(* comparison, which may run for any time, lies between two steps.         *)
(*                                                                         *)
(* A bucket is the sequence of its nodes, the one hmn_next leads to last.  *)
(* The load factor is the default, 1.0.                                    *)
(***************************************************************************)
EXTENDS Naturals, FiniteSets, SequencesExt

CONSTANTS Threads,    (* the threads that share the dict *)
          Keys, Items,
          NoItem,     (* the answer for a key that is not in the map *)
          NULL,
          Hash,       (* the hash of every key *)
          Makes,      (* the calls every thread makes *)
          Traverses,  (* the threads that traverse the map *)
          Places      (* numbers that tell addresses apart *)

VARIABLES map,        (* struct DeeHashMap *)
          hmn_item,   (* the item of a node, or NULL once it is freed *)
          call,       (* the call a thread is in, or Idle *)
          at,         (* the bucket and the node a comparison is about *)
          iter,       (* the DeeHashMapIterator of a traversal *)
          lock,       (* the thread that never released the lock, or NULL *)
          trapped,    (* a division by zero has killed the process *)
          reply,      (* what a call returned in the last step *)
          dict,       (* history: the map a user of the dict sees *)
          seen,       (* history: what the key of a call had during the call *)
          stays       (* history: the keys there since a traversal began *)

vars == <<map, hmn_item, call, at, iter, lock, trapped, reply, dict, seen, stays>>

Idle == [op |-> "none"]

Calls == [op : {"get", "pop", "del"}, key : Keys]
           \cup [op : {"set", "setnew", "setold"}, key : Keys, item : Items]

Inserts(t, k) == \E c \in Makes[t] : c.op \in {"set", "setnew"} /\ c.key = k

ASSUME HashAssumption == Hash \in [Keys -> Nat]

ASSUME NoItemAssumption == NoItem \notin Items /\ NULL \notin Items \cup Threads

ASSUME MakesAssumption == Makes \in [Threads -> SUBSET Calls]

(* Two threads that insert the same key when another key has its hash may    *)
(* insert it twice: each compares that other key, and neither looks at the   *)
(* nodes added in front of it meanwhile.                                     *)
ASSUME InsertAssumption ==
  \A t, u \in Threads, k, l \in Keys :
    t # u /\ k # l /\ Inserts(t, k) /\ Inserts(u, k) => Hash[k] # Hash[l]

(* An address says what is stored there, and a number tells it from others   *)
(* alike.  An array is known by its size: a rehash always changes it.        *)
Nodes == Keys \X Places
Arrays == (Nat \ {0}) \X Places

ASSUME NullAssumption == NULL \notin Nodes \cup Arrays

(* There is memory for one more node or array than the map and its threads,  *)
(* each of which remembers one at most, refer to.                            *)
ASSUME PlacesAssumption ==
  IsFiniteSet(Threads) /\ IsFiniteSet(Places) /\ Cardinality(Places) > Cardinality(Threads) + 1

hmn_key(n) == n[1]

Nowhere == [b |-> NULL, node |-> NULL]
NoIter == [b |-> NULL, curr |-> NULL]

DEE_HASHMAP_INITIAL_BUCKET_COUNT == 8

-----------------------------------------------------------------------------
(* The map, without threads. *)

DeeHashMap_INIT ==
  [hm_buckets |-> NULL, hm_bucket_count |-> 0, chain |-> <<>>, hm_map_size |-> 0,
   valid_begin |-> 0, valid_end |-> 0]

(* The loop fills up the bits below the lowest bit of x, and adds one: the    *)
(* lowest bit is the greatest divisor of x that is a power of two.           *)
_DeeDictCapacityOf(x) ==
  LET twos == {p \in 1..x : /\ x % p = 0
                            /\ \A d \in 1..p : p % d = 0 /\ d % 2 = 1 => d = 1}
  IN IF x = 0 THEN 0 ELSE x + Max(twos)

BucketOf(k, count) == Hash[k] % count

Filled(m) == {i \in DOMAIN m.chain : m.chain[i] # <<>>}

NodesOf(m) == UNION {ToSet(m.chain[i]) : i \in DOMAIN m.chain}

_DeeHashMap_UpdateValidBuckets(m) ==
  [m EXCEPT !.valid_begin = Min(Filled(m)), !.valid_end = Max(Filled(m)) + 1]

(* Addresses nothing in use and no thread remembers: the allocator is taken  *)
(* not to reuse memory while a stale pointer to it may still be compared.    *)
NewArray(count) ==
  CHOOSE a \in {count} \X Places :
    a # map.hm_buckets /\ \A t \in Threads : a \notin {at[t].b, iter[t].b}

NewNode(k) ==
  CHOOSE n \in {k} \X Places :
    hmn_item[n] = NULL /\ \A t \in Threads : n \notin {at[t].node, iter[t].curr}

(* The nodes as the buckets from valid_begin to valid_end hold them, ...     *)
InOrder(m) ==
  FlattenSeq([j \in 1..(m.valid_end - m.valid_begin) |-> m.chain[m.valid_begin + j - 1]])

(* ... each put at the front of its bucket in an array of this many. *)
Distributed(nodes, count) ==
  LET chains[j \in 0..Len(nodes)] ==
        IF j = 0 THEN [i \in 0..(count - 1) |-> <<>>]
        ELSE [chains[j - 1] EXCEPT ![BucketOf(hmn_key(nodes[j]), count)] = <<nodes[j]>> \o @]
  IN chains[Len(nodes)]

(* Fault: a rehash to nothing keeps the number of buckets. *)
RehashKeepsCount(m, count) ==
  IF count = 0 THEN [m EXCEPT !.hm_buckets = NULL, !.chain = <<>>,
                              !.valid_begin = 0, !.valid_end = 0]
  ELSE _DeeHashMap_UpdateValidBuckets(
         [m EXCEPT !.hm_buckets = NewArray(count), !.hm_bucket_count = count,
                   !.chain = Distributed(InOrder(m), count)])

_DeeHashMap_Rehash(m, count) ==
  IF count = 0 THEN [DeeHashMap_INIT EXCEPT !.hm_map_size = m.hm_map_size]
  ELSE _DeeHashMap_UpdateValidBuckets(
         [m EXCEPT !.hm_buckets = NewArray(count), !.hm_bucket_count = count,
                   !.chain = Distributed(InOrder(m), count)])

(* A node at the front of bucket i. *)
Linked(m, n, i) ==
  [m EXCEPT !.chain[i] = <<n>> \o @,
            !.valid_begin = IF i < @ THEN i ELSE @,
            !.valid_end = IF i >= @ THEN i + 1 ELSE @]

(* The map with one more node for key k; the array grows with it. *)
Created(n, k) ==
  LET first == [DeeHashMap_INIT EXCEPT
                  !.hm_buckets = NewArray(DEE_HASHMAP_INITIAL_BUCKET_COUNT),
                  !.hm_bucket_count = DEE_HASHMAP_INITIAL_BUCKET_COUNT,
                  !.chain = [i \in 0..(DEE_HASHMAP_INITIAL_BUCKET_COUNT - 1) |-> <<>>],
                  !.hm_map_size = 1,
                  !.valid_begin = BucketOf(k, DEE_HASHMAP_INITIAL_BUCKET_COUNT),
                  !.valid_end = BucketOf(k, DEE_HASHMAP_INITIAL_BUCKET_COUNT)]
      more == [map EXCEPT !.hm_map_size = @ + 1]
      count == _DeeDictCapacityOf(more.hm_map_size)
      room == IF map.hm_buckets = NULL THEN first
              ELSE IF count > map.hm_bucket_count THEN _DeeHashMap_Rehash(more, count)
              ELSE more
  IN Linked(room, n, BucketOf(k, room.hm_bucket_count))

(* Fault: only the end of the range moves. *)
ShrunkAtEnd(m, i) ==
  IF m.chain[i] = <<>> /\ i = m.valid_end - 1
  THEN [m EXCEPT !.valid_end = Max(Filled(m)) + 1] ELSE m

(* The range of valid buckets after bucket i lost a node. *)
Shrunk(m, i) ==
  IF m.chain[i] # <<>> THEN m
  ELSE IF i = m.valid_end - 1 THEN [m EXCEPT !.valid_end = Max(Filled(m)) + 1]
  ELSE IF i = m.valid_begin THEN [m EXCEPT !.valid_begin = Min(Filled(m))]
  ELSE m

(* The map without node n; the array shrinks with it. *)
Removed(n) ==
  LET i == BucketOf(hmn_key(n), map.hm_bucket_count)
      less == [map EXCEPT !.chain[i] = RemoveFirst(@, n), !.hm_map_size = @ - 1]
      count == _DeeDictCapacityOf(less.hm_map_size)
  IN IF count < map.hm_bucket_count THEN _DeeHashMap_Rehash(less, count)
     ELSE Shrunk(less, i)

(* What an undisturbed look into the bucket of a key finds. *)
ItemOf(k) ==
  IF map.hm_buckets = NULL THEN NoItem
  ELSE LET chain == map.chain[BucketOf(k, map.hm_bucket_count)]
           j == SelectInSeq(chain, LAMBDA n : hmn_key(n) = k)
       IN IF j = 0 THEN NoItem ELSE hmn_item[chain[j]]

Contents == [k \in Keys |-> ItemOf(k)]

Present(d) == {k \in Keys : d[k] # NoItem}

-----------------------------------------------------------------------------
(* The calls. *)

Init ==
  /\ map = DeeHashMap_INIT
  /\ hmn_item = [n \in Nodes |-> NULL]
  /\ call = [t \in Threads |-> Idle]
  /\ at = [t \in Threads |-> Nowhere]
  /\ iter = [t \in Threads |-> NoIter]
  /\ lock = NULL
  /\ trapped = FALSE
  /\ reply = NoItem
  /\ dict = Contents
  /\ seen = [t \in Threads |-> {}]
  /\ stays = [t \in Threads |-> {}]

(* ACQUIRE: the thread gets the lock, in a process that still runs. *)
Locked == lock = NULL /\ ~trapped

(* The history of a step: what it showed every thread that is in a call or   *)
(* in a traversal.                                                           *)
Observe ==
  /\ dict' = Contents'
  /\ seen' = [t \in Threads |->
                IF call'[t] = Idle THEN {}
                ELSE seen[t] \cup {dict[call'[t].key], dict'[call'[t].key]}]
  /\ stays' = [t \in Threads |->
                 IF iter'[t] = NoIter THEN {}
                 ELSE (IF iter[t] = NoIter THEN Present(dict) ELSE stays[t])
                        \cap Present(dict')]

(* The call leaves the lock to compare the key of a node with its own. *)
Compare(t, c, n) ==
  /\ call' = [call EXCEPT ![t] = c]
  /\ at' = [at EXCEPT ![t] = [b |-> map.hm_buckets, node |-> n]]
  /\ reply' = NoItem
  /\ UNCHANGED <<map, hmn_item, iter, lock, trapped>>

Return(t, answer) ==
  /\ call' = [call EXCEPT ![t] = Idle]
  /\ at' = [at EXCEPT ![t] = Nowhere]
  /\ reply' = answer
  /\ UNCHANGED <<iter, trapped>>

(* _DeeHashMap_GetOrCreateNode adds a node, and its caller fills it. *)
Create(t, c) ==
  /\ c.op \in {"set", "setnew"}
  /\ map' = Created(NewNode(c.key), c.key)
  /\ hmn_item' = [hmn_item EXCEPT ![NewNode(c.key)] = c.item]
  /\ Return(t, NoItem)
  /\ UNCHANGED lock

(* Nothing to look at, replace or remove. *)
Miss(t, c) ==
  /\ c.op \in {"get", "setold", "pop"} \/ (c.op = "del" /\ map.hm_buckets # NULL)
  /\ Return(t, NoItem)
  /\ UNCHANGED <<map, hmn_item, lock>>

(* DeeHashMap_DelItem returns from an empty map without RELEASE. *)
LeaveLocked(t, c) ==
  /\ c.op = "del" /\ map.hm_buckets = NULL
  /\ lock' = t
  /\ Return(t, NoItem)
  /\ UNCHANGED <<map, hmn_item>>

(* The nodes of the key's bucket with its hash, from a place of the bucket   *)
(* on.                                                                       *)
Candidates(k, from) ==
  IF map.hm_buckets = NULL THEN {}
  ELSE LET chain == map.chain[BucketOf(k, map.hm_bucket_count)]
       IN {j \in from..Len(chain) : Hash[hmn_key(chain[j])] = Hash[k]}

(* The walk along the bucket up to the next node with the hash of the key. *)
Walk(t, c, from) ==
  LET hits == Candidates(c.key, from)
  IN \/ /\ hits # {}
        /\ Compare(t, c, map.chain[BucketOf(c.key, map.hm_bucket_count)][Min(hits)])
     \/ /\ hits = {}
        /\ Create(t, c) \/ Miss(t, c) \/ LeaveLocked(t, c)

(* The node is the one looked for. *)
Use(t, c, n) ==
  /\ c.op \in {"get", "set", "setnew", "setold"}
  /\ hmn_item' = [hmn_item EXCEPT ![n] = IF c.op \in {"set", "setold"} THEN c.item ELSE @]
  /\ Return(t, hmn_item[n])
  /\ UNCHANGED <<map, lock>>

Unlink(t, c, n) ==
  /\ c.op \in {"pop", "del"}
  /\ map' = Removed(n)
  /\ hmn_item' = [hmn_item EXCEPT ![n] = NULL]
  /\ Return(t, hmn_item[n])
  /\ UNCHANGED lock

Found(t, c, n) == Use(t, c, n) \/ Unlink(t, c, n)

(* A call begins: hm_buckets is looked at, and the bucket from its front.     *)
(* What the body of a traversal would call, another thread calls here.       *)
Enter(t, c) ==
  /\ Locked
  /\ call[t] = Idle /\ iter[t] = NoIter /\ c \in Makes[t]
  /\ Walk(t, c, 1)
  /\ Observe

(* The bucket and the node are where they were before the comparison. *)
Bucket(t) == map.chain[BucketOf(call[t].key, map.hm_bucket_count)]
SameBucket(t) == at[t].b = map.hm_buckets
(* Fault: the node is taken to be where it was. *)
ReachableAnyway(t) == at[t].node \in Nodes

Reachable(t) == Contains(Bucket(t), at[t].node)

(* The comparison is over: the call uses the node it compared, walks on, or  *)
(* starts again.                                                             *)
Resume(t) ==
  /\ Locked
  /\ call[t] # Idle /\ map.hm_bucket_count # 0
  /\ IF SameBucket(t) /\ Reachable(t)
     THEN IF hmn_key(at[t].node) = call[t].key
          THEN Found(t, call[t], at[t].node)
          ELSE Walk(t, call[t], SelectInSeq(Bucket(t), LAMBDA n : n = at[t].node) + 1)
     ELSE Walk(t, call[t], 1)
  /\ Observe

(* The map was emptied during the comparison: its bucket is looked up modulo *)
(* zero.                                                                     *)
Trap(t) ==
  /\ Locked
  /\ call[t] # Idle /\ map.hm_bucket_count = 0
  /\ trapped' = TRUE
  /\ reply' = NoItem
  /\ UNCHANGED <<map, hmn_item, call, at, iter, lock>>
  /\ Observe

(* The comparison raises an exception, and the lock is not taken again. *)
Raise(t) ==
  /\ ~trapped
  /\ call[t] # Idle /\ call[t].op \in {"pop", "del"}
  /\ call' = [call EXCEPT ![t] = Idle]
  /\ at' = [at EXCEPT ![t] = Nowhere]
  /\ reply' = NoItem
  /\ UNCHANGED <<map, hmn_item, iter, lock, trapped>>
  /\ Observe

DeeHashMap_Clear(t) ==
  /\ Locked
  /\ call[t] = Idle
  /\ map' = DeeHashMap_INIT
  /\ hmn_item' = [n \in Nodes |-> NULL]
  /\ reply' = NoItem
  /\ UNCHANGED <<call, at, iter, lock, trapped>>
  /\ Observe

-----------------------------------------------------------------------------
(* Traversals: DeeHashMap_TRAVERSE_SAFE, with the lock released for the body. *)

DeeHashMapIterator_Init ==
  [b |-> map.hm_buckets, begin |-> map.valid_begin, end |-> map.valid_end,
   curr |-> IF map.valid_begin = map.valid_end THEN NULL
            ELSE Head(map.chain[map.valid_begin]),
   yielded |-> <<>>]

(* Fault: only the place is compared, not the array. *)
ValidPlace(i) == /\ i.begin >= map.valid_begin /\ i.begin < map.valid_end
                 /\ Contains(map.chain[i.begin], i.curr)

(* The iterator points into the array of the map, and to a node that is      *)
(* still in its bucket.                                                      *)
Valid(i) == /\ i.b = map.hm_buckets
            /\ i.begin >= map.valid_begin /\ i.begin < map.valid_end
            /\ Contains(map.chain[i.begin], i.curr)

(* The iterator behind its node: the next one of the bucket, or the first of *)
(* the next bucket that has one.                                             *)
Advanced(i) ==
  LET chain == map.chain[i.begin]
      rest == SubSeq(chain, SelectInSeq(chain, LAMBDA n : n = i.curr) + 1, Len(chain))
      later == {j \in (i.begin + 1)..(i.end - 1) : map.chain[j] # <<>>}
      next == IF later = {} THEN i.end ELSE Min(later)
      moved == IF rest # <<>> THEN [i EXCEPT !.curr = Head(rest)]
               ELSE [i EXCEPT !.begin = next,
                              !.curr = IF later = {} THEN NULL ELSE Head(map.chain[next])]
  IN [moved EXCEPT !.yielded = Append(@, hmn_key(i.curr))]

(* An iterator that is no longer valid ends the traversal. *)
DeeHashMapIterator_Yield(t, i) ==
  /\ iter' = [iter EXCEPT ![t] = IF Valid(i) THEN Advanced(i) ELSE NoIter]
  /\ reply' = NoItem
  /\ UNCHANGED <<map, hmn_item, call, at, lock, trapped>>
  /\ Observe

TraverseBegin(t) ==
  /\ Locked
  /\ t \in Traverses /\ iter[t] = NoIter /\ call[t] = Idle
  /\ DeeHashMapIterator_Yield(t, DeeHashMapIterator_Init)

TraverseNext(t) ==
  /\ Locked
  /\ iter[t] # NoIter /\ call[t] = Idle
  /\ DeeHashMapIterator_Yield(t, iter[t])

(* The body returns from the traversal, or fails. *)
TraverseStop(t) ==
  /\ ~trapped
  /\ iter[t] # NoIter /\ call[t] = Idle
  /\ iter' = [iter EXCEPT ![t] = NoIter]
  /\ reply' = NoItem
  /\ UNCHANGED <<map, hmn_item, call, at, lock, trapped>>
  /\ Observe

Next == \E t \in Threads :
  \/ \E c \in Makes[t] : Enter(t, c)
  \/ Resume(t) \/ Trap(t) \/ Raise(t) \/ DeeHashMap_Clear(t)
  \/ TraverseBegin(t) \/ TraverseNext(t) \/ TraverseStop(t)

Spec == Init /\ [][Next]_vars

-----------------------------------------------------------------------------
(* Every variable has its type. *)
TypeOK ==
  /\ map.hm_buckets \in Arrays \cup {NULL}
  /\ map.hm_bucket_count \in Nat /\ map.hm_map_size \in Nat
  /\ DOMAIN map.chain = 0..(map.hm_bucket_count - 1)
  /\ \A i \in DOMAIN map.chain : map.chain[i] \in Seq(Nodes)
  /\ map.valid_begin \in Nat /\ map.valid_end \in Nat
  /\ hmn_item \in [Nodes -> Items \cup {NULL}]
  /\ call \in [Threads -> Calls \cup {Idle}]
  /\ at \in [Threads -> [b : Arrays, node : Nodes] \cup {Nowhere}]
  /\ \A t \in Threads :
       \/ iter[t] = NoIter
       \/ /\ iter[t].b \in Arrays /\ iter[t].curr \in Nodes \cup {NULL}
          /\ iter[t].yielded \in Seq(Keys)
  /\ lock \in Threads \cup {NULL}
  /\ trapped \in BOOLEAN
  /\ reply \in Items \cup {NoItem}

(* Whatever calls and rehashes met, the nodes in the buckets are the nodes   *)
(* that were added and not yet removed, each once and in the bucket of its   *)
(* hash, and hm_map_size counts them.                                        *)
NodesExact ==
  /\ NodesOf(map) = {n \in Nodes : hmn_item[n] # NULL}
  /\ map.hm_map_size = Cardinality(NodesOf(map))
  /\ \A i \in DOMAIN map.chain :
       /\ IsInjective(map.chain[i])
       /\ \A n \in ToSet(map.chain[i]) :
            BucketOf(hmn_key(n), map.hm_bucket_count) = i

(* hm_valid_buckets_begin is the first bucket with a node and                *)
(* hm_valid_buckets_end is behind the last: a rehash, a traversal and Clear  *)
(* reach no other bucket, so a node outside would be lost.                   *)
RangeExact ==
  IF Filled(map) = {} THEN map.valid_begin = map.valid_end
  ELSE map.valid_begin = Min(Filled(map)) /\ map.valid_end = Max(Filled(map)) + 1

(* There are more buckets than nodes, however the map grew and shrank, or    *)
(* neither: the assertions in Pop and DelItem that the last node is removed  *)
(* by a rehash rely on it.                                                   *)
MoreBucketsThanNodes ==
  \/ map.hm_map_size < map.hm_bucket_count
  \/ map.hm_map_size = 0 /\ map.hm_bucket_count = 0 /\ map.hm_buckets = NULL

(* No key is in the map twice, although threads look for it and add it while *)
(* others remove, add and rehash.                                            *)
KeysUnique ==
  \A n, o \in NodesOf(map) : hmn_key(n) = hmn_key(o) => n = o

(* The table is what its header says, between any two calls and during every *)
(* comparison.                                                               *)
TableExact == NodesExact /\ RangeExact /\ MoreBucketsThanNodes /\ KeysUnique

(* The calls of all threads on the map are those of a map on which each is   *)
(* one step: nobody misses an item that was there throughout the call, finds *)
(* one that never was, or overwrites the effect of another.                  *)
Abstract == INSTANCE SharedMap
MapImplemented == Abstract!Spec

(* A traversal yields no key twice, although the map changes during its      *)
(* body; and if it came to its end, not stopped by an invalid iterator, it   *)
(* yielded every key that was in the map throughout.                         *)
TraversalSound ==
  \A t \in Threads : iter[t] # NoIter =>
    /\ IsInjective(iter[t].yielded)
    /\ iter[t].curr = NULL => stays[t] \subseteq ToSet(iter[t].yielded)
=============================================================================
