--------------------------- MODULE MCObjectLifetime ---------------------------
(* Instances of ObjectLifetime for TLC. *)
EXTENDS ObjectLifetime

CONSTANTS t1, t2, t3   (* the threads *)

(* Objects three threads share, of the kinds whose destruction is either not  *)
(* interrupted or, like a thread's, not a matter of the garbage collector;    *)
(* and every kind of object that one thread uses alone.                       *)
SharedKinds ==
  [gc : BOOLEAN, clears : {{}}, users : {{t1, t2, t3}}]
    \cup {[gc |-> FALSE, clears |-> {1}, users |-> {t1, t2, t3}]}

OwnKinds == [gc : BOOLEAN, clears : SUBSET (1..Levels), users : {{t1}}]

SafeKinds == SharedKinds \cup OwnKinds

(* The instance of a class with a destructor, used by two threads: a garbage  *)
(* collected object whose tp_clear always runs.                               *)
ClassInstance == {[gc |-> TRUE, clears |-> {1}, users |-> {t1, t2}]}
=============================================================================
