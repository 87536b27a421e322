------------------------------ MODULE MCHashMap ------------------------------
(* An instance of HashMap for TLC. *)
EXTENDS HashMap, TLC

CONSTANTS t1, t2, k1, k2, k3, k4, i1, i2

(* Two keys with the same hash; a third is in their bucket when there are    *)
(* two buckets, and not when there are four or eight.                        *)
MCHash == (k1 :> 1) @@ (k2 :> 1) @@ (k3 :> 3) @@ (k4 :> 0)

Ops(ops, keys) == [op : ops, key : keys]
Writes(ops, keys, i) == [op : ops, key : keys, item : {i}]

(* Each thread writes an item of its own.  Each adds one of the two keys that *)
(* collide, and both add the third.                                          *)
MCMakes ==
  (t1 :> Ops({"get"}, {k1}) \cup Ops({"pop"}, {k1, k4})
           \cup Writes({"set"}, {k1, k3}, i1))
  @@ (t2 :> Ops({"get"}, {k1}) \cup Ops({"del"}, {k2, k3})
              \cup Writes({"setnew"}, {k2, k3, k4}, i2) \cup Writes({"setold"}, {k1}, i2))
=============================================================================
