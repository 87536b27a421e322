------------------------------ MODULE SharedMap ------------------------------
(***************************************************************************)
(* What a dict promises the threads that share it (the functions of        *)
(* src/deemon/dict.impl.hashmap.inl with a lock): a function from keys to  *)
(* items.  A call that changes the map takes effect at one moment of the   *)
(* call, and a call that answers without changing it answers what was true *)
(* at some moment of the call.  HashMap implements this specification.     *)
(***************************************************************************)
EXTENDS FiniteSets

CONSTANTS Threads,   (* the threads that share the map *)
          Keys,      (* the keys *)
          Items,     (* the items *)
          NoItem     (* what a key that is not in the map has, no item *)

VARIABLES dict,      (* the item of every key *)
          call,      (* the call a thread is in, or Idle *)
          seen,      (* the items its key had since the call began *)
          reply      (* the answer the last step gave, if it gave one *)

mapVars == <<dict, call, seen, reply>>

Idle == [op |-> "none"]

(* hm_*: the operations on one key.  "get" looks an item up, "set" replaces  *)
(* or adds, "setnew" only adds, "setold" only replaces, "pop" and "del"      *)
(* remove.                                                                   *)
Calls == [op : {"get", "pop", "del"}, key : Keys]
           \cup [op : {"set", "setnew", "setold"}, key : Keys, item : Items]

Init ==
  /\ dict = [k \in Keys |-> NoItem]
  /\ call = [t \in Threads |-> Idle]
  /\ seen = [t \in Threads |-> {}]
  /\ reply = NoItem

(* Every thread in a call sees the item its key has before and after a step. *)
Observe ==
  seen' = [t \in Threads |->
             IF call'[t] = Idle THEN {}
             ELSE seen[t] \cup {dict[call'[t].key], dict'[call'[t].key]}]

(* A thread makes a call. *)
Begin(t, c) ==
  /\ call[t] = Idle
  /\ call' = [call EXCEPT ![t] = c]
  /\ reply' = NoItem
  /\ UNCHANGED dict
  /\ Observe

(* The call finds its key and uses or changes its item. *)
Hit(t, c) ==
  /\ c.op \in {"set", "setnew", "setold", "pop", "del"}
  /\ dict[c.key] # NoItem
  /\ reply' = dict[c.key]
  /\ dict' = [dict EXCEPT ![c.key] = IF c.op \in {"pop", "del"} THEN NoItem
                                     ELSE IF c.op = "setnew" THEN @ ELSE c.item]

(* The call adds a key that was not there. *)
Create(t, c) ==
  /\ c.op \in {"set", "setnew"}
  /\ dict[c.key] = NoItem
  /\ dict' = [dict EXCEPT ![c.key] = c.item]
  /\ reply' = NoItem

(* The call answers something its key had while the call was in progress.    *)
Look(t, c) ==
  /\ c.op \notin {"set", "setnew"}
  /\ reply' \in seen[t] \cup {dict[c.key]}
  /\ c.op # "get" => reply' = NoItem
  /\ UNCHANGED dict

(* A call returns: one it is in, or one it makes and finishes at once. *)
Finish(t, c) ==
  /\ call[t] \in {Idle, c}
  /\ call' = [call EXCEPT ![t] = Idle]
  /\ Hit(t, c) \/ Create(t, c) \/ Look(t, c)
  /\ Observe

(* A call ends with an exception, before it has changed anything. *)
Abort(t) ==
  /\ call' = [call EXCEPT ![t] = Idle]
  /\ reply' = NoItem
  /\ UNCHANGED dict
  /\ Observe

(* The map is emptied at once. *)
Clear ==
  /\ dict' = [k \in Keys |-> NoItem]
  /\ reply' = NoItem
  /\ UNCHANGED call
  /\ Observe

(* A step of a thread in between. *)
Quiet ==
  /\ reply' = NoItem
  /\ UNCHANGED <<dict, call>>
  /\ Observe

Next ==
  \/ Quiet \/ Clear
  \/ \E t \in Threads : Abort(t) \/ \E c \in Calls : Begin(t, c) \/ Finish(t, c)

Spec == Init /\ [][Next]_mapVars
=============================================================================
