---------------------------- MODULE RecursiveLock ----------------------------
(***************************************************************************)
(* What DeeNativeMutex promises its callers (src/deemon/mutex.c): a lock   *)
(* one thread at a time holds, which its holder may acquire again and must *)
(* release once per acquisition.  Acquiring and releasing are atomic here; *)
(* NativeMutex implements this specification.                              *)
(***************************************************************************)
EXTENDS Naturals

CONSTANTS Threads,   (* the threads that share the mutex      *)
          NoThread   (* the holder of a mutex nobody holds    *)

VARIABLES holder,    (* the thread inside the mutex, or NoThread           *)
          depth      (* how often the holder must release to leave it      *)

lockVars == <<holder, depth>>

Init == holder = NoThread /\ depth = 0

(* A free mutex is entered, a held one only by its holder, one level deeper. *)
Acquire(t) ==
  /\ holder \in {NoThread, t}
  /\ holder' = t
  /\ depth' = depth + 1

(* Only the holder releases; the last release frees the mutex. *)
Release(t) ==
  /\ holder = t
  /\ depth > 0
  /\ depth' = depth - 1
  /\ holder' = IF depth = 1 THEN NoThread ELSE t

Next == \E t \in Threads : Acquire(t) \/ Release(t)

Spec == Init /\ [][Next]_lockVars
=============================================================================
