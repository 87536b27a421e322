---------------------------- MODULE MCNativeMutex ----------------------------
(* Instances of NativeMutex for TLC. *)
EXTENDS NativeMutex, TLC

(* Threads are interchangeable; for runs without liveness properties. *)
ThreadSymmetry == Permutations(Threads)
=============================================================================
