----------------------------- MODULE MCGCCollect -----------------------------
(* Instances of GCCollect for TLC. *)
EXTENDS GCCollect

CONSTANTS a, b, c   (* the objects *)

(* Every heap of three objects is an initial state, so one order suffices. *)
ThreeObjects == <<a, b, c>>
=============================================================================
