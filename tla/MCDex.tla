-------------------------------- MODULE MCDex --------------------------------
(* An instance of Dex for TLC. *)
EXTENDS Dex, TLC

CONSTANTS a, b, c, t1

(* a opens b to initialize itself, which the main thread uses as well. *)
MCUses == (a :> {b}) @@ (b :> {}) @@ (c :> {})

MCImports == (t1 :> {a}) @@ (Main :> {b, c})
=============================================================================
