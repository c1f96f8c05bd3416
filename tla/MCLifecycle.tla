---------------------------- MODULE MCLifecycle ----------------------------
(* Lifecycle with the eight slab caches of wspack and the three of wspack_send. *)
EXTENDS Lifecycle, TLC

MCNumCaches == ("wspack" :> 8) @@ ("send" :> 3)
=============================================================================
