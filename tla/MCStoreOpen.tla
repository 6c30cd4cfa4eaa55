----------------------------- MODULE MCStoreOpen ------------------------------
(***************************************************************************)
(* Three processes, two of one release and one of the next.                *)
(***************************************************************************)
EXTENDS StoreOpen, TLC

CONSTANTS old1, old2, new

Releases == (old1 :> 8) @@ (old2 :> 8) @@ (new :> 9)
=============================================================================
