----------------------------- MODULE MCGcThread -----------------------------
(* Liveness is checked, so there is no symmetry.                           *)
EXTENDS GcThread
=============================================================================
