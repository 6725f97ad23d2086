------------------------------ MODULE MCSpiFlash ------------------------------
(* Finite instances of SpiFlash, as written and as optimised, for TLC. *)
EXTENDS SpiFlashOptimised
=============================================================================
