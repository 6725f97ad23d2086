------------------------------ MODULE MCPowerLoss ------------------------------
(* Finite instances of PowerLoss, with the addresses on the chip, for TLC. *)
EXTENDS PowerLoss, FlashAddresses
=============================================================================
