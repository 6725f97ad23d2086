--------------------------- MODULE SpiFlashOptimised ---------------------------
(***************************************************************************)
(* SpiFlash as the release build may compile it.  xfer_busy is a plain     *)
(* bool and the loop `while (xfer_busy);' does not change it, so the       *)
(* optimiser (-O3, Makefile:94) may read it once before the loop.          *)
(***************************************************************************)
EXTENDS SpiFlash

\* The one read found xfer_busy set: the interrupt came too late to be seen.
ReadOnce ==
  /\ xpc = "spin" /\ xfer_busy
  /\ xpc' = "hung"
  /\ UNCHANGED <<chipVars, bus, xfer_busy, spi_buffer, pc, req, sent, out>>

\* The loop goes round without reading.
LoopForever ==
  /\ xpc = "hung"
  /\ UNCHANGED vars

OptimisedNext == Next \/ ReadOnce \/ LoopForever

\* The processor executes whatever it is in, as in FairSpec.
OptimisedSpec ==
  /\ Init /\ [][OptimisedNext]_vars
  /\ WF_vars(Driver \/ ReadOnce) /\ WF_vars(SpiEvent) /\ WF_vars(ChipReady)

=============================================================================
