------------------------------- MODULE PowerLoss -------------------------------
(***************************************************************************)
(* FileSystem on a device that may lose power between any two steps, that  *)
(* is, before or after any flash operation.  RAM and the running call are  *)
(* gone; the flash keeps what was programmed.  A flash operation itself is *)
(* not cut short, and power is lost at most once.                          *)
(***************************************************************************)
EXTENDS FileSystemStore

VARIABLE lost   \* has power been lost

powerVars == <<vars, lost>>

\* A sector that a header links to while its own was never written: the first byte of
\* the file it would hold is the one after the sector that links to it.
LinkedFrom(s) ==
  {p \in Sector : /\ header[p].file_id # FS_PRIV_NOT_ALLOCATED
                  /\ header[p].next_allocation_unit = s}
Dangling(s) == header[s].file_id = FS_PRIV_NOT_ALLOCATED /\ LinkedFrom(s) # {}

\* What was accepted and not committed is gone; the stream goes on where the committed
\* bytes end.  Nothing is promised of a format cut short, which is left out.
PowerFail ==
  /\ ~ lost /\ lost' = TRUE
  /\ pc # "unmounted" /\ call.op # "format"
  /\ alloc_unit_list' = [s \in Sector |-> ErasedHeader]
  /\ fs_priv_handle_list' = [h \in HandleId |-> FreeHandle]
  /\ pc' = "unmounted"
  /\ call' = NoCall
  /\ ret' = "FS_NO_ERROR"
  /\ stream' = [f \in Nil(FileId) |->
                  IF f \in DOMAIN StoredFiles THEN StoredFiles[f].end ELSE 0]
  /\ origin' = [s \in Sector |->
                  IF Dangling(s) THEN StreamEnd(Min(LinkedFrom(s))) ELSE origin[s]]
  /\ UNCHANGED flashVars

\* The calls that only read.
ReadOnlyClient ==
  \/ Mount \/ Unmount
  \/ \E f \in FileId : Open(f, FS_MODE_READONLY)
  \/ \E h \in HandleId : Close(h)
  \/ \E h \in HandleId, n \in ReadSizes : Read(h, n)

InitPower == Init /\ lost = FALSE

\* After the loss, clients read what is left ...
ReadAfterLoss ==
  \/ /\ \/ ~ lost /\ Client
        \/ lost /\ ReadOnlyClient
        \/ Step
     /\ UNCHANGED lost
  \/ PowerFail
ReadAfterLossSpec == InitPower /\ [][ReadAfterLoss]_powerVars

\* As in FairSpec, the processor executes the call it is in.
FairReadAfterLossSpec ==
  ReadAfterLossSpec /\ WF_powerVars(Step /\ UNCHANGED lost)

\* ... or go on as before.
GoOnAfterLoss ==
  \/ Next /\ UNCHANGED lost
  \/ PowerFail
GoOnAfterLossSpec == InitPower /\ [][GoOnAfterLoss]_powerVars

-----------------------------------------------------------------------------
(***************************************************************************)
(* Properties.                                                             *)
(***************************************************************************)

\* Whenever power is lost, the files are what the store then has: every committed byte
\* is there, read in order and up to the end, no file is cut at its end, none is
\* half created, and a removal cut short leaves the later part of its file.  The code's
\* only means to it is the order of its flash writes: data before the session offset,
\* the old root's link kept until it is erased (FileSystem.cpp:371-386, 444-466, 853-866).
StoreSurvivesLoss == Store!SpecWithPowerLoss

\* Every call returns unless power is lost in it, the calls on what a loss has left
\* included: a link into a sector without a header does not keep find_file_root, open
\* or read in their loops (FileSystem.cpp:183-191, 727-762).
CallsReturnUnlessLost == pc \notin {"idle", "unmounted"} ~> pc \in {"idle", "unmounted"}

\* A sector that looks never used is erased: find_free_allocation_unit hands it out
\* first, "since it has never been used" (FileSystem.cpp:92-97).
NeverUsedIsErased ==
  pc = "idle" =>
    \A s \in sectors_of(header, FS_PRIV_NOT_ALLOCATED) :
      header[s].alloc_counter = FS_PRIV_NOT_ALLOCATED =>
        session[s] = ErasedSessions /\ data[s] = ErasedData

=============================================================================
