------------------------------ MODULE FileSystem ------------------------------
(***************************************************************************)
(* FileSystem.cpp: a log-structured file store on NOR flash.  A file is a  *)
(* chain of sectors; a sector's session slots record how many of its data  *)
(* bytes are committed.  The table of sector headers is mirrored in RAM,   *)
(* and every open file has a handle with a page of write cache.            *)
(*                                                                         *)
(* The code is single threaded: one API call runs at a time, and `pc' and  *)
(* `call' are its place and its local variables.  A step is at most one    *)
(* flash operation with the RAM updates around it, or one iteration of a   *)
(* loop that walks a chain.                                                *)
(***************************************************************************)
EXTENDS FlashLayout

CONSTANTS
  FS_MAX_HANDLES,   \* handles (the code needs FS_PRIV_MAX_HANDLES to agree)
  WriteSizes,       \* sizes a client writes ...
  ReadSizes,        \* ... and reads
  MAX_STREAM,       \* bound: bytes a client writes to a file in its life
  Liberties         \* what clients do beyond the orderly use of the API

ASSUME ClientAssumption ==
  /\ FS_MAX_HANDLES \in Nat \ {0}
  /\ WriteSizes \subseteq Nat
  /\ ReadSizes \subseteq Nat
  /\ MAX_STREAM \in Nat
  /\ Liberties \subseteq {"remove_open", "share", "protect_open",
                            "dirty_unmount", "reserved_id"}

VARIABLES
  header,    \* flash: allocation unit header of each sector
  session,   \* flash: session slots of each sector
  data,      \* flash: data bytes of each sector
  alloc_unit_list,      \* RAM: fs_priv_t's copy of the headers
  fs_priv_handle_list,  \* RAM: the handles
  pc,        \* where the running call is, or "idle" / "unmounted"
  call,      \* its arguments and local variables
  ret,       \* what the last call returned, "none" while one runs
  stream,    \* ghost: bytes ever accepted for each file since its creation
  origin     \* ghost: stream position of the first data byte of each sector
             \* (0 while there is no such file or byte)

flashVars == <<header, session, data>>
ramVars   == <<alloc_unit_list, fs_priv_handle_list>>
ghostVars == <<stream, origin>>
vars == <<flashVars, ramVars, pc, call, ret, ghostVars>>

-----------------------------------------------------------------------------
HandleId == 0 .. FS_MAX_HANDLES - 1

Flags(c, w, o) == [create |-> c, writeable |-> w, circular |-> o]
FS_MODE_CREATE          == Flags(TRUE, TRUE, FALSE)
FS_MODE_CREATE_CIRCULAR == Flags(TRUE, TRUE, TRUE)
FS_MODE_WRITEONLY       == Flags(FALSE, TRUE, FALSE)
FS_MODE_READONLY        == Flags(FALSE, FALSE, FALSE)
Mode == {FS_MODE_CREATE, FS_MODE_CREATE_CIRCULAR, FS_MODE_WRITEONLY, FS_MODE_READONLY}

\* page_cache keeps only its live bytes: those at or past cached_bytes are never
\* read again and stand as ERASED.
EmptyCache == [i \in PageIdx |-> ERASED]
Byte == Nat \cup {ERASED, CLASH}

FreeHandle == [fs_priv              |-> FALSE,
               file_id              |-> FS_PRIV_NOT_ALLOCATED,
               writeable            |-> FALSE,
               circular             |-> FALSE,
               root_allocation_unit |-> FS_PRIV_NOT_ALLOCATED,
               curr_allocation_unit |-> FS_PRIV_NOT_ALLOCATED,
               curr_session_offset  |-> FS_PRIV_NOT_ALLOCATED,
               curr_session_value   |-> 0,
               last_data_offset     |-> 0,
               curr_data_offset     |-> 0,
               page_cache           |-> EmptyCache]

Handle == [fs_priv              : BOOLEAN,
           file_id              : Nil(FileId),
           writeable            : BOOLEAN,
           circular             : BOOLEAN,
           root_allocation_unit : Nil(Sector),
           curr_allocation_unit : Nil(Sector),
           curr_session_offset  : Nil(Slot),
           curr_session_value   : Offset,
           last_data_offset     : Offset,
           curr_data_offset     : Offset,
           page_cache           : [PageIdx -> Byte]]

Op == {"none", "open", "close", "flush", "write", "read",
       "protect", "unprotect", "remove", "format"}

\* `sector' is the local sector variable of the function at pc and `next' the
\* sector it saved before an erasure; size and done count a transfer.
NoCall == [op     |-> "none",
           file   |-> FS_PRIV_NOT_ALLOCATED,
           mode   |-> FS_MODE_READONLY,
           handle |-> FS_PRIV_NOT_ALLOCATED,
           size   |-> 0,
           done   |-> 0,
           rest   |-> 0,
           sector |-> FS_PRIV_NOT_ALLOCATED,
           next   |-> FS_PRIV_NOT_ALLOCATED]

Call == [op     : Op,
         file   : Nil(FileId),
         mode   : Mode,
         handle : Nil(HandleId),
         size   : Nat,
         done   : Nat,
         rest   : Nat,
         sector : Nil(Sector),
         next   : Nil(Sector)]

Label == {"unmounted", "idle", "find_file_root", "find_last_allocation_unit",
          "allocate", "erase_block", "write_counter", "write_next", "write_file_info",
          "flush_page_cache", "update_session_offset", "write", "write_page", "read"}

Code == {"none", "FS_NO_ERROR", "FS_ERROR_FILE_ALREADY_EXISTS", "FS_ERROR_FILE_NOT_FOUND",
         "FS_ERROR_FILE_PROTECTED", "FS_ERROR_NO_FREE_HANDLE", "FS_ERROR_INVALID_MODE",
         "FS_ERROR_FILESYSTEM_FULL", "FS_ERROR_END_OF_FILE", "FS_ERROR_INVALID_HANDLE"}

-----------------------------------------------------------------------------
(***************************************************************************)
(* Handles and how a call begins and ends.                                 *)
(***************************************************************************)
Cur == fs_priv_handle_list[call.handle]     \* the handle of the running call
SetHandle(h, hd) == fs_priv_handle_list' = [fs_priv_handle_list EXCEPT ![h] = hd]

cached_bytes(hd)    == hd.curr_data_offset - hd.last_data_offset
remaining_bytes(hd) == FS_PRIV_USABLE_SIZE - hd.curr_data_offset
page_boundary(hd)   == FS_PRIV_PAGE_SIZE - (hd.last_data_offset % FS_PRIV_PAGE_SIZE)

\* Mutant: a sector without free session slots still counts as having room.
is_full_ignores_slots(hd) == hd.curr_data_offset >= FS_PRIV_USABLE_SIZE

is_full(hd) == \/ hd.curr_session_offset = FS_PRIV_NOT_ALLOCATED
               \/ hd.curr_data_offset >= FS_PRIV_USABLE_SIZE
is_eof(hd)  == /\ hd.last_data_offset = hd.curr_data_offset
               /\ is_last_allocation_unit(alloc_unit_list, hd.curr_allocation_unit)

Goto(label, c) == pc' = label /\ call' = c
Return(code)   == Goto("idle", NoCall) /\ ret' = code

Open_(h)     == fs_priv_handle_list[h].fs_priv
HandlesOn(f) == {h \in HandleId : Open_(h) /\ fs_priv_handle_list[h].file_id = f}
Writers(f)   == {h \in HandlesOn(f) : fs_priv_handle_list[h].writeable}
FreeHandles  == {h \in HandleId : ~ Open_(h)}

-----------------------------------------------------------------------------
(***************************************************************************)
(* Power on: `new FileSystem' on a chip erased by erase_all.  The          *)
(* constructor reads every header; the destructor does nothing, so what    *)
(* the handles cache is lost.                                              *)
(***************************************************************************)
Init ==
  /\ header = [s \in Sector |-> ErasedHeader]
  /\ session = [s \in Sector |-> ErasedSessions]
  /\ data = [s \in Sector |-> ErasedData]
  /\ alloc_unit_list = [s \in Sector |-> ErasedHeader]
  /\ fs_priv_handle_list = [h \in HandleId |-> FreeHandle]
  /\ pc = "unmounted"
  /\ call = NoCall
  /\ ret = "FS_NO_ERROR"
  /\ stream = [f \in Nil(FileId) |-> 0]
  /\ origin = [s \in Sector |-> 0]

Mount ==
  /\ pc = "unmounted"
  /\ alloc_unit_list' = header
  /\ fs_priv_handle_list' = [h \in HandleId |-> FreeHandle]
  /\ pc' = "idle"
  /\ UNCHANGED <<flashVars, call, ret, ghostVars>>

Unmount ==
  /\ pc = "idle"
  /\ "dirty_unmount" \in Liberties \/ \A h \in HandleId : ~ Open_(h)
  /\ alloc_unit_list' = [s \in Sector |-> ErasedHeader]
  /\ fs_priv_handle_list' = [h \in HandleId |-> FreeHandle]
  /\ pc' = "unmounted"
  /\ UNCHANGED <<flashVars, call, ret, ghostVars>>

-----------------------------------------------------------------------------
(***************************************************************************)
(* find_file_root, with which open, protect, unprotect and remove begin.   *)
(* An orderly client has one writer or some readers on a file, changes the *)
(* protection of no file open for writing, and neither removes a file nor  *)
(* formats the device under an open handle.                                *)
(***************************************************************************)
BeginOnFile(op, f, m) ==
  /\ pc = "idle"
  /\ Goto("find_file_root",
          [NoCall EXCEPT !.op = op, !.file = f, !.mode = m,
                         !.sector = candidate_root(alloc_unit_list, f)])
  /\ ret' = "none"
  /\ UNCHANGED <<flashVars, ramVars, ghostVars>>

Open(f, m) ==
  /\ \/ "share" \in Liberties
     \/ m.create
     \/ IF m.writeable THEN HandlesOn(f) = {} ELSE Writers(f) = {}
  /\ BeginOnFile("open", f, m)

ChangeProtection(op, f) ==
  /\ "protect_open" \in Liberties \/ Writers(f) = {}
  /\ BeginOnFile(op, f, FS_MODE_READONLY)
Protect(f)   == ChangeProtection("protect", f)
Unprotect(f) == ChangeProtection("unprotect", f)

Remove(f) ==
  /\ "remove_open" \in Liberties \/ HandlesOn(f) = {}
  /\ BeginOnFile("remove", f, FS_MODE_READONLY)

ClimbToRoot ==
  /\ pc = "find_file_root"
  /\ call.sector # FS_PRIV_NOT_ALLOCATED
  /\ LET up == parent(alloc_unit_list, call.file, call.sector)
     IN  /\ up # FS_PRIV_NOT_ALLOCATED
         /\ call' = [call EXCEPT !.sector = up]
  /\ UNCHANGED <<flashVars, ramVars, pc, ret, ghostVars>>

AtRoot(op) ==
  /\ pc = "find_file_root"
  /\ call.op = op
  /\ \/ call.sector = FS_PRIV_NOT_ALLOCATED
     \/ parent(alloc_unit_list, call.file, call.sector) = FS_PRIV_NOT_ALLOCATED

Protected(s) == is_protected(alloc_unit_list[s].file_protect)

-----------------------------------------------------------------------------
(***************************************************************************)
(* open.                                                                   *)
(***************************************************************************)
\* Mutant: the protection of the file is not looked at.
check_file_flags_unprotected(root, m) ==
  CASE root = FS_PRIV_NOT_ALLOCATED /\ ~ m.create -> "FS_ERROR_FILE_NOT_FOUND"
    [] root # FS_PRIV_NOT_ALLOCATED /\ m.create   -> "FS_ERROR_FILE_ALREADY_EXISTS"
    [] OTHER                                      -> "FS_NO_ERROR"

check_file_flags(root, m) ==
  CASE root = FS_PRIV_NOT_ALLOCATED /\ ~ m.create -> "FS_ERROR_FILE_NOT_FOUND"
    [] root # FS_PRIV_NOT_ALLOCATED /\ m.create   -> "FS_ERROR_FILE_ALREADY_EXISTS"
    [] root # FS_PRIV_NOT_ALLOCATED /\ ~ m.create /\ m.writeable /\ Protected(root)
                                                  -> "FS_ERROR_FILE_PROTECTED"
    [] OTHER                                      -> "FS_NO_ERROR"

OpenRefused ==
  /\ AtRoot("open")
  /\ LET error == check_file_flags(call.sector, call.mode)
     IN  \/ error # "FS_NO_ERROR" /\ Return(error)
         \/ /\ error = "FS_NO_ERROR"
            /\ FreeHandles = {}
            /\ Return("FS_ERROR_NO_FREE_HANDLE")
  /\ UNCHANGED <<flashVars, ramVars, ghostVars>>

\* allocate_handle takes the first free handle, which open fills in.
OpenAccepted ==
  /\ AtRoot("open")
  /\ check_file_flags(call.sector, call.mode) = "FS_NO_ERROR"
  /\ FreeHandles # {}

OpenedHandle ==
  [FreeHandle EXCEPT
     !.fs_priv = TRUE, !.file_id = call.file, !.root_allocation_unit = call.sector,
     !.writeable = call.mode.writeable,
     !.circular = \/ call.mode.circular
                  \/ /\ call.sector # FS_PRIV_NOT_ALLOCATED
                     /\ alloc_unit_list[call.sector].circular]

OpenForReading ==
  /\ OpenAccepted
  /\ call.sector # FS_PRIV_NOT_ALLOCATED /\ ~ call.mode.writeable
  /\ SetHandle(Min(FreeHandles),
               [OpenedHandle EXCEPT
                  !.curr_allocation_unit = call.sector,
                  !.last_data_offset = session_end(session[call.sector])])
  /\ Return("FS_NO_ERROR")
  /\ UNCHANGED <<flashVars, alloc_unit_list, ghostVars>>

OpenForWriting ==
  /\ OpenAccepted
  /\ call.sector # FS_PRIV_NOT_ALLOCATED /\ call.mode.writeable
  /\ SetHandle(Min(FreeHandles), OpenedHandle)
  /\ Goto("find_last_allocation_unit", [call EXCEPT !.handle = Min(FreeHandles)])
  /\ UNCHANGED <<flashVars, alloc_unit_list, ret, ghostVars>>

OpenNewFile ==
  /\ OpenAccepted
  /\ call.sector = FS_PRIV_NOT_ALLOCATED
  /\ SetHandle(Min(FreeHandles), OpenedHandle)
  /\ Goto("allocate", [call EXCEPT !.handle = Min(FreeHandles)])
  /\ UNCHANGED <<flashVars, alloc_unit_list, ret, ghostVars>>

\* find_last_allocation_unit, one link at a time ...
FollowChain ==
  /\ pc = "find_last_allocation_unit"
  /\ ~ is_last_allocation_unit(alloc_unit_list, call.sector)
  /\ call' = [call EXCEPT !.sector = alloc_unit_list[call.sector].next_allocation_unit]
  /\ UNCHANGED <<flashVars, ramVars, pc, ret, ghostVars>>

\* ... and find_next_session_offset in the sector it stops at.
\* Mutant: the page cache is not marked empty, last_data_offset stays at 0.
OpenAtEnd_cache_not_emptied ==
  /\ pc = "find_last_allocation_unit"
  /\ is_last_allocation_unit(alloc_unit_list, call.sector)
  /\ LET end == session_end(session[call.sector])
     IN  SetHandle(call.handle,
                   [Cur EXCEPT !.curr_allocation_unit = call.sector,
                               !.curr_session_offset = next_session(session[call.sector]),
                               !.curr_session_value = end,
                               !.curr_data_offset = end])
  /\ Return("FS_NO_ERROR")
  /\ UNCHANGED <<flashVars, alloc_unit_list, ghostVars>>

OpenAtEnd ==
  /\ pc = "find_last_allocation_unit"
  /\ is_last_allocation_unit(alloc_unit_list, call.sector)
  /\ LET end == session_end(session[call.sector])
     IN  SetHandle(call.handle,
                   [Cur EXCEPT !.curr_allocation_unit = call.sector,
                               !.curr_session_offset = next_session(session[call.sector]),
                               !.curr_session_value = end,
                               !.last_data_offset = end,
                               !.curr_data_offset = end])
  /\ Return("FS_NO_ERROR")
  /\ UNCHANGED <<flashVars, alloc_unit_list, ghostVars>>

-----------------------------------------------------------------------------
(***************************************************************************)
(* erase_allocation_unit: the sector is erased, its header in RAM is reset *)
(* with the counter moved on, and then only the counter is written back.   *)
(***************************************************************************)
\* Mutant: the erasure reaches the header and the sessions but not the data.
EraseBlock_header_only ==
  /\ pc = "erase_block"
  /\ header' = [header EXCEPT ![call.sector] = ErasedHeader]
  /\ session' = [session EXCEPT ![call.sector] = ErasedSessions]
  /\ alloc_unit_list' =
       [alloc_unit_list EXCEPT
          ![call.sector] =
             [ErasedHeader EXCEPT
                !.alloc_counter = NextCounter(alloc_unit_list[call.sector].alloc_counter)]]
  /\ origin' = [origin EXCEPT ![call.sector] = 0]
  /\ pc' = "write_counter"
  /\ UNCHANGED <<data, fs_priv_handle_list, call, ret, stream>>

EraseBlock ==
  /\ pc = "erase_block"
  /\ LET s == call.sector
     IN  /\ header' = [header EXCEPT ![s] = ErasedHeader]
         /\ session' = [session EXCEPT ![s] = ErasedSessions]
         /\ data' = [data EXCEPT ![s] = ErasedData]
         /\ alloc_unit_list' =
              [alloc_unit_list EXCEPT
                 ![s] = [ErasedHeader EXCEPT
                           !.alloc_counter = NextCounter(alloc_unit_list[s].alloc_counter)]]
  /\ origin' = [origin EXCEPT ![call.sector] = 0]
  /\ pc' = "write_counter"
  /\ UNCHANGED <<fs_priv_handle_list, call, ret, stream>>

WriteCounter ==
  /\ pc = "write_counter"
  /\ header' = [header EXCEPT
                  ![call.sector].alloc_counter =
                     ProgramWord(@, alloc_unit_list[call.sector].alloc_counter)]

-----------------------------------------------------------------------------
(***************************************************************************)
(* allocate_new_sector_to_file, called by open for a new file and by write *)
(* when the current sector is full.                                        *)
(***************************************************************************)

\* The table entry of the sector, and the link to it from the current one.  A file
\* without a root gets this sector as its root, unprotected; otherwise the root's
\* protection is copied.
Claim(sector, root) ==
  LET entry ==
        [file_id |-> Cur.file_id,
         file_protect |-> IF root = FS_PRIV_NOT_ALLOCATED
                            THEN PROTECT_BITS ELSE alloc_unit_list[root].file_protect,
         next_allocation_unit |-> FS_PRIV_NOT_ALLOCATED,
         circular |-> Cur.circular,
         alloc_counter |-> alloc_unit_list[sector].alloc_counter]
      claimed == [alloc_unit_list EXCEPT ![sector] = entry]
  IN  IF root = FS_PRIV_NOT_ALLOCATED
        THEN /\ alloc_unit_list' = claimed
             /\ SetHandle(call.handle, [Cur EXCEPT !.root_allocation_unit = sector])
             /\ Goto("write_file_info", [call EXCEPT !.sector = sector, !.next = root])
        ELSE /\ alloc_unit_list' =
                  [claimed EXCEPT ![Cur.curr_allocation_unit].next_allocation_unit = sector]
             /\ SetHandle(call.handle, [Cur EXCEPT !.root_allocation_unit = root])
             /\ Goto("write_next",
                     [call EXCEPT !.sector = sector, !.next = FS_PRIV_NOT_ALLOCATED])

CanRecycle == Cur.circular /\ Cur.root_allocation_unit # FS_PRIV_NOT_ALLOCATED

AllocateFree ==
  /\ pc = "allocate"
  /\ free_sectors(alloc_unit_list) # {}
  /\ Claim(find_free_allocation_unit(alloc_unit_list), Cur.root_allocation_unit)
  /\ UNCHANGED <<flashVars, ret, ghostVars>>

\* Mutant: the new root is read after the old one has been erased.
RecycleRoot_reads_next_late ==
  /\ pc = "allocate"
  /\ free_sectors(alloc_unit_list) = {}
  /\ CanRecycle
  /\ Goto("erase_block", [call EXCEPT !.sector = Cur.root_allocation_unit])
  /\ UNCHANGED <<flashVars, ramVars, ret, ghostVars>>

\* No free sector: a circular file gives up its oldest one.
RecycleRoot ==
  /\ pc = "allocate"
  /\ free_sectors(alloc_unit_list) = {}
  /\ CanRecycle
  /\ LET root == Cur.root_allocation_unit
     IN  Goto("erase_block",
              [call EXCEPT !.sector = root,
                           !.next = alloc_unit_list[root].next_allocation_unit])
  /\ UNCHANGED <<flashVars, ramVars, ret, ghostVars>>

\* Mutant: the handle keeps the erased sector as its root.
Recycled_keeps_root ==
  /\ call.op \in {"open", "write"}
  /\ WriteCounter
  /\ Claim(call.sector, call.sector)
  /\ UNCHANGED <<session, data, ret, ghostVars>>

Recycled ==
  /\ call.op \in {"open", "write"}
  /\ WriteCounter
  /\ Claim(call.sector, call.next)
  /\ UNCHANGED <<session, data, ret, ghostVars>>

AllocateFails ==
  /\ pc = "allocate"
  /\ free_sectors(alloc_unit_list) = {}
  /\ ~ CanRecycle
  /\ IF call.op = "open" THEN SetHandle(call.handle, FreeHandle)
                         ELSE UNCHANGED fs_priv_handle_list
  /\ Return("FS_ERROR_FILESYSTEM_FULL")
  /\ UNCHANGED <<flashVars, alloc_unit_list, ghostVars>>

\* The current sector's header is written again, now with its link.
WriteNext ==
  /\ pc = "write_next"
  /\ LET s == Cur.curr_allocation_unit
     IN  header' = [header EXCEPT ![s] = ProgramFileInfo(@, alloc_unit_list[s])]
  /\ pc' = "write_file_info"
  /\ UNCHANGED <<session, data, ramVars, call, ret, ghostVars>>

\* The handle moves to the start of the new sector, whose header is written.
WriteFileInfo ==
  /\ pc = "write_file_info"
  /\ LET s == call.sector
         f == Cur.file_id
         begin == IF call.op = "open" THEN 0 ELSE stream[f]
     IN  /\ header' = [header EXCEPT ![s] = ProgramFileInfo(@, alloc_unit_list[s])]
         /\ SetHandle(call.handle,
                      [Cur EXCEPT !.curr_allocation_unit = s,
                                  !.last_data_offset = 0,
                                  !.curr_data_offset = 0,
                                  !.curr_session_offset = 0,
                                  !.curr_session_value = 0,
                                  !.page_cache = EmptyCache])
         /\ stream' = [stream EXCEPT ![f] = begin]
         /\ origin' = [origin EXCEPT ![s] = begin]
  /\ IF call.op = "open"
       THEN Return("FS_NO_ERROR")
       ELSE /\ Goto("write", [call EXCEPT !.sector = FS_PRIV_NOT_ALLOCATED])
            /\ UNCHANGED ret
  /\ UNCHANGED <<session, data, alloc_unit_list>>

-----------------------------------------------------------------------------
(***************************************************************************)
(* flush_handle: flush_page_cache, then update_session_offset.  Called by  *)
(* close and flush, and by write when the current sector is full.          *)
(***************************************************************************)
BeginOnHandle(op, h, label, n) ==
  /\ Goto(label, [NoCall EXCEPT !.op = op, !.handle = h, !.size = n,
                                !.file = fs_priv_handle_list[h].file_id])
  /\ ret' = "none"

\* flush_handle goes no further without a session slot for the new offset.
CanFlush(hd) == hd.curr_session_offset # FS_PRIV_NOT_ALLOCATED

Flush(h) ==
  /\ pc = "idle" /\ Open_(h)
  /\ LET hd == fs_priv_handle_list[h]
     IN  \/ ~ hd.writeable /\ Return("FS_ERROR_INVALID_MODE")
         \/ hd.writeable /\ ~ CanFlush(hd) /\ Return("FS_ERROR_FILESYSTEM_FULL")
         \/ /\ hd.writeable /\ CanFlush(hd)
            /\ BeginOnHandle("flush", h, "flush_page_cache", 0)
  /\ UNCHANGED <<flashVars, ramVars, ghostVars>>

\* Mutant: close does not flush.
Close_without_flush(h) ==
  /\ pc = "idle" /\ Open_(h)
  /\ SetHandle(h, FreeHandle)
  /\ Return("FS_NO_ERROR")
  /\ UNCHANGED <<flashVars, alloc_unit_list, ghostVars>>

\* close ignores what flush returns.
Close(h) ==
  /\ pc = "idle" /\ Open_(h)
  /\ LET hd == fs_priv_handle_list[h]
     IN  \/ /\ ~ hd.writeable \/ ~ CanFlush(hd)
            /\ SetHandle(h, FreeHandle)
            /\ Return("FS_NO_ERROR")
         \/ /\ hd.writeable /\ CanFlush(hd)
            /\ BeginOnHandle("close", h, "flush_page_cache", 0)
            /\ UNCHANGED fs_priv_handle_list
  /\ UNCHANGED <<flashVars, alloc_unit_list, ghostVars>>

\* flash write of bytes[0 .. n - 1] at the data offset `from' of a sector.
ProgramData(s, from, n, bytes) ==
  data' = [data EXCEPT
             ![s] = [i \in Cell |-> IF i >= from /\ i < from + n
                                      THEN ProgramByte(data[s][i], bytes[i - from])
                                      ELSE data[s][i]]]

FlushPageCache ==
  /\ pc = "flush_page_cache"
  /\ ProgramData(Cur.curr_allocation_unit, Cur.last_data_offset, cached_bytes(Cur),
                 Cur.page_cache)
  /\ SetHandle(call.handle, [Cur EXCEPT !.last_data_offset = Cur.curr_data_offset,
                                        !.page_cache = EmptyCache])
  /\ pc' = "update_session_offset"
  /\ UNCHANGED <<header, session, alloc_unit_list, call, ret, ghostVars>>

\* Mutant: the last slot is not seen to be the last.
next_slot_off_by_one(i) == IF i + 1 > FS_PRIV_NUM_WRITE_SESSIONS
                             THEN FS_PRIV_NOT_ALLOCATED ELSE i + 1

next_slot(i) == IF i + 1 >= FS_PRIV_NUM_WRITE_SESSIONS
                  THEN FS_PRIV_NOT_ALLOCATED ELSE i + 1

\* Mutant: every flush uses up a slot.
SessionMoved_always(hd) == TRUE

\* A slot is used only when the offset has moved since the last one.
SessionMoved(hd) == hd.last_data_offset # hd.curr_session_value

\* Mutant: the value of the slot just written is not remembered.
UpdatedHandle_stale_value(hd) ==
  [hd EXCEPT !.curr_session_offset =
     IF SessionMoved(hd) THEN next_slot(@) ELSE @]

UpdatedHandle(hd) ==
  IF SessionMoved(hd)
    THEN [hd EXCEPT !.curr_session_value = hd.last_data_offset,
                    !.curr_session_offset = next_slot(hd.curr_session_offset)]
    ELSE hd

UpdateSessionOffset ==
  /\ pc = "update_session_offset"
  /\ session' =
       IF SessionMoved(Cur)
         THEN [session EXCEPT
                 ![Cur.curr_allocation_unit][Cur.curr_session_offset] =
                    ProgramWord(@, Cur.last_data_offset)]
         ELSE session
  /\ SetHandle(call.handle, IF call.op = "close" THEN FreeHandle ELSE UpdatedHandle(Cur))
  /\ IF call.op = "write"
       THEN Goto("allocate", call) /\ UNCHANGED ret
       ELSE Return("FS_NO_ERROR")
  /\ UNCHANGED <<header, data, alloc_unit_list, ghostVars>>

-----------------------------------------------------------------------------
(***************************************************************************)
(* write: each iteration of its loop passes at most a page, and at most    *)
(* what the sector still holds, through the cache.                         *)
(***************************************************************************)
Write(h, n) ==
  /\ pc = "idle" /\ Open_(h)
  /\ stream[fs_priv_handle_list[h].file_id] + n <= MAX_STREAM
  /\ \/ ~ fs_priv_handle_list[h].writeable /\ Return("FS_ERROR_INVALID_MODE")
     \/ /\ fs_priv_handle_list[h].writeable
        /\ BeginOnHandle("write", h, "write", n)
  /\ UNCHANGED <<flashVars, ramVars, ghostVars>>

WriteDone ==
  /\ pc = "write" /\ call.size = 0
  /\ Return("FS_NO_ERROR")
  /\ UNCHANGED <<flashVars, ramVars, ghostVars>>

\* The full sector is flushed, when it still has a slot, and a new one allocated.
WriteToFullSector ==
  /\ pc = "write" /\ call.size > 0
  /\ is_full(Cur)
  /\ Goto(IF CanFlush(Cur) THEN "flush_page_cache" ELSE "allocate", call)
  /\ UNCHANGED <<flashVars, ramVars, ret, ghostVars>>

\* Mutant: the room left in the sector does not limit the write.
write_size_past_sector(hd, size) == SmallerOf(FS_PRIV_PAGE_SIZE, size)

write_size(hd, size) ==
  SmallerOf(SmallerOf(FS_PRIV_PAGE_SIZE, size), remaining_bytes(hd))

\* The cache with n new bytes of the file after the `cached' live ones.
Filled(cache, cached, n, file) ==
  [i \in PageIdx |->
     CASE i < cached                     -> cache[i]
       [] i >= cached /\ i < cached + n  -> Payload(file, stream[file] + (i - cached))
       [] OTHER                          -> ERASED]

\* n bytes accepted into the cache, counted in *written.
Accept(hd, cached, n) ==
  /\ SetHandle(call.handle,
               [hd EXCEPT !.page_cache = Filled(hd.page_cache, cached, n, hd.file_id),
                          !.curr_data_offset = @ + n])
  /\ stream' = [stream EXCEPT ![hd.file_id] = @ + n]

\* write_through_cache up to the page boundary; `rest' is what is left for after
\* the page has been written.
FillCache ==
  /\ pc = "write" /\ call.size > 0
  /\ ~ is_full(Cur)
  /\ LET wanted == write_size(Cur, call.size)
         cached == cached_bytes(Cur)
         sz     == SmallerOf(page_boundary(Cur) - cached, wanted)
     IN  /\ Accept(Cur, cached, sz)
         /\ Goto(IF cached + sz = page_boundary(Cur) THEN "write_page" ELSE "write",
                 [call EXCEPT !.size = @ - sz, !.done = @ + sz, !.rest = wanted - sz])
  /\ UNCHANGED <<flashVars, alloc_unit_list, ret, origin>>

WritePage ==
  /\ pc = "write_page"
  /\ ProgramData(Cur.curr_allocation_unit, Cur.last_data_offset, page_boundary(Cur),
                 Cur.page_cache)
  /\ Accept([Cur EXCEPT !.last_data_offset = @ + page_boundary(Cur)], 0, call.rest)
  /\ Goto("write", [call EXCEPT !.size = @ - call.rest, !.done = @ + call.rest,
                                !.rest = 0])
  /\ UNCHANGED <<header, session, alloc_unit_list, ret, origin>>

-----------------------------------------------------------------------------
(***************************************************************************)
(* read.                                                                   *)
(***************************************************************************)
Read(h, n) ==
  /\ pc = "idle" /\ Open_(h)
  /\ LET hd == fs_priv_handle_list[h]
     IN  \/ hd.writeable /\ Return("FS_ERROR_INVALID_MODE")
         \/ ~ hd.writeable /\ is_eof(hd) /\ Return("FS_ERROR_END_OF_FILE")
         \/ /\ ~ hd.writeable /\ ~ is_eof(hd)
            /\ BeginOnHandle("read", h, "read", n)
  /\ UNCHANGED <<flashVars, ramVars, ghostVars>>

AtSectorEnd == Cur.last_data_offset = Cur.curr_data_offset

ReadDone ==
  /\ pc = "read"
  /\ call.size = 0 \/ is_eof(Cur)
  /\ Return("FS_NO_ERROR")
  /\ UNCHANGED <<flashVars, ramVars, ghostVars>>

\* Mutant: the readable end of the sector left behind is kept for the next one.
ReadNextSector_stale_end ==
  /\ pc = "read" /\ call.size > 0
  /\ AtSectorEnd /\ ~ is_eof(Cur)
  /\ SetHandle(call.handle,
               [Cur EXCEPT !.curr_allocation_unit =
                             alloc_unit_list[Cur.curr_allocation_unit].next_allocation_unit,
                           !.curr_data_offset = 0])
  /\ UNCHANGED <<flashVars, alloc_unit_list, pc, call, ret, ghostVars>>

ReadNextSector ==
  /\ pc = "read" /\ call.size > 0
  /\ AtSectorEnd /\ ~ is_eof(Cur)
  /\ LET s == alloc_unit_list[Cur.curr_allocation_unit].next_allocation_unit
     IN  SetHandle(call.handle, [Cur EXCEPT !.curr_allocation_unit = s,
                                            !.last_data_offset = session_end(session[s]),
                                            !.curr_data_offset = 0])
  /\ UNCHANGED <<flashVars, alloc_unit_list, pc, call, ret, ghostVars>>

\* Delivers the bytes from curr_data_offset on.
ReadBytes ==
  /\ pc = "read" /\ call.size > 0
  /\ ~ AtSectorEnd
  /\ LET n == SmallerOf(call.size, Cur.last_data_offset - Cur.curr_data_offset)
     IN  /\ SetHandle(call.handle, [Cur EXCEPT !.curr_data_offset = @ + n])
         /\ call' = [call EXCEPT !.size = @ - n, !.done = @ + n]
  /\ UNCHANGED <<flashVars, alloc_unit_list, pc, ret, ghostVars>>

\* Every operation on a handle first checks is_valid_handle.
InvalidHandle(h) ==
  /\ pc = "idle" /\ ~ Open_(h)
  /\ Return("FS_ERROR_INVALID_HANDLE")
  /\ UNCHANGED <<flashVars, ramVars, ghostVars>>

-----------------------------------------------------------------------------
(***************************************************************************)
(* protect, unprotect, remove and format.                                  *)
(***************************************************************************)
FileMissing ==
  /\ \E op \in {"protect", "unprotect", "remove"} : AtRoot(op)
  /\ call.sector = FS_PRIV_NOT_ALLOCATED
  /\ Return("FS_ERROR_FILE_NOT_FOUND")
  /\ UNCHANGED <<flashVars, ramVars, ghostVars>>

\* No action is needed for a file already in the state asked for; otherwise the
\* root's protection changes, in flash and then in RAM.
SetProtection(op) ==
  /\ AtRoot(op)
  /\ call.sector # FS_PRIV_NOT_ALLOCATED
  /\ LET prot == op = "protect"
         bits == set_protected(prot, alloc_unit_list[call.sector].file_protect)
     IN  IF Protected(call.sector) = prot
           THEN UNCHANGED <<header, alloc_unit_list>>
           ELSE /\ header' = [header EXCEPT
                                ![call.sector].file_protect = SmallerOf(@, bits)]
                /\ alloc_unit_list' = [alloc_unit_list EXCEPT
                                         ![call.sector].file_protect = bits]
  /\ Return("FS_NO_ERROR")
  /\ UNCHANGED <<session, data, fs_priv_handle_list, ghostVars>>

RemoveRefused ==
  /\ AtRoot("remove")
  /\ call.sector # FS_PRIV_NOT_ALLOCATED /\ Protected(call.sector)
  /\ Return("FS_ERROR_FILE_PROTECTED")
  /\ UNCHANGED <<flashVars, ramVars, ghostVars>>

EraseNext(s) ==
  Goto("erase_block", [call EXCEPT !.sector = s,
                                   !.next = alloc_unit_list[s].next_allocation_unit])

RemoveRoot ==
  /\ AtRoot("remove")
  /\ call.sector # FS_PRIV_NOT_ALLOCATED /\ ~ Protected(call.sector)
  /\ EraseNext(call.sector)
  /\ stream' = [stream EXCEPT ![call.file] = 0]
  /\ UNCHANGED <<flashVars, ramVars, ret, origin>>

\* The chain is erased from its root on; the link was saved before the erasure.
RemoveNext ==
  /\ call.op = "remove"
  /\ WriteCounter
  /\ IF call.next = FS_PRIV_NOT_ALLOCATED
       THEN Return("FS_NO_ERROR")
       ELSE EraseNext(call.next) /\ UNCHANGED ret
  /\ UNCHANGED <<session, data, ramVars, ghostVars>>

Format ==
  /\ pc = "idle"
  /\ "remove_open" \in Liberties \/ \A h \in HandleId : ~ Open_(h)
  /\ Goto("erase_block", [NoCall EXCEPT !.op = "format", !.sector = 0])
  /\ ret' = "none"
  /\ stream' = [f \in Nil(FileId) |-> 0]
  /\ UNCHANGED <<flashVars, ramVars, origin>>

FormatNext ==
  /\ call.op = "format"
  /\ WriteCounter
  /\ IF call.sector + 1 \in Sector
       THEN Goto("erase_block", [call EXCEPT !.sector = @ + 1]) /\ UNCHANGED ret
       ELSE Return("FS_NO_ERROR")
  /\ UNCHANGED <<session, data, ramVars, ghostVars>>

-----------------------------------------------------------------------------
\* What clients call ...
Client ==
  \/ Mount \/ Unmount \/ Format
  \/ \E f \in FileId : Remove(f) \/ Protect(f) \/ Unprotect(f)
  \/ \E f \in IF "reserved_id" \in Liberties THEN Nil(FileId) ELSE FileId, m \in Mode :
       Open(f, m)
  \/ \E h \in HandleId : Close(h) \/ Flush(h) \/ InvalidHandle(h)
  \/ \E h \in HandleId, n \in WriteSizes : Write(h, n)
  \/ \E h \in HandleId, n \in ReadSizes : Read(h, n)

\* ... and what the processor does on its own until the call returns.
Step ==
  \/ ClimbToRoot \/ FileMissing
  \/ OpenRefused \/ OpenForReading \/ OpenForWriting \/ OpenNewFile
  \/ FollowChain \/ OpenAtEnd
  \/ EraseBlock \/ Recycled \/ RemoveNext \/ FormatNext
  \/ AllocateFree \/ RecycleRoot \/ AllocateFails \/ WriteNext \/ WriteFileInfo
  \/ FlushPageCache \/ UpdateSessionOffset
  \/ WriteDone \/ WriteToFullSector \/ FillCache \/ WritePage
  \/ ReadDone \/ ReadNextSector \/ ReadBytes
  \/ RemoveRefused \/ RemoveRoot
  \/ \E op \in {"protect", "unprotect"} : SetProtection(op)

Next == Client \/ Step

Spec == Init /\ [][Next]_vars

\* A call, once begun, is executed to its end: there is one thread and no step of
\* a call waits for anything else.
FairSpec == Spec /\ WF_vars(Step)


-----------------------------------------------------------------------------
(***************************************************************************)
(* Properties.                                                             *)
(***************************************************************************)

\* Every variable has its type: the flash and RAM structures, the running call and
\* its locals, and the ghost positions (fs_priv.h:97-121).
TypeOK ==
  /\ header \in [Sector -> Header]
  /\ session \in [Sector -> [Slot -> Nil(Offset)]]
  /\ data \in [Sector -> [Cell -> Byte]]
  /\ alloc_unit_list \in [Sector -> Header]
  /\ fs_priv_handle_list \in [HandleId -> Handle]
  /\ pc \in Label
  /\ call \in Call
  /\ ret \in Code
  /\ stream \in [Nil(FileId) -> Nat]
  /\ origin \in [Sector -> Nat]

\* The committed data bytes of a sector, and the stream position after them.
Committed(s) == session_end(session[s])
StreamEnd(s) == origin[s] + Committed(s)

\* Between calls the table in RAM is what flash holds: a remount changes nothing.
\* allocate_new_sector_to_file, erase_allocation_unit and protect each update the two
\* in several steps (FileSystem.cpp:284-306, 417-466, 795-805).
MirrorCoherent ==
  pc = "idle" => alloc_unit_list = header

\* A sector the allocator may hand out is erased but for its counter: nothing of an
\* earlier file remains to be programmed over (find_free_allocation_unit, erase_block).
FreeSectorsErased ==
  pc = "idle" =>
    \A s \in sectors_of(header, FS_PRIV_NOT_ALLOCATED) :
      /\ header[s] = [ErasedHeader EXCEPT !.alloc_counter = header[s].alloc_counter]
      /\ session[s] = ErasedSessions
      /\ data[s] = ErasedData

\* Between calls the sectors of a file are one chain: every link stays in the file, no
\* sector has two predecessors, exactly one has none, and no link closes a cycle --
\* which find_file_root and find_last_allocation_unit loop on (FileSystem.cpp:183-191,
\* 257-264).
RootsOf(f) ==
  {s \in sectors_of(header, f) : parents(header, f, s) = {}}
ChainsWellFormed ==
  pc = "idle" =>
    \A f \in FileId :
      LET S == sectors_of(header, f)
      IN  /\ \A s \in S : header[s].next_allocation_unit \in Nil(S \ {s})
          /\ \A s \in S : Cardinality(parents(header, f, s)) <= 1
          /\ S # {} => Cardinality(RootsOf(f)) = 1
          /\ S # {} => Cardinality({s \in S : is_last_allocation_unit(header, s)}) = 1

\* At every step, the bytes below a sector's session offset are in flash, each at its
\* place of the file's stream: a page is programmed before the offset that commits it
\* (flush_handle), and never programmed twice.
CommittedDataIntact ==
  \A s \in Sector : header[s].file_id # FS_PRIV_NOT_ALLOCATED =>
    \A i \in Cell : i < Committed(s) =>
      data[s][i] = Payload(header[s].file_id, origin[s] + i)

\* Between calls consecutive sectors of a file hold consecutive parts of its stream,
\* and a file that is not circular is kept from its first byte.
ChainContiguous ==
  pc = "idle" =>
    \A s \in Sector : header[s].file_id # FS_PRIV_NOT_ALLOCATED =>
      /\ ~ is_last_allocation_unit(header, s) =>
           origin[header[s].next_allocation_unit] = StreamEnd(s)
      /\ parents(header, header[s].file_id, s) = {} /\ ~ header[s].circular =>
           origin[s] = 0

\* Every byte write() counted in *written is in flash or in the cache of the open
\* writer, and once the file is closed it is committed ("no hidden data loss allowed",
\* FileSystem.cpp:685-690).
NoHiddenLoss ==
  pc = "idle" =>
    \A s \in Sector :
      LET f == header[s].file_id
      IN  (f # FS_PRIV_NOT_ALLOCATED /\ is_last_allocation_unit(header, s)) =>
            /\ Writers(f) = {} => StreamEnd(s) = stream[f]
            /\ \A h \in Writers(f) :
                 LET hd == fs_priv_handle_list[h]
                 IN  /\ hd.curr_allocation_unit = s
                     /\ origin[s] + hd.curr_data_offset = stream[f]
                     /\ \A i \in Committed(s) .. hd.curr_data_offset - 1 :
                          Payload(f, origin[s] + i) =
                            IF i < hd.last_data_offset
                              THEN data[s][i]
                              ELSE hd.page_cache[i - hd.last_data_offset]

\* The cache never reaches past the next page boundary, which the assertion of
\* write_through_cache (FileSystem.cpp:506) and the remark of flush_page_cache that no
\* write crosses a page (FileSystem.cpp:312-315) state; nor past the sector's end.
CacheWithinPage ==
  \A h \in HandleId :
    LET hd == fs_priv_handle_list[h]
    IN  Open_(h) /\ hd.writeable =>
          /\ cached_bytes(hd) \in 0 .. page_boundary(hd)
          /\ cached_bytes(hd) = page_boundary(hd) => pc = "write_page"
          /\ hd.curr_data_offset <= FS_PRIV_USABLE_SIZE

\* At every step the used session slots of a sector are a prefix of them and hold
\* increasing offsets, which is what find_next_session_offset's scan needs
\* (FileSystem.cpp:232-250).
SessionsIncrease ==
  \A s \in Sector : \A i \in Slot \ {0} :
    session[s][i] # ERASED =>
      session[s][i - 1] # ERASED /\ session[s][i - 1] < session[s][i]

\* A reader delivers consecutive bytes of the file's stream: what a step of read adds
\* to *read is what its position moves by, sector changes included, and the bytes are
\* those that were written there.
Position(h) == origin[fs_priv_handle_list[h].curr_allocation_unit]
                 + fs_priv_handle_list[h].curr_data_offset
ReadStep(h) ==
  /\ Position(h)' - Position(h) = call'.done - call.done
  /\ \A k \in 0 .. call'.done - call.done - 1 :
       LET hd == fs_priv_handle_list[h]
       IN  data[hd.curr_allocation_unit][hd.curr_data_offset + k] =
             Payload(hd.file_id, Position(h) + k)
ReadsContiguous ==
  [][pc = "read" /\ pc' = "read" => ReadStep(call.handle)]_vars

\* A file found protected stays as it is until it is unprotected or the device is
\* formatted: no step of a call changes its data, its chain or its protection.
FileProtected(f) == \E r \in RootsOf(f) : is_protected(header[r].file_protect)
ProtectedUntouched ==
  [][call.op \notin {"unprotect", "format"} =>
       \A f \in FileId : FileProtected(f) =>
         /\ FileProtected(f)'
         /\ \A s \in sectors_of(header, f) :
              /\ data'[s] = data[s] /\ session'[s] = session[s]
              /\ header'[s].next_allocation_unit = header[s].next_allocation_unit]_vars

\* Between calls what a handle remembers of the flash is what the flash holds, however
\* the sectors changed since it was opened: it is on a sector of its file, its root is
\* the file's, a reader knows where the sector's committed bytes end, and a writer is
\* in the last sector with the next free slot and the last committed offset
\* (fs_priv_handle_t, FileSystem.cpp:589-625, 414, 454-459, 357-366).
HandlesFresh ==
  pc = "idle" =>
    \A h \in HandleId : Open_(h) =>
      LET hd == fs_priv_handle_list[h]
          s  == hd.curr_allocation_unit
      IN  /\ header[s].file_id = hd.file_id
          /\ RootsOf(hd.file_id) = {hd.root_allocation_unit}
          /\ hd.circular = header[s].circular
          /\ ~ hd.writeable => hd.last_data_offset = Committed(s)
          /\ hd.writeable => /\ is_last_allocation_unit(header, s)
                             /\ hd.curr_session_offset = next_session(session[s])
                             /\ hd.curr_session_value = Committed(s)

\* protect() that reports success leaves the file protected: "Odd number of bits means
\* the file is protected" (FileSystem.cpp:139), and each change of state clears one.
ProtectTakesEffect ==
  [][\A f \in FileId :
       call.op = "protect" /\ call.file = f /\ ret' = "FS_NO_ERROR" => FileProtected(f)']_vars

\* Creating a file on a device without a free sector is refused as FILESYSTEM_FULL, as
\* the ignored test SingleFileFillTheFlash expects of the very file that fills it
\* (test/FileSystemTest.cpp:101-103).
CreateOnFullDevice ==
  [][(call.op = "open" /\ call.mode.create /\ free_sectors(alloc_unit_list) = {}
        /\ FreeHandles # {} /\ ret' # "none")
       => ret' = "FS_ERROR_FILESYSTEM_FULL"]_vars

\* Every call returns: the walks over parents and links end, and so do the loops of
\* read and write (FileSystem.cpp:183-191, 257-264, 672-703, 727-762).
CallsReturn == pc \notin {"idle", "unmounted"} ~> pc = "idle"

=============================================================================
