---------------------- MODULE FileSystem_session_proofs ----------------------
(***************************************************************************)
(* Session slots and free sectors, proved for every size of device and any *)
(* number of handles of orderly clients: a free sector is erased, the used *)
(* slots of a sector are a prefix of them with increasing offsets, and     *)
(* what a handle remembers of the slots of its sector is what they hold.   *)
(***************************************************************************)
EXTENDS FileSystem_table_proofs

(***************************************************************************)
(* The inductive invariant.                                                *)
(***************************************************************************)
Blank(s) == session[s] = ErasedSessions /\ data[s] = ErasedData

\* The slots in use come first, each with a greater offset than the one before.
Increasing(slots) ==
  \A i \in Slot : slots[i] # ERASED =>
    /\ slots[i] > 0
    /\ i > 0 => slots[i - 1] # ERASED /\ slots[i - 1] < slots[i]

BlankInv == /\ \A s \in Sector : FileOf(s) = None => Blank(s)
            /\ Growing => Blank(call.sector)
SlotsInv == \A s \in Sector : Increasing(session[s])

\* A reader knows the end of its sector; a writer the next free slot and the offset last
\* committed, and without a free slot it caches nothing.
WriterInv(h) ==
  LET hd    == Hd(h)
      slots == session[hd.curr_allocation_unit]
  IN  Placed(h) =>
        /\ ~ hd.writeable => hd.last_data_offset = session_end(slots)
        /\ hd.writeable =>
             /\ hd.curr_session_offset = next_session(slots)
             /\ hd.curr_session_value = session_end(slots)
             /\ hd.curr_session_value <= hd.last_data_offset
             /\ hd.curr_session_offset = None => hd.curr_data_offset = hd.curr_session_value

\* A flush has a slot for the offset; write asks for a new sector only when all it has
\* cached of the current one is committed.
Leaving == /\ call.op = "write"
           /\ \/ pc \in {"allocate", "erase_block", "write_next"}
              \/ pc = "write_counter" /\ call.sector # Cur.curr_allocation_unit
FlushInv ==
  /\ pc \in {"flush_page_cache", "update_session_offset"} =>
       /\ Cur.curr_session_offset # None
       /\ call.op = "write" => Cur.curr_data_offset = FS_PRIV_USABLE_SIZE
  /\ pc = "update_session_offset" => Cur.last_data_offset = Cur.curr_data_offset
  /\ Leaving => /\ Cur.curr_data_offset = Committed(Cur.curr_allocation_unit)
                /\ Cur.curr_data_offset > 0

SessionInv == BlankInv /\ SlotsInv /\ (\A h \in HandleId : WriterInv(h)) /\ FlushInv

-----------------------------------------------------------------------------
(***************************************************************************)
(* find_next_session_offset on slots that are used in order.               *)
(***************************************************************************)

\* Past a free slot every slot is free: the scan may stop at the first one.
LEMMA FreeSlotsLast ==
  ASSUME NEW slots, Increasing(slots), NEW i \in Slot, slots[i] = ERASED
  PROVE  \A j \in Slot : j >= i => slots[j] = ERASED
<1> DEFINE Used == {j \in Slot : j >= i /\ slots[j] # ERASED}
<1> SUFFICES ASSUME Used # {} PROVE FALSE
  OBVIOUS
<1>1. Slot \subseteq Nat /\ Used \in SUBSET Nat
  BY LayoutAssumption DEF Slot
<1> HIDE DEF Used
<1>2. PICK m \in Used : \A j \in Used : m <= j
  BY <1>1, LeastNatural
<1>3. m \in Slot /\ m > i /\ slots[m] # ERASED
  BY <1>1, <1>2 DEF Used
<1>4. m - 1 \in Slot /\ m - 1 >= i /\ slots[m - 1] # ERASED
  BY <1>1, <1>3, LayoutAssumption DEF Increasing, Slot
<1> QED
  BY <1>1, <1>2, <1>4 DEF Used

\* An erased sector has its first slot free and nothing committed.
LEMMA ScanErased ==
  next_session(ErasedSessions) = 0 /\ session_end(ErasedSessions) = 0
  /\ Increasing(ErasedSessions)
<1>1. free_slots(ErasedSessions) = Slot /\ 0 \in Slot /\ Slot \subseteq Nat
  BY LayoutAssumption DEF free_slots, ErasedSessions, Slot
<1>2. Min(Slot) = 0
  <2>1. Min(Slot) \in Slot /\ \A x \in Slot : Min(Slot) <= x
    BY <1>1, MinIsLeast
  <2>2. Min(Slot) \in Nat /\ Min(Slot) <= 0
    BY <1>1, <2>1
  <2> QED
    BY <2>2
<1>3. next_session(ErasedSessions) = 0
  BY <1>1, <1>2 DEF next_session
<1>4. session_end(ErasedSessions) = 0
  BY <1>1, <1>2 DEF session_end, last_used_slot
<1>5. Increasing(ErasedSessions)
  BY DEF Increasing, ErasedSessions
<1> QED
  BY <1>3, <1>4, <1>5

\* What the scan finds: the first free slot, and the offset in the slot before it.
LEMMA ScanFinds ==
  ASSUME NEW slots \in [Slot -> Nil(Offset)], Increasing(slots)
  PROVE  /\ next_session(slots) = None =>
              /\ \A j \in Slot : slots[j] # ERASED
              /\ session_end(slots) = slots[FS_PRIV_NUM_WRITE_SESSIONS - 1]
              /\ session_end(slots) > 0
         /\ next_session(slots) # None =>
              /\ next_session(slots) \in Slot
              /\ \A j \in Slot : slots[j] = ERASED <=> j >= next_session(slots)
              /\ session_end(slots) = IF next_session(slots) = 0 THEN 0
                                      ELSE slots[next_session(slots) - 1]
<1>1. /\ free_slots(slots) \in SUBSET Slot /\ Slot \subseteq Nat /\ None \notin Slot
      /\ FS_PRIV_NUM_WRITE_SESSIONS - 1 \in Slot
  BY LayoutAssumption DEF free_slots, Slot, None, FS_PRIV_NOT_ALLOCATED
<1>2. free_slots(slots) # {} => /\ Min(free_slots(slots)) \in free_slots(slots)
                                /\ \A j \in free_slots(slots) : Min(free_slots(slots)) <= j
  BY <1>1, MinIsLeast
<1>3. CASE free_slots(slots) = {}
  <2>1. next_session(slots) = None /\ last_used_slot(slots) = FS_PRIV_NUM_WRITE_SESSIONS - 1
    BY <1>3 DEF next_session, last_used_slot, None
  <2>2. \A j \in Slot : slots[j] # ERASED
    BY <1>3 DEF free_slots
  <2>3. session_end(slots) = slots[FS_PRIV_NUM_WRITE_SESSIONS - 1]
    BY <1>1, <2>1, LayoutAssumption DEF session_end
  <2> QED
    BY <1>1, <2>1, <2>2, <2>3 DEF Increasing
<1>4. CASE free_slots(slots) # {}
  <2> DEFINE i == Min(free_slots(slots))
  <2>1. next_session(slots) = i /\ last_used_slot(slots) = i - 1
    BY <1>4 DEF next_session, last_used_slot
  <2>2. i \in Slot /\ slots[i] = ERASED /\ \A j \in Slot : slots[j] = ERASED => i <= j
    BY <1>2, <1>4 DEF free_slots
  <2> HIDE DEF i
  <2>3. \A j \in Slot : slots[j] = ERASED <=> j >= i
    BY <1>1, <2>2, FreeSlotsLast
  <2>4. session_end(slots) = IF i = 0 THEN 0 ELSE slots[i - 1]
    BY <1>1, <2>1, <2>2 DEF session_end
  <2> QED
    BY <1>1, <2>1, <2>2, <2>3, <2>4
<1> QED
  BY <1>3, <1>4

\* update_session_offset uses the slot the scan would find, and the one it remembers
\* next is the one the scan would find then.
LEMMA ScanStored ==
  ASSUME NEW slots \in [Slot -> Nil(Offset)], Increasing(slots),
         next_session(slots) # None, NEW v \in Offset, v > session_end(slots)
  PROVE  LET new == [slots EXCEPT ![next_session(slots)] = v]
         IN  /\ Increasing(new)
             /\ next_session(new) = next_slot(next_session(slots))
             /\ session_end(new) = v
<1> DEFINE i   == next_session(slots)
           new == [slots EXCEPT ![i] = v]
<1>1. /\ i \in Slot /\ Slot \subseteq Nat /\ v \in Nat
      /\ \A j \in Slot : slots[j] = ERASED <=> j >= i
      /\ session_end(slots) = IF i = 0 THEN 0 ELSE slots[i - 1]
  BY ScanFinds, LayoutAssumption DEF Slot, Offset
<1>2. \A j \in Slot : slots[j] # ERASED => slots[j] \in Nat
  BY LayoutAssumption DEF Nil, Offset, ERASED
<1>3. /\ new[i] = v /\ v # ERASED /\ v > 0
      /\ \A j \in Slot : j # i => new[j] = slots[j]
      /\ new \in [Slot -> Nil(Offset)]
  <2>1. session_end(slots) \in Nat
    BY SessionScanType, LayoutAssumption DEF Offset
  <2> QED
    BY <1>1, <2>1 DEF ERASED, FS_PRIV_NOT_ALLOCATED, Nil
<1> HIDE DEF i, new
<1>4. Increasing(new)
  <2> SUFFICES ASSUME NEW j \in Slot, new[j] # ERASED
               PROVE  new[j] > 0 /\ (j > 0 => new[j - 1] # ERASED /\ new[j - 1] < new[j])
    BY DEF Increasing
  <2>1. CASE j = i
    <3>1. j > 0 => j - 1 \in Slot /\ j - 1 # i
      BY <1>1, <2>1, LayoutAssumption DEF Slot
    <3> QED
      BY <1>1, <1>3, <2>1, <3>1
  <2>2. CASE j # i
    <3>1. j < i /\ slots[j] # ERASED /\ new[j] = slots[j]
      BY <1>1, <1>3, <2>2
    <3>2. j > 0 => j - 1 \in Slot /\ j - 1 # i
      BY <1>1, <3>1, LayoutAssumption DEF Slot
    <3> QED
      BY <1>1, <1>3, <3>1, <3>2 DEF Increasing
  <2> QED
    BY <2>1, <2>2
<1>5. \A j \in Slot : new[j] = ERASED <=> j > i
  BY <1>1, <1>3
<1>6. CASE i + 1 >= FS_PRIV_NUM_WRITE_SESSIONS
  <2>1. \A j \in Slot : new[j] # ERASED
    BY <1>1, <1>5, <1>6, LayoutAssumption DEF Slot
  <2>2. next_session(new) = None
    BY <2>1 DEF next_session, free_slots, None
  <2>3. i = FS_PRIV_NUM_WRITE_SESSIONS - 1
    BY <1>1, <1>6, LayoutAssumption DEF Slot
  <2> QED
    BY <1>3, <1>4, <1>6, <2>2, <2>3, ScanFinds DEF i, new, next_slot, None
<1>7. CASE ~ (i + 1 >= FS_PRIV_NUM_WRITE_SESSIONS)
  <2>1. i + 1 \in Slot /\ new[i + 1] = ERASED
    BY <1>1, <1>5, <1>7, LayoutAssumption DEF Slot
  <2>2. next_session(new) # None
    BY <1>3, <1>4, <2>1, ScanFinds
  <2>3. next_session(new) = i + 1
    <3>1. PICK n \in Slot : /\ n = next_session(new)
                            /\ \A j \in Slot : new[j] = ERASED <=> j >= n
      BY <1>3, <1>4, <2>2, ScanFinds
    <3>2. i \in Nat /\ n \in Nat
      BY <1>1
    <3>3. n >= n /\ new[n] = ERASED
      BY <3>1, <3>2
    <3>4. n > i /\ i + 1 >= n
      BY <1>5, <2>1, <3>1, <3>3
    <3> QED
      BY <3>1, <3>2, <3>4
  <2>4. session_end(new) = v
    BY <1>1, <1>3, <1>4, <2>2, <2>3, ScanFinds
  <2> QED
    BY <1>4, <1>7, <2>3, <2>4 DEF i, new, next_slot
<1> QED
  BY <1>6, <1>7


-----------------------------------------------------------------------------
(***************************************************************************)
(* Steps that touch neither slots nor data.                                *)
(***************************************************************************)
SameCursor(h) ==
  /\ SameHandle(h)
  /\ Hd(h)'.curr_session_offset = Hd(h).curr_session_offset
  /\ Hd(h)'.curr_session_value = Hd(h).curr_session_value
  /\ Hd(h)'.last_data_offset = Hd(h).last_data_offset
  /\ Hd(h)'.curr_data_offset = Hd(h).curr_data_offset

\* What is known of slots and handles survives when no sector is freed or claimed, and no
\* handle moves without what it remembers being right again.
LEMMA SessionsKept ==
  ASSUME SessionInv, UNCHANGED <<session, data>>,
         Growing' => Blank(call.sector)',
         \A s \in Sector : FileOf(s)' = None => FileOf(s) = None,
         \A h \in HandleId : WriterInv(h)' \/ (Placed(h)' => Placed(h) /\ SameCursor(h))
  PROVE  BlankInv' /\ SlotsInv' /\ (\A h \in HandleId : WriterInv(h))'
<1>1. BlankInv'
  BY DEF SessionInv, BlankInv, Blank
<1>2. SlotsInv'
  BY DEF SessionInv, SlotsInv
<1>3. ASSUME NEW h \in HandleId, Placed(h)' => Placed(h) /\ SameCursor(h)
      PROVE  WriterInv(h)'
  BY <1>3 DEF SessionInv, WriterInv, SameCursor, SameHandle
<1> QED
  BY <1>1, <1>2, <1>3

\* A step that leaves flash and handles as they are and goes to a label at which nothing
\* more has to hold.
LEMMA RestingSessions ==
  ASSUME IInv, TableInv, SessionInv, UNCHANGED <<session, data, alloc_unit_list>>,
         UNCHANGED fs_priv_handle_list,
         pc \in {"idle", "find_file_root", "write", "read"},
         ~ Growing', pc' # "unmounted"
  PROVE  BlankInv' /\ SlotsInv' /\ (\A h \in HandleId : WriterInv(h))'
<1>1. \A h \in HandleId : Placed(h)' => Placed(h) /\ SameCursor(h)
  <2>1. \A h \in HandleId : Hd(h)' = Hd(h) /\ Open_(h)' = Open_(h)
    BY DEF Hd, Open_
  <2> QED
    BY <2>1, AllPlaced DEF Placed, SameCursor, SameHandle
<1>2. \A s \in Sector : FileOf(s)' = FileOf(s)
  BY SameTable
<1> QED
  BY <1>1, <1>2, SessionsKept

\* Calls begin, decide and return.
LEMMA CallsSessions ==
  ASSUME IInv, TableInv, SessionInv,
         \/ Format \/ RemoveRoot \/ ClimbToRoot
         \/ \E f, m : \E op \in Op : BeginOnFile(op, f, m)
         \/ FileMissing \/ OpenRefused \/ RemoveRefused
         \/ WriteDone \/ ReadDone
  PROVE  SessionInv'
<1>1. /\ UNCHANGED <<session, data, alloc_unit_list>> /\ UNCHANGED fs_priv_handle_list
      /\ pc \in {"idle", "find_file_root", "write", "read"}
  BY DEF Format, RemoveRoot, ClimbToRoot, BeginOnFile, FileMissing, OpenRefused,
    RemoveRefused, WriteDone, ReadDone, AtRoot, flashVars, ramVars
<1>2. \/ pc' \in {"idle", "find_file_root"}
      \/ pc' = "erase_block" /\ call'.op # "write"
  <2>1. CASE Format
    BY <2>1 DEF Format, Goto, NoCall
  <2>2. CASE RemoveRoot
    <3>1. call \in Call
      BY DEF IInv, TypeOK
    <3> QED
      BY <2>2, <3>1 DEF RemoveRoot, AtRoot, EraseNext, Goto, Call
  <2>3. CASE ~ Format /\ ~ RemoveRoot
    BY <2>3 DEF ClimbToRoot, BeginOnFile, FileMissing, OpenRefused, RemoveRefused,
      WriteDone, ReadDone, Return, Goto
  <2> QED
    BY <2>1, <2>2, <2>3
<1>3. FlushInv'
  BY <1>2 DEF FlushInv, Leaving
<1> QED
  BY <1>1, <1>2, <1>3, RestingSessions DEF SessionInv, Growing

\* The calls on handles; a flush begins with a slot for the offset.
LEMMA HandleCallsSessions ==
  ASSUME IInv, TableInv, SessionInv, NEW h \in HandleId,
         \/ Flush(h) \/ InvalidHandle(h)
         \/ \E n \in WriteSizes : Write(h, n)
         \/ \E n \in ReadSizes : Read(h, n)
         \/ Close(h) /\ UNCHANGED fs_priv_handle_list
  PROVE  SessionInv'
<1>1. /\ UNCHANGED <<session, data, alloc_unit_list>> /\ UNCHANGED fs_priv_handle_list
      /\ pc = "idle"
  BY DEF Flush, InvalidHandle, Write, Read, Close, flashVars, ramVars
<1>2. \/ pc' \in {"idle", "write", "read"}
      \/ /\ pc' = "flush_page_cache" /\ call'.handle = h /\ call'.op \in {"close", "flush"}
         /\ CanFlush(Hd(h))
  BY DEF Flush, InvalidHandle, Write, Read, Close, Return, BeginOnHandle, Goto, NoCall, Hd
<1>3. FlushInv'
  BY <1>1, <1>2 DEF FlushInv, Leaving, CanFlush, Cur, Hd, None
<1> QED
  BY <1>1, <1>2, <1>3, RestingSessions DEF SessionInv, Growing

\* write finds its sector full: of bytes, or of slots with nothing left in the cache.
LEMMA FullSectorSessions ==
  ASSUME IInv, TableInv, SessionInv, WriteToFullSector
  PROVE  SessionInv'
<1>1. /\ pc = "write" /\ is_full(Cur) /\ call' = call /\ call.op = "write"
      /\ pc' = IF CanFlush(Cur) THEN "flush_page_cache" ELSE "allocate"
      /\ UNCHANGED <<session, data, alloc_unit_list>> /\ UNCHANGED fs_priv_handle_list
      /\ OnHandle
  BY DEF WriteToFullSector, Goto, flashVars, ramVars, IInv, CallInv, OnHandle
<1>2. /\ call.handle \in HandleId /\ Open_(call.handle) /\ Cur = Hd(call.handle)
      /\ Cur \in Handle /\ Cur' = Cur /\ Cur.writeable /\ Placed(call.handle)
  BY <1>1, CurHandle, AllPlaced DEF Cur, IInv, CallInv
<1>3. Cur.curr_data_offset \in Offset /\ Cur.curr_allocation_unit \in Sector
  <2>1. HandleInv(call.handle) /\ ~ Opening(call.handle)
    BY <1>2 DEF IInv, Placed
  <2> QED
    BY <1>2, <2>1 DEF HandleInv, Hd, Handle
<1>4. CASE CanFlush(Cur)
  <2>1. Cur.curr_data_offset = FS_PRIV_USABLE_SIZE
    BY <1>1, <1>3, <1>4, LayoutAssumption DEF CanFlush, is_full, Offset
  <2>2. FlushInv'
    BY <1>1, <1>2, <1>4, <2>1 DEF FlushInv, Leaving, CanFlush, None
  <2> QED
    BY <1>1, <1>4, <2>2, RestingSessions DEF SessionInv, Growing
<1>5. CASE ~ CanFlush(Cur)
  <2>1. PICK slots \in [Slot -> Nil(Offset)] : slots = session[Cur.curr_allocation_unit]
    BY <1>3 DEF IInv, TypeOK
  <2>2. /\ next_session(slots) = None /\ Cur.curr_session_value = session_end(slots)
        /\ Cur.curr_data_offset = Cur.curr_session_value
    BY <1>2, <1>5, <2>1 DEF SessionInv, WriterInv, CanFlush, None
  <2>3. session_end(slots) > 0
    BY <1>3, <2>1, <2>2, ScanFinds DEF SessionInv, SlotsInv
  <2>4. Committed(Cur.curr_allocation_unit)' = session_end(slots)
    BY <1>1, <1>2, <2>1 DEF Committed
  <2>5. FlushInv'
    BY <1>1, <1>2, <1>5, <2>2, <2>3, <2>4 DEF FlushInv, Leaving
  <2> QED
    BY <1>1, <1>5, <2>5, RestingSessions DEF SessionInv, Growing
<1> QED
  BY <1>4, <1>5

\* A handle given back is on no sector any more.
LEMMA FreedSessions ==
  ASSUME IInv, TableInv, SessionInv, UNCHANGED <<session, data, alloc_unit_list>>,
         NEW g \in HandleId, SetHandle(g, FreeHandle),
         pc = "idle" \/ (pc = "allocate" /\ call.handle = g), pc' = "idle"
  PROVE  SessionInv'
<1>1. /\ fs_priv_handle_list'[g] = FreeHandle
      /\ \A h \in HandleId : h # g => fs_priv_handle_list'[h] = fs_priv_handle_list[h]
  BY DEF SetHandle, IInv, TypeOK
<1>2. ~ Placed(g)'
  BY <1>1 DEF Placed, Open_, FreeHandle
<1>3. ASSUME NEW h \in HandleId, h # g, Placed(h)' PROVE Placed(h) /\ SameCursor(h)
  <2>1. Hd(h)' = Hd(h) /\ Open_(h)' = Open_(h) /\ Open_(h)'
    BY <1>1, <1>3 DEF Hd, Open_, Placed
  <2>2. CASE pc = "idle"
    BY <2>1, <2>2, AllPlaced DEF SameCursor, SameHandle
  <2>3. CASE pc = "allocate" /\ call.handle = g
    BY <1>3, <2>1, <2>3 DEF Placed, Opening, Moving, Growing, SameCursor, SameHandle
  <2> QED
    BY <2>2, <2>3
<1>4. \A s \in Sector : FileOf(s)' = FileOf(s)
  BY SameTable
<1>5. BlankInv' /\ SlotsInv' /\ (\A h \in HandleId : WriterInv(h))'
  BY <1>2, <1>3, <1>4, SessionsKept DEF Growing
<1>6. FlushInv'
  BY DEF FlushInv, Leaving
<1> QED
  BY <1>5, <1>6 DEF SessionInv

\* close without a flush, and the end of a search for a free sector.
LEMMA GivenUpSessions ==
  ASSUME IInv, TableInv, SessionInv,
         AllocateFails \/ \E h \in HandleId : Close(h)
  PROVE  SessionInv'
<1>1. CASE \E h \in HandleId : Close(h)
  <2>1. PICK h \in HandleId : Close(h)
    BY <1>1
  <2>2. CASE SetHandle(h, FreeHandle) /\ Return("FS_NO_ERROR")
    <3>1. UNCHANGED <<session, data, alloc_unit_list>> /\ pc = "idle" /\ pc' = "idle"
      BY <2>1, <2>2 DEF Close, Return, Goto, flashVars
    <3> QED
      BY <2>1, <2>2, <3>1, FreedSessions DEF SetHandle
  <2>3. CASE UNCHANGED fs_priv_handle_list
    BY <2>1, <2>3, HandleCallsSessions
  <2> QED
    BY <2>1, <2>2, <2>3 DEF Close
<1>2. CASE AllocateFails /\ call.op = "open"
  <2>1. call.handle \in HandleId
    BY <1>2, CurHandle DEF AllocateFails, OnHandle
  <2> QED
    BY <1>2, <2>1, FreedSessions DEF AllocateFails, Return, Goto, flashVars
<1>3. CASE AllocateFails /\ call.op # "open"
  <2>1. /\ UNCHANGED <<session, data, alloc_unit_list>> /\ UNCHANGED fs_priv_handle_list
        /\ pc = "allocate" /\ pc' = "idle"
    BY <1>3 DEF AllocateFails, Return, Goto, flashVars
  <2>2. \A h \in HandleId : Placed(h)' => Placed(h) /\ SameCursor(h)
    BY <1>3, <2>1
    DEF Placed, Opening, Moving, Growing, SameCursor, SameHandle, Hd, Open_
  <2>3. \A s \in Sector : FileOf(s)' = FileOf(s)
    BY <2>1, SameTable
  <2>4. FlushInv'
    BY <2>1 DEF FlushInv, Leaving
  <2> QED
    BY <2>1, <2>2, <2>3, <2>4, SessionsKept DEF SessionInv, Growing
<1> QED
  BY <1>1, <1>2, <1>3

\* Protection is no part of what is remembered.
LEMMA SetProtectionSessions ==
  ASSUME IInv, TableInv, SessionInv, NEW op \in {"protect", "unprotect"}, SetProtection(op)
  PROVE  SessionInv'
<1>1. /\ UNCHANGED <<session, data, fs_priv_handle_list>>
      /\ pc = "find_file_root" /\ pc' = "idle"
  BY DEF SetProtection, AtRoot, Return, Goto
<1>2. \A h \in HandleId : Placed(h)' => Placed(h) /\ SameCursor(h)
  <2>1. \A h \in HandleId : Hd(h)' = Hd(h) /\ Open_(h)' = Open_(h)
    BY <1>1 DEF Hd, Open_
  <2> QED
    BY <1>1, <2>1, AllPlaced DEF Placed, SameCursor, SameHandle
<1>3. \A s \in Sector : FileOf(s)' = FileOf(s)
  <2>1. alloc_unit_list \in [Sector -> Header]
    BY DEF IInv, TypeOK
  <2>2. \/ alloc_unit_list' = alloc_unit_list
        \/ \E bits : alloc_unit_list' = [alloc_unit_list EXCEPT ![call.sector].file_protect = bits]
    BY DEF SetProtection
  <2> QED
    BY <1>1, <2>1, <2>2, ZenonT(40) DEF FileOf, Table, Header
<1>4. FlushInv'
  BY <1>1 DEF FlushInv, Leaving
<1> QED
  BY <1>1, <1>2, <1>3, <1>4, SessionsKept DEF SessionInv, Growing

\* The erase loops write a counter and go on.
LEMMA EraseLoopSessions ==
  ASSUME IInv, TableInv, SessionInv, RemoveNext \/ FormatNext
  PROVE  SessionInv'
<1>1. /\ UNCHANGED <<session, data, alloc_unit_list>> /\ UNCHANGED fs_priv_handle_list
      /\ pc = "write_counter" /\ call.op \in {"remove", "format"}
      /\ call \in Call
  BY DEF RemoveNext, FormatNext, WriteCounter, ramVars, IInv, TypeOK
<1>2. \/ pc' = "idle"
      \/ pc' = "erase_block" /\ call'.op = call.op
  <2>1. CASE RemoveNext
    BY <1>1, <2>1 DEF RemoveNext, EraseNext, Return, Goto, Call
  <2>2. CASE FormatNext
    BY <1>1, <2>2 DEF FormatNext, Return, Goto, Call
  <2> QED
    BY <2>1, <2>2
<1>3. \A h \in HandleId : Placed(h)' => Placed(h) /\ SameCursor(h)
  BY <1>1 DEF Placed, Opening, Moving, Growing, SameCursor, SameHandle, Hd, Open_
<1>4. \A s \in Sector : FileOf(s)' = FileOf(s)
  BY <1>1, <1>2, SameTable
<1>5. FlushInv'
  BY <1>1, <1>2 DEF FlushInv, Leaving
<1> QED
  BY <1>1, <1>2, <1>3, <1>4, <1>5, SessionsKept DEF SessionInv, Growing

\* A full circular file turns to its root; what it had cached is committed.
LEMMA RecycleRootSessions ==
  ASSUME IInv, TableInv, SessionInv, RecycleRoot
  PROVE  SessionInv'
<1>1. /\ UNCHANGED <<session, data, alloc_unit_list>> /\ UNCHANGED fs_priv_handle_list
      /\ pc = "allocate" /\ pc' = "erase_block" /\ call \in Call
      /\ call'.op = call.op /\ call'.handle = call.handle
  BY DEF RecycleRoot, Goto, flashVars, ramVars, IInv, TypeOK, Call
<1>2. \A h \in HandleId : Placed(h)' => Placed(h) /\ SameCursor(h)
  BY <1>1 DEF Placed, Opening, Moving, Growing, SameCursor, SameHandle, Hd, Open_
<1>3. \A s \in Sector : FileOf(s)' = FileOf(s)
  BY <1>1, SameTable
<1>4. FlushInv'
  BY <1>1 DEF SessionInv, FlushInv, Leaving, Cur, Committed
<1> QED
  BY <1>1, <1>2, <1>3, <1>4, SessionsKept DEF SessionInv, Growing

\* The power-on state, and the constructor, whose table is flash.
LEMMA InitSessions == Init => SessionInv
<1> SUFFICES ASSUME Init PROVE SessionInv
  OBVIOUS
<1>1. BlankInv
  BY DEF Init, BlankInv, Blank, Growing
<1>2. SlotsInv
  BY ScanErased DEF Init, SlotsInv
<1>3. \A h \in HandleId : WriterInv(h)
  BY DEF Init, WriterInv, Placed, Open_, FreeHandle
<1>4. FlushInv
  BY DEF Init, FlushInv, Leaving
<1> QED
  BY <1>1, <1>2, <1>3, <1>4 DEF SessionInv

\* The constructor finds the slots as they were left, and no handle is open.
LEMMA MountSessions ==
  ASSUME IInv, TableInv, SessionInv, Mount \/ Unmount
  PROVE  SessionInv'
<1>1. /\ UNCHANGED <<session, data, header>> /\ pc' \in {"idle", "unmounted"}
      /\ \A h \in HandleId : ~ Placed(h)'
  BY DEF Mount, Unmount, flashVars, Placed, Open_, FreeHandle
<1>2. \A s \in Sector : FileOf(s)' = FileOf(s)
  <2>1. CASE Mount
    BY <2>1 DEF Mount, FileOf, Table, flashVars
  <2>2. CASE Unmount
    BY <2>2 DEF Unmount, FileOf, Table, flashVars, TableInv, MirrorInv, InFlash, Growing
  <2> QED
    BY <2>1, <2>2
<1>3. FlushInv'
  BY <1>1 DEF FlushInv, Leaving
<1> QED
  BY <1>1, <1>2, <1>3, SessionsKept DEF SessionInv, Growing


-----------------------------------------------------------------------------
(***************************************************************************)
(* Steps that move a handle to a sector, or a reader within it.            *)
(***************************************************************************)

\* One handle changes and is right again.
LEMMA OneHandleSessions ==
  ASSUME IInv, TableInv, SessionInv, UNCHANGED <<session, data, alloc_unit_list>>,
         pc # "unmounted", pc' # "unmounted", ~ Growing',
         NEW g \in HandleId, NEW hd, SetHandle(g, hd), WriterInv(g)',
         \A h \in HandleId : h # g => (Placed(h)' => Placed(h))
  PROVE  BlankInv' /\ SlotsInv' /\ (\A h \in HandleId : WriterInv(h))'
<1>1. \A h \in HandleId : h # g => fs_priv_handle_list'[h] = fs_priv_handle_list[h]
  BY DEF SetHandle, IInv, TypeOK
<1>2. \A h \in HandleId : h # g => (Placed(h)' => Placed(h) /\ SameCursor(h))
  BY <1>1 DEF SameCursor, SameHandle, Hd
<1>3. \A s \in Sector : FileOf(s)' = FileOf(s)
  BY SameTable
<1> QED
  BY <1>2, <1>3, SessionsKept

\* A new reader is at the start of the root, whose end it looks up.
LEMMA OpenForReadingSessions ==
  ASSUME IInv, TableInv, SessionInv, OpenForReading
  PROVE  SessionInv'
<1>1. OpenAccepted /\ pc = "find_file_root" /\ pc' = "idle" /\ ~ call.mode.writeable
      /\ UNCHANGED <<session, data, alloc_unit_list>>
  BY DEF OpenForReading, OpenAccepted, AtRoot, Return, Goto, flashVars
<1>2. PICK g \in HandleId : g = Min(FreeHandles) /\ ~ Open_(g)
  BY <1>1, OpenTakesFree
<1>3. PICK hd : /\ SetHandle(g, hd) /\ ~ hd.writeable
                /\ hd.curr_allocation_unit = call.sector
                /\ hd.last_data_offset = session_end(session[call.sector])
  <2> DEFINE hd == [OpenedHandle EXCEPT
                      !.curr_allocation_unit = call.sector,
                      !.last_data_offset = session_end(session[call.sector])]
  <2>1. OpenedHandle \in Handle /\ ~ OpenedHandle.writeable
    BY <1>1, OpenTakesFree
  <2>2. /\ ~ hd.writeable
        /\ hd.curr_allocation_unit = call.sector
        /\ hd.last_data_offset = session_end(session[call.sector])
    BY <2>1 DEF Handle
  <2>3. SetHandle(g, hd)
    BY <1>2 DEF OpenForReading
  <2> QED
    BY <2>2, <2>3
<1>4. fs_priv_handle_list'[g] = hd
      /\ \A h \in HandleId : h # g => fs_priv_handle_list'[h] = fs_priv_handle_list[h]
  BY <1>3 DEF SetHandle, IInv, TypeOK
<1>5. WriterInv(g)'
  BY <1>1, <1>3, <1>4 DEF WriterInv, Hd
<1>6. \A h \in HandleId : h # g => (Placed(h)' => Placed(h))
  BY <1>1, <1>4, AllPlaced DEF Placed, Open_
<1>7. FlushInv'
  BY <1>1 DEF FlushInv, Leaving
<1> QED
  BY <1>1, <1>3, <1>5, <1>6, <1>7, OneHandleSessions DEF SessionInv, Growing

\* A new writer is on no sector yet.
LEMMA OpenGoesOnSessions ==
  ASSUME IInv, TableInv, SessionInv, OpenForWriting \/ OpenNewFile
  PROVE  SessionInv'
<1>1. /\ OpenAccepted /\ pc = "find_file_root"
      /\ pc' \in {"find_last_allocation_unit", "allocate"}
      /\ UNCHANGED <<session, data, alloc_unit_list>> /\ call \in Call /\ call.op = "open"
  BY DEF OpenForWriting, OpenNewFile, OpenAccepted, AtRoot, Goto, flashVars, IInv, TypeOK
<1>2. PICK g \in HandleId : g = Min(FreeHandles) /\ ~ Open_(g)
  BY <1>1, OpenTakesFree
<1>3. SetHandle(g, OpenedHandle) /\ call'.op = "open" /\ call'.handle = g
  BY <1>1, <1>2 DEF OpenForWriting, OpenNewFile, Goto, Call
<1>4. \A h \in HandleId : h # g => fs_priv_handle_list'[h] = fs_priv_handle_list[h]
  BY <1>3 DEF SetHandle, IInv, TypeOK
<1>5. WriterInv(g)'
  BY <1>3 DEF WriterInv, Placed, Opening
<1>6. \A h \in HandleId : h # g => (Placed(h)' => Placed(h))
  BY <1>1, <1>4, AllPlaced DEF Placed, Open_
<1>7. FlushInv'
  BY <1>1, <1>3 DEF FlushInv, Leaving
<1> QED
  BY <1>1, <1>3, <1>5, <1>6, <1>7, OneHandleSessions DEF SessionInv, Growing

\* The walk to the end of the chain moves no handle ...
LEMMA FollowChainSessions ==
  ASSUME IInv, TableInv, SessionInv, FollowChain
  PROVE  SessionInv'
<1>1. /\ UNCHANGED <<session, data, alloc_unit_list>> /\ UNCHANGED fs_priv_handle_list
      /\ pc = "find_last_allocation_unit" /\ pc' = pc /\ call \in Call
      /\ call'.op = call.op /\ call'.handle = call.handle
  BY DEF FollowChain, flashVars, ramVars, IInv, TypeOK, Call
<1>2. \A h \in HandleId : Placed(h)' => Placed(h) /\ SameCursor(h)
  BY <1>1 DEF Placed, Opening, Moving, Growing, SameCursor, SameHandle, Hd, Open_
<1>3. \A s \in Sector : FileOf(s)' = FileOf(s)
  BY <1>1, SameTable
<1>4. FlushInv'
  BY <1>1 DEF FlushInv, Leaving
<1> QED
  BY <1>1, <1>2, <1>3, <1>4, SessionsKept DEF SessionInv, Growing

\* ... and ends with the writer knowing the slots of the last sector.
LEMMA OpenAtEndSessions ==
  ASSUME IInv, TableInv, SessionInv, OpenAtEnd
  PROVE  SessionInv'
<1>1. /\ pc = "find_last_allocation_unit" /\ pc' = "idle" /\ OnHandle
      /\ UNCHANGED <<session, data, alloc_unit_list>> /\ call.sector \in Sector
      /\ call.op = "open"
  BY DEF OpenAtEnd, Return, Goto, flashVars, OnHandle, IInv, CallInv, TableInv, PathInv,
    OpenInv
<1>2. PICK g \in HandleId : g = call.handle /\ Open_(g) /\ Cur = Hd(g) /\ Cur \in Handle
  BY <1>1, CurHandle
<1>3. Cur.writeable
  BY <1>1, <1>2 DEF TableInv, PlaceInv, Opening
<1>4. PICK end \in Offset : end = session_end(session[call.sector])
  BY <1>1, SessionScanType DEF IInv, TypeOK
<1>5. PICK hd : /\ SetHandle(g, hd) /\ hd.writeable
                /\ hd.curr_allocation_unit = call.sector
                /\ hd.curr_session_offset = next_session(session[call.sector])
                /\ hd.curr_session_value = end /\ hd.last_data_offset = end
                /\ hd.curr_data_offset = end
  <2> DEFINE hd == [Cur EXCEPT !.curr_allocation_unit = call.sector,
                               !.curr_session_offset = next_session(session[call.sector]),
                               !.curr_session_value = end,
                               !.last_data_offset = end,
                               !.curr_data_offset = end]
  <2>1. /\ hd.writeable
        /\ hd.curr_allocation_unit = call.sector
        /\ hd.curr_session_offset = next_session(session[call.sector])
        /\ hd.curr_session_value = end /\ hd.last_data_offset = end
        /\ hd.curr_data_offset = end
    BY <1>2, <1>3 DEF Handle
  <2>2. SetHandle(g, hd)
    BY <1>2, <1>4 DEF OpenAtEnd
  <2> QED
    BY <2>1, <2>2
<1>6. fs_priv_handle_list'[g] = hd
      /\ \A h \in HandleId : h # g => fs_priv_handle_list'[h] = fs_priv_handle_list[h]
  BY <1>5 DEF SetHandle, IInv, TypeOK
<1>7. end <= end
  BY <1>4, LayoutAssumption DEF Offset
<1>8. WriterInv(g)'
  BY <1>1, <1>4, <1>5, <1>6, <1>7 DEF WriterInv, Hd
<1>9. \A h \in HandleId : h # g => (Placed(h)' => Placed(h))
  BY <1>1, <1>2, <1>6 DEF Placed, Open_, Opening, Moving, Growing
<1>10. FlushInv'
  BY <1>1 DEF FlushInv, Leaving
<1> QED
  BY <1>1, <1>5, <1>8, <1>9, <1>10, OneHandleSessions DEF SessionInv, Growing

\* A reader that changes sectors looks up the end of the new one; one that stays keeps it.
LEMMA ReadSessions ==
  ASSUME IInv, TableInv, SessionInv, ReadNextSector \/ ReadBytes
  PROVE  SessionInv'
<1>1. /\ pc = "read" /\ pc' = "read" /\ OnHandle
      /\ UNCHANGED <<session, data, alloc_unit_list>>
      /\ call.op = "read" /\ ~ Cur.writeable
  BY DEF ReadNextSector, ReadBytes, flashVars, OnHandle, IInv, CallInv
<1>2. PICK g \in HandleId : g = call.handle /\ Open_(g) /\ Cur = Hd(g) /\ Cur \in Handle
  BY <1>1, CurHandle
<1>3. PICK hd : /\ SetHandle(g, hd) /\ ~ hd.writeable
                /\ hd.last_data_offset = session_end(session[hd.curr_allocation_unit])
  <2>1. CASE ReadNextSector
    <3> DEFINE s  == alloc_unit_list[Cur.curr_allocation_unit].next_allocation_unit
               hd == [Cur EXCEPT !.curr_allocation_unit = s,
                                 !.last_data_offset = session_end(session[s]),
                                 !.curr_data_offset = 0]
    <3>1. /\ ~ hd.writeable /\ hd.curr_allocation_unit = s
          /\ hd.last_data_offset = session_end(session[s])
      BY <1>1, <1>2 DEF Handle
    <3>2. SetHandle(g, hd)
      BY <1>2, <2>1 DEF ReadNextSector
    <3> QED
      BY <3>1, <3>2
  <2>2. CASE ReadBytes
    <3> DEFINE n  == SmallerOf(call.size, Cur.last_data_offset - Cur.curr_data_offset)
               hd == [Cur EXCEPT !.curr_data_offset = @ + n]
    <3>1. /\ ~ hd.writeable /\ hd.curr_allocation_unit = Cur.curr_allocation_unit
          /\ hd.last_data_offset = Cur.last_data_offset
      BY <1>1, <1>2 DEF Handle
    <3>2. SetHandle(g, hd)
      BY <1>2, <2>2 DEF ReadBytes
    <3>3. Cur.last_data_offset = session_end(session[Cur.curr_allocation_unit])
      BY <1>1, <1>2, AllPlaced DEF SessionInv, WriterInv
    <3> QED
      BY <3>1, <3>2, <3>3
  <2> QED
    BY <2>1, <2>2
<1>4. fs_priv_handle_list'[g] = hd
      /\ \A h \in HandleId : h # g => fs_priv_handle_list'[h] = fs_priv_handle_list[h]
  BY <1>3 DEF SetHandle, IInv, TypeOK
<1>5. WriterInv(g)'
  BY <1>1, <1>3, <1>4 DEF WriterInv, Hd
<1>6. \A h \in HandleId : h # g => (Placed(h)' => Placed(h))
  BY <1>1, <1>4, AllPlaced DEF Placed, Open_
<1>7. FlushInv'
  BY <1>1 DEF FlushInv, Leaving
<1> QED
  BY <1>1, <1>3, <1>5, <1>6, <1>7, OneHandleSessions DEF SessionInv, Growing


-----------------------------------------------------------------------------
(***************************************************************************)
(* Steps that erase a sector or add one to a file.                         *)
(***************************************************************************)

\* The sector erased is one no handle is on any more.
LEMMA EraseBlockSessions ==
  ASSUME IInv, TableInv, TableInv', SessionInv, EraseBlock
  PROVE  SessionInv'
<1>1. PICK s \in Sector :
        /\ s = call.sector /\ pc = "erase_block" /\ pc' = "write_counter"
        /\ call' = call /\ UNCHANGED fs_priv_handle_list
  BY DEF EraseBlock, IInv, CallInv
<1>2. /\ session'[s] = ErasedSessions /\ data'[s] = ErasedData
      /\ \A t \in Sector : t # s =>
           /\ session'[t] = session[t] /\ data'[t] = data[t]
           /\ FileOf(t)' = FileOf(t)
  BY <1>1 DEF EraseBlock, IInv, TypeOK, FileOf, Table
<1>3. BlankInv' /\ SlotsInv'
  BY <1>1, <1>2, ScanErased DEF SessionInv, BlankInv, Blank, SlotsInv, Growing
<1>4. FileOf(s)' = None
  BY <1>1 DEF TableInv, PathInv, EraseInv, FileOf
<1>5. ASSUME NEW h \in HandleId, Placed(h)'
      PROVE  WriterInv(h)'
  <2>1. Hd(h)' = Hd(h) /\ Placed(h) /\ Hd(h).file_id \in FileId
    BY <1>1, <1>5 DEF Placed, Opening, Moving, Growing, Hd, Open_, TableInv, PlaceInv
  <2>2. PICK c \in Sector : c = Hd(h).curr_allocation_unit
    <3>1. HandleInv(h)
      BY DEF IInv
    <3> QED
      BY <2>1, <3>1 DEF Placed, HandleInv, Hd
  <2>3. FileOf(c)' = Hd(h).file_id
    BY <1>5, <2>1, <2>2 DEF TableInv, PlaceInv, FileOf
  <2>4. c # s
    BY <1>4, <2>1, <2>3, TableType
  <2> QED
    BY <1>2, <2>1, <2>2, <2>4 DEF SessionInv, WriterInv
<1>6. FlushInv'
  <2>1. SUFFICES ASSUME Leaving'
                 PROVE  /\ Cur'.curr_data_offset = Committed(Cur.curr_allocation_unit)'
                        /\ Cur'.curr_data_offset > 0
    BY <1>1 DEF FlushInv
  <2>2. Leaving /\ Cur' = Cur /\ OnHandle /\ call.op = "write" /\ Cur.curr_allocation_unit # s
    BY <1>1, <2>1 DEF Leaving, Cur, OnHandle
  <2>3. Cur.curr_allocation_unit \in Sector
    <3>1. call.handle \in HandleId /\ Open_(call.handle) /\ Cur = Hd(call.handle)
      BY <2>2, CurHandle
    <3>2. HandleInv(call.handle) /\ ~ Opening(call.handle)
      BY <2>2, <3>1 DEF IInv, Opening
    <3> QED
      BY <3>1, <3>2 DEF HandleInv, Hd
  <2> QED
    BY <1>2, <2>2, <2>3 DEF SessionInv, FlushInv, Committed
<1> QED
  BY <1>3, <1>5, <1>6 DEF SessionInv, WriterInv

\* The sector claimed was free, and is as blank as it was.
LEMMA ClaimSessions ==
  ASSUME IInv, TableInv, SessionInv, OnHandle, pc \in {"allocate", "write_counter"},
         call.op \in {"open", "write"},
         NEW s \in Sector, FileOf(s) = None, NEW root, Claim(s, root),
         UNCHANGED <<session, data>>,
         root # None /\ call.op = "write" => Leaving,
         call.op = "open" => root = None
  PROVE  SessionInv'
<1>1. /\ alloc_unit_list \in [Sector -> Header] /\ call \in Call
      /\ fs_priv_handle_list \in [HandleId -> Handle]
  BY DEF IInv, TypeOK
<1>2. PICK g \in HandleId : g = call.handle /\ Open_(g) /\ Cur = Hd(g) /\ Cur \in Handle
  BY CurHandle
<1>3. PICK new : SetHandle(g, [Cur EXCEPT !.root_allocation_unit = new])
  BY <1>2 DEF Claim
<1>4. /\ call'.sector = s /\ call'.op = call.op /\ call'.handle = g
      /\ pc' = IF root = None THEN "write_file_info" ELSE "write_next"
  BY <1>1, <1>2 DEF Claim, Goto, Call, None
<1>5. /\ fs_priv_handle_list'[g] = [Cur EXCEPT !.root_allocation_unit = new]
      /\ \A h \in HandleId : h # g => fs_priv_handle_list'[h] = fs_priv_handle_list[h]
  BY <1>1, <1>3 DEF SetHandle
<1>6. ~ Placed(g)'
  BY <1>4 DEF Placed, Moving, Growing
<1>7. ASSUME NEW h \in HandleId, Placed(h)' PROVE Placed(h) /\ SameCursor(h)
  <2>1. h # g /\ Hd(h)' = Hd(h) /\ Open_(h)' = Open_(h) /\ Open_(h)'
    BY <1>5, <1>6, <1>7 DEF Hd, Open_, Placed
  <2> QED
    BY <1>2, <2>1 DEF Placed, Opening, Moving, SameCursor, SameHandle
<1>8. Blank(s) /\ Blank(call.sector)'
  BY <1>4 DEF SessionInv, BlankInv, Blank
<1>9. \A t \in Sector : FileOf(t)' = None => FileOf(t) = None
  <2> DEFINE entry ==
        [file_id |-> Cur.file_id,
         file_protect |-> IF root = FS_PRIV_NOT_ALLOCATED
                            THEN PROTECT_BITS ELSE alloc_unit_list[root].file_protect,
         next_allocation_unit |-> FS_PRIV_NOT_ALLOCATED,
         circular |-> Cur.circular,
         alloc_counter |-> alloc_unit_list[s].alloc_counter]
  <2>1. \/ alloc_unit_list' = [alloc_unit_list EXCEPT ![s] = entry]
        \/ alloc_unit_list' =
             [[alloc_unit_list EXCEPT ![s] = entry]
                EXCEPT ![Cur.curr_allocation_unit].next_allocation_unit = s]
    BY DEF Claim
  <2> HIDE DEF entry
  <2>2. \A t \in Sector : t # s => alloc_unit_list'[t].file_id = alloc_unit_list[t].file_id
    BY <1>1, <2>1 DEF Header
  <2> QED
    BY <1>4, <2>2 DEF FileOf, Table
<1>10. FlushInv'
  <2>1. SUFFICES ASSUME Leaving'
                 PROVE  /\ Cur'.curr_data_offset = Committed(Cur.curr_allocation_unit)'
                        /\ Cur'.curr_data_offset > 0
    BY <1>4 DEF FlushInv
  <2>2. Leaving
    BY <1>4, <2>1 DEF Leaving
  <2>3. /\ Cur'.curr_data_offset = Cur.curr_data_offset
        /\ Cur'.curr_allocation_unit = Cur.curr_allocation_unit
    BY <1>2, <1>4, <1>5 DEF Cur, Handle
  <2> QED
    BY <2>2, <2>3 DEF SessionInv, FlushInv, Committed
<1> QED
  BY <1>7, <1>8, <1>9, <1>10, SessionsKept DEF SessionInv

\* The sector claimed is a free one, or the root that has just been erased.
LEMMA AllocateSessions ==
  ASSUME IInv, TableInv, SessionInv, AllocateFree \/ Recycled
  PROVE  SessionInv'
<1>1. CASE AllocateFree
  <2> DEFINE s == find_free_allocation_unit(alloc_unit_list)
  <2>1. /\ pc = "allocate" /\ OnHandle /\ UNCHANGED <<session, data>>
        /\ call.op \in {"open", "write"} /\ Claim(s, Cur.root_allocation_unit)
    BY <1>1 DEF AllocateFree, OnHandle, flashVars, IInv, CallInv
  <2>2. s \in Sector /\ FileOf(s) = None
    <3>1. s \in free_sectors(alloc_unit_list)
      BY <1>1, FindFreeType DEF AllocateFree, IInv, TypeOK
    <3> QED
      BY <2>1, <3>1 DEF free_sectors, sectors_of, FileOf, Table, None
  <2> HIDE DEF s
  <2>3. call.op = "open" => Cur.root_allocation_unit = None
    BY <2>1 DEF TableInv, PathInv, OpenInv
  <2>4. call.op = "write" => Leaving
    BY <2>1 DEF Leaving
  <2> QED
    BY <2>1, <2>2, <2>3, <2>4, ClaimSessions
<1>2. CASE Recycled
  <2>1. /\ pc = "write_counter" /\ OnHandle /\ call.op \in {"open", "write"}
        /\ Claim(call.sector, call.next) /\ UNCHANGED <<session, data>>
    BY <1>2 DEF Recycled, WriteCounter, OnHandle
  <2>2. call.op = "write" /\ FileOf(call.sector) = None /\ call.sector \in Sector
    BY <2>1 DEF TableInv, PathInv, EraseInv, Erasing, IInv, CallInv
  <2>3. call.next # None => Leaving
    BY <2>1, <2>2 DEF TableInv, PathInv, EraseInv, Leaving
  <2> QED
    BY <2>1, <2>2, <2>3, ClaimSessions
<1> QED
  BY <1>1, <1>2

\* The link is programmed while the new sector stays blank.
LEMMA WriteNextSessions ==
  ASSUME IInv, TableInv, SessionInv, WriteNext
  PROVE  SessionInv'
<1>1. /\ pc = "write_next" /\ pc' = "write_file_info" /\ call' = call
      /\ UNCHANGED <<session, data, alloc_unit_list>> /\ UNCHANGED fs_priv_handle_list
  BY DEF WriteNext, ramVars
<1>2. \A h \in HandleId : Placed(h)' => Placed(h) /\ SameCursor(h)
  BY <1>1 DEF Placed, Opening, Moving, Growing, SameCursor, SameHandle, Hd, Open_
<1>3. Blank(call.sector)'
  BY <1>1 DEF SessionInv, BlankInv, Blank, Growing
<1>4. \A s \in Sector : FileOf(s)' = FileOf(s)
  BY <1>1, SameTable
<1>5. FlushInv'
  BY <1>1 DEF FlushInv, Leaving
<1> QED
  BY <1>1, <1>2, <1>3, <1>4, <1>5, SessionsKept DEF SessionInv

\* The writer is at the start of a blank sector, which is what it is told.
LEMMA WriteFileInfoSessions ==
  ASSUME IInv, TableInv, SessionInv, WriteFileInfo
  PROVE  SessionInv'
<1>1. /\ pc = "write_file_info" /\ pc' \in {"idle", "write"} /\ OnHandle
      /\ UNCHANGED <<session, data, alloc_unit_list>>
  BY DEF WriteFileInfo, Return, Goto, OnHandle
<1>2. PICK g \in HandleId : g = call.handle /\ Open_(g) /\ Cur = Hd(g) /\ Cur \in Handle
  BY <1>1, CurHandle
<1>3. PICK hd : /\ SetHandle(g, hd) /\ hd.writeable = Cur.writeable
                /\ hd.curr_allocation_unit = call.sector
                /\ hd.curr_session_offset = 0 /\ hd.curr_session_value = 0
                /\ hd.last_data_offset = 0 /\ hd.curr_data_offset = 0
  <2> DEFINE hd == [Cur EXCEPT !.curr_allocation_unit = call.sector,
                               !.last_data_offset = 0,
                               !.curr_data_offset = 0,
                               !.curr_session_offset = 0,
                               !.curr_session_value = 0,
                               !.page_cache = EmptyCache]
  <2>1. /\ hd.writeable = Cur.writeable
        /\ hd.curr_allocation_unit = call.sector
        /\ hd.curr_session_offset = 0 /\ hd.curr_session_value = 0
        /\ hd.last_data_offset = 0 /\ hd.curr_data_offset = 0
    BY <1>2 DEF Handle
  <2>2. SetHandle(g, hd)
    BY <1>2 DEF WriteFileInfo
  <2> QED
    BY <2>1, <2>2
<1>4. fs_priv_handle_list'[g] = hd
      /\ \A h \in HandleId : h # g => fs_priv_handle_list'[h] = fs_priv_handle_list[h]
  BY <1>3 DEF SetHandle, IInv, TypeOK
<1>5. session[call.sector] = ErasedSessions
  BY <1>1 DEF SessionInv, BlankInv, Blank, Growing
<1>6. WriterInv(g)'
  BY <1>1, <1>3, <1>4, <1>5, ScanErased DEF WriterInv, Hd
<1>7. \A h \in HandleId : h # g => (Placed(h)' => Placed(h))
  BY <1>1, <1>2, <1>4 DEF Placed, Open_, Opening, Moving
<1>8. FlushInv'
  BY <1>1 DEF FlushInv, Leaving
<1> QED
  BY <1>1, <1>3, <1>6, <1>7, <1>8, OneHandleSessions DEF SessionInv, Growing


-----------------------------------------------------------------------------
(***************************************************************************)
(* Steps that write to the sector of the running call's handle.            *)
(***************************************************************************)
Writing == pc \in {"flush_page_cache", "update_session_offset", "write", "write_page"}

\* While a call writes, its handle is the only one on the sector.
LEMMA WriterAlone ==
  ASSUME IInv, TableInv, Writing, OnHandle
  PROVE  \E g \in HandleId, c \in Sector :
           /\ g = call.handle /\ Cur = Hd(g) /\ Cur \in Handle /\ Cur.writeable /\ Placed(g)
           /\ c = Cur.curr_allocation_unit /\ FileOf(c) = Cur.file_id /\ Cur.file_id \in FileId
           /\ \A h \in HandleId : h # g /\ Placed(h) => Hd(h).curr_allocation_unit # c
<1>1. PICK g \in HandleId : g = call.handle /\ Open_(g) /\ Cur = Hd(g) /\ Cur \in Handle
  BY CurHandle
<1>2. Cur.writeable
  BY DEF IInv, CallInv, Writing
<1>3. Placed(g)
  BY <1>1, AllPlaced DEF Writing
<1>4. PICK c \in Sector : c = Cur.curr_allocation_unit
  <2>1. HandleInv(g)
    BY DEF IInv
  <2> QED
    BY <1>1, <1>3, <2>1 DEF HandleInv, Placed, Hd
<1>5. FileOf(c) = Cur.file_id /\ Cur.file_id \in FileId
  BY <1>1, <1>3, <1>4 DEF TableInv, PlaceInv
<1>6. \A h \in HandleId : h # g /\ Placed(h) => Hd(h).curr_allocation_unit # c
  <2> SUFFICES ASSUME NEW h \in HandleId, h # g, Placed(h), Hd(h).curr_allocation_unit = c
               PROVE  FALSE
    OBVIOUS
  <2>1. Hd(h).file_id = Hd(g).file_id /\ Open_(h)
    BY <1>1, <1>5 DEF TableInv, PlaceInv, Placed
  <2> QED
    BY <1>1, <1>2, <2>1 DEF TableInv, Exclusive
<1> QED
  BY <1>1, <1>2, <1>3, <1>4, <1>5, <1>6

\* It may write there, as long as its own handle stays right.
LEMMA SectorWritten ==
  ASSUME IInv, TableInv, SessionInv, UNCHANGED alloc_unit_list, Writing,
         pc' # "unmounted", ~ Growing',
         NEW g \in HandleId, NEW c \in Sector, NEW hd, SetHandle(g, hd),
         FileOf(c) # None,
         \A h \in HandleId : h # g /\ Placed(h) => Hd(h).curr_allocation_unit # c,
         \A t \in Sector : t # c => session'[t] = session[t] /\ data'[t] = data[t],
         Increasing(session'[c]), WriterInv(g)'
  PROVE  BlankInv' /\ SlotsInv' /\ (\A h \in HandleId : WriterInv(h))'
<1>1. \A h \in HandleId : h # g => fs_priv_handle_list'[h] = fs_priv_handle_list[h]
  BY DEF SetHandle, IInv, TypeOK
<1>2. \A s \in Sector : FileOf(s)' = FileOf(s)
  BY SameTable DEF Writing
<1>3. BlankInv'
  BY <1>2 DEF SessionInv, BlankInv, Blank
<1>4. SlotsInv'
  BY DEF SessionInv, SlotsInv
<1>5. ASSUME NEW h \in HandleId, h # g, Placed(h)'
      PROVE  WriterInv(h)'
  <2>1. Hd(h)' = Hd(h) /\ Open_(h) /\ Placed(h)
    BY <1>1, <1>5, AllPlaced DEF Hd, Open_, Placed, Writing
  <2>2. PICK d \in Sector : d = Hd(h).curr_allocation_unit
    <3>1. HandleInv(h)
      BY DEF IInv
    <3> QED
      BY <2>1, <3>1 DEF Placed, HandleInv, Hd
  <2>3. session'[d] = session[d]
    BY <1>5, <2>1, <2>2
  <2> QED
    BY <2>1, <2>2, <2>3 DEF SessionInv, WriterInv
<1>6. ASSUME NEW h \in HandleId PROVE WriterInv(h)'
  BY <1>5 DEF WriterInv
<1> QED
  BY <1>3, <1>4, <1>6

\* The offsets of a writer's handle, in order.
LEMMA WriterOffsets ==
  ASSUME IInv, TableInv, SessionInv, Writing, OnHandle
  PROVE  /\ Cur.curr_session_value \in Nat /\ Cur.last_data_offset \in Offset
         /\ Cur.curr_data_offset \in Offset
         /\ Cur.curr_session_value <= Cur.last_data_offset
         /\ Cur.last_data_offset <= Cur.curr_data_offset
         /\ Cur.curr_session_offset = next_session(session[Cur.curr_allocation_unit])
         /\ Cur.curr_session_value = session_end(session[Cur.curr_allocation_unit])
         /\ Cur.curr_session_offset = None => Cur.curr_data_offset = Cur.curr_session_value
         /\ page_boundary(Cur) \in 1 .. FS_PRIV_PAGE_SIZE
<1>1. PICK g \in HandleId : Cur = Hd(g) /\ Cur \in Handle /\ Cur.writeable /\ Placed(g)
  BY WriterAlone
<1>2. /\ Cur.curr_session_value \in Offset /\ Cur.last_data_offset \in Offset
      /\ Cur.curr_data_offset \in Offset
  BY <1>1 DEF Handle
<1>3. WriterInv(g) /\ HandleInv(g)
  BY DEF SessionInv, IInv
<1>4. page_boundary(Cur) \in 1 .. FS_PRIV_PAGE_SIZE
  BY <1>2, PageBoundary, OffsetIsNatural DEF page_boundary
<1>5. cached_bytes(Cur) \in 0 .. page_boundary(Cur)
  BY <1>1, <1>3 DEF HandleInv, Placed, Hd
<1>6. Cur.last_data_offset <= Cur.curr_data_offset
  <2>1. Cur.last_data_offset \in Nat /\ Cur.curr_data_offset \in Nat
    BY <1>2, OffsetIsNatural
  <2>2. Cur.curr_data_offset - Cur.last_data_offset \in 0 .. page_boundary(Cur)
    BY <1>5 DEF cached_bytes
  <2>3. page_boundary(Cur) \in Nat
    BY <1>4, LayoutAssumption
  <2> QED
    BY <2>1, <2>2, <2>3
<1> QED
  BY <1>1, <1>2, <1>3, <1>4, <1>6, OffsetIsNatural DEF WriterInv

\* Programming the cached bytes leaves other sectors alone.
LEMMA ProgramDataElsewhere ==
  ASSUME IInv, NEW c \in Sector, NEW from, NEW n, NEW bytes, ProgramData(c, from, n, bytes)
  PROVE  \A t \in Sector : t # c => data'[t] = data[t]
BY DEF ProgramData, IInv, TypeOK

\* flush_page_cache: all the handle has written is in flash, not yet committed.
LEMMA FlushPageCacheSessions ==
  ASSUME IInv, TableInv, SessionInv, FlushPageCache
  PROVE  SessionInv'
<1>1. /\ pc = "flush_page_cache" /\ pc' = "update_session_offset" /\ call' = call
      /\ UNCHANGED <<session, alloc_unit_list>> /\ OnHandle /\ Writing
  BY DEF FlushPageCache, OnHandle, Writing
<1>2. PICK g \in HandleId, c \in Sector :
           /\ g = call.handle /\ Cur = Hd(g) /\ Cur \in Handle /\ Cur.writeable /\ Placed(g)
           /\ c = Cur.curr_allocation_unit /\ FileOf(c) = Cur.file_id /\ Cur.file_id \in FileId
           /\ \A h \in HandleId : h # g /\ Placed(h) => Hd(h).curr_allocation_unit # c
  BY <1>1, WriterAlone
<1>3. PICK hd : hd = [Cur EXCEPT !.last_data_offset = Cur.curr_data_offset,
                                 !.page_cache = EmptyCache]
  OBVIOUS
<1>4. /\ hd.writeable /\ hd.curr_allocation_unit = c
      /\ hd.curr_session_offset = Cur.curr_session_offset
      /\ hd.curr_session_value = Cur.curr_session_value
      /\ hd.last_data_offset = Cur.curr_data_offset
      /\ hd.curr_data_offset = Cur.curr_data_offset
  BY <1>2, <1>3 DEF Handle
<1>5. SetHandle(g, hd) /\ fs_priv_handle_list'[g] = hd
  BY <1>2, <1>3 DEF FlushPageCache, SetHandle, IInv, TypeOK
<1>6. \A t \in Sector : t # c => session'[t] = session[t] /\ data'[t] = data[t]
  BY <1>1, <1>2, ProgramDataElsewhere DEF FlushPageCache
<1>7. WriterInv(g)'
  <2>1. Cur.curr_session_value <= Cur.curr_data_offset
    <3>1. /\ Cur.curr_session_value \in Nat /\ Cur.last_data_offset \in Nat
          /\ Cur.curr_data_offset \in Nat
      BY <1>1, WriterOffsets, OffsetIsNatural
    <3> QED
      BY <1>1, <3>1, WriterOffsets
  <2>2. Hd(g)' = hd /\ session' = session
    BY <1>1, <1>5 DEF Hd
  <2> QED
    BY <1>1, <1>2, <1>4, <2>1, <2>2, WriterOffsets DEF WriterInv
<1>8. FlushInv'
  <2>1. Cur' = hd
    BY <1>1, <1>2, <1>5 DEF Cur
  <2> QED
    BY <1>1, <1>4, <2>1 DEF SessionInv, FlushInv, Leaving
<1>9. FileOf(c) # None
  BY <1>2, TableType
<1>10. Increasing(session'[c])
  BY <1>1 DEF SessionInv, SlotsInv
<1> QED
  BY <1>1, <1>2, <1>5, <1>6, <1>7, <1>8, <1>9, <1>10, SectorWritten DEF SessionInv, Growing


\* What update_session_offset writes to the slot of an orderly sector.
LEMMA SlotProgrammed ==
  ASSUME IInv, TableInv, SessionInv, pc = "update_session_offset", OnHandle,
         NEW c \in Sector, c = Cur.curr_allocation_unit, SessionMoved(Cur)
  PROVE  LET i   == Cur.curr_session_offset
             new == [session[c] EXCEPT ![i] = Cur.last_data_offset]
         IN  /\ i \in Slot /\ ProgramWord(session[c][i], Cur.last_data_offset) = Cur.last_data_offset
             /\ Increasing(new)
             /\ next_session(new) = next_slot(i)
             /\ session_end(new) = Cur.last_data_offset
<1>1. PICK slots \in [Slot -> Nil(Offset)] : slots = session[c]
  BY DEF IInv, TypeOK
<1>2. PICK v \in Offset : v = Cur.last_data_offset
  BY WriterOffsets DEF Writing
<1>3. Increasing(slots) /\ next_session(slots) # None /\ next_session(slots) = Cur.curr_session_offset
  BY <1>1, WriterOffsets DEF Writing, SessionInv, SlotsInv, FlushInv
<1>4. v > session_end(slots)
  <2>1. /\ Cur.curr_session_value <= v /\ v # Cur.curr_session_value
        /\ Cur.curr_session_value = session_end(slots) /\ Cur.curr_session_value \in Nat
    BY <1>1, <1>2, WriterOffsets DEF Writing, SessionMoved
  <2>2. v \in Nat
    BY <1>2, OffsetIsNatural
  <2> QED
    BY <2>1, <2>2
<1>5. next_session(slots) \in Slot /\ slots[next_session(slots)] = ERASED
  <2>1. PICK i \in Slot : /\ i = next_session(slots)
                          /\ \A j \in Slot : slots[j] = ERASED <=> j >= i
    BY <1>1, <1>3, ScanFinds
  <2>2. i \in Nat
    BY LayoutAssumption DEF Slot
  <2> QED
    BY <2>1, <2>2
<1> QED
  BY <1>1, <1>2, <1>3, <1>4, <1>5, ScanStored DEF ProgramWord

\* update_session_offset: everything written is committed, and the next slot is known.
LEMMA UpdateSessionOffsetSessions ==
  ASSUME IInv, TableInv, SessionInv, UpdateSessionOffset
  PROVE  SessionInv'
<1>1. /\ pc = "update_session_offset" /\ UNCHANGED <<data, alloc_unit_list>>
      /\ OnHandle /\ Writing /\ pc' \in {"idle", "allocate"}
  BY DEF UpdateSessionOffset, Goto, Return, OnHandle, Writing
<1>2. PICK g \in HandleId, c \in Sector :
           /\ g = call.handle /\ Cur = Hd(g) /\ Cur \in Handle /\ Cur.writeable /\ Placed(g)
           /\ c = Cur.curr_allocation_unit /\ FileOf(c) = Cur.file_id /\ Cur.file_id \in FileId
           /\ \A h \in HandleId : h # g /\ Placed(h) => Hd(h).curr_allocation_unit # c
  BY <1>1, WriterAlone
<1>3. PICK hd : hd = IF call.op = "close" THEN FreeHandle ELSE UpdatedHandle(Cur)
  OBVIOUS
<1>4. SetHandle(g, hd) /\ fs_priv_handle_list'[g] = hd /\ Hd(g)' = hd
  BY <1>2, <1>3 DEF UpdateSessionOffset, SetHandle, IInv, TypeOK, Hd
<1>5. /\ Cur.last_data_offset = Cur.curr_data_offset
      /\ call.op = "write" => Cur.curr_data_offset = FS_PRIV_USABLE_SIZE
      /\ Cur.curr_session_offset # None
  BY <1>1 DEF SessionInv, FlushInv
<1>6. /\ \A t \in Sector : t # c => session'[t] = session[t]
      /\ Increasing(session'[c])
      /\ call.op # "close" =>
           /\ hd.writeable /\ hd.curr_allocation_unit = c
           /\ hd.curr_session_offset = next_session(session'[c])
           /\ hd.curr_session_value = session_end(session'[c])
           /\ hd.curr_session_value = hd.last_data_offset
           /\ hd.last_data_offset = Cur.last_data_offset
           /\ hd.curr_data_offset = hd.last_data_offset
  <2>1. CASE SessionMoved(Cur)
    <3>1. /\ session \in [Sector -> [Slot -> Nil(Offset)]] /\ Cur.curr_session_offset \in Slot
          /\ session' = [session EXCEPT
               ![c][Cur.curr_session_offset] =
                  ProgramWord(session[c][Cur.curr_session_offset], Cur.last_data_offset)]
      BY <1>1, <1>2, <2>1, SlotProgrammed DEF UpdateSessionOffset, IInv, TypeOK
    <3>2. /\ \A t \in Sector : t # c => session'[t] = session[t]
          /\ session'[c] = [session[c] EXCEPT ![Cur.curr_session_offset] = Cur.last_data_offset]
      BY <1>1, <1>2, <2>1, <3>1, SlotProgrammed
    <3>3. /\ Increasing(session'[c])
          /\ next_session(session'[c]) = next_slot(Cur.curr_session_offset)
          /\ session_end(session'[c]) = Cur.last_data_offset
      BY <1>1, <1>2, <2>1, <3>2, SlotProgrammed
    <3>4. call.op # "close" =>
            /\ hd.writeable /\ hd.curr_allocation_unit = c
            /\ hd.curr_session_offset = next_slot(Cur.curr_session_offset)
            /\ hd.curr_session_value = Cur.last_data_offset
            /\ hd.last_data_offset = Cur.last_data_offset
            /\ hd.curr_data_offset = Cur.curr_data_offset
      BY <1>2, <1>3, <2>1 DEF UpdatedHandle, Handle
    <3> QED
      BY <1>5, <3>2, <3>3, <3>4
  <2>2. CASE ~ SessionMoved(Cur)
    <3>1. session' = session /\ (call.op # "close" => hd = Cur)
      BY <1>3, <2>2 DEF UpdateSessionOffset, UpdatedHandle
    <3>2. Increasing(session[c]) /\ Cur.last_data_offset = Cur.curr_session_value
      BY <2>2 DEF SessionInv, SlotsInv, SessionMoved
    <3> QED
      BY <1>1, <1>2, <1>5, <3>1, <3>2, WriterOffsets
  <2> QED
    BY <2>1, <2>2
<1>7. WriterInv(g)'
  <2>1. CASE call.op = "close"
    <3>1. ~ Placed(g)'
      BY <1>3, <1>4, <2>1 DEF Placed, Open_, FreeHandle
    <3> QED
      BY <3>1 DEF WriterInv
  <2>2. CASE call.op # "close"
    <3>1. hd.curr_session_value <= hd.last_data_offset
      <4>1. Cur.last_data_offset \in Nat
        BY <1>1, WriterOffsets, OffsetIsNatural
      <4> QED
        BY <1>6, <2>2, <4>1
    <3> QED
      BY <1>4, <1>6, <2>2, <3>1 DEF WriterInv
  <2> QED
    BY <2>1, <2>2
<1>8. FlushInv'
  <2>1. SUFFICES ASSUME Leaving'
                 PROVE  /\ Cur'.curr_data_offset = Committed(Cur.curr_allocation_unit)'
                        /\ Cur'.curr_data_offset > 0
    BY <1>1 DEF FlushInv
  <2>2. call' = call /\ call.op = "write"
    BY <1>1, <2>1 DEF UpdateSessionOffset, Leaving, Goto, Return, NoCall
  <2>3. Cur' = hd
    BY <1>2, <1>4, <2>2 DEF Cur
  <2>4. hd.curr_data_offset = session_end(session'[hd.curr_allocation_unit])
        /\ hd.curr_data_offset = FS_PRIV_USABLE_SIZE
    BY <1>5, <1>6, <2>2
  <2> QED
    BY <2>3, <2>4, LayoutAssumption DEF Committed
<1>9. FileOf(c) # None
  BY <1>2, TableType
<1>10. \A t \in Sector : t # c => session'[t] = session[t] /\ data'[t] = data[t]
  BY <1>1, <1>6
<1> QED
  BY <1>1, <1>2, <1>4, <1>6, <1>7, <1>8, <1>9, <1>10, SectorWritten DEF SessionInv, Growing


\* What is cached is not committed: a sector without a free slot is full.
LEMMA FillCacheSessions ==
  ASSUME IInv, TableInv, SessionInv, FillCache
  PROVE  SessionInv'
<1>1. /\ pc = "write" /\ pc' \in {"write", "write_page"} /\ OnHandle /\ Writing
      /\ UNCHANGED <<session, data, alloc_unit_list>> /\ ~ is_full(Cur)
  BY DEF FillCache, Goto, flashVars, OnHandle, Writing
<1>2. PICK g \in HandleId, c \in Sector :
           /\ g = call.handle /\ Cur = Hd(g) /\ Cur \in Handle /\ Cur.writeable /\ Placed(g)
           /\ c = Cur.curr_allocation_unit /\ FileOf(c) = Cur.file_id /\ Cur.file_id \in FileId
           /\ \A h \in HandleId : h # g /\ Placed(h) => Hd(h).curr_allocation_unit # c
  BY <1>1, WriterAlone
<1>3. PICK hd : /\ SetHandle(g, hd) /\ hd.writeable
                /\ hd.curr_allocation_unit = c
                /\ hd.curr_session_offset = Cur.curr_session_offset
                /\ hd.curr_session_value = Cur.curr_session_value
                /\ hd.last_data_offset = Cur.last_data_offset
  <2>1. PICK cache, n : SetHandle(g, [Cur EXCEPT !.page_cache = cache, !.curr_data_offset = @ + n])
    BY <1>2 DEF FillCache, Accept
  <2> DEFINE hd == [Cur EXCEPT !.page_cache = cache, !.curr_data_offset = @ + n]
  <2>2. /\ hd.writeable /\ hd.curr_allocation_unit = c
        /\ hd.curr_session_offset = Cur.curr_session_offset
        /\ hd.curr_session_value = Cur.curr_session_value
        /\ hd.last_data_offset = Cur.last_data_offset
    BY <1>2 DEF Handle
  <2> QED
    BY <2>1, <2>2
<1>4. fs_priv_handle_list'[g] = hd
      /\ \A h \in HandleId : h # g => fs_priv_handle_list'[h] = fs_priv_handle_list[h]
  BY <1>3 DEF SetHandle, IInv, TypeOK
<1>5. WriterInv(g)'
  <2>1. Hd(g)' = hd /\ session' = session
    BY <1>1, <1>4 DEF Hd
  <2>2. hd.curr_session_offset # None
    BY <1>1, <1>3 DEF is_full, None
  <2> QED
    BY <1>1, <1>2, <1>3, <2>1, <2>2, WriterOffsets DEF WriterInv
<1>6. \A h \in HandleId : h # g => (Placed(h)' => Placed(h))
  BY <1>1, <1>4, AllPlaced DEF Placed, Open_
<1>7. FlushInv'
  BY <1>1 DEF FlushInv, Leaving
<1> QED
  BY <1>1, <1>3, <1>5, <1>6, <1>7, OneHandleSessions DEF SessionInv, Growing

\* A full page is programmed past what is committed, in a sector with a free slot.
LEMMA WritePageSessions ==
  ASSUME IInv, TableInv, SessionInv, WritePage
  PROVE  SessionInv'
<1>1. /\ pc = "write_page" /\ pc' = "write" /\ OnHandle /\ Writing
      /\ UNCHANGED <<session, alloc_unit_list>>
  BY DEF WritePage, Goto, OnHandle, Writing
<1>2. PICK g \in HandleId, c \in Sector :
           /\ g = call.handle /\ Cur = Hd(g) /\ Cur \in Handle /\ Cur.writeable /\ Placed(g)
           /\ c = Cur.curr_allocation_unit /\ FileOf(c) = Cur.file_id /\ Cur.file_id \in FileId
           /\ \A h \in HandleId : h # g /\ Placed(h) => Hd(h).curr_allocation_unit # c
  BY <1>1, WriterAlone
<1>3. PICK hd : /\ SetHandle(g, hd) /\ hd.writeable
                /\ hd.curr_allocation_unit = c
                /\ hd.curr_session_offset = Cur.curr_session_offset
                /\ hd.curr_session_value = Cur.curr_session_value
                /\ hd.last_data_offset = Cur.last_data_offset + page_boundary(Cur)
  <2>1. PICK cache, n : SetHandle(g, [[Cur EXCEPT !.last_data_offset = @ + page_boundary(Cur)]
                                        EXCEPT !.page_cache = cache, !.curr_data_offset = @ + n])
    BY <1>2 DEF WritePage, Accept
  <2> DEFINE hd == [[Cur EXCEPT !.last_data_offset = @ + page_boundary(Cur)]
                      EXCEPT !.page_cache = cache, !.curr_data_offset = @ + n]
  <2>2. /\ hd.writeable /\ hd.curr_allocation_unit = c
        /\ hd.curr_session_offset = Cur.curr_session_offset
        /\ hd.curr_session_value = Cur.curr_session_value
        /\ hd.last_data_offset = Cur.last_data_offset + page_boundary(Cur)
    BY <1>2 DEF Handle
  <2> QED
    BY <2>1, <2>2
<1>4. fs_priv_handle_list'[g] = hd
  BY <1>3 DEF SetHandle, IInv, TypeOK
<1>5. WriterInv(g)'
  <2>1. Hd(g)' = hd /\ session' = session
    BY <1>1, <1>4 DEF Hd
  <2>2. /\ Cur.curr_session_value \in Nat /\ Cur.last_data_offset \in Nat
        /\ Cur.curr_data_offset \in Nat /\ page_boundary(Cur) \in Nat \ {0}
    <3>1. page_boundary(Cur) \in 1 .. FS_PRIV_PAGE_SIZE
      BY <1>1, WriterOffsets
    <3>2. page_boundary(Cur) \in Nat \ {0}
      BY <3>1, LayoutAssumption
    <3> QED
      BY <1>1, <3>2, WriterOffsets, OffsetIsNatural
  <2>3. Cur.curr_session_value <= Cur.last_data_offset
        /\ Cur.curr_data_offset - Cur.last_data_offset = page_boundary(Cur)
    BY <1>1, WriterOffsets DEF IInv, CallInv, cached_bytes
  <2>4. Cur.curr_session_offset # None
    BY <1>1, <2>2, <2>3, WriterOffsets
  <2>5. Cur.curr_session_value <= Cur.last_data_offset + page_boundary(Cur)
    BY <2>2, <2>3
  <2> QED
    BY <1>1, <1>2, <1>3, <2>1, <2>4, <2>5, WriterOffsets DEF WriterInv
<1>6. FlushInv'
  BY <1>1 DEF FlushInv, Leaving
<1>7. FileOf(c) # None
  BY <1>2, TableType
<1>8. \A t \in Sector : t # c => session'[t] = session[t] /\ data'[t] = data[t]
  BY <1>1, <1>2, ProgramDataElsewhere DEF WritePage
<1>9. Increasing(session'[c])
  BY <1>1 DEF SessionInv, SlotsInv
<1> QED
  BY <1>1, <1>2, <1>3, <1>5, <1>6, <1>7, <1>8, <1>9, SectorWritten DEF SessionInv, Growing

-----------------------------------------------------------------------------
(***************************************************************************)
(* Every step, and the theorems.                                           *)
(***************************************************************************)

\* A stuttering step.
LEMMA StutterSessions ==
  ASSUME TableInv, SessionInv, UNCHANGED vars
  PROVE  SessionInv'
<1>1. /\ Table' = Table /\ (\A h \in HandleId : Hd(h)' = Hd(h) /\ Open_(h)' = Open_(h))
      /\ Cur' = Cur /\ call' = call /\ pc' = pc /\ UNCHANGED <<session, data>>
  BY DEF vars, flashVars, ramVars, Table, Hd, Open_, Cur
<1>2. BlankInv' /\ SlotsInv'
  BY <1>1 DEF SessionInv, BlankInv, Blank, SlotsInv, Growing, FileOf
<1>3. (\A h \in HandleId : WriterInv(h))'
  BY <1>1 DEF SessionInv, WriterInv, Placed, Opening, Moving, Growing
<1>4. FlushInv'
  BY <1>1 DEF SessionInv, FlushInv, Leaving, Committed
<1> QED
  BY <1>2, <1>3, <1>4 DEF SessionInv

\* Whatever an orderly client calls.
LEMMA ClientSessions ==
  ASSUME IInv, TableInv, SessionInv, Client
  PROVE  SessionInv'
<1>1. CASE Mount \/ Unmount
  BY <1>1, MountSessions
<1>2. CASE Format
  BY <1>2, CallsSessions
<1>3. CASE \E f \in FileId : Remove(f) \/ Protect(f) \/ Unprotect(f)
  <2>1. \E f, m : \E op \in Op : BeginOnFile(op, f, m)
    BY <1>3 DEF Remove, Protect, Unprotect, ChangeProtection, Op
  <2> QED
    BY <2>1, CallsSessions
<1>4. CASE \E f \in IF "reserved_id" \in Liberties THEN Nil(FileId) ELSE FileId, m \in Mode :
             Open(f, m)
  <2>1. \E f, m : \E op \in Op : BeginOnFile(op, f, m)
    <3>1. PICK f, m : Open(f, m)
      BY <1>4
    <3>2. BeginOnFile("open", f, m) /\ "open" \in Op
      BY <3>1 DEF Open, Op
    <3> QED
      BY <3>2
  <2> QED
    BY <2>1, CallsSessions
<1>5. CASE \E h \in HandleId : Close(h)
  BY <1>5, GivenUpSessions
<1>6. CASE \E h \in HandleId : Flush(h) \/ InvalidHandle(h)
  BY <1>6, HandleCallsSessions
<1>7. CASE \E h \in HandleId, n \in WriteSizes : Write(h, n)
  BY <1>7, HandleCallsSessions
<1>8. CASE \E h \in HandleId, n \in ReadSizes : Read(h, n)
  BY <1>8, HandleCallsSessions
<1> QED
  BY <1>1, <1>2, <1>3, <1>4, <1>5, <1>6, <1>7, <1>8 DEF Client

\* Whatever the code does until the call returns.
LEMMA StepSessions ==
  ASSUME IInv, TableInv, TableInv', SessionInv, Step
  PROVE  SessionInv'
<1>1. CASE \/ ClimbToRoot \/ FileMissing \/ OpenRefused \/ RemoveRefused \/ RemoveRoot
           \/ WriteDone \/ ReadDone
  BY <1>1, CallsSessions
<1>2. CASE OpenForReading
  BY <1>2, OpenForReadingSessions
<1>3. CASE OpenForWriting \/ OpenNewFile
  BY <1>3, OpenGoesOnSessions
<1>4. CASE FollowChain
  BY <1>4, FollowChainSessions
<1>5. CASE OpenAtEnd
  BY <1>5, OpenAtEndSessions
<1>6. CASE EraseBlock
  BY <1>6, EraseBlockSessions
<1>7. CASE AllocateFree \/ Recycled
  BY <1>7, AllocateSessions
<1>8. CASE RemoveNext \/ FormatNext
  BY <1>8, EraseLoopSessions
<1>9. CASE RecycleRoot
  BY <1>9, RecycleRootSessions
<1>10. CASE AllocateFails
  BY <1>10, GivenUpSessions
<1>11. CASE WriteNext
  BY <1>11, WriteNextSessions
<1>12. CASE WriteFileInfo
  BY <1>12, WriteFileInfoSessions
<1>13. CASE FlushPageCache
  BY <1>13, FlushPageCacheSessions
<1>14. CASE UpdateSessionOffset
  BY <1>14, UpdateSessionOffsetSessions
<1>15. CASE WriteToFullSector
  BY <1>15, FullSectorSessions
<1>16. CASE FillCache
  BY <1>16, FillCacheSessions
<1>17. CASE WritePage
  BY <1>17, WritePageSessions
<1>18. CASE ReadNextSector \/ ReadBytes
  BY <1>18, ReadSessions
<1>19. CASE \E op \in {"protect", "unprotect"} : SetProtection(op)
  BY <1>19, SetProtectionSessions
<1> QED
  BY <1>1, <1>2, <1>3, <1>4, <1>5, <1>6, <1>7, <1>8, <1>9, <1>10, <1>11, <1>12, <1>13,
     <1>14, <1>15, <1>16, <1>17, <1>18, <1>19 DEF Step

\* Orderly clients leave, at every step, free sectors erased, used session slots first
\* and in order, and what a handle remembers of its sector's slots right
\* (find_next_session_offset, update_session_offset, flush_handle).
THEOREM SessionInvariant ==
  ASSUME Liberties = {}
  PROVE  Spec => []SessionInv
<1>1. IInv /\ TableInv /\ TableInv' /\ SessionInv /\ [Next]_vars => SessionInv'
  <2> SUFFICES ASSUME IInv, TableInv, TableInv', SessionInv, [Next]_vars PROVE SessionInv'
    OBVIOUS
  <2>1. CASE Client
    BY <2>1, ClientSessions
  <2>2. CASE Step
    BY <2>2, StepSessions
  <2>3. CASE UNCHANGED vars
    BY <2>3, StutterSessions
  <2> QED
    BY <2>1, <2>2, <2>3 DEF Next
<1> QED
  BY <1>1, Invariant, TableInvariant, InitSessions, PTL DEF Spec

\* At every step the used session slots of every sector are a prefix of its slots and
\* hold increasing offsets, as find_next_session_offset's scan takes for granted.
THEOREM SessionsAlwaysIncrease ==
  ASSUME Liberties = {}
  PROVE  Spec => []SessionsIncrease
<1>1. SessionInv => SessionsIncrease
  <2> SUFFICES ASSUME SessionInv, NEW s \in Sector, NEW i \in Slot \ {0},
                      session[s][i] # ERASED
               PROVE  session[s][i - 1] # ERASED /\ session[s][i - 1] < session[s][i]
    BY DEF SessionsIncrease
  <2>1. i > 0
    BY LayoutAssumption DEF Slot
  <2> QED
    BY <2>1 DEF SessionInv, SlotsInv, Increasing
<1> QED
  BY <1>1, SessionInvariant, PTL

\* Between calls a sector the allocator may hand out is erased but for its counter:
\* nothing of an earlier file is left to be programmed over.
THEOREM FreeSectorsStayErased ==
  ASSUME Liberties = {}
  PROVE  Spec => []FreeSectorsErased
<1>1. IInv /\ TableInv /\ SessionInv => FreeSectorsErased
  <2> SUFFICES ASSUME IInv, TableInv, SessionInv, pc = "idle",
                      NEW s \in Sector, header[s].file_id = None
               PROVE  /\ header[s] = [ErasedHeader EXCEPT !.alloc_counter = header[s].alloc_counter]
                      /\ session[s] = ErasedSessions
                      /\ data[s] = ErasedData
    BY DEF FreeSectorsErased, sectors_of, None
  <2>1. header[s] = alloc_unit_list[s]
    BY DEF TableInv, MirrorInv, InFlash, Growing
  <2>2. FileOf(s) = None /\ Table[s] = header[s]
    BY <2>1 DEF FileOf, Table
  <2> QED
    BY <2>2 DEF TableInv, FreeInv, SessionInv, BlankInv, Blank
<1> QED
  BY <1>1, Invariant, TableInvariant, SessionInvariant, PTL
=============================================================================
