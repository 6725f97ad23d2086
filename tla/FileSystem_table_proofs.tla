----------------------- MODULE FileSystem_table_proofs -----------------------
(***************************************************************************)
(* The table of sectors, proved for every size of device and any number of *)
(* handles of orderly clients (Liberties = {}): where the copy in RAM may  *)
(* differ from flash inside a call, how the sectors of a file are linked,  *)
(* and on which sectors the handles and the running call are.              *)
(***************************************************************************)
EXTENDS FileSystem_proofs

(***************************************************************************)
(* The inductive invariant.                                                *)
(***************************************************************************)
None == FS_PRIV_NOT_ALLOCATED

\* What the code takes for the table, or will when it is mounted.
Table     == IF pc = "unmounted" THEN header ELSE alloc_unit_list
FileOf(s) == Table[s].file_id
Link(s)   == Table[s].next_allocation_unit
Hd(h)     == fs_priv_handle_list[h]

Headless(s)  == \A p \in Sector : Link(p) # s
RootOf(s, f) == s \in Sector /\ FileOf(s) = f /\ Headless(s)
Unused(f)    == \A s \in Sector : FileOf(s) # f

\* allocate_new_sector_to_file has claimed a sector and not written its header yet.
Growing   == pc \in {"write_next", "write_file_info"}
Erasing   == pc \in {"erase_block", "write_counter"}

\* A handle between its old and its new sector, and one that is on a sector.
Moving(h) == /\ call.handle = h
             /\ Growing \/ (pc = "write_counter" /\ call.op = "write")
Placed(h) == Open_(h) /\ ~ Opening(h) /\ ~ Moving(h)

\* Flash lags behind the table for the sector just erased, for the sector claimed, and
\* for the link to it.
InFlash(s) ==
  IF pc = "write_counter" /\ s = call.sector THEN ErasedHeader
  ELSE IF Growing /\ s = call.sector
    THEN [ErasedHeader EXCEPT !.alloc_counter = alloc_unit_list[s].alloc_counter]
  ELSE IF pc = "write_next" /\ s = Cur.curr_allocation_unit
    THEN [alloc_unit_list[s] EXCEPT !.next_allocation_unit = None]
  ELSE alloc_unit_list[s]

MirrorInv == pc # "unmounted" => \A s \in Sector : header[s] = InFlash(s)

\* A free sector has nothing but its counter; the sectors of a file link to each other,
\* two never to the same one.
FreeInv ==
  \A s \in Sector : FileOf(s) = None =>
    Table[s] = [ErasedHeader EXCEPT !.alloc_counter = Table[s].alloc_counter]
LinkInv ==
  call.op # "format" =>
    \A s \in Sector : Link(s) # None =>
      /\ Link(s) # s
      /\ FileOf(Link(s)) = FileOf(s)
      /\ \A t \in Sector : Link(t) = Link(s) => t = s

\* A handle is on a sector of its file and knows a root of it; a writer is on a sector
\* without a link, and no other handle is on its file.
PlaceInv(h) ==
  /\ Open_(h) => Hd(h).file_id \in FileId
  /\ Open_(h) /\ Opening(h) => Hd(h).writeable
  /\ Placed(h) =>
       /\ FileOf(Hd(h).curr_allocation_unit) = Hd(h).file_id
       /\ RootOf(Hd(h).root_allocation_unit, Hd(h).file_id)
       /\ Hd(h).writeable => Link(Hd(h).curr_allocation_unit) = None
Exclusive ==
  \A g, h \in HandleId :
    g # h /\ Open_(g) /\ Open_(h) /\ Hd(g).file_id = Hd(h).file_id => ~ Hd(h).writeable

\* What the running call knows: while it looks for the root of a file,
SearchInv ==
  pc = "find_file_root" =>
    /\ call.file \in FileId
    /\ call.op \in {"open", "protect", "unprotect", "remove"}
    /\ IF call.sector = None THEN Unused(call.file) ELSE FileOf(call.sector) = call.file
    /\ call.op = "open" /\ ~ call.mode.create =>
         IF call.mode.writeable THEN HandlesOn(call.file) = {} ELSE Writers(call.file) = {}
    /\ call.op \in {"protect", "unprotect"} => Writers(call.file) = {}
    /\ call.op = "remove" => HandlesOn(call.file) = {}

\* while open fills in a writer's handle,
OpenInv ==
  /\ pc = "find_last_allocation_unit" =>
       /\ call.op = "open"
       /\ FileOf(call.sector) = Cur.file_id
       /\ RootOf(Cur.root_allocation_unit, Cur.file_id)
  /\ pc = "allocate" /\ call.op = "open" =>
       Cur.root_allocation_unit = None /\ Unused(Cur.file_id)

\* while sectors are erased -- all of them, those of a file, or the root of a circular
\* file that goes on in it --,
EraseInv ==
  /\ call.op = "format" => Erasing /\ \A h \in HandleId : ~ Open_(h)
  /\ Erasing =>
       /\ call.op \in {"write", "remove", "format"}
       /\ call.op = "format" => \A s \in Sector : s < call.sector => FileOf(s) = None
       /\ call.op = "remove" => call.file \in FileId /\ HandlesOn(call.file) = {}
       /\ call.op = "write" => call.sector = Cur.root_allocation_unit /\ Cur.circular
  /\ pc = "erase_block" =>
       /\ call.op = "remove" => RootOf(call.sector, call.file)
       /\ call.op # "format" => call.next = Link(call.sector)
  /\ pc = "write_counter" =>
       /\ FileOf(call.sector) = None
       /\ call.op = "remove" /\ call.next # None => RootOf(call.next, call.file)
       /\ call.op = "write" =>
            /\ call.next # None => RootOf(call.next, Cur.file_id)
            /\ IF call.sector = Cur.curr_allocation_unit
                 THEN call.next = None
                 ELSE /\ FileOf(Cur.curr_allocation_unit) = Cur.file_id
                      /\ Link(Cur.curr_allocation_unit) = None

\* and while a sector is added to a file.
GrowInv ==
  /\ Growing =>
       /\ FileOf(call.sector) = Cur.file_id
       /\ Link(call.sector) = None
       /\ RootOf(Cur.root_allocation_unit, Cur.file_id)
       /\ call.op = "open" => pc = "write_file_info"
  /\ pc = "write_next" =>
       /\ FileOf(Cur.curr_allocation_unit) = Cur.file_id
       /\ Link(Cur.curr_allocation_unit) = call.sector

PathInv  == SearchInv /\ OpenInv /\ EraseInv /\ GrowInv
TableInv ==
  /\ MirrorInv /\ FreeInv /\ LinkInv
  /\ \A h \in HandleId : PlaceInv(h)
  /\ Exclusive /\ PathInv

\* Files and links are in range, and none of them is None.
LEMMA TableType ==
  ASSUME IInv
  PROVE  /\ Table \in [Sector -> Header]
         /\ \A s \in Sector : FileOf(s) \in Nil(FileId) /\ Link(s) \in Nil(Sector)
         /\ None \notin Sector /\ None \notin FileId
<1>1. Table \in [Sector -> Header]
  BY DEF IInv, TypeOK, Table
<1>2. None \notin Sector /\ None \notin FileId
  BY LayoutAssumption DEF None, FS_PRIV_NOT_ALLOCATED, Sector, FileId
<1> QED
  BY <1>1, <1>2 DEF FileOf, Link, Header

-----------------------------------------------------------------------------
(***************************************************************************)
(* Steps that leave the table alone.                                       *)
(***************************************************************************)

\* RAM and flash agree.
Settled == pc \notin {"unmounted", "write_counter", "write_next", "write_file_info"}

\* What the invariant says of a handle survives when it keeps its file and its sectors.
SameHandle(h) ==
  /\ Hd(h)'.file_id = Hd(h).file_id
  /\ Hd(h)'.writeable = Hd(h).writeable
  /\ Hd(h)'.root_allocation_unit = Hd(h).root_allocation_unit
  /\ Hd(h)'.curr_allocation_unit = Hd(h).curr_allocation_unit

\* Between steps at which flash and RAM agree the table stays what it was.
LEMMA SettledTable ==
  ASSUME TableInv, Settled, Settled', UNCHANGED <<header, alloc_unit_list>>,
         call.op # "format"
  PROVE  /\ Table' = Table
         /\ \A s : FileOf(s)' = FileOf(s) /\ Link(s)' = Link(s)
         /\ \A s : Headless(s)' = Headless(s)
         /\ \A s, f : RootOf(s, f)' = RootOf(s, f)
         /\ MirrorInv' /\ FreeInv' /\ LinkInv'
<1>1. Table' = Table /\ Table = alloc_unit_list
  BY DEF Table, Settled
<1>2. \A s : FileOf(s)' = FileOf(s) /\ Link(s)' = Link(s)
  BY <1>1 DEF FileOf, Link
<1>3. \A s : Headless(s)' = Headless(s)
  BY <1>2 DEF Headless
<1>4. \A s, f : RootOf(s, f)' = RootOf(s, f)
  BY <1>2, <1>3 DEF RootOf
<1>5. MirrorInv'
  BY DEF TableInv, MirrorInv, InFlash, Growing, Settled
<1>6. FreeInv'
  BY <1>1 DEF TableInv, FreeInv, FileOf
<1>7. LinkInv'
  BY <1>2 DEF TableInv, LinkInv
<1> QED
  BY <1>1, <1>2, <1>3, <1>4, <1>5, <1>6, <1>7

\* So does what is known of the handles, when none gets a new file or sector.
LEMMA HandlesStay ==
  ASSUME TableInv, Settled, Settled', UNCHANGED <<header, alloc_unit_list>>,
         call.op # "format",
         \A h \in HandleId : Open_(h)' => Open_(h) /\ SameHandle(h),
         \A h \in HandleId : Placed(h)' => Placed(h),
         \A h \in HandleId : Opening(h)' => Opening(h)
  PROVE  (\A h \in HandleId : PlaceInv(h))' /\ Exclusive'
<1>1. ASSUME NEW h \in HandleId PROVE PlaceInv(h)'
  <2>1. PlaceInv(h)
    BY DEF TableInv
  <2>2. Open_(h)' => Open_(h) /\ SameHandle(h)
    OBVIOUS
  <2>3. Placed(h)' => Placed(h) /\ Open_(h)'
    BY DEF Placed
  <2> QED
    BY <2>1, <2>2, <2>3, SettledTable DEF PlaceInv, SameHandle
<1>2. Exclusive'
  BY DEF TableInv, Exclusive, SameHandle
<1> QED
  BY <1>1, <1>2

\* A step of write, read, flush or close, and the return from any call.
LEMMA QuietStep ==
  ASSUME TableInv, Settled, UNCHANGED <<header, alloc_unit_list>>, call.op # "format",
         pc' \in {"idle", "allocate", "flush_page_cache", "update_session_offset",
                  "write", "write_page", "read"},
         call'.op # "format",
         pc' = "allocate" => call'.op # "open",
         \A h \in HandleId : Open_(h)' => Open_(h) /\ SameHandle(h),
         \A h \in HandleId : Placed(h)' => Placed(h),
         \A h \in HandleId : Opening(h)' => Opening(h)
  PROVE  TableInv'
<1>1. Settled'
  BY DEF Settled
<1>2. MirrorInv' /\ FreeInv' /\ LinkInv'
  BY <1>1, SettledTable
<1>3. (\A h \in HandleId : PlaceInv(h))' /\ Exclusive'
  BY <1>1, HandlesStay
<1>4. PathInv'
  BY DEF PathInv, SearchInv, OpenInv, EraseInv, GrowInv, Growing, Erasing
<1> QED
  BY <1>2, <1>3, <1>4 DEF TableInv

\* A step that moves a handle within its sector, or frees it.
LEMMA CursorMoves ==
  ASSUME IInv, NEW g \in HandleId, NEW hd, SetHandle(g, hd),
         \/ ~ hd.fs_priv
         \/ /\ Open_(g)
            /\ hd.file_id = Hd(g).file_id
            /\ hd.writeable = Hd(g).writeable
            /\ hd.root_allocation_unit = Hd(g).root_allocation_unit
            /\ hd.curr_allocation_unit = Hd(g).curr_allocation_unit
  PROVE  \A h \in HandleId : Open_(h)' => Open_(h) /\ SameHandle(h)
<1>1. fs_priv_handle_list \in [HandleId -> Handle]
  BY DEF IInv, TypeOK
<1>2. fs_priv_handle_list'[g] = hd
  BY <1>1 DEF SetHandle
<1>3. \A h \in HandleId : h # g => fs_priv_handle_list'[h] = fs_priv_handle_list[h]
  BY <1>1 DEF SetHandle
<1> QED
  BY <1>2, <1>3 DEF SameHandle, Hd, Open_

\* At the labels of a client's handle every open handle is on a sector.
LEMMA AllPlaced ==
  ASSUME IInv, pc \in {"idle", "find_file_root", "write", "flush_page_cache",
                       "update_session_offset", "write_page", "read"}
  PROVE  /\ \A h \in HandleId : ~ Opening(h) /\ ~ Moving(h) /\ (Open_(h) => Placed(h))
         /\ Settled
BY NoneOpening DEF Placed, Moving, Growing, Settled

\* Only format has erased the chip in any order.
LEMMA NotFormatting ==
  ASSUME TableInv, ~ Erasing
  PROVE  call.op # "format"
BY DEF TableInv, PathInv, EraseInv

\* A call that returns and leaves RAM and headers as they are.
LEMMA ReturnsAsItWas ==
  ASSUME IInv, TableInv, NEW code, Return(code), UNCHANGED <<header, ramVars>>,
         pc \in {"idle", "find_file_root", "write", "read"}
  PROVE  TableInv'
<1>1. /\ pc' = "idle" /\ call'.op = "none" /\ call'.handle = None
      /\ \A h \in HandleId : ~ Opening(h)'
  BY DEF Return, Goto, NoCall, Opening, None
<1>2. \A h \in HandleId : Open_(h)' => Open_(h) /\ SameHandle(h)
  BY DEF ramVars, Open_, SameHandle, Hd
<1>3. \A h \in HandleId : Placed(h)' => Placed(h)
  BY <1>2, AllPlaced DEF Placed
<1>4. call.op # "format"
  BY NotFormatting DEF Erasing
<1> QED
  BY <1>1, <1>2, <1>3, <1>4, AllPlaced, QuietStep DEF ramVars

\* A call that goes on, at a handle or at its next step.
LEMMA GoesOnAsItWas ==
  ASSUME IInv, TableInv, UNCHANGED <<header, ramVars>>,
         pc \in {"idle", "write", "flush_page_cache", "update_session_offset"},
         pc' \in {"allocate", "flush_page_cache", "write", "read"},
         call'.op \in {"close", "flush", "write", "read"}
  PROVE  TableInv'
<1>1. \A h \in HandleId : Open_(h)' => Open_(h) /\ SameHandle(h)
  BY DEF ramVars, Open_, SameHandle, Hd
<1>2. \A h \in HandleId : Placed(h)' => Placed(h)
  BY <1>1, AllPlaced DEF Placed
<1>3. call.op # "format"
  BY NotFormatting DEF Erasing
<1>4. \A h \in HandleId : ~ Opening(h)'
  BY DEF Opening
<1> QED
  BY <1>1, <1>2, <1>3, <1>4, AllPlaced, QuietStep DEF ramVars

\* The calls on handles, and the steps of write and read that only decide.
LEMMA HandleCallsTable ==
  ASSUME IInv, TableInv, NEW h \in HandleId,
         \/ Flush(h) \/ InvalidHandle(h)
         \/ \E n \in WriteSizes : Write(h, n)
         \/ \E n \in ReadSizes : Read(h, n)
  PROVE  TableInv'
<1>1. UNCHANGED <<header, ramVars>> /\ pc = "idle"
  BY DEF Flush, InvalidHandle, Write, Read, flashVars
<1>2. \/ \E code : Return(code)
      \/ \E n : \E op \in {"flush", "write", "read"} :
           \E label \in {"flush_page_cache", "write", "read"} :
             BeginOnHandle(op, h, label, n)
  BY DEF Flush, InvalidHandle, Write, Read
<1>3. CASE \E code : Return(code)
  BY <1>1, <1>3, ReturnsAsItWas
<1>4. CASE \E n : \E op \in {"flush", "write", "read"} :
             \E label \in {"flush_page_cache", "write", "read"} :
               BeginOnHandle(op, h, label, n)
  BY <1>1, <1>4, GoesOnAsItWas DEF BeginOnHandle, Goto, NoCall
<1> QED
  BY <1>2, <1>3, <1>4

\* write and read that return, and write that turns to a new sector, decide on what they know.
LEMMA DecisionsTable ==
  ASSUME IInv, TableInv, WriteDone \/ ReadDone \/ WriteToFullSector
  PROVE  TableInv'
<1>1. CASE WriteDone \/ ReadDone
  BY <1>1, ReturnsAsItWas DEF WriteDone, ReadDone, flashVars
<1>2. CASE WriteToFullSector
  BY <1>2, GoesOnAsItWas DEF WriteToFullSector, Goto, flashVars, IInv, CallInv
<1> QED
  BY <1>1, <1>2

\* The errors of open, remove and the protection calls.
LEMMA RefusalTable ==
  ASSUME IInv, TableInv, FileMissing \/ OpenRefused \/ RemoveRefused
  PROVE  TableInv'
<1>1. pc = "find_file_root" /\ UNCHANGED <<header, ramVars>>
  BY DEF FileMissing, OpenRefused, RemoveRefused, AtRoot, flashVars
<1>2. \E code : Return(code)
  BY DEF FileMissing, OpenRefused, RemoveRefused
<1> QED
  BY <1>1, <1>2, ReturnsAsItWas

-----------------------------------------------------------------------------
(***************************************************************************)
(* Steps that move a handle's offsets or free it.                          *)
(***************************************************************************)

\* The handle the running call works on.
LEMMA CurHandle ==
  ASSUME IInv, OnHandle
  PROVE  call.handle \in HandleId /\ Open_(call.handle) /\ Cur \in Handle
         /\ Cur = Hd(call.handle) /\ Cur.fs_priv
BY DEF IInv, TypeOK, CallInv, Cur, Hd, Open_

\* A step that moves the offsets of the running call's handle, or frees it, and that
\* goes on in the same call or returns from it.
LEMMA OffsetsMove ==
  ASSUME IInv, TableInv, UNCHANGED <<header, alloc_unit_list>>,
         pc \in {"write", "flush_page_cache", "update_session_offset", "write_page", "read"},
         pc' \in {"idle", "allocate", "update_session_offset", "write", "write_page", "read"},
         call'.op = call.op \/ call' = NoCall,
         NEW hd, SetHandle(call.handle, hd),
         \/ hd = FreeHandle
         \/ /\ hd.file_id = Cur.file_id
            /\ hd.writeable = Cur.writeable
            /\ hd.root_allocation_unit = Cur.root_allocation_unit
            /\ hd.curr_allocation_unit = Cur.curr_allocation_unit
  PROVE  TableInv'
<1>1. OnHandle /\ call.op \in {"close", "flush", "write", "read"}
  BY DEF OnHandle, IInv, CallInv
<1>2. PICK g \in HandleId : g = call.handle /\ Open_(g) /\ Cur = Hd(g)
  BY <1>1, CurHandle
<1>3. \A h \in HandleId : Open_(h)' => Open_(h) /\ SameHandle(h)
  BY <1>2, CursorMoves DEF FreeHandle
<1>4. \A h \in HandleId : Placed(h)' => Placed(h)
  BY <1>3, AllPlaced DEF Placed
<1>5. call.op # "format" /\ call'.op \notin {"format", "open"}
  BY <1>1 DEF NoCall
<1>6. \A h \in HandleId : ~ Opening(h)'
  BY <1>5 DEF Opening
<1> QED
  BY <1>3, <1>4, <1>5, <1>6, AllPlaced, QuietStep

\* flush_handle moves the offsets of its handle, and close gives the handle back after it.
LEMMA FlushTable ==
  ASSUME IInv, TableInv, FlushPageCache \/ UpdateSessionOffset
  PROVE  TableInv'
<1>1. Cur \in Handle
  BY CurHandle DEF FlushPageCache, UpdateSessionOffset, OnHandle
<1>2. CASE FlushPageCache
  BY <1>1, <1>2, OffsetsMove DEF FlushPageCache, Handle
<1>3. CASE UpdateSessionOffset
  BY <1>1, <1>3, OffsetsMove
  DEF UpdateSessionOffset, UpdatedHandle, Return, Goto, Handle
<1> QED
  BY <1>2, <1>3

\* A round of write moves the offsets of its handle within the sector.
LEMMA WriteTable ==
  ASSUME IInv, TableInv, FillCache \/ WritePage
  PROVE  TableInv'
<1>1. Cur \in Handle /\ call \in Call
  BY CurHandle DEF FillCache, WritePage, OnHandle, IInv, TypeOK
<1>2. \E hd : /\ SetHandle(call.handle, hd)
             /\ hd.file_id = Cur.file_id
             /\ hd.writeable = Cur.writeable
             /\ hd.root_allocation_unit = Cur.root_allocation_unit
             /\ hd.curr_allocation_unit = Cur.curr_allocation_unit
  <2>1. \E base, cached, n : /\ Accept(base, cached, n)
                            /\ \E last : base = [Cur EXCEPT !.last_data_offset = last]
    <3>1. CASE FillCache
      <4>1. Cur = [Cur EXCEPT !.last_data_offset = Cur.last_data_offset]
        BY <1>1 DEF Handle
      <4> QED
        BY <3>1, <4>1 DEF FillCache
    <3>2. CASE WritePage
      BY <3>2 DEF WritePage
    <3> QED
      BY <3>1, <3>2
  <2>2. PICK base, cached, n, last :
          Accept(base, cached, n) /\ base = [Cur EXCEPT !.last_data_offset = last]
    BY <2>1
  <2> DEFINE hd == [base EXCEPT !.page_cache = Filled(base.page_cache, cached, n, base.file_id),
                                !.curr_data_offset = @ + n]
  <2>3. SetHandle(call.handle, hd)
    BY <2>2 DEF Accept
  <2>4. /\ hd.file_id = Cur.file_id
        /\ hd.writeable = Cur.writeable
        /\ hd.root_allocation_unit = Cur.root_allocation_unit
        /\ hd.curr_allocation_unit = Cur.curr_allocation_unit
    BY <1>1, <2>2 DEF Handle
  <2> QED
    BY <2>3, <2>4
<1>3. /\ UNCHANGED <<header, alloc_unit_list>>
      /\ pc \in {"write", "write_page"} /\ pc' \in {"write", "write_page"}
      /\ call'.op = call.op
  BY <1>1 DEF FillCache, WritePage, Goto, flashVars, Call
<1> QED
  BY <1>2, <1>3, OffsetsMove

\* So does a round of read.
LEMMA ReadBytesTable ==
  ASSUME IInv, TableInv, ReadBytes
  PROVE  TableInv'
<1>1. Cur \in Handle /\ call \in Call
  BY CurHandle DEF ReadBytes, OnHandle, IInv, TypeOK
<1> QED
  BY <1>1, OffsetsMove DEF ReadBytes, flashVars, Handle, Call

\* close gives the handle back at once, or after a flush.
LEMMA CloseTable ==
  ASSUME IInv, TableInv, NEW h \in HandleId, Close(h)
  PROVE  TableInv'
<1>1. UNCHANGED <<header, alloc_unit_list>> /\ pc = "idle" /\ call.op # "format"
  BY NotFormatting DEF Close, flashVars, Erasing
<1>2. CASE SetHandle(h, FreeHandle) /\ Return("FS_NO_ERROR")
  <2>1. \A g \in HandleId : Open_(g)' => Open_(g) /\ SameHandle(g)
    BY <1>2, CursorMoves DEF FreeHandle
  <2>2. \A g \in HandleId : Placed(g)' => Placed(g)
    BY <1>1, <2>1, AllPlaced DEF Placed
  <2>3. pc' = "idle" /\ call'.op = "none"
    BY <1>2 DEF Return, Goto, NoCall
  <2> QED
    BY <1>1, <2>1, <2>2, <2>3, AllPlaced, QuietStep DEF Opening
<1>3. CASE /\ BeginOnHandle("close", h, "flush_page_cache", 0)
           /\ UNCHANGED fs_priv_handle_list
  BY <1>1, <1>3, GoesOnAsItWas DEF BeginOnHandle, Goto, NoCall, ramVars
<1> QED
  BY <1>2, <1>3 DEF Close

\* open gives its handle back when there is no sector for the file; write keeps it.
LEMMA AllocateFailsTable ==
  ASSUME IInv, TableInv, AllocateFails
  PROVE  TableInv'
<1>1. /\ UNCHANGED <<header, alloc_unit_list>> /\ pc = "allocate" /\ call.op # "format"
      /\ pc' = "idle" /\ call'.op = "none"
  BY NotFormatting DEF AllocateFails, flashVars, Erasing, Return, Goto, NoCall
<1>2. PICK g \in HandleId : g = call.handle
  BY <1>1, CurHandle DEF OnHandle
<1>3. \A h \in HandleId : Open_(h)' => Open_(h) /\ SameHandle(h) /\ ~ Opening(h)
  <2>1. CASE call.op = "open"
    <3>1. SetHandle(g, FreeHandle)
      BY <1>2, <2>1 DEF AllocateFails
    <3>2. \A h \in HandleId : Open_(h)' => Open_(h) /\ SameHandle(h)
      BY <3>1, CursorMoves DEF FreeHandle
    <3>3. ~ Open_(g)'
      BY <3>1 DEF SetHandle, Open_, FreeHandle, IInv, TypeOK
    <3> QED
      BY <1>2, <3>2, <3>3 DEF Opening
  <2>2. CASE call.op # "open"
    BY <2>2 DEF AllocateFails, Open_, SameHandle, Hd, Opening
  <2> QED
    BY <2>1, <2>2
<1>4. \A h \in HandleId : Placed(h)' => Placed(h)
  BY <1>1, <1>3 DEF Placed, Moving, Growing
<1> QED
  BY <1>1, <1>3, <1>4, QuietStep DEF Opening, Settled

-----------------------------------------------------------------------------
(***************************************************************************)
(* The search for the root, and what follows from it.                      *)
(***************************************************************************)

\* find_file_root finds a sector of the file, if it has one.
LEMMA CandidateFound ==
  ASSUME NEW list, NEW f \in FileId
  PROVE  IF candidate_root(list, f) = None
           THEN \A s \in Sector : list[s].file_id # f
           ELSE candidate_root(list, f) \in sectors_of(list, f)
<1>1. sectors_of(list, f) \in SUBSET Sector /\ Sector \subseteq Nat /\ None \notin Sector
  BY LayoutAssumption DEF sectors_of, Sector, None, FS_PRIV_NOT_ALLOCATED
<1>2. f # None
  BY LayoutAssumption DEF FileId, None, FS_PRIV_NOT_ALLOCATED
<1>3. CASE sectors_of(list, f) = {}
  BY <1>3 DEF candidate_root, None, sectors_of
<1>4. CASE sectors_of(list, f) # {}
  <2>1. Min(sectors_of(list, f)) \in sectors_of(list, f)
    BY <1>1, <1>4, MinIsLeast
  <2> QED
    BY <1>1, <1>2, <1>4, <2>1 DEF candidate_root, None
<1> QED
  BY <1>3, <1>4

\* The parent it climbs to is a sector of the file that links to the one it is at.
LEMMA ParentFound ==
  ASSUME NEW list, NEW f, NEW s
  PROVE  IF parent(list, f, s) = None
           THEN \A p \in sectors_of(list, f) : list[p].next_allocation_unit # s
           ELSE parent(list, f, s) \in parents(list, f, s)
<1>1. /\ parents(list, f, s) \in SUBSET Sector /\ Sector \subseteq Nat
      /\ None \notin Sector /\ FS_PRIV_MAX_SECTORS - 1 \in Nat
  BY LayoutAssumption DEF parents, sectors_of, Sector, None, FS_PRIV_NOT_ALLOCATED
<1>2. CASE parents(list, f, s) = {}
  BY <1>2 DEF parents, parent, None
<1>3. CASE parents(list, f, s) # {}
  <2>1. Max(parents(list, f, s)) \in parents(list, f, s)
    BY <1>1, <1>3, MaxIsGreatest DEF Sector
  <2> QED
    BY <1>1, <1>3, <2>1 DEF parent
<1> QED
  BY <1>2, <1>3

\* Where the search ends there is a root, or no such file.
LEMMA RootReached ==
  ASSUME IInv, TableInv, NEW op, AtRoot(op)
  PROVE  /\ call.file \in FileId
         /\ IF call.sector = None THEN Unused(call.file) ELSE RootOf(call.sector, call.file)
<1>1. /\ pc = "find_file_root" /\ call.file \in FileId /\ call.op # "format"
      /\ IF call.sector = None THEN Unused(call.file) ELSE FileOf(call.sector) = call.file
  BY NotFormatting DEF AtRoot, TableInv, PathInv, SearchInv, Erasing
<1>2. call.sector \in Nil(Sector)
  BY DEF IInv, TypeOK, Call
<1>3. ASSUME call.sector # None PROVE Headless(call.sector)
  <2>1. \A p \in sectors_of(alloc_unit_list, call.file) :
          alloc_unit_list[p].next_allocation_unit # call.sector
    BY <1>3, ParentFound DEF AtRoot, None
  <2>2. \A p \in Sector : FileOf(p) = call.file => Link(p) # call.sector
    BY <1>1, <2>1 DEF sectors_of, FileOf, Link, Table
  <2>3. \A p \in Sector : Link(p) = call.sector => FileOf(p) = call.file
    BY <1>1, <1>3 DEF TableInv, LinkInv
  <2> QED
    BY <2>2, <2>3 DEF Headless
<1> QED
  BY <1>1, <1>2, <1>3 DEF RootOf, Nil, None

\* open, protect, unprotect and remove begin at rest, all with the handles as they are.
LEMMA SearchBegins ==
  ASSUME IInv, TableInv, NEW op \in {"open", "protect", "unprotect", "remove"},
         NEW f \in FileId, NEW m, BeginOnFile(op, f, m),
         op = "open" /\ ~ m.create =>
           IF m.writeable THEN HandlesOn(f) = {} ELSE Writers(f) = {},
         op \in {"protect", "unprotect"} => Writers(f) = {},
         op = "remove" => HandlesOn(f) = {}
  PROVE  TableInv'
<1>1. /\ pc = "idle" /\ pc' = "find_file_root" /\ UNCHANGED <<header, ramVars>>
      /\ call'.op = op /\ call'.file = f /\ call'.mode = m
      /\ call'.handle = None /\ call'.sector = candidate_root(alloc_unit_list, f)
  BY DEF BeginOnFile, Goto, NoCall, flashVars, None
<1>2. Settled /\ Settled' /\ call.op # "format" /\ UNCHANGED <<header, alloc_unit_list>>
  BY <1>1, NotFormatting DEF Settled, Erasing, ramVars
<1>3. \A h \in HandleId : ~ Opening(h)'
  BY <1>1, HandleIdIsNatural DEF Opening, None
<1>4. \A h \in HandleId : Open_(h)' = Open_(h) /\ SameHandle(h)
  BY <1>1 DEF ramVars, Open_, SameHandle, Hd
<1>5. \A h \in HandleId : Placed(h)' => Placed(h)
  BY <1>1, <1>4, AllPlaced DEF Placed
<1>6. (\A h \in HandleId : PlaceInv(h))' /\ Exclusive'
  BY <1>2, <1>3, <1>4, <1>5, HandlesStay
<1>7. SearchInv'
  <2>1. IF call'.sector = None THEN Unused(f)' ELSE (FileOf(call.sector))' = f
    <3>1. \A s : FileOf(s)' = alloc_unit_list[s].file_id
      BY <1>1, <1>2 DEF FileOf, Table, Settled
    <3>2. CASE call'.sector = None
      BY <1>1, <3>1, <3>2, CandidateFound DEF Unused
    <3>3. CASE call'.sector # None
      <4>1. call'.sector \in sectors_of(alloc_unit_list, f)
        BY <1>1, <3>3, CandidateFound
      <4>2. alloc_unit_list[call'.sector].file_id = f
        BY <4>1 DEF sectors_of
      <4>3. (FileOf(call.sector))' = alloc_unit_list'[call'.sector].file_id
        BY <1>1 DEF FileOf, Table
      <4> QED
        BY <1>2, <3>3, <4>2, <4>3
    <3> QED
      BY <3>2, <3>3
  <2>2. HandlesOn(f)' = HandlesOn(f) /\ Writers(f)' = Writers(f)
    BY <1>1 DEF ramVars, HandlesOn, Writers, Open_
  <2> QED
    BY <1>1, <2>1, <2>2 DEF SearchInv
<1>8. OpenInv' /\ EraseInv' /\ GrowInv'
  BY <1>1 DEF OpenInv, EraseInv, GrowInv, Growing, Erasing
<1> QED
  BY <1>2, <1>6, <1>7, <1>8, SettledTable DEF TableInv, PathInv

\* Orderly clients open a file in one of the two ways, and leave open files alone.
LEMMA FileCallsTable ==
  ASSUME IInv, TableInv, Liberties = {}, NEW f \in FileId,
         \/ Remove(f) \/ Protect(f) \/ Unprotect(f)
         \/ \E m \in Mode : Open(f, m)
  PROVE  TableInv'
BY SearchBegins DEF Remove, Protect, Unprotect, ChangeProtection, Open

\* format begins with the first sector and no handle open.
LEMMA FormatTable ==
  ASSUME IInv, TableInv, Liberties = {}, Format
  PROVE  TableInv'
<1>1. /\ pc = "idle" /\ pc' = "erase_block" /\ UNCHANGED <<header, ramVars>>
      /\ call'.op = "format" /\ call'.sector = 0 /\ call'.handle = None
      /\ \A h \in HandleId : ~ Open_(h)
  BY DEF Format, Goto, NoCall, flashVars, None
<1>2. Settled /\ Settled' /\ call.op # "format" /\ UNCHANGED <<header, alloc_unit_list>>
  BY <1>1, NotFormatting DEF Settled, Erasing, ramVars
<1>3. \A h \in HandleId : ~ Open_(h)'
  BY <1>1 DEF ramVars, Open_
<1>4. (\A h \in HandleId : PlaceInv(h))' /\ Exclusive'
  BY <1>3 DEF PlaceInv, Exclusive, Placed
<1>5. \A s \in Sector : ~ (s < 0)
  BY LayoutAssumption DEF Sector
<1>6. PathInv'
  BY <1>1, <1>3, <1>5 DEF PathInv, SearchInv, OpenInv, EraseInv, GrowInv, Growing, Erasing
<1> QED
  BY <1>2, <1>4, <1>6, SettledTable DEF TableInv

\* A round of the search for the root.
LEMMA ClimbTable ==
  ASSUME IInv, TableInv, ClimbToRoot
  PROVE  TableInv'
<1> DEFINE up == parent(alloc_unit_list, call.file, call.sector)
<1>1. /\ pc = "find_file_root" /\ pc' = "find_file_root" /\ UNCHANGED <<header, ramVars>>
      /\ up # None /\ call' = [call EXCEPT !.sector = up]
  BY DEF ClimbToRoot, flashVars, None
<1>2. call \in Call /\ call.sector # None
  BY DEF IInv, TypeOK, ClimbToRoot, None
<1>3. /\ call'.op = call.op /\ call'.file = call.file /\ call'.mode = call.mode
      /\ call'.handle = call.handle /\ call'.sector = up
  BY <1>1, <1>2 DEF Call
<1>4. up \in sectors_of(alloc_unit_list, call.file)
  BY <1>1, ParentFound DEF parents
<1> HIDE DEF up
<1>5. Settled /\ Settled' /\ call.op # "format" /\ UNCHANGED <<header, alloc_unit_list>>
  BY <1>1, NotFormatting DEF Settled, Erasing, ramVars
<1>6. \A h \in HandleId : /\ Open_(h)' = Open_(h) /\ SameHandle(h)
                          /\ Opening(h)' = Opening(h)
                          /\ Placed(h)' = Placed(h)
  BY <1>1, <1>3 DEF ramVars, Open_, SameHandle, Hd, Opening, Placed, Moving, Growing
<1>7. (\A h \in HandleId : PlaceInv(h))' /\ Exclusive'
  BY <1>5, <1>6, HandlesStay
<1>8. SearchInv'
  <2>1. SearchInv
    BY DEF TableInv, PathInv
  <2>2. (FileOf(call.sector))' = call.file
    BY <1>1, <1>3, <1>4, <1>5 DEF FileOf, Table, Settled, sectors_of
  <2>3. HandlesOn(call.file)' = HandlesOn(call.file) /\ Writers(call.file)' = Writers(call.file)
    BY <1>1, <1>3 DEF ramVars, HandlesOn, Writers, Open_
  <2> QED
    BY <1>1, <1>2, <1>3, <2>1, <2>2, <2>3 DEF SearchInv
<1>9. OpenInv' /\ EraseInv' /\ GrowInv'
  BY <1>1, <1>3, <1>5 DEF OpenInv, EraseInv, GrowInv, Growing, Erasing
<1> QED
  BY <1>5, <1>7, <1>8, <1>9, SettledTable DEF TableInv, PathInv

\* remove begins to erase at the root, with the link it saved.
LEMMA RemoveRootTable ==
  ASSUME IInv, TableInv, RemoveRoot
  PROVE  TableInv'
<1>1. /\ pc = "find_file_root" /\ pc' = "erase_block" /\ UNCHANGED <<header, ramVars>>
      /\ call.op = "remove" /\ AtRoot("remove") /\ call.sector # None
      /\ call' = [call EXCEPT !.sector = call.sector,
                    !.next = alloc_unit_list[call.sector].next_allocation_unit]
  BY DEF RemoveRoot, AtRoot, EraseNext, Goto, flashVars, None
<1>2. call \in Call
  BY DEF IInv, TypeOK
<1>3. /\ call'.op = "remove" /\ call'.file = call.file /\ call'.handle = call.handle
      /\ call'.sector = call.sector
      /\ call'.next = alloc_unit_list[call.sector].next_allocation_unit
  BY <1>1, <1>2 DEF Call
<1>4. Settled /\ Settled' /\ call.op # "format" /\ UNCHANGED <<header, alloc_unit_list>>
  BY <1>1 DEF Settled, ramVars
<1>5. \A h \in HandleId : /\ Open_(h)' = Open_(h) /\ SameHandle(h)
                          /\ Opening(h)' = Opening(h)
                          /\ Placed(h)' = Placed(h)
  BY <1>1, <1>3 DEF ramVars, Open_, SameHandle, Hd, Opening, Placed, Moving, Growing
<1>6. (\A h \in HandleId : PlaceInv(h))' /\ Exclusive'
  BY <1>4, <1>5, HandlesStay
<1>7. EraseInv'
  <2>1. RootOf(call.sector, call.file) /\ call.file \in FileId
    BY <1>1, RootReached
  <2>2. HandlesOn(call.file) = {}
    BY <1>1 DEF TableInv, PathInv, SearchInv
  <2>3. (RootOf(call.sector, call.file))' /\ HandlesOn(call.file)' = {}
    <3>1. RootOf(call.sector, call.file)' = RootOf(call.sector, call.file)
      BY <1>1, <1>3, <1>4, <2>1, SettledTable DEF RootOf, FileOf, Link, Headless
    <3> QED
      BY <1>1, <1>3, <2>1, <2>2, <3>1 DEF HandlesOn, Open_, ramVars
  <2>4. (Link(call.sector))' = call'.next
    BY <1>1, <1>3, <1>4 DEF Link, Table, Settled
  <2> QED
    BY <1>1, <1>3, <2>1, <2>3, <2>4 DEF EraseInv, Erasing
<1>8. SearchInv' /\ OpenInv' /\ GrowInv'
  BY <1>1 DEF SearchInv, OpenInv, GrowInv, Growing
<1> QED
  BY <1>4, <1>6, <1>7, <1>8, SettledTable DEF TableInv, PathInv

\* A circular file gives up its root only in write: a file that open creates has none.
LEMMA RecycleRootTable ==
  ASSUME IInv, TableInv, RecycleRoot
  PROVE  TableInv'
<1> DEFINE root == Cur.root_allocation_unit
<1>1. /\ pc = "allocate" /\ pc' = "erase_block" /\ UNCHANGED <<header, ramVars>>
      /\ root # None /\ Cur.circular
      /\ call' = [call EXCEPT !.sector = root,
                    !.next = alloc_unit_list[root].next_allocation_unit]
  BY DEF RecycleRoot, CanRecycle, Goto, flashVars, None
<1>2. /\ call \in Call /\ call.op = "write" /\ OnHandle
      /\ call.handle \in HandleId /\ Open_(call.handle) /\ Cur = Hd(call.handle)
  BY <1>1, CurHandle
  DEF IInv, TypeOK, CallInv, OnHandle, TableInv, PathInv, OpenInv
<1>3. /\ call'.op = "write" /\ call'.handle = call.handle /\ call'.sector = root
      /\ call'.next = alloc_unit_list[root].next_allocation_unit
      /\ Cur' = Cur
  BY <1>1, <1>2 DEF Call, Cur, ramVars
<1>4. Settled /\ Settled' /\ call.op # "format" /\ UNCHANGED <<header, alloc_unit_list>>
  BY <1>1, <1>2 DEF Settled, ramVars
<1>5. \A h \in HandleId : /\ Open_(h)' = Open_(h) /\ SameHandle(h)
                          /\ Opening(h)' = Opening(h)
                          /\ Placed(h)' = Placed(h)
  BY <1>1, <1>2, <1>3 DEF ramVars, Open_, SameHandle, Hd, Opening, Placed, Moving, Growing
<1>6. (\A h \in HandleId : PlaceInv(h))' /\ Exclusive'
  BY <1>4, <1>5, HandlesStay
<1>7. (Link(call.sector))' = call'.next
  BY <1>1, <1>3, <1>4 DEF Link, Table, Settled
<1>8. PathInv'
  BY <1>1, <1>3, <1>7 DEF PathInv, SearchInv, OpenInv, EraseInv, GrowInv, Growing, Erasing
<1> QED
  BY <1>4, <1>6, <1>8, SettledTable DEF TableInv

\* The walk to the end of a file stays in the file.
LEMMA FollowChainTable ==
  ASSUME IInv, TableInv, FollowChain
  PROVE  TableInv'
<1> DEFINE next == alloc_unit_list[call.sector].next_allocation_unit
<1>1. /\ pc = "find_last_allocation_unit" /\ pc' = pc /\ UNCHANGED <<header, ramVars>>
      /\ next # None /\ call' = [call EXCEPT !.sector = next]
  BY DEF FollowChain, is_last_allocation_unit, flashVars, None
<1>2. /\ call \in Call /\ call.op = "open" /\ call.sector \in Sector
      /\ FileOf(call.sector) = Cur.file_id
      /\ RootOf(Cur.root_allocation_unit, Cur.file_id)
  BY <1>1 DEF IInv, TypeOK, CallInv, TableInv, PathInv, OpenInv
<1>3. /\ call'.op = call.op /\ call'.handle = call.handle /\ call'.sector = next
      /\ Cur' = Cur
  BY <1>1, <1>2 DEF Call, Cur, ramVars
<1>4. Settled /\ Settled' /\ call.op # "format" /\ UNCHANGED <<header, alloc_unit_list>>
  BY <1>1, <1>2 DEF Settled, ramVars
<1>5. \A h \in HandleId : /\ Open_(h)' = Open_(h) /\ SameHandle(h)
                          /\ Opening(h)' = Opening(h)
                          /\ Placed(h)' = Placed(h)
  BY <1>1, <1>3 DEF ramVars, Open_, SameHandle, Hd, Opening, Placed, Moving, Growing
<1>6. (\A h \in HandleId : PlaceInv(h))' /\ Exclusive'
  BY <1>4, <1>5, HandlesStay
<1>7. (FileOf(call.sector))' = Cur'.file_id
  <2>1. next = Link(call.sector)
    BY <1>4 DEF Link, Table, Settled
  <2>2. FileOf(next) = FileOf(call.sector)
    BY <1>1, <1>2, <1>4, <2>1 DEF TableInv, LinkInv
  <2> QED
    BY <1>2, <1>3, <1>4, <2>2 DEF FileOf, Table, Settled
<1>8. (RootOf(Cur.root_allocation_unit, Cur.file_id))'
  BY <1>2, <1>3, <1>4, SettledTable DEF RootOf, FileOf, Link, Headless
<1>9. PathInv'
  BY <1>1, <1>2, <1>3, <1>7, <1>8
  DEF PathInv, SearchInv, OpenInv, EraseInv, GrowInv, Growing, Erasing
<1> QED
  BY <1>4, <1>6, <1>9, SettledTable DEF TableInv

-----------------------------------------------------------------------------
(***************************************************************************)
(* Steps that give a handle a new sector.                                  *)
(***************************************************************************)

\* A handle that gets a place gets one of its file, and a writer its file to itself; the
\* others keep theirs.
LEMMA OneHandlePlaced ==
  ASSUME IInv, TableInv, Settled, Settled', UNCHANGED <<header, alloc_unit_list>>,
         call.op # "format", NEW g \in HandleId, NEW hd, SetHandle(g, hd),
         \A h \in HandleId : h # g => (Placed(h)' => Placed(h)),
         \A h \in HandleId : h # g => (Opening(h)' => Opening(h)),
         hd.file_id \in FileId,
         Opening(g)' => hd.writeable,
         ~ Opening(g)' =>
           /\ FileOf(hd.curr_allocation_unit) = hd.file_id
           /\ RootOf(hd.root_allocation_unit, hd.file_id)
           /\ hd.writeable => Link(hd.curr_allocation_unit) = None,
         \A h \in HandleId : h # g /\ Open_(h) /\ Hd(h).file_id = hd.file_id =>
           ~ Hd(h).writeable /\ ~ hd.writeable
  PROVE  (\A h \in HandleId : PlaceInv(h))' /\ Exclusive'
<1>1. fs_priv_handle_list'[g] = hd
  BY DEF SetHandle, IInv, TypeOK
<1>2. \A h \in HandleId : h # g => fs_priv_handle_list'[h] = fs_priv_handle_list[h]
  BY DEF SetHandle, IInv, TypeOK
<1>3. /\ \A s : FileOf(s)' = FileOf(s) /\ Link(s)' = Link(s)
      /\ \A s, f : RootOf(s, f)' = RootOf(s, f)
  BY SettledTable
<1>4. ASSUME NEW h \in HandleId PROVE PlaceInv(h)'
  <2>1. CASE h = g
    BY <1>1, <1>3, <2>1 DEF PlaceInv, Hd, Placed
  <2>2. CASE h # g
    <3>1. PlaceInv(h) /\ Hd(h)' = Hd(h) /\ Open_(h)' = Open_(h)
      BY <1>2, <2>2 DEF TableInv, Hd, Open_
    <3>2. (Placed(h)' => Placed(h)) /\ (Opening(h)' => Opening(h))
      BY <2>2
    <3> QED
      BY <1>3, <3>1, <3>2 DEF PlaceInv
  <2> QED
    BY <2>1, <2>2
<1>5. Exclusive'
  BY <1>1, <1>2 DEF TableInv, Exclusive, Hd, Open_
<1> QED
  BY <1>4, <1>5

\* What open knows of the file's other handles once it is accepted: beside a reader there
\* are only readers, beside a writer there is none.
LEMMA FileIsFree ==
  ASSUME IInv, TableInv, OpenAccepted
  PROVE  /\ call.file \in FileId
         /\ \A h \in HandleId : Open_(h) /\ Hd(h).file_id = call.file =>
              ~ Hd(h).writeable /\ ~ call.mode.writeable
<1>1. /\ AtRoot("open") /\ pc = "find_file_root" /\ call.op = "open" /\ SearchInv
      /\ call.file \in FileId
  BY DEF OpenAccepted, AtRoot, TableInv, PathInv, SearchInv
<1>2. CASE call.sector # None
  <2>1. ~ call.mode.create
    BY <1>2 DEF OpenAccepted, check_file_flags, None
  <2> QED
    BY <1>1, <2>1 DEF SearchInv, HandlesOn, Writers, Hd
<1>3. CASE call.sector = None
  <2>1. Unused(call.file)
    BY <1>1, <1>3, RootReached
  <2>2. ASSUME NEW h \in HandleId, Open_(h) PROVE Hd(h).file_id # call.file
    <3>1. ~ Opening(h) /\ Placed(h)
      BY <1>1, <2>2, AllPlaced
    <3>2. Hd(h).curr_allocation_unit \in Sector
      BY <2>2, <3>1 DEF IInv, HandleInv, Hd
    <3>3. FileOf(Hd(h).curr_allocation_unit) = Hd(h).file_id
      BY <3>1 DEF TableInv, PlaceInv
    <3> QED
      BY <2>1, <3>2, <3>3 DEF Unused
  <2> QED
    BY <1>1, <2>2
<1> QED
  BY <1>1, <1>2, <1>3

\* The handle open takes was free, so no other changes.
LEMMA OpenTakesFree ==
  ASSUME IInv, TableInv, OpenAccepted
  PROVE  /\ pc = "find_file_root" /\ call.op = "open" /\ Settled
         /\ Min(FreeHandles) \in HandleId /\ ~ Open_(Min(FreeHandles))
         /\ OpenedHandle \in Handle
         /\ OpenedHandle.file_id = call.file
         /\ OpenedHandle.root_allocation_unit = call.sector
         /\ OpenedHandle.writeable = call.mode.writeable
         /\ call.mode.writeable \in BOOLEAN
         /\ \A h \in HandleId : ~ Opening(h) /\ ~ Moving(h) /\ (Open_(h) => Placed(h))
<1>1. pc = "find_file_root" /\ call.op = "open"
  BY DEF OpenAccepted, AtRoot
<1>2. OpenedHandle.file_id = call.file /\ OpenedHandle.root_allocation_unit = call.sector
  BY DEF OpenedHandle, FreeHandle
<1> QED
  BY <1>1, <1>2, OpenedHandleType, AllPlaced

\* A reader is placed on the root of its file.
LEMMA OpenForReadingTable ==
  ASSUME IInv, TableInv, OpenForReading
  PROVE  TableInv'
<1>1. OpenAccepted /\ AtRoot("open") /\ call.sector # None /\ ~ call.mode.writeable
  BY DEF OpenForReading, OpenAccepted, None
<1>2. PICK g \in HandleId : g = Min(FreeHandles) /\ ~ Open_(g)
  BY <1>1, OpenTakesFree
<1> DEFINE hd == [OpenedHandle EXCEPT
                    !.curr_allocation_unit = call.sector,
                    !.last_data_offset = session_end(session[call.sector])]
<1>3. /\ hd.file_id = call.file /\ ~ hd.writeable
      /\ hd.root_allocation_unit = call.sector /\ hd.curr_allocation_unit = call.sector
  BY <1>1, OpenTakesFree DEF Handle
<1>4. SetHandle(g, hd) /\ Return("FS_NO_ERROR") /\ UNCHANGED <<header, alloc_unit_list>>
  BY <1>2 DEF OpenForReading, flashVars
<1> HIDE DEF hd
<1>5. pc' = "idle" /\ call'.op = "none"
  BY <1>4 DEF Return, Goto, NoCall
<1>6. Settled /\ Settled' /\ call.op # "format"
  BY <1>1, <1>5, OpenTakesFree DEF Settled
<1>7. RootOf(call.sector, call.file)
  BY <1>1, RootReached
<1>8. \A h \in HandleId : h # g => (Placed(h)' => Placed(h)) /\ ~ Opening(h)'
  <2>1. \A h \in HandleId : h # g => Open_(h)' = Open_(h)
    BY <1>4 DEF SetHandle, Open_, IInv, TypeOK
  <2> QED
    BY <1>1, <1>5, <2>1, OpenTakesFree DEF Placed, Opening
<1>9. (\A h \in HandleId : PlaceInv(h))' /\ Exclusive'
  BY <1>1, <1>3, <1>4, <1>5, <1>6, <1>7, <1>8, FileIsFree, OneHandlePlaced DEF Opening, RootOf
<1>10. PathInv'
  BY <1>5 DEF PathInv, SearchInv, OpenInv, EraseInv, GrowInv, Growing, Erasing
<1> QED
  BY <1>4, <1>6, <1>9, <1>10, SettledTable DEF TableInv

\* A writer has its handle and is on no sector yet.
LEMMA OpenGoesOnTable ==
  ASSUME IInv, TableInv, OpenForWriting \/ OpenNewFile
  PROVE  TableInv'
<1>1. OpenAccepted /\ AtRoot("open")
  BY DEF OpenForWriting, OpenNewFile, OpenAccepted
<1>2. PICK g \in HandleId : g = Min(FreeHandles) /\ ~ Open_(g)
  BY <1>1, OpenTakesFree
<1> DEFINE hd == OpenedHandle
<1>3. /\ hd.file_id = call.file /\ hd.root_allocation_unit = call.sector
      /\ hd.writeable /\ call.mode.writeable
  BY <1>1, OpenTakesFree, OpenedHandleType DEF OpenForWriting, OpenNewFile
<1>4. SetHandle(g, hd) /\ UNCHANGED <<header, alloc_unit_list>>
  BY <1>2 DEF OpenForWriting, OpenNewFile, flashVars
<1> HIDE DEF hd
<1>5. /\ call' = [call EXCEPT !.handle = g]
      /\ \/ pc' = "find_last_allocation_unit" /\ call.sector # None
         \/ pc' = "allocate" /\ call.sector = None
  BY <1>2 DEF OpenForWriting, OpenNewFile, Goto, None
<1>6. call'.op = "open" /\ call'.handle = g /\ call'.sector = call.sector
  BY <1>1, <1>5, OpenTakesFree DEF IInv, TypeOK, Call
<1>7. Settled /\ Settled' /\ call.op # "format"
  BY <1>1, <1>5, OpenTakesFree DEF Settled
<1>8. \A h \in HandleId : h # g => (Placed(h)' => Placed(h)) /\ ~ Opening(h)'
  <2>1. \A h \in HandleId : h # g => Open_(h)' = Open_(h)
    BY <1>4 DEF SetHandle, Open_, IInv, TypeOK
  <2> QED
    BY <1>1, <1>6, <2>1, OpenTakesFree DEF Placed, Opening
<1>9. (\A h \in HandleId : PlaceInv(h))' /\ Exclusive'
  BY <1>1, <1>3, <1>4, <1>6, <1>7, <1>8, FileIsFree, OneHandlePlaced DEF Opening
<1>10. Cur' = hd
  BY <1>4, <1>6 DEF Cur, SetHandle, IInv, TypeOK
<1>11. OpenInv'
  <2>1. IF call.sector = None THEN Unused(call.file) ELSE RootOf(call.sector, call.file)
    BY <1>1, RootReached
  <2>2. /\ \A s : FileOf(s)' = FileOf(s)
        /\ \A s, f : RootOf(s, f)' = RootOf(s, f)
    BY <1>4, <1>7, SettledTable
  <2>3. CASE call.sector = None
    <3>1. (Unused(Cur.file_id))'
      <4>1. \A s \in Sector : FileOf(s)' # Cur'.file_id
        BY <1>3, <1>10, <2>1, <2>2, <2>3 DEF Unused
      <4> QED
        BY <4>1 DEF Unused
    <3> QED
      BY <1>3, <1>5, <1>10, <2>3, <3>1 DEF OpenInv
  <2>4. CASE call.sector # None
    <3>1. RootOf(call.sector, call.file) /\ FileOf(call.sector) = call.file
      BY <2>1, <2>4 DEF RootOf
    <3>2. (RootOf(Cur.root_allocation_unit, Cur.file_id))'
      <4>1. Cur'.root_allocation_unit = call.sector /\ Cur'.file_id = call.file
        BY <1>3, <1>10
      <4>2. Table' = Table
        BY <1>4, <1>7, SettledTable
      <4> QED
        BY <3>1, <4>1, <4>2 DEF RootOf, Headless, FileOf, Link
    <3>3. (FileOf(call.sector))' = Cur'.file_id
      BY <1>3, <1>6, <1>10, <2>2, <3>1 DEF FileOf
    <3> QED
      BY <1>5, <1>6, <2>4, <3>2, <3>3 DEF OpenInv
  <2> QED
    BY <2>3, <2>4
<1>12. SearchInv' /\ EraseInv' /\ GrowInv'
  BY <1>5, <1>6 DEF SearchInv, EraseInv, GrowInv, Growing, Erasing
<1> QED
  BY <1>4, <1>7, <1>9, <1>11, <1>12, SettledTable DEF TableInv, PathInv

\* open fills in the writer's handle, at the end of the chain.
LEMMA OpenAtEndTable ==
  ASSUME IInv, TableInv, OpenAtEnd
  PROVE  TableInv'
<1>1. /\ pc = "find_last_allocation_unit" /\ pc' = "idle" /\ call'.op = "none"
      /\ UNCHANGED <<header, alloc_unit_list>>
      /\ alloc_unit_list[call.sector].next_allocation_unit = None
  BY DEF OpenAtEnd, is_last_allocation_unit, Return, Goto, NoCall, flashVars, None
<1>2. PICK g \in HandleId :
        g = call.handle /\ Open_(g) /\ Cur = Hd(g) /\ Cur \in Handle
  BY <1>1, CurHandle DEF OnHandle
<1>3. /\ call.op = "open" /\ call.sector \in Sector
      /\ FileOf(call.sector) = Cur.file_id
      /\ RootOf(Cur.root_allocation_unit, Cur.file_id)
  BY <1>1 DEF IInv, CallInv, TableInv, PathInv, OpenInv
<1>4. PICK hd : /\ SetHandle(g, hd) /\ hd.file_id = Cur.file_id
                /\ hd.writeable = Cur.writeable
                /\ hd.root_allocation_unit = Cur.root_allocation_unit
                /\ hd.curr_allocation_unit = call.sector
  <2> DEFINE end == session_end(session[call.sector])
             hd  == [Cur EXCEPT !.curr_allocation_unit = call.sector,
                                !.curr_session_offset = next_session(session[call.sector]),
                                !.curr_session_value = end,
                                !.last_data_offset = end,
                                !.curr_data_offset = end]
  <2>1. SetHandle(g, hd)
    BY <1>2 DEF OpenAtEnd
  <2>2. /\ hd.file_id = Cur.file_id
        /\ hd.writeable = Cur.writeable
        /\ hd.root_allocation_unit = Cur.root_allocation_unit
        /\ hd.curr_allocation_unit = call.sector
    BY <1>2 DEF Handle
  <2> QED
    BY <2>1, <2>2
<1>5. Settled /\ Settled' /\ call.op # "format"
  BY <1>1, <1>3 DEF Settled
<1>6. \A h \in HandleId : h # g => (Placed(h)' => Placed(h)) /\ ~ Opening(h)'
  <2>1. \A h \in HandleId : h # g => Open_(h)' = Open_(h)
    BY <1>4 DEF SetHandle, Open_, IInv, TypeOK
  <2> QED
    BY <1>1, <1>2, <2>1 DEF Placed, Opening, Moving, Growing
<1>7. Cur.file_id \in FileId /\ Cur.writeable
  BY <1>2, <1>3 DEF TableInv, PlaceInv, Opening
<1>8. \A h \in HandleId : h # g /\ Open_(h) => Hd(h).file_id # Cur.file_id
  BY <1>2, <1>7 DEF TableInv, Exclusive
<1>9. Link(call.sector) = None
  BY <1>1, <1>5 DEF Link, Table, Settled
<1>10. (\A h \in HandleId : PlaceInv(h))' /\ Exclusive'
  BY <1>1, <1>3, <1>4, <1>5, <1>6, <1>7, <1>8, <1>9, OneHandlePlaced DEF Opening
<1>11. PathInv'
  BY <1>1 DEF PathInv, SearchInv, OpenInv, EraseInv, GrowInv, Growing, Erasing
<1> QED
  BY <1>1, <1>5, <1>10, <1>11, SettledTable DEF TableInv

\* A reader follows the link of its sector, to a sector of the same file.
LEMMA ReadNextSectorTable ==
  ASSUME IInv, TableInv, ReadNextSector
  PROVE  TableInv'
<1>1. /\ pc = "read" /\ pc' = "read" /\ call' = call
      /\ UNCHANGED <<header, alloc_unit_list>>
  BY DEF ReadNextSector, flashVars
<1>2. PICK g \in HandleId :
        g = call.handle /\ Open_(g) /\ Cur = Hd(g) /\ Cur \in Handle
  BY <1>1, CurHandle DEF OnHandle
<1>3. call.op = "read" /\ ~ Cur.writeable
  BY <1>1 DEF IInv, CallInv
<1> DEFINE s == alloc_unit_list[Cur.curr_allocation_unit].next_allocation_unit
<1>4. PICK hd : /\ SetHandle(g, hd) /\ hd.file_id = Cur.file_id
                /\ hd.writeable = Cur.writeable
                /\ hd.root_allocation_unit = Cur.root_allocation_unit
                /\ hd.curr_allocation_unit = s
  <2> DEFINE hd == [Cur EXCEPT !.curr_allocation_unit = s,
                               !.last_data_offset = session_end(session[s]),
                               !.curr_data_offset = 0]
  <2>1. SetHandle(g, hd)
    BY <1>2 DEF ReadNextSector
  <2>2. /\ hd.file_id = Cur.file_id
        /\ hd.writeable = Cur.writeable
        /\ hd.root_allocation_unit = Cur.root_allocation_unit
        /\ hd.curr_allocation_unit = s
    BY <1>2 DEF Handle
  <2> QED
    BY <2>1, <2>2
<1>5. Settled /\ Settled' /\ call.op # "format" /\ Placed(g)
  BY <1>1, <1>2, <1>3, AllPlaced DEF Settled
<1>6. \A h \in HandleId : h # g => (Placed(h)' => Placed(h)) /\ ~ Opening(h)'
  <2>1. \A h \in HandleId : h # g => Open_(h)' = Open_(h)
    BY <1>4 DEF SetHandle, Open_, IInv, TypeOK
  <2> QED
    BY <1>1, <1>2, <1>3, <2>1 DEF Placed, Opening, Moving, Growing
<1>7. /\ Cur.file_id \in FileId /\ RootOf(Cur.root_allocation_unit, Cur.file_id)
      /\ FileOf(Cur.curr_allocation_unit) = Cur.file_id
      /\ Cur.curr_allocation_unit \in Sector
  BY <1>1, <1>2, <1>3, <1>5 DEF TableInv, PlaceInv, IInv, HandleInv, Opening, Hd
<1>8. \A h \in HandleId : h # g /\ Open_(h) /\ Hd(h).file_id = Cur.file_id => ~ Hd(h).writeable
  BY <1>2 DEF TableInv, Exclusive
<1>9. FileOf(s) = Cur.file_id
  <2>1. s = Link(Cur.curr_allocation_unit)
    BY <1>5 DEF Link, Table, Settled
  <2>2. s # None
    <3>1. ~ is_eof(Cur) /\ AtSectorEnd
      BY DEF ReadNextSector
    <3> QED
      BY <3>1 DEF is_eof, AtSectorEnd, is_last_allocation_unit, None
  <2> QED
    BY <1>5, <1>7, <2>1, <2>2 DEF TableInv, LinkInv
<1> HIDE DEF s
<1>10. (\A h \in HandleId : PlaceInv(h))' /\ Exclusive'
  BY <1>1, <1>3, <1>4, <1>5, <1>6, <1>7, <1>8, <1>9, OneHandlePlaced DEF Opening
<1>11. PathInv'
  BY <1>1, <1>3 DEF PathInv, SearchInv, OpenInv, EraseInv, GrowInv, Growing, Erasing
<1> QED
  BY <1>1, <1>5, <1>10, <1>11, SettledTable DEF TableInv

-----------------------------------------------------------------------------
(***************************************************************************)
(* Steps that change the table.                                            *)
(***************************************************************************)

\* Power on, mounting and unmounting: at rest flash has all the table has.
LEMMA InitTable == Init => TableInv
<1> SUFFICES ASSUME Init PROVE TableInv
  OBVIOUS
<1>1. \A s \in Sector : Table[s] = ErasedHeader /\ Link(s) = None /\ FileOf(s) = None
  BY DEF Init, Table, Link, FileOf, ErasedHeader, None
<1>2. MirrorInv /\ LinkInv
  BY <1>1 DEF Init, MirrorInv, LinkInv
<1>3. FreeInv
  BY <1>1 DEF FreeInv, ErasedHeader
<1>4. (\A h \in HandleId : PlaceInv(h)) /\ Exclusive
  BY DEF Init, PlaceInv, Exclusive, Placed, Open_, FreeHandle
<1>5. PathInv
  BY DEF Init, PathInv, SearchInv, OpenInv, EraseInv, GrowInv, Growing, Erasing, NoCall
<1> QED
  BY <1>2, <1>3, <1>4, <1>5 DEF TableInv

\* Mounting reads the table that flash has at rest, and unmounting forgets it.
LEMMA MountTable ==
  ASSUME IInv, TableInv, Mount \/ Unmount
  PROVE  TableInv'
<1>1. /\ pc \in {"idle", "unmounted"} /\ pc' \in {"idle", "unmounted"}
      /\ header' = header /\ call' = call /\ call.op = "none"
      /\ fs_priv_handle_list' = [h \in HandleId |-> FreeHandle]
  BY DEF Mount, Unmount, flashVars, IInv, CallInv, NoCall
<1>2. Table = header /\ Table' = header
  <2>1. CASE Mount
    BY <2>1 DEF Mount, Table, flashVars
  <2>2. CASE Unmount
    <3>1. alloc_unit_list \in [Sector -> Header] /\ header \in [Sector -> Header]
      BY DEF IInv, TypeOK
    <3>2. \A s \in Sector : header[s] = alloc_unit_list[s]
      BY <2>2 DEF Unmount, TableInv, MirrorInv, InFlash, Growing
    <3>3. header = alloc_unit_list
      BY <3>1, <3>2
    <3> QED
      BY <2>2, <3>3 DEF Unmount, Table, flashVars
  <2> QED
    BY <2>1, <2>2
<1>3. MirrorInv'
  BY <1>1, <1>2 DEF MirrorInv, InFlash, Growing, Table
<1>4. FreeInv' /\ LinkInv'
  BY <1>1, <1>2 DEF TableInv, FreeInv, LinkInv, FileOf, Link
<1>5. (\A h \in HandleId : PlaceInv(h))' /\ Exclusive'
  BY <1>1 DEF PlaceInv, Exclusive, Placed, Open_, FreeHandle
<1>6. PathInv'
  BY <1>1 DEF PathInv, SearchInv, OpenInv, EraseInv, GrowInv, Growing, Erasing
<1> QED
  BY <1>3, <1>4, <1>5, <1>6 DEF TableInv

\* protect and unprotect change the same bits in flash and in the table.
LEMMA SetProtectionTable ==
  ASSUME IInv, TableInv, NEW op \in {"protect", "unprotect"}, SetProtection(op)
  PROVE  TableInv'
<1>1. /\ pc = "find_file_root" /\ pc' = "idle" /\ call'.op = "none" /\ call'.handle = None
      /\ AtRoot(op) /\ call.sector # None /\ call.op # "format"
      /\ UNCHANGED fs_priv_handle_list
  BY DEF SetProtection, AtRoot, Return, Goto, NoCall, None
<1>2. PICK s \in Sector : s = call.sector /\ FileOf(s) \in FileId
  BY <1>1, RootReached DEF RootOf
<1>3. /\ header \in [Sector -> Header] /\ alloc_unit_list \in [Sector -> Header]
      /\ \A t \in Sector : header[t] = alloc_unit_list[t]
  BY <1>1 DEF IInv, TypeOK, TableInv, MirrorInv, InFlash, Growing
<1>4. \/ UNCHANGED <<header, alloc_unit_list>>
      \/ \E bits : /\ SmallerOf(alloc_unit_list[s].file_protect, bits) = bits
                   /\ header' = [header EXCEPT ![s].file_protect = bits]
                   /\ alloc_unit_list' = [alloc_unit_list EXCEPT ![s].file_protect = bits]
  <2> DEFINE old  == alloc_unit_list[s].file_protect
             bits == set_protected(op = "protect", old)
  <2>1. old \in Nat /\ header[s].file_protect = old
    BY <1>3, LayoutAssumption DEF Header
  <2>2. SmallerOf(old, bits) = bits
    BY <2>1 DEF set_protected, clear_lsb, SmallerOf
  <2> QED
    BY <1>2, <2>1, <2>2 DEF SetProtection
<1>5. \A t \in Sector : /\ FileOf(t)' = FileOf(t) /\ Link(t)' = Link(t)
                        /\ header'[t] = alloc_unit_list'[t]
                        /\ t # s => Table'[t] = Table[t]
  BY <1>1, <1>3, <1>4 DEF FileOf, Link, Table, Header
<1>6. MirrorInv' /\ LinkInv'
  <2>1. MirrorInv'
    BY <1>1, <1>5 DEF MirrorInv, InFlash, Growing
  <2>2. LinkInv'
    BY <1>1, <1>5, TableType DEF TableInv, LinkInv, Nil, None
  <2> QED
    BY <2>1, <2>2
<1>7. FreeInv'
  <2>1. FileOf(s) # None
    BY <1>2, LayoutAssumption DEF FileId, None, FS_PRIV_NOT_ALLOCATED
  <2> QED
    BY <1>5, <2>1 DEF TableInv, FreeInv
<1>8. ASSUME NEW h \in HandleId PROVE PlaceInv(h)'
  <2>1. PlaceInv(h) /\ HandleInv(h) /\ ~ Opening(h)'
    BY <1>1, HandleIdIsNatural DEF TableInv, IInv, Opening, None
  <2>2. Hd(h)' = Hd(h) /\ Open_(h)' = Open_(h) /\ (Open_(h) => Placed(h) /\ ~ Opening(h))
    BY <1>1, AllPlaced DEF Hd, Open_
  <2>3. Open_(h) => Hd(h).curr_allocation_unit \in Sector
    BY <2>1, <2>2 DEF HandleInv, Hd
  <2>4. Open_(h) => RootOf(Hd(h).root_allocation_unit, Hd(h).file_id)'
    BY <1>5, <2>1, <2>2 DEF PlaceInv, RootOf, Headless
  <2> QED
    BY <1>5, <2>1, <2>2, <2>3, <2>4 DEF PlaceInv, Placed
<1>9. Exclusive'
  BY <1>1 DEF TableInv, Exclusive, Open_, Hd
<1>10. PathInv'
  BY <1>1 DEF PathInv, SearchInv, OpenInv, EraseInv, GrowInv, Growing, Erasing
<1> QED
  BY <1>6, <1>7, <1>8, <1>9, <1>10 DEF TableInv


\* A sector is erased with nothing linked to it: the root of a file that is removed, or
\* that goes on without its oldest part; its successor becomes the root.
LEMMA EraseBlockTable ==
  ASSUME IInv, TableInv, EraseBlock
  PROVE  TableInv'
<1>1. PICK s \in Sector :
        /\ s = call.sector /\ pc = "erase_block" /\ pc' = "write_counter"
        /\ call' = call /\ UNCHANGED fs_priv_handle_list
  BY DEF EraseBlock, IInv, CallInv
<1>2. /\ header' = [header EXCEPT ![s] = ErasedHeader]
      /\ alloc_unit_list' =
           [alloc_unit_list EXCEPT
              ![s] = [ErasedHeader EXCEPT
                        !.alloc_counter = NextCounter(alloc_unit_list[s].alloc_counter)]]
      /\ header \in [Sector -> Header] /\ alloc_unit_list \in [Sector -> Header]
  BY <1>1 DEF EraseBlock, IInv, TypeOK
<1>3. /\ \A t \in Sector : t # s =>
           Table'[t] = Table[t] /\ FileOf(t)' = FileOf(t) /\ Link(t)' = Link(t)
      /\ FileOf(s)' = None /\ Link(s)' = None
      /\ Table'[s] = [ErasedHeader EXCEPT !.alloc_counter = Table'[s].alloc_counter]
  BY <1>1, <1>2 DEF Table, FileOf, Link, ErasedHeader, None
<1>4. /\ None \notin Sector
      /\ \A t \in Sector : FileOf(t) \in Nil(FileId) /\ Link(t) \in Nil(Sector)
  BY TableType
<1>5. /\ EraseInv /\ call.op \in {"write", "remove", "format"}
      /\ \A h \in HandleId : ~ Opening(h)
  BY <1>1 DEF TableInv, PathInv, EraseInv, Erasing, Opening
<1>6. ASSUME call.op = "write"
      PROVE  /\ call.handle \in HandleId /\ Cur = Hd(call.handle) /\ Open_(call.handle)
             /\ Cur.writeable /\ Placed(call.handle)
             /\ FileOf(Cur.curr_allocation_unit) = Cur.file_id
             /\ Link(Cur.curr_allocation_unit) = None
             /\ RootOf(s, Cur.file_id) /\ Cur.file_id \in FileId
             /\ Cur.curr_allocation_unit \in Sector
  <2>1. OnHandle
    BY <1>1, <1>6 DEF OnHandle
  <2>2. /\ call.handle \in HandleId /\ Cur = Hd(call.handle) /\ Open_(call.handle)
        /\ Cur.writeable
    BY <1>6, <2>1, CurHandle DEF IInv, CallInv
  <2>3. Placed(call.handle)
    BY <1>1, <1>5, <2>2 DEF Placed, Moving, Growing
  <2>4. PlaceInv(call.handle) /\ HandleInv(call.handle)
    BY <2>2 DEF TableInv, IInv
  <2> QED
    BY <1>1, <1>5, <1>6, <2>2, <2>3, <2>4 DEF PlaceInv, EraseInv, Erasing, HandleInv, Hd
<1>7. call.op # "format" => Headless(s) /\ RootOf(s, FileOf(s)) /\ call.next = Link(s)
  BY <1>1, <1>5, <1>6 DEF EraseInv, RootOf
<1>8. \A t \in Sector : Link(t)' # None => t # s /\ Link(t)' = Link(t)
  BY <1>3
<1>9. MirrorInv'
  <2>1. \A t \in Sector : header[t] = alloc_unit_list[t]
    BY <1>1 DEF TableInv, MirrorInv, InFlash, Growing
  <2>2. header'[s] = ErasedHeader /\ \A t \in Sector : t # s => header'[t] = alloc_unit_list'[t]
    BY <1>2, <2>1
  <2> QED
    BY <1>1, <2>2 DEF MirrorInv, InFlash, Growing
<1>10. FreeInv'
  <2>1. FreeInv
    BY DEF TableInv
  <2> QED
    BY <1>3, <2>1 DEF FreeInv
<1>11. LinkInv'
  <2>1. LinkInv
    BY DEF TableInv
  <2> SUFFICES ASSUME call.op # "format", NEW t \in Sector, Link(t)' # None
               PROVE  /\ Link(t)' # t
                      /\ FileOf(Link(t))' = FileOf(t)'
                      /\ \A u \in Sector : Link(u)' = Link(t)' => u = t
    BY <1>1 DEF LinkInv
  <2>2. t # s /\ Link(t)' = Link(t) /\ Link(t) \in Sector
    BY <1>4, <1>8 DEF Nil, None
  <2>3. Link(t) # s
    BY <1>7 DEF Headless
  <2>4. FileOf(Link(t))' = FileOf(Link(t))
    BY <1>2, <1>1, <2>2, <2>3 DEF FileOf, Link, Table
  <2> QED
    BY <1>3, <1>8, <2>1, <2>2, <2>4 DEF LinkInv
<1>12. ASSUME NEW h \in HandleId, Placed(h)'
       PROVE  Placed(h) /\ Hd(h).file_id # FileOf(s)
  <2>1. Open_(h) /\ call.op # "format" /\ Placed(h)
    BY <1>1, <1>5, <1>12 DEF Placed, Opening, Moving, Growing, EraseInv, Open_
  <2>2. CASE call.op = "write"
    <3>1. h # call.handle
      BY <1>1, <1>12, <2>2 DEF Placed, Moving
    <3> QED
      BY <1>6, <2>1, <2>2, <3>1 DEF RootOf, TableInv, Exclusive
  <2>3. CASE call.op = "remove"
    BY <1>1, <1>5, <2>1, <2>3 DEF EraseInv, Erasing, RootOf, HandlesOn, Hd
  <2> QED
    BY <1>5, <2>1, <2>2, <2>3
<1>13. \A f : \A r \in Sector : r # s /\ RootOf(r, f) => RootOf(r, f)'
  BY <1>3, <1>4, <1>8 DEF RootOf, Headless
<1>14. ASSUME NEW h \in HandleId PROVE PlaceInv(h)'
  <2>1. PlaceInv(h) /\ HandleInv(h) /\ Hd(h)' = Hd(h) /\ Open_(h)' = Open_(h)
        /\ Opening(h)' = Opening(h)
    BY <1>1 DEF TableInv, IInv, Hd, Open_, Opening
  <2>2. ASSUME Placed(h)'
        PROVE  /\ FileOf(Hd(h).curr_allocation_unit)' = Hd(h).file_id
               /\ RootOf(Hd(h).root_allocation_unit, Hd(h).file_id)'
               /\ Hd(h).writeable => Link(Hd(h).curr_allocation_unit)' = None
    <3>1. Placed(h) /\ Hd(h).file_id # FileOf(s)
      BY <2>2, <1>12
    <3>2. Hd(h).curr_allocation_unit \in Sector
      BY <2>1, <3>1 DEF HandleInv, Placed, Hd
    <3>3. Hd(h).curr_allocation_unit # s /\ Hd(h).root_allocation_unit # s
      BY <2>1, <3>1 DEF PlaceInv, RootOf
    <3>4. /\ FileOf(Hd(h).curr_allocation_unit)' = FileOf(Hd(h).curr_allocation_unit)
          /\ Link(Hd(h).curr_allocation_unit)' = Link(Hd(h).curr_allocation_unit)
      BY <1>3, <2>1, <3>2, <3>3 DEF FileOf, Link
    <3>5. RootOf(Hd(h).root_allocation_unit, Hd(h).file_id)
      BY <2>1, <3>1 DEF PlaceInv
    <3>6. RootOf(Hd(h).root_allocation_unit, Hd(h).file_id)'
      <4>1. Hd(h).root_allocation_unit \in Sector
        BY <3>5 DEF RootOf
      <4>2. \A f : \A r \in Sector : Hd(h)'.root_allocation_unit = r /\ Hd(h)'.file_id = f
              /\ RootOf(r, f)' => RootOf(Hd(h).root_allocation_unit, Hd(h).file_id)'
        BY DEF RootOf, FileOf, Headless, Link
      <4> QED
        BY <1>13, <2>1, <3>3, <3>5, <4>1, <4>2
    <3> QED
      BY <2>1, <3>1, <3>4, <3>6 DEF PlaceInv
  <2> QED
    BY <2>1, <2>2 DEF PlaceInv
<1>15. Exclusive'
  BY <1>1 DEF TableInv, Exclusive, Open_, Hd
<1>16. EraseInv'
  <2>1. ASSUME call.op \in {"remove", "write"}, call.next # None
        PROVE  /\ call.next \in Sector /\ call.next # s
               /\ FileOf(call.next)' = FileOf(s) /\ Headless(call.next)'
    <3>1. call.next = Link(s) /\ Link(s) # s /\ FileOf(Link(s)) = FileOf(s)
          /\ \A t \in Sector : Link(t) = Link(s) => t = s
      BY <1>7, <2>1 DEF TableInv, LinkInv
    <3>2. call.next \in Sector /\ FileOf(call.next) = FileOf(s)
      BY <1>4, <2>1, <3>1 DEF Nil, None
    <3> QED
      BY <1>1, <1>3, <1>8, <2>1, <3>1, <3>2 DEF Headless, FileOf
  <2>2. call.op = "remove" => FileOf(s) = call.file
    BY <1>1, <1>5 DEF EraseInv, RootOf
  <2>3. call.op = "write" => FileOf(s) = Cur.file_id
    BY <1>6 DEF RootOf
  <2>4. /\ call.op = "remove" /\ call.next # None => RootOf(call.next, call.file)'
        /\ call.op = "write" /\ call.next # None => RootOf(call.next, Cur.file_id)'
    BY <1>1, <2>1, <2>2, <2>3 DEF RootOf, Cur
  <2>5. call.op = "write" =>
          IF s = Cur.curr_allocation_unit
            THEN call.next = None
            ELSE /\ FileOf(Cur.curr_allocation_unit)' = Cur.file_id
                 /\ Link(Cur.curr_allocation_unit)' = None
    <3>1. Cur' = Cur
      BY <1>1 DEF Cur
    <3> QED
      BY <1>3, <1>6, <1>7, <3>1 DEF FileOf, Link
  <2>6. FileOf(call.sector)' = None
    BY <1>1, <1>3 DEF FileOf
  <2>7. call.op = "format" => \A t \in Sector : t < s => FileOf(t)' = None
    BY <1>1, <1>3, <1>5 DEF EraseInv, Erasing
  <2>8. Cur' = Cur /\ HandlesOn(call.file)' = HandlesOn(call.file)
        /\ \A h \in HandleId : Open_(h)' = Open_(h)
    BY <1>1 DEF Cur, HandlesOn, Open_
  <2> QED
    BY <1>1, <1>5, <2>4, <2>5, <2>6, <2>7, <2>8 DEF EraseInv, Erasing
<1>17. SearchInv' /\ OpenInv' /\ GrowInv'
  BY <1>1 DEF SearchInv, OpenInv, GrowInv, Growing
<1> QED
  BY <1>9, <1>10, <1>11, <1>14, <1>15, <1>16, <1>17 DEF TableInv, PathInv


\* The table does not depend on pc while the device is mounted.
LEMMA SameTable ==
  ASSUME TableInv, pc # "unmounted", pc' # "unmounted", UNCHANGED alloc_unit_list
  PROVE  /\ Table' = Table
         /\ \A s : FileOf(s)' = FileOf(s) /\ Link(s)' = Link(s)
         /\ \A s : Headless(s)' = Headless(s)
         /\ \A s, f : RootOf(s, f)' = RootOf(s, f)
         /\ FreeInv'
         /\ call.op # "format" => LinkInv'
<1>1. Table' = Table
  BY DEF Table
<1>2. \A s : FileOf(s)' = FileOf(s) /\ Link(s)' = Link(s)
  BY <1>1 DEF FileOf, Link
<1>3. \A s : Headless(s)' = Headless(s)
  BY <1>2 DEF Headless
<1>4. \A s, f : RootOf(s, f)' = RootOf(s, f)
  BY <1>2, <1>3 DEF RootOf
<1>5. FreeInv'
  BY <1>1 DEF TableInv, FreeInv, FileOf
<1>6. call.op # "format" => LinkInv'
  BY <1>2 DEF TableInv, LinkInv
<1> QED
  BY <1>1, <1>2, <1>3, <1>4, <1>5, <1>6

\* Once the counter of an erased sector is written, RAM and flash agree on the sector.
LEMMA CounterWritten ==
  ASSUME IInv, TableInv, WriteCounter
  PROVE  /\ pc = "write_counter" /\ call.sector \in Sector
         /\ header' \in [Sector -> Header]
         /\ \A t \in Sector : header'[t] = alloc_unit_list[t]
<1>1. pc = "write_counter" /\ call.sector \in Sector /\ FileOf(call.sector) = None
  BY DEF WriteCounter, IInv, CallInv, TableInv, PathInv, EraseInv
<1>2. /\ header \in [Sector -> Header] /\ alloc_unit_list \in [Sector -> Header]
      /\ \A t \in Sector : t # call.sector => header[t] = alloc_unit_list[t]
      /\ header[call.sector] = ErasedHeader
  BY <1>1 DEF IInv, TypeOK, TableInv, MirrorInv, InFlash, Growing
<1>3. alloc_unit_list[call.sector] =
        [ErasedHeader EXCEPT !.alloc_counter = alloc_unit_list[call.sector].alloc_counter]
  BY <1>1 DEF TableInv, FreeInv, FileOf, Table
<1>4. header' = [header EXCEPT
                   ![call.sector].alloc_counter = alloc_unit_list[call.sector].alloc_counter]
  BY <1>1, <1>2 DEF WriteCounter, ProgramWord, ErasedHeader, ERASED
<1>5. header'[call.sector] = alloc_unit_list[call.sector]
  BY <1>1, <1>2, <1>3, <1>4
<1>6. \A t \in Sector : header'[t] = alloc_unit_list[t]
  BY <1>1, <1>2, <1>4, <1>5
<1> QED
  BY <1>1, <1>2, <1>4, <1>6

\* remove goes on with the successor, the new root, or is done.
LEMMA RemoveNextTable ==
  ASSUME IInv, TableInv, RemoveNext
  PROVE  TableInv'
<1>1. /\ pc = "write_counter" /\ call.op = "remove" /\ WriteCounter
      /\ UNCHANGED <<alloc_unit_list, fs_priv_handle_list>>
      /\ \/ call.next = None /\ Return("FS_NO_ERROR")
         \/ call.next # None /\ EraseNext(call.next)
  BY DEF RemoveNext, WriteCounter, ramVars, None
<1>2. /\ pc' \in {"idle", "erase_block"} /\ call'.op \in {"none", "remove"}
      /\ pc' = "erase_block" =>
           /\ call.next # None /\ call'.op = "remove" /\ call'.file = call.file
           /\ call'.sector = call.next
           /\ call'.next = alloc_unit_list[call.next].next_allocation_unit
  <2>1. CASE Return("FS_NO_ERROR")
    BY <2>1 DEF Return, Goto, NoCall
  <2>2. CASE call.next # None /\ EraseNext(call.next)
    <3>1. call \in Call
      BY DEF IInv, TypeOK
    <3> QED
      BY <1>1, <2>2, <3>1 DEF EraseNext, Goto, Call
  <2> QED
    BY <1>1, <2>1, <2>2
<1>3. /\ \A s : FileOf(s)' = FileOf(s) /\ Link(s)' = Link(s)
      /\ \A s, f : RootOf(s, f)' = RootOf(s, f)
      /\ FreeInv' /\ LinkInv'
  BY <1>1, <1>2, SameTable
<1>4. MirrorInv'
  BY <1>1, <1>2, CounterWritten DEF MirrorInv, InFlash, Growing
<1>5. ASSUME NEW h \in HandleId PROVE PlaceInv(h)'
  <2>1. PlaceInv(h) /\ Hd(h)' = Hd(h) /\ Open_(h)' = Open_(h)
    BY <1>1 DEF TableInv, Hd, Open_
  <2>2. ~ Opening(h)' /\ (Open_(h) => Placed(h))
    BY <1>1, <1>2 DEF Opening, Placed, Moving, Growing
  <2>3. Placed(h)' => Open_(h)
    BY <2>1 DEF Placed
  <2> QED
    BY <1>3, <2>1, <2>2, <2>3 DEF PlaceInv
<1>6. Exclusive'
  BY <1>1 DEF TableInv, Exclusive, Open_, Hd
<1>7. EraseInv'
  <2>1. EraseInv
    BY DEF TableInv, PathInv
  <2>2. ASSUME pc' = "erase_block"
        PROVE  /\ RootOf(call.sector, call.file)'
               /\ call'.next = (Link(call.sector))'
               /\ call.file \in FileId /\ HandlesOn(call.file)' = {}
    <3>1. RootOf(call.next, call.file) /\ call.file \in FileId /\ HandlesOn(call.file) = {}
      BY <1>1, <1>2, <2>1, <2>2 DEF EraseInv, Erasing
    <3>2. RootOf(call.sector, call.file)'
      <4>1. Table' = Table
        BY <1>1, <1>2, SameTable
      <4> QED
        BY <1>2, <2>2, <3>1, <4>1 DEF RootOf, Headless, FileOf, Link
    <3>3. call'.next = (Link(call.sector))'
      BY <1>1, <1>2, <2>2 DEF Link, Table
    <3>4. HandlesOn(call.file)' = {}
      BY <1>1, <1>2, <2>2, <3>1 DEF HandlesOn, Open_
    <3> QED
      BY <3>1, <3>2, <3>3, <3>4
  <2> QED
    BY <1>2, <2>2 DEF EraseInv, Erasing
<1>8. SearchInv' /\ OpenInv' /\ GrowInv'
  BY <1>2 DEF SearchInv, OpenInv, GrowInv, Growing
<1> QED
  BY <1>3, <1>4, <1>5, <1>6, <1>7, <1>8 DEF TableInv, PathInv

\* format goes on with the next sector; after the last one every sector is free.
LEMMA FormatNextTable ==
  ASSUME IInv, TableInv, FormatNext
  PROVE  TableInv'
<1>1. /\ pc = "write_counter" /\ call.op = "format" /\ WriteCounter
      /\ UNCHANGED <<alloc_unit_list, fs_priv_handle_list>>
      /\ \/ call.sector + 1 \notin Sector /\ Return("FS_NO_ERROR")
         \/ /\ call.sector + 1 \in Sector
            /\ Goto("erase_block", [call EXCEPT !.sector = @ + 1])
  BY DEF FormatNext, WriteCounter, ramVars
<1>2. /\ \/ pc' = "idle" /\ call'.op = "none" /\ call.sector + 1 \notin Sector
         \/ pc' = "erase_block" /\ call'.op = "format" /\ call'.sector = call.sector + 1
      /\ call.sector \in Sector
  BY <1>1 DEF Return, Goto, NoCall, IInv, TypeOK, Call, CallInv
<1>3. /\ \A s : FileOf(s)' = FileOf(s) /\ Link(s)' = Link(s)
      /\ FreeInv'
  BY <1>1, <1>2, SameTable
<1>4. MirrorInv'
  BY <1>1, <1>2, CounterWritten DEF MirrorInv, InFlash, Growing
<1>5. \A h \in HandleId : ~ Open_(h)'
  BY <1>1 DEF TableInv, PathInv, EraseInv, Open_
<1>6. (\A h \in HandleId : PlaceInv(h))' /\ Exclusive'
  BY <1>5 DEF PlaceInv, Exclusive, Placed
<1>7. \A s \in Sector : s < call.sector + 1 => FileOf(s) = None
  <2>1. \A s \in Sector : s < call.sector => FileOf(s) = None
    BY <1>1 DEF TableInv, PathInv, EraseInv, Erasing
  <2>2. FileOf(call.sector) = None
    BY <1>1 DEF TableInv, PathInv, EraseInv
  <2>3. \A s \in Sector : s < call.sector + 1 => s < call.sector \/ s = call.sector
    BY <1>2, LayoutAssumption DEF Sector
  <2> QED
    BY <2>1, <2>2, <2>3
<1>8. LinkInv'
  <2>1. ASSUME pc' = "idle", NEW s \in Sector PROVE Link(s) = None
    <3>1. FileOf(s) = None
      BY <1>2, <1>7, <2>1, LayoutAssumption DEF Sector
    <3>2. Table[s] = [ErasedHeader EXCEPT !.alloc_counter = Table[s].alloc_counter]
      BY <3>1 DEF TableInv, FreeInv
    <3> QED
      BY <3>2 DEF ErasedHeader, Link, None
  <2> QED
    BY <1>2, <1>3, <2>1 DEF LinkInv
<1>9. PathInv'
  <2>1. pc' = "erase_block" => \A s \in Sector : s < call'.sector => FileOf(s)' = None
    BY <1>2, <1>3, <1>7
  <2> QED
    BY <1>2, <1>5, <2>1
    DEF PathInv, SearchInv, OpenInv, EraseInv, GrowInv, Growing, Erasing
<1> QED
  BY <1>3, <1>4, <1>6, <1>8, <1>9 DEF TableInv


\* Nothing links to a free sector.
LEMMA FreeIsHeadless ==
  ASSUME IInv, TableInv, call.op # "format", NEW s \in Sector, FileOf(s) = None
  PROVE  Headless(s)
<1> SUFFICES ASSUME NEW p \in Sector, Link(p) = s PROVE FALSE
  BY DEF Headless
<1>1. FileOf(p) = None /\ Link(p) # None
  BY TableType DEF TableInv, LinkInv
<1>2. Table[p] = [ErasedHeader EXCEPT !.alloc_counter = Table[p].alloc_counter]
  BY <1>1 DEF TableInv, FreeInv
<1> QED
  BY <1>1, <1>2 DEF ErasedHeader, Link, None

\* allocate_new_sector_to_file gives a free sector to the file of the running call's
\* writer, as its root or after its last sector.
LEMMA ClaimTable ==
  ASSUME IInv, TableInv, OnHandle, pc \in {"allocate", "write_counter"},
         call.op \in {"open", "write"},
         NEW s \in Sector, FileOf(s) = None, NEW root \in Nil(Sector), Claim(s, root),
         \A t \in Sector : header'[t] = alloc_unit_list[t],
         Cur.writeable /\ Cur.file_id \in FileId,
         root # None => /\ call.op = "write"
                        /\ RootOf(root, Cur.file_id)
                        /\ FileOf(Cur.curr_allocation_unit) = Cur.file_id
                        /\ Link(Cur.curr_allocation_unit) = None
  PROVE  TableInv'
<1>0. PICK f, curr : f = Cur.file_id /\ curr = Cur.curr_allocation_unit
  OBVIOUS
<1> DEFINE entry ==
             [file_id |-> f,
              file_protect |-> IF root = FS_PRIV_NOT_ALLOCATED
                                 THEN PROTECT_BITS ELSE alloc_unit_list[root].file_protect,
              next_allocation_unit |-> FS_PRIV_NOT_ALLOCATED,
              circular |-> Cur.circular,
              alloc_counter |-> alloc_unit_list[s].alloc_counter]
           claimed == [alloc_unit_list EXCEPT ![s] = entry]
<1>1. /\ alloc_unit_list \in [Sector -> Header] /\ call \in Call
      /\ fs_priv_handle_list \in [HandleId -> Handle]
      /\ None \notin FileId /\ None \notin Sector
      /\ \A t \in Sector : FileOf(t) \in Nil(FileId) /\ Link(t) \in Nil(Sector)
  BY TableType DEF IInv, TypeOK
<1>2. PICK g \in HandleId : g = call.handle /\ Open_(g) /\ Cur = Hd(g) /\ Cur \in Handle
  BY CurHandle
<1>3. /\ alloc_unit_list' = IF root = None THEN claimed
                            ELSE [claimed EXCEPT ![curr].next_allocation_unit = s]
      /\ \E new : SetHandle(g, [Cur EXCEPT !.root_allocation_unit = new])
                  /\ new = IF root = None THEN s ELSE root
      /\ call'.sector = s /\ call'.op = call.op /\ call'.handle = g
      /\ pc' = IF root = None THEN "write_file_info" ELSE "write_next"
  BY <1>0, <1>1, <1>2 DEF Claim, Goto, Call, None
<1>4. /\ fs_priv_handle_list'[g] =
           [Cur EXCEPT !.root_allocation_unit = IF root = None THEN s ELSE root]
      /\ \A h \in HandleId : h # g => fs_priv_handle_list'[h] = fs_priv_handle_list[h]
  BY <1>1, <1>2, <1>3 DEF SetHandle
<1>5. /\ Cur' = Hd(g)' /\ Cur'.file_id = f /\ Cur'.curr_allocation_unit = curr
      /\ Cur'.root_allocation_unit = IF root = None THEN s ELSE root
      /\ Cur'.writeable = Cur.writeable
  <2>1. Cur' = Hd(g)'
            /\ Hd(g)' = [Cur EXCEPT !.root_allocation_unit = IF root = None THEN s ELSE root]
    BY <1>3, <1>4 DEF Cur, Hd
  <2> QED
    BY <1>0, <1>2, <2>1 DEF Handle
<1>6. Table = alloc_unit_list /\ Table' = alloc_unit_list'
  BY <1>3 DEF Table
<1>7. root # None => curr \in Sector /\ curr # s
  <2>1. HandleInv(g) /\ (root # None => ~ Opening(g))
    BY DEF IInv, Opening
  <2> QED
    BY <1>0, <1>1, <1>2, <2>1 DEF HandleInv, Hd
<1>8. /\ \A t \in Sector : t # s => FileOf(t)' = FileOf(t)
      /\ \A t \in Sector : t # s /\ (root = None \/ t # curr) =>
           alloc_unit_list'[t] = alloc_unit_list[t] /\ Link(t)' = Link(t)
      /\ alloc_unit_list'[s] = entry /\ FileOf(s)' = f /\ Link(s)' = None
      /\ root # None =>
           /\ alloc_unit_list'[curr] = [alloc_unit_list[curr] EXCEPT !.next_allocation_unit = s]
           /\ Link(curr)' = s
  <2>1. entry.file_id = f /\ entry.next_allocation_unit = None
    BY DEF None
  <2> HIDE DEF entry
  <2>2. /\ \A t \in Sector : t # s => claimed[t] = alloc_unit_list[t]
        /\ claimed[s] = entry /\ DOMAIN claimed = Sector
    BY <1>1
  <2>3. root # None => claimed[curr] \in Header
    BY <1>1, <1>7, <2>2
  <2> HIDE DEF claimed
  <2>4. CASE root = None
    BY <1>3, <1>6, <2>1, <2>2, <2>4 DEF FileOf, Link
  <2>5. CASE root # None
    <3>1. alloc_unit_list' = [claimed EXCEPT ![curr].next_allocation_unit = s]
      BY <1>3, <2>5
    <3>2. /\ \A t \in Sector : t # curr => alloc_unit_list'[t] = claimed[t]
          /\ alloc_unit_list'[curr] = [claimed[curr] EXCEPT !.next_allocation_unit = s]
      BY <1>7, <2>2, <2>5, <3>1
    <3>3. /\ alloc_unit_list'[curr].next_allocation_unit = s
          /\ alloc_unit_list'[curr].file_id = claimed[curr].file_id
      BY <2>3, <2>5, <3>2 DEF Header
    <3>4. alloc_unit_list'[curr] = [alloc_unit_list[curr] EXCEPT !.next_allocation_unit = s]
          /\ alloc_unit_list'[curr].file_id = alloc_unit_list[curr].file_id
      BY <1>7, <2>2, <2>5, <3>2, <3>3
    <3>5. alloc_unit_list'[s] = entry
      BY <1>7, <2>2, <2>5, <3>2
    <3>6. \A t \in Sector : t # s /\ t # curr => alloc_unit_list'[t] = alloc_unit_list[t]
      BY <2>2, <3>2
    <3>7. /\ FileOf(s)' = f /\ Link(s)' = None /\ Link(curr)' = s
          /\ FileOf(curr)' = FileOf(curr)
      BY <1>6, <2>1, <3>3, <3>4, <3>5 DEF FileOf, Link
    <3>8. \A t \in Sector : t # s /\ t # curr => FileOf(t)' = FileOf(t) /\ Link(t)' = Link(t)
      BY <1>6, <3>6 DEF FileOf, Link
    <3> QED
      BY <2>5, <3>4, <3>5, <3>6, <3>7, <3>8
  <2> QED
    BY <2>4, <2>5
<1>9. /\ Headless(s) /\ f # None
      /\ alloc_unit_list[s] =
           [ErasedHeader EXCEPT !.alloc_counter = alloc_unit_list[s].alloc_counter]
  BY <1>0, <1>1, <1>6, FreeIsHeadless DEF TableInv, FreeInv
<1>10. \A t \in Sector : Link(t)' # None =>
          \/ t = curr /\ root # None /\ Link(t)' = s
          \/ t # s /\ Link(t)' = Link(t) /\ Link(t) # s /\ (root # None => t # curr)
  <2> HIDE DEF claimed, entry
  <2> SUFFICES ASSUME NEW t \in Sector, Link(t)' # None
               PROVE  \/ t = curr /\ root # None /\ Link(t)' = s
                      \/ /\ t # s /\ Link(t)' = Link(t) /\ Link(t) # s
                         /\ root # None => t # curr
    OBVIOUS
  <2>1. t # s /\ Link(t) # s
    BY <1>8, <1>9 DEF Headless
  <2> QED
    BY <1>8, <2>1
<1>11. MirrorInv'
  <2>1. header'[s] = [ErasedHeader EXCEPT !.alloc_counter = alloc_unit_list'[s].alloc_counter]
    BY <1>8, <1>9
  <2>2. root # None =>
          header'[curr] = [alloc_unit_list'[curr] EXCEPT !.next_allocation_unit = None]
    <3>1. root # None => alloc_unit_list[curr].next_allocation_unit = None
                         /\ alloc_unit_list[curr] \in Header
      BY <1>0, <1>1, <1>6, <1>7 DEF Link
    <3> QED
      BY <1>7, <1>8, <3>1 DEF Header
  <2>3. \A t \in Sector : t # s /\ (root = None \/ t # curr) => header'[t] = alloc_unit_list'[t]
    BY <1>8
  <2> HIDE DEF claimed, entry
  <2> QED
    BY <1>3, <1>5, <2>1, <2>2, <2>3 DEF MirrorInv, InFlash, Growing
<1> HIDE DEF claimed, entry
<1>12. FreeInv'
  <2>1. \A t \in Sector : FileOf(t)' = None => Table'[t] = Table[t] /\ FileOf(t) = None
    BY <1>0, <1>6, <1>7, <1>8, <1>9
  <2> QED
    BY <2>1 DEF TableInv, FreeInv
<1>13. LinkInv'
  <2> SUFFICES ASSUME NEW t \in Sector, Link(t)' # None
               PROVE  /\ Link(t)' # t
                      /\ FileOf(Link(t))' = FileOf(t)'
                      /\ \A u \in Sector : Link(u)' = Link(t)' => u = t
    BY DEF LinkInv
  <2>1. CASE t = curr /\ root # None /\ Link(t)' = s
    <3>1. FileOf(Link(t))' = f /\ FileOf(t)' = f
      BY <1>0, <1>6, <1>7, <1>8, <2>1 DEF FileOf, Link
    <3>2. \A u \in Sector : Link(u)' = s => u = t
      BY <1>1, <1>10, <2>1
    <3> QED
      BY <1>7, <2>1, <3>1, <3>2
  <2>2. CASE t # s /\ Link(t)' = Link(t) /\ Link(t) # s /\ (root # None => t # curr)
    <3>1. /\ Link(t) \in Sector /\ Link(t) # t /\ FileOf(Link(t)) = FileOf(t)
          /\ \A u \in Sector : Link(u) = Link(t) => u = t
      BY <1>1, <2>2 DEF TableInv, LinkInv, Nil, None
    <3>2. FileOf(Link(t))' = FileOf(Link(t))
      BY <1>3, <1>6, <1>7, <1>8, <2>2, <3>1 DEF FileOf, Link
    <3>3. \A u \in Sector : Link(u)' = Link(t)' => u = t
      BY <1>10, <2>2, <3>1
    <3> QED
      BY <1>8, <2>2, <3>1, <3>2, <3>3
  <2> QED
    BY <1>10, <2>1, <2>2
<1>14. \A r \in Sector : r # s /\ Headless(r) => Headless(r)'
  BY <1>1, <1>8, <1>10 DEF Headless
<1>15. ASSUME NEW h \in HandleId, h # g PROVE PlaceInv(h)'
  <2>1. /\ PlaceInv(h) /\ HandleInv(h) /\ Hd(h)' = Hd(h) /\ Open_(h)' = Open_(h)
        /\ ~ Opening(h)' /\ ~ Moving(h) /\ ~ Opening(h)
    BY <1>2, <1>3, <1>4, <1>15 DEF TableInv, IInv, Hd, Open_, Opening, Moving
  <2>2. ASSUME Open_(h)
        PROVE  /\ FileOf(Hd(h).curr_allocation_unit)' = Hd(h).file_id
               /\ RootOf(Hd(h).root_allocation_unit, Hd(h).file_id)'
               /\ Hd(h).writeable => Link(Hd(h).curr_allocation_unit)' = None
    <3>1. PICK c \in Sector, r \in Sector :
            /\ c = Hd(h).curr_allocation_unit /\ r = Hd(h).root_allocation_unit
            /\ FileOf(c) = Hd(h).file_id /\ FileOf(r) = Hd(h).file_id /\ Headless(r)
            /\ Hd(h).writeable => Link(c) = None
            /\ Hd(h).file_id \in FileId
      BY <2>1, <2>2 DEF PlaceInv, HandleInv, Placed, Hd, RootOf
    <3>2. c # s /\ r # s
      BY <1>1, <3>1
    <3>3. FileOf(c)' = Hd(h).file_id /\ FileOf(r)' = Hd(h).file_id /\ Headless(r)'
      BY <1>8, <1>14, <3>1, <3>2
    <3>4. Hd(h).writeable => Link(c)' = None
      <4>1. Hd(h).writeable => (root = None \/ c # curr)
        BY <1>0, <1>2, <1>15, <2>2, <3>1 DEF TableInv, Exclusive
      <4> QED
        BY <1>8, <3>1, <3>2, <4>1
    <3>5. Hd(h)'.curr_allocation_unit = c /\ Hd(h)'.root_allocation_unit = r
      BY <2>1, <3>1
    <3> QED
      BY <2>1, <3>1, <3>3, <3>4, <3>5 DEF RootOf, FileOf, Link, Headless
  <2> QED
    BY <2>1, <2>2 DEF PlaceInv, Placed
<1>16. PlaceInv(g)'
  BY <1>0, <1>3, <1>5 DEF PlaceInv, Placed, Moving, Growing
<1>17. Exclusive'
  <2>1. \A h \in HandleId :
          /\ Open_(h)' => Open_(h) 
          /\ Hd(h)'.file_id = Hd(h).file_id /\ Hd(h)'.writeable = Hd(h).writeable
    BY <1>0, <1>2, <1>4, <1>5 DEF Hd, Open_
  <2> QED
    BY <2>1 DEF TableInv, Exclusive
<1>18. GrowInv'
  <2>1. FileOf(call.sector)' = Cur'.file_id /\ Link(call.sector)' = None
    BY <1>3, <1>5, <1>8 DEF FileOf, Link
  <2>2. RootOf(Cur.root_allocation_unit, Cur.file_id)'
    <3>1. CASE root = None
      <4>1. Headless(s)'
        BY <1>1, <1>9, <1>10, <3>1 DEF Headless
      <4> QED
        BY <1>5, <1>8, <3>1, <4>1 DEF RootOf, Headless, FileOf
    <3>2. CASE root # None
      <4>1. root \in Sector /\ FileOf(root) = f /\ Headless(root) /\ root # s
        BY <1>0, <1>9, <3>2 DEF RootOf
      <4>2. FileOf(root)' = f /\ Headless(root)'
        BY <1>8, <1>14, <4>1
      <4> QED
        BY <1>5, <3>2, <4>1, <4>2 DEF RootOf, Headless, FileOf
    <3> QED
      BY <3>1, <3>2
  <2>3. pc' = "write_next" =>
          /\ FileOf(Cur.curr_allocation_unit)' = Cur'.file_id
          /\ Link(Cur.curr_allocation_unit)' = call'.sector
    BY <1>0, <1>3, <1>5, <1>7, <1>8 DEF FileOf, Link
  <2> QED
    BY <1>3, <2>1, <2>2, <2>3 DEF GrowInv, Growing
<1>19. SearchInv' /\ OpenInv' /\ EraseInv'
  BY <1>3 DEF SearchInv, OpenInv, EraseInv, Erasing
<1> QED
  BY <1>11, <1>12, <1>13, <1>15, <1>16, <1>17, <1>18, <1>19 DEF TableInv, PathInv


\* The sector claimed is a free one, or the root that has just been erased.
LEMMA AllocateTable ==
  ASSUME IInv, TableInv, AllocateFree \/ Recycled
  PROVE  TableInv'
<1>1. CASE AllocateFree
  <2> DEFINE s == find_free_allocation_unit(alloc_unit_list)
  <2>1. /\ pc = "allocate" /\ OnHandle /\ header' = header
        /\ call.op \in {"open", "write"} /\ Claim(s, Cur.root_allocation_unit)
    BY <1>1 DEF AllocateFree, OnHandle, flashVars, IInv, CallInv
  <2>2. s \in Sector /\ FileOf(s) = None
    <3>1. s \in free_sectors(alloc_unit_list)
      BY <1>1, FindFreeType DEF AllocateFree, IInv, TypeOK
    <3> QED
      BY <2>1, <3>1 DEF free_sectors, sectors_of, FileOf, Table, None
  <2> HIDE DEF s
  <2>3. /\ call.handle \in HandleId /\ Open_(call.handle) /\ Cur = Hd(call.handle)
        /\ Cur \in Handle /\ PlaceInv(call.handle)
    BY <2>1, CurHandle DEF TableInv
  <2>4. call.op = "write" => Cur.writeable /\ Placed(call.handle)
    BY <2>1, <2>3 DEF IInv, CallInv, Placed, Opening, Moving, Growing
  <2>5. call.op = "open" => Cur.writeable /\ Cur.root_allocation_unit = None
    BY <2>1, <2>3 DEF PlaceInv, Opening, TableInv, PathInv, OpenInv
  <2>6. Cur.file_id \in FileId /\ Cur.root_allocation_unit \in Nil(Sector)
    BY <2>3 DEF PlaceInv, Handle
  <2>7. call.op = "write" => /\ RootOf(Cur.root_allocation_unit, Cur.file_id)
                             /\ FileOf(Cur.curr_allocation_unit) = Cur.file_id
                             /\ Link(Cur.curr_allocation_unit) = None
    BY <2>3, <2>4 DEF PlaceInv
  <2>8. \A t \in Sector : header'[t] = alloc_unit_list[t]
    BY <2>1 DEF TableInv, MirrorInv, InFlash, Growing
  <2> QED
    BY <2>1, <2>2, <2>4, <2>5, <2>6, <2>7, <2>8, ClaimTable
<1>2. CASE Recycled
  <2>1. /\ pc = "write_counter" /\ OnHandle /\ call.op \in {"open", "write"} /\ WriteCounter
        /\ Claim(call.sector, call.next)
    BY <1>2 DEF Recycled, WriteCounter, OnHandle
  <2>2. call.op = "write" /\ FileOf(call.sector) = None
    BY <2>1 DEF TableInv, PathInv, EraseInv, Erasing
  <2>3. call.sector \in Sector /\ call.next \in Nil(Sector) /\ Cur.writeable
    BY <2>1, <2>2 DEF IInv, TypeOK, Call, CallInv
  <2>4. /\ call.handle \in HandleId /\ Open_(call.handle) /\ Cur = Hd(call.handle)
        /\ PlaceInv(call.handle)
    BY <2>1, CurHandle DEF TableInv
  <2>5. Cur.file_id \in FileId
    BY <2>4 DEF PlaceInv
  <2>6. call.next # None => /\ RootOf(call.next, Cur.file_id)
                            /\ FileOf(Cur.curr_allocation_unit) = Cur.file_id
                            /\ Link(Cur.curr_allocation_unit) = None
    BY <2>1, <2>2 DEF TableInv, PathInv, EraseInv
  <2> QED
    BY <2>1, <2>2, <2>3, <2>5, <2>6, CounterWritten, ClaimTable
<1> QED
  BY <1>1, <1>2

\* A header over which the same header with its link is programmed is that header, and
\* so is an erased one but for its counter.
LEMMA ProgramLinkAndEntry ==
  ASSUME NEW new \in Header
  PROVE  /\ ProgramFileInfo([new EXCEPT !.next_allocation_unit = None], new) = new
         /\ ProgramFileInfo([ErasedHeader EXCEPT !.alloc_counter = new.alloc_counter], new) = new
<1>1. /\ new = [file_id |-> new.file_id, file_protect |-> new.file_protect,
                next_allocation_unit |-> new.next_allocation_unit,
                circular |-> new.circular, alloc_counter |-> new.alloc_counter]
      /\ new.file_protect \in 0 .. PROTECT_BITS /\ new.circular \in BOOLEAN
  BY DEF Header
<1>2. \A w : ProgramWord(w, w) = w /\ ProgramWord(None, w) = w
  BY DEF ProgramWord, None, ERASED
<1>3. SmallerOf(new.file_protect, new.file_protect) = new.file_protect
      /\ SmallerOf(PROTECT_BITS, new.file_protect) = new.file_protect
  BY <1>1, LayoutAssumption DEF SmallerOf
<1>4. ASSUME NEW old,
             old.file_id = None \/ old.file_id = new.file_id,
             old.file_protect = PROTECT_BITS \/ old.file_protect = new.file_protect,
             old.next_allocation_unit = None,
             old.circular = TRUE \/ old.circular = new.circular,
             old.alloc_counter = new.alloc_counter
      PROVE  ProgramFileInfo(old, new) = new
  <2>1. (old.circular /\ new.circular) = new.circular
    <3>1. CASE new.circular = TRUE
      BY <1>4, <3>1
    <3>2. CASE new.circular = FALSE
      BY <1>4, <3>2
    <3> QED
      BY <1>1, <3>1, <3>2
  <2> QED
    BY <1>1, <1>2, <1>3, <1>4, <2>1 DEF ProgramFileInfo
<1>5. ProgramFileInfo([new EXCEPT !.next_allocation_unit = None], new) = new
  <2> DEFINE old == [new EXCEPT !.next_allocation_unit = None]
  <2>1. /\ old.file_id = new.file_id /\ old.file_protect = new.file_protect
        /\ old.next_allocation_unit = None /\ old.circular = new.circular
        /\ old.alloc_counter = new.alloc_counter
    BY DEF Header
  <2> HIDE DEF old
  <2>2. ProgramFileInfo(old, new) = new
    BY <1>4, <2>1, Zenon
  <2> QED
    BY <2>2 DEF old
<1>6. ProgramFileInfo([ErasedHeader EXCEPT !.alloc_counter = new.alloc_counter], new) = new
  <2> DEFINE old == [ErasedHeader EXCEPT !.alloc_counter = new.alloc_counter]
  <2>1. /\ old.file_id = None /\ old.file_protect = PROTECT_BITS
        /\ old.next_allocation_unit = None /\ old.circular = TRUE
        /\ old.alloc_counter = new.alloc_counter
    BY DEF ErasedHeader, None
  <2> HIDE DEF old
  <2>2. ProgramFileInfo(old, new) = new
    BY <1>4, <2>1, Zenon
  <2> QED
    BY <2>2 DEF old
<1> QED
  BY <1>5, <1>6

\* The link from the current sector reaches flash.
LEMMA WriteNextTable ==
  ASSUME IInv, TableInv, WriteNext
  PROVE  TableInv'
<1>1. /\ pc = "write_next" /\ pc' = "write_file_info" /\ UNCHANGED <<ramVars, call>>
      /\ UNCHANGED <<alloc_unit_list, fs_priv_handle_list>>
      /\ Cur' = Cur /\ call.op \in {"open", "write"} /\ call.sector \in Sector
      /\ OnHandle
  BY DEF WriteNext, ramVars, Cur, IInv, CallInv, OnHandle
<1>2. /\ GrowInv /\ call.op = "write" /\ Growing
      /\ FileOf(Cur.curr_allocation_unit) = Cur.file_id
      /\ Link(Cur.curr_allocation_unit) = call.sector
      /\ Link(call.sector) = None
  BY <1>1 DEF TableInv, PathInv, GrowInv, Growing
<1>3. PICK c \in Sector : c = Cur.curr_allocation_unit /\ c # call.sector
  <2>1. HandleInv(call.handle) /\ Open_(call.handle) /\ ~ Opening(call.handle)
        /\ Cur = Hd(call.handle)
    BY <1>1, <1>2, CurHandle DEF IInv, Opening
  <2>2. Cur.curr_allocation_unit \in Sector
    BY <2>1 DEF HandleInv, Hd
  <2> QED
    BY <1>1, <1>2, <2>2, TableType
<1>4. /\ header \in [Sector -> Header] /\ alloc_unit_list \in [Sector -> Header]
      /\ header[c] = [alloc_unit_list[c] EXCEPT !.next_allocation_unit = None]
      /\ \A t \in Sector : t # c =>
           header[t] = IF t = call.sector
                         THEN [ErasedHeader EXCEPT
                                 !.alloc_counter = alloc_unit_list[t].alloc_counter]
                         ELSE alloc_unit_list[t]
  BY <1>1, <1>3 DEF IInv, TypeOK, TableInv, MirrorInv, InFlash, Growing
<1>5. header' = [header EXCEPT ![c] = alloc_unit_list[c]]
  <2>1. header' = [header EXCEPT ![c] = ProgramFileInfo(header[c], alloc_unit_list[c])]
    BY <1>3 DEF WriteNext
  <2> QED
    BY <1>4, <2>1, ProgramLinkAndEntry
<1>6. MirrorInv'
  BY <1>1, <1>3, <1>4, <1>5 DEF MirrorInv, InFlash, Growing
<1>7. /\ \A s : FileOf(s)' = FileOf(s) /\ Link(s)' = Link(s)
      /\ \A s, f : RootOf(s, f)' = RootOf(s, f)
      /\ FreeInv' /\ LinkInv'
  BY <1>1, SameTable
<1>8. ASSUME NEW h \in HandleId PROVE PlaceInv(h)'
  <2>1. /\ PlaceInv(h) /\ Hd(h)' = Hd(h) /\ Open_(h)' = Open_(h)
        /\ Opening(h)' = Opening(h) /\ Placed(h)' = Placed(h)
    BY <1>1 DEF TableInv, Hd, Open_, Opening, Placed, Moving, Growing
  <2> QED
    BY <1>7, <2>1 DEF PlaceInv
<1>9. Exclusive'
  BY <1>1 DEF TableInv, Exclusive, Open_, Hd
<1>10. GrowInv'
  BY <1>1, <1>2, <1>7 DEF GrowInv, Growing
<1>11. SearchInv' /\ OpenInv' /\ EraseInv'
  BY <1>1 DEF SearchInv, OpenInv, EraseInv, Erasing
<1> QED
  BY <1>6, <1>7, <1>8, <1>9, <1>10, <1>11 DEF TableInv, PathInv


\* The header of the new sector reaches flash, and the writer moves to the sector.
LEMMA WriteFileInfoTable ==
  ASSUME IInv, TableInv, WriteFileInfo
  PROVE  TableInv'
<1>1. /\ pc = "write_file_info" /\ pc' \in {"idle", "write"} /\ call'.op \in {"none", "write"}
      /\ UNCHANGED alloc_unit_list /\ call.op \in {"open", "write"} /\ OnHandle
  <2>1. call \in Call /\ pc = "write_file_info" /\ call.op \in {"open", "write"}
    BY DEF WriteFileInfo, IInv, TypeOK, CallInv
  <2> QED
    BY <2>1 DEF WriteFileInfo, Return, Goto, NoCall, Call, OnHandle
<1>2. PICK g \in HandleId : g = call.handle /\ Open_(g) /\ Cur = Hd(g) /\ Cur \in Handle
  BY <1>1, CurHandle
<1>3. PICK s \in Sector : s = call.sector
  BY <1>1 DEF IInv, CallInv
<1>4. /\ FileOf(s) = Cur.file_id /\ Link(s) = None
      /\ RootOf(Cur.root_allocation_unit, Cur.file_id)
  BY <1>1, <1>3 DEF TableInv, PathInv, GrowInv, Growing
<1>5. PICK hd : /\ SetHandle(g, hd) /\ hd.file_id = Cur.file_id
                /\ hd.writeable = Cur.writeable
                /\ hd.root_allocation_unit = Cur.root_allocation_unit
                /\ hd.curr_allocation_unit = s
  <2> DEFINE hd == [Cur EXCEPT !.curr_allocation_unit = s,
                               !.last_data_offset = 0,
                               !.curr_data_offset = 0,
                               !.curr_session_offset = 0,
                               !.curr_session_value = 0,
                               !.page_cache = EmptyCache]
  <2>1. SetHandle(g, hd)
    BY <1>2, <1>3 DEF WriteFileInfo
  <2>2. /\ hd.file_id = Cur.file_id
        /\ hd.writeable = Cur.writeable
        /\ hd.root_allocation_unit = Cur.root_allocation_unit
        /\ hd.curr_allocation_unit = s
    BY <1>2 DEF Handle
  <2> QED
    BY <2>1, <2>2
<1>6. /\ fs_priv_handle_list'[g] = hd
      /\ \A h \in HandleId : h # g => fs_priv_handle_list'[h] = fs_priv_handle_list[h]
  BY <1>5 DEF SetHandle, IInv, TypeOK
<1>7. MirrorInv'
  <2>1. /\ header \in [Sector -> Header] /\ alloc_unit_list \in [Sector -> Header]
        /\ header[s] = [ErasedHeader EXCEPT !.alloc_counter = alloc_unit_list[s].alloc_counter]
        /\ \A t \in Sector : t # s => header[t] = alloc_unit_list[t]
    BY <1>1, <1>3 DEF IInv, TypeOK, TableInv, MirrorInv, InFlash, Growing
  <2>2. header' = [header EXCEPT ![s] = ProgramFileInfo(header[s], alloc_unit_list[s])]
    BY <1>3 DEF WriteFileInfo
  <2>3. header'[s] = alloc_unit_list[s]
    BY <2>1, <2>2, ProgramLinkAndEntry
  <2>4. \A t \in Sector : header'[t] = alloc_unit_list'[t]
    BY <1>1, <2>1, <2>2, <2>3
  <2> QED
    BY <1>1, <2>4 DEF MirrorInv, InFlash, Growing
<1>8. /\ \A t : FileOf(t)' = FileOf(t) /\ Link(t)' = Link(t)
      /\ \A t, f : RootOf(t, f)' = RootOf(t, f)
      /\ FreeInv' /\ LinkInv'
  BY <1>1, SameTable
<1>9. ASSUME NEW h \in HandleId PROVE PlaceInv(h)'
  <2>1. CASE h = g
    <3>1. /\ Hd(h)'.file_id = Cur.file_id /\ Hd(h)'.writeable = Cur.writeable
          /\ Hd(h)'.root_allocation_unit = Cur.root_allocation_unit
          /\ Hd(h)'.curr_allocation_unit = s
      BY <1>5, <1>6, <2>1 DEF Hd
    <3>2. Cur.file_id \in FileId
      BY <1>2 DEF TableInv, PlaceInv
    <3>3. ~ Opening(h)'
      BY <1>1 DEF Opening
    <3> QED
      BY <1>4, <1>8, <3>1, <3>2, <3>3 DEF PlaceInv
  <2>2. CASE h # g
    <3>1. PlaceInv(h) /\ Hd(h)' = Hd(h) /\ Open_(h)' = Open_(h)
      BY <1>6, <2>2 DEF TableInv, Hd, Open_
    <3>2. (Placed(h)' => Placed(h)) /\ ~ Opening(h)'
      BY <1>1, <1>2, <2>2, <3>1 DEF Placed, Opening, Moving
    <3> QED
      BY <1>8, <3>1, <3>2 DEF PlaceInv
  <2> QED
    BY <2>1, <2>2
<1>10. Exclusive'
  <2>1. \A h \in HandleId :
          /\ Open_(h)' => Open_(h)
          /\ Hd(h)'.file_id = Hd(h).file_id /\ Hd(h)'.writeable = Hd(h).writeable
    BY <1>2, <1>5, <1>6 DEF Hd, Open_
  <2> QED
    BY <2>1 DEF TableInv, Exclusive
<1>11. PathInv'
  BY <1>1 DEF PathInv, SearchInv, OpenInv, EraseInv, GrowInv, Growing, Erasing
<1> QED
  BY <1>7, <1>8, <1>9, <1>10, <1>11 DEF TableInv

-----------------------------------------------------------------------------
(***************************************************************************)
(* The theorems.                                                           *)
(***************************************************************************)

\* A step that changes nothing the invariant speaks of keeps it.
LEMMA StutterTable ==
  ASSUME TableInv, UNCHANGED vars
  PROVE  TableInv'
<1>1. /\ Table' = Table /\ (\A h \in HandleId : Hd(h)' = Hd(h) /\ Open_(h)' = Open_(h))
      /\ Cur' = Cur /\ call' = call /\ pc' = pc /\ UNCHANGED <<header, alloc_unit_list>>
      /\ UNCHANGED fs_priv_handle_list
  BY DEF vars, flashVars, ramVars, Table, Hd, Open_, Cur
<1>2. /\ \A s : FileOf(s)' = FileOf(s) /\ Link(s)' = Link(s)
      /\ \A s, f : RootOf(s, f)' = RootOf(s, f)
  BY <1>1 DEF FileOf, Link, RootOf, Headless
<1>3. MirrorInv' /\ FreeInv' /\ LinkInv'
  BY <1>1, <1>2 DEF TableInv, MirrorInv, InFlash, Growing, FreeInv, LinkInv
<1>4. (\A h \in HandleId : PlaceInv(h))' /\ Exclusive'
  BY <1>1, <1>2 DEF TableInv, PlaceInv, Exclusive, Placed, Opening, Moving, Growing
<1>5. PathInv'
  BY <1>1, <1>2 DEF TableInv, PathInv, SearchInv, OpenInv, EraseInv, GrowInv, Growing,
    Erasing, Unused, HandlesOn, Writers, Open_, RootOf, Headless, FileOf, Link
<1> QED
  BY <1>3, <1>4, <1>5 DEF TableInv

\* Whatever an orderly client calls.
LEMMA ClientTable ==
  ASSUME IInv, TableInv, Liberties = {}, Client
  PROVE  TableInv'
<1>1. CASE Mount \/ Unmount
  BY <1>1, MountTable
<1>2. CASE Format
  BY <1>2, FormatTable
<1>3. CASE \E f \in FileId : Remove(f) \/ Protect(f) \/ Unprotect(f)
  BY <1>3, FileCallsTable
<1>4. CASE \E f \in IF "reserved_id" \in Liberties THEN Nil(FileId) ELSE FileId, m \in Mode :
             Open(f, m)
  <2>1. PICK f \in FileId, m \in Mode : Open(f, m)
    BY <1>4
  <2> QED
    BY <2>1, FileCallsTable
<1>5. CASE \E h \in HandleId : Close(h)
  BY <1>5, CloseTable
<1>6. CASE \E h \in HandleId : Flush(h) \/ InvalidHandle(h)
  BY <1>6, HandleCallsTable
<1>7. CASE \E h \in HandleId, n \in WriteSizes : Write(h, n)
  BY <1>7, HandleCallsTable
<1>8. CASE \E h \in HandleId, n \in ReadSizes : Read(h, n)
  BY <1>8, HandleCallsTable
<1> QED
  BY <1>1, <1>2, <1>3, <1>4, <1>5, <1>6, <1>7, <1>8 DEF Client

\* Whatever the code does until the call returns.
LEMMA StepTable ==
  ASSUME IInv, TableInv, Step
  PROVE  TableInv'
<1>1. CASE ClimbToRoot
  BY <1>1, ClimbTable
<1>2. CASE FileMissing \/ OpenRefused \/ RemoveRefused
  BY <1>2, RefusalTable
<1>3. CASE OpenForReading
  BY <1>3, OpenForReadingTable
<1>4. CASE OpenForWriting \/ OpenNewFile
  BY <1>4, OpenGoesOnTable
<1>5. CASE FollowChain
  BY <1>5, FollowChainTable
<1>6. CASE OpenAtEnd
  BY <1>6, OpenAtEndTable
<1>7. CASE EraseBlock
  BY <1>7, EraseBlockTable
<1>8. CASE AllocateFree \/ Recycled
  BY <1>8, AllocateTable
<1>9. CASE RemoveNext
  BY <1>9, RemoveNextTable
<1>10. CASE FormatNext
  BY <1>10, FormatNextTable
<1>11. CASE RecycleRoot
  BY <1>11, RecycleRootTable
<1>12. CASE AllocateFails
  BY <1>12, AllocateFailsTable
<1>13. CASE WriteNext
  BY <1>13, WriteNextTable
<1>14. CASE WriteFileInfo
  BY <1>14, WriteFileInfoTable
<1>15. CASE FlushPageCache \/ UpdateSessionOffset
  BY <1>15, FlushTable
<1>16. CASE WriteDone \/ ReadDone \/ WriteToFullSector
  BY <1>16, DecisionsTable
<1>17. CASE FillCache \/ WritePage
  BY <1>17, WriteTable
<1>18. CASE ReadNextSector
  BY <1>18, ReadNextSectorTable
<1>19. CASE ReadBytes
  BY <1>19, ReadBytesTable
<1>20. CASE RemoveRoot
  BY <1>20, RemoveRootTable
<1>21. CASE \E op \in {"protect", "unprotect"} : SetProtection(op)
  BY <1>21, SetProtectionTable
<1> QED
  BY <1>1, <1>2, <1>3, <1>4, <1>5, <1>6, <1>7, <1>8, <1>9, <1>10, <1>11, <1>12, <1>13,
     <1>14, <1>15, <1>16, <1>17, <1>18, <1>19, <1>20, <1>21 DEF Step

\* Orderly clients leave the table coherent at every step: RAM differs from flash only
\* where a call is at work, the links of a file stay in the file, and every handle is on
\* a sector of its file (allocate_new_sector_to_file, erase_allocation_unit, open).
THEOREM TableInvariant ==
  ASSUME Liberties = {}
  PROVE  Spec => []TableInv
<1>1. IInv /\ TableInv /\ [Next]_vars => TableInv'
  <2> SUFFICES ASSUME IInv, TableInv, [Next]_vars PROVE TableInv'
    OBVIOUS
  <2>1. CASE Client
    BY <2>1, ClientTable
  <2>2. CASE Step
    BY <2>2, StepTable
  <2>3. CASE UNCHANGED vars
    BY <2>3, StutterTable
  <2> QED
    BY <2>1, <2>2, <2>3 DEF Next
<1> QED
  BY <1>1, Invariant, InitTable, PTL DEF Spec

\* Between calls the table in RAM is what flash holds, for every size of device and any
\* number of handles of orderly clients: a remount changes nothing.
THEOREM MirrorStaysCoherent ==
  ASSUME Liberties = {}
  PROVE  Spec => []MirrorCoherent
<1>1. IInv /\ TableInv => MirrorCoherent
  <2> SUFFICES ASSUME IInv, TableInv, pc = "idle" PROVE alloc_unit_list = header
    BY DEF MirrorCoherent
  <2>1. \A s \in Sector : header[s] = alloc_unit_list[s]
    BY DEF TableInv, MirrorInv, InFlash, Growing
  <2> QED
    BY <2>1 DEF IInv, TypeOK
<1> QED
  BY <1>1, Invariant, TableInvariant, PTL
=============================================================================
