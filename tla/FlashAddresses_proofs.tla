------------------------- MODULE FlashAddresses_proofs -------------------------
(***************************************************************************)
(* For every size of the device, FileSystem's requests stay where they     *)
(* belong and are ones the driver takes, whatever the clients do.          *)
(***************************************************************************)
EXTENDS FlashAddresses, FileSystem_proofs, PageArithmetic, Sequences

-----------------------------------------------------------------------------
(***************************************************************************)
(* The sectors on the chip.                                                *)
(***************************************************************************)

\* The sizes.
LEMMA UnitSizes ==
  /\ FS_PRIV_PAGE_SIZE \in Nat /\ FS_PRIV_PAGE_SIZE > 0
  /\ FS_PRIV_USABLE_SIZE \in Nat /\ FS_PRIV_USABLE_SIZE > 0
  /\ FS_PRIV_SECTOR_SIZE \in Nat
  /\ FS_PRIV_SECTOR_SIZE = FS_PRIV_PAGE_SIZE + FS_PRIV_USABLE_SIZE
  /\ FS_PRIV_NUM_WRITE_SESSIONS \in Nat /\ FS_PRIV_NUM_WRITE_SESSIONS > 0
  /\ 8 + 4 * FS_PRIV_NUM_WRITE_SESSIONS <= FS_PRIV_PAGE_SIZE
  /\ num_pages \in Nat
BY LayoutAssumption, DeviceAssumption
DEF Fits, WORD, FS_PRIV_SESSION_OFFSET, FS_PRIV_SECTOR_SIZE, FS_PRIV_ALLOC_UNIT_SIZE

\* A sector is a block of the chip: it starts at the beginning of a page and ends where
\* the next one starts, inside the chip.
LEMMA SectorOnChip ==
  ASSUME NEW s \in Sector
  PROVE  /\ FS_PRIV_SECTOR_ADDR(s) \in Nat
         /\ FS_PRIV_SECTOR_ADDR(s + 1) = FS_PRIV_SECTOR_ADDR(s) + FS_PRIV_SECTOR_SIZE
         /\ FS_PRIV_SECTOR_ADDR(s + 1) <= Chip!get_capacity
         /\ \E k \in Nat : FS_PRIV_SECTOR_ADDR(s) = FS_PRIV_PAGE_SIZE * k
<1> DEFINE P == FS_PRIV_PAGE_SIZE
           U == FS_PRIV_USABLE_SIZE
           Z == FS_PRIV_SECTOR_SIZE
           u == U \div P
<1>1. s \in Nat /\ s + 1 <= FS_PRIV_MAX_SECTORS /\ FS_PRIV_MAX_SECTORS \in Nat
  BY LayoutAssumption DEF Sector
<1>2. P \in Nat /\ P > 0 /\ U \in Nat /\ Z \in Nat /\ Z = P + U /\ U % P = 0
  BY UnitSizes, LayoutAssumption
<1>3. u \in Nat /\ U = P * u
  <2>1. u \in Nat /\ U % P \in 0 .. P - 1 /\ U = P * u + (U % P)
    BY <1>2, DivMod
  <2> HIDE DEF u
  <2> QED
    BY <2>1, <1>2, SMTT(30)
<1>4. FS_PRIV_MAX_SECTORS * Z <= num_pages * P
  BY DeviceAssumption DEF Fits
<1> HIDE DEF P, U, Z, u
<1>5. s * Z \in Nat /\ (s + 1) * Z = s * Z + Z
  BY <1>1, <1>2, SMTT(30)
<1>6. (s + 1) * Z <= FS_PRIV_MAX_SECTORS * Z
  BY <1>1, <1>2, SMTT(30)
<1>7. s * Z = P * (s * (1 + u)) /\ s * (1 + u) \in Nat
  <2>1. Z = P * (1 + u)
    BY <1>2, <1>3, SMTT(30)
  <2> QED
    BY <2>1, <1>1, <1>2, <1>3, SMTT(30)
<1>8. (s + 1) * Z <= num_pages * P
  <2>1. /\ (s + 1) * Z \in Int /\ FS_PRIV_MAX_SECTORS * Z \in Int /\ num_pages * P \in Int
    BY <1>1, <1>2, UnitSizes, SMTT(30) DEF P
  <2> QED
    BY <2>1, <1>4, <1>6
<1>9. FS_PRIV_SECTOR_ADDR(s) = s * Z /\ FS_PRIV_SECTOR_ADDR(s + 1) = (s + 1) * Z
  BY DEF FS_PRIV_SECTOR_ADDR, Z
<1>10. Chip!get_capacity = num_pages * P
  BY DEF Chip!get_capacity, P
<1>11. Z = FS_PRIV_SECTOR_SIZE /\ P = FS_PRIV_PAGE_SIZE
  BY DEF Z, P
<1> QED
  BY <1>5, <1>7, <1>8, <1>9, <1>10, <1>11

\* The place of an address in its page is the place of its offset in a sector.
LEMMA PlaceInPage ==
  ASSUME NEW s \in Sector, NEW i \in Nat
  PROVE  (FS_PRIV_SECTOR_ADDR(s) + i) % FS_PRIV_PAGE_SIZE = i % FS_PRIV_PAGE_SIZE
<1>1. PICK k \in Nat : FS_PRIV_SECTOR_ADDR(s) = FS_PRIV_PAGE_SIZE * k
  BY SectorOnChip
<1>2. FS_PRIV_PAGE_SIZE \in Nat /\ FS_PRIV_PAGE_SIZE > 0
  BY UnitSizes
<1>3. (FS_PRIV_PAGE_SIZE * k + i) % FS_PRIV_PAGE_SIZE = i % FS_PRIV_PAGE_SIZE
  BY <1>2, PagesBefore, Zenon
<1> QED
  BY <1>1, <1>3, Zenon

\* A request inside the allocation unit of a sector.
LEMMA UnitRequest ==
  ASSUME NEW s \in Sector, NEW i \in Nat, NEW n \in Nat \ {0}, i + n <= FS_PRIV_PAGE_SIZE,
         NEW op \in {"read", "write"}
  PROVE  LET c == FlashCall(op, FS_PRIV_SECTOR_ADDR(s) + i, n)
         IN  Taken(c) /\ Within(c, FS_PRIV_SECTOR_ADDR(s), data_addr(s, 0))
<1>1. i % FS_PRIV_PAGE_SIZE = i
  <2>1. i \in 0 .. FS_PRIV_PAGE_SIZE - 1 /\ FS_PRIV_PAGE_SIZE \in Nat /\ FS_PRIV_PAGE_SIZE > 0
    BY UnitSizes
  <2> QED
    BY <2>1, SMTT(30)
<1>2. (FS_PRIV_SECTOR_ADDR(s) + i) % FS_PRIV_PAGE_SIZE = i
  BY <1>1, PlaceInPage
<1>3. /\ FS_PRIV_SECTOR_ADDR(s) \in Nat
      /\ FS_PRIV_SECTOR_ADDR(s) + FS_PRIV_PAGE_SIZE <= Chip!get_capacity
      /\ Chip!get_capacity \in Int
  <2>1. Chip!get_capacity \in Int
    BY UnitSizes, SMTT(30) DEF Chip!get_capacity
  <2> QED
    BY <2>1, SectorOnChip, UnitSizes
<1> QED
  BY <1>2, <1>3, UnitSizes
  DEF FlashCall, Taken, Within, data_addr, FS_PRIV_ALLOC_UNIT_SIZE, Chip!FitsPage,
      Chip!FitsChip, Chip!Address

\* A request inside the data of a sector.
LEMMA DataRequest ==
  ASSUME NEW s \in Sector, NEW i \in Nat, NEW n \in Nat \ {0}, i + n <= FS_PRIV_USABLE_SIZE,
         NEW op \in {"read", "write"},
         op = "write" => (i % FS_PRIV_PAGE_SIZE) + n <= FS_PRIV_PAGE_SIZE
  PROVE  LET c == FlashCall(op, data_addr(s, i), n)
         IN  Taken(c) /\ Within(c, data_addr(s, 0), FS_PRIV_SECTOR_ADDR(s + 1))
<1>1. data_addr(s, i) % FS_PRIV_PAGE_SIZE = i % FS_PRIV_PAGE_SIZE
  <2>1. FS_PRIV_PAGE_SIZE + i \in Nat
    BY UnitSizes
  <2>2. data_addr(s, i) % FS_PRIV_PAGE_SIZE = (FS_PRIV_PAGE_SIZE + i) % FS_PRIV_PAGE_SIZE
    <3>1. data_addr(s, i) = FS_PRIV_SECTOR_ADDR(s) + (FS_PRIV_PAGE_SIZE + i)
      BY SectorOnChip, UnitSizes DEF data_addr, FS_PRIV_ALLOC_UNIT_SIZE
    <3> QED
      BY <2>1, <3>1, PlaceInPage
  <2>3. (FS_PRIV_PAGE_SIZE + i) % FS_PRIV_PAGE_SIZE = i % FS_PRIV_PAGE_SIZE
    <3>1. FS_PRIV_PAGE_SIZE * 1 + i = FS_PRIV_PAGE_SIZE + i
      BY UnitSizes
    <3>2. FS_PRIV_PAGE_SIZE \in Nat /\ FS_PRIV_PAGE_SIZE > 0 /\ 1 \in Nat
      BY UnitSizes
    <3>3. (FS_PRIV_PAGE_SIZE * 1 + i) % FS_PRIV_PAGE_SIZE = i % FS_PRIV_PAGE_SIZE
      BY <3>2, PagesBefore, Zenon
    <3> QED
      BY <3>1, <3>3, Zenon
  <2> QED
    BY <2>2, <2>3
<1>2. Chip!get_capacity \in Int
  BY UnitSizes, SMTT(30) DEF Chip!get_capacity
<1>3. /\ FS_PRIV_SECTOR_ADDR(s) \in Nat
      /\ FS_PRIV_SECTOR_ADDR(s + 1) =
           FS_PRIV_SECTOR_ADDR(s) + FS_PRIV_PAGE_SIZE + FS_PRIV_USABLE_SIZE
      /\ FS_PRIV_SECTOR_ADDR(s + 1) <= Chip!get_capacity
  BY SectorOnChip, UnitSizes
<1>4. /\ data_addr(s, i) = FS_PRIV_SECTOR_ADDR(s) + FS_PRIV_PAGE_SIZE + i
      /\ data_addr(s, 0) = FS_PRIV_SECTOR_ADDR(s) + FS_PRIV_PAGE_SIZE
  BY <1>3, UnitSizes DEF data_addr, FS_PRIV_ALLOC_UNIT_SIZE
<1> QED
  BY <1>1, <1>2, <1>3, <1>4, UnitSizes, SMTT(30)
  DEF FlashCall, Taken, Within, Chip!FitsPage, Chip!FitsChip, Chip!Address

\* An erasure is of the sector's own block.
LEMMA EraseRequest ==
  ASSUME NEW s \in Sector
  PROVE  LET c == FlashCall("erase_block", FS_PRIV_SECTOR_ADDR(s), FS_PRIV_SECTOR_SIZE)
         IN  Taken(c) /\ Chip!BlockOf(c.addr) = s /\ c.addr = FS_PRIV_SECTOR_ADDR(s)
<1> DEFINE z == FS_PRIV_SECTOR_SIZE
           q == (s * z) \div z
           r == (s * z) % z
<1>1. z \in Nat /\ z > 0 /\ s \in Nat
  BY UnitSizes DEF Sector
<1>2. s * z \in Nat /\ s * z = z * s + 0
  BY <1>1, SMTT(30)
<1>3. q \in Nat /\ r \in 0 .. z - 1 /\ s * z = z * q + r
  <2> HIDE DEF z
  <2> QED
    BY <1>1, <1>2, DivMod
<1> HIDE DEF z, q, r
<1>4. q = s
  <2>1. q \in Int /\ s \in Int /\ 0 \in 0 .. z - 1 /\ z * q + r = z * s + 0
    BY <1>1, <1>2, <1>3
  <2> QED
    BY <2>1, <1>1, <1>3, DivModUnique
<1>5. Chip!BlockOf(FS_PRIV_SECTOR_ADDR(s)) = s
  BY <1>4 DEF Chip!BlockOf, FS_PRIV_SECTOR_ADDR, q, z
<1>6. FS_PRIV_SECTOR_ADDR(s) \in Chip!Address
  <2>1. Chip!get_capacity \in Int
    BY UnitSizes, SMTT(30) DEF Chip!get_capacity
  <2> QED
    BY <2>1, SectorOnChip, UnitSizes DEF Chip!Address
<1> QED
  BY <1>5, <1>6 DEF FlashCall, Taken

-----------------------------------------------------------------------------
(***************************************************************************)
(* The requests.                                                           *)
(***************************************************************************)

\* flush_handle goes on only with a session slot to write (FileSystem.cpp:375).
SlotInv ==
  pc \in {"flush_page_cache", "update_session_offset"} => Cur.curr_session_offset \in Slot

\* The handle of the running call is one, and it is on a sector.
LEMMA CurrentHandle ==
  ASSUME IInv, OnHandle
  PROVE  /\ call.handle \in HandleId /\ Open_(call.handle) /\ Cur \in Handle
         /\ HandleInv(call.handle)
         /\ call.op # "open" => Cur.curr_allocation_unit \in Sector
<1>1. call.handle \in HandleId /\ Open_(call.handle)
  BY DEF IInv, CallInv
<1>2. Cur \in Handle
  BY <1>1 DEF IInv, TypeOK, Cur
<1>3. HandleInv(call.handle)
  BY <1>1 DEF IInv
<1>4. call.op # "open" => Cur.curr_allocation_unit \in Sector
  BY <1>1, <1>3 DEF HandleInv, Opening, Cur
<1> QED
  BY <1>1, <1>2, <1>3, <1>4

\* The calls that begin a flush have a slot.
LEMMA SlotTaken ==
  ASSUME IInv, NEW h \in HandleId, Flush(h) \/ Close(h) PROVE SlotInv'
<1> SUFFICES ASSUME pc' \in {"flush_page_cache", "update_session_offset"}
             PROVE  fs_priv_handle_list'[call'.handle].curr_session_offset \in Slot
  BY DEF SlotInv, Cur
<1>1. /\ CanFlush(fs_priv_handle_list[h]) /\ call'.handle = h
      /\ fs_priv_handle_list' = fs_priv_handle_list
  BY DEF Flush, Close, BeginOnHandle, Goto, Return, NoCall, ramVars
<1>2. fs_priv_handle_list[h] \in Handle
  BY DEF IInv, TypeOK
<1> QED
  BY <1>1, <1>2 DEF CanFlush, Handle, Nil

\* No other call begins in flush_handle.
LEMMA SlotClient ==
  ASSUME IInv, Client PROVE SlotInv'
<1>1. CASE \E h \in HandleId : Flush(h) \/ Close(h)
  BY <1>1, SlotTaken
<1>2. CASE Mount \/ Unmount \/ Format
  BY <1>2 DEF Mount, Unmount, Format, Goto, SlotInv
<1>3. CASE \E f \in FileId : Remove(f) \/ Protect(f) \/ Unprotect(f)
  BY <1>3 DEF Remove, Protect, Unprotect, ChangeProtection, BeginOnFile, Goto, SlotInv
<1>4. CASE \E f \in Nil(FileId), m \in Mode : Open(f, m)
  BY <1>4 DEF Open, BeginOnFile, Goto, SlotInv
<1>5. CASE \E h \in HandleId : InvalidHandle(h)
  BY <1>5 DEF InvalidHandle, Return, Goto, SlotInv
<1>6. CASE \E h \in HandleId, n \in WriteSizes : Write(h, n)
  BY <1>6 DEF Write, BeginOnHandle, Return, Goto, SlotInv
<1>7. CASE \E h \in HandleId, n \in ReadSizes : Read(h, n)
  BY <1>7 DEF Read, BeginOnHandle, Return, Goto, SlotInv
<1> QED
  BY <1>1, <1>2, <1>3, <1>4, <1>5, <1>6, <1>7 DEF Client, Nil

\* write enters flush_handle with a slot, and the page is flushed without using it.
LEMMA SlotStep ==
  ASSUME IInv, SlotInv, Step PROVE SlotInv'
<1>1. CASE WriteToFullSector
  <2>1. OnHandle
    BY <1>1 DEF WriteToFullSector, OnHandle
  <2>2. Cur \in Handle /\ Cur' = Cur
    BY <1>1, <2>1, CurrentHandle DEF WriteToFullSector, Goto, Cur, ramVars
  <2>3. pc' = "flush_page_cache" => CanFlush(Cur)
    BY <1>1 DEF WriteToFullSector, Goto
  <2>4. pc' # "update_session_offset"
    BY <1>1 DEF WriteToFullSector, Goto
  <2> QED
    BY <2>2, <2>3, <2>4 DEF SlotInv, CanFlush, Handle, Nil
<1>2. CASE FlushPageCache
  <2>1. OnHandle /\ pc = "flush_page_cache"
    BY <1>2 DEF FlushPageCache, OnHandle
  <2>2. call.handle \in HandleId /\ Cur \in Handle
    BY <2>1, CurrentHandle
  <2>3. Cur'.curr_session_offset = Cur.curr_session_offset
    BY <1>2, <2>2 DEF FlushPageCache, SetHandle, Cur, IInv, TypeOK, Handle
  <2> QED
    BY <2>1, <2>3 DEF SlotInv
<1>3. CASE ClimbToRoot \/ FileMissing \/ OpenRefused \/ OpenForReading \/ OpenForWriting
           \/ OpenNewFile \/ FollowChain \/ OpenAtEnd
  BY <1>3
  DEF ClimbToRoot, FileMissing, OpenRefused, OpenForReading, OpenForWriting, OpenNewFile,
      FollowChain, OpenAtEnd, Return, Goto, SlotInv
<1>4. CASE EraseBlock \/ Recycled \/ RemoveNext \/ FormatNext \/ AllocateFree
           \/ RecycleRoot \/ AllocateFails \/ WriteNext \/ WriteFileInfo
  BY <1>4
  DEF EraseBlock, Recycled, RemoveNext, FormatNext, AllocateFree, RecycleRoot,
      AllocateFails, WriteNext, WriteFileInfo, Claim, EraseNext, Return, Goto, SlotInv
<1>5. CASE UpdateSessionOffset \/ WriteDone \/ FillCache \/ WritePage
  BY <1>5
  DEF UpdateSessionOffset, WriteDone, FillCache, WritePage, Return, Goto, SlotInv
<1>6. CASE ReadDone \/ ReadNextSector \/ ReadBytes \/ RemoveRefused \/ RemoveRoot
           \/ \E op \in {"protect", "unprotect"} : SetProtection(op)
  BY <1>6
  DEF ReadDone, ReadNextSector, ReadBytes, RemoveRefused, RemoveRoot, SetProtection,
      EraseNext, Return, Goto, SlotInv
<1> QED
  BY <1>1, <1>2, <1>3, <1>4, <1>5, <1>6 DEF Step

\* Together with the invariant of FileSystem.
LEMMA SlotInvariant == Spec => []SlotInv
<1>1. Init => SlotInv
  BY DEF Init, SlotInv
<1>2. IInv /\ SlotInv /\ [Next]_vars => SlotInv'
  <2>1. ASSUME SlotInv, UNCHANGED vars PROVE SlotInv'
    BY <2>1 DEF vars, ramVars, SlotInv, Cur
  <2> QED
    BY <2>1, SlotClient, SlotStep DEF Next
<1> QED
  BY <1>1, <1>2, Invariant, PTL DEF Spec

\* A file that open creates has no root yet, so no sector is recycled or linked for it.
LinkInv ==
  /\ pc = "allocate" /\ call.op = "open" => Cur.root_allocation_unit = FS_PRIV_NOT_ALLOCATED
  /\ pc \in {"erase_block", "write_counter", "write_next"} => call.op # "open"

\* Calls do not begin in the allocation.
LEMMA LinkClient ==
  ASSUME IInv, Client PROVE LinkInv'
<1>1. CASE \E h \in HandleId : Flush(h) \/ Close(h) \/ InvalidHandle(h)
  BY <1>1 DEF Flush, Close, InvalidHandle, BeginOnHandle, Return, Goto, LinkInv
<1>2. CASE Mount \/ Unmount
  BY <1>2 DEF Mount, Unmount, LinkInv
<1>3. CASE Format
  BY <1>3 DEF Format, Goto, NoCall, LinkInv
<1>4. CASE \E f \in FileId : Remove(f) \/ Protect(f) \/ Unprotect(f)
  BY <1>4 DEF Remove, Protect, Unprotect, ChangeProtection, BeginOnFile, Goto, LinkInv
<1>5. CASE \E f \in Nil(FileId), m \in Mode : Open(f, m)
  BY <1>5 DEF Open, BeginOnFile, Goto, LinkInv
<1>6. CASE \E h \in HandleId, n \in WriteSizes : Write(h, n)
  BY <1>6 DEF Write, BeginOnHandle, Return, Goto, LinkInv
<1>7. CASE \E h \in HandleId, n \in ReadSizes : Read(h, n)
  BY <1>7 DEF Read, BeginOnHandle, Return, Goto, LinkInv
<1> QED
  BY <1>1, <1>2, <1>3, <1>4, <1>5, <1>6, <1>7 DEF Client, Nil

\* The steps of a call.
LEMMA LinkStep ==
  ASSUME IInv, LinkInv, Step PROVE LinkInv'
<1>1. CASE OpenNewFile
  <2> DEFINE h == Min(FreeHandles)
  <2>1. call.sector = FS_PRIV_NOT_ALLOCATED /\ OpenAccepted
    BY <1>1 DEF OpenNewFile
  <2>2. h \in HandleId
    <3>1. FreeHandles \in SUBSET (Nat \cup {-1}) /\ FreeHandles # {}
      BY <2>1, HandleIdIsNatural DEF FreeHandles, OpenAccepted
    <3>2. h \in FreeHandles
      BY <3>1, MinIsLeast
    <3> QED
      BY <3>2 DEF FreeHandles
  <2>3. OpenedHandle.root_allocation_unit = FS_PRIV_NOT_ALLOCATED
    BY <2>1 DEF OpenedHandle, FreeHandle
  <2> HIDE DEF h
  <2>4. fs_priv_handle_list' = [fs_priv_handle_list EXCEPT ![h] = OpenedHandle]
        /\ call'.handle = h /\ pc' = "allocate"
    BY <1>1 DEF OpenNewFile, SetHandle, Goto, IInv, TypeOK, Call, h
  <2>5. Cur' = OpenedHandle
    BY <2>2, <2>4 DEF Cur, IInv, TypeOK
  <2> QED
    BY <2>3, <2>4, <2>5 DEF LinkInv
<1>2. CASE ClimbToRoot \/ FileMissing \/ OpenRefused \/ OpenForReading \/ OpenForWriting
           \/ FollowChain \/ OpenAtEnd
  BY <1>2
  DEF ClimbToRoot, FileMissing, OpenRefused, OpenForReading, OpenForWriting,
      FollowChain, OpenAtEnd, Return, Goto, LinkInv
<1>3. CASE EraseBlock
  BY <1>3 DEF EraseBlock, LinkInv
<1>4. CASE RemoveNext \/ FormatNext \/ RemoveRoot
  BY <1>4
  DEF RemoveNext, FormatNext, RemoveRoot, AtRoot, EraseNext, Return, Goto, LinkInv, IInv,
      TypeOK, Call
<1>5. CASE AllocateFree
  <2>1. call.op = "open" => Cur.root_allocation_unit = FS_PRIV_NOT_ALLOCATED
    BY <1>5 DEF AllocateFree, LinkInv
  <2>2. call'.op = call.op /\ pc' \in {"write_next", "write_file_info"}
    BY <1>5 DEF AllocateFree, Claim, Goto, IInv, TypeOK, Call
  <2>3. call.op = "open" => pc' = "write_file_info"
    BY <1>5, <2>1 DEF AllocateFree, Claim, Goto
  <2> QED
    BY <2>2, <2>3 DEF LinkInv
<1>6. CASE Recycled
  <2>1. call.op # "open" /\ call'.op = call.op /\ pc' \in {"write_next", "write_file_info"}
    BY <1>6 DEF Recycled, WriteCounter, Claim, Goto, IInv, TypeOK, Call, LinkInv
  <2> QED
    BY <2>1 DEF LinkInv
<1>7. CASE RecycleRoot
  <2>1. call.op # "open"
    BY <1>7 DEF RecycleRoot, CanRecycle, LinkInv
  <2>2. call'.op = call.op /\ pc' = "erase_block"
    BY <1>7 DEF RecycleRoot, Goto, IInv, TypeOK, Call
  <2> QED
    BY <2>1, <2>2 DEF LinkInv
<1>8. CASE AllocateFails \/ WriteNext \/ WriteFileInfo
  BY <1>8 DEF AllocateFails, WriteNext, WriteFileInfo, Return, Goto, LinkInv
<1>9. CASE UpdateSessionOffset
  BY <1>9 DEF UpdateSessionOffset, Return, Goto, LinkInv
<1>10. CASE WriteToFullSector
  <2>1. call.op = "write" /\ call' = call /\ pc' \in {"flush_page_cache", "allocate"}
    BY <1>10 DEF WriteToFullSector, Goto, IInv, CallInv
  <2> QED
    BY <2>1 DEF LinkInv
<1>11. CASE FlushPageCache \/ WriteDone \/ FillCache \/ WritePage
  BY <1>11 DEF FlushPageCache, WriteDone, FillCache, WritePage, Return, Goto, LinkInv
<1>12. CASE ReadDone \/ ReadNextSector \/ ReadBytes \/ RemoveRefused
            \/ \E op \in {"protect", "unprotect"} : SetProtection(op)
  BY <1>12
  DEF ReadDone, ReadNextSector, ReadBytes, RemoveRefused, SetProtection, Return, Goto, LinkInv
<1> QED
  BY <1>1, <1>2, <1>3, <1>4, <1>5, <1>6, <1>7, <1>8, <1>9, <1>10, <1>11, <1>12 DEF Step

\* Together with the invariant of FileSystem.
LEMMA LinkInvariant == Spec => []LinkInv
<1>1. Init => LinkInv
  BY DEF Init, LinkInv
<1>2. IInv /\ LinkInv /\ [Next]_vars => LinkInv'
  <2>1. ASSUME LinkInv, UNCHANGED vars PROVE LinkInv'
    BY <2>1 DEF vars, ramVars, LinkInv, Cur
  <2> QED
    BY <2>1, LinkClient, LinkStep DEF Next
<1> QED
  BY <1>1, <1>2, Invariant, PTL DEF Spec

\* The requests about headers and session slots.
LEMMA UnitCallsInPlace ==
  ASSUME IInv, SlotInv, LinkInv, NEW c \in UnitCalls
  PROVE  \E s \in Sector :
           Taken(c) /\ Within(c, FS_PRIV_SECTOR_ADDR(s), data_addr(s, 0))
<1> DEFINE InUnit(s) ==
      \E i \in Nat, n \in Nat \ {0}, op \in {"read", "write"} :
        /\ i + n <= FS_PRIV_PAGE_SIZE
        /\ c = FlashCall(op, FS_PRIV_SECTOR_ADDR(s) + i, n)
<1>1. ASSUME NEW s \in Sector, InUnit(s)
      PROVE  Taken(c) /\ Within(c, FS_PRIV_SECTOR_ADDR(s), data_addr(s, 0))
  BY <1>1, UnitRequest
<1>2. ASSUME NEW s \in Sector, c = ReadSessions(s) PROVE InUnit(s)
  <2>1. c = FlashCall("read", FS_PRIV_SECTOR_ADDR(s) + 8, 4 * FS_PRIV_NUM_WRITE_SESSIONS)
    BY <1>2, SectorOnChip
    DEF ReadSessions, session_addr, FS_PRIV_SESSION_OFFSET, WORD
  <2> QED
    BY <2>1, UnitSizes
<1>3. ASSUME NEW s \in Sector, NEW n \in 1 .. 8, NEW op \in {"read", "write"},
             c = FlashCall(op, FS_PRIV_SECTOR_ADDR(s), n)
      PROVE  InUnit(s)
  <2>1. c = FlashCall(op, FS_PRIV_SECTOR_ADDR(s) + 0, n)
    BY <1>3, SectorOnChip
  <2> QED
    BY <2>1, UnitSizes
<1>4. ASSUME NEW s \in Sector, NEW i \in Slot,
             c = FlashCall("write", session_addr(s, i), WORD)
      PROVE  InUnit(s)
  <2>1. i \in Nat /\ i + 1 <= FS_PRIV_NUM_WRITE_SESSIONS
    BY UnitSizes DEF Slot
  <2>2. c = FlashCall("write", FS_PRIV_SECTOR_ADDR(s) + (8 + 4 * i), 4)
    BY <1>4, <2>1, SectorOnChip DEF session_addr, FS_PRIV_SESSION_OFFSET, WORD
  <2> DEFINE j == 8 + 4 * i
  <2>3. j \in Nat /\ j + 4 <= FS_PRIV_PAGE_SIZE
    BY <2>1, UnitSizes
  <2>4. c = FlashCall("write", FS_PRIV_SECTOR_ADDR(s) + j, 4)
    BY <2>2
  <2> HIDE DEF j
  <2>5. 4 \in Nat \ {0}
    OBVIOUS
  <2> QED
    BY <2>3, <2>4, <2>5
<1>5. CASE pc = "unmounted"
  <2>1. PICK s \in Sector : c = FlashCall("read", FS_PRIV_SECTOR_ADDR(s), 8)
    BY <1>5 DEF UnitCalls, AtRoot, FS_PRIV_SESSION_OFFSET
  <2> QED
    BY <2>1, <1>1, <1>3
<1>6. CASE pc = "find_file_root"
  <2>1. call.sector \in Nil(Sector)
    BY DEF IInv, TypeOK, Call
  <2>2. \/ call.sector \in Sector /\ c = ReadSessions(call.sector)
        \/ call.sector \in Sector /\ c = FlashCall("write", protect_addr(call.sector), 1)
    BY <1>6, <2>1 DEF UnitCalls, AtRoot, Nil
  <2>3. ASSUME call.sector \in Sector, c = FlashCall("write", protect_addr(call.sector), 1)
        PROVE  InUnit(call.sector)
    <3>1. c = FlashCall("write", FS_PRIV_SECTOR_ADDR(call.sector) + 1, 1)
      BY <2>3 DEF protect_addr, FS_PRIV_FILE_PROTECT_OFFSET
    <3> QED
      BY <3>1, UnitSizes
  <2> QED
    BY <2>2, <2>3, <1>1, <1>2
<1>7. CASE pc = "find_last_allocation_unit"
  <2>1. call.sector \in Sector /\ c = ReadSessions(call.sector)
    BY <1>7 DEF UnitCalls, AtRoot, IInv, CallInv
  <2> QED
    BY <2>1, <1>1, <1>2
<1>8. CASE pc = "write_counter"
  <2>1. /\ call.sector \in Sector
        /\ c = FlashCall("write", FS_PRIV_SECTOR_ADDR(call.sector) + 4, 4)
    BY <1>8
    DEF UnitCalls, AtRoot, IInv, CallInv, counter_addr, FS_PRIV_ALLOC_COUNTER_OFFSET, WORD
  <2>2. InUnit(call.sector)
    BY <2>1, UnitSizes
  <2> QED
    BY <2>1, <2>2, <1>1
<1>9. CASE pc = "write_file_info"
  <2>1. /\ call.sector \in Sector
        /\ c = FlashCall("write", FS_PRIV_SECTOR_ADDR(call.sector), 4)
    BY <1>9 DEF UnitCalls, AtRoot, IInv, CallInv, WORD
  <2> QED
    BY <2>1, <1>1, <1>3
<1>10. CASE pc = "write_next"
  <2>1. c = FlashCall("write", FS_PRIV_SECTOR_ADDR(Cur.curr_allocation_unit), 4)
    BY <1>10 DEF UnitCalls, AtRoot, WORD
  <2>2. Cur.curr_allocation_unit \in Sector
    BY <1>10, CurrentHandle DEF OnHandle, LinkInv
  <2> QED
    BY <2>1, <2>2, <1>1, <1>3
<1>11. CASE pc = "update_session_offset"
  <2>1. c = FlashCall("write",
                      session_addr(Cur.curr_allocation_unit, Cur.curr_session_offset), WORD)
    BY <1>11 DEF UnitCalls, AtRoot
  <2>2. call.op # "open"
    BY <1>11 DEF IInv, CallInv
  <2>3. Cur.curr_allocation_unit \in Sector
    BY <1>11, <2>2, CurrentHandle DEF OnHandle
  <2>4. Cur.curr_session_offset \in Slot
    BY <1>11 DEF SlotInv
  <2> QED
    BY <2>1, <2>3, <2>4, <1>1, <1>4
<1>12. CASE pc = "read"
  <2> DEFINE next == alloc_unit_list[Cur.curr_allocation_unit].next_allocation_unit
  <2>1. AtSectorEnd /\ ~ is_eof(Cur) /\ c = ReadSessions(next)
    BY <1>12 DEF UnitCalls, AtRoot
  <2>2. call.op # "open"
    BY <1>12 DEF IInv, CallInv
  <2>3. Cur.curr_allocation_unit \in Sector
    BY <1>12, <2>2, CurrentHandle DEF OnHandle
  <2>4. next \in Nil(Sector)
    BY <2>3 DEF IInv, TypeOK, Header
  <2>5. next # FS_PRIV_NOT_ALLOCATED
    BY <2>1 DEF AtSectorEnd, is_eof, is_last_allocation_unit
  <2>6. next \in Sector
    BY <2>4, <2>5 DEF Nil
  <2> QED
    BY <2>1, <2>6, <1>1, <1>2
<1> QED
  BY <1>5, <1>6, <1>7, <1>8, <1>9, <1>10, <1>11, <1>12 DEF UnitCalls, AtRoot

\* The requests about data.
LEMMA DataCallsInPlace ==
  ASSUME IInv, NEW c \in DataCalls
  PROVE  \E s \in Sector :
           Taken(c) /\ Within(c, data_addr(s, 0), FS_PRIV_SECTOR_ADDR(s + 1))
<1> DEFINE hd == Cur
           s  == Cur.curr_allocation_unit
<1>1. pc \in {"flush_page_cache", "write_page", "read"}
  BY DEF DataCalls
<1>2. /\ call.handle \in HandleId /\ Open_(call.handle) /\ hd \in Handle
      /\ HandleInv(call.handle)
  BY <1>1, CurrentHandle DEF OnHandle
<1>3. s \in Sector
  <2>1. call.op # "open"
    BY <1>1 DEF IInv, CallInv
  <2> QED
    BY <1>1, <2>1, CurrentHandle DEF OnHandle
<1>4. /\ hd.last_data_offset \in Nat /\ hd.curr_data_offset \in Nat
      /\ hd.last_data_offset <= FS_PRIV_USABLE_SIZE
      /\ hd.curr_data_offset <= FS_PRIV_USABLE_SIZE
  BY <1>2, UnitSizes DEF Handle, Offset
<1>5. hd.last_data_offset % FS_PRIV_PAGE_SIZE \in 0 .. FS_PRIV_PAGE_SIZE - 1
  BY <1>4, UnitSizes, DivMod
<1>6. CASE pc \in {"flush_page_cache", "write_page"}
  <2>1. hd.writeable /\ fs_priv_handle_list[call.handle] = hd
    BY <1>6 DEF IInv, CallInv, Cur
  <2>2. cached_bytes(hd) \in 0 .. page_boundary(hd)
    BY <1>2, <2>1 DEF HandleInv
  <2>3. pc = "write_page" => cached_bytes(hd) = page_boundary(hd)
    BY DEF IInv, CallInv
  <2>4. /\ c = FlashCall("write", data_addr(s, hd.last_data_offset), cached_bytes(hd))
        /\ cached_bytes(hd) > 0
    <3>1. CASE pc = "flush_page_cache"
      BY <3>1 DEF DataCalls
    <3>2. CASE pc = "write_page"
      <4>1. page_boundary(hd) > 0
        BY <1>5, UnitSizes DEF page_boundary
      <4> QED
        BY <3>2, <4>1, <2>3 DEF DataCalls
    <3> QED
      BY <1>6, <3>1, <3>2
  <2>5. /\ cached_bytes(hd) \in Nat \ {0}
        /\ hd.last_data_offset + cached_bytes(hd) <= FS_PRIV_USABLE_SIZE
        /\ (hd.last_data_offset % FS_PRIV_PAGE_SIZE) + cached_bytes(hd) <= FS_PRIV_PAGE_SIZE
    BY <1>4, <1>5, <2>2, <2>4, UnitSizes DEF cached_bytes, page_boundary
  <2> HIDE DEF hd, s
  <2> QED
    BY <1>3, <1>4, <2>4, <2>5, DataRequest
<1>7. CASE pc = "read"
  <2> DEFINE n == SmallerOf(call.size, hd.last_data_offset - hd.curr_data_offset)
  <2>1. ~ hd.writeable /\ fs_priv_handle_list[call.handle] = hd
    BY <1>7 DEF IInv, CallInv, Cur
  <2>2. hd.curr_data_offset <= hd.last_data_offset
    BY <1>2, <2>1 DEF HandleInv
  <2>3. /\ c = FlashCall("read", data_addr(s, hd.curr_data_offset), n)
        /\ call.size > 0 /\ hd.last_data_offset # hd.curr_data_offset
    BY <1>7 DEF DataCalls, AtSectorEnd
  <2>4. call.size \in Nat
    BY DEF IInv, TypeOK, Call
  <2>5. n \in Nat \ {0} /\ hd.curr_data_offset + n <= FS_PRIV_USABLE_SIZE
    BY <1>4, <2>2, <2>3, <2>4, UnitSizes DEF SmallerOf
  <2> HIDE DEF hd, s, n
  <2> QED
    BY <1>3, <1>4, <2>3, <2>5, DataRequest
<1> QED
  BY <1>1, <1>6, <1>7

\* Every request of FileSystem stays in its part of one sector, crosses no page when it
\* writes, stays on the chip, and erases the block of its own sector: what the comment
\* at FileSystem.cpp:312-315 says, for every device and every client.
THEOREM RequestsInPlace == Spec => []CallsInPlace
<1>1. IInv /\ SlotInv /\ LinkInv => CallsInPlace
  <2> SUFFICES ASSUME IInv, SlotInv, LinkInv PROVE CallsInPlace
    OBVIOUS
  <2>1. ASSUME NEW c \in EraseCalls
        PROVE  \E s \in Sector :
                 Taken(c) /\ Chip!BlockOf(c.addr) = s /\ c.addr = FS_PRIV_SECTOR_ADDR(s)
    <3>1. call.sector \in Sector
      BY DEF EraseCalls, IInv, CallInv
    <3>2. c = FlashCall("erase_block", FS_PRIV_SECTOR_ADDR(call.sector), FS_PRIV_SECTOR_SIZE)
      BY DEF EraseCalls
    <3> QED
      BY <3>1, <3>2, EraseRequest
  <2> QED
    BY <2>1, UnitCallsInPlace, DataCallsInPlace DEF CallsInPlace
<1> QED
  BY <1>1, Invariant, SlotInvariant, LinkInvariant, PTL

-----------------------------------------------------------------------------
(***************************************************************************)
(* The bytes a step changes.                                               *)
(***************************************************************************)

\* The step asks for a change of byte i of sector s.
Asked(s, i) ==
  \E c \in UnitCalls \cup DataCalls \cup EraseCalls :
    c.op # "read" /\ Covers(c, FS_PRIV_SECTOR_ADDR(s) + i)

Byte_of_sector == 0 .. FS_PRIV_SECTOR_SIZE - 1

\* A request for n bytes from byte `from' of the sector on covers them.
LEMMA AskedFor ==
  ASSUME NEW s \in Sector, NEW from \in Nat, NEW n \in Nat, NEW i \in from .. from + n - 1,
         NEW op \in {"write", "erase_block"},
         FlashCall(op, FS_PRIV_SECTOR_ADDR(s) + from, n) \in UnitCalls \cup DataCalls \cup EraseCalls
  PROVE  Asked(s, i)
<1> DEFINE c == FlashCall(op, FS_PRIV_SECTOR_ADDR(s) + from, n)
<1>1. c.op # "read" /\ c.addr = FS_PRIV_SECTOR_ADDR(s) + from /\ c.size = n
  BY DEF FlashCall
<1>2. Covers(c, FS_PRIV_SECTOR_ADDR(s) + i)
  <2> HIDE DEF c
  <2> QED
    BY <1>1, SectorOnChip DEF Covers
<1> QED
  BY <1>1, <1>2 DEF Asked

\* A sector that keeps its header, its slots and its data keeps its bytes.
LEMMA SameSector ==
  ASSUME NEW s \in Sector, NEW i \in Byte_of_sector,
         header'[s] = header[s], session'[s] = session[s], data'[s] = data[s]
  PROVE  Stored(s, i)' = Stored(s, i)
BY DEF Stored

\* An erasure is asked for the whole sector.
LEMMA EraseAsked ==
  ASSUME IInv, EraseBlock, NEW s \in Sector, NEW i \in Byte_of_sector,
         Stored(s, i)' # Stored(s, i)
  PROVE  Asked(s, i)
<1>1. pc = "erase_block" /\ call.sector \in Sector
  BY DEF EraseBlock, IInv, CallInv
<1>2. s = call.sector
  BY SameSector DEF EraseBlock, IInv, TypeOK
<1>3. FlashCall("erase_block", FS_PRIV_SECTOR_ADDR(s) + 0, FS_PRIV_SECTOR_SIZE) \in EraseCalls
  BY <1>1, <1>2, SectorOnChip DEF EraseCalls
<1>4. i \in 0 .. 0 + FS_PRIV_SECTOR_SIZE - 1 /\ FS_PRIV_SECTOR_SIZE \in Nat
  BY UnitSizes DEF Byte_of_sector
<1> QED
  BY <1>3, <1>4, AskedFor

\* The erase counter is the second word of the header.
LEMMA CounterAsked ==
  ASSUME IInv, WriteCounter, UNCHANGED <<session, data>>, NEW s \in Sector,
         NEW i \in Byte_of_sector, Stored(s, i)' # Stored(s, i)
  PROVE  Asked(s, i)
<1>1. pc = "write_counter" /\ call.sector \in Sector
  BY DEF WriteCounter, IInv, CallInv
<1>2. s = call.sector
  BY SameSector DEF WriteCounter, IInv, TypeOK
<1>3. /\ header'[s].file_id = header[s].file_id
      /\ header'[s].file_protect = header[s].file_protect
      /\ header'[s].next_allocation_unit = header[s].next_allocation_unit
      /\ header'[s].circular = header[s].circular
  BY <1>2 DEF WriteCounter, IInv, TypeOK, Header
<1>4. i \in 4 .. 4 + 4 - 1
  BY <1>3
  DEF Stored, FS_PRIV_FILE_PROTECT_OFFSET, FS_PRIV_NEXT_ALLOC_UNIT_OFFSET,
      FS_PRIV_ALLOC_COUNTER_OFFSET, FS_PRIV_SESSION_OFFSET, Byte_of_sector
<1>5. FlashCall("write", FS_PRIV_SECTOR_ADDR(s) + 4, 4) \in UnitCalls
  BY <1>1, <1>2 DEF UnitCalls, AtRoot, counter_addr, FS_PRIV_ALLOC_COUNTER_OFFSET, WORD
<1> QED
  BY <1>4, <1>5, AskedFor

\* The bytes after the file information.
LEMMA AfterFileInfo ==
  ASSUME NEW s \in Sector, NEW i \in Byte_of_sector, i >= 4,
         header'[s].alloc_counter = header[s].alloc_counter, UNCHANGED <<session, data>>
  PROVE  Stored(s, i)' = Stored(s, i)
<1>1. i \in Nat /\ FS_PRIV_PAGE_SIZE \in Nat /\ FS_PRIV_PAGE_SIZE >= 12
  BY UnitSizes DEF Byte_of_sector
<1> USE <1>1
<1>2. CASE i \in 4 .. 7
  BY <1>2
  DEF Stored, FS_PRIV_FILE_PROTECT_OFFSET, FS_PRIV_NEXT_ALLOC_UNIT_OFFSET,
      FS_PRIV_ALLOC_COUNTER_OFFSET, FS_PRIV_SESSION_OFFSET, FS_PRIV_ALLOC_UNIT_SIZE
<1>3. CASE i \in 8 .. FS_PRIV_PAGE_SIZE - 1
  BY <1>3
  DEF Stored, FS_PRIV_FILE_PROTECT_OFFSET, FS_PRIV_NEXT_ALLOC_UNIT_OFFSET,
      FS_PRIV_ALLOC_COUNTER_OFFSET, FS_PRIV_SESSION_OFFSET, FS_PRIV_ALLOC_UNIT_SIZE
<1>4. CASE i >= FS_PRIV_PAGE_SIZE
  BY <1>4
  DEF Stored, FS_PRIV_FILE_PROTECT_OFFSET, FS_PRIV_NEXT_ALLOC_UNIT_OFFSET,
      FS_PRIV_ALLOC_COUNTER_OFFSET, FS_PRIV_SESSION_OFFSET, FS_PRIV_ALLOC_UNIT_SIZE
<1> QED
  BY <1>2, <1>3, <1>4

\* The file information is the first word of the header.
LEMMA FileInfoAsked ==
  ASSUME IInv, LinkInv, WriteNext \/ WriteFileInfo, NEW s \in Sector,
         NEW i \in Byte_of_sector, Stored(s, i)' # Stored(s, i)
  PROVE  Asked(s, i)
<1> DEFINE t == IF pc = "write_next" THEN Cur.curr_allocation_unit ELSE call.sector
<1>1. t \in Sector /\ pc \in {"write_next", "write_file_info"}
  <2>1. CASE WriteNext
    BY <2>1, CurrentHandle DEF WriteNext, LinkInv, OnHandle
  <2>2. CASE WriteFileInfo
    BY <2>2 DEF WriteFileInfo, IInv, CallInv
  <2> QED
    BY <2>1, <2>2
<1>2. /\ header' = [header EXCEPT ![t] = ProgramFileInfo(@, alloc_unit_list[t])]
      /\ UNCHANGED <<session, data>>
  BY DEF WriteNext, WriteFileInfo
<1> HIDE DEF t
<1>3. s = t
  BY <1>2, SameSector DEF IInv, TypeOK
<1>4. header'[s].alloc_counter = header[s].alloc_counter
  BY <1>2, <1>3 DEF IInv, TypeOK, ProgramFileInfo
<1>5. i \in 0 .. 0 + 4 - 1
  BY <1>2, <1>4, AfterFileInfo, UnitSizes DEF Byte_of_sector
<1>6. FlashCall("write", FS_PRIV_SECTOR_ADDR(s), 4) \in UnitCalls
  BY <1>1, <1>3 DEF UnitCalls, AtRoot, WORD, t
<1>7. FlashCall("write", FS_PRIV_SECTOR_ADDR(s) + 0, 4) \in UnitCalls
  BY <1>6, SectorOnChip
<1> QED
  BY <1>5, <1>7, AskedFor

\* The protection is the second byte of the header.
LEMMA ProtectionAsked ==
  ASSUME IInv, NEW op \in {"protect", "unprotect"}, SetProtection(op), NEW s \in Sector,
         NEW i \in Byte_of_sector, Stored(s, i)' # Stored(s, i)
  PROVE  Asked(s, i)
<1>1. /\ AtRoot(op) /\ call.sector \in Sector
      /\ UNCHANGED <<session, data>>
  BY DEF SetProtection, IInv, TypeOK, Call, Nil
<1>2. header' = header \/ \E b : header' = [header EXCEPT ![call.sector].file_protect = b]
  BY DEF SetProtection
<1>3. s = call.sector
  BY <1>1, <1>2, SameSector DEF IInv, TypeOK
<1>4. /\ header'[s].file_id = header[s].file_id
      /\ header'[s].next_allocation_unit = header[s].next_allocation_unit
      /\ header'[s].circular = header[s].circular
      /\ header'[s].alloc_counter = header[s].alloc_counter
  <2>1. header[s] \in Header /\ header \in [Sector -> Header]
    BY DEF IInv, TypeOK
  <2>2. ASSUME NEW b, header' = [header EXCEPT ![call.sector].file_protect = b]
        PROVE  header'[s] = [header[s] EXCEPT !.file_protect = b]
    BY <1>3, <2>1, <2>2
  <2> QED
    BY <1>2, <2>1, <2>2 DEF Header
<1>5. i \in 1 .. 1 + 1 - 1
  BY <1>1, <1>4
  DEF Stored, FS_PRIV_FILE_PROTECT_OFFSET, FS_PRIV_NEXT_ALLOC_UNIT_OFFSET,
      FS_PRIV_ALLOC_COUNTER_OFFSET, FS_PRIV_SESSION_OFFSET, Byte_of_sector
<1>6. FlashCall("write", FS_PRIV_SECTOR_ADDR(s) + 1, 1) \in UnitCalls
  BY <1>1, <1>3 DEF UnitCalls, AtRoot, protect_addr, FS_PRIV_FILE_PROTECT_OFFSET
<1> QED
  BY <1>5, <1>6, AskedFor

\* A session slot is a word after the header.
LEMMA SlotAsked ==
  ASSUME IInv, SlotInv, UpdateSessionOffset, NEW s \in Sector, NEW i \in Byte_of_sector,
         Stored(s, i)' # Stored(s, i)
  PROVE  Asked(s, i)
<1> DEFINE t == Cur.curr_allocation_unit
           k == Cur.curr_session_offset
           q == (i - 8) \div 4
<1>1. /\ pc = "update_session_offset" /\ UNCHANGED <<header, data>>
      /\ SessionMoved(Cur)
      /\ session' = [session EXCEPT ![t][k] = ProgramWord(@, Cur.last_data_offset)]
  BY SameSector DEF UpdateSessionOffset
<1>2. t \in Sector /\ k \in Slot
  <2>1. call.op # "open" /\ OnHandle
    BY <1>1 DEF IInv, CallInv, OnHandle
  <2> QED
    BY <1>1, <2>1, CurrentHandle DEF SlotInv
<1>3. FlashCall("write", session_addr(t, k), 4) \in UnitCalls
  BY <1>1 DEF UnitCalls, AtRoot, WORD
<1> HIDE DEF t, k
<1>4. s = t
  BY <1>1, SameSector DEF IInv, TypeOK
<1>5. \A j \in Slot \ {k} : session'[s][j] = session[s][j]
  BY <1>1, <1>2, <1>4 DEF IInv, TypeOK
<1>6. i \in Nat /\ i >= 8 /\ q = k
  BY <1>1, <1>5
  DEF Stored, FS_PRIV_FILE_PROTECT_OFFSET, FS_PRIV_NEXT_ALLOC_UNIT_OFFSET,
      FS_PRIV_ALLOC_COUNTER_OFFSET, FS_PRIV_SESSION_OFFSET, Byte_of_sector, WORD, Slot
<1>7. i - 8 = 4 * q + ((i - 8) % 4) /\ (i - 8) % 4 \in 0 .. 3
  <2>1. i - 8 \in Nat /\ 4 \in Nat /\ 4 > 0
    BY <1>6
  <2> QED
    BY <2>1, DivMod
<1> HIDE DEF q
<1> DEFINE from == 8 + 4 * k
<1>8. k \in Nat
  BY <1>2, UnitSizes DEF Slot
<1>9. from \in Nat /\ i \in from .. from + 4 - 1
  BY <1>6, <1>7, <1>8
<1>10. FS_PRIV_SECTOR_ADDR(s) + from = session_addr(t, k)
  BY <1>4, <1>8, SectorOnChip DEF session_addr, FS_PRIV_SESSION_OFFSET, WORD
<1> HIDE DEF from
<1>11. 4 \in Nat
  OBVIOUS
<1> QED
  BY <1>3, <1>9, <1>10, <1>11, AskedFor

\* Data are programmed where the cache is to go.
LEMMA DataAsked ==
  ASSUME IInv, FlushPageCache \/ WritePage, NEW s \in Sector, NEW i \in Byte_of_sector,
         Stored(s, i)' # Stored(s, i)
  PROVE  Asked(s, i)
<1> DEFINE t == Cur.curr_allocation_unit
           last == Cur.last_data_offset
           n == IF pc = "write_page" THEN page_boundary(Cur) ELSE cached_bytes(Cur)
           from == FS_PRIV_PAGE_SIZE + last
<1>1. /\ pc \in {"flush_page_cache", "write_page"} /\ UNCHANGED <<header, session>>
      /\ ProgramData(t, last, n, Cur.page_cache)
  BY DEF FlushPageCache, WritePage
<1>2. t \in Sector /\ last \in Nat /\ n \in Nat
  <2>1. call.op # "open" /\ OnHandle /\ Cur.writeable
    BY <1>1 DEF IInv, CallInv, OnHandle
  <2>2. t \in Sector /\ Cur \in Handle /\ HandleInv(call.handle)
    BY <2>1, CurrentHandle
  <2>3. last \in Nat
    BY <2>2, UnitSizes DEF Handle, Offset
  <2>4. cached_bytes(Cur) \in 0 .. page_boundary(Cur)
    BY <2>1, <2>2, CurrentHandle DEF HandleInv, Cur
  <2>5. last % FS_PRIV_PAGE_SIZE \in 0 .. FS_PRIV_PAGE_SIZE - 1
    BY <2>3, UnitSizes, DivMod
  <2>6. page_boundary(Cur) \in Nat
    BY <2>5, UnitSizes DEF page_boundary
  <2> QED
    BY <2>2, <2>3, <2>4, <2>6
<1>3. pc = "write_page" \/ cached_bytes(Cur) > 0 =>
        FlashCall("write", data_addr(t, last), n) \in DataCalls
  BY <1>1 DEF DataCalls
<1>4. n > 0 => FlashCall("write", data_addr(t, last), n) \in DataCalls
  BY <1>1, <1>3
<1> HIDE DEF t, last, n
<1>5. s = t
  BY <1>1, SameSector DEF ProgramData, IInv, TypeOK
<1>6. i \in Nat /\ i >= FS_PRIV_PAGE_SIZE /\ i - FS_PRIV_PAGE_SIZE \in Cell
      /\ data'[s][i - FS_PRIV_PAGE_SIZE] # data[s][i - FS_PRIV_PAGE_SIZE]
  <2>1. i \in Nat /\ i < FS_PRIV_PAGE_SIZE + FS_PRIV_USABLE_SIZE
    BY UnitSizes DEF Byte_of_sector
  <2>2. i >= FS_PRIV_PAGE_SIZE /\ data'[s][i - FS_PRIV_PAGE_SIZE] # data[s][i - FS_PRIV_PAGE_SIZE]
    BY <1>1, <2>1, UnitSizes
    DEF Stored, FS_PRIV_FILE_PROTECT_OFFSET, FS_PRIV_NEXT_ALLOC_UNIT_OFFSET,
        FS_PRIV_ALLOC_COUNTER_OFFSET, FS_PRIV_SESSION_OFFSET, FS_PRIV_ALLOC_UNIT_SIZE
  <2> QED
    BY <2>1, <2>2, UnitSizes DEF Cell
<1>7. i - FS_PRIV_PAGE_SIZE >= last /\ i - FS_PRIV_PAGE_SIZE < last + n
  <2> DEFINE j == i - FS_PRIV_PAGE_SIZE
  <2> HIDE DEF j
  <2>1. ASSUME j \in Cell, ~ (j >= last /\ j < last + n) PROVE data'[s][j] = data[s][j]
    BY <1>1, <1>2, <1>5, <2>1 DEF ProgramData, IInv, TypeOK
  <2> QED
    BY <1>6, <2>1 DEF j
<1>8. n > 0 /\ from \in Nat /\ i \in from .. from + n - 1
  BY <1>2, <1>6, <1>7, UnitSizes
<1>9. FS_PRIV_SECTOR_ADDR(s) + from = data_addr(t, last)
  BY <1>2, <1>5, SectorOnChip, UnitSizes DEF data_addr, FS_PRIV_ALLOC_UNIT_SIZE
<1> HIDE DEF from
<1> QED
  BY <1>2, <1>4, <1>8, <1>9, AskedFor

\* No step changes a byte of the chip it makes no request for: the addresses the code
\* computes are those of the headers, slots and data that FileSystem changes.
THEOREM NothingElseChanges == Spec => ChangesOnlyRequested
<1>1. ASSUME IInv, SlotInv, LinkInv, Next, NEW s \in Sector, NEW i \in Byte_of_sector,
             Stored(s, i)' # Stored(s, i)
      PROVE  Asked(s, i)
  <2>1. ~ UNCHANGED flashVars
    BY <1>1, SameSector DEF flashVars
  <2>2. CASE Client
    BY <2>1, <2>2
    DEF Client, Mount, Unmount, Format, Remove, Protect, Unprotect, ChangeProtection, Open,
        BeginOnFile, Close, Flush, InvalidHandle, Write, Read
  <2>3. CASE EraseBlock
    BY <1>1, <2>3, EraseAsked
  <2>4. CASE Recycled \/ RemoveNext \/ FormatNext
    BY <1>1, <2>4, CounterAsked DEF Recycled, RemoveNext, FormatNext
  <2>5. CASE WriteNext \/ WriteFileInfo
    BY <1>1, <2>5, FileInfoAsked
  <2>6. CASE UpdateSessionOffset
    BY <1>1, <2>6, SlotAsked
  <2>7. CASE FlushPageCache \/ WritePage
    BY <1>1, <2>7, DataAsked
  <2>8. CASE \E op \in {"protect", "unprotect"} : SetProtection(op)
    BY <1>1, <2>8, ProtectionAsked
  <2>9. CASE ClimbToRoot \/ FileMissing \/ OpenRefused \/ OpenForReading \/ OpenForWriting
             \/ OpenNewFile \/ FollowChain \/ OpenAtEnd \/ AllocateFree \/ RecycleRoot
             \/ AllocateFails \/ WriteDone \/ WriteToFullSector \/ FillCache
             \/ ReadDone \/ ReadNextSector \/ ReadBytes \/ RemoveRefused \/ RemoveRoot
    BY <2>1, <2>9
    DEF ClimbToRoot, FileMissing, OpenRefused, OpenForReading, OpenForWriting, OpenNewFile,
        FollowChain, OpenAtEnd, AllocateFree, RecycleRoot, AllocateFails, WriteDone,
        WriteToFullSector, FillCache, ReadDone, ReadNextSector, ReadBytes, RemoveRefused,
        RemoveRoot
  <2> QED
    BY <1>1, <2>2, <2>3, <2>4, <2>5, <2>6, <2>7, <2>8, <2>9 DEF Next, Step
<1> DEFINE Requested ==
      \A s \in Sector : \A i \in 0 .. FS_PRIV_SECTOR_SIZE - 1 :
        Stored(s, i)' # Stored(s, i) =>
          \E c \in UnitCalls \cup DataCalls \cup EraseCalls :
            c.op # "read" /\ Covers(c, FS_PRIV_SECTOR_ADDR(s) + i)
<1>2. IInv /\ SlotInv /\ LinkInv /\ Next => Requested
  BY <1>1 DEF Asked, Byte_of_sector
<1>3. IInv /\ SlotInv /\ LinkInv /\ [Next]_vars => [Requested]_flashVars
  <2>1. UNCHANGED vars => UNCHANGED flashVars
    BY DEF vars
  <2> HIDE DEF Requested
  <2> QED
    BY <1>2, <2>1
<1> QED
  BY <1>3, Invariant, SlotInvariant, LinkInvariant, PTL DEF Spec, ChangesOnlyRequested

-----------------------------------------------------------------------------
(***************************************************************************)
(* The driver and the device.                                              *)
(***************************************************************************)

\* Such a request, with whatever bytes, is one of those NorFlash carries out and
\* SpiFlash is proved to: this is where the two halves of the system meet.
THEOREM TakenByDriver ==
  ASSUME CallsInPlace, NEW c \in UnitCalls \cup DataCalls, c.size \in Nat,
         NEW bytes \in [1 .. c.size -> Chip!Byte]
  PROVE  /\ c.op = "write" => Chip!Request("write", c.addr, bytes, c.size) \in Chip!Requests
         /\ c.op = "read" => Chip!Request("read", c.addr, <<>>, c.size) \in Chip!Requests
<1>1. Taken(c)
  BY DEF CallsInPlace
<1>2. ASSUME c.op = "write"
      PROVE  Chip!Request("write", c.addr, bytes, c.size) \in Chip!WriteRequests
  <2>1. c.addr \in Chip!Address /\ Chip!FitsPage(c.addr, c.size)
    BY <1>1, <1>2 DEF Taken
  <2>2. c.size \in 0 .. FS_PRIV_PAGE_SIZE
    <3>1. c.addr \in Nat
      BY <2>1 DEF Chip!Address
    <3>2. c.addr % FS_PRIV_PAGE_SIZE \in 0 .. FS_PRIV_PAGE_SIZE - 1
      BY <3>1, UnitSizes, DivMod
    <3> QED
      BY <2>1, <3>2, UnitSizes DEF Chip!FitsPage
  <2>3. Len(bytes) = c.size
    OBVIOUS
  <2>4. bytes \in UNION {[1 .. n -> Chip!Byte] : n \in 0 .. FS_PRIV_PAGE_SIZE}
    BY <2>2
  <2> QED
    BY <2>1, <2>2, <2>3, <2>4 DEF Chip!WriteRequests, Chip!Request
<1>3. ASSUME c.op = "read"
      PROVE  Chip!Request("read", c.addr, <<>>, c.size) \in Chip!ReadRequests
  BY <1>1, <1>3 DEF Taken, Chip!ReadRequests, Chip!Request
<1> QED
  BY <1>2, <1>3 DEF Chip!Requests

\* The constants of the code satisfy what the theorems assume of the device: 64 sectors
\* of 256 KiB with 126 session slots on an S25FL128, whose addresses fit the three bytes
\* SpiFlash sends (fs_priv.h:36-58, S25FL128.h:3-5, SpiFlash.cpp:97-100).
THEOREM S25FL128Fits ==
  /\ Fits(64, S25FL128_PAGE_SIZE, S25FL128_BLOCK_SIZE, 126, S25FL128_NUM_PAGES)
  /\ S25FL128_BLOCK_SIZE = 256 * 1024
  /\ S25FL128_NUM_PAGES * S25FL128_PAGE_SIZE <= 16777216
BY DEF Fits, S25FL128_PAGE_SIZE, S25FL128_BLOCK_SIZE, S25FL128_NUM_PAGES, WORD,
       FS_PRIV_SESSION_OFFSET

=============================================================================
