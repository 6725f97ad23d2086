----------------------------- MODULE FlashAddresses -----------------------------
(***************************************************************************)
(* Where FileSystem's data are on the chip: the addresses of fs_priv.h     *)
(* (FS_PRIV_SECTOR_ADDR and the offsets in an allocation unit) and the     *)
(* requests FileSystem makes of the driver.  It joins FileSystem, whose    *)
(* flash is a table of sectors, to NorChip, whose flash is a row of bytes. *)
(***************************************************************************)
EXTENDS FileSystem

CONSTANT num_pages   \* pages of the chip

-----------------------------------------------------------------------------
(***************************************************************************)
(* fs_priv.h.  The sector's first page is the allocation unit: the header, *)
(* then the session slots.  The data follow.                               *)
(***************************************************************************)
WORD == 4   \* sizeof(uint32_t)

FS_PRIV_ALLOC_UNIT_SIZE       == FS_PRIV_PAGE_SIZE
FS_PRIV_SECTOR_SIZE           == FS_PRIV_ALLOC_UNIT_SIZE + FS_PRIV_USABLE_SIZE
FS_PRIV_FILE_PROTECT_OFFSET   == 1
FS_PRIV_NEXT_ALLOC_UNIT_OFFSET == 2
FS_PRIV_ALLOC_COUNTER_OFFSET  == 4
FS_PRIV_SESSION_OFFSET        == 8

FS_PRIV_SECTOR_ADDR(s) == s * FS_PRIV_SECTOR_SIZE
protect_addr(s)        == FS_PRIV_SECTOR_ADDR(s) + FS_PRIV_FILE_PROTECT_OFFSET
counter_addr(s)        == FS_PRIV_SECTOR_ADDR(s) + FS_PRIV_ALLOC_COUNTER_OFFSET
session_addr(s, i)     == FS_PRIV_SECTOR_ADDR(s) + FS_PRIV_SESSION_OFFSET + WORD * i

\* Mutant: the allocation unit is not skipped.
data_addr_in_header(s, i) == FS_PRIV_SECTOR_ADDR(s) + i

data_addr(s, i) == FS_PRIV_SECTOR_ADDR(s) + FS_PRIV_ALLOC_UNIT_SIZE + i

\* The file system's pages and sectors are the chip's, which has enough of them, and the
\* allocation unit fits its page.
Fits(sectors, page, sector_size, slots, pages) ==
  /\ FS_PRIV_SESSION_OFFSET + WORD * slots <= page
  /\ sectors * sector_size <= pages * page
ASSUME DeviceAssumption ==
  /\ num_pages \in Nat
  /\ Fits(FS_PRIV_MAX_SECTORS, FS_PRIV_PAGE_SIZE, FS_PRIV_SECTOR_SIZE,
          FS_PRIV_NUM_WRITE_SESSIONS, num_pages)

Chip == INSTANCE NorChip
          WITH page_size <- FS_PRIV_PAGE_SIZE, block_size <- FS_PRIV_SECTOR_SIZE,
               Bits <- 0 .. 7, ReadSizes <- Nat

\* S25FL128.h and S25FL128.cpp.
S25FL128_PAGE_SIZE  == 512
S25FL128_BLOCK_SIZE == 262144
S25FL128_NUM_PAGES  == 32768

-----------------------------------------------------------------------------
(***************************************************************************)
(* The requests that the next step may make, by the part of the sector     *)
(* they are about.                                                         *)
(***************************************************************************)
FlashCall(op, a, n) == [op |-> op, addr |-> a, size |-> n]
ReadSessions(s)     == FlashCall("read", session_addr(s, 0), WORD * FS_PRIV_NUM_WRITE_SESSIONS)

UnitCalls ==
  CASE pc = "unmounted" ->
         {FlashCall("read", FS_PRIV_SECTOR_ADDR(s), FS_PRIV_SESSION_OFFSET) : s \in Sector}
    [] AtRoot("open") /\ call.sector # FS_PRIV_NOT_ALLOCATED -> {ReadSessions(call.sector)}
    [] AtRoot("protect") \/ AtRoot("unprotect") ->
         {FlashCall("write", protect_addr(s), 1) : s \in {call.sector} \cap Sector}
    [] pc = "find_last_allocation_unit" -> {ReadSessions(call.sector)}
    [] pc = "write_counter"   -> {FlashCall("write", counter_addr(call.sector), WORD)}
    [] pc = "write_next"      ->
         {FlashCall("write", FS_PRIV_SECTOR_ADDR(Cur.curr_allocation_unit), WORD)}
    [] pc = "write_file_info" -> {FlashCall("write", FS_PRIV_SECTOR_ADDR(call.sector), WORD)}
    [] pc = "update_session_offset" /\ SessionMoved(Cur) ->
         {FlashCall("write",
                    session_addr(Cur.curr_allocation_unit, Cur.curr_session_offset), WORD)}
    [] pc = "read" /\ AtSectorEnd /\ ~ is_eof(Cur) ->
         {ReadSessions(alloc_unit_list[Cur.curr_allocation_unit].next_allocation_unit)}
    [] OTHER -> {}

DataCalls ==
  CASE pc = "flush_page_cache" /\ cached_bytes(Cur) > 0 ->
         {FlashCall("write", data_addr(Cur.curr_allocation_unit, Cur.last_data_offset),
                    cached_bytes(Cur))}
    [] pc = "write_page" ->
         {FlashCall("write", data_addr(Cur.curr_allocation_unit, Cur.last_data_offset),
                    page_boundary(Cur))}
    [] pc = "read" /\ call.size > 0 /\ ~ AtSectorEnd ->
         {FlashCall("read", data_addr(Cur.curr_allocation_unit, Cur.curr_data_offset),
                    SmallerOf(call.size, Cur.last_data_offset - Cur.curr_data_offset))}
    [] OTHER -> {}

EraseCalls ==
  IF pc = "erase_block"
    THEN {FlashCall("erase_block", FS_PRIV_SECTOR_ADDR(call.sector), FS_PRIV_SECTOR_SIZE)}
    ELSE {}

-----------------------------------------------------------------------------
(***************************************************************************)
(* What the byte at offset i of sector s belongs to.                       *)
(***************************************************************************)
Stored(s, i) ==
  CASE i = 0 -> header[s].file_id
    [] i = FS_PRIV_FILE_PROTECT_OFFSET -> header[s].file_protect
    [] i = FS_PRIV_NEXT_ALLOC_UNIT_OFFSET -> header[s].next_allocation_unit
    [] i = 3 -> header[s].circular
    [] i \in FS_PRIV_ALLOC_COUNTER_OFFSET .. FS_PRIV_SESSION_OFFSET - 1 ->
         header[s].alloc_counter
    [] i \in FS_PRIV_SESSION_OFFSET .. FS_PRIV_ALLOC_UNIT_SIZE - 1 ->
         LET slot == (i - FS_PRIV_SESSION_OFFSET) \div WORD
         IN  IF slot \in Slot THEN session[s][slot] ELSE ERASED
    [] i >= FS_PRIV_ALLOC_UNIT_SIZE -> data[s][i - FS_PRIV_ALLOC_UNIT_SIZE]

Covers(c, a) == c.addr <= a /\ a < c.addr + c.size

-----------------------------------------------------------------------------
(***************************************************************************)
(* Properties.                                                             *)
(***************************************************************************)

\* Every request stays in its part of one sector and is one the driver takes: no write
\* crosses a page ("we don't need to worry about crossing a page boundary",
\* FileSystem.cpp:312-315), no read leaves the chip, an erasure is of the sector's block.
Within(c, from, to) == from <= c.addr /\ c.addr + c.size <= to
Taken(c) ==
  /\ c.addr \in Chip!Address
  /\ c.op = "write" => Chip!FitsPage(c.addr, c.size)
  /\ c.op = "read" => Chip!FitsChip(c.addr, c.size)
CallsInPlace ==
  /\ \A c \in UnitCalls : \E s \in Sector :
       Taken(c) /\ Within(c, FS_PRIV_SECTOR_ADDR(s), data_addr(s, 0))
  /\ \A c \in DataCalls : \E s \in Sector :
       Taken(c) /\ Within(c, data_addr(s, 0), FS_PRIV_SECTOR_ADDR(s + 1))
  /\ \A c \in EraseCalls : \E s \in Sector :
       Taken(c) /\ Chip!BlockOf(c.addr) = s /\ c.addr = FS_PRIV_SECTOR_ADDR(s)

\* A step changes no byte of the chip but those of the request it makes: what the code
\* computes as the address of a header, a slot or a stretch of data is where FileSystem
\* has them (fs_priv.h:44-66).
ChangesOnlyRequested ==
  [][\A s \in Sector : \A i \in 0 .. FS_PRIV_SECTOR_SIZE - 1 :
       Stored(s, i)' # Stored(s, i) =>
         \E c \in UnitCalls \cup DataCalls \cup EraseCalls :
           c.op # "read" /\ Covers(c, FS_PRIV_SECTOR_ADDR(s) + i)]_flashVars

=============================================================================
