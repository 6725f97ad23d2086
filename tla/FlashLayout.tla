----------------------------- MODULE FlashLayout -----------------------------
(***************************************************************************)
(* What the file system keeps in flash, and the pure functions it computes *)
(* from it: the allocation unit header and the write sessions at the head  *)
(* of every sector (fs_priv.h), NOR programming as the code relies on it,  *)
(* and the table scans of FileSystem.cpp that change no state.             *)
(***************************************************************************)
EXTENDS Integers, FiniteSets, FiniteSetsExt

CONSTANTS
  FS_PRIV_MAX_SECTORS,         \* sectors of the device
  FS_PRIV_PAGE_SIZE,           \* bytes of a page, and of the page cache
  FS_PRIV_USABLE_SIZE,         \* data bytes of a sector
  FS_PRIV_NUM_WRITE_SESSIONS,  \* session slots of a sector
  PROTECT_BITS,                \* bits of the file_protect byte (8)
  MAX_COUNTER,                 \* the erased alloc_counter word (2^32 - 1)
  NUM_FILES                    \* file identifiers the clients use

ASSUME LayoutAssumption ==
  /\ FS_PRIV_MAX_SECTORS \in 1..254
  /\ FS_PRIV_PAGE_SIZE \in Nat \ {0}
  /\ FS_PRIV_USABLE_SIZE \in Nat \ {0}
  /\ FS_PRIV_USABLE_SIZE % FS_PRIV_PAGE_SIZE = 0
  /\ FS_PRIV_NUM_WRITE_SESSIONS \in 1..254
  /\ PROTECT_BITS \in Nat \ {0} /\ PROTECT_BITS % 2 = 0
  /\ MAX_COUNTER \in Nat \ {0}
  /\ NUM_FILES \in 1..254

\* The all-ones byte or word, at every width.
FS_PRIV_NOT_ALLOCATED == -1

Sector  == 0 .. FS_PRIV_MAX_SECTORS - 1
Slot    == 0 .. FS_PRIV_NUM_WRITE_SESSIONS - 1
Offset  == 0 .. FS_PRIV_USABLE_SIZE          \* a data offset, the end included
Cell    == 0 .. FS_PRIV_USABLE_SIZE - 1
PageIdx == 0 .. FS_PRIV_PAGE_SIZE - 1
FileId  == 0 .. NUM_FILES - 1
Nil(S)  == S \cup {FS_PRIV_NOT_ALLOCATED}

(***************************************************************************)
(* Data bytes are tagged with the file and the position in its stream they *)
(* were written at, so that a byte in the wrong place is seen.             *)
(***************************************************************************)
ERASED == FS_PRIV_NOT_ALLOCATED
CLASH  == -2                     \* the AND of two different bytes
Payload(file, position) == position * NUM_FILES + file

(***************************************************************************)
(* NOR programming clears bits and never sets one: the result is the       *)
(* bitwise AND, the largest number that has only bits of both.  Offsets    *)
(* have 18 bits (a sector is 256 KiB).                                     *)
(***************************************************************************)
SmallerOf(a, b) == IF a <= b THEN a ELSE b

Bit(w, i) == (w \div 2^i) % 2
BitAnd(a, b) ==
  Max({0} \cup {w \in 0 .. SmallerOf(a, b) :
                  \A i \in 0 .. 17 : Bit(w, i) <= Bit(a, i) * Bit(b, i)})

ProgramWord(old, new) ==
  IF old = ERASED \/ old = new THEN new
  ELSE IF new = ERASED THEN old ELSE BitAnd(old, new)

ProgramByte(old, new) ==
  IF old = ERASED \/ old = new THEN new ELSE CLASH

-----------------------------------------------------------------------------
(***************************************************************************)
(* fs_priv_alloc_unit_header_t.  file_protect stands for its number of set *)
(* bits: the code only counts them and clears the lowest, so the AND of    *)
(* two values is the smaller.  Of file_flags only FS_FILE_CIRCULAR is kept *)
(* by a sector; user_flags, which open hands back to the client and on     *)
(* which nothing else depends, are left out.                               *)
(***************************************************************************)
Header == [file_id              : Nil(FileId),
           file_protect         : 0 .. PROTECT_BITS,
           next_allocation_unit : Nil(Sector),
           circular             : BOOLEAN,
           alloc_counter        : Nil(0 .. MAX_COUNTER - 1)]

ErasedHeader == [file_id              |-> FS_PRIV_NOT_ALLOCATED,
                 file_protect         |-> PROTECT_BITS,
                 next_allocation_unit |-> FS_PRIV_NOT_ALLOCATED,
                 circular             |-> TRUE,
                 alloc_counter        |-> FS_PRIV_NOT_ALLOCATED]

ErasedSessions == [i \in Slot |-> ERASED]
ErasedData     == [i \in Cell |-> ERASED]

\* Mutant: the bytes programmed stop short of next_allocation_unit.
ProgramFileInfo_without_next(old, new) ==
  [old EXCEPT !.file_id = ProgramWord(@, new.file_id),
              !.file_protect = SmallerOf(@, new.file_protect),
              !.circular = @ /\ new.circular]

\* Programming the four bytes of fs_priv_file_info_t over a header.
ProgramFileInfo(old, new) ==
  [file_id              |-> ProgramWord(old.file_id, new.file_id),
   file_protect         |-> SmallerOf(old.file_protect, new.file_protect),
   next_allocation_unit |-> ProgramWord(old.next_allocation_unit,
                                        new.next_allocation_unit),
   circular             |-> old.circular /\ new.circular,
   alloc_counter        |-> old.alloc_counter]

\* The 32-bit increment of erase_allocation_unit: the erased word wraps to 0.
NextCounter(c) == IF c + 1 = MAX_COUNTER THEN FS_PRIV_NOT_ALLOCATED ELSE c + 1

\* An odd number of set bits is a protected file; every change of state clears
\* the lowest set bit, and clearing a bit of 0 leaves 0.
is_protected(bits) == bits % 2 = 1
clear_lsb(bits)    == IF bits = 0 THEN 0 ELSE bits - 1
set_protected(prot, bits) ==
  IF prot # is_protected(bits) THEN clear_lsb(bits) ELSE bits

-----------------------------------------------------------------------------
(***************************************************************************)
(* The scans of the allocation table.                                      *)
(***************************************************************************)
sectors_of(list, file) == {s \in Sector : list[s].file_id = file}
free_sectors(list)     == sectors_of(list, FS_PRIV_NOT_ALLOCATED)

\* The first never-used free sector, else the first of the least erased: the
\* erased counter is below every other one here.
least_erased(list) ==
  {s \in free_sectors(list) : \A t \in free_sectors(list) :
                                 list[s].alloc_counter <= list[t].alloc_counter}
find_free_allocation_unit(list) ==
  IF free_sectors(list) = {} THEN FS_PRIV_NOT_ALLOCATED
                             ELSE Min(least_erased(list))

is_last_allocation_unit(list, s) ==
  list[s].next_allocation_unit = FS_PRIV_NOT_ALLOCATED

\* find_file_root starts from the first sector of the file and climbs a table of
\* parents, where the highest of several parents is the one kept.
candidate_root(list, file) ==
  IF file = FS_PRIV_NOT_ALLOCATED \/ sectors_of(list, file) = {}
    THEN FS_PRIV_NOT_ALLOCATED ELSE Min(sectors_of(list, file))

parents(list, file, s) ==
  {p \in sectors_of(list, file) : list[p].next_allocation_unit = s}
parent(list, file, s) ==
  IF parents(list, file, s) = {} THEN FS_PRIV_NOT_ALLOCATED
                                 ELSE Max(parents(list, file, s))

-----------------------------------------------------------------------------
(***************************************************************************)
(* find_next_session_offset: the first free session slot of a sector, and  *)
(* the write offset the last used one holds.                               *)
(***************************************************************************)
free_slots(slots) == {i \in Slot : slots[i] = ERASED}

next_session(slots) ==
  IF free_slots(slots) = {} THEN FS_PRIV_NOT_ALLOCATED ELSE Min(free_slots(slots))

last_used_slot(slots) ==
  IF free_slots(slots) = {} THEN FS_PRIV_NUM_WRITE_SESSIONS - 1
                            ELSE Min(free_slots(slots)) - 1

session_end(slots) ==
  IF last_used_slot(slots) < 0 THEN 0 ELSE slots[last_used_slot(slots)]

=============================================================================
