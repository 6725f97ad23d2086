-------------------------- MODULE FileSystem_proofs --------------------------
(***************************************************************************)
(* Type correctness of FileSystem and the bounds of its page cache, proved *)
(* for every size of device, every number of handles and every behaviour   *)
(* of the clients.                                                         *)
(***************************************************************************)
EXTENDS FileSystem, WellFoundedInduction, TLAPS

(***************************************************************************)
(* The inductive invariant.                                                *)
(***************************************************************************)

\* The running call works on a handle.
OnHandle ==
  \/ pc \in {"find_last_allocation_unit", "allocate", "write_next", "write_file_info",
             "flush_page_cache", "update_session_offset", "write", "write_page", "read"}
  \/ pc \in {"erase_block", "write_counter"} /\ call.op \in {"open", "write"}

\* open has taken the handle and not filled it in yet.
Opening(h) == call.op = "open" /\ call.handle = h

\* An open handle: a writer's cache has not reached the page boundary, unless the page
\* is about to be written; a reader is not past the committed bytes of its sector.
HandleInv(h) ==
  LET hd == fs_priv_handle_list[h]
  IN  Open_(h) =>
        /\ ~ Opening(h) => hd.curr_allocation_unit \in Sector
        /\ hd.writeable => /\ cached_bytes(hd) \in 0 .. page_boundary(hd)
                           /\ cached_bytes(hd) = page_boundary(hd) =>
                                pc = "write_page" /\ call.handle = h
        /\ ~ hd.writeable => hd.curr_data_offset <= hd.last_data_offset

\* The local variables of the running call.
CallInv ==
  /\ pc \in {"idle", "unmounted"} => call = NoCall
  /\ pc = "find_file_root" => call.handle = FS_PRIV_NOT_ALLOCATED
  /\ OnHandle => call.handle \in HandleId /\ Open_(call.handle)
  /\ OnHandle /\ call.op = "write" => Cur.writeable
  /\ pc \in {"allocate", "write_next", "write_file_info"} => call.op \in {"open", "write"}
  /\ pc \in {"find_last_allocation_unit", "erase_block", "write_counter", "write_next",
             "write_file_info"} => call.sector \in Sector
  /\ pc \in {"flush_page_cache", "update_session_offset", "write", "write_page"} =>
       /\ call.op \in {"close", "flush", "write"}
       /\ Cur.writeable
  /\ pc \in {"write", "write_page"} => call.op = "write"
  /\ pc = "read" => call.op = "read" /\ ~ Cur.writeable
  /\ pc = "write_page" =>
       /\ cached_bytes(Cur) = page_boundary(Cur)
       /\ call.rest <= call.size
       /\ call.rest < FS_PRIV_PAGE_SIZE
       /\ Cur.curr_data_offset + call.rest <= FS_PRIV_USABLE_SIZE

IInv == TypeOK /\ (\A h \in HandleId : HandleInv(h)) /\ CallInv
-----------------------------------------------------------------------------
(***************************************************************************)
(* Smallest and largest elements.                                          *)
(***************************************************************************)

\* A nonempty set of natural numbers has a least element (the allocator and the scan
\* of the session slots take the first that fits).
LEMMA LeastNatural ==
  ASSUME NEW S \in SUBSET Nat, S # {}
  PROVE  \E m \in S : \A x \in S : m <= x
<1> DEFINE R == OpToRel(<, Nat)
<1>1. IsWellFoundedOn(R, Nat)
  BY NatLessThanWellFounded
<1>2. PICK m \in S : \A x \in S : ~ (<<x, m>> \in R)
  BY <1>1, WFMin
<1>3. \A x \in S : ~ (x < m)
  BY <1>2 DEF OpToRel
<1> QED
  BY <1>3

\* Min and Max pick the ends of a nonempty set of integers from -1 to n.
LEMMA MinIsLeast ==
  ASSUME NEW S \in SUBSET (Nat \cup {-1}), S # {}
  PROVE  Min(S) \in S /\ \A x \in S : Min(S) <= x
<1> DEFINE T == {x + 1 : x \in S}
<1>1. T \in SUBSET Nat /\ T # {}
  <2>1. \A x \in S : x + 1 \in Nat
    OBVIOUS
  <2>2. PICK x \in S : TRUE
    OBVIOUS
  <2>3. x + 1 \in T
    OBVIOUS
  <2> QED
    BY <2>1, <2>3
<1> HIDE DEF T
<1>2. PICK t \in T : \A x \in T : t <= x
  BY <1>1, LeastNatural
<1>3. \E m \in S : \A x \in S : m <= x
  BY <1>2 DEF T
<1> QED
  BY <1>3 DEF Min

\* The same for the largest element (the last of several parents, programmed words).
LEMMA MaxIsGreatest ==
  ASSUME NEW n \in Nat, NEW S \in SUBSET (0 .. n), S # {}
  PROVE  Max(S) \in S /\ \A x \in S : x <= Max(S)
<1> DEFINE T == {n - x : x \in S}
<1>1. T \in SUBSET Nat /\ T # {}
  <2>1. \A x \in S : n - x \in Nat
    OBVIOUS
  <2>2. PICK x \in S : TRUE
    OBVIOUS
  <2>3. n - x \in T
    OBVIOUS
  <2> QED
    BY <2>1, <2>3
<1> HIDE DEF T
<1>2. PICK t \in T : \A x \in T : t <= x
  BY <1>1, LeastNatural
<1>3. PICK m \in S : t = n - m
  BY DEF T
<1>4. \A x \in S : n - m <= n - x
  BY <1>2, <1>3 DEF T
<1>5. \A x \in S : m >= x
  BY <1>4
<1> QED
  BY <1>5 DEF Max

-----------------------------------------------------------------------------
(***************************************************************************)
(* What the operators of FlashLayout return.                               *)
(***************************************************************************)

\* Programming a word over another leaves a value no larger than either, or the erased
\* word: a link or an offset stays in range however often it is programmed.
LEMMA ProgramWordType ==
  ASSUME NEW n \in Nat, NEW old \in Nil(0 .. n), NEW new \in Nil(0 .. n)
  PROVE  ProgramWord(old, new) \in Nil(0 .. n)
<1>1. CASE old = ERASED \/ old = new \/ new = ERASED
  BY <1>1 DEF ProgramWord, Nil
<1>2. CASE old # ERASED /\ new # ERASED
  <2> DEFINE S == {0} \cup {w \in 0 .. SmallerOf(old, new) :
                              \A i \in 0 .. 17 : Bit(w, i) <= Bit(old, i) * Bit(new, i)}
  <2>1. old \in 0 .. n /\ new \in 0 .. n
    BY <1>2 DEF Nil, ERASED
  <2>2. 0 .. SmallerOf(old, new) \subseteq 0 .. n
    BY <2>1 DEF SmallerOf
  <2>3. S \in SUBSET (0 .. n) /\ S # {}
    BY <2>2
  <2>4. Max(S) \in 0 .. n
    <3> HIDE DEF S
    <3> QED BY <2>3, MaxIsGreatest
  <2>5. BitAnd(old, new) \in 0 .. n
    BY <2>4 DEF BitAnd
  <2> QED
    BY <2>5, <1>2 DEF ProgramWord, Nil
<1> QED
  BY <1>1, <1>2

\* find_free_allocation_unit finds a free sector when there is one.
LEMMA FindFreeType ==
  ASSUME NEW list \in [Sector -> Header], free_sectors(list) # {}
  PROVE  find_free_allocation_unit(list) \in free_sectors(list)
<1>1. free_sectors(list) \subseteq Sector /\ Sector \subseteq Nat
  BY LayoutAssumption DEF free_sectors, sectors_of, Sector
<1>2. \A s \in Sector : list[s].alloc_counter \in Nat \cup {-1}
  BY LayoutAssumption DEF Header, Nil, FS_PRIV_NOT_ALLOCATED
<1> DEFINE C == {list[s].alloc_counter : s \in free_sectors(list)}
<1>3. C \in SUBSET (Nat \cup {-1})
  BY <1>1, <1>2
<1>4. C # {}
  <2>1. PICK s \in free_sectors(list) : TRUE
    OBVIOUS
  <2>2. list[s].alloc_counter \in C
    OBVIOUS
  <2> QED
    BY <2>2
<1>5. Min(C) \in C /\ \A x \in C : Min(C) <= x
  <2> HIDE DEF C
  <2> QED
    BY <1>3, <1>4, MinIsLeast
<1>6. PICK s \in free_sectors(list) : list[s].alloc_counter = Min(C)
  BY <1>5
<1>7. s \in least_erased(list)
  BY <1>5, <1>6 DEF least_erased
<1>8. least_erased(list) \in SUBSET free_sectors(list) /\ least_erased(list) # {}
  BY <1>7 DEF least_erased
<1>9. Min(least_erased(list)) \in least_erased(list)
  BY <1>1, <1>8, MinIsLeast
<1> QED
  BY <1>8, <1>9 DEF find_free_allocation_unit

\* find_file_root starts in a sector of the table, or nowhere, and climbs to sectors.
LEMMA RootSearchType ==
  ASSUME NEW list, NEW file, NEW s
  PROVE  candidate_root(list, file) \in Nil(Sector) /\ parent(list, file, s) \in Nil(Sector)
<1>1. sectors_of(list, file) \in SUBSET Sector /\ Sector \subseteq Nat
  BY LayoutAssumption DEF sectors_of, Sector
<1>2. parents(list, file, s) \in SUBSET Sector
  BY <1>1 DEF parents
<1>3. candidate_root(list, file) \in Nil(Sector)
  <2>1. sectors_of(list, file) # {} => Min(sectors_of(list, file)) \in sectors_of(list, file)
    BY <1>1, MinIsLeast
  <2> QED
    BY <1>1, <2>1 DEF candidate_root, Nil
<1>4. parent(list, file, s) \in Nil(Sector)
  <2>1. FS_PRIV_MAX_SECTORS - 1 \in Nat
    BY LayoutAssumption
  <2>2. parents(list, file, s) # {} => Max(parents(list, file, s)) \in parents(list, file, s)
    BY <1>2, <2>1, MaxIsGreatest DEF Sector
  <2> QED
    BY <1>2, <2>2 DEF parent, Nil
<1> QED
  BY <1>3, <1>4

\* find_next_session_offset returns a slot, or none, and an offset of the sector.
LEMMA SessionScanType ==
  ASSUME NEW slots \in [Slot -> Nil(Offset)]
  PROVE  next_session(slots) \in Nil(Slot) /\ session_end(slots) \in Offset
<1>1. free_slots(slots) \in SUBSET Slot /\ Slot \subseteq Nat
  BY LayoutAssumption DEF free_slots, Slot
<1>2. free_slots(slots) # {} =>
        /\ Min(free_slots(slots)) \in free_slots(slots)
        /\ \A i \in free_slots(slots) : Min(free_slots(slots)) <= i
  BY <1>1, MinIsLeast
<1>3. next_session(slots) \in Nil(Slot)
  BY <1>1, <1>2 DEF next_session, Nil
<1>4. last_used_slot(slots) \in Slot \cup {-1}
  BY <1>1, <1>2, LayoutAssumption DEF last_used_slot, Slot
<1>5. last_used_slot(slots) \in Slot => last_used_slot(slots) \notin free_slots(slots)
  BY <1>1, <1>2, LayoutAssumption DEF last_used_slot, Slot
<1>6. last_used_slot(slots) \in Slot => slots[last_used_slot(slots)] \in Offset
  BY <1>5 DEF free_slots, Nil, ERASED
<1>7. session_end(slots) \in Offset
  BY <1>4, <1>6, LayoutAssumption DEF session_end, Offset, Slot
<1> QED
  BY <1>3, <1>7

\* The header after an erasure, and after its first four bytes are programmed.
LEMMA HeaderType ==
  /\ ErasedHeader \in Header
  /\ \A old, new \in Header : ProgramFileInfo(old, new) \in Header
  /\ \A c \in Nil(0 .. MAX_COUNTER - 1) : NextCounter(c) \in Nil(0 .. MAX_COUNTER - 1)
<1>1. ErasedHeader \in Header
  BY LayoutAssumption DEF ErasedHeader, Header, Nil
<1>2. ASSUME NEW old \in Header, NEW new \in Header
      PROVE  ProgramFileInfo(old, new) \in Header
  <2>1. FS_PRIV_MAX_SECTORS - 1 \in Nat /\ NUM_FILES - 1 \in Nat
    BY LayoutAssumption
  <2>2. ProgramWord(old.file_id, new.file_id) \in Nil(FileId)
    <3>1. old.file_id \in Nil(FileId) /\ new.file_id \in Nil(FileId)
      BY DEF Header
    <3> QED
      BY <2>1, <3>1, ProgramWordType DEF FileId
  <2>3. ProgramWord(old.next_allocation_unit, new.next_allocation_unit) \in Nil(Sector)
    <3>1. old.next_allocation_unit \in Nil(Sector) /\ new.next_allocation_unit \in Nil(Sector)
      BY DEF Header
    <3> QED
      BY <2>1, <3>1, ProgramWordType DEF Sector
  <2>4. SmallerOf(old.file_protect, new.file_protect) \in 0 .. PROTECT_BITS
    BY DEF Header, SmallerOf
  <2> QED
    BY <2>2, <2>3, <2>4 DEF ProgramFileInfo, Header
<1>3. ASSUME NEW c \in Nil(0 .. MAX_COUNTER - 1)
      PROVE  NextCounter(c) \in Nil(0 .. MAX_COUNTER - 1)
  BY LayoutAssumption DEF NextCounter, Nil, FS_PRIV_NOT_ALLOCATED
<1> QED
  BY <1>1, <1>2, <1>3

\* The protection bits stay in range, whatever is asked for.
LEMMA ProtectionType ==
  ASSUME NEW prot, NEW bits \in 0 .. PROTECT_BITS
  PROVE  set_protected(prot, bits) \in 0 .. PROTECT_BITS
BY LayoutAssumption DEF set_protected, clear_lsb

\* The distance to the next page boundary is between 1 and a page, and at a boundary it
\* is a page (FileSystem.cpp:503).
LEMMA PageBoundary ==
  ASSUME NEW last \in Nat
  PROVE  LET left == FS_PRIV_PAGE_SIZE - (last % FS_PRIV_PAGE_SIZE)
         IN  /\ left \in 1 .. FS_PRIV_PAGE_SIZE
             /\ (last + left) % FS_PRIV_PAGE_SIZE = 0
<1>1. FS_PRIV_PAGE_SIZE \in Nat \ {0}
  BY LayoutAssumption
<1>2. last % FS_PRIV_PAGE_SIZE \in 0 .. FS_PRIV_PAGE_SIZE - 1
  BY <1>1
<1>3. (last + (FS_PRIV_PAGE_SIZE - (last % FS_PRIV_PAGE_SIZE))) % FS_PRIV_PAGE_SIZE = 0
  BY <1>1
<1> QED
  BY <1>1, <1>2, <1>3

-----------------------------------------------------------------------------
(***************************************************************************)
(* Facts the steps share.                                                  *)
(***************************************************************************)

\* The values a call, a handle and an erased sector start from.
LEMMA StartValues ==
  /\ NoCall \in Call
  /\ EmptyCache \in [PageIdx -> Byte]
  /\ FreeHandle \in Handle
  /\ ErasedSessions \in [Slot -> Nil(Offset)]
  /\ ErasedData \in [Cell -> Byte]
<1>1. NoCall \in Call
  BY DEF NoCall, Call, Op, Mode, FS_MODE_READONLY, Nil
<1>2. EmptyCache \in [PageIdx -> Byte]
  BY DEF EmptyCache, Byte
<1>3. FreeHandle \in Handle
  BY <1>2, LayoutAssumption DEF FreeHandle, Handle, Nil, Offset
<1>4. ErasedSessions \in [Slot -> Nil(Offset)]
  BY DEF ErasedSessions, ERASED, Nil
<1>5. ErasedData \in [Cell -> Byte]
  BY DEF ErasedData, Byte
<1> QED
  BY <1>1, <1>2, <1>3, <1>4, <1>5

\* No handle is FS_PRIV_NOT_ALLOCATED, which stands for none.
LEMMA HandleIdIsNatural == HandleId \subseteq Nat /\ FS_PRIV_NOT_ALLOCATED \notin HandleId
BY ClientAssumption DEF HandleId, FS_PRIV_NOT_ALLOCATED

\* Data offsets are natural numbers.
LEMMA OffsetIsNatural == Offset \subseteq Nat
BY LayoutAssumption DEF Offset

\* A step that changes no handle keeps their invariant, unless it takes the call away
\* from a handle that open has not filled in.
LEMMA HandlesKept ==
  ASSUME \A h \in HandleId : HandleInv(h),
         UNCHANGED fs_priv_handle_list, pc # "write_page",
         \A h \in HandleId : Opening(h) => Opening(h)'
  PROVE  (\A h \in HandleId : HandleInv(h))'
<1> SUFFICES ASSUME NEW h \in HandleId PROVE HandleInv(h)'
  OBVIOUS
<1>1. HandleInv(h) /\ (Opening(h) => Opening(h)')
  OBVIOUS
<1> QED
  BY <1>1 DEF HandleInv, Open_, cached_bytes, page_boundary

\* A step that gives one handle a new value keeps the invariant of the others.
LEMMA HandleReplaced ==
  ASSUME fs_priv_handle_list \in [HandleId -> Handle],
         \A h \in HandleId : HandleInv(h),
         NEW g \in HandleId, NEW hd \in Handle,
         SetHandle(g, hd),
         pc = "write_page" => call.handle = g,
         \A h \in HandleId : h # g /\ Opening(h) => Opening(h)',
         HandleInv(g)'
  PROVE  /\ fs_priv_handle_list' \in [HandleId -> Handle]
         /\ (\A h \in HandleId : HandleInv(h))'
<1>1. fs_priv_handle_list' \in [HandleId -> Handle]
  BY DEF SetHandle
<1>2. ASSUME NEW h \in HandleId, h # g PROVE HandleInv(h)'
  <2>1. fs_priv_handle_list'[h] = fs_priv_handle_list[h]
    BY <1>2 DEF SetHandle
  <2>2. HandleInv(h) /\ (Opening(h) => Opening(h)')
    BY <1>2
  <2>3. pc = "write_page" => call.handle # h
    BY <1>2
  <2> QED
    BY <2>1, <2>2, <2>3 DEF HandleInv, Open_, cached_bytes, page_boundary
<1> QED
  BY <1>1, <1>2

-----------------------------------------------------------------------------
(***************************************************************************)
(* The initial state and the steps.                                        *)
(***************************************************************************)

\* A chip that has just been erased, and nothing running, satisfies the invariant.
LEMMA InitInvariant == Init => IInv
<1> SUFFICES ASSUME Init PROVE IInv
  OBVIOUS
<1>1. TypeOK
  BY StartValues, HeaderType DEF Init, TypeOK, Label, Code
<1>2. ASSUME NEW h \in HandleId PROVE HandleInv(h)
  BY <1>2 DEF Init, HandleInv, Open_, FreeHandle
<1>3. CallInv
  BY DEF Init, CallInv, OnHandle
<1> QED
  BY <1>1, <1>2, <1>3 DEF IInv

\* Mounting reads the table and frees the handles; unmounting forgets both.
LEMMA MountInvariant == IInv /\ (Mount \/ Unmount) => IInv'
<1> SUFFICES ASSUME IInv, Mount \/ Unmount PROVE IInv'
  OBVIOUS
<1>1. TypeOK'
  BY StartValues, HeaderType
  DEF IInv, TypeOK, Mount, Unmount, flashVars, ghostVars, Label
<1>2. ASSUME NEW h \in HandleId PROVE HandleInv(h)'
  BY <1>2 DEF Mount, Unmount, HandleInv, Open_, FreeHandle
<1>3. CallInv'
  BY DEF IInv, CallInv, Mount, Unmount, OnHandle
<1> QED
  BY <1>1, <1>2, <1>3 DEF IInv

\* A call that returns without having changed anything: the errors, and the end of
\* write and read.
LEMMA ReturnInvariant ==
  ASSUME IInv, NEW code \in Code, Return(code),
         UNCHANGED <<flashVars, ramVars, ghostVars>>,
         pc # "write_page",
         \A h \in HandleId : ~ Opening(h)
  PROVE  IInv'
<1>1. TypeOK'
  BY StartValues
  DEF IInv, TypeOK, Return, Goto, flashVars, ramVars, ghostVars, Label
<1>2. (\A h \in HandleId : HandleInv(h))'
  BY HandlesKept DEF IInv, ramVars
<1>3. CallInv'
  BY DEF Return, Goto, CallInv, OnHandle
<1> QED
  BY <1>1, <1>2, <1>3 DEF IInv

\* No handle is being opened at rest, while the root is searched, or in other calls.
LEMMA NoneOpening ==
  ASSUME IInv, pc \in {"idle", "find_file_root", "write", "flush_page_cache",
                       "update_session_offset", "write_page", "read"}
  PROVE  \A h \in HandleId : ~ Opening(h)
<1>1. CASE pc = "idle"
  BY <1>1 DEF IInv, CallInv, Opening, NoCall
<1>2. CASE pc = "find_file_root"
  BY <1>2, HandleIdIsNatural DEF IInv, CallInv, Opening
<1>3. CASE pc \in {"write", "flush_page_cache", "update_session_offset", "write_page", "read"}
  BY <1>3 DEF IInv, CallInv, Opening
<1> QED
  BY <1>1, <1>2, <1>3

\* open, protect, unprotect and remove start the search for the root.
LEMMA BeginOnFileInvariant ==
  ASSUME IInv, NEW op \in Op, NEW f \in Nil(FileId), NEW m \in Mode, BeginOnFile(op, f, m)
  PROVE  IInv'
<1>1. pc = "idle" /\ call = NoCall
  BY DEF BeginOnFile, IInv, CallInv
<1>2. call' \in Call /\ call'.handle = FS_PRIV_NOT_ALLOCATED
  BY RootSearchType, StartValues DEF BeginOnFile, Goto, NoCall, Call, Nil
<1>3. TypeOK'
  BY <1>2 DEF IInv, TypeOK, BeginOnFile, Goto, flashVars, ramVars, ghostVars, Label, Code
<1>4. (\A h \in HandleId : HandleInv(h))'
  BY <1>1, HandlesKept, NoneOpening DEF IInv, BeginOnFile, ramVars
<1>5. CallInv'
  BY <1>2 DEF BeginOnFile, Goto, CallInv, OnHandle
<1> QED
  BY <1>3, <1>4, <1>5 DEF IInv

\* protect, unprotect and remove of a file, any file.
LEMMA FileCallsInvariant ==
  ASSUME IInv, NEW f \in FileId, Remove(f) \/ Protect(f) \/ Unprotect(f)
  PROVE  IInv'
<1>1. f \in Nil(FileId) /\ FS_MODE_READONLY \in Mode
  BY DEF Nil, Mode
<1>2. \E op \in Op : BeginOnFile(op, f, FS_MODE_READONLY)
  BY DEF Remove, Protect, Unprotect, ChangeProtection, Op
<1> QED
  BY <1>1, <1>2, BeginOnFileInvariant

\* open, with any identifier, the reserved one included, and any mode.
LEMMA OpenInvariant ==
  ASSUME IInv, NEW f \in Nil(FileId), NEW m \in Mode, Open(f, m)
  PROVE  IInv'
BY BeginOnFileInvariant DEF Open, Op

\* format starts with the first sector.
LEMMA FormatInvariant == IInv /\ Format => IInv'
<1> SUFFICES ASSUME IInv, Format PROVE IInv'
  OBVIOUS
<1>1. 0 \in Sector
  BY LayoutAssumption DEF Sector
<1>2. call' \in Call /\ call'.sector = 0 /\ call'.op = "format"
  BY <1>1, StartValues DEF Format, Goto, NoCall, Call, Nil, Op
<1>3. TypeOK'
  BY <1>2 DEF IInv, TypeOK, Format, Goto, flashVars, ramVars, Label, Code
<1>4. (\A h \in HandleId : HandleInv(h))'
  BY HandlesKept, NoneOpening DEF IInv, Format, ramVars
<1>5. CallInv'
  BY <1>1, <1>2 DEF Format, Goto, CallInv, OnHandle
<1> QED
  BY <1>3, <1>4, <1>5 DEF IInv

\* The calls that work on a handle.
LEMMA BeginOnHandleInvariant ==
  ASSUME IInv, pc = "idle", NEW h \in HandleId, Open_(h), NEW n \in Nat,
         NEW op, NEW label, BeginOnHandle(op, h, label, n),
         UNCHANGED <<flashVars, ramVars, ghostVars>>,
         \/ /\ op \in {"close", "flush"} /\ label = "flush_page_cache"
            /\ fs_priv_handle_list[h].writeable
         \/ op = "write" /\ label = "write" /\ fs_priv_handle_list[h].writeable
         \/ op = "read" /\ label = "read" /\ ~ fs_priv_handle_list[h].writeable
  PROVE  IInv'
<1>1. fs_priv_handle_list[h] \in Handle
  BY DEF IInv, TypeOK
<1>2. call' \in Call /\ call'.handle = h /\ call'.op = op
  BY <1>1, StartValues DEF BeginOnHandle, Goto, NoCall, Call, Nil, Op, Handle
<1>3. TypeOK'
  BY <1>2
  DEF IInv, TypeOK, BeginOnHandle, Goto, flashVars, ramVars, ghostVars, Label, Code
<1>4. (\A g \in HandleId : HandleInv(g))'
  BY HandlesKept, NoneOpening DEF IInv, ramVars
<1>5. CallInv'
  BY <1>2 DEF BeginOnHandle, Goto, CallInv, OnHandle, Open_, Cur, ramVars
<1> QED
  BY <1>3, <1>4, <1>5 DEF IInv

\* flush, write and read return an error or go on with the handle they are given.
LEMMA HandleCallsInvariant ==
  ASSUME IInv, NEW h \in HandleId,
         \/ Flush(h) \/ InvalidHandle(h)
         \/ \E n \in WriteSizes : Write(h, n)
         \/ \E n \in ReadSizes : Read(h, n)
  PROVE  IInv'
<1> USE NoneOpening, ReturnInvariant, BeginOnHandleInvariant
<1>1. CASE Flush(h)
  BY <1>1 DEF Flush, Code
<1>2. CASE InvalidHandle(h)
  BY <1>2 DEF InvalidHandle, Code
<1>3. CASE \E n \in WriteSizes : Write(h, n)
  BY <1>3, ClientAssumption DEF Write, Code
<1>4. CASE \E n \in ReadSizes : Read(h, n)
  BY <1>4, ClientAssumption DEF Read, Code
<1> QED
  BY <1>1, <1>2, <1>3, <1>4

\* close frees the handle at once when there is nothing it could flush.
LEMMA CloseInvariant ==
  ASSUME IInv, NEW h \in HandleId, Close(h)
  PROVE  IInv'
<1>1. CASE SetHandle(h, FreeHandle) /\ Return("FS_NO_ERROR")
  <2>1. HandleInv(h)'
    BY <1>1 DEF IInv, TypeOK, SetHandle, HandleInv, Open_, FreeHandle
  <2>2. /\ fs_priv_handle_list' \in [HandleId -> Handle]
        /\ (\A g \in HandleId : HandleInv(g))'
    BY <1>1, <2>1, HandleReplaced, StartValues, NoneOpening DEF IInv, TypeOK, Close
  <2>3. TypeOK'
    BY <1>1, <2>2, StartValues
    DEF IInv, TypeOK, Close, Return, Goto, flashVars, ghostVars, Label, Code
  <2>4. CallInv'
    BY <1>1 DEF Return, Goto, CallInv, OnHandle
  <2> QED
    BY <2>2, <2>3, <2>4 DEF IInv
<1>2. CASE /\ fs_priv_handle_list[h].writeable
           /\ BeginOnHandle("close", h, "flush_page_cache", 0)
           /\ UNCHANGED fs_priv_handle_list
  BY <1>2, BeginOnHandleInvariant DEF Close, ramVars
<1> QED
  BY <1>1, <1>2 DEF Close

\* The search for the root, and the calls it refuses.
LEMMA ClimbInvariant == IInv /\ ClimbToRoot => IInv'
<1> SUFFICES ASSUME IInv, ClimbToRoot PROVE IInv'
  OBVIOUS
<1>1. PICK up \in Nil(Sector) : call' = [call EXCEPT !.sector = up]
  BY RootSearchType DEF ClimbToRoot
<1>2. TypeOK'
  BY <1>1 DEF IInv, TypeOK, ClimbToRoot, flashVars, ramVars, ghostVars, Call
<1>3. call'.handle = call.handle /\ call'.op = call.op
  BY <1>1 DEF IInv, TypeOK, Call
<1>4. (\A h \in HandleId : HandleInv(h))'
  BY <1>3, HandlesKept DEF IInv, ClimbToRoot, ramVars, Opening
<1>5. CallInv'
  BY <1>3 DEF IInv, CallInv, ClimbToRoot, OnHandle
<1> QED
  BY <1>2, <1>4, <1>5 DEF IInv

\* The calls that find no file, or one they may not touch.
LEMMA RefusalInvariant ==
  ASSUME IInv, FileMissing \/ OpenRefused \/ RemoveRefused
  PROVE  IInv'
<1>1. pc = "find_file_root"
  BY DEF FileMissing, OpenRefused, RemoveRefused, AtRoot
<1>2. \E code \in Code : Return(code)
  BY DEF FileMissing, OpenRefused, RemoveRefused, check_file_flags, Code
<1> QED
  BY <1>1, <1>2, ReturnInvariant, NoneOpening
  DEF FileMissing, OpenRefused, RemoveRefused

\* protect and unprotect change the protection bits of a sector, in flash and RAM.
LEMMA SetProtectionInvariant ==
  ASSUME IInv, NEW op, SetProtection(op)
  PROVE  IInv'
<1>1. call.sector \in Sector
  BY DEF SetProtection, IInv, TypeOK, Call, Nil
<1> DEFINE bits == set_protected(op = "protect", alloc_unit_list[call.sector].file_protect)
<1>2. bits \in 0 .. PROTECT_BITS
  BY <1>1, ProtectionType DEF IInv, TypeOK, Header
<1>3. header' \in [Sector -> Header] /\ alloc_unit_list' \in [Sector -> Header]
  <2>1. \A b \in 0 .. PROTECT_BITS : SmallerOf(b, bits) \in 0 .. PROTECT_BITS
    BY <1>2 DEF SmallerOf
  <2> HIDE DEF bits
  <2>2. CASE UNCHANGED <<header, alloc_unit_list>>
    BY <2>2 DEF IInv, TypeOK
  <2>3. CASE /\ header' = [header EXCEPT ![call.sector].file_protect = SmallerOf(@, bits)]
             /\ alloc_unit_list' = [alloc_unit_list EXCEPT ![call.sector].file_protect = bits]
    BY <1>1, <1>2, <2>1, <2>3, ZenonT(40) DEF IInv, TypeOK, Header
  <2> QED
    BY <2>2, <2>3 DEF SetProtection, bits
<1>4. TypeOK'
  BY <1>3, StartValues DEF IInv, TypeOK, SetProtection, Return, Goto, ghostVars, Label, Code
<1>5. (\A h \in HandleId : HandleInv(h))'
  BY HandlesKept, NoneOpening DEF IInv, SetProtection, AtRoot
<1>6. CallInv'
  BY DEF SetProtection, Return, Goto, CallInv, OnHandle
<1> QED
  BY <1>4, <1>5, <1>6 DEF IInv

\* remove starts the erasure of the chain at the root.
LEMMA RemoveRootInvariant == IInv /\ RemoveRoot => IInv'
<1> SUFFICES ASSUME IInv, RemoveRoot PROVE IInv'
  OBVIOUS
<1>1. call.sector \in Sector /\ call.op = "remove"
  BY DEF RemoveRoot, AtRoot, IInv, TypeOK, Call, Nil
<1>2. /\ call' \in Call /\ call'.handle = call.handle /\ call'.op = "remove"
      /\ call'.sector = call.sector
  BY <1>1 DEF RemoveRoot, EraseNext, Goto, IInv, TypeOK, Call, Header
<1>3. TypeOK'
  BY <1>2
  DEF IInv, TypeOK, RemoveRoot, EraseNext, Goto, flashVars, ramVars, Label, Call
<1>4. (\A h \in HandleId : HandleInv(h))'
  BY HandlesKept, NoneOpening DEF IInv, RemoveRoot, AtRoot, ramVars
<1>5. CallInv'
  BY <1>1, <1>2 DEF RemoveRoot, EraseNext, Goto, CallInv, OnHandle
<1> QED
  BY <1>3, <1>4, <1>5 DEF IInv

-----------------------------------------------------------------------------
\* open of a file that is accepted: the handle it takes is a free one.
LEMMA OpenedHandleType ==
  ASSUME IInv, OpenAccepted
  PROVE  /\ Min(FreeHandles) \in HandleId
         /\ ~ Open_(Min(FreeHandles))
         /\ OpenedHandle \in Handle
         /\ OpenedHandle.writeable = call.mode.writeable
         /\ OpenedHandle.fs_priv
         /\ OpenedHandle.curr_data_offset = 0
         /\ OpenedHandle.last_data_offset = 0
         /\ call.mode.writeable \in BOOLEAN
         /\ call.sector = FS_PRIV_NOT_ALLOCATED => call.mode.writeable
<1>1. FreeHandles \in SUBSET HandleId /\ FreeHandles # {}
  BY DEF OpenAccepted, FreeHandles
<1>2. Min(FreeHandles) \in FreeHandles
  BY <1>1, HandleIdIsNatural, MinIsLeast
<1>3. call \in Call /\ call.mode \in Mode
  BY DEF IInv, TypeOK, Call
<1>4. /\ call.mode.writeable \in BOOLEAN
      /\ call.mode.circular \in BOOLEAN
      /\ call.mode.create => call.mode.writeable
  <2>1. \A c, w, o \in BOOLEAN : /\ Flags(c, w, o).writeable = w
                               /\ Flags(c, w, o).circular = o
                               /\ Flags(c, w, o).create = c
    BY DEF Flags
  <2>2. \E c, w, o \in BOOLEAN : call.mode = Flags(c, w, o) /\ (c => w)
    BY <1>3 DEF Mode, FS_MODE_CREATE, FS_MODE_CREATE_CIRCULAR, FS_MODE_WRITEONLY,
                FS_MODE_READONLY
  <2> QED
    BY <2>1, <2>2
<1>5. call.sector # FS_PRIV_NOT_ALLOCATED => alloc_unit_list[call.sector].circular \in BOOLEAN
  BY <1>3 DEF IInv, TypeOK, Call, Nil, Header
<1>6. OpenedHandle \in Handle
  BY <1>3, <1>4, <1>5, StartValues DEF OpenedHandle, Handle, Call
<1>7. /\ OpenedHandle.writeable = call.mode.writeable
      /\ OpenedHandle.fs_priv
      /\ OpenedHandle.curr_data_offset = 0
      /\ OpenedHandle.last_data_offset = 0
  BY DEF OpenedHandle, FreeHandle
<1>8. call.sector = FS_PRIV_NOT_ALLOCATED => call.mode.create
  BY DEF OpenAccepted, check_file_flags
<1> QED
  BY <1>1, <1>2, <1>4, <1>6, <1>7, <1>8 DEF FreeHandles

\* A reader starts on the root with the committed bytes of it ahead.
LEMMA OpenForReadingInvariant == IInv /\ OpenForReading => IInv'
<1> SUFFICES ASSUME IInv, OpenForReading PROVE IInv'
  OBVIOUS
<1>1. call.sector \in Sector /\ pc = "find_file_root"
  BY DEF OpenForReading, OpenAccepted, AtRoot, IInv, TypeOK, Call, Nil
<1>2. session_end(session[call.sector]) \in Offset
  BY <1>1, SessionScanType DEF IInv, TypeOK
<1>3. PICK g \in HandleId : g = Min(FreeHandles)
  BY OpenedHandleType DEF OpenForReading
<1> DEFINE reader == [OpenedHandle EXCEPT
                        !.curr_allocation_unit = call.sector,
                        !.last_data_offset = session_end(session[call.sector])]
<1>4. PICK hd \in Handle :
        /\ hd = reader
        /\ hd.curr_allocation_unit = call.sector
        /\ ~ hd.writeable /\ hd.curr_data_offset = 0
        /\ hd.last_data_offset = session_end(session[call.sector])
  <2>1. OpenedHandle \in Handle /\ ~ OpenedHandle.writeable
        /\ OpenedHandle.curr_data_offset = 0
    BY OpenedHandleType DEF OpenForReading
  <2>2. /\ reader \in Handle
        /\ reader.curr_allocation_unit = call.sector
        /\ ~ reader.writeable /\ reader.curr_data_offset = 0
        /\ reader.last_data_offset = session_end(session[call.sector])
    BY <1>1, <1>2, <2>1 DEF Handle, Nil
  <2> QED
    BY <2>2
<1>5. SetHandle(g, hd) /\ Return("FS_NO_ERROR")
  BY <1>3, <1>4 DEF OpenForReading
<1>6. HandleInv(g)'
  <2>1. fs_priv_handle_list'[g] = hd
    BY <1>3, <1>5 DEF SetHandle, IInv, TypeOK
  <2>2. 0 <= hd.last_data_offset
    BY <1>2, <1>4 DEF Offset
  <2> QED
    BY <1>1, <1>4, <2>1, <2>2 DEF HandleInv
<1>7. fs_priv_handle_list' \in [HandleId -> Handle] /\ (\A h \in HandleId : HandleInv(h))'
  BY <1>1, <1>3, <1>4, <1>5, <1>6, HandleReplaced, NoneOpening DEF IInv, TypeOK
<1>8. TypeOK'
  BY <1>5, <1>7, StartValues
  DEF IInv, TypeOK, OpenForReading, Return, Goto, flashVars, ghostVars, Label, Code
<1>9. CallInv'
  BY <1>5 DEF Return, Goto, CallInv, OnHandle
<1> QED
  BY <1>7, <1>8, <1>9 DEF IInv

\* open for writing goes on with the handle it has taken.
LEMMA OpenGoesOnInvariant == IInv /\ (OpenForWriting \/ OpenNewFile) => IInv'
<1> SUFFICES ASSUME IInv, OpenForWriting \/ OpenNewFile PROVE IInv'
  OBVIOUS
<1>1. OpenAccepted /\ pc = "find_file_root" /\ call.op = "open"
  BY DEF OpenForWriting, OpenNewFile, OpenAccepted, AtRoot
<1>2. PICK g \in HandleId, hd \in Handle :
        /\ g = Min(FreeHandles) /\ hd = OpenedHandle
        /\ hd.writeable /\ hd.fs_priv
        /\ hd.curr_data_offset = 0 /\ hd.last_data_offset = 0
        /\ SetHandle(g, hd)
  BY <1>1, OpenedHandleType DEF OpenForWriting, OpenNewFile
<1>3. /\ call' \in Call /\ call'.handle = g /\ call'.op = "open"
      /\ call'.sector = call.sector
      /\ \/ pc' = "find_last_allocation_unit" /\ call.sector \in Sector
         \/ pc' = "allocate"
  BY <1>1, <1>2 DEF OpenForWriting, OpenNewFile, Goto, IInv, TypeOK, Call, Nil
<1>4. fs_priv_handle_list'[g] = hd
  BY <1>1, <1>2 DEF SetHandle, IInv, TypeOK
<1>5. HandleInv(g)'
  <2>1. cached_bytes(hd) = 0
    BY <1>2 DEF cached_bytes
  <2>2. page_boundary(hd) \in 1 .. FS_PRIV_PAGE_SIZE
    BY <1>2, PageBoundary DEF page_boundary
  <2>3. cached_bytes(hd) \in 0 .. page_boundary(hd)
        /\ cached_bytes(hd) # page_boundary(hd)
    BY <2>1, <2>2
  <2> QED
    BY <1>2, <1>3, <1>4, <2>3 DEF HandleInv, Opening, cached_bytes, page_boundary
<1>6. fs_priv_handle_list' \in [HandleId -> Handle] /\ (\A h \in HandleId : HandleInv(h))'
  BY <1>1, <1>2, <1>5, HandleReplaced, NoneOpening DEF IInv, TypeOK
<1>7. TypeOK'
  BY <1>3, <1>6
  DEF IInv, TypeOK, OpenForWriting, OpenNewFile, flashVars, ghostVars, Label
<1>8. CallInv'
  BY <1>2, <1>3, <1>4 DEF CallInv, OnHandle, Open_
<1> QED
  BY <1>6, <1>7, <1>8 DEF IInv

\* A handle with an empty cache, in a sector, is as it should be.
LEMMA EmptyCacheHandle ==
  ASSUME NEW hd \in Handle, hd.curr_data_offset = hd.last_data_offset
  PROVE  /\ cached_bytes(hd) \in 0 .. page_boundary(hd)
         /\ cached_bytes(hd) # page_boundary(hd)
         /\ hd.curr_data_offset <= hd.last_data_offset
<1>1. hd.last_data_offset \in Nat
  BY LayoutAssumption DEF Handle, Offset
<1>2. page_boundary(hd) \in 1 .. FS_PRIV_PAGE_SIZE
  BY <1>1, PageBoundary DEF page_boundary
<1>3. cached_bytes(hd) = 0
  BY <1>1 DEF cached_bytes
<1> QED
  BY <1>1, <1>2, <1>3, LayoutAssumption

\* The walk to the last sector stays in the table.
LEMMA FollowChainInvariant == IInv /\ FollowChain => IInv'
<1> SUFFICES ASSUME IInv, FollowChain PROVE IInv'
  OBVIOUS
<1>1. call.sector \in Sector
  BY DEF IInv, CallInv, FollowChain
<1>2. alloc_unit_list[call.sector].next_allocation_unit \in Sector
  BY <1>1 DEF FollowChain, is_last_allocation_unit, IInv, TypeOK, Header, Nil
<1>3. /\ call' \in Call /\ call'.handle = call.handle /\ call'.op = call.op
      /\ call'.sector \in Sector
  BY <1>2 DEF FollowChain, IInv, TypeOK, Call, Nil
<1>4. TypeOK'
  BY <1>3 DEF IInv, TypeOK, FollowChain, flashVars, ramVars, ghostVars
<1>5. (\A h \in HandleId : HandleInv(h))'
  BY <1>3, HandlesKept DEF IInv, FollowChain, ramVars, Opening
<1>6. CallInv'
  BY <1>3 DEF IInv, CallInv, FollowChain, OnHandle, Open_, Cur, ramVars
<1> QED
  BY <1>4, <1>5, <1>6 DEF IInv

\* A writer starts at the last committed byte of the last sector, its cache empty.
LEMMA OpenAtEndInvariant == IInv /\ OpenAtEnd => IInv'
<1> SUFFICES ASSUME IInv, OpenAtEnd PROVE IInv'
  OBVIOUS
<1>1. call.sector \in Sector /\ call.handle \in HandleId /\ pc = "find_last_allocation_unit"
  BY DEF IInv, CallInv, OpenAtEnd, OnHandle
<1>2. PICK g \in HandleId : g = call.handle
  BY <1>1
<1> DEFINE end    == session_end(session[call.sector])
           writer == [Cur EXCEPT !.curr_allocation_unit = call.sector,
                                 !.curr_session_offset = next_session(session[call.sector]),
                                 !.curr_session_value = end,
                                 !.last_data_offset = end,
                                 !.curr_data_offset = end]
<1>3. end \in Offset /\ next_session(session[call.sector]) \in Nil(Slot)
  BY <1>1, SessionScanType DEF IInv, TypeOK
<1>4. PICK hd \in Handle :
        /\ hd = writer
        /\ hd.curr_allocation_unit \in Sector
        /\ hd.curr_data_offset = hd.last_data_offset
  <2>1. Cur \in Handle
    BY <1>1 DEF Cur, IInv, TypeOK
  <2>2. /\ writer \in Handle
        /\ writer.curr_allocation_unit \in Sector
        /\ writer.curr_data_offset = writer.last_data_offset
    BY <1>1, <1>3, <2>1 DEF Handle, Nil
  <2> QED
    BY <2>2
<1>5. SetHandle(g, hd) /\ Return("FS_NO_ERROR")
  BY <1>2, <1>4 DEF OpenAtEnd
<1>6. HandleInv(g)'
  <2>1. fs_priv_handle_list'[g] = hd
    BY <1>5 DEF SetHandle, IInv, TypeOK
  <2> QED
    BY <1>4, <2>1, EmptyCacheHandle DEF HandleInv, cached_bytes, page_boundary
<1>7. fs_priv_handle_list' \in [HandleId -> Handle] /\ (\A h \in HandleId : HandleInv(h))'
  BY <1>1, <1>2, <1>5, <1>6, HandleReplaced DEF IInv, TypeOK, Opening
<1>8. TypeOK'
  BY <1>5, <1>7, StartValues
  DEF IInv, TypeOK, OpenAtEnd, Return, Goto, flashVars, ghostVars, Label, Code
<1>9. CallInv'
  BY <1>5 DEF Return, Goto, CallInv, OnHandle
<1> QED
  BY <1>7, <1>8, <1>9 DEF IInv

-----------------------------------------------------------------------------
\* erase_allocation_unit: the sector's header in RAM is that of an erased sector.
LEMMA EraseBlockInvariant == IInv /\ EraseBlock => IInv'
<1> SUFFICES ASSUME IInv, EraseBlock PROVE IInv'
  OBVIOUS
<1>1. call.sector \in Sector
  BY DEF IInv, CallInv, EraseBlock
<1> DEFINE entry == [ErasedHeader EXCEPT
                       !.alloc_counter = NextCounter(alloc_unit_list[call.sector].alloc_counter)]
<1>2. entry \in Header
  <2>1. alloc_unit_list[call.sector].alloc_counter \in Nil(0 .. MAX_COUNTER - 1)
    BY <1>1 DEF IInv, TypeOK, Header
  <2>2. NextCounter(alloc_unit_list[call.sector].alloc_counter) \in Nil(0 .. MAX_COUNTER - 1)
    BY <2>1, HeaderType
  <2> QED
    BY <2>2, HeaderType DEF Header
<1>3. alloc_unit_list' = [alloc_unit_list EXCEPT ![call.sector] = entry]
  BY DEF EraseBlock
<1> HIDE DEF entry
<1>4. TypeOK'
  BY <1>1, <1>2, <1>3, StartValues, HeaderType DEF IInv, TypeOK, EraseBlock, Label
<1>5. (\A h \in HandleId : HandleInv(h))'
  BY HandlesKept DEF IInv, EraseBlock, Opening
<1>6. CallInv'
  BY DEF IInv, CallInv, EraseBlock, OnHandle, Open_, Cur
<1> QED
  BY <1>4, <1>5, <1>6 DEF IInv

\* Writing the erase counter back leaves a header.
LEMMA WriteCounterType ==
  ASSUME IInv, WriteCounter
  PROVE  call.sector \in Sector /\ header' \in [Sector -> Header]
<1>1. call.sector \in Sector
  BY DEF IInv, CallInv, WriteCounter
<1>2. ProgramWord(header[call.sector].alloc_counter, alloc_unit_list[call.sector].alloc_counter)
        \in Nil(0 .. MAX_COUNTER - 1)
  <2>1. MAX_COUNTER - 1 \in Nat
    BY LayoutAssumption
  <2>2. /\ header[call.sector].alloc_counter \in Nil(0 .. MAX_COUNTER - 1)
        /\ alloc_unit_list[call.sector].alloc_counter \in Nil(0 .. MAX_COUNTER - 1)
    BY <1>1 DEF IInv, TypeOK, Header
  <2> QED
    BY <2>1, <2>2, ProgramWordType
<1> QED
  BY <1>1, <1>2, ZenonT(40) DEF WriteCounter, IInv, TypeOK, Header

\* remove goes on to the link it saved, format to the next sector.
LEMMA EraseLoopInvariant == IInv /\ (RemoveNext \/ FormatNext) => IInv'
<1> SUFFICES ASSUME IInv, RemoveNext \/ FormatNext PROVE IInv'
  OBVIOUS
<1>1. WriteCounter /\ call.op \in {"remove", "format"} /\ pc = "write_counter"
  BY DEF RemoveNext, FormatNext, WriteCounter
<1>2. header' \in [Sector -> Header] /\ call.sector \in Sector
  BY <1>1, WriteCounterType
<1>3. \/ Return("FS_NO_ERROR")
      \/ /\ pc' = "erase_block" /\ call' \in Call /\ call'.op = call.op
         /\ call'.sector \in Sector /\ ret' = ret
  <2>1. CASE RemoveNext
    <3>1. CASE call.next = FS_PRIV_NOT_ALLOCATED
      BY <2>1, <3>1 DEF RemoveNext
    <3>2. CASE call.next # FS_PRIV_NOT_ALLOCATED
      <4>1. call.next \in Sector
        BY <3>2 DEF IInv, TypeOK, Call, Nil
      <4>2. alloc_unit_list[call.next].next_allocation_unit \in Nil(Sector)
        BY <4>1 DEF IInv, TypeOK, Header
      <4> QED
        BY <2>1, <3>2, <4>1, <4>2
        DEF RemoveNext, EraseNext, Goto, IInv, TypeOK, Call, Nil
    <3> QED
      BY <3>1, <3>2
  <2>2. CASE FormatNext
    BY <2>2 DEF FormatNext, Goto, IInv, TypeOK, Call, Nil
  <2> QED
    BY <2>1, <2>2
<1>4. call' \in Call /\ pc' \in Label /\ ret' \in Code
  BY <1>3, StartValues DEF Return, Goto, IInv, TypeOK, Label, Code
<1>5. TypeOK'
  BY <1>2, <1>4 DEF IInv, TypeOK, RemoveNext, FormatNext, ramVars, ghostVars
<1>6. (\A h \in HandleId : HandleInv(h))'
  BY <1>1, HandlesKept DEF IInv, RemoveNext, FormatNext, ramVars, Opening
<1>7. CallInv'
  BY <1>1, <1>3 DEF Return, Goto, CallInv, OnHandle
<1> QED
  BY <1>5, <1>6, <1>7 DEF IInv

-----------------------------------------------------------------------------
\* allocate_new_sector_to_file, from the sector it has found to its first flash write.
LEMMA ClaimInvariant ==
  ASSUME IInv, pc # "write_page", OnHandle, call.op \in {"open", "write"},
         NEW s \in Sector, NEW root \in Nil(Sector), Claim(s, root),
         header' \in [Sector -> Header], UNCHANGED <<session, data, ret, ghostVars>>
  PROVE  IInv'
<1>1. PICK g \in HandleId : g = call.handle /\ Open_(g)
  BY DEF IInv, CallInv
<1>2. Cur \in Handle /\ Cur = fs_priv_handle_list[g]
  BY <1>1 DEF Cur, IInv, TypeOK
<1>3. alloc_unit_list' \in [Sector -> Header]
  <2> DEFINE entry == [file_id |-> Cur.file_id,
                       file_protect |-> IF root = FS_PRIV_NOT_ALLOCATED
                                          THEN PROTECT_BITS
                                          ELSE alloc_unit_list[root].file_protect,
                       next_allocation_unit |-> FS_PRIV_NOT_ALLOCATED,
                       circular |-> Cur.circular,
                       alloc_counter |-> alloc_unit_list[s].alloc_counter]
             claimed == [alloc_unit_list EXCEPT ![s] = entry]
  <2>1. entry \in Header
    <3>1. Cur.file_id \in Nil(FileId) /\ Cur.circular \in BOOLEAN
      BY <1>2 DEF Handle
    <3>2. root # FS_PRIV_NOT_ALLOCATED =>
            alloc_unit_list[root].file_protect \in 0 .. PROTECT_BITS
      BY DEF IInv, TypeOK, Header, Nil
    <3>3. alloc_unit_list[s].alloc_counter \in Nil(0 .. MAX_COUNTER - 1)
      BY DEF IInv, TypeOK, Header
    <3> QED
      BY <3>1, <3>2, <3>3, LayoutAssumption DEF Header, Nil
  <2> HIDE DEF entry
  <2>2. claimed \in [Sector -> Header]
    BY <2>1 DEF IInv, TypeOK
  <2>3. \/ alloc_unit_list' = claimed
        \/ alloc_unit_list' =
             [claimed EXCEPT ![Cur.curr_allocation_unit].next_allocation_unit = s]
    BY DEF Claim, entry
  <2> HIDE DEF claimed
  <2> QED
    BY <2>2, <2>3 DEF Header, Nil
<1>4. PICK hd \in Handle, r \in Nil(Sector) :
        hd = [Cur EXCEPT !.root_allocation_unit = r] /\ SetHandle(g, hd)
  <2>1. PICK r \in Nil(Sector) :
          SetHandle(call.handle, [Cur EXCEPT !.root_allocation_unit = r])
    BY DEF Claim, Nil
  <2>2. [Cur EXCEPT !.root_allocation_unit = r] \in Handle
    BY <1>2 DEF Handle
  <2> QED
    BY <1>1, <2>1, <2>2
<1>5. /\ call' \in Call /\ call'.handle = g /\ call'.op = call.op /\ call'.sector = s
      /\ pc' \in {"write_file_info", "write_next"}
  BY <1>1, ZenonT(40) DEF Claim, Goto, IInv, TypeOK, Call, Nil
<1>6. fs_priv_handle_list'[g] = hd /\ hd.fs_priv
  <2>1. Cur.fs_priv
    BY <1>1, <1>2 DEF Open_
  <2> QED
    BY <1>2, <1>4, <2>1 DEF SetHandle, IInv, TypeOK, Handle
<1>7. HandleInv(g)'
  <2>1. HandleInv(g) /\ Open_(g) /\ pc # "write_page"
    BY <1>1 DEF IInv
  <2>2. /\ hd.curr_allocation_unit = Cur.curr_allocation_unit
        /\ hd.writeable = Cur.writeable
        /\ hd.curr_data_offset = Cur.curr_data_offset
        /\ hd.last_data_offset = Cur.last_data_offset
    BY <1>2, <1>4 DEF Handle
  <2> QED
    BY <1>1, <1>2, <1>5, <1>6, <2>1, <2>2
    DEF HandleInv, Opening, cached_bytes, page_boundary
<1>8. fs_priv_handle_list' \in [HandleId -> Handle] /\ (\A h \in HandleId : HandleInv(h))'
  BY <1>1, <1>4, <1>7, HandleReplaced DEF IInv, TypeOK, Opening
<1>9. TypeOK'
  BY <1>3, <1>5, <1>8 DEF IInv, TypeOK, ghostVars, Label
<1>10. CallInv'
  <2>1. call.op = "write" => Cur.writeable
    BY DEF IInv, CallInv
  <2>2. hd.writeable = Cur.writeable
    BY <1>2, <1>4 DEF Handle
  <2> QED
    BY <1>5, <1>6, <2>1, <2>2 DEF CallInv, OnHandle, Open_, Cur
<1> QED
  BY <1>8, <1>9, <1>10 DEF IInv

\* The sector claimed is a free one, or the root that has just been erased.
LEMMA AllocateInvariant == IInv /\ (AllocateFree \/ Recycled) => IInv'
<1>1. ASSUME IInv, AllocateFree PROVE IInv'
  <2>1. /\ call.handle \in HandleId /\ pc = "allocate"
        /\ OnHandle /\ call.op \in {"open", "write"}
    BY <1>1 DEF IInv, CallInv, AllocateFree, OnHandle
  <2>2. find_free_allocation_unit(alloc_unit_list) \in Sector
    BY <1>1, FindFreeType DEF IInv, TypeOK, AllocateFree, free_sectors, sectors_of
  <2>3. Cur.root_allocation_unit \in Nil(Sector)
    BY <1>1, <2>1 DEF Cur, IInv, TypeOK, Handle
  <2>4. header' \in [Sector -> Header]
    BY <1>1 DEF AllocateFree, IInv, TypeOK, flashVars
  <2> QED
    BY <1>1, <2>1, <2>2, <2>3, <2>4, ClaimInvariant DEF AllocateFree, flashVars
<1>2. ASSUME IInv, Recycled PROVE IInv'
  <2>1. OnHandle /\ call.op \in {"open", "write"} /\ pc = "write_counter"
    BY <1>2 DEF Recycled, WriteCounter, OnHandle
  <2>2. call.sector \in Sector /\ header' \in [Sector -> Header]
    BY <1>2, WriteCounterType DEF Recycled
  <2>3. call.next \in Nil(Sector)
    BY <1>2 DEF IInv, TypeOK, Call
  <2> QED
    BY <1>2, <2>1, <2>2, <2>3, ClaimInvariant DEF Recycled
<1> QED
  BY <1>1, <1>2

\* A circular file starts the erasure of its root.
LEMMA RecycleRootInvariant == IInv /\ RecycleRoot => IInv'
<1> SUFFICES ASSUME IInv, RecycleRoot PROVE IInv'
  OBVIOUS
<1>1. call.handle \in HandleId /\ Open_(call.handle) /\ pc = "allocate"
  BY DEF IInv, CallInv, RecycleRoot, OnHandle
<1>2. Cur.root_allocation_unit \in Sector
  BY <1>1 DEF RecycleRoot, CanRecycle, Cur, IInv, TypeOK, Handle, Nil
<1>3. alloc_unit_list[Cur.root_allocation_unit].next_allocation_unit \in Nil(Sector)
  BY <1>2 DEF IInv, TypeOK, Header
<1>4. /\ call' \in Call /\ call'.handle = call.handle /\ call'.op = call.op
      /\ call'.sector \in Sector
  BY <1>2, <1>3 DEF RecycleRoot, Goto, IInv, TypeOK, Call, Nil
<1>5. TypeOK'
  BY <1>4 DEF IInv, TypeOK, RecycleRoot, Goto, flashVars, ramVars, ghostVars, Label
<1>6. (\A h \in HandleId : HandleInv(h))'
  BY <1>1, <1>4, HandlesKept DEF IInv, RecycleRoot, ramVars, Opening
<1>7. CallInv'
  <2>1. call.op \in {"open", "write"} /\ (call.op = "write" => Cur.writeable)
    BY <1>1 DEF IInv, CallInv, OnHandle
  <2> QED
    BY <1>1, <1>4, <2>1 DEF RecycleRoot, Goto, CallInv, OnHandle, Open_, Cur, ramVars
<1> QED
  BY <1>5, <1>6, <1>7 DEF IInv

\* open gives its handle back when there is no sector for the file.
LEMMA AllocateFailsInvariant == IInv /\ AllocateFails => IInv'
<1> SUFFICES ASSUME IInv, AllocateFails PROVE IInv'
  OBVIOUS
<1>1. call.handle \in HandleId /\ pc = "allocate"
  BY DEF IInv, CallInv, AllocateFails, OnHandle
<1>2. PICK g \in HandleId : g = call.handle
  BY <1>1
<1>3. CASE call.op = "open"
  <2>1. SetHandle(g, FreeHandle) /\ Return("FS_ERROR_FILESYSTEM_FULL")
    BY <1>2, <1>3 DEF AllocateFails
  <2>2. HandleInv(g)'
    BY <2>1 DEF IInv, TypeOK, SetHandle, HandleInv, Open_, FreeHandle
  <2>3. fs_priv_handle_list' \in [HandleId -> Handle] /\ (\A h \in HandleId : HandleInv(h))'
    BY <1>1, <1>2, <2>1, <2>2, HandleReplaced, StartValues DEF IInv, TypeOK, Opening
  <2>4. TypeOK'
    BY <2>1, <2>3, StartValues
    DEF IInv, TypeOK, AllocateFails, Return, Goto, flashVars, ghostVars, Label, Code
  <2>5. CallInv'
    BY <2>1 DEF Return, Goto, CallInv, OnHandle
  <2> QED
    BY <2>3, <2>4, <2>5 DEF IInv
<1>4. CASE call.op # "open"
  <2>1. \A h \in HandleId : ~ Opening(h)
    BY <1>4 DEF Opening
  <2>2. Return("FS_ERROR_FILESYSTEM_FULL") /\ UNCHANGED <<flashVars, ramVars, ghostVars>>
    BY <1>4 DEF AllocateFails, ramVars
  <2> QED
    BY <1>1, <2>1, <2>2, ReturnInvariant DEF Code
<1> QED
  BY <1>3, <1>4

\* The header of the current sector is programmed again with its link.
LEMMA WriteNextInvariant == IInv /\ WriteNext => IInv'
<1> SUFFICES ASSUME IInv, WriteNext PROVE IInv'
  OBVIOUS
<1>1. call.handle \in HandleId /\ Open_(call.handle) /\ pc = "write_next"
  BY DEF IInv, CallInv, WriteNext, OnHandle
<1>2. header' \in [Sector -> Header]
  <2> DEFINE s == Cur.curr_allocation_unit
  <2>1. \A t \in Sector : ProgramFileInfo(header[t], alloc_unit_list[t]) \in Header
    BY HeaderType DEF IInv, TypeOK
  <2>2. header' = [header EXCEPT ![s] = ProgramFileInfo(@, alloc_unit_list[s])]
    BY DEF WriteNext
  <2> HIDE DEF s
  <2> QED
    BY <2>1, <2>2 DEF IInv, TypeOK
<1>3. call.sector \in Sector
  BY <1>1 DEF IInv, CallInv
<1>4. TypeOK'
  BY <1>2 DEF IInv, TypeOK, WriteNext, ramVars, ghostVars, Label
<1>5. (\A h \in HandleId : HandleInv(h))'
  BY <1>1, HandlesKept DEF IInv, WriteNext, ramVars, Opening
<1>6. CallInv'
  <2>1. call.op \in {"open", "write"} /\ (call.op = "write" => Cur.writeable)
    BY <1>1 DEF IInv, CallInv, OnHandle
  <2> QED
    BY <1>1, <1>3, <2>1 DEF WriteNext, CallInv, OnHandle, Open_, Cur, ramVars
<1> QED
  BY <1>4, <1>5, <1>6 DEF IInv

\* Programming bytes of a cache into a sector leaves bytes there.
LEMMA ProgramDataType ==
  ASSUME data \in [Sector -> [Cell -> Byte]], NEW s, NEW from \in Nat,
         NEW n \in 0 .. FS_PRIV_PAGE_SIZE, NEW bytes \in [PageIdx -> Byte],
         ProgramData(s, from, n, bytes)
  PROVE  data' \in [Sector -> [Cell -> Byte]]
<1> DEFINE cell(t, i) == IF i >= from /\ i < from + n
                           THEN ProgramByte(data[t][i], bytes[i - from])
                           ELSE data[t][i]
<1>1. ASSUME NEW t \in Sector, NEW i \in Cell PROVE cell(t, i) \in Byte
  <2>1. data[t][i] \in Byte
    OBVIOUS
  <2>2. i >= from /\ i < from + n => i - from \in PageIdx
    BY LayoutAssumption DEF Cell, PageIdx
  <2>3. i >= from /\ i < from + n => bytes[i - from] \in Byte
    BY <2>2
  <2> QED
    BY <2>1, <2>3 DEF ProgramByte, Byte
<1>2. data' = [data EXCEPT ![s] = [i \in Cell |-> cell(s, i)]]
  BY DEF ProgramData
<1> HIDE DEF cell
<1>3. s \in Sector => [i \in Cell |-> cell(s, i)] \in [Cell -> Byte]
  BY <1>1
<1> QED
  BY <1>2, <1>3

\* The writer moves to its new sector with an empty cache.
LEMMA WriteFileInfoInvariant == IInv /\ WriteFileInfo => IInv'
<1> SUFFICES ASSUME IInv, WriteFileInfo PROVE IInv'
  OBVIOUS
<1>1. /\ call.handle \in HandleId /\ pc = "write_file_info"
      /\ call.sector \in Sector
      /\ call.op \in {"open", "write"} /\ (call.op = "write" => Cur.writeable)
      /\ Open_(call.handle)
  BY DEF IInv, CallInv, WriteFileInfo, OnHandle
<1>2. PICK g \in HandleId : g = call.handle
  BY <1>1
<1>3. Cur \in Handle
  BY <1>1 DEF Cur, IInv, TypeOK
<1> DEFINE moved == [Cur EXCEPT !.curr_allocation_unit = call.sector,
                                !.last_data_offset = 0,
                                !.curr_data_offset = 0,
                                !.curr_session_offset = 0,
                                !.curr_session_value = 0,
                                !.page_cache = EmptyCache]
<1>4. PICK hd \in Handle :
        /\ hd = moved
        /\ hd.curr_allocation_unit \in Sector
        /\ hd.curr_data_offset = hd.last_data_offset
        /\ hd.writeable = Cur.writeable /\ hd.fs_priv = Cur.fs_priv
  <2>1. 0 \in Offset /\ 0 \in Nil(Slot)
    BY LayoutAssumption DEF Offset, Slot, Nil
  <2>2. /\ moved \in Handle
        /\ moved.curr_allocation_unit \in Sector
        /\ moved.curr_data_offset = moved.last_data_offset
        /\ moved.writeable = Cur.writeable /\ moved.fs_priv = Cur.fs_priv
    BY <1>1, <1>3, <2>1, StartValues DEF Handle, Nil
  <2> QED
    BY <2>2
<1>5. SetHandle(g, hd)
  BY <1>2, <1>4 DEF WriteFileInfo
<1>6. fs_priv_handle_list'[g] = hd
  BY <1>5 DEF SetHandle, IInv, TypeOK
<1>7. HandleInv(g)'
  BY <1>4, <1>6, EmptyCacheHandle DEF HandleInv, cached_bytes, page_boundary
<1>8. \/ call.op = "open" /\ Return("FS_NO_ERROR")
      \/ /\ call.op = "write" /\ pc' = "write" /\ ret' = ret /\ call' \in Call
         /\ call'.handle = g /\ call'.op = "write"
  BY <1>1, <1>2 DEF WriteFileInfo, Goto, IInv, TypeOK, Call, Nil
<1>9. fs_priv_handle_list' \in [HandleId -> Handle] /\ (\A h \in HandleId : HandleInv(h))'
  <2>1. \A h \in HandleId : h # g /\ Opening(h) => Opening(h)'
    BY <1>2 DEF Opening
  <2> QED
    BY <1>1, <1>2, <1>5, <1>7, <2>1, HandleReplaced DEF IInv, TypeOK
<1>10. header' \in [Sector -> Header]
  <2>1. ProgramFileInfo(header[call.sector], alloc_unit_list[call.sector]) \in Header
    BY <1>1, HeaderType DEF IInv, TypeOK
  <2> QED
    BY <2>1 DEF WriteFileInfo, IInv, TypeOK
<1>11. stream' \in [Nil(FileId) -> Nat] /\ origin' \in [Sector -> Nat]
  <2> DEFINE begin == IF call.op = "open" THEN 0 ELSE stream[Cur.file_id]
  <2>1. Cur.file_id \in Nil(FileId)
    BY <1>3 DEF Handle
  <2>2. begin \in Nat
    BY <2>1 DEF IInv, TypeOK
  <2>3. /\ stream' = [stream EXCEPT ![Cur.file_id] = begin]
        /\ origin' = [origin EXCEPT ![call.sector] = begin]
    BY DEF WriteFileInfo
  <2> HIDE DEF begin
  <2> QED
    BY <2>2, <2>3 DEF IInv, TypeOK
<1>12. call' \in Call /\ pc' \in Label /\ ret' \in Code
  BY <1>8, StartValues DEF Return, Goto, IInv, TypeOK, Label, Code
<1>13. TypeOK'
  BY <1>9, <1>10, <1>11, <1>12 DEF IInv, TypeOK, WriteFileInfo
<1>14. CallInv'
  <2>1. CASE call.op = "open" /\ Return("FS_NO_ERROR")
    BY <2>1 DEF Return, Goto, CallInv, OnHandle
  <2>2. CASE call.op = "write" /\ pc' = "write" /\ call'.handle = g /\ call'.op = "write"
    <3>1. hd.writeable /\ hd.fs_priv
      BY <1>1, <1>4, <2>2 DEF Cur, Open_
    <3> QED
      BY <1>6, <2>2, <3>1 DEF CallInv, OnHandle, Open_, Cur
  <2> QED
    BY <1>8, <2>1, <2>2
<1> QED
  BY <1>9, <1>13, <1>14 DEF IInv

-----------------------------------------------------------------------------
\* flush_page_cache empties the cache, update_session_offset leaves it as it is.
LEMMA FlushPageCacheInvariant == IInv /\ FlushPageCache => IInv'
<1> SUFFICES ASSUME IInv, FlushPageCache PROVE IInv'
  OBVIOUS
<1>1. /\ call.handle \in HandleId /\ pc = "flush_page_cache"
      /\ call.op \in {"close", "flush", "write"} /\ Cur.writeable
      /\ Open_(call.handle)
  BY DEF IInv, CallInv, FlushPageCache, OnHandle
<1>2. PICK g \in HandleId : g = call.handle
  BY <1>1
<1>3. Cur \in Handle /\ Cur = fs_priv_handle_list[g]
  BY <1>2 DEF Cur, IInv, TypeOK
<1>4. Cur.last_data_offset \in Nat /\ cached_bytes(Cur) \in 0 .. FS_PRIV_PAGE_SIZE
  <2>1. Cur.last_data_offset \in Nat
    <3>1. Cur.last_data_offset \in Offset
      BY <1>3 DEF Handle
    <3> QED
      BY <3>1, OffsetIsNatural
  <2>2. page_boundary(Cur) \in 1 .. FS_PRIV_PAGE_SIZE
    BY <2>1, PageBoundary DEF page_boundary
  <2>3. cached_bytes(Cur) \in 0 .. page_boundary(Cur)
    <3>1. HandleInv(g)
      BY DEF IInv
    <3> QED
      BY <1>1, <1>2, <1>3, <3>1 DEF HandleInv
  <2> QED
    BY <2>1, <2>2, <2>3, LayoutAssumption
<1>5. data' \in [Sector -> [Cell -> Byte]]
  BY <1>3, <1>4, ProgramDataType DEF FlushPageCache, IInv, TypeOK, Handle
<1>6. PICK hd \in Handle :
        /\ SetHandle(g, hd)
        /\ hd.curr_allocation_unit = Cur.curr_allocation_unit
        /\ hd.curr_data_offset = hd.last_data_offset
        /\ hd.writeable = Cur.writeable /\ hd.fs_priv = Cur.fs_priv
  <2> DEFINE flushed == [Cur EXCEPT !.last_data_offset = Cur.curr_data_offset,
                                    !.page_cache = EmptyCache]
  <2>1. /\ flushed \in Handle
        /\ flushed.curr_allocation_unit = Cur.curr_allocation_unit
        /\ flushed.curr_data_offset = flushed.last_data_offset
        /\ flushed.writeable = Cur.writeable /\ flushed.fs_priv = Cur.fs_priv
    BY <1>3, StartValues DEF Handle
  <2>2. SetHandle(g, flushed)
    BY <1>2 DEF FlushPageCache
  <2> QED
    BY <2>1, <2>2
<1>7. fs_priv_handle_list'[g] = hd /\ call' = call /\ pc' = "update_session_offset"
  BY <1>6 DEF SetHandle, IInv, TypeOK, FlushPageCache
<1>8. HandleInv(g)'
  <2>1. HandleInv(g) /\ ~ Opening(g)
    BY <1>1 DEF IInv, Opening
  <2>2. hd.curr_allocation_unit \in Sector
    BY <1>1, <1>2, <1>3, <1>6, <2>1 DEF HandleInv
  <2> QED
    BY <1>6, <1>7, <2>2, EmptyCacheHandle DEF HandleInv, cached_bytes, page_boundary
<1>9. fs_priv_handle_list' \in [HandleId -> Handle] /\ (\A h \in HandleId : HandleInv(h))'
  BY <1>1, <1>2, <1>6, <1>7, <1>8, HandleReplaced DEF IInv, TypeOK, Opening
<1>10. TypeOK'
  BY <1>5, <1>7, <1>9 DEF IInv, TypeOK, FlushPageCache, ghostVars, Label
<1>11. CallInv'
  BY <1>1, <1>2, <1>3, <1>6, <1>7 DEF CallInv, OnHandle, Open_, Cur
<1> QED
  BY <1>9, <1>10, <1>11 DEF IInv

\* The session offset is programmed in its slot; close gives the handle back.
LEMMA UpdateSessionOffsetInvariant == IInv /\ UpdateSessionOffset => IInv'
<1> SUFFICES ASSUME IInv, UpdateSessionOffset PROVE IInv'
  OBVIOUS
<1>1. /\ call.handle \in HandleId /\ pc = "update_session_offset"
      /\ call.op \in {"close", "flush", "write"} /\ Cur.writeable
      /\ Open_(call.handle)
  BY DEF IInv, CallInv, UpdateSessionOffset, OnHandle
<1>2. PICK g \in HandleId : g = call.handle
  BY <1>1
<1>3. Cur \in Handle /\ Cur = fs_priv_handle_list[g]
  BY <1>2 DEF Cur, IInv, TypeOK
<1>4. session' \in [Sector -> [Slot -> Nil(Offset)]]
  <2> DEFINE s == Cur.curr_allocation_unit
             i == Cur.curr_session_offset
             w == ProgramWord(session[s][i], Cur.last_data_offset)
  <2>1. s \in Sector /\ i \in Slot => w \in Nil(Offset)
    <3> SUFFICES ASSUME s \in Sector, i \in Slot PROVE w \in Nil(Offset)
      OBVIOUS
    <3>1. session[s][i] \in Nil(Offset) /\ Cur.last_data_offset \in Nil(Offset)
      BY <1>3 DEF IInv, TypeOK, Handle, Nil
    <3>2. FS_PRIV_USABLE_SIZE \in Nat
      BY LayoutAssumption
    <3> QED
      BY <3>1, <3>2, ProgramWordType DEF Offset
  <2>2. session' = session \/ session' = [session EXCEPT ![s][i] = w]
    BY DEF UpdateSessionOffset
  <2> HIDE DEF w, s, i
  <2>3. CASE s \in Sector /\ i \in Slot
    <3>1. w \in Nil(Offset) /\ session[s] \in [Slot -> Nil(Offset)]
      BY <2>1, <2>3 DEF IInv, TypeOK
    <3>2. [session[s] EXCEPT ![i] = w] \in [Slot -> Nil(Offset)]
      BY <3>1
    <3> QED
      BY <2>2, <3>2 DEF IInv, TypeOK
  <2>4. CASE s \in Sector /\ i \notin Slot
    BY <2>2, <2>4 DEF IInv, TypeOK
  <2>5. CASE s \notin Sector
    BY <2>2, <2>5 DEF IInv, TypeOK
  <2> QED
    BY <2>3, <2>4, <2>5
<1>5. PICK hd \in Handle :
        /\ SetHandle(g, hd)
        /\ call.op # "close" =>
             /\ hd.curr_allocation_unit = Cur.curr_allocation_unit
             /\ hd.curr_data_offset = Cur.curr_data_offset
             /\ hd.last_data_offset = Cur.last_data_offset
             /\ hd.writeable = Cur.writeable /\ hd.fs_priv = Cur.fs_priv
        /\ call.op = "close" => ~ hd.fs_priv
  <2> DEFINE updated == [Cur EXCEPT
                           !.curr_session_value = Cur.last_data_offset,
                           !.curr_session_offset = next_slot(Cur.curr_session_offset)]
  <2>1. CASE call.op = "close"
    BY <1>2, <2>1, StartValues DEF UpdateSessionOffset, FreeHandle
  <2>2. CASE call.op # "close" /\ ~ SessionMoved(Cur)
    BY <1>2, <1>3, <2>2 DEF UpdateSessionOffset, UpdatedHandle
  <2>3. CASE call.op # "close" /\ SessionMoved(Cur)
    <3>1. next_slot(Cur.curr_session_offset) \in Nil(Slot)
      BY <1>3, LayoutAssumption DEF Handle, next_slot, Nil, Slot, FS_PRIV_NOT_ALLOCATED
    <3>2. /\ updated \in Handle
          /\ updated.curr_allocation_unit = Cur.curr_allocation_unit
          /\ updated.curr_data_offset = Cur.curr_data_offset
          /\ updated.last_data_offset = Cur.last_data_offset
          /\ updated.writeable = Cur.writeable /\ updated.fs_priv = Cur.fs_priv
      BY <1>3, <3>1 DEF Handle
    <3>3. SetHandle(g, updated)
      BY <1>2, <2>3 DEF UpdateSessionOffset, UpdatedHandle
    <3> QED
      BY <2>3, <3>2, <3>3
  <2> QED
    BY <2>1, <2>2, <2>3
<1>6. fs_priv_handle_list'[g] = hd
  BY <1>5 DEF SetHandle, IInv, TypeOK
<1>7. \/ call.op # "write" /\ Return("FS_NO_ERROR")
      \/ call.op = "write" /\ pc' = "allocate" /\ call' = call /\ ret' = ret
  BY DEF UpdateSessionOffset, Goto
<1>8. HandleInv(g)'
  <2>1. CASE call.op = "close"
    BY <1>5, <1>6, <2>1 DEF HandleInv, Open_
  <2>2. CASE call.op # "close"
    <3>1. HandleInv(g) /\ ~ Opening(g) /\ Open_(g)
      BY <1>1, <1>2 DEF IInv, Opening
    <3>2. cached_bytes(hd) = cached_bytes(Cur) /\ page_boundary(hd) = page_boundary(Cur)
      BY <1>5, <2>2 DEF cached_bytes, page_boundary
    <3>3. /\ Cur.curr_allocation_unit \in Sector
          /\ cached_bytes(Cur) \in 0 .. page_boundary(Cur)
          /\ cached_bytes(Cur) # page_boundary(Cur)
      BY <1>1, <1>3, <3>1 DEF HandleInv
    <3> QED
      BY <1>1, <1>5, <1>6, <2>2, <3>2, <3>3 DEF HandleInv
  <2> QED
    BY <2>1, <2>2
<1>9. fs_priv_handle_list' \in [HandleId -> Handle] /\ (\A h \in HandleId : HandleInv(h))'
  BY <1>1, <1>5, <1>8, HandleReplaced DEF IInv, TypeOK, Opening
<1>10. call' \in Call /\ pc' \in Label /\ ret' \in Code
  BY <1>7, StartValues DEF Return, Goto, IInv, TypeOK, Label, Code
<1>11. TypeOK'
  BY <1>4, <1>9, <1>10 DEF IInv, TypeOK, UpdateSessionOffset, ghostVars
<1>12. CallInv'
  <2>1. CASE call.op # "write"
    BY <1>7, <2>1 DEF Return, Goto, CallInv, OnHandle
  <2>2. CASE call.op = "write"
    <3>1. Open_(g)' /\ Cur'.writeable
      BY <1>1, <1>2, <1>3, <1>5, <1>6, <1>7, <2>2 DEF Open_, Cur
    <3> QED
      BY <1>2, <1>7, <2>2, <3>1 DEF CallInv, OnHandle
  <2> QED
    BY <2>1, <2>2
<1> QED
  BY <1>9, <1>11, <1>12 DEF IInv

-----------------------------------------------------------------------------
\* write and read return, and a full sector is left, with everything as it is.
LEMMA TransferDoneInvariant == IInv /\ (WriteDone \/ ReadDone) => IInv'
<1> SUFFICES ASSUME IInv, WriteDone \/ ReadDone PROVE IInv'
  OBVIOUS
<1> QED
  BY NoneOpening, ReturnInvariant DEF WriteDone, ReadDone, Code

\* A full sector is flushed, or left at once when it has no session slot.
LEMMA WriteToFullSectorInvariant == IInv /\ WriteToFullSector => IInv'
<1> SUFFICES ASSUME IInv, WriteToFullSector PROVE IInv'
  OBVIOUS
<1>1. /\ call.handle \in HandleId /\ pc = "write" /\ Open_(call.handle)
      /\ call.op = "write" /\ Cur.writeable
  BY DEF IInv, CallInv, WriteToFullSector, OnHandle
<1>2. pc' \in {"flush_page_cache", "allocate"} /\ call' = call
  BY DEF WriteToFullSector, Goto
<1>3. TypeOK'
  BY <1>2 DEF IInv, TypeOK, WriteToFullSector, flashVars, ramVars, ghostVars, Label
<1>4. (\A h \in HandleId : HandleInv(h))'
  BY <1>1, <1>2, HandlesKept DEF IInv, WriteToFullSector, ramVars, Opening
<1>5. CallInv'
  BY <1>1, <1>2 DEF WriteToFullSector, CallInv, OnHandle, Open_, Cur, ramVars
<1> QED
  BY <1>3, <1>4, <1>5 DEF IInv

\* The cache holds bytes after a fill.
LEMMA FilledType ==
  ASSUME stream \in [Nil(FileId) -> Nat], NEW cache \in [PageIdx -> Byte],
         NEW cached \in Nat, NEW n \in Nat, NEW file \in Nil(FileId)
  PROVE  Filled(cache, cached, n, file) \in [PageIdx -> Byte]
<1>1. ASSUME NEW position \in Nat PROVE Payload(file, position) \in Byte
  <2>1. NUM_FILES \in Nat
    BY LayoutAssumption
  <2>2. position * NUM_FILES \in Nat
    BY <2>1
  <2>3. file \in Nat \cup {-1}
    BY LayoutAssumption DEF Nil, FileId, FS_PRIV_NOT_ALLOCATED
  <2> QED
    BY <2>2, <2>3 DEF Payload, Byte, ERASED, FS_PRIV_NOT_ALLOCATED
<1> DEFINE cell(i) == CASE i < cached                     -> cache[i]
                        [] i >= cached /\ i < cached + n  ->
                             Payload(file, stream[file] + (i - cached))
                        [] OTHER                          -> ERASED
<1>2. ASSUME NEW i \in PageIdx PROVE cell(i) \in Byte
  <2>1. i \in Nat
    BY LayoutAssumption DEF PageIdx
  <2>2. CASE i < cached
    <3>1. cell(i) = cache[i]
      BY <2>1, <2>2
    <3> HIDE DEF cell
    <3> QED
      BY <3>1
  <2>3. CASE i >= cached /\ i < cached + n
    <3>1. stream[file] + (i - cached) \in Nat
      BY <2>1, <2>3
    <3>2. cell(i) = Payload(file, stream[file] + (i - cached))
      BY <2>1, <2>3
    <3> HIDE DEF cell
    <3> QED
      BY <1>1, <3>1, <3>2
  <2>4. CASE ~ (i < cached) /\ ~ (i >= cached /\ i < cached + n)
    <3>1. cell(i) = ERASED
      BY <2>1, <2>4
    <3> QED
      BY <3>1 DEF Byte
  <2> HIDE DEF cell
  <2> QED
    BY <2>2, <2>3, <2>4
<1>3. Filled(cache, cached, n, file) = [i \in PageIdx |-> cell(i)]
  BY DEF Filled
<1> HIDE DEF cell
<1> QED
  BY <1>2, <1>3

\* Accepting bytes that fit the sector leaves a handle that differs in its cache and in
\* its current offset, and moves the position of the file's stream.
LEMMA AcceptType ==
  ASSUME TypeOK, NEW g \in HandleId, g = call.handle, NEW hd \in Handle,
         NEW cached \in Nat, NEW n \in Nat,
         hd.curr_data_offset + n <= FS_PRIV_USABLE_SIZE, Accept(hd, cached, n)
  PROVE  /\ stream' \in [Nil(FileId) -> Nat]
         /\ \E new \in Handle :
              /\ SetHandle(g, new)
              /\ new.curr_data_offset = hd.curr_data_offset + n
              /\ new.last_data_offset = hd.last_data_offset
              /\ new.curr_allocation_unit = hd.curr_allocation_unit
              /\ new.writeable = hd.writeable /\ new.fs_priv = hd.fs_priv
<1>1. hd.file_id \in Nil(FileId) /\ hd.page_cache \in [PageIdx -> Byte]
  BY DEF Handle
<1>2. stream' \in [Nil(FileId) -> Nat]
  <2>1. stream \in [Nil(FileId) -> Nat]
    BY DEF TypeOK
  <2> QED
    BY <1>1, <2>1 DEF Accept
<1>3. hd.curr_data_offset + n \in Offset
  <2>1. hd.curr_data_offset \in Nat
    BY OffsetIsNatural DEF Handle
  <2>2. hd.curr_data_offset + n \in Nat
    BY <2>1
  <2>3. FS_PRIV_USABLE_SIZE \in Nat
    BY LayoutAssumption
  <2> QED
    BY <2>2, <2>3 DEF Offset
<1> DEFINE cache == Filled(hd.page_cache, cached, n, hd.file_id)
           new   == [hd EXCEPT !.page_cache = cache, !.curr_data_offset = @ + n]
<1>4. cache \in [PageIdx -> Byte]
  BY <1>1, FilledType DEF TypeOK
<1>5. SetHandle(g, new)
  BY DEF Accept
<1> HIDE DEF cache
<1>6. /\ new \in Handle
      /\ new.curr_data_offset = hd.curr_data_offset + n
      /\ new.last_data_offset = hd.last_data_offset
      /\ new.curr_allocation_unit = hd.curr_allocation_unit
      /\ new.writeable = hd.writeable /\ new.fs_priv = hd.fs_priv
  BY <1>3, <1>4 DEF Handle
<1> QED
  BY <1>2, <1>5, <1>6

\* write_through_cache: a round of write takes at least a byte, at most a page, what is
\* asked for and what the sector holds, and stops at the page boundary.
LEMMA FillSizes ==
  ASSUME NEW hd \in Handle, NEW size \in Nat, size > 0, ~ is_full(hd),
         cached_bytes(hd) \in 0 .. page_boundary(hd),
         cached_bytes(hd) # page_boundary(hd),
         NEW wanted, wanted = write_size(hd, size),
         NEW sz, sz = SmallerOf(page_boundary(hd) - cached_bytes(hd), wanted)
  PROVE  /\ cached_bytes(hd) \in Nat
         /\ sz \in Nat /\ sz <= size
         /\ cached_bytes(hd) + sz <= page_boundary(hd)
         /\ hd.curr_data_offset + sz <= FS_PRIV_USABLE_SIZE
         /\ wanted - sz \in Nat
         /\ wanted - sz <= size - sz
         /\ wanted - sz < FS_PRIV_PAGE_SIZE
         /\ (hd.curr_data_offset + sz) + (wanted - sz) <= FS_PRIV_USABLE_SIZE
<1>1. FS_PRIV_PAGE_SIZE \in Nat /\ FS_PRIV_PAGE_SIZE > 0 /\ FS_PRIV_USABLE_SIZE \in Nat
  BY LayoutAssumption
<1>2. hd.last_data_offset \in Nat /\ hd.curr_data_offset \in Nat
  BY OffsetIsNatural DEF Handle
<1>3. page_boundary(hd) \in 1 .. FS_PRIV_PAGE_SIZE
  BY <1>2, PageBoundary DEF page_boundary
<1>4. remaining_bytes(hd) = FS_PRIV_USABLE_SIZE - hd.curr_data_offset
      /\ remaining_bytes(hd) \in Nat /\ remaining_bytes(hd) > 0
  BY <1>1, <1>2 DEF remaining_bytes, is_full
<1>5. /\ wanted \in Nat /\ wanted > 0 /\ wanted <= FS_PRIV_PAGE_SIZE /\ wanted <= size
      /\ wanted <= remaining_bytes(hd)
  BY <1>1, <1>4 DEF write_size, SmallerOf
<1>6. /\ sz \in Nat /\ sz > 0 /\ sz <= wanted
      /\ sz <= page_boundary(hd) - cached_bytes(hd)
  BY <1>1, <1>3, <1>5 DEF SmallerOf
<1>7. cached_bytes(hd) \in Nat
  BY <1>3
<1> QED
  BY <1>1, <1>2, <1>3, <1>4, <1>5, <1>6, <1>7

\* The cache is filled up to the page boundary or less.
LEMMA FillCacheInvariant == IInv /\ FillCache => IInv'
<1> SUFFICES ASSUME IInv, FillCache PROVE IInv'
  OBVIOUS
<1>1. /\ call.handle \in HandleId /\ pc = "write" /\ Open_(call.handle)
      /\ call.op = "write" /\ Cur.writeable
  BY DEF IInv, CallInv, FillCache, OnHandle
<1>2. PICK g \in HandleId : g = call.handle
  BY <1>1
<1>3. Cur \in Handle /\ Cur = fs_priv_handle_list[g] /\ TypeOK /\ call.size \in Nat
  BY <1>2 DEF Cur, IInv, TypeOK, Call
<1>4. /\ HandleInv(g) /\ ~ Opening(g)
      /\ cached_bytes(Cur) \in 0 .. page_boundary(Cur)
      /\ cached_bytes(Cur) # page_boundary(Cur)
      /\ Cur.curr_allocation_unit \in Sector
  <2>1. HandleInv(g) /\ ~ Opening(g)
    BY <1>1 DEF IInv, Opening
  <2> QED
    BY <1>1, <1>2, <1>3, <2>1 DEF HandleInv
<1>5. PICK wanted, sz :
        /\ wanted = write_size(Cur, call.size)
        /\ sz = SmallerOf(page_boundary(Cur) - cached_bytes(Cur), wanted)
  OBVIOUS
<1>6. /\ cached_bytes(Cur) \in Nat
      /\ sz \in Nat /\ sz <= call.size
      /\ cached_bytes(Cur) + sz <= page_boundary(Cur)
      /\ Cur.curr_data_offset + sz <= FS_PRIV_USABLE_SIZE
      /\ wanted - sz \in Nat
      /\ wanted - sz <= call.size - sz
      /\ wanted - sz < FS_PRIV_PAGE_SIZE
      /\ (Cur.curr_data_offset + sz) + (wanted - sz) <= FS_PRIV_USABLE_SIZE
  BY <1>3, <1>4, <1>5, FillSizes DEF FillCache
<1>7. /\ Accept(Cur, cached_bytes(Cur), sz)
      /\ pc' = IF cached_bytes(Cur) + sz = page_boundary(Cur) THEN "write_page" ELSE "write"
      /\ call' = [call EXCEPT !.size = @ - sz, !.done = @ + sz, !.rest = wanted - sz]
  BY <1>5 DEF FillCache, Goto
<1>8. /\ call' \in Call /\ call'.handle = g /\ call'.op = "write"
      /\ call'.size = call.size - sz /\ call'.rest = wanted - sz
  <2>1. /\ call.size - sz \in Nat /\ call.done + sz \in Nat
        /\ call \in Call
    BY <1>3, <1>6 DEF TypeOK, Call
  <2> QED
    BY <1>1, <1>2, <1>6, <1>7, <2>1 DEF Call
<1>9. /\ stream' \in [Nil(FileId) -> Nat]
      /\ \E hd \in Handle :
           /\ SetHandle(g, hd)
           /\ hd.curr_data_offset = Cur.curr_data_offset + sz
           /\ hd.last_data_offset = Cur.last_data_offset
           /\ hd.curr_allocation_unit = Cur.curr_allocation_unit
           /\ hd.writeable = Cur.writeable /\ hd.fs_priv = Cur.fs_priv
  BY <1>2, <1>3, <1>6, <1>7, AcceptType
<1>10. PICK hd \in Handle :
         /\ SetHandle(g, hd)
         /\ hd.curr_data_offset = Cur.curr_data_offset + sz
         /\ hd.last_data_offset = Cur.last_data_offset
         /\ hd.curr_allocation_unit = Cur.curr_allocation_unit
         /\ hd.writeable = Cur.writeable /\ hd.fs_priv = Cur.fs_priv
  BY <1>9
<1>11. fs_priv_handle_list'[g] = hd
  BY <1>3, <1>10 DEF SetHandle, TypeOK
<1>12. /\ page_boundary(hd) = page_boundary(Cur) /\ page_boundary(hd) \in Nat
       /\ cached_bytes(hd) = cached_bytes(Cur) + sz
  <2>1. Cur.last_data_offset \in Nat /\ Cur.curr_data_offset \in Nat
    BY <1>3, OffsetIsNatural DEF Handle
  <2>2. page_boundary(Cur) \in Nat
    BY <2>1, PageBoundary, LayoutAssumption DEF page_boundary
  <2>3. page_boundary(hd) = page_boundary(Cur)
    BY <1>10 DEF page_boundary
  <2>4. cached_bytes(hd) = cached_bytes(Cur) + sz
    BY <1>6, <1>10, <2>1 DEF cached_bytes
  <2> QED
    BY <2>2, <2>3, <2>4
<1>13. /\ cached_bytes(hd) \in 0 .. page_boundary(hd)
       /\ IF cached_bytes(hd) = page_boundary(hd) THEN pc' = "write_page" ELSE pc' = "write"
  BY <1>6, <1>7, <1>12
<1>14. HandleInv(g)'
  BY <1>1, <1>4, <1>8, <1>10, <1>11, <1>13 DEF HandleInv
<1>15. fs_priv_handle_list' \in [HandleId -> Handle] /\ (\A h \in HandleId : HandleInv(h))'
  BY <1>1, <1>2, <1>8, <1>10, <1>14, HandleReplaced DEF IInv, TypeOK, Opening
<1>16. TypeOK'
  BY <1>7, <1>8, <1>9, <1>15 DEF IInv, TypeOK, FillCache, flashVars, Label
<1>17. CallInv'
  <2>1. /\ Cur' = hd /\ Open_(g)' /\ hd.writeable
    BY <1>1, <1>2, <1>8, <1>10, <1>11, <1>3 DEF Cur, Open_
  <2>2. CASE pc' = "write"
    BY <1>8, <2>1, <2>2 DEF CallInv, OnHandle
  <2>3. CASE pc' = "write_page"
    <3>1. cached_bytes(Cur') = page_boundary(Cur')
      BY <1>13, <2>1, <2>3
    <3>2. /\ call'.rest <= call'.size
          /\ call'.rest < FS_PRIV_PAGE_SIZE
          /\ Cur'.curr_data_offset + call'.rest <= FS_PRIV_USABLE_SIZE
      BY <1>6, <1>8, <1>10, <2>1
    <3> QED
      BY <1>8, <2>1, <2>3, <3>1, <3>2 DEF CallInv, OnHandle, cached_bytes, page_boundary
  <2> QED
    BY <1>13, <2>2, <2>3
<1> QED
  BY <1>15, <1>16, <1>17 DEF IInv

\* The page is written, and what is left starts the cache of the next one.
LEMMA WritePageInvariant == IInv /\ WritePage => IInv'
<1> SUFFICES ASSUME IInv, WritePage PROVE IInv'
  OBVIOUS
<1>1. /\ call.handle \in HandleId /\ pc = "write_page" /\ Open_(call.handle)
      /\ call.op = "write" /\ Cur.writeable
      /\ cached_bytes(Cur) = page_boundary(Cur)
      /\ call.rest <= call.size
      /\ call.rest < FS_PRIV_PAGE_SIZE
      /\ Cur.curr_data_offset + call.rest <= FS_PRIV_USABLE_SIZE
  BY DEF IInv, CallInv, WritePage, OnHandle
<1>2. PICK g \in HandleId : g = call.handle
  BY <1>1
<1>3. Cur \in Handle /\ Cur = fs_priv_handle_list[g] /\ TypeOK
  BY <1>2 DEF Cur, IInv, TypeOK
<1>4. /\ call \in Call /\ call.size \in Nat /\ call.rest \in Nat /\ call.done \in Nat
      /\ FS_PRIV_PAGE_SIZE \in Nat
  BY <1>3, LayoutAssumption DEF TypeOK, Call
<1>5. Cur.curr_allocation_unit \in Sector /\ ~ Opening(g)
  <2>1. HandleInv(g) /\ ~ Opening(g)
    BY <1>1 DEF IInv, Opening
  <2> QED
    BY <1>1, <1>2, <1>3, <2>1 DEF HandleInv
<1> DEFINE left == page_boundary(Cur)
           last == Cur.last_data_offset
<1>6. last \in Nat /\ Cur.curr_data_offset \in Offset /\ Cur.curr_data_offset \in Nat
  BY <1>3, OffsetIsNatural DEF Handle
<1>7. /\ left \in 1 .. FS_PRIV_PAGE_SIZE
      /\ (last + left) % FS_PRIV_PAGE_SIZE = 0
  BY <1>6, PageBoundary DEF page_boundary
<1>8. last + left = Cur.curr_data_offset
  BY <1>1, <1>6, <1>7 DEF cached_bytes
<1>9. data' \in [Sector -> [Cell -> Byte]]
  <2>1. left \in 0 .. FS_PRIV_PAGE_SIZE /\ Cur.page_cache \in [PageIdx -> Byte]
    BY <1>3, <1>4, <1>7 DEF Handle
  <2>2. ProgramData(Cur.curr_allocation_unit, last, left, Cur.page_cache)
    BY DEF WritePage
  <2>3. data \in [Sector -> [Cell -> Byte]]
    BY <1>3 DEF TypeOK
  <2> HIDE DEF left, last
  <2> QED
    BY <1>6, <2>1, <2>2, <2>3, ProgramDataType
<1> DEFINE page == [Cur EXCEPT !.last_data_offset = @ + page_boundary(Cur)]
<1>10. PICK written \in Handle :
         /\ Accept(written, 0, call.rest)
         /\ written.last_data_offset = Cur.curr_data_offset
         /\ written.curr_data_offset = Cur.curr_data_offset
         /\ written.curr_allocation_unit = Cur.curr_allocation_unit
         /\ written.writeable = Cur.writeable /\ written.fs_priv = Cur.fs_priv
  <2>1. /\ page \in Handle
        /\ page.last_data_offset = Cur.curr_data_offset
        /\ page.curr_data_offset = Cur.curr_data_offset
        /\ page.curr_allocation_unit = Cur.curr_allocation_unit
        /\ page.writeable = Cur.writeable /\ page.fs_priv = Cur.fs_priv
    BY <1>3, <1>6, <1>8 DEF Handle
  <2>2. Accept(page, 0, call.rest)
    BY DEF WritePage
  <2> QED
    BY <2>1, <2>2
<1>11. /\ stream' \in [Nil(FileId) -> Nat]
       /\ \E hd \in Handle :
            /\ SetHandle(g, hd)
            /\ hd.curr_data_offset = written.curr_data_offset + call.rest
            /\ hd.last_data_offset = written.last_data_offset
            /\ hd.curr_allocation_unit = written.curr_allocation_unit
            /\ hd.writeable = written.writeable /\ hd.fs_priv = written.fs_priv
  <2>1. written.curr_data_offset + call.rest <= FS_PRIV_USABLE_SIZE
    BY <1>1, <1>10
  <2>2. 0 \in Nat
    OBVIOUS
  <2> QED
    BY <1>2, <1>3, <1>4, <1>10, <2>1, <2>2, AcceptType
<1>12. PICK hd \in Handle :
         /\ SetHandle(g, hd)
         /\ hd.curr_data_offset = Cur.curr_data_offset + call.rest
         /\ hd.last_data_offset = Cur.curr_data_offset
         /\ hd.curr_allocation_unit = Cur.curr_allocation_unit
         /\ hd.writeable = Cur.writeable /\ hd.fs_priv = Cur.fs_priv
  BY <1>10, <1>11
<1>13. fs_priv_handle_list'[g] = hd
  BY <1>3, <1>12 DEF SetHandle, TypeOK
<1>14. pc' = "write" /\ call' \in Call /\ call'.handle = g /\ call'.op = "write"
  <2>1. /\ pc' = "write"
        /\ call' = [call EXCEPT !.size = @ - call.rest, !.done = @ + call.rest, !.rest = 0]
    BY DEF WritePage, Goto
  <2>2. call.size - call.rest \in Nat /\ call.done + call.rest \in Nat
    BY <1>1, <1>4
  <2>3. call' \in Call
    BY <1>4, <2>1, <2>2 DEF Call
  <2>4. call'.handle = call.handle /\ call'.op = call.op
    BY <1>4, <2>1 DEF Call
  <2> QED
    BY <1>1, <1>2, <2>1, <2>3, <2>4
<1>15. cached_bytes(hd) \in 0 .. page_boundary(hd) /\ cached_bytes(hd) # page_boundary(hd)
  <2>1. hd.last_data_offset % FS_PRIV_PAGE_SIZE = 0
    BY <1>7, <1>8, <1>12
  <2>2. page_boundary(hd) = FS_PRIV_PAGE_SIZE
    BY <1>4, <2>1 DEF page_boundary
  <2>3. cached_bytes(hd) = call.rest
    BY <1>4, <1>6, <1>12 DEF cached_bytes
  <2> QED
    BY <1>1, <1>4, <2>2, <2>3
<1>16. HandleInv(g)'
  BY <1>1, <1>5, <1>12, <1>13, <1>15 DEF HandleInv
<1>17. fs_priv_handle_list' \in [HandleId -> Handle] /\ (\A h \in HandleId : HandleInv(h))'
  BY <1>1, <1>2, <1>12, <1>14, <1>16, HandleReplaced DEF IInv, TypeOK, Opening
<1>18. TypeOK'
  BY <1>9, <1>11, <1>14, <1>17 DEF IInv, TypeOK, WritePage, Label
<1>19. CallInv'
  <2>1. Open_(g)' /\ Cur'.writeable
    BY <1>1, <1>2, <1>3, <1>12, <1>13, <1>14 DEF Open_, Cur
  <2> QED
    BY <1>14, <2>1 DEF CallInv, OnHandle
<1> QED
  BY <1>17, <1>18, <1>19 DEF IInv

-----------------------------------------------------------------------------
\* A reader goes to the sector its own one links to.
LEMMA ReadNextSectorInvariant == IInv /\ ReadNextSector => IInv'
<1> SUFFICES ASSUME IInv, ReadNextSector PROVE IInv'
  OBVIOUS
<1>1. /\ call.handle \in HandleId /\ pc = "read" /\ Open_(call.handle)
      /\ call.op = "read" /\ ~ Cur.writeable
  BY DEF IInv, CallInv, ReadNextSector, OnHandle
<1>2. PICK g \in HandleId : g = call.handle
  BY <1>1
<1>3. Cur \in Handle /\ Cur = fs_priv_handle_list[g]
  BY <1>2 DEF Cur, IInv, TypeOK
<1>4. Cur.curr_allocation_unit \in Sector
  <2>1. HandleInv(g) /\ ~ Opening(g)
    BY <1>1 DEF IInv, Opening
  <2> QED
    BY <1>1, <1>2, <1>3, <2>1 DEF HandleInv
<1>5. PICK s \in Sector : s = alloc_unit_list[Cur.curr_allocation_unit].next_allocation_unit
  <2>1. ~ is_last_allocation_unit(alloc_unit_list, Cur.curr_allocation_unit)
    BY DEF ReadNextSector, AtSectorEnd, is_eof
  <2>2. alloc_unit_list[Cur.curr_allocation_unit].next_allocation_unit \in Nil(Sector)
    BY <1>4 DEF IInv, TypeOK, Header
  <2> QED
    BY <2>1, <2>2 DEF is_last_allocation_unit, Nil
<1>6. session_end(session[s]) \in Offset
  BY SessionScanType DEF IInv, TypeOK
<1>7. PICK hd \in Handle :
        /\ SetHandle(g, hd)
        /\ hd.curr_allocation_unit = s
        /\ hd.curr_data_offset <= hd.last_data_offset
        /\ hd.writeable = Cur.writeable /\ hd.fs_priv = Cur.fs_priv
  <2> DEFINE moved == [Cur EXCEPT !.curr_allocation_unit = s,
                                  !.last_data_offset = session_end(session[s]),
                                  !.curr_data_offset = 0]
  <2>1. 0 \in Offset /\ session_end(session[s]) \in Nat
    BY <1>6, OffsetIsNatural, LayoutAssumption DEF Offset
  <2>2. /\ moved \in Handle
        /\ moved.curr_allocation_unit = s
        /\ moved.curr_data_offset <= moved.last_data_offset
        /\ moved.writeable = Cur.writeable /\ moved.fs_priv = Cur.fs_priv
    <3>1. s \in Nil(Sector) /\ 0 <= session_end(session[s])
      BY <2>1 DEF Nil
    <3> QED
      BY <1>3, <1>6, <2>1, <3>1 DEF Handle
  <2>3. SetHandle(g, moved)
    BY <1>2, <1>5 DEF ReadNextSector
  <2> QED
    BY <2>2, <2>3
<1>8. fs_priv_handle_list'[g] = hd /\ call' = call /\ pc' = pc
  BY <1>7 DEF SetHandle, IInv, TypeOK, ReadNextSector
<1>9. HandleInv(g)'
  BY <1>1, <1>7, <1>8 DEF HandleInv
<1>10. fs_priv_handle_list' \in [HandleId -> Handle] /\ (\A h \in HandleId : HandleInv(h))'
  BY <1>1, <1>7, <1>8, <1>9, HandleReplaced DEF IInv, TypeOK, Opening
<1>11. TypeOK'
  BY <1>10 DEF IInv, TypeOK, ReadNextSector, flashVars, ghostVars
<1>12. CallInv'
  BY <1>1, <1>2, <1>3, <1>7, <1>8 DEF CallInv, OnHandle, Open_, Cur
<1> QED
  BY <1>10, <1>11, <1>12 DEF IInv

\* A reader delivers no more than is committed in its sector.
LEMMA ReadBytesInvariant == IInv /\ ReadBytes => IInv'
<1> SUFFICES ASSUME IInv, ReadBytes PROVE IInv'
  OBVIOUS
<1>1. /\ call.handle \in HandleId /\ pc = "read" /\ Open_(call.handle)
      /\ call.op = "read" /\ ~ Cur.writeable
  BY DEF IInv, CallInv, ReadBytes, OnHandle
<1>2. PICK g \in HandleId : g = call.handle
  BY <1>1
<1>3. /\ Cur \in Handle /\ Cur = fs_priv_handle_list[g]
      /\ call \in Call /\ call.size \in Nat /\ call.done \in Nat
  BY <1>2 DEF Cur, IInv, TypeOK, Call
<1>4. Cur.curr_allocation_unit \in Sector /\ Cur.curr_data_offset <= Cur.last_data_offset
  <2>1. HandleInv(g) /\ ~ Opening(g)
    BY <1>1 DEF IInv, Opening
  <2> QED
    BY <1>1, <1>2, <1>3, <2>1 DEF HandleInv
<1>5. PICK n : n = SmallerOf(call.size, Cur.last_data_offset - Cur.curr_data_offset)
  OBVIOUS
<1>6. /\ n \in Nat /\ call.size - n \in Nat /\ call.done + n \in Nat
      /\ Cur.curr_data_offset + n <= Cur.last_data_offset
      /\ Cur.curr_data_offset + n \in Offset
  <2>1. Cur.last_data_offset \in Offset /\ Cur.curr_data_offset \in Offset
    BY <1>3 DEF Handle
  <2>2. Cur.last_data_offset \in Nat /\ Cur.curr_data_offset \in Nat
    BY <2>1, OffsetIsNatural
  <2>3. /\ n \in Nat /\ n <= call.size
        /\ Cur.curr_data_offset + n <= Cur.last_data_offset
    BY <1>3, <1>4, <1>5, <2>2 DEF SmallerOf
  <2>4. Cur.curr_data_offset + n \in Offset
    BY <2>1, <2>2, <2>3, LayoutAssumption DEF Offset
  <2> QED
    BY <1>3, <2>3, <2>4
<1>7. PICK hd \in Handle :
        /\ SetHandle(g, hd)
        /\ hd.curr_allocation_unit = Cur.curr_allocation_unit
        /\ hd.curr_data_offset <= hd.last_data_offset
        /\ hd.writeable = Cur.writeable /\ hd.fs_priv = Cur.fs_priv
  <2> DEFINE moved == [Cur EXCEPT !.curr_data_offset = @ + n]
  <2>1. /\ moved \in Handle
        /\ moved.curr_allocation_unit = Cur.curr_allocation_unit
        /\ moved.curr_data_offset <= moved.last_data_offset
        /\ moved.writeable = Cur.writeable /\ moved.fs_priv = Cur.fs_priv
    BY <1>3, <1>6 DEF Handle
  <2>2. SetHandle(g, moved)
    BY <1>2, <1>5 DEF ReadBytes
  <2> QED
    BY <2>1, <2>2
<1>8. fs_priv_handle_list'[g] = hd
  BY <1>7 DEF SetHandle, IInv, TypeOK
<1>9. call' \in Call /\ call'.handle = g /\ call'.op = "read" /\ pc' = pc
  <2>1. call' = [call EXCEPT !.size = @ - n, !.done = @ + n] /\ pc' = pc
    BY <1>5 DEF ReadBytes
  <2> QED
    BY <1>1, <1>2, <1>3, <1>6, <2>1 DEF Call
<1>10. HandleInv(g)'
  BY <1>1, <1>4, <1>7, <1>8 DEF HandleInv
<1>11. fs_priv_handle_list' \in [HandleId -> Handle] /\ (\A h \in HandleId : HandleInv(h))'
  BY <1>1, <1>7, <1>9, <1>10, HandleReplaced DEF IInv, TypeOK, Opening
<1>12. TypeOK'
  BY <1>9, <1>11 DEF IInv, TypeOK, ReadBytes, flashVars, ghostVars
<1>13. CallInv'
  BY <1>1, <1>2, <1>3, <1>7, <1>8, <1>9 DEF CallInv, OnHandle, Open_, Cur
<1> QED
  BY <1>11, <1>12, <1>13 DEF IInv

-----------------------------------------------------------------------------
(***************************************************************************)
(* The theorems.                                                           *)
(***************************************************************************)

\* The calls of the clients keep the invariant.
LEMMA ClientInvariant == IInv /\ Client => IInv'
<1> SUFFICES ASSUME IInv, Client PROVE IInv'
  OBVIOUS
<1>1. CASE Mount \/ Unmount
  BY <1>1, MountInvariant
<1>2. CASE Format
  BY <1>2, FormatInvariant
<1>3. CASE \E f \in FileId : Remove(f) \/ Protect(f) \/ Unprotect(f)
  BY <1>3, FileCallsInvariant
<1>4. CASE \E f \in IF "reserved_id" \in Liberties THEN Nil(FileId) ELSE FileId, m \in Mode :
             Open(f, m)
  <2>1. PICK f \in Nil(FileId), m \in Mode : Open(f, m)
    BY <1>4 DEF Nil
  <2> QED
    BY <2>1, OpenInvariant
<1>5. CASE \E h \in HandleId : Close(h) \/ Flush(h) \/ InvalidHandle(h)
  BY <1>5, CloseInvariant, HandleCallsInvariant
<1>6. CASE \E h \in HandleId, n \in WriteSizes : Write(h, n)
  BY <1>6, HandleCallsInvariant
<1>7. CASE \E h \in HandleId, n \in ReadSizes : Read(h, n)
  BY <1>7, HandleCallsInvariant
<1> QED
  BY <1>1, <1>2, <1>3, <1>4, <1>5, <1>6, <1>7 DEF Client

\* The steps of the running call.
LEMMA StepInvariant == IInv /\ Step => IInv'
<1> SUFFICES ASSUME IInv, Step PROVE IInv'
  OBVIOUS
<1>1. CASE ClimbToRoot
  BY <1>1, ClimbInvariant
<1>2. CASE FileMissing \/ OpenRefused \/ RemoveRefused
  BY <1>2, RefusalInvariant
<1>3. CASE OpenForReading
  BY <1>3, OpenForReadingInvariant
<1>4. CASE OpenForWriting \/ OpenNewFile
  BY <1>4, OpenGoesOnInvariant
<1>5. CASE FollowChain
  BY <1>5, FollowChainInvariant
<1>6. CASE OpenAtEnd
  BY <1>6, OpenAtEndInvariant
<1>7. CASE EraseBlock
  BY <1>7, EraseBlockInvariant
<1>8. CASE RemoveNext \/ FormatNext
  BY <1>8, EraseLoopInvariant
<1>9. CASE AllocateFree \/ Recycled
  BY <1>9, AllocateInvariant
<1>10. CASE RecycleRoot
  BY <1>10, RecycleRootInvariant
<1>11. CASE AllocateFails
  BY <1>11, AllocateFailsInvariant
<1>12. CASE WriteNext
  BY <1>12, WriteNextInvariant
<1>13. CASE WriteFileInfo
  BY <1>13, WriteFileInfoInvariant
<1>14. CASE FlushPageCache
  BY <1>14, FlushPageCacheInvariant
<1>15. CASE UpdateSessionOffset
  BY <1>15, UpdateSessionOffsetInvariant
<1>16. CASE WriteDone \/ ReadDone
  BY <1>16, TransferDoneInvariant
<1>17. CASE WriteToFullSector
  BY <1>17, WriteToFullSectorInvariant
<1>18. CASE FillCache
  BY <1>18, FillCacheInvariant
<1>19. CASE WritePage
  BY <1>19, WritePageInvariant
<1>20. CASE ReadNextSector
  BY <1>20, ReadNextSectorInvariant
<1>21. CASE ReadBytes
  BY <1>21, ReadBytesInvariant
<1>22. CASE RemoveRoot
  BY <1>22, RemoveRootInvariant
<1>23. CASE \E op \in {"protect", "unprotect"} : SetProtection(op)
  BY <1>23, SetProtectionInvariant
<1> QED
  BY <1>1, <1>2, <1>3, <1>4, <1>5, <1>6, <1>7, <1>8, <1>9, <1>10, <1>11, <1>12, <1>13,
     <1>14, <1>15, <1>16, <1>17, <1>18, <1>19, <1>20, <1>21, <1>22, <1>23 DEF Step

\* The invariant holds in every state the program can be in, whatever its clients do.
THEOREM Invariant == Spec => []IInv
<1>1. IInv /\ [Next]_vars => IInv'
  <2> SUFFICES ASSUME IInv, [Next]_vars PROVE IInv'
    OBVIOUS
  <2>1. CASE Client
    BY <2>1, ClientInvariant
  <2>2. CASE Step
    BY <2>2, StepInvariant
  <2>3. CASE UNCHANGED vars
    BY <2>3
    DEF vars, flashVars, ramVars, ghostVars, IInv, TypeOK, HandleInv, CallInv, OnHandle,
        Opening, Open_, Cur, cached_bytes, page_boundary
  <2> QED
    BY <2>1, <2>2, <2>3 DEF Next
<1> QED
  BY InitInvariant, <1>1, PTL DEF Spec

\* Every variable keeps its type, with any clients: no handle is used that is not one,
\* no sector, slot or offset leaves its table, no word of flash leaves its range.
THEOREM TypeCorrect == Spec => []TypeOK
BY Invariant, PTL DEF IInv

\* The cache of a writer never reaches past the page boundary or the sector's end, for
\* every size of page and sector and every sequence of writes and flushes: the assertion
\* of write_through_cache (FileSystem.cpp:506) never fires.
THEOREM CacheStaysWithinPage == Spec => []CacheWithinPage
<1>1. IInv => CacheWithinPage
  <2> SUFFICES ASSUME IInv, NEW h \in HandleId, Open_(h),
                      fs_priv_handle_list[h].writeable
               PROVE  LET hd == fs_priv_handle_list[h]
                      IN  /\ cached_bytes(hd) \in 0 .. page_boundary(hd)
                          /\ cached_bytes(hd) = page_boundary(hd) => pc = "write_page"
                          /\ hd.curr_data_offset <= FS_PRIV_USABLE_SIZE
    BY DEF CacheWithinPage
  <2>1. HandleInv(h)
    BY DEF IInv
  <2>2. fs_priv_handle_list[h].curr_data_offset <= FS_PRIV_USABLE_SIZE
    <3>1. fs_priv_handle_list[h].curr_data_offset \in Offset
      BY DEF IInv, TypeOK, Handle
    <3> QED
      BY <3>1, LayoutAssumption DEF Offset
  <2> QED
    BY <2>1, <2>2 DEF HandleInv
<1> QED
  BY <1>1, Invariant, PTL
=============================================================================
