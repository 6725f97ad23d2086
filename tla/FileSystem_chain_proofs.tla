----------------------- MODULE FileSystem_chain_proofs -----------------------
(***************************************************************************)
(* The chains of sectors, proved for every size of device and any number   *)
(* of handles of orderly clients: the sectors of a file are one chain from *)
(* one root to one end, of one kind (circular or not), and only the root   *)
(* of a file that nobody writes is ever protected.                         *)
(***************************************************************************)
EXTENDS FileSystem_session_proofs, FiniteSetTheorems

(***************************************************************************)
(* The inductive invariant.                                                *)
(***************************************************************************)
SameFile(s, t) == FileOf(s) # None /\ FileOf(t) = FileOf(s)
Guarded(s)     == is_protected(Table[s].file_protect)

\* A file has one first and one last sector,
ShapeInv ==
  call.op # "format" =>
    \A s, t \in Sector : SameFile(s, t) =>
      /\ Headless(s) /\ Headless(t) => s = t
      /\ Link(s) = None /\ Link(t) = None => s = t

\* no link closes a cycle,
RankInv ==
  \E n \in Nat : \E rank \in [Sector -> 0 .. n] :
    \A s \in Sector : Link(s) # None => rank[s] < rank[Link(s)]

\* and a root erased without a link was all of its file.
GoneInv ==
  pc = "write_counter" /\ call.next = None =>
    /\ call.op = "remove" => Unused(call.file)
    /\ call.op = "write" => Unused(Cur.file_id)

\* The sectors of a file, and its handles, agree on whether it is circular.
CircularInv ==
  /\ call.op # "format" =>
       \A s, t \in Sector : SameFile(s, t) => Table[s].circular = Table[t].circular
  /\ \A h \in HandleId : Open_(h) =>
       \A s \in Sector : FileOf(s) = Hd(h).file_id => Table[s].circular = Hd(h).circular

\* Protected are at most roots, and not those of files open for writing or being removed.
GuardInv ==
  /\ call.op # "format" =>
       \A s \in Sector : FileOf(s) # None /\ ~ Headless(s) => ~ Guarded(s)
  /\ \A h \in HandleId : Open_(h) /\ Hd(h).writeable =>
       \A s \in Sector : FileOf(s) = Hd(h).file_id => ~ Guarded(s)
  /\ call.op = "remove" /\ Erasing =>
       \A s \in Sector : FileOf(s) = call.file => ~ Guarded(s)

ChainInv == ShapeInv /\ RankInv /\ GoneInv /\ CircularInv /\ GuardInv

-----------------------------------------------------------------------------
(***************************************************************************)
(* Steps that leave the chains alone.                                      *)
(***************************************************************************)

\* A handle stays open on the same file in the same mode.
SameAttrs(h) ==
  /\ Hd(h)'.file_id = Hd(h).file_id
  /\ Hd(h)'.writeable = Hd(h).writeable
  /\ Hd(h)'.circular = Hd(h).circular

\* The shape is that of files and links alone.
LEMMA ShapeKept ==
  ASSUME ShapeInv, RankInv,
         \A s \in Sector : FileOf(s)' = FileOf(s) /\ Link(s)' = Link(s),
         call.op = "format" => call'.op = "format"
  PROVE  ShapeInv' /\ RankInv' /\ \A s \in Sector : Headless(s)' = Headless(s)
<1>1. \A s \in Sector : Headless(s)' = Headless(s)
  BY DEF Headless
<1>2. ShapeInv'
  BY <1>1 DEF ShapeInv, SameFile
<1>3. RankInv'
  BY DEF RankInv
<1> QED
  BY <1>1, <1>2, <1>3

\* No sector changes, no handle gets another file or mode, and no removal begins.
LEMMA ChainKept ==
  ASSUME ChainInv,
         \A s \in Sector : /\ FileOf(s)' = FileOf(s) /\ Link(s)' = Link(s)
                           /\ Table'[s] = Table[s],
         pc' # "write_counter",
         call.op = "format" => call'.op = "format",
         call'.op = "remove" /\ Erasing' =>
           call.op = "remove" /\ Erasing /\ call'.file = call.file,
         \A h \in HandleId : Open_(h)' => Open_(h) /\ SameAttrs(h)
  PROVE  ChainInv'
<1>1. ShapeInv' /\ RankInv' /\ \A s \in Sector : Headless(s)' = Headless(s)
  BY ShapeKept DEF ChainInv
<1>2. GoneInv'
  BY DEF GoneInv
<1>3. \A s \in Sector : Guarded(s)' = Guarded(s)
  BY DEF Guarded
<1>4. CircularInv'
  <2>1. CircularInv
    BY DEF ChainInv
  <2>2. call'.op # "format" =>
          \A s, t \in Sector : SameFile(s, t)' => Table'[s].circular = Table'[t].circular
    BY <2>1 DEF CircularInv, SameFile
  <2>3. \A h \in HandleId : Open_(h)' =>
          \A s \in Sector : FileOf(s)' = Hd(h)'.file_id => Table'[s].circular = Hd(h)'.circular
    BY <2>1 DEF CircularInv, SameAttrs
  <2> QED
    BY <2>2, <2>3 DEF CircularInv
<1>5. GuardInv'
  <2>1. GuardInv
    BY DEF ChainInv
  <2>2. call'.op # "format" =>
          \A s \in Sector : FileOf(s)' # None /\ ~ Headless(s)' => ~ Guarded(s)'
    BY <1>1, <1>3, <2>1 DEF GuardInv
  <2>3. \A h \in HandleId : Open_(h)' /\ Hd(h)'.writeable =>
          \A s \in Sector : FileOf(s)' = Hd(h)'.file_id => ~ Guarded(s)'
    BY <1>3, <2>1 DEF GuardInv, SameAttrs
  <2>4. call'.op = "remove" /\ Erasing' =>
          \A s \in Sector : FileOf(s)' = call'.file => ~ Guarded(s)'
    BY <1>3, <2>1 DEF GuardInv
  <2> QED
    BY <2>2, <2>3, <2>4 DEF GuardInv
<1> QED
  BY <1>1, <1>2, <1>4, <1>5 DEF ChainInv

\* The same, while the device stays mounted.
LEMMA TableKept ==
  ASSUME TableInv, ChainInv, UNCHANGED alloc_unit_list,
         pc # "unmounted", pc' \notin {"unmounted", "write_counter"},
         call.op = "format" => call'.op = "format",
         call'.op = "remove" /\ Erasing' =>
           call.op = "remove" /\ Erasing /\ call'.file = call.file,
         \A h \in HandleId : Open_(h)' => Open_(h) /\ SameAttrs(h)
  PROVE  ChainInv'
BY SameTable, ChainKept

\* One handle moves, or is given back.
LEMMA AttrsKept ==
  ASSUME IInv, NEW g \in HandleId, NEW hd, SetHandle(g, hd),
         \/ ~ hd.fs_priv
         \/ /\ Open_(g)
            /\ hd.file_id = Hd(g).file_id
            /\ hd.writeable = Hd(g).writeable
            /\ hd.circular = Hd(g).circular
  PROVE  \A h \in HandleId : Open_(h)' => Open_(h) /\ SameAttrs(h)
<1>1. /\ fs_priv_handle_list'[g] = hd
      /\ \A h \in HandleId : h # g => fs_priv_handle_list'[h] = fs_priv_handle_list[h]
  BY DEF SetHandle, IInv, TypeOK
<1> QED
  BY <1>1 DEF SameAttrs, Hd, Open_

\* Calls begin and return.
LEMMA CallsChain ==
  ASSUME IInv, TableInv, ChainInv,
         \/ Format \/ ClimbToRoot \/ FollowChain
         \/ \E f, m : \E op \in Op : BeginOnFile(op, f, m)
         \/ FileMissing \/ OpenRefused \/ RemoveRefused
         \/ WriteDone \/ ReadDone \/ WriteToFullSector \/ RecycleRoot \/ WriteNext
  PROVE  ChainInv'
<1>1. /\ UNCHANGED alloc_unit_list /\ UNCHANGED fs_priv_handle_list
      /\ ~ Erasing /\ pc # "unmounted"
  BY DEF Format, ClimbToRoot, FollowChain, BeginOnFile, FileMissing, OpenRefused,
    RemoveRefused, WriteDone, ReadDone, WriteToFullSector, RecycleRoot, WriteNext, AtRoot,
    ramVars, Erasing
<1>2. \/ pc' \in {"idle", "find_file_root", "find_last_allocation_unit", "flush_page_cache",
                  "allocate", "write_file_info"}
      \/ pc' = "erase_block" /\ call'.op \in {"format", "open", "write"}
  <2>1. CASE Format
    BY <2>1 DEF Format, Goto, NoCall
  <2>2. CASE RecycleRoot
    <3>1. call \in Call /\ call.op \in {"open", "write"}
      BY <2>2 DEF RecycleRoot, IInv, TypeOK, CallInv
    <3> QED
      BY <2>2, <3>1 DEF RecycleRoot, Goto, Call
  <2>3. CASE ~ Format /\ ~ RecycleRoot
    BY <2>3 DEF ClimbToRoot, FollowChain, BeginOnFile, FileMissing, OpenRefused,
      RemoveRefused, WriteDone, ReadDone, WriteToFullSector, WriteNext, Return, Goto
  <2> QED
    BY <2>1, <2>2, <2>3
<1>3. call.op # "format"
  BY <1>1, NotFormatting
<1>4. \A h \in HandleId : Open_(h)' => Open_(h) /\ SameAttrs(h)
  BY <1>1 DEF Open_, Hd, SameAttrs
<1> QED
  BY <1>1, <1>2, <1>3, <1>4, TableKept DEF Erasing

\* The calls on handles.
LEMMA HandleCallsChain ==
  ASSUME IInv, TableInv, ChainInv, NEW h \in HandleId,
         \/ Flush(h) \/ InvalidHandle(h) \/ Close(h)
         \/ \E n \in WriteSizes : Write(h, n)
         \/ \E n \in ReadSizes : Read(h, n)
  PROVE  ChainInv'
<1>1. /\ UNCHANGED alloc_unit_list /\ pc = "idle"
      /\ UNCHANGED fs_priv_handle_list \/ SetHandle(h, FreeHandle)
  BY DEF Flush, InvalidHandle, Close, Write, Read, ramVars
<1>2. pc' \in {"idle", "flush_page_cache", "write", "read"}
  BY DEF Flush, InvalidHandle, Close, Write, Read, BeginOnHandle, Return, Goto
<1>3. call.op # "format"
  BY <1>1, NotFormatting DEF Erasing
<1>4. \A g \in HandleId : Open_(g)' => Open_(g) /\ SameAttrs(g)
  <2>1. CASE UNCHANGED fs_priv_handle_list
    BY <2>1 DEF Open_, Hd, SameAttrs
  <2>2. CASE SetHandle(h, FreeHandle)
    BY <2>2, AttrsKept DEF FreeHandle
  <2> QED
    BY <1>1, <2>1, <2>2
<1> QED
  BY <1>1, <1>2, <1>3, <1>4, TableKept DEF Erasing

\* The steps that move the handle of the running call within or to a sector of its file.
LEMMA CursorChain ==
  ASSUME IInv, TableInv, ChainInv,
         \/ OpenAtEnd \/ AllocateFails \/ WriteFileInfo \/ FlushPageCache
         \/ UpdateSessionOffset \/ FillCache \/ WritePage \/ ReadNextSector \/ ReadBytes
  PROVE  ChainInv'
<1>1. /\ OnHandle /\ UNCHANGED alloc_unit_list /\ pc # "unmounted" /\ ~ Erasing
      /\ pc' \in {"idle", "write", "update_session_offset", "allocate", "write_page", "read"}
  BY DEF OpenAtEnd, AllocateFails, WriteFileInfo, FlushPageCache, UpdateSessionOffset,
    FillCache, WritePage, ReadNextSector, ReadBytes, OnHandle, Return, Goto, Erasing
<1>2. PICK g \in HandleId : g = call.handle /\ Open_(g) /\ Cur = Hd(g) /\ Cur \in Handle
  BY <1>1, CurHandle
<1>3. \/ UNCHANGED fs_priv_handle_list
      \/ \E hd : /\ SetHandle(g, hd)
                 /\ \/ ~ hd.fs_priv
                    \/ /\ hd.file_id = Cur.file_id
                       /\ hd.writeable = Cur.writeable
                       /\ hd.circular = Cur.circular
  <2> DEFINE Same(hd) == /\ hd.file_id = Cur.file_id
                         /\ hd.writeable = Cur.writeable
                         /\ hd.circular = Cur.circular
  <2>1. CASE OpenAtEnd \/ WriteFileInfo
    <3>1. \E a, b, c, d, e, p :
            SetHandle(g, [Cur EXCEPT !.curr_allocation_unit = a, !.last_data_offset = b,
                                     !.curr_data_offset = c, !.curr_session_offset = d,
                                     !.curr_session_value = e, !.page_cache = p])
      <4>1. CASE WriteFileInfo
        BY <1>2, <4>1 DEF WriteFileInfo
      <4>2. CASE OpenAtEnd
        <5> DEFINE end == session_end(session[call.sector])
                   new == [Cur EXCEPT !.curr_allocation_unit = call.sector,
                             !.curr_session_offset = next_session(session[call.sector]),
                             !.curr_session_value = end,
                             !.last_data_offset = end,
                             !.curr_data_offset = end]
        <5>1. new = [Cur EXCEPT !.curr_allocation_unit = call.sector,
                       !.last_data_offset = end, !.curr_data_offset = end,
                       !.curr_session_offset = next_session(session[call.sector]),
                       !.curr_session_value = end, !.page_cache = Cur.page_cache]
          BY <1>2 DEF Handle
        <5>2. SetHandle(g, new)
          BY <1>2, <4>2 DEF OpenAtEnd
        <5> HIDE DEF new, end
        <5>3. SetHandle(g, [Cur EXCEPT !.curr_allocation_unit = call.sector,
                       !.last_data_offset = end, !.curr_data_offset = end,
                       !.curr_session_offset = next_session(session[call.sector]),
                       !.curr_session_value = end, !.page_cache = Cur.page_cache])
          BY <5>1, <5>2
        <5> QED
          BY <5>3
      <4> QED
        BY <2>1, <4>1, <4>2
    <3>2. PICK a, b, c, d, e, p :
            SetHandle(g, [Cur EXCEPT !.curr_allocation_unit = a, !.last_data_offset = b,
                                     !.curr_data_offset = c, !.curr_session_offset = d,
                                     !.curr_session_value = e, !.page_cache = p])
      BY <3>1
    <3> DEFINE hd == [Cur EXCEPT !.curr_allocation_unit = a, !.last_data_offset = b,
                                 !.curr_data_offset = c, !.curr_session_offset = d,
                                 !.curr_session_value = e, !.page_cache = p]
    <3>3. SetHandle(g, hd) /\ Same(hd)
      BY <1>2, <3>2 DEF Handle
    <3> QED
      BY <3>3
  <2>2. CASE AllocateFails
    BY <1>2, <2>2 DEF AllocateFails, FreeHandle
  <2>3. CASE FlushPageCache
    <3> DEFINE hd == [Cur EXCEPT !.last_data_offset = Cur.curr_data_offset,
                                 !.page_cache = EmptyCache]
    <3>1. SetHandle(g, hd) /\ Same(hd)
      BY <1>2, <2>3 DEF FlushPageCache, Handle
    <3> QED
      BY <3>1
  <2>4. CASE UpdateSessionOffset
    <3> DEFINE hd == IF call.op = "close" THEN FreeHandle ELSE UpdatedHandle(Cur)
    <3>1. SetHandle(g, hd)
      BY <1>2, <2>4 DEF UpdateSessionOffset
    <3>2. ~ hd.fs_priv \/ Same(hd)
      BY <1>2 DEF UpdatedHandle, FreeHandle, Handle
    <3> QED
      BY <3>1, <3>2
  <2>5. CASE FillCache \/ WritePage
    <3>1. \E last, cache, n :
            SetHandle(g, [[Cur EXCEPT !.last_data_offset = last]
                            EXCEPT !.page_cache = cache, !.curr_data_offset = @ + n])
      <4>1. CASE FillCache
        <5>1. Cur = [Cur EXCEPT !.last_data_offset = Cur.last_data_offset]
          BY <1>2 DEF Handle
        <5>2. PICK cache, n : SetHandle(g, [Cur EXCEPT !.page_cache = cache,
                                                       !.curr_data_offset = @ + n])
          BY <1>2, <4>1 DEF FillCache, Accept
        <5> QED
          BY <5>1, <5>2
      <4>2. CASE WritePage
        BY <1>2, <4>2 DEF WritePage, Accept
      <4> QED
        BY <2>5, <4>1, <4>2
    <3>2. PICK last, cache, n :
            SetHandle(g, [[Cur EXCEPT !.last_data_offset = last]
                            EXCEPT !.page_cache = cache, !.curr_data_offset = @ + n])
      BY <3>1
    <3> DEFINE hd == [[Cur EXCEPT !.last_data_offset = last]
                        EXCEPT !.page_cache = cache, !.curr_data_offset = @ + n]
    <3>3. SetHandle(g, hd) /\ Same(hd)
      BY <1>2, <3>2 DEF Handle
    <3> QED
      BY <3>3
  <2>6. CASE ReadNextSector
    <3>1. PICK s, e : SetHandle(g, [Cur EXCEPT !.curr_allocation_unit = s,
                                               !.last_data_offset = e,
                                               !.curr_data_offset = 0])
      BY <1>2, <2>6 DEF ReadNextSector
    <3> DEFINE hd == [Cur EXCEPT !.curr_allocation_unit = s, !.last_data_offset = e,
                                 !.curr_data_offset = 0]
    <3>2. SetHandle(g, hd) /\ Same(hd)
      BY <1>2, <3>1 DEF Handle
    <3> QED
      BY <3>2
  <2>7. CASE ReadBytes
    <3>1. PICK n : SetHandle(g, [Cur EXCEPT !.curr_data_offset = @ + n])
      BY <1>2, <2>7 DEF ReadBytes
    <3> DEFINE hd == [Cur EXCEPT !.curr_data_offset = @ + n]
    <3>2. SetHandle(g, hd) /\ Same(hd)
      BY <1>2, <3>1 DEF Handle
    <3> QED
      BY <3>2
  <2> QED
    BY <2>1, <2>2, <2>3, <2>4, <2>5, <2>6, <2>7
<1>4. \A h \in HandleId : Open_(h)' => Open_(h) /\ SameAttrs(h)
  <2>1. CASE UNCHANGED fs_priv_handle_list
    BY <2>1 DEF Open_, Hd, SameAttrs
  <2>2. CASE ~ UNCHANGED fs_priv_handle_list
    BY <1>2, <1>3, <2>2, AttrsKept
  <2> QED
    BY <2>1, <2>2
<1>5. call.op # "format"
  BY <1>1, NotFormatting
<1> QED
  BY <1>1, <1>4, <1>5, TableKept DEF Erasing


-----------------------------------------------------------------------------
(***************************************************************************)
(* Handles opened, roots protected and removed, mounting.                  *)
(***************************************************************************)

\* When the root of a file is not protected none of its sectors is.
LEMMA RootGuardsFile ==
  ASSUME ChainInv, call.op # "format", NEW f, NEW r, RootOf(r, f), f # None, ~ Guarded(r)
  PROVE  \A s \in Sector : FileOf(s) = f => ~ Guarded(s)
BY DEF ChainInv, ShapeInv, GuardInv, RootOf, SameFile

\* open takes over what the root says of the file.
LEMMA OpenedAttrs ==
  ASSUME IInv, TableInv, ChainInv, OpenAccepted, NEW s \in Sector, FileOf(s) = call.file
  PROVE  /\ Table[s].circular = OpenedHandle.circular
         /\ call.mode.writeable => ~ Guarded(s)
<1>1. /\ AtRoot("open") /\ pc = "find_file_root" /\ call.op = "open" /\ call.mode \in Mode
      /\ Table = alloc_unit_list /\ call.file \in FileId
  BY RootReached DEF OpenAccepted, AtRoot, IInv, TypeOK, Call, Table
<1>2. PICK r \in Sector : r = call.sector /\ RootOf(r, call.file) /\ r # None
  <2>1. call.sector # None
    BY <1>1, RootReached DEF Unused
  <2> QED
    BY <1>1, <2>1, RootReached DEF RootOf
<1>3. ~ call.mode.create
  BY <1>2 DEF OpenAccepted, check_file_flags, None
<1>4. call.mode.circular = FALSE
  BY <1>1, <1>3 DEF Mode, Flags, FS_MODE_CREATE, FS_MODE_CREATE_CIRCULAR,
    FS_MODE_WRITEONLY, FS_MODE_READONLY
<1>5. OpenedHandle.circular = (call.mode.circular \/ alloc_unit_list[r].circular)
  BY <1>2 DEF OpenedHandle, FreeHandle, None
<1>6. alloc_unit_list[r].circular \in BOOLEAN
  BY DEF IInv, TypeOK, Header
<1>7. OpenedHandle.circular = Table[r].circular
  BY <1>1, <1>4, <1>5, <1>6
<1>8. SameFile(r, s) /\ call.file # None
  BY <1>1, <1>2, TableType DEF SameFile, RootOf
<1>9. Table[s].circular = Table[r].circular
  BY <1>1, <1>8 DEF ChainInv, CircularInv
<1>10. call.mode.writeable => ~ Guarded(r)
  <2>1. call.mode.writeable => ~ Protected(r)
    BY <1>2, <1>3 DEF OpenAccepted, check_file_flags, None
  <2> QED
    BY <1>1, <2>1 DEF Protected, Guarded
<1>11. call.mode.writeable => ~ Guarded(s)
  BY <1>1, <1>2, <1>8, <1>10, RootGuardsFile
<1> QED
  BY <1>7, <1>9, <1>11

\* A new handle agrees with its file.
LEMMA OpensChain ==
  ASSUME IInv, TableInv, ChainInv, OpenForReading \/ OpenForWriting \/ OpenNewFile
  PROVE  ChainInv'
<1>1. OpenAccepted /\ UNCHANGED alloc_unit_list
      /\ pc' \in {"idle", "find_last_allocation_unit", "allocate"}
  BY DEF OpenForReading, OpenForWriting, OpenNewFile, Return, Goto
<1>2. PICK g \in HandleId : g = Min(FreeHandles) /\ ~ Open_(g)
  BY <1>1, OpenTakesFree
<1>3. /\ pc = "find_file_root" /\ call.op = "open" /\ OpenedHandle \in Handle
      /\ OpenedHandle.file_id = call.file
      /\ OpenedHandle.writeable = call.mode.writeable
  BY <1>1, OpenTakesFree
<1>4. PICK hd : /\ SetHandle(g, hd) /\ hd.file_id = call.file
                /\ hd.writeable = call.mode.writeable
                /\ hd.circular = OpenedHandle.circular
  <2>1. CASE OpenForReading
    <3> DEFINE hd == [OpenedHandle EXCEPT
                        !.curr_allocation_unit = call.sector,
                        !.last_data_offset = session_end(session[call.sector])]
    <3>1. /\ hd.file_id = call.file
          /\ hd.writeable = call.mode.writeable
          /\ hd.circular = OpenedHandle.circular
      BY <1>3 DEF Handle
    <3>2. SetHandle(g, hd)
      BY <1>2, <2>1 DEF OpenForReading
    <3> QED
      BY <3>1, <3>2
  <2>2. CASE OpenForWriting \/ OpenNewFile
    <3>1. SetHandle(g, OpenedHandle)
      BY <1>2, <2>2 DEF OpenForWriting, OpenNewFile
    <3> QED
      BY <1>3, <3>1
  <2> QED
    BY <2>1, <2>2 DEF OpenForReading, OpenForWriting, OpenNewFile
<1>5. /\ Hd(g)' = hd
      /\ \A h \in HandleId : h # g => Hd(h)' = Hd(h) /\ Open_(h)' = Open_(h)
  BY <1>4 DEF SetHandle, IInv, TypeOK, Hd, Open_
<1>6. \A s \in Sector : FileOf(s)' = FileOf(s) /\ Link(s)' = Link(s) /\ Table'[s] = Table[s]
  BY <1>1, <1>3, SameTable
<1>7. ShapeInv' /\ RankInv' /\ \A s \in Sector : Headless(s)' = Headless(s)
  BY <1>3, <1>6, ShapeKept DEF ChainInv
<1>8. GoneInv'
  BY <1>1 DEF GoneInv
<1>9. CircularInv'
  <2>1. \A s, t \in Sector : SameFile(s, t)' => Table'[s].circular = Table'[t].circular
    BY <1>3, <1>6 DEF ChainInv, CircularInv, SameFile
  <2>2. ASSUME NEW h \in HandleId, Open_(h)', NEW s \in Sector, FileOf(s)' = Hd(h)'.file_id
        PROVE  Table'[s].circular = Hd(h)'.circular
    <3>1. CASE h = g
      BY <1>1, <1>4, <1>5, <1>6, <2>2, <3>1, OpenedAttrs
    <3>2. CASE h # g
      BY <1>5, <1>6, <2>2, <3>2 DEF ChainInv, CircularInv
    <3> QED
      BY <3>1, <3>2
  <2> QED
    BY <2>1, <2>2 DEF CircularInv
<1>10. GuardInv'
  <2>1. \A s \in Sector : Guarded(s)' = Guarded(s)
    BY <1>6 DEF Guarded
  <2>2. \A s \in Sector : FileOf(s)' # None /\ ~ Headless(s)' => ~ Guarded(s)'
    BY <1>3, <1>6, <1>7, <2>1 DEF ChainInv, GuardInv
  <2>3. ASSUME NEW h \in HandleId, Open_(h)', Hd(h)'.writeable,
               NEW s \in Sector, FileOf(s)' = Hd(h)'.file_id
        PROVE  ~ Guarded(s)'
    <3>1. CASE h = g
      BY <1>1, <1>4, <1>5, <1>6, <2>1, <2>3, <3>1, OpenedAttrs
    <3>2. CASE h # g
      BY <1>5, <1>6, <2>1, <2>3, <3>2 DEF ChainInv, GuardInv
    <3> QED
      BY <3>1, <3>2
  <2>4. ~ Erasing'
    BY <1>1 DEF Erasing
  <2> QED
    BY <2>2, <2>3, <2>4 DEF GuardInv
<1> QED
  BY <1>7, <1>8, <1>9, <1>10 DEF ChainInv

\* A removal begins at a root that is not protected.
LEMMA RemoveRootChain ==
  ASSUME IInv, TableInv, ChainInv, RemoveRoot
  PROVE  ChainInv'
<1>1. /\ AtRoot("remove") /\ call.sector # None /\ ~ Protected(call.sector)
      /\ pc = "find_file_root" /\ call.op = "remove" /\ call \in Call
      /\ UNCHANGED alloc_unit_list /\ UNCHANGED fs_priv_handle_list
      /\ pc' = "erase_block"
  BY DEF RemoveRoot, AtRoot, EraseNext, Goto, ramVars, None, IInv, TypeOK
<1>2. call'.op = "remove" /\ call'.file = call.file
  BY <1>1 DEF RemoveRoot, EraseNext, Goto, Call
<1>3. RootOf(call.sector, call.file) /\ call.file \in FileId /\ ~ Guarded(call.sector)
  BY <1>1, RootReached DEF Guarded, Protected, Table
<1>4. \A s \in Sector : FileOf(s) = call.file => ~ Guarded(s)
  BY <1>1, <1>3, TableType, RootGuardsFile
<1>5. \A s \in Sector : /\ FileOf(s)' = FileOf(s) /\ Link(s)' = Link(s)
                        /\ Table'[s] = Table[s] /\ Guarded(s)' = Guarded(s)
  BY <1>1, SameTable DEF Guarded
<1>6. ShapeInv' /\ RankInv' /\ \A s \in Sector : Headless(s)' = Headless(s)
  BY <1>1, <1>5, ShapeKept DEF ChainInv
<1>7. \A h \in HandleId : Hd(h)' = Hd(h) /\ Open_(h)' = Open_(h)
  BY <1>1 DEF Hd, Open_
<1>8. CircularInv'
  <2>1. \A s, t \in Sector : SameFile(s, t)' => Table'[s].circular = Table'[t].circular
    BY <1>1, <1>5 DEF ChainInv, CircularInv, SameFile
  <2> QED
    BY <1>5, <1>7, <2>1 DEF ChainInv, CircularInv
<1>9. GuardInv'
  <2>1. \A s \in Sector : FileOf(s)' # None /\ ~ Headless(s)' => ~ Guarded(s)'
    BY <1>1, <1>5, <1>6 DEF ChainInv, GuardInv
  <2>2. \A h \in HandleId : Open_(h)' /\ Hd(h)'.writeable =>
          \A s \in Sector : FileOf(s)' = Hd(h)'.file_id => ~ Guarded(s)'
    BY <1>5, <1>7 DEF ChainInv, GuardInv
  <2>3. \A s \in Sector : FileOf(s)' = call'.file => ~ Guarded(s)'
    BY <1>2, <1>4, <1>5
  <2> QED
    BY <2>1, <2>2, <2>3 DEF GuardInv
<1> QED
  BY <1>1, <1>6, <1>8, <1>9 DEF ChainInv, GoneInv

\* protect and unprotect change the root of a file that nobody writes.
LEMMA SetProtectionChain ==
  ASSUME IInv, TableInv, ChainInv, NEW op \in {"protect", "unprotect"}, SetProtection(op)
  PROVE  ChainInv'
<1>1. /\ AtRoot(op) /\ call.sector # None /\ pc = "find_file_root" /\ call.op = op
      /\ pc' = "idle" /\ call'.op = "none" /\ UNCHANGED fs_priv_handle_list
  BY DEF SetProtection, AtRoot, Return, Goto, NoCall, None
<1>2. PICK r \in Sector : r = call.sector /\ RootOf(r, call.file)
  BY <1>1, RootReached DEF RootOf
<1>3. /\ Table = alloc_unit_list /\ Table' = alloc_unit_list'
      /\ alloc_unit_list \in [Sector -> Header]
  BY <1>1 DEF Table, IInv, TypeOK
<1>4. \/ alloc_unit_list' = alloc_unit_list
      \/ \E bits : alloc_unit_list' = [alloc_unit_list EXCEPT ![r].file_protect = bits]
  BY <1>2 DEF SetProtection
<1>5. \A s \in Sector : /\ FileOf(s)' = FileOf(s) /\ Link(s)' = Link(s)
                        /\ Table'[s].circular = Table[s].circular
                        /\ s # r => Guarded(s)' = Guarded(s)
  BY <1>3, <1>4 DEF FileOf, Link, Guarded, Header
<1>6. ShapeInv' /\ RankInv' /\ \A s \in Sector : Headless(s)' = Headless(s)
  BY <1>1, <1>5, ShapeKept DEF ChainInv
<1>7. \A h \in HandleId : Hd(h)' = Hd(h) /\ Open_(h)' = Open_(h)
  BY <1>1 DEF Hd, Open_
<1>8. CircularInv'
  <2>1. \A s, t \in Sector : SameFile(s, t)' => Table'[s].circular = Table'[t].circular
    BY <1>1, <1>5 DEF ChainInv, CircularInv, SameFile
  <2> QED
    BY <1>5, <1>7, <2>1 DEF ChainInv, CircularInv
<1>9. GuardInv'
  <2>1. \A s \in Sector : FileOf(s)' # None /\ ~ Headless(s)' => ~ Guarded(s)'
    BY <1>1, <1>2, <1>5, <1>6 DEF ChainInv, GuardInv, RootOf
  <2>2. ASSUME NEW h \in HandleId, Open_(h)', Hd(h)'.writeable,
               NEW s \in Sector, FileOf(s)' = Hd(h)'.file_id
        PROVE  ~ Guarded(s)'
    <3>1. Open_(h) /\ Hd(h).writeable /\ FileOf(s) = Hd(h).file_id
      BY <1>5, <1>7, <2>2
    <3>2. Writers(call.file) = {} /\ FileOf(r) = call.file
      BY <1>1, <1>2 DEF TableInv, PathInv, SearchInv, RootOf
    <3>3. s # r
      BY <3>1, <3>2 DEF Writers, HandlesOn, Hd
    <3> QED
      BY <1>5, <3>1, <3>3 DEF ChainInv, GuardInv
  <2>3. call'.op # "remove"
    BY <1>1
  <2> QED
    BY <2>1, <2>2, <2>3 DEF GuardInv
<1> QED
  BY <1>1, <1>6, <1>8, <1>9 DEF ChainInv, GoneInv

\* A removal goes on with the same file; a format ends with no file at all.
LEMMA EraseLoopChain ==
  ASSUME IInv, TableInv, ChainInv, RemoveNext \/ FormatNext
  PROVE  ChainInv'
<1>1. /\ UNCHANGED alloc_unit_list /\ UNCHANGED fs_priv_handle_list
      /\ pc = "write_counter" /\ Erasing /\ call \in Call
  BY DEF RemoveNext, FormatNext, WriteCounter, ramVars, IInv, TypeOK, Erasing
<1>2. \A h \in HandleId : Open_(h)' => Open_(h) /\ SameAttrs(h)
  BY <1>1 DEF Open_, Hd, SameAttrs
<1>3. CASE RemoveNext
  <2>1. /\ call.op = "remove" /\ pc' \in {"idle", "erase_block"}
        /\ call'.op = "remove" => call'.file = call.file
    <3>1. CASE call.next = None
      BY <1>3, <3>1 DEF RemoveNext, Return, Goto, NoCall, None
    <3>2. CASE call.next # None
      <4>1. EraseNext(call.next) /\ call.op = "remove"
        BY <1>3, <3>2 DEF RemoveNext, None
      <4> QED
        BY <1>1, <4>1 DEF EraseNext, Goto, Call
    <3> QED
      BY <3>1, <3>2
  <2> QED
    BY <1>1, <1>2, <2>1, TableKept
<1>4. CASE FormatNext /\ call.sector + 1 \in Sector
  <2>1. call.op = "format" /\ pc' = "erase_block" /\ call'.op = "format"
    BY <1>1, <1>4 DEF FormatNext, Goto, Call
  <2> QED
    BY <1>1, <1>2, <2>1, TableKept
<1>5. CASE FormatNext /\ call.sector + 1 \notin Sector
  <2>1. call.op = "format" /\ pc' = "idle" /\ call'.op = "none"
    BY <1>5 DEF FormatNext, Return, Goto, NoCall
  <2>2. \A s \in Sector : FileOf(s) = None
    <3>1. /\ \A s \in Sector : s < call.sector => FileOf(s) = None
          /\ FileOf(call.sector) = None /\ call.sector \in Sector
      BY <1>1, <2>1 DEF TableInv, PathInv, EraseInv, IInv, CallInv
    <3>2. \A s \in Sector : s <= call.sector
      BY <1>5, <3>1, LayoutAssumption DEF Sector
    <3> QED
      BY <3>1, <3>2, LayoutAssumption DEF Sector
  <2>3. \A s \in Sector : FileOf(s)' = None /\ Link(s)' = Link(s)
    BY <1>1, <2>1, <2>2, SameTable
  <2>4. \A h \in HandleId : ~ Open_(h)'
    BY <1>1, <2>1 DEF TableInv, PathInv, EraseInv, Open_
  <2>5. RankInv'
    BY <2>3 DEF ChainInv, RankInv
  <2> QED
    BY <2>1, <2>3, <2>4, <2>5
    DEF ChainInv, ShapeInv, SameFile, GoneInv, CircularInv, GuardInv
<1> QED
  BY <1>3, <1>4, <1>5


\* Power on, mounting and unmounting.
LEMMA InitChain == Init => ChainInv
<1> SUFFICES ASSUME Init PROVE ChainInv
  OBVIOUS
<1>1. \A s \in Sector : Link(s) = None /\ FileOf(s) = None
  BY DEF Init, Table, Link, FileOf, ErasedHeader, None
<1>2. \A h \in HandleId : ~ Open_(h)
  BY DEF Init, Open_, FreeHandle
<1>3. pc # "write_counter" /\ call.op = "none"
  BY DEF Init, NoCall
<1>4. RankInv
  <2>1. [s \in Sector |-> 0] \in [Sector -> 0 .. 0]
    OBVIOUS
  <2> QED
    BY <1>1, <2>1 DEF RankInv
<1> QED
  BY <1>1, <1>2, <1>3, <1>4 DEF ChainInv, ShapeInv, SameFile, GoneInv, CircularInv, GuardInv

\* The device has the same table on both sides of a mount.
LEMMA MountChain ==
  ASSUME IInv, TableInv, ChainInv, Mount \/ Unmount
  PROVE  ChainInv'
<1>1. /\ pc \in {"idle", "unmounted"} /\ pc' \in {"idle", "unmounted"}
      /\ header' = header /\ call' = call /\ call.op = "none"
      /\ fs_priv_handle_list' = [h \in HandleId |-> FreeHandle]
  BY DEF Mount, Unmount, flashVars, IInv, CallInv, NoCall
<1>2. Table' = Table
  <2>1. CASE Mount
    BY <2>1 DEF Mount, Table, flashVars
  <2>2. CASE Unmount
    <3>1. alloc_unit_list \in [Sector -> Header] /\ header \in [Sector -> Header]
      BY DEF IInv, TypeOK
    <3>2. \A s \in Sector : header[s] = alloc_unit_list[s]
      BY <2>2 DEF Unmount, TableInv, MirrorInv, InFlash, Growing
    <3>3. header = alloc_unit_list
      BY <3>1, <3>2
    <3> QED
      BY <2>2, <3>3 DEF Unmount, Table, flashVars
  <2> QED
    BY <2>1, <2>2
<1>3. \A s \in Sector : FileOf(s)' = FileOf(s) /\ Link(s)' = Link(s) /\ Table'[s] = Table[s]
  BY <1>2 DEF FileOf, Link
<1>4. \A h \in HandleId : ~ Open_(h)'
  BY <1>1 DEF Open_, FreeHandle
<1> QED
  BY <1>1, <1>3, <1>4, ChainKept

\* A step that changes nothing.
LEMMA StutterChain ==
  ASSUME ChainInv, UNCHANGED vars
  PROVE  ChainInv'
<1>1. /\ Table' = Table /\ (\A h \in HandleId : Hd(h)' = Hd(h) /\ Open_(h)' = Open_(h))
      /\ Cur' = Cur /\ call' = call /\ pc' = pc
  BY DEF vars, flashVars, ramVars, Table, Hd, Open_, Cur
<1>2. \A s : /\ FileOf(s)' = FileOf(s) /\ Link(s)' = Link(s)
             /\ Headless(s)' = Headless(s) /\ Guarded(s)' = Guarded(s)
  BY <1>1 DEF FileOf, Link, Headless, Guarded
<1>3. ShapeInv' /\ RankInv'
  BY <1>1, <1>2 DEF ChainInv, ShapeInv, SameFile, RankInv
<1>4. GoneInv' /\ CircularInv' /\ GuardInv'
  BY <1>1, <1>2 DEF ChainInv, GoneInv, Unused, FileOf, CircularInv, SameFile, GuardInv, Erasing
<1> QED
  BY <1>3, <1>4 DEF ChainInv

-----------------------------------------------------------------------------
(***************************************************************************)
(* Giving up a sector.                                                     *)
(***************************************************************************)

\* Any set of sectors has one that none of them links to, and one that links to none.
LEMMA FirstAndLast ==
  ASSUME IInv, RankInv, NEW S \in SUBSET Sector, S # {}
  PROVE  /\ \E u \in S : \A p \in S : Link(p) # u
         /\ \E u \in S : Link(u) \notin S
<1>0. PICK n \in Nat : \E rank \in [Sector -> 0 .. n] :
        \A s \in Sector : Link(s) # None => rank[s] < rank[Link(s)]
  BY DEF RankInv
<1>1. PICK rank \in [Sector -> 0 .. n] :
        \A s \in Sector : Link(s) # None => rank[s] < rank[Link(s)]
  BY <1>0
<1>2. \A s \in Sector : rank[s] \in Nat /\ rank[s] <= n
  BY <1>1
<1>3. \A p \in S : Link(p) \in S => rank[p] < rank[Link(p)]
  BY <1>1, TableType
<1>4. \E u \in S : \A p \in S : Link(p) # u
  <2> DEFINE R == {rank[u] : u \in S}
  <2>1. R \in SUBSET Nat /\ R # {}
    BY <1>2
  <2> HIDE DEF R
  <2>2. PICK m \in R : \A x \in R : m <= x
    BY <2>1, LeastNatural
  <2>3. PICK u \in S : \A p \in S : rank[u] <= rank[p]
    BY <2>2 DEF R
  <2>4. \A p \in S : ~ rank[p] < rank[u]
    BY <1>2, <2>3
  <2> QED
    BY <1>3, <2>4
<1>5. \E u \in S : Link(u) \notin S
  <2> DEFINE R == {n - rank[u] : u \in S}
  <2>1. R \in SUBSET Nat
    BY <1>1, <1>2
  <2>2. PICK v \in S : TRUE
    OBVIOUS
  <2>3. n - rank[v] \in R
    OBVIOUS
  <2> HIDE DEF R
  <2>4. PICK m \in R : \A x \in R : m <= x
    BY <2>1, <2>3, LeastNatural
  <2>5. PICK u \in S : \A p \in S : n - rank[u] <= n - rank[p]
    BY <2>4 DEF R
  <2>6. \A p \in S : ~ rank[u] < rank[p]
    BY <1>1, <1>2, <2>5
  <2> QED
    BY <1>3, <2>6
<1> QED
  BY <1>4, <1>5

\* A sector that is first and last of its file is all of it.
LEMMA LastOfFile ==
  ASSUME IInv, TableInv, ChainInv, call.op # "format",
         NEW s \in Sector, FileOf(s) # None, Headless(s), Link(s) = None,
         NEW t \in Sector, FileOf(t) = FileOf(s)
  PROVE  t = s
<1> SUFFICES ASSUME t # s PROVE FALSE
  OBVIOUS
<1> DEFINE S == {u \in Sector : FileOf(u) = FileOf(s) /\ u # s}
<1>1. PICK u \in S : \A p \in S : Link(p) # u
  <2>1. S \in SUBSET Sector /\ S # {}
    OBVIOUS
  <2> HIDE DEF S
  <2> QED
    BY <2>1, FirstAndLast DEF ChainInv
<1>2. ~ Headless(u)
  BY DEF ChainInv, ShapeInv, SameFile
<1>3. PICK p \in Sector : Link(p) = u
  BY <1>2 DEF Headless
<1>4. FileOf(p) = FileOf(s) /\ p # s
  BY <1>3, TableType DEF TableInv, LinkInv
<1> QED
  BY <1>1, <1>3, <1>4

\* The root of a file is erased: its successor, if any, is the root from now on.
LEMMA EraseBlockChain ==
  ASSUME IInv, TableInv, ChainInv, EraseBlock
  PROVE  ChainInv'
<1>1. PICK s \in Sector :
        /\ s = call.sector /\ pc = "erase_block" /\ pc' = "write_counter"
        /\ call' = call /\ UNCHANGED fs_priv_handle_list
  BY DEF EraseBlock, IInv, CallInv
<1>2. /\ \A t \in Sector : t # s =>
           /\ FileOf(t)' = FileOf(t) /\ Link(t)' = Link(t)
           /\ Table'[t] = Table[t] /\ Guarded(t)' = Guarded(t)
      /\ FileOf(s)' = None /\ Link(s)' = None
  <2>1. alloc_unit_list' =
           [alloc_unit_list EXCEPT
              ![s] = [ErasedHeader EXCEPT
                        !.alloc_counter = NextCounter(alloc_unit_list[s].alloc_counter)]]
        /\ alloc_unit_list \in [Sector -> Header]
    BY <1>1 DEF EraseBlock, IInv, TypeOK
  <2> QED
    BY <1>1, <2>1 DEF Table, FileOf, Link, Guarded, ErasedHeader, None
<1>3. /\ call.op \in {"write", "remove", "format"}
      /\ call.op # "format" =>
           /\ Headless(s) /\ call.next = Link(s) /\ FileOf(s) \in FileId
           /\ call.op = "remove" => FileOf(s) = call.file
           /\ call.op = "write" => FileOf(s) = Cur.file_id
  <2>1. EraseInv
    BY DEF TableInv, PathInv
  <2>2. ASSUME call.op = "write" PROVE RootOf(s, Cur.file_id) /\ Cur.file_id \in FileId
    <3>1. OnHandle
      BY <1>1, <2>2 DEF OnHandle
    <3>2. PICK g \in HandleId : g = call.handle /\ Open_(g) /\ Cur = Hd(g)
      BY <3>1, CurHandle
    <3>3. Placed(g)
      BY <1>1, <2>2, <3>2 DEF Placed, Moving, Growing, Opening
    <3> QED
      BY <1>1, <2>1, <2>2, <3>2, <3>3 DEF EraseInv, Erasing, TableInv, PlaceInv
  <2> QED
    BY <1>1, <2>1, <2>2 DEF EraseInv, Erasing, RootOf
<1>4. \A h \in HandleId : Hd(h)' = Hd(h) /\ Open_(h)' = Open_(h)
                          /\ (Open_(h) => Hd(h).file_id # None)
  BY <1>1, TableType DEF Hd, Open_, TableInv, PlaceInv
<1>5. None \notin Sector /\ None \notin FileId
  BY TableType
<1>6. \A t \in Sector : Headless(t) => Headless(t)'
  BY <1>2, <1>5 DEF Headless
<1>7. ShapeInv'
  <2> SUFFICES ASSUME call.op # "format", NEW t \in Sector, NEW u \in Sector,
                      t # s, u # s, FileOf(t) # None, FileOf(u) = FileOf(t)
               PROVE  /\ Headless(t)' /\ Headless(u)' => t = u
                      /\ Link(t) = None /\ Link(u) = None => t = u
    BY <1>1, <1>2 DEF ShapeInv, SameFile
  <2>1. ShapeInv /\ LinkInv
    BY DEF TableInv, ChainInv
  <2>2. \A v \in Sector : Headless(v)' => Headless(v) \/ v = Link(s)
    BY <1>2, <1>5 DEF Headless
  <2>3. ~ (Headless(t) /\ u = Link(s))
    BY <1>3, <1>5, <2>1 DEF ShapeInv, SameFile, LinkInv
  <2>4. ~ (Headless(u) /\ t = Link(s))
    BY <1>3, <1>5, <2>1 DEF ShapeInv, SameFile, LinkInv
  <2> QED
    BY <2>1, <2>2, <2>3, <2>4 DEF ShapeInv, SameFile
<1>8. RankInv'
  <2>0. PICK n \in Nat : \E rank \in [Sector -> 0 .. n] :
          \A t \in Sector : Link(t) # None => rank[t] < rank[Link(t)]
    BY DEF ChainInv, RankInv
  <2>1. PICK rank \in [Sector -> 0 .. n] :
          \A t \in Sector : Link(t) # None => rank[t] < rank[Link(t)]
    BY <2>0
  <2>2. \A t \in Sector : Link(t)' # None => rank[t] < rank[Link(t)']
    BY <1>2, <2>1
  <2> QED
    BY <2>1, <2>2 DEF RankInv
<1>9. GoneInv'
  <2>1. ASSUME call.op \in {"remove", "write"}, call.next = None
        PROVE  \A t \in Sector : FileOf(t)' # FileOf(s)
    <3>1. \A t \in Sector : FileOf(t) = FileOf(s) => t = s
      BY <1>3, <1>5, <2>1, LastOfFile
    <3> QED
      BY <1>2, <1>3, <1>5, <2>1, <3>1
  <2>2. Cur' = Cur
    BY <1>1 DEF Cur
  <2> QED
    BY <1>1, <1>3, <2>1, <2>2 DEF GoneInv, Unused
<1>10. CircularInv'
  <2>1. CircularInv
    BY DEF ChainInv
  <2>2. call.op # "format" => \A t, u \in Sector : SameFile(t, u)' => Table'[t].circular = Table'[u].circular
    BY <1>2, <2>1 DEF CircularInv, SameFile
  <2>3. \A h \in HandleId : Open_(h)' =>
          \A t \in Sector : FileOf(t)' = Hd(h)'.file_id => Table'[t].circular = Hd(h)'.circular
    BY <1>2, <1>4, <2>1 DEF CircularInv
  <2> QED
    BY <1>1, <2>2, <2>3 DEF CircularInv
<1>11. GuardInv'
  <2>1. GuardInv
    BY DEF ChainInv
  <2>2. call.op # "format" => \A t \in Sector : FileOf(t)' # None /\ ~ Headless(t)' => ~ Guarded(t)'
    BY <1>2, <1>6, <2>1 DEF GuardInv
  <2>3. \A h \in HandleId : Open_(h)' /\ Hd(h)'.writeable =>
          \A t \in Sector : FileOf(t)' = Hd(h)'.file_id => ~ Guarded(t)'
    BY <1>2, <1>4, <2>1 DEF GuardInv
  <2>4. call.op = "remove" => \A t \in Sector : FileOf(t)' = call.file => ~ Guarded(t)'
    BY <1>1, <1>2, <1>3, <1>5, <2>1 DEF GuardInv, Erasing
  <2> QED
    BY <1>1, <2>2, <2>3, <2>4 DEF GuardInv
<1> QED
  BY <1>7, <1>8, <1>9, <1>10, <1>11 DEF ChainInv


-----------------------------------------------------------------------------
(***************************************************************************)
(* Adding a sector.                                                        *)
(***************************************************************************)

\* What allocate_new_sector_to_file knows when it claims a sector: a free one goes to
\* the file of the running call's writer, after its last sector, or as all of a file that
\* has no sector.
Claims(s, root) ==
  /\ OnHandle /\ pc \in {"allocate", "write_counter"} /\ call.op \in {"open", "write"}
  /\ FileOf(s) = None /\ Claim(s, root)
  /\ Cur.writeable /\ Cur.file_id \in FileId
  /\ IF root = None
       THEN Unused(Cur.file_id)
       ELSE /\ call.op = "write"
            /\ RootOf(root, Cur.file_id)
            /\ FileOf(Cur.curr_allocation_unit) = Cur.file_id
            /\ Link(Cur.curr_allocation_unit) = None

\* Both allocations are such claims.
LEMMA ClaimsSector ==
  ASSUME IInv, TableInv, ChainInv, AllocateFree \/ Recycled
  PROVE  \E s \in Sector, root \in Nil(Sector) : Claims(s, root)
<1>1. CASE AllocateFree
  <2> DEFINE s == find_free_allocation_unit(alloc_unit_list)
  <2>1. /\ pc = "allocate" /\ OnHandle /\ call.op \in {"open", "write"}
        /\ Claim(s, Cur.root_allocation_unit)
    BY <1>1 DEF AllocateFree, OnHandle, IInv, CallInv
  <2>2. s \in Sector /\ FileOf(s) = None
    <3>1. s \in free_sectors(alloc_unit_list)
      BY <1>1, FindFreeType DEF AllocateFree, IInv, TypeOK
    <3> QED
      BY <2>1, <3>1 DEF free_sectors, sectors_of, FileOf, Table, None
  <2> HIDE DEF s
  <2>3. PICK g \in HandleId : g = call.handle /\ Open_(g) /\ Cur = Hd(g) /\ Cur \in Handle
    BY <2>1, CurHandle
  <2>4. PlaceInv(g)
    BY DEF TableInv
  <2>5. Cur.file_id \in FileId /\ Cur.root_allocation_unit \in Nil(Sector)
    BY <2>3, <2>4 DEF PlaceInv, Handle
  <2>6. CASE call.op = "write"
    <3>1. Cur.writeable /\ Placed(g)
      BY <2>1, <2>3, <2>6 DEF IInv, CallInv, Placed, Opening, Moving, Growing
    <3>2. /\ RootOf(Cur.root_allocation_unit, Cur.file_id)
          /\ FileOf(Cur.curr_allocation_unit) = Cur.file_id
          /\ Link(Cur.curr_allocation_unit) = None
      BY <2>3, <2>4, <3>1 DEF PlaceInv
    <3>3. Cur.root_allocation_unit # None
      BY <3>2, TableType DEF RootOf
    <3> QED
      BY <2>1, <2>2, <2>5, <2>6, <3>1, <3>2, <3>3 DEF Claims
  <2>7. CASE call.op = "open"
    <3>1. Cur.writeable /\ Cur.root_allocation_unit = None /\ Unused(Cur.file_id)
      BY <2>1, <2>3, <2>4, <2>7 DEF PlaceInv, Opening, TableInv, PathInv, OpenInv
    <3> QED
      BY <2>1, <2>2, <2>5, <3>1 DEF Claims
  <2> QED
    BY <2>1, <2>6, <2>7
<1>2. CASE Recycled
  <2>1. /\ pc = "write_counter" /\ OnHandle /\ call.op \in {"open", "write"}
        /\ Claim(call.sector, call.next)
    BY <1>2 DEF Recycled, WriteCounter, OnHandle
  <2>2. call.op = "write" /\ FileOf(call.sector) = None
    BY <2>1 DEF TableInv, PathInv, EraseInv, Erasing
  <2>3. call.sector \in Sector /\ call.next \in Nil(Sector) /\ Cur.writeable
    BY <2>1, <2>2 DEF IInv, TypeOK, Call, CallInv
  <2>4. PICK g \in HandleId : g = call.handle /\ Open_(g) /\ Cur = Hd(g)
    BY <2>1, CurHandle
  <2>5. Cur.file_id \in FileId
    BY <2>4 DEF TableInv, PlaceInv
  <2>6. call.next # None => /\ RootOf(call.next, Cur.file_id)
                            /\ FileOf(Cur.curr_allocation_unit) = Cur.file_id
                            /\ Link(Cur.curr_allocation_unit) = None
    BY <2>1, <2>2, TableType DEF TableInv, PathInv, EraseInv, RootOf
  <2>7. call.next = None => Unused(Cur.file_id)
    BY <2>1, <2>2 DEF ChainInv, GoneInv
  <2> QED
    BY <2>1, <2>2, <2>3, <2>5, <2>6, <2>7 DEF Claims
<1> QED
  BY <1>1, <1>2

\* What a claim does to the table: the sector enters the file without a link, and the
\* sector before it gets one.  curr is None in a file that had no sector.
ClaimedBy(s, root, g, f, curr) ==
  /\ g = call.handle /\ Open_(g) /\ Cur = Hd(g) /\ f = Hd(g).file_id /\ Hd(g).writeable
  /\ IF root = None
       THEN curr = None /\ Unused(f)
       ELSE /\ curr \in Sector /\ curr = Hd(g).curr_allocation_unit /\ curr # s
            /\ call.op = "write" /\ FileOf(curr) = f /\ Link(curr) = None /\ RootOf(root, f)
  /\ FileOf(s) = None /\ Link(s) = None /\ Headless(s)
  /\ FileOf(s)' = f /\ Link(s)' = None
  /\ Table'[s].circular = Hd(g).circular
  /\ Guarded(s)' <=> (root # None /\ Guarded(root))
  /\ \A t \in Sector : t # s =>
       /\ FileOf(t)' = FileOf(t)
       /\ Link(t)' = IF t = curr THEN s ELSE Link(t)
       /\ Table'[t].circular = Table[t].circular
       /\ Guarded(t)' <=> Guarded(t)
  /\ \A h \in HandleId : Open_(h)' = Open_(h) /\ SameAttrs(h)
  /\ Growing' /\ call'.op = call.op /\ call'.sector = s /\ call'.handle = g

\* A claim has that effect, on the file of the handle of the running call.
LEMMA ClaimEffect ==
  ASSUME IInv, TableInv, NEW s \in Sector, NEW root \in Nil(Sector), Claims(s, root)
  PROVE  \E g \in HandleId : \E f \in FileId : \E curr \in Nil(Sector) :
           ClaimedBy(s, root, g, f, curr)
<1>1. /\ alloc_unit_list \in [Sector -> Header] /\ call \in Call
      /\ fs_priv_handle_list \in [HandleId -> Handle]
      /\ None \notin FileId /\ None \notin Sector
      /\ \A t \in Sector : FileOf(t) \in Nil(FileId) /\ Link(t) \in Nil(Sector)
  BY TableType DEF IInv, TypeOK
<1>2. PICK g \in HandleId : g = call.handle /\ Open_(g) /\ Cur = Hd(g) /\ Cur \in Handle
  BY CurHandle DEF Claims
<1>3. PICK f \in FileId : f = Cur.file_id
  BY DEF Claims
<1>4. PICK curr \in Nil(Sector) :
        IF root = None
          THEN curr = None
          ELSE /\ curr \in Sector /\ curr = Cur.curr_allocation_unit /\ curr # s
               /\ FileOf(curr) = f /\ Link(curr) = None
  <2>1. CASE root = None
    BY <2>1 DEF Nil, None
  <2>2. CASE root # None
    <3>1. HandleInv(g) /\ ~ Opening(g)
      BY <1>2, <2>2 DEF IInv, Opening, Claims
    <3>2. Cur.curr_allocation_unit \in Sector
      BY <1>2, <3>1 DEF HandleInv, Hd
    <3> QED
      BY <1>1, <1>3, <2>2, <3>2 DEF Claims, Nil
  <2> QED
    BY <2>1, <2>2
<1> DEFINE entry ==
             [file_id |-> f,
              file_protect |-> IF root = FS_PRIV_NOT_ALLOCATED
                                 THEN PROTECT_BITS ELSE alloc_unit_list[root].file_protect,
              next_allocation_unit |-> FS_PRIV_NOT_ALLOCATED,
              circular |-> Cur.circular,
              alloc_counter |-> alloc_unit_list[s].alloc_counter]
           claimed == [alloc_unit_list EXCEPT ![s] = entry]
<1>5. /\ alloc_unit_list' = IF root = None THEN claimed
                            ELSE [claimed EXCEPT ![curr].next_allocation_unit = s]
      /\ \E new : SetHandle(g, [Cur EXCEPT !.root_allocation_unit = new])
      /\ call'.sector = s /\ call'.op = call.op /\ call'.handle = g
      /\ pc' = IF root = None THEN "write_file_info" ELSE "write_next"
  BY <1>1, <1>2, <1>3, <1>4 DEF Claims, Claim, Goto, Call, None
<1>6. /\ Table = alloc_unit_list /\ Table' = alloc_unit_list'
      /\ pc # "unmounted"
  BY <1>5 DEF Table, Claims
<1>7. /\ entry.file_id = f /\ entry.next_allocation_unit = None
      /\ entry.circular = Cur.circular
      /\ entry.file_protect = IF root = None THEN PROTECT_BITS
                                             ELSE alloc_unit_list[root].file_protect
  BY DEF None
<1> HIDE DEF entry
<1>8. /\ \A t \in Sector : t # s => claimed[t] = alloc_unit_list[t]
      /\ claimed[s] = entry /\ DOMAIN claimed = Sector
  BY <1>1
<1> HIDE DEF claimed
<1>9. /\ alloc_unit_list'[s] = entry
      /\ \A t \in Sector : t # s /\ t # curr => alloc_unit_list'[t] = alloc_unit_list[t]
      /\ root # None => alloc_unit_list'[curr] =
                          [alloc_unit_list[curr] EXCEPT !.next_allocation_unit = s]
  <2>1. CASE root = None
    BY <1>1, <1>4, <1>5, <1>8, <2>1
  <2>2. CASE root # None
    BY <1>4, <1>5, <1>8, <2>2
  <2> QED
    BY <2>1, <2>2
<1>10. /\ FileOf(s)' = f /\ Link(s)' = None
       /\ Table'[s].circular = Cur.circular
  BY <1>6, <1>7, <1>9 DEF FileOf, Link
<1>11. Guarded(s)' <=> (root # None /\ Guarded(root))
  <2>1. CASE root = None
    BY <1>6, <1>7, <1>9, <2>1, LayoutAssumption DEF Guarded, is_protected
  <2>2. CASE root # None
    BY <1>6, <1>7, <1>9, <2>2 DEF Guarded
  <2> QED
    BY <2>1, <2>2
<1>12. ASSUME NEW t \in Sector, t # s
       PROVE  /\ FileOf(t)' = FileOf(t)
              /\ Link(t)' = IF t = curr THEN s ELSE Link(t)
              /\ Table'[t].circular = Table[t].circular
              /\ Guarded(t)' <=> Guarded(t)
  <2>1. CASE t # curr
    BY <1>6, <1>9, <1>12, <2>1 DEF FileOf, Link, Guarded
  <2>2. CASE t = curr
    <3>1. root # None /\ alloc_unit_list[t] \in Header
      BY <1>1, <1>4, <2>2
    <3>2. Table'[t] = [Table[t] EXCEPT !.next_allocation_unit = s] /\ Table[t] \in Header
      BY <1>6, <1>9, <2>2, <3>1
    <3>3. /\ Table'[t].file_id = Table[t].file_id /\ Table'[t].next_allocation_unit = s
          /\ Table'[t].circular = Table[t].circular
          /\ Table'[t].file_protect = Table[t].file_protect
      BY <3>2 DEF Header
    <3> QED
      BY <2>2, <3>3 DEF FileOf, Link, Guarded
  <2> QED
    BY <2>1, <2>2
<1>13. Headless(s) /\ Link(s) = None /\ FileOf(s) = None
  <2>1. FileOf(s) = None /\ call.op # "format"
    BY DEF Claims
  <2>2. Table[s] = [ErasedHeader EXCEPT !.alloc_counter = Table[s].alloc_counter]
    BY <2>1 DEF TableInv, FreeInv
  <2> QED
    BY <2>1, <2>2, FreeIsHeadless DEF ErasedHeader, Link, None
<1>14. \A h \in HandleId : Open_(h)' = Open_(h) /\ SameAttrs(h)
  <2>1. PICK new : SetHandle(g, [Cur EXCEPT !.root_allocation_unit = new])
    BY <1>5
  <2> DEFINE hd == [Cur EXCEPT !.root_allocation_unit = new]
  <2>2. /\ fs_priv_handle_list'[g] = hd
        /\ \A h \in HandleId : h # g => fs_priv_handle_list'[h] = fs_priv_handle_list[h]
    BY <1>1, <2>1 DEF SetHandle
  <2>3. /\ hd.fs_priv = Cur.fs_priv /\ hd.file_id = Cur.file_id
        /\ hd.writeable = Cur.writeable /\ hd.circular = Cur.circular
    BY <1>2 DEF Handle
  <2> HIDE DEF hd
  <2> QED
    BY <1>2, <2>2, <2>3 DEF SameAttrs, Hd, Open_
<1>15. Growing'
  BY <1>5 DEF Growing
<1> QED
  <2>1. /\ Cur.writeable
        /\ IF root = None THEN Unused(Cur.file_id)
                          ELSE call.op = "write" /\ RootOf(root, Cur.file_id)
    BY DEF Claims
  <2>2. ClaimedBy(s, root, g, f, curr)
    BY <1>2, <1>3, <1>4, <1>5, <1>10, <1>11, <1>12, <1>13, <1>14, <1>15, <2>1
    DEF ClaimedBy
  <2> QED
    BY <2>2


\* The new last sector of a file is of the file's kind, and unprotected like its root.
LEMMA AllocateChain ==
  ASSUME IInv, TableInv, ChainInv, AllocateFree \/ Recycled
  PROVE  ChainInv'
<1>1. PICK s \in Sector, root \in Nil(Sector) : Claims(s, root)
  BY ClaimsSector
<1>2. PICK g \in HandleId, f \in FileId, curr \in Nil(Sector) : ClaimedBy(s, root, g, f, curr)
  BY <1>1, ClaimEffect
<1>3. /\ None \notin Sector /\ None \notin FileId /\ call.op # "format"
      /\ \A t \in Sector : FileOf(t) \in Nil(FileId) /\ Link(t) \in Nil(Sector)
  BY <1>1, TableType DEF Claims
<1>4. /\ IF root = None THEN curr = None /\ Unused(f)
                        ELSE curr \in Sector /\ curr # s /\ FileOf(curr) = f /\ Link(curr) = None
      /\ Headless(s) /\ FileOf(s)' = f /\ Link(s)' = None
      /\ \A t \in Sector : t # s => /\ FileOf(t)' = FileOf(t)
                                    /\ Link(t)' = IF t = curr THEN s ELSE Link(t)
      /\ Growing' /\ call'.op = call.op
  BY <1>2 DEF ClaimedBy
<1>5. \A t \in Sector : t # s => (Headless(t)' <=> Headless(t))
  <2> SUFFICES ASSUME NEW t \in Sector, t # s
               PROVE  \A p \in Sector : Link(p)' = t <=> Link(p) = t
    BY DEF Headless
  <2>1. Link(s) = None
    BY <1>2 DEF ClaimedBy
  <2> QED
    BY <1>3, <1>4, <2>1
<1>6. root # None => ~ Headless(s)'
  BY <1>4 DEF Headless
<1>7. \A t \in Sector : FileOf(t) = f => root # None
  BY <1>4 DEF Unused
<1>8. ShapeInv'
  <2> SUFFICES ASSUME NEW t \in Sector, NEW u \in Sector,
                      FileOf(t)' # None, FileOf(u)' = FileOf(t)', t # u
               PROVE  /\ ~ (Headless(t)' /\ Headless(u)')
                      /\ ~ (Link(t)' = None /\ Link(u)' = None)
    BY DEF ShapeInv, SameFile
  <2>1. ShapeInv
    BY DEF ChainInv
  <2>2. \A v \in Sector : v # s /\ FileOf(v) = f => v = curr \/ Link(v) # None
    BY <1>3, <1>4, <1>7, <2>1 DEF ShapeInv, SameFile
  <2>3. CASE t = s
    <3>1. FileOf(u) = f /\ root # None
      BY <1>4, <1>7, <2>3
    <3> QED
      BY <1>3, <1>4, <1>6, <2>2, <2>3, <3>1
  <2>4. CASE u = s
    <3>1. FileOf(t) = f /\ root # None
      BY <1>4, <1>7, <2>4
    <3> QED
      BY <1>3, <1>4, <1>6, <2>2, <2>4, <3>1
  <2>5. CASE t # s /\ u # s
    <3>1. FileOf(t) # None /\ FileOf(u) = FileOf(t)
      BY <1>4, <2>5
    <3>2. ~ (Headless(t)' /\ Headless(u)')
      BY <1>3, <1>5, <2>1, <2>5, <3>1 DEF ShapeInv, SameFile
    <3>3. ~ (Link(t)' = None /\ Link(u)' = None)
      BY <1>3, <1>4, <2>1, <2>5, <3>1 DEF ShapeInv, SameFile
    <3> QED
      BY <3>2, <3>3
  <2> QED
    BY <2>3, <2>4, <2>5
<1>9. RankInv'
  <2>0. PICK n \in Nat : \E rank \in [Sector -> 0 .. n] :
          \A t \in Sector : Link(t) # None => rank[t] < rank[Link(t)]
    BY DEF ChainInv, RankInv
  <2>1. PICK rank \in [Sector -> 0 .. n] :
          \A t \in Sector : Link(t) # None => rank[t] < rank[Link(t)]
    BY <2>0
  <2> DEFINE new == [rank EXCEPT ![s] = n + 1]
  <2>2. n + 1 \in Nat /\ \A t \in Sector : rank[t] \in 0 .. n + 1 /\ rank[t] < n + 1
    BY <2>0, <2>1
  <2>3. /\ new \in [Sector -> 0 .. n + 1] /\ new[s] = n + 1
        /\ \A t \in Sector : t # s => new[t] = rank[t]
    BY <2>0, <2>1, <2>2
  <2> HIDE DEF new
  <2>4. \A t \in Sector : Link(t)' # None => new[t] < new[Link(t)']
    <3> SUFFICES ASSUME NEW t \in Sector, Link(t)' # None PROVE new[t] < new[Link(t)']
      OBVIOUS
    <3>1. t # s
      BY <1>4
    <3>2. CASE t = curr
      BY <1>4, <2>2, <2>3, <3>1, <3>2
    <3>3. CASE t # curr
      <4>1. Link(t)' = Link(t) /\ Link(t) \in Sector /\ Link(t) # s
        BY <1>3, <1>4, <3>1, <3>3 DEF Headless, Nil, None
      <4> QED
        BY <2>1, <2>3, <3>1, <3>3, <4>1
    <3> QED
      BY <3>2, <3>3
  <2> QED
    BY <2>2, <2>3, <2>4 DEF RankInv
<1>10. GoneInv'
  BY <1>4 DEF GoneInv, Growing
<1>11. /\ Table'[s].circular = Hd(g).circular
       /\ \A t \in Sector : t # s => Table'[t].circular = Table[t].circular
       /\ Open_(g) /\ Hd(g).writeable /\ f = Hd(g).file_id
       /\ \A h \in HandleId : Open_(h)' = Open_(h) /\ SameAttrs(h)
       /\ root # None => FileOf(root) = f /\ root \in Sector
       /\ Guarded(s)' <=> (root # None /\ Guarded(root))
       /\ \A t \in Sector : t # s => (Guarded(t)' <=> Guarded(t))
  BY <1>2 DEF ClaimedBy, RootOf
<1>12. \A h \in HandleId : Open_(h) /\ Hd(h).file_id = f => h = g
  BY <1>11 DEF TableInv, Exclusive
<1>13. CircularInv'
  <2>1. /\ \A t, u \in Sector : SameFile(t, u) => Table[t].circular = Table[u].circular
        /\ \A h \in HandleId : Open_(h) =>
             \A t \in Sector : FileOf(t) = Hd(h).file_id => Table[t].circular = Hd(h).circular
    BY <1>3 DEF ChainInv, CircularInv
  <2>2. \A t \in Sector : FileOf(t)' = f => Table'[t].circular = Hd(g).circular
    BY <1>4, <1>11, <2>1
  <2>3. \A t, u \in Sector : SameFile(t, u)' => Table'[t].circular = Table'[u].circular
    BY <1>4, <1>11, <2>1, <2>2 DEF SameFile
  <2>4. \A h \in HandleId : Open_(h)' =>
          \A t \in Sector : FileOf(t)' = Hd(h)'.file_id => Table'[t].circular = Hd(h)'.circular
    BY <1>4, <1>11, <1>12, <2>1, <2>2 DEF SameAttrs
  <2> QED
    BY <2>3, <2>4 DEF CircularInv
<1>14. GuardInv'
  <2>1. /\ \A t \in Sector : FileOf(t) # None /\ ~ Headless(t) => ~ Guarded(t)
        /\ \A h \in HandleId : Open_(h) /\ Hd(h).writeable =>
             \A t \in Sector : FileOf(t) = Hd(h).file_id => ~ Guarded(t)
    BY <1>3 DEF ChainInv, GuardInv
  <2>2. ~ Guarded(s)'
    BY <1>11, <2>1
  <2>3. \A t \in Sector : FileOf(t)' # None /\ ~ Headless(t)' => ~ Guarded(t)'
    BY <1>4, <1>5, <1>11, <2>1, <2>2
  <2>4. \A h \in HandleId : Open_(h)' /\ Hd(h)'.writeable =>
          \A t \in Sector : FileOf(t)' = Hd(h)'.file_id => ~ Guarded(t)'
    BY <1>4, <1>11, <2>1, <2>2 DEF SameAttrs
  <2>5. ~ Erasing'
    BY <1>4 DEF Growing, Erasing
  <2> QED
    BY <2>3, <2>4, <2>5 DEF GuardInv
<1> QED
  BY <1>8, <1>9, <1>10, <1>13, <1>14 DEF ChainInv

-----------------------------------------------------------------------------
\* Whatever an orderly client calls.
LEMMA ClientChain ==
  ASSUME IInv, TableInv, ChainInv, Liberties = {}, Client
  PROVE  ChainInv'
<1>1. CASE Mount \/ Unmount
  BY <1>1, MountChain
<1>2. CASE Format
  BY <1>2, CallsChain
<1>3. CASE \E f \in FileId : Remove(f) \/ Protect(f) \/ Unprotect(f)
  <2>1. \E f, m : \E op \in Op : BeginOnFile(op, f, m)
    BY <1>3 DEF Remove, Protect, Unprotect, ChangeProtection, Op
  <2> QED
    BY <2>1, CallsChain
<1>4. CASE \E f \in IF "reserved_id" \in Liberties THEN Nil(FileId) ELSE FileId, m \in Mode :
             Open(f, m)
  <2>1. \E f, m : \E op \in Op : BeginOnFile(op, f, m)
    BY <1>4 DEF Open, Op
  <2> QED
    BY <2>1, CallsChain
<1>5. CASE \E h \in HandleId : Close(h) \/ Flush(h) \/ InvalidHandle(h)
  BY <1>5, HandleCallsChain
<1>6. CASE \E h \in HandleId, n \in WriteSizes : Write(h, n)
  BY <1>6, HandleCallsChain
<1>7. CASE \E h \in HandleId, n \in ReadSizes : Read(h, n)
  BY <1>7, HandleCallsChain
<1> QED
  BY <1>1, <1>2, <1>3, <1>4, <1>5, <1>6, <1>7 DEF Client

\* Whatever the code does until the call returns.
LEMMA StepChain ==
  ASSUME IInv, TableInv, ChainInv, Step
  PROVE  ChainInv'
<1>1. CASE \/ ClimbToRoot \/ FollowChain \/ FileMissing \/ OpenRefused \/ RemoveRefused
           \/ WriteDone \/ ReadDone \/ WriteToFullSector \/ RecycleRoot \/ WriteNext
  BY <1>1, CallsChain
<1>2. CASE \/ OpenAtEnd \/ AllocateFails \/ WriteFileInfo \/ FlushPageCache
           \/ UpdateSessionOffset \/ FillCache \/ WritePage \/ ReadNextSector \/ ReadBytes
  BY <1>2, CursorChain
<1>3. CASE OpenForReading \/ OpenForWriting \/ OpenNewFile
  BY <1>3, OpensChain
<1>4. CASE EraseBlock
  BY <1>4, EraseBlockChain
<1>5. CASE AllocateFree \/ Recycled
  BY <1>5, AllocateChain
<1>6. CASE RemoveNext \/ FormatNext
  BY <1>6, EraseLoopChain
<1>7. CASE RemoveRoot
  BY <1>7, RemoveRootChain
<1>8. CASE \E op \in {"protect", "unprotect"} : SetProtection(op)
  BY <1>8, SetProtectionChain
<1> QED
  BY <1>1, <1>2, <1>3, <1>4, <1>5, <1>6, <1>7, <1>8 DEF Step

\* Orderly clients keep the sectors of every file one chain, of one kind, at every step:
\* what find_file_root and find_last_allocation_unit walk has one root and one end, and
\* only the root of a file that nobody writes or removes is ever protected.
THEOREM ChainInvariant ==
  ASSUME Liberties = {}
  PROVE  Spec => []ChainInv
<1>1. IInv /\ TableInv /\ ChainInv /\ [Next]_vars => ChainInv'
  <2> SUFFICES ASSUME IInv, TableInv, ChainInv, [Next]_vars PROVE ChainInv'
    OBVIOUS
  <2>1. CASE Client
    BY <2>1, ClientChain
  <2>2. CASE Step
    BY <2>2, StepChain
  <2>3. CASE UNCHANGED vars
    BY <2>3, StutterChain
  <2> QED
    BY <2>1, <2>2, <2>3 DEF Next
<1> QED
  BY <1>1, Invariant, TableInvariant, InitChain, PTL DEF Spec


-----------------------------------------------------------------------------
(***************************************************************************)
(* What it means between calls.                                            *)
(***************************************************************************)

\* At rest flash holds the table.
LEMMA HeadersAtRest ==
  ASSUME IInv, TableInv, pc = "idle"
  PROVE  /\ call.op # "format"
         /\ \A s \in Sector : header[s].file_id = FileOf(s)
                              /\ header[s].next_allocation_unit = Link(s)
                              /\ header[s].circular = Table[s].circular
         /\ \A f \in FileId : RootsOf(f) = {s \in Sector : RootOf(s, f)}
<1>1. \A s \in Sector : header[s] = Table[s]
  BY DEF TableInv, MirrorInv, InFlash, Growing, Table
<1>2. call.op # "format"
  BY NotFormatting DEF Erasing
<1>3. \A s \in Sector : /\ header[s].file_id = FileOf(s)
                        /\ header[s].next_allocation_unit = Link(s)
                        /\ header[s].circular = Table[s].circular
  BY <1>1 DEF FileOf, Link
<1>4. ASSUME NEW f \in FileId, NEW s \in Sector, FileOf(s) = f
      PROVE  parents(header, f, s) = {} <=> Headless(s)
  <2>1. \A p \in Sector : Link(p) = s => FileOf(p) = f
    BY <1>2, <1>4, TableType DEF TableInv, LinkInv
  <2> QED
    BY <1>3, <2>1 DEF parents, sectors_of, Headless
<1> QED
  BY <1>2, <1>3, <1>4 DEF RootsOf, sectors_of, RootOf

\* Between calls the sectors of every file are one chain, from one root to one end, that
\* closes no cycle: both walks of the code end, and at the only right sector.
THEOREM ChainsStayWellFormed ==
  ASSUME Liberties = {}
  PROVE  Spec => []ChainsWellFormed
<1>1. IInv /\ TableInv /\ ChainInv => ChainsWellFormed
  <2> SUFFICES ASSUME IInv, TableInv, ChainInv, pc = "idle", NEW f \in FileId
               PROVE  LET S == sectors_of(header, f)
                      IN  /\ \A s \in S : header[s].next_allocation_unit \in Nil(S \ {s})
                          /\ \A s \in S : Cardinality(parents(header, f, s)) <= 1
                          /\ S # {} => Cardinality(RootsOf(f)) = 1
                          /\ S # {} =>
                               Cardinality({s \in S : is_last_allocation_unit(header, s)}) = 1
    BY DEF ChainsWellFormed
  <2> DEFINE S == sectors_of(header, f)
  <2>1. /\ call.op # "format" /\ None \notin Sector /\ None \notin FileId
        /\ \A s \in Sector : header[s].next_allocation_unit = Link(s)
        /\ \A s : s \in S <=> s \in Sector /\ FileOf(s) = f
        /\ RootsOf(f) = {s \in Sector : RootOf(s, f)}
        /\ \A s \in Sector : FileOf(s) \in Nil(FileId) /\ Link(s) \in Nil(Sector)
    BY HeadersAtRest, TableType DEF sectors_of
  <2>2. S \in SUBSET Sector /\ \A s, t \in S : SameFile(s, t)
    BY <2>1 DEF SameFile
  <2>3. /\ \A s \in Sector : Link(s) # None =>
             /\ Link(s) \in Sector /\ Link(s) # s /\ FileOf(Link(s)) = FileOf(s)
             /\ \A t \in Sector : Link(t) = Link(s) => t = s
        /\ \A s, t \in S : /\ Headless(s) /\ Headless(t) => s = t
                           /\ Link(s) = None /\ Link(t) = None => s = t
    BY <2>1, <2>2 DEF TableInv, LinkInv, ChainInv, ShapeInv, Nil, None
  <2>4. \A s \in S : header[s].next_allocation_unit \in Nil(S \ {s})
    BY <2>1, <2>3 DEF Nil, None
  <2>5. ASSUME NEW s \in S PROVE Cardinality(parents(header, f, s)) <= 1
    <3>1. \A p, q \in parents(header, f, s) : p = q
      BY <2>1, <2>3 DEF parents
    <3>2. CASE parents(header, f, s) = {}
      BY <3>2, FS_EmptySet
    <3>3. CASE parents(header, f, s) # {}
      <4>1. PICK p : parents(header, f, s) = {p}
        BY <3>1, <3>3
      <4> QED
        BY <4>1, FS_Singleton
    <3> QED
      BY <3>2, <3>3
  <2>6. ASSUME S # {} PROVE Cardinality(RootsOf(f)) = 1
    <3> HIDE DEF S
    <3>1. PICK u \in S : \A p \in S : Link(p) # u
      BY <2>2, <2>6, FirstAndLast DEF ChainInv
    <3>2. Headless(u)
      BY <2>1, <2>3, <3>1 DEF Headless
    <3>3. RootsOf(f) = {u}
      BY <2>1, <2>3, <3>2 DEF RootOf
    <3> QED
      BY <3>3, FS_Singleton
  <2>7. ASSUME S # {}
        PROVE  Cardinality({s \in S : is_last_allocation_unit(header, s)}) = 1
    <3> HIDE DEF S
    <3>1. PICK u \in S : Link(u) \notin S
      BY <2>2, <2>7, FirstAndLast DEF ChainInv
    <3>2. Link(u) = None
      BY <2>1, <2>3, <3>1
    <3>3. {s \in S : is_last_allocation_unit(header, s)} = {u}
      BY <2>1, <2>2, <2>3, <3>2 DEF is_last_allocation_unit, None
    <3> QED
      BY <3>3, FS_Singleton
  <2> QED
    BY <2>4, <2>5, <2>6, <2>7
<1> QED
  BY <1>1, Invariant, TableInvariant, ChainInvariant, PTL

\* Between calls what a handle remembers of the flash is what the flash holds: its
\* sector, its file's only root, where the committed bytes end and the next free slot.
THEOREM HandlesStayFresh ==
  ASSUME Liberties = {}
  PROVE  Spec => []HandlesFresh
<1>1. IInv /\ TableInv /\ SessionInv /\ ChainInv => HandlesFresh
  <2> SUFFICES ASSUME IInv, TableInv, SessionInv, ChainInv, pc = "idle",
                      NEW h \in HandleId, Open_(h)
               PROVE  LET hd == Hd(h)
                          s  == hd.curr_allocation_unit
                      IN  /\ header[s].file_id = hd.file_id
                          /\ RootsOf(hd.file_id) = {hd.root_allocation_unit}
                          /\ hd.circular = header[s].circular
                          /\ ~ hd.writeable => hd.last_data_offset = Committed(s)
                          /\ hd.writeable => /\ is_last_allocation_unit(header, s)
                                             /\ hd.curr_session_offset = next_session(session[s])
                                             /\ hd.curr_session_value = Committed(s)
    BY DEF HandlesFresh, Hd
  <2>1. Placed(h)
    BY AllPlaced
  <2>2. /\ PlaceInv(h) /\ WriterInv(h) /\ HandleInv(h)
        /\ call.op # "format" /\ None \notin FileId
    BY HeadersAtRest, TableType DEF TableInv, SessionInv, IInv
  <2>3. PICK f \in FileId, c \in Sector, r \in Sector :
          /\ f = Hd(h).file_id /\ c = Hd(h).curr_allocation_unit
          /\ r = Hd(h).root_allocation_unit
          /\ FileOf(c) = f /\ RootOf(r, f)
          /\ Hd(h).writeable => Link(c) = None
    BY <2>1, <2>2 DEF PlaceInv, HandleInv, Placed, Hd, RootOf
  <2>4. RootsOf(f) = {r}
    <3>1. \A t \in Sector : RootOf(t, f) => t = r
      BY <2>2, <2>3 DEF ChainInv, ShapeInv, SameFile, RootOf
    <3> QED
      BY <2>3, <3>1, HeadersAtRest
  <2>5. header[c].file_id = f /\ header[c].next_allocation_unit = Link(c)
    BY <2>3, HeadersAtRest
  <2>6. Hd(h).circular = header[c].circular
    BY <2>3, HeadersAtRest DEF ChainInv, CircularInv
  <2>7. /\ ~ Hd(h).writeable => Hd(h).last_data_offset = Committed(c)
        /\ Hd(h).writeable => /\ Hd(h).curr_session_offset = next_session(session[c])
                              /\ Hd(h).curr_session_value = Committed(c)
    BY <2>1, <2>2, <2>3 DEF WriterInv, Committed
  <2> QED
    BY <2>3, <2>4, <2>5, <2>6, <2>7 DEF is_last_allocation_unit, None
<1> QED
  BY <1>1, Invariant, TableInvariant, SessionInvariant, ChainInvariant, PTL


-----------------------------------------------------------------------------
(***************************************************************************)
(* Protected files.                                                        *)
(***************************************************************************)
Untouched(f) ==
  /\ FileProtected(f)'
  /\ \A s \in sectors_of(header, f) :
       /\ data'[s] = data[s] /\ session'[s] = session[s]
       /\ header'[s].next_allocation_unit = header[s].next_allocation_unit

\* A header in flash is of the file the table says, or of none yet.
LEMMA HeaderFile ==
  ASSUME TableInv, NEW s \in Sector
  PROVE  header[s].file_id \in {None, FileOf(s)}
<1>1. CASE pc = "unmounted"
  BY <1>1 DEF FileOf, Table
<1>2. CASE pc # "unmounted"
  <2>1. header[s] = InFlash(s)
    BY <1>2 DEF TableInv, MirrorInv
  <2>2. Table[s] = alloc_unit_list[s]
    BY <1>2 DEF Table
  <2> QED
    BY <2>1, <2>2 DEF InFlash, FileOf, ErasedHeader, None
<1> QED
  BY <1>1, <1>2

\* The root of a protected file: nobody writes the file, and it is not being removed.
LEMMA ProtectedFile ==
  ASSUME IInv, TableInv, ChainInv, pc # "unmounted", call.op # "format",
         NEW f \in FileId, FileProtected(f)
  PROVE  /\ \E r \in Sector : RootOf(r, f) /\ Guarded(r)
         /\ \A h \in HandleId : Open_(h) /\ Hd(h).writeable => Hd(h).file_id # f
         /\ call.op = "remove" /\ Erasing => call.file # f
<1>1. PICK r \in Sector : header[r].file_id = f /\ is_protected(header[r].file_protect)
  BY DEF FileProtected, RootsOf, sectors_of
<1>2. None \notin FileId /\ None \notin Sector
  BY TableType
<1>3. FileOf(r) = f
  BY <1>1, <1>2, HeaderFile
<1>4. header[r].file_protect = Table[r].file_protect
  <2>1. header[r] = InFlash(r) /\ Table[r] = alloc_unit_list[r] /\ alloc_unit_list[r] \in Header
    BY DEF TableInv, MirrorInv, Table, IInv, TypeOK
  <2>2. header[r].file_id # None
    BY <1>1, <1>2
  <2> QED
    BY <2>1, <2>2 DEF InFlash, ErasedHeader, None, Header
<1>5. Guarded(r)
  BY <1>1, <1>4 DEF Guarded
<1>6. Headless(r)
  BY <1>2, <1>3, <1>5 DEF ChainInv, GuardInv
<1> QED
  BY <1>3, <1>5, <1>6 DEF ChainInv, GuardInv, RootOf

\* A step that changes one sector at most, and neither takes it from the file nor adds it
\* to it, leaves the file alone.
LEMMA OneSectorElsewhere ==
  ASSUME NEW f \in FileId, FileProtected(f), NEW x \in Sector,
         header[x].file_id # f, header'[x].file_id # f,
         \A t \in Sector : t # x =>
           header'[t] = header[t] /\ session'[t] = session[t] /\ data'[t] = data[t]
  PROVE  Untouched(f)
<1>1. sectors_of(header, f)' = sectors_of(header, f)
  BY DEF sectors_of
<1>2. \A t \in sectors_of(header, f) :
        /\ header'[t] = header[t] /\ session'[t] = session[t] /\ data'[t] = data[t]
  BY DEF sectors_of
<1>3. \A s : parents(header, f, s)' = parents(header, f, s)
  BY <1>1, <1>2 DEF parents
<1>4. RootsOf(f)' = RootsOf(f)
  BY <1>1, <1>3 DEF RootsOf
<1>5. FileProtected(f)'
  <2>1. PICK r \in RootsOf(f) : is_protected(header[r].file_protect)
    BY DEF FileProtected
  <2>2. is_protected(header'[r].file_protect)
    BY <1>2, <2>1 DEF RootsOf
  <2> QED
    BY <1>4, <2>1, <2>2 DEF FileProtected
<1> QED
  BY <1>2, <1>5 DEF Untouched

\* A step that leaves the flash alone leaves every file alone.
LEMMA FlashKept ==
  ASSUME NEW f, FileProtected(f), UNCHANGED flashVars
  PROVE  Untouched(f)
BY DEF Untouched, FileProtected, RootsOf, sectors_of, parents, flashVars

\* The steps of calls that write to a handle's file do not write to a protected one.
LEMMA WritersElsewhere ==
  ASSUME IInv, TableInv, TableInv', ChainInv, NEW f \in FileId, FileProtected(f),
         WriteNext \/ WriteFileInfo \/ FlushPageCache \/ UpdateSessionOffset \/ WritePage
  PROVE  Untouched(f)
<1>1. /\ OnHandle /\ pc # "unmounted" /\ call.op # "format" /\ pc' # "unmounted"
      /\ UNCHANGED alloc_unit_list
  BY NotFormatting DEF WriteNext, WriteFileInfo, FlushPageCache, UpdateSessionOffset,
    WritePage, OnHandle, Erasing, Return, Goto, ramVars
<1>2. PICK g \in HandleId : g = call.handle /\ Open_(g) /\ Cur = Hd(g) /\ Cur \in Handle
  BY <1>1, CurHandle
<1>3. /\ header \in [Sector -> Header] /\ session \in [Sector -> [Slot -> Nil(Offset)]]
      /\ data \in [Sector -> [Cell -> Byte]] /\ None \notin FileId
      /\ \A s \in Sector : FileOf(s)' = FileOf(s)
  BY <1>1, SameTable, TableType DEF IInv, TypeOK
<1>4. Cur.writeable => Cur.file_id # f
  BY <1>1, <1>2, ProtectedFile
<1>5. ASSUME NEW x \in Sector, FileOf(x) # f,
             \A t \in Sector : t # x =>
               header'[t] = header[t] /\ session'[t] = session[t] /\ data'[t] = data[t]
      PROVE  Untouched(f)
  <2>1. header[x].file_id # f
    BY <1>3, <1>5, HeaderFile
  <2>2. header'[x].file_id \in {None, FileOf(x)'}
    <3>1. header'[x] = InFlash(x)'
      BY <1>1 DEF TableInv, MirrorInv
    <3>2. Table'[x] = alloc_unit_list'[x]
      BY <1>1 DEF Table
    <3> QED
      BY <3>1, <3>2 DEF InFlash, FileOf, ErasedHeader, None
  <2> QED
    BY <1>3, <1>5, <2>1, <2>2, OneSectorElsewhere
<1>6. CASE WriteNext \/ WriteFileInfo
  <2>1. Growing /\ GrowInv
    BY <1>6 DEF WriteNext, WriteFileInfo, Growing, TableInv, PathInv
  <2>2. Cur.writeable
    <3>1. call.op \in {"open", "write"}
      BY <2>1 DEF IInv, CallInv, Growing
    <3>2. call.op = "write" => Cur.writeable
      BY <1>1 DEF IInv, CallInv
    <3>3. call.op = "open" => Cur.writeable
      BY <1>2 DEF TableInv, PlaceInv, Opening
    <3> QED
      BY <3>1, <3>2, <3>3
  <2>3. CASE WriteNext
    <3>1. PICK x : x = Cur.curr_allocation_unit
      OBVIOUS
    <3>2. FileOf(x) = Cur.file_id
      BY <2>1, <2>3, <3>1 DEF GrowInv, WriteNext
    <3>3. x \in Sector
      <4>1. HandleInv(g) /\ ~ Opening(g)
        BY <1>2, <2>1, <2>3 DEF IInv, Opening, GrowInv, WriteNext
      <4> QED
        BY <1>2, <3>1, <4>1 DEF HandleInv, Hd
    <3>4. \A t \in Sector : t # x =>
            header'[t] = header[t] /\ session'[t] = session[t] /\ data'[t] = data[t]
      BY <1>3, <2>3, <3>1 DEF WriteNext
    <3> QED
      BY <1>4, <1>5, <2>2, <3>2, <3>3, <3>4
  <2>4. CASE WriteFileInfo
    <3>1. PICK x \in Sector : x = call.sector
      BY <2>4 DEF WriteFileInfo, IInv, CallInv
    <3>2. FileOf(x) = Cur.file_id
      BY <2>1, <3>1 DEF GrowInv
    <3>3. \A t \in Sector : t # x =>
            header'[t] = header[t] /\ session'[t] = session[t] /\ data'[t] = data[t]
      BY <1>3, <2>4, <3>1 DEF WriteFileInfo
    <3> QED
      BY <1>4, <1>5, <2>2, <3>1, <3>2, <3>3
  <2> QED
    BY <1>6, <2>3, <2>4
<1>7. CASE FlushPageCache \/ UpdateSessionOffset \/ WritePage
  <2>1. Writing
    BY <1>7 DEF FlushPageCache, UpdateSessionOffset, WritePage, Writing
  <2>2. PICK x \in Sector : x = Cur.curr_allocation_unit /\ FileOf(x) = Cur.file_id
                            /\ Cur.writeable
    BY <1>1, <2>1, WriterAlone
  <2>3. \A t \in Sector : t # x =>
          header'[t] = header[t] /\ session'[t] = session[t] /\ data'[t] = data[t]
    <3>1. CASE FlushPageCache
      BY <2>2, <3>1, ProgramDataElsewhere DEF FlushPageCache
    <3>2. CASE WritePage
      BY <2>2, <3>2, ProgramDataElsewhere DEF WritePage
    <3>3. CASE UpdateSessionOffset
      BY <1>3, <2>2, <3>3 DEF UpdateSessionOffset
    <3> QED
      BY <1>7, <3>1, <3>2, <3>3
  <2> QED
    BY <1>4, <1>5, <2>2, <2>3
<1> QED
  BY <1>6, <1>7

\* Nor is a sector of a protected file erased.
LEMMA ErasuresElsewhere ==
  ASSUME IInv, TableInv, ChainInv, NEW f \in FileId, FileProtected(f), call.op # "format",
         EraseBlock \/ Recycled \/ RemoveNext
  PROVE  Untouched(f)
<1>1. /\ pc \in {"erase_block", "write_counter"} /\ Erasing
      /\ header \in [Sector -> Header] /\ session \in [Sector -> [Slot -> Nil(Offset)]]
      /\ data \in [Sector -> [Cell -> Byte]] /\ None \notin FileId
  BY TableType DEF EraseBlock, Recycled, RemoveNext, WriteCounter, Erasing, IInv, TypeOK
<1>2. PICK x \in Sector : x = call.sector
  BY <1>1 DEF IInv, CallInv
<1>3. CASE EraseBlock
  <2>1. pc = "erase_block" /\ call.op \in {"write", "remove"}
    BY <1>1, <1>3 DEF EraseBlock, TableInv, PathInv, EraseInv
  <2>2. FileOf(x) # f
    <3>1. CASE call.op = "remove"
      <4>1. FileOf(x) = call.file
        BY <1>2, <2>1, <3>1 DEF TableInv, PathInv, EraseInv, RootOf
      <4> QED
        BY <1>1, <3>1, <4>1, ProtectedFile
    <3>2. CASE call.op = "write"
      <4>1. PICK g \in HandleId : g = call.handle /\ Open_(g) /\ Cur = Hd(g)
        BY <2>1, <3>2, CurHandle DEF OnHandle
      <4>2. Cur.writeable /\ Placed(g)
        BY <2>1, <3>2, <4>1 DEF IInv, CallInv, OnHandle, Placed, Opening, Moving, Growing
      <4>3. x = Cur.root_allocation_unit
        BY <1>1, <1>2, <3>2 DEF TableInv, PathInv, EraseInv
      <4>4. FileOf(x) = Cur.file_id
        BY <4>1, <4>2, <4>3 DEF TableInv, PlaceInv, RootOf
      <4> QED
        BY <2>1, <3>2, <4>1, <4>2, <4>4, ProtectedFile
    <3> QED
      BY <2>1, <3>1, <3>2
  <2>3. header[x].file_id # f
    BY <1>1, <2>2, HeaderFile
  <2>4. /\ header' = [header EXCEPT ![x] = ErasedHeader]
        /\ session' = [session EXCEPT ![x] = ErasedSessions]
        /\ data' = [data EXCEPT ![x] = ErasedData]
    BY <1>2, <1>3 DEF EraseBlock
  <2>5. header'[x].file_id # f
    BY <1>1, <2>4 DEF ErasedHeader, None
  <2>6. \A t \in Sector : t # x =>
          header'[t] = header[t] /\ session'[t] = session[t] /\ data'[t] = data[t]
    BY <1>1, <2>4
  <2> QED
    BY <2>3, <2>5, <2>6, OneSectorElsewhere
<1>4. CASE Recycled \/ RemoveNext
  <2>1. WriteCounter /\ UNCHANGED <<session, data>>
    BY <1>4 DEF Recycled, RemoveNext
  <2>2. PICK c : header' = [header EXCEPT ![x].alloc_counter = c]
    BY <1>2, <2>1 DEF WriteCounter
  <2>3. header[x] = ErasedHeader
    BY <1>2, <2>1 DEF WriteCounter, TableInv, MirrorInv, InFlash
  <2>4. header'[x].file_id = None /\ header[x].file_id = None
    BY <1>1, <2>2, <2>3 DEF ErasedHeader, None
  <2>5. \A t \in Sector : t # x =>
          header'[t] = header[t] /\ session'[t] = session[t] /\ data'[t] = data[t]
    BY <1>1, <2>1, <2>2
  <2> QED
    BY <1>1, <2>4, <2>5, OneSectorElsewhere
<1> QED
  BY <1>3, <1>4

\* protect finds nothing to do for a protected file.
LEMMA ProtectElsewhere ==
  ASSUME IInv, TableInv, ChainInv, NEW f \in FileId, FileProtected(f), SetProtection("protect")
  PROVE  Untouched(f)
<1>1. /\ AtRoot("protect") /\ call.sector # None /\ pc = "find_file_root"
      /\ call.op # "format" /\ None \notin FileId
      /\ header \in [Sector -> Header] /\ UNCHANGED <<session, data>>
  BY TableType DEF SetProtection, AtRoot, None, IInv, TypeOK
<1>2. PICK x \in Sector : x = call.sector /\ RootOf(x, call.file)
  BY <1>1, RootReached DEF RootOf
<1>3. PICK r \in Sector : RootOf(r, f) /\ Guarded(r)
  BY <1>1, ProtectedFile
<1>4. CASE FileOf(x) = f
  <2>1. x = r
    BY <1>1, <1>2, <1>3, <1>4 DEF ChainInv, ShapeInv, SameFile, RootOf
  <2>2. Protected(call.sector) = TRUE
    <3>1. Table = alloc_unit_list
      BY <1>1 DEF Table
    <3> QED
      BY <1>2, <1>3, <2>1, <3>1 DEF Protected, Guarded, is_protected
  <2>3. header' = header
    BY <2>2 DEF SetProtection
  <2> QED
    BY <1>1, <2>3, FlashKept DEF flashVars
<1>5. CASE FileOf(x) # f
  <2>1. \/ header' = header
        \/ \E bits : header' = [header EXCEPT ![x].file_protect = bits]
    BY <1>2 DEF SetProtection
  <2>2. header'[x].file_id = header[x].file_id
    BY <1>1, <2>1 DEF Header
  <2>3. \A t \in Sector : t # x => header'[t] = header[t]
    BY <1>1, <2>1
  <2>4. header[x].file_id # f
    BY <1>1, <1>5, HeaderFile
  <2> QED
    BY <1>1, <2>2, <2>3, <2>4, OneSectorElsewhere
<1> QED
  BY <1>4, <1>5

\* A file found protected keeps its data, its chain and its protection at every step of
\* every call but unprotect and format: neither a writer nor a removal nor the recycling
\* of a sector ever reaches it (check_file_flags, remove, protect).
THEOREM ProtectedStaysUntouched ==
  ASSUME Liberties = {}
  PROVE  Spec => ProtectedUntouched
<1>1. IInv /\ TableInv /\ TableInv' /\ ChainInv /\ [Next]_vars =>
        [call.op \notin {"unprotect", "format"} =>
           \A f \in FileId : FileProtected(f) =>
             /\ FileProtected(f)'
             /\ \A s \in sectors_of(header, f) :
                  /\ data'[s] = data[s] /\ session'[s] = session[s]
                  /\ header'[s].next_allocation_unit = header[s].next_allocation_unit]_vars
  <2> SUFFICES ASSUME IInv, TableInv, TableInv', ChainInv, [Next]_vars,
                      call.op \notin {"unprotect", "format"},
                      NEW f \in FileId, FileProtected(f)
               PROVE  Untouched(f)
    BY DEF Untouched
  <2>1. CASE UNCHANGED flashVars
    BY <2>1, FlashKept
  <2>2. CASE WriteNext \/ WriteFileInfo \/ FlushPageCache \/ UpdateSessionOffset \/ WritePage
    BY <2>2, WritersElsewhere
  <2>3. CASE EraseBlock \/ Recycled \/ RemoveNext
    BY <2>3, ErasuresElsewhere
  <2>4. CASE \E op \in {"protect", "unprotect"} : SetProtection(op)
    <3>1. SetProtection("protect")
      BY <2>4 DEF SetProtection, AtRoot
    <3> QED
      BY <3>1, ProtectElsewhere
  <2>5. CASE FormatNext
    BY <2>5 DEF FormatNext
  <2>6. CASE Client
    <3>1. UNCHANGED flashVars
      BY <2>6 DEF Client, Mount, Unmount, Format, Remove, Protect, Unprotect,
        ChangeProtection, Open, BeginOnFile, Close, Flush, InvalidHandle, Write, Read
    <3> QED
      BY <3>1, FlashKept
  <2>7. CASE Step
    <3>1. CASE \/ ClimbToRoot \/ FileMissing \/ OpenRefused \/ OpenForReading
               \/ OpenForWriting \/ OpenNewFile \/ FollowChain \/ OpenAtEnd
               \/ AllocateFree \/ RecycleRoot \/ AllocateFails
               \/ WriteDone \/ WriteToFullSector \/ FillCache
               \/ ReadDone \/ ReadNextSector \/ ReadBytes \/ RemoveRefused \/ RemoveRoot
      <4>1. UNCHANGED flashVars
        BY <3>1 DEF ClimbToRoot, FileMissing, OpenRefused, OpenForReading,
          OpenForWriting, OpenNewFile, FollowChain, OpenAtEnd, AllocateFree, RecycleRoot,
          AllocateFails, WriteDone, WriteToFullSector, FillCache, ReadDone,
          ReadNextSector, ReadBytes, RemoveRefused, RemoveRoot, flashVars
      <4> QED
        BY <4>1, FlashKept
    <3> QED
      BY <2>2, <2>3, <2>4, <2>5, <2>7, <3>1 DEF Step
  <2> QED
    BY <2>1, <2>6, <2>7 DEF Next, vars
<1> QED
  BY <1>1, Invariant, TableInvariant, ChainInvariant, PTL DEF Spec, ProtectedUntouched
=============================================================================
