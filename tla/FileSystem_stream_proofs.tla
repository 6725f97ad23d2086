----------------------- MODULE FileSystem_stream_proofs -----------------------
(***************************************************************************)
(* The streams, proved for every size of device and any number of handles  *)
(* of orderly clients: the bytes in flash and in the caches are those that *)
(* were accepted, each at its place; the sectors of a chain hold           *)
(* consecutive parts of the stream of their file, up to its end.           *)
(***************************************************************************)
EXTENDS FileSystem_chain_proofs

(***************************************************************************)
(* The inductive invariant.                                                *)
(***************************************************************************)
Writes(h)      == Placed(h) /\ Hd(h).writeable
WritesTo(h, s) == Writes(h) /\ Hd(h).curr_allocation_unit = s

\* Committed bytes are those of the stream.  Behind them a sector is erased, unless its
\* writer has programmed pages there.
DataInv ==
  \A s \in Sector :
    /\ FileOf(s) # None =>
         \A i \in Cell : i < Committed(s) => data[s][i] = Payload(FileOf(s), origin[s] + i)
    /\ (\A h \in HandleId : ~ WritesTo(h, s)) =>
         \A i \in Cell : i >= Committed(s) => data[s][i] = ERASED

\* What a writer has accepted in its sector is in flash up to last_data_offset and in the
\* cache from there to curr_data_offset, where the stream ends.
CacheInv(h) ==
  LET hd == Hd(h)
      s  == hd.curr_allocation_unit
  IN  Writes(h) =>
        /\ \A i \in Cell : data[s][i] = IF i < hd.last_data_offset
                                          THEN Payload(hd.file_id, origin[s] + i) ELSE ERASED
        /\ \A i \in PageIdx : i < cached_bytes(hd) =>
             hd.page_cache[i] = Payload(hd.file_id, origin[s] + hd.last_data_offset + i)
        /\ origin[s] + hd.curr_data_offset = stream[hd.file_id]

\* A file that is being removed, or whose writer is between two sectors.
Removing(f) == call.op = "remove" /\ Erasing /\ call.file = f
Busy(f) ==
  \/ Removing(f)
  \/ /\ call.op \in {"open", "write"}
     /\ pc = "write_counter" \/ Growing
     /\ Cur.file_id = f

\* A sector begins where the one that links to it ends,
LinkedInv ==
  call.op # "format" =>
    \A s \in Sector : Link(s) # None =>
      (Growing /\ Link(s) = call.sector) \/ origin[Link(s)] = StreamEnd(s)

\* the last one ends where the stream does, and the first one of a file that has not been
\* recycled begins where the stream does,
EndInv ==
  call.op # "format" =>
    \A s \in Sector : FileOf(s) # None =>
      /\ Link(s) = None =>
           \/ Busy(FileOf(s))
           \/ \E h \in HandleId : WritesTo(h, s)
           \/ StreamEnd(s) = stream[FileOf(s)]
      /\ Headless(s) /\ ~ Table[s].circular =>
           Removing(FileOf(s)) \/ (Growing /\ s = call.sector) \/ origin[s] = 0

\* also for a sector about to be added.
GrowthInv ==
  /\ call.op = "write" /\ pc = "write_counter" /\ call.sector # Cur.curr_allocation_unit =>
       StreamEnd(Cur.curr_allocation_unit) = stream[Cur.file_id]
  /\ Growing =>
       /\ call.op = "write" =>
            \A p \in Sector : Link(p) = call.sector => StreamEnd(p) = stream[Cur.file_id]
       /\ call.op = "open" => Headless(call.sector)
       /\ Headless(call.sector) => call.op = "open" \/ Table[call.sector].circular

MountedInv == pc = "unmounted" => \A h \in HandleId : ~ Open_(h)

StreamInv ==
  /\ DataInv
  /\ \A h \in HandleId : CacheInv(h)
  /\ LinkedInv /\ EndInv /\ GrowthInv /\ MountedInv

-----------------------------------------------------------------------------
(***************************************************************************)
(* Steps that neither store bytes nor move a writer.                       *)
(***************************************************************************)
SameWriter(h) == /\ Writes(h)' <=> Writes(h)
                 /\ Writes(h) => Hd(h)' = Hd(h)

\* What is stored stays right while the writers stay where they are.
LEMMA StoredKept ==
  ASSUME StreamInv, UNCHANGED <<session, data, origin>>,
         \A h \in HandleId : Writes(h) => stream'[Hd(h).file_id] = stream[Hd(h).file_id],
         \A s \in Sector : FileOf(s)' = FileOf(s),
         \A h \in HandleId : SameWriter(h)
  PROVE  /\ DataInv' /\ (\A h \in HandleId : CacheInv(h))'
         /\ \A s \in Sector : StreamEnd(s)' = StreamEnd(s)
         /\ \A h \in HandleId : \A s \in Sector : WritesTo(h, s)' <=> WritesTo(h, s)
<1>1. \A s \in Sector : Committed(s)' = Committed(s) /\ StreamEnd(s)' = StreamEnd(s)
  BY DEF Committed, StreamEnd
<1>2. \A h \in HandleId : \A s \in Sector : WritesTo(h, s)' <=> WritesTo(h, s)
  BY DEF WritesTo, SameWriter
<1>3. DataInv'
  <2> SUFFICES ASSUME NEW s \in Sector
               PROVE  /\ FileOf(s)' # None =>
                           \A i \in Cell : i < Committed(s)' =>
                             data'[s][i] = Payload(FileOf(s)', origin'[s] + i)
                      /\ (\A h \in HandleId : ~ WritesTo(h, s)') =>
                           \A i \in Cell : i >= Committed(s)' => data'[s][i] = ERASED
    BY DEF DataInv
  <2> QED
    BY <1>1, <1>2 DEF StreamInv, DataInv
<1>4. ASSUME NEW h \in HandleId PROVE CacheInv(h)'
  <2>1. CASE Writes(h)'
    <3>1. Writes(h) /\ Hd(h)' = Hd(h)
      BY <2>1 DEF SameWriter
    <3> QED
      BY <3>1 DEF StreamInv, CacheInv
  <2>2. CASE ~ Writes(h)'
    BY <2>2 DEF CacheInv
  <2> QED
    BY <2>1, <2>2
<1> QED
  BY <1>1, <1>2, <1>3, <1>4

\* So do the chains, while a call that is between two sectors of a file stays there.
LEMMA StreamKept ==
  ASSUME StreamInv, UNCHANGED <<session, data, origin, stream>>,
         \A s \in Sector : /\ FileOf(s)' = FileOf(s) /\ Link(s)' = Link(s)
                           /\ Table'[s].circular = Table[s].circular,
         \A h \in HandleId : SameWriter(h),
         \A f : (\E s \in Sector : FileOf(s) = f) =>
           (Busy(f) => Busy(f)') /\ (Removing(f) => Removing(f)'),
         call.op = "format" => call'.op = "format",
         Growing <=> Growing', Growing => UNCHANGED <<call, Cur>>,
         Growing => call.sector \in Sector,
         pc' # "write_counter",
         pc' = "unmounted" => \A h \in HandleId : ~ Open_(h)'
  PROVE  StreamInv'
<1>1. /\ DataInv' /\ (\A h \in HandleId : CacheInv(h))'
      /\ \A s \in Sector : StreamEnd(s)' = StreamEnd(s)
      /\ \A h \in HandleId : \A s \in Sector : WritesTo(h, s)' <=> WritesTo(h, s)
  BY StoredKept
<1>2. \A s \in Sector : Headless(s)' <=> Headless(s)
  BY DEF Headless
<1>3. ASSUME call'.op # "format", NEW s \in Sector, Link(s)' # None
      PROVE  (Growing' /\ Link(s)' = call'.sector) \/ origin'[Link(s)'] = StreamEnd(s)'
  <2>1. (Growing /\ Link(s) = call.sector) \/ origin[Link(s)] = StreamEnd(s)
    BY <1>3 DEF StreamInv, LinkedInv
  <2> QED
    BY <1>1, <2>1
<1>4. LinkedInv'
  BY <1>3 DEF LinkedInv
<1>5. ASSUME call'.op # "format", NEW s \in Sector, NEW f, f = FileOf(s), f # None
      PROVE  /\ Link(s)' = None =>
                  \/ Busy(f)'
                  \/ \E h \in HandleId : WritesTo(h, s)'
                  \/ StreamEnd(s)' = stream'[f]
             /\ Headless(s)' /\ ~ Table'[s].circular =>
                  Removing(f)' \/ (Growing' /\ s = call'.sector) \/ origin'[s] = 0
  <2>1. /\ Link(s) = None =>
             Busy(f) \/ (\E h \in HandleId : WritesTo(h, s)) \/ StreamEnd(s) = stream[f]
        /\ Headless(s) /\ ~ Table[s].circular =>
             Removing(f) \/ (Growing /\ s = call.sector) \/ origin[s] = 0
    <3>1. call.op # "format" /\ FileOf(s) # None
      BY <1>5
    <3> QED
      BY <1>5, <3>1 DEF StreamInv, EndInv, Busy, Removing
  <2>2. (Busy(f) => Busy(f)') /\ (Removing(f) => Removing(f)')
    BY <1>5
  <2> QED
    BY <1>1, <1>2, <2>1, <2>2
<1>6. EndInv'
  <2> SUFFICES ASSUME call'.op # "format", NEW s \in Sector, FileOf(s)' # None
               PROVE  /\ Link(s)' = None =>
                           \/ Busy(FileOf(s))'
                           \/ \E h \in HandleId : WritesTo(h, s)'
                           \/ StreamEnd(s)' = stream'[FileOf(s)']
                      /\ Headless(s)' /\ ~ Table'[s].circular =>
                           Removing(FileOf(s))' \/ (Growing' /\ s = call'.sector)
                             \/ origin'[s] = 0
    BY DEF EndInv
  <2>1. PICK f : f = FileOf(s) /\ f = FileOf(s)' /\ f # None
    OBVIOUS
  <2>2. (Busy(f)' => Busy(FileOf(s))') /\ (Removing(f)' => Removing(FileOf(s))')
    BY <2>1 DEF Busy, Removing
  <2> QED
    BY <1>5, <2>1, <2>2
<1>7. GrowthInv'
  <2>1. SUFFICES ASSUME Growing'
                 PROVE  /\ call'.op = "write" =>
                             \A p \in Sector : Link(p)' = call'.sector =>
                               StreamEnd(p)' = stream'[Cur'.file_id]
                        /\ call'.op = "open" => Headless(call.sector)'
                        /\ Headless(call.sector)' =>
                             call'.op = "open" \/ Table'[call'.sector].circular
    BY DEF GrowthInv
  <2>2. PICK c \in Sector : c = call.sector /\ c = call'.sector
    BY <2>1
  <2>3. Headless(call.sector)' <=> Headless(c)'
    BY <2>2 DEF Headless
  <2>4. /\ call.op = "write" => \A p \in Sector : Link(p) = c => StreamEnd(p) = stream[Cur.file_id]
        /\ call.op = "open" => Headless(c)
        /\ Headless(c) => call.op = "open" \/ Table[c].circular
    BY <2>1, <2>2 DEF StreamInv, GrowthInv
  <2> QED
    BY <1>1, <1>2, <2>1, <2>2, <2>3, <2>4
<1>8. MountedInv'
  BY DEF MountedInv
<1> QED
  BY <1>1, <1>4, <1>6, <1>7, <1>8 DEF StreamInv

\* Between the calls' steps that erase or add a sector nothing is busy.
LEMMA StreamRests ==
  ASSUME TableInv, StreamInv, UNCHANGED <<session, data, origin, stream, alloc_unit_list>>,
         pc # "unmounted", ~ Erasing, ~ Growing,
         pc' \notin {"unmounted", "write_counter", "write_next", "write_file_info"},
         \A h \in HandleId : SameWriter(h)
  PROVE  StreamInv'
<1>1. call.op # "format" /\ (\A f : ~ Busy(f) /\ ~ Removing(f)) /\ ~ Growing'
  BY NotFormatting DEF Busy, Removing, Erasing, Growing
<1>2. Table' = Table
  BY DEF Table
<1>3. \A s \in Sector : /\ FileOf(s)' = FileOf(s) /\ Link(s)' = Link(s)
                        /\ Table'[s].circular = Table[s].circular
  BY <1>2 DEF FileOf, Link
<1> QED
  BY <1>1, <1>3, StreamKept

\* A writer stays one when its handle does, and open takes it for no other call.
LEMMA WritersRest ==
  ASSUME IInv, UNCHANGED fs_priv_handle_list,
         pc \in {"idle", "find_file_root", "write", "flush_page_cache",
                 "update_session_offset", "write_page", "read"},
         ~ Growing', pc' # "write_counter",
         \A h \in HandleId : ~ Opening(h)'
  PROVE  \A h \in HandleId : SameWriter(h)
<1>1. \A h \in HandleId : ~ Opening(h) /\ ~ Moving(h)
  BY AllPlaced
<1>2. \A h \in HandleId : ~ Moving(h)'
  BY DEF Moving
<1> QED
  BY <1>1, <1>2 DEF SameWriter, Writes, Placed, Open_, Hd

\* Calls begin, decide and return.
LEMMA CallsStream ==
  ASSUME IInv, TableInv, StreamInv,
         \/ ClimbToRoot
         \/ \E f, m : \E op \in Op : BeginOnFile(op, f, m)
         \/ FileMissing \/ OpenRefused \/ RemoveRefused
         \/ WriteDone \/ ReadDone \/ WriteToFullSector
  PROVE  StreamInv'
<1>1. /\ UNCHANGED <<session, data, origin, stream, alloc_unit_list, fs_priv_handle_list>>
      /\ pc \in {"idle", "find_file_root", "write", "read"}
  BY DEF ClimbToRoot, BeginOnFile, FileMissing, OpenRefused, RemoveRefused, WriteDone,
    ReadDone, WriteToFullSector, AtRoot, flashVars, ramVars, ghostVars
<1>2. /\ pc' \in {"idle", "find_file_root", "flush_page_cache", "allocate"}
      /\ call'.handle = FS_PRIV_NOT_ALLOCATED \/ call'.op # "open"
  <2>1. CASE ClimbToRoot
    <3>1. call \in Call /\ call.handle = FS_PRIV_NOT_ALLOCATED /\ pc' = pc
      BY <2>1 DEF ClimbToRoot, IInv, TypeOK, CallInv
    <3>2. PICK up : call' = [call EXCEPT !.sector = up]
      BY <2>1 DEF ClimbToRoot
    <3> QED
      BY <2>1, <3>1, <3>2 DEF ClimbToRoot, Call
  <2>2. CASE \E f, m : \E op \in Op : BeginOnFile(op, f, m)
    BY <2>2 DEF BeginOnFile, Goto, NoCall
  <2>3. CASE WriteToFullSector
    <3>1. call' = call /\ call.op = "write" /\ pc' \in {"flush_page_cache", "allocate"}
      BY <2>3 DEF WriteToFullSector, Goto, IInv, CallInv
    <3> QED
      BY <3>1
  <2>4. CASE FileMissing \/ OpenRefused \/ RemoveRefused \/ WriteDone \/ ReadDone
    BY <2>4 DEF FileMissing, OpenRefused, RemoveRefused, WriteDone, ReadDone, Return, Goto,
      NoCall
  <2> QED
    BY <2>1, <2>2, <2>3, <2>4
<1>3. \A h \in HandleId : ~ Opening(h)'
  BY <1>2, HandleIdIsNatural DEF Opening
<1>4. ~ Growing' /\ ~ Erasing /\ ~ Growing
  BY <1>1, <1>2 DEF Growing, Erasing
<1>5. \A h \in HandleId : SameWriter(h)
  BY <1>1, <1>2, <1>3, <1>4, WritersRest
<1> QED
  BY <1>1, <1>2, <1>4, <1>5, StreamRests DEF Growing

\* The calls on handles; those that change nothing yet.
LEMMA HandleCallsStream ==
  ASSUME IInv, TableInv, StreamInv, NEW h \in HandleId,
         \/ Flush(h) \/ InvalidHandle(h)
         \/ \E n \in WriteSizes : Write(h, n)
         \/ \E n \in ReadSizes : Read(h, n)
         \/ Close(h) /\ UNCHANGED fs_priv_handle_list
  PROVE  StreamInv'
<1>1. /\ UNCHANGED <<session, data, origin, stream, alloc_unit_list, fs_priv_handle_list>>
      /\ pc = "idle"
  BY DEF Flush, InvalidHandle, Write, Read, Close, flashVars, ramVars, ghostVars
<1>2. /\ pc' \in {"idle", "flush_page_cache", "write", "read"}
      /\ call'.op # "open"
  <2>1. \/ \E code : Return(code)
        \/ \E n : \/ BeginOnHandle("flush", h, "flush_page_cache", n)
                 \/ BeginOnHandle("close", h, "flush_page_cache", n)
                 \/ BeginOnHandle("write", h, "write", n)
                 \/ BeginOnHandle("read", h, "read", n)
    BY DEF Flush, InvalidHandle, Write, Read, Close
  <2>2. ASSUME NEW code, Return(code)
        PROVE  pc' = "idle" /\ call'.op = "none"
    BY <2>2 DEF Goto, Return, NoCall
  <2>3. ASSUME NEW op, NEW label, NEW n, BeginOnHandle(op, h, label, n)
        PROVE  pc' = label /\ call'.op = op
    BY <2>3 DEF BeginOnHandle, Goto, NoCall
  <2>4. CASE \E code : Return(code)
    BY <2>2, <2>4
  <2>5. CASE \E n : \/ BeginOnHandle("flush", h, "flush_page_cache", n)
                   \/ BeginOnHandle("close", h, "flush_page_cache", n)
                   \/ BeginOnHandle("write", h, "write", n)
                   \/ BeginOnHandle("read", h, "read", n)
    <3>1. /\ pc' \in {"flush_page_cache", "write", "read"}
          /\ call'.op \in {"flush", "close", "write", "read"}
      BY <2>3, <2>5
    <3> QED
      BY <3>1
  <2> QED
    BY <2>1, <2>4, <2>5
<1>3. ~ Growing' /\ ~ Erasing /\ ~ Growing /\ \A g \in HandleId : ~ Opening(g)'
  BY <1>1, <1>2 DEF Growing, Erasing, Opening
<1>4. \A g \in HandleId : SameWriter(g)
  BY <1>1, <1>2, <1>3, WritersRest
<1> QED
  BY <1>1, <1>2, <1>3, <1>4, StreamRests DEF Growing

\* One handle changes that is no writer in its place, before or after.
LEMMA OneHandleRests ==
  ASSUME TypeOK, NEW g \in HandleId, NEW hd, SetHandle(g, hd),
         ~ Writes(g), ~ Writes(g)',
         \A h \in HandleId : h # g => (Opening(h)' <=> Opening(h)) /\ (Moving(h)' <=> Moving(h))
  PROVE  \A h \in HandleId : SameWriter(h)
<1> SUFFICES ASSUME NEW h \in HandleId
             PROVE  SameWriter(h)
  OBVIOUS
<1>1. CASE h = g
  BY <1>1 DEF SameWriter
<1>2. CASE h # g
  <2>1. Hd(h)' = Hd(h)
    BY <1>2 DEF SetHandle, Hd, TypeOK
  <2> QED
    BY <1>2, <2>1 DEF SameWriter, Writes, Placed, Open_, Hd
<1> QED
  BY <1>1, <1>2

\* Readers open, and move from byte to byte and from sector to sector.
LEMMA ReadersStream ==
  ASSUME IInv, TableInv, StreamInv, OpenForReading \/ ReadNextSector \/ ReadBytes
  PROVE  StreamInv'
<1>1. /\ UNCHANGED <<session, data, origin, stream, alloc_unit_list>>
      /\ pc \in {"find_file_root", "read"} /\ pc' \in {"idle", "read"} /\ call'.op # "open"
  <2>1. CASE OpenForReading
    BY <2>1 DEF OpenForReading, OpenAccepted, AtRoot, Return, Goto, NoCall, flashVars, ghostVars
  <2>2. CASE ReadNextSector \/ ReadBytes
    <3>1. /\ UNCHANGED <<session, data, origin, stream, alloc_unit_list>>
          /\ pc = "read" /\ pc' = "read" /\ call.op = "read" /\ call \in Call
      BY <2>2 DEF ReadNextSector, ReadBytes, flashVars, ghostVars, IInv, CallInv, TypeOK
    <3>2. call' = call \/ \E n : call' = [call EXCEPT !.size = @ - n, !.done = @ + n]
      BY <2>2 DEF ReadNextSector, ReadBytes
    <3> QED
      BY <3>1, <3>2 DEF Call
  <2> QED
    BY <2>1, <2>2
<1>2. /\ ~ Growing' /\ ~ Erasing /\ ~ Growing
      /\ \A h \in HandleId : ~ Opening(h)' /\ ~ Moving(h)' /\ ~ Opening(h) /\ ~ Moving(h)
  BY <1>1, AllPlaced DEF Growing, Erasing, Opening, Moving
<1>3. \E g \in HandleId : \E hd : SetHandle(g, hd) /\ ~ Writes(g) /\ ~ Writes(g)'
  <2>1. CASE OpenForReading
    <3>1. PICK g : g = Min(FreeHandles)
      OBVIOUS
    <3>2. PICK hd : hd = [OpenedHandle EXCEPT
                            !.curr_allocation_unit = call.sector,
                            !.last_data_offset = session_end(session[call.sector])]
      OBVIOUS
    <3>3. OpenAccepted /\ ~ call.mode.writeable
      BY <2>1 DEF OpenForReading
    <3>4. g \in HandleId /\ ~ Open_(g) /\ ~ hd.writeable
      BY <3>1, <3>2, <3>3, OpenTakesFree DEF Handle
    <3>5. SetHandle(g, hd)
      BY <2>1, <3>1, <3>2 DEF OpenForReading
    <3>6. Hd(g)' = hd
      BY <3>4, <3>5 DEF SetHandle, Hd, IInv, TypeOK
    <3> QED
      BY <3>4, <3>5, <3>6 DEF Writes, Placed
  <2>2. CASE ReadNextSector \/ ReadBytes
    <3>1. pc = "read" /\ OnHandle /\ ~ Cur.writeable
      BY <2>2 DEF ReadNextSector, ReadBytes, OnHandle, IInv, CallInv
    <3>2. PICK g \in HandleId : g = call.handle /\ Cur = Hd(g) /\ Cur \in Handle
      BY <3>1, CurHandle
    <3>3. PICK hd : SetHandle(g, hd) /\ ~ hd.writeable
      <4>1. CASE ReadNextSector
        <5>1. PICK s, e : SetHandle(g, [Cur EXCEPT !.curr_allocation_unit = s,
                                                   !.last_data_offset = e,
                                                   !.curr_data_offset = 0])
          BY <3>2, <4>1 DEF ReadNextSector
        <5> DEFINE hd == [Cur EXCEPT !.curr_allocation_unit = s, !.last_data_offset = e,
                                     !.curr_data_offset = 0]
        <5>2. SetHandle(g, hd) /\ ~ hd.writeable
          BY <3>1, <3>2, <5>1 DEF Handle
        <5> QED
          BY <5>2
      <4>2. CASE ReadBytes
        <5>1. PICK n : SetHandle(g, [Cur EXCEPT !.curr_data_offset = @ + n])
          BY <3>2, <4>2 DEF ReadBytes
        <5> DEFINE hd == [Cur EXCEPT !.curr_data_offset = @ + n]
        <5>2. SetHandle(g, hd) /\ ~ hd.writeable
          BY <3>1, <3>2, <5>1 DEF Handle
        <5> QED
          BY <5>2
      <4> QED
        BY <2>2, <4>1, <4>2
    <3>4. Hd(g)' = hd
      BY <3>3 DEF SetHandle, Hd, IInv, TypeOK
    <3> QED
      BY <3>1, <3>2, <3>3, <3>4 DEF Writes
  <2> QED
    BY <2>1, <2>2
<1>4. \A h \in HandleId : SameWriter(h)
  BY <1>2, <1>3, OneHandleRests DEF IInv
<1> QED
  BY <1>1, <1>2, <1>4, StreamRests DEF Growing

\* A new writer is in no sector yet.
LEMMA OpenGoesOnStream ==
  ASSUME IInv, TableInv, StreamInv, OpenForWriting \/ OpenNewFile
  PROVE  StreamInv'
<1>1. OpenAccepted /\ call \in Call
  BY DEF OpenForWriting, OpenNewFile, IInv, TypeOK
<1>2. PICK g \in HandleId : g = Min(FreeHandles) /\ ~ Open_(g)
  BY <1>1, OpenTakesFree
<1>3. /\ UNCHANGED <<session, data, origin, stream, alloc_unit_list>>
      /\ SetHandle(g, OpenedHandle) /\ call' = [call EXCEPT !.handle = g]
      /\ pc' \in {"find_last_allocation_unit", "allocate"}
  BY <1>2 DEF OpenForWriting, OpenNewFile, Goto, flashVars, ghostVars
<1>4. /\ pc = "find_file_root" /\ call.op = "open"
      /\ \A h \in HandleId : ~ Opening(h) /\ ~ Moving(h)
  BY <1>1, OpenTakesFree
<1>5. call'.op = "open" /\ call'.handle = g
  BY <1>1, <1>3, <1>4 DEF Call
<1>6. \A h \in HandleId : (Opening(h)' <=> h = g) /\ ~ Moving(h)'
  BY <1>3, <1>5 DEF Opening, Moving, Growing
<1>7. \A h \in HandleId : SameWriter(h)
  <2>1. ~ Writes(g) /\ ~ Writes(g)'
    BY <1>2, <1>6 DEF Writes, Placed
  <2> QED
    BY <1>3, <1>4, <1>6, <2>1, OneHandleRests DEF IInv
<1> QED
  BY <1>3, <1>4, <1>7, StreamRests DEF Growing, Erasing

\* A reader's handle, or the one of an open that found no sector, is given back.
LEMMA GivenUpStream ==
  ASSUME IInv, TableInv, StreamInv,
         UNCHANGED <<session, data, origin, stream, alloc_unit_list>>,
         NEW g \in HandleId, SetHandle(g, FreeHandle), Return("FS_NO_ERROR")
           \/ Return("FS_ERROR_FILESYSTEM_FULL"),
         \/ pc = "idle" /\ ~ Hd(g).writeable
         \/ pc = "allocate" /\ call.op = "open" /\ g = call.handle
  PROVE  StreamInv'
<1>1. pc' = "idle" /\ call'.op = "none"
  BY DEF Return, Goto, NoCall
<1>2. \A h \in HandleId : /\ ~ Opening(h)' /\ ~ Moving(h)' /\ ~ Moving(h)
                          /\ h # g => ~ Opening(h)
  BY <1>1, AllPlaced DEF Opening, Moving, Growing
<1>3. ~ Writes(g)
  BY DEF Writes, Placed, Opening
<1>4. ~ Writes(g)'
  BY DEF Writes, Placed, Open_, SetHandle, FreeHandle, IInv, TypeOK
<1>5. \A h \in HandleId : SameWriter(h)
  BY <1>2, <1>3, <1>4, OneHandleRests DEF IInv
<1> QED
  BY <1>1, <1>5, StreamRests DEF Growing, Erasing

\* A write that finds no sector returns with what it has accepted.
LEMMA AllocateFailsStream ==
  ASSUME IInv, TableInv, StreamInv, AllocateFails
  PROVE  StreamInv'
<1>1. /\ UNCHANGED <<session, data, origin, stream, alloc_unit_list>> /\ pc = "allocate"
      /\ Return("FS_ERROR_FILESYSTEM_FULL") /\ call.op \in {"open", "write"}
      /\ call.handle \in HandleId
  BY DEF AllocateFails, flashVars, ghostVars, IInv, CallInv, OnHandle
<1>2. CASE call.op = "open"
  <2>1. SetHandle(call.handle, FreeHandle)
    BY <1>2 DEF AllocateFails
  <2> QED
    BY <1>1, <1>2, <2>1, GivenUpStream
<1>3. CASE call.op = "write"
  <2>1. UNCHANGED fs_priv_handle_list
    BY <1>3 DEF AllocateFails
  <2>2. pc' = "idle" /\ call'.op = "none"
    BY <1>1 DEF Return, Goto, NoCall
  <2>3. \A h \in HandleId : /\ ~ Opening(h)' /\ ~ Moving(h)' /\ ~ Opening(h) /\ ~ Moving(h)
    BY <1>1, <1>3, <2>2 DEF Opening, Moving, Growing
  <2>4. \A h \in HandleId : SameWriter(h)
    BY <2>1, <2>3 DEF SameWriter, Writes, Placed, Open_, Hd
  <2> QED
    BY <1>1, <2>2, <2>4, StreamRests DEF Growing, Erasing
<1> QED
  BY <1>1, <1>2, <1>3

\* The walk to the end of a chain, and the turn of a full circular file to its root.
LEMMA TurnsStream ==
  ASSUME IInv, TableInv, StreamInv, FollowChain \/ RecycleRoot
  PROVE  StreamInv'
<1>1. /\ UNCHANGED <<session, data, origin, stream, alloc_unit_list, fs_priv_handle_list>>
      /\ pc \in {"find_last_allocation_unit", "allocate"} /\ call \in Call
      /\ pc' \in {"find_last_allocation_unit", "erase_block"}
  BY DEF FollowChain, RecycleRoot, Goto, flashVars, ramVars, ghostVars, IInv, TypeOK
<1>2. call'.op = call.op /\ call'.handle = call.handle
  <2>1. \/ \E s : call' = [call EXCEPT !.sector = s]
        \/ \E s, n : call' = [call EXCEPT !.sector = s, !.next = n]
    BY DEF FollowChain, RecycleRoot, Goto
  <2> QED
    BY <1>1, <2>1 DEF Call
<1>3. \A h \in HandleId : (Opening(h)' <=> Opening(h)) /\ ~ Moving(h)' /\ ~ Moving(h)
  BY <1>1, <1>2 DEF Opening, Moving, Growing
<1>4. \A h \in HandleId : SameWriter(h)
  BY <1>1, <1>3 DEF SameWriter, Writes, Placed, Open_, Hd
<1> QED
  BY <1>1, <1>4, StreamRests DEF Growing, Erasing

\* The link to a new sector reaches flash; the new sector is still to come.
LEMMA WriteNextStream ==
  ASSUME IInv, TableInv, StreamInv, WriteNext
  PROVE  StreamInv'
<1>1. /\ UNCHANGED <<session, data, origin, stream, alloc_unit_list, fs_priv_handle_list, call>>
      /\ pc = "write_next" /\ pc' = "write_file_info" /\ Growing /\ Growing' /\ Cur' = Cur
      /\ call.op \in {"open", "write"} /\ call.sector \in Sector
  BY DEF WriteNext, ramVars, ghostVars, Growing, Cur, IInv, CallInv
<1>2. \A s \in Sector : /\ FileOf(s)' = FileOf(s) /\ Link(s)' = Link(s)
                        /\ Table'[s].circular = Table[s].circular
  BY <1>1, SameTable
<1>3. \A h \in HandleId : (Opening(h)' <=> Opening(h)) /\ (Moving(h)' <=> Moving(h))
  BY <1>1 DEF Opening, Moving
<1>4. \A h \in HandleId : SameWriter(h)
  BY <1>1, <1>3 DEF SameWriter, Writes, Placed, Open_, Hd
<1>5. \A f : (Busy(f) => Busy(f)') /\ ~ Removing(f)
  BY <1>1 DEF Busy, Removing
<1> QED
  BY <1>1, <1>2, <1>4, <1>5, StreamKept

\* Protection is no part of a stream.
LEMMA SetProtectionStream ==
  ASSUME IInv, TableInv, StreamInv, NEW op \in {"protect", "unprotect"}, SetProtection(op)
  PROVE  StreamInv'
<1>1. /\ AtRoot(op) /\ pc = "find_file_root" /\ call.op = op /\ call.sector # None
      /\ pc' = "idle" /\ call'.op = "none" /\ call'.handle = None
      /\ UNCHANGED <<session, data, origin, stream, fs_priv_handle_list>>
  BY DEF SetProtection, AtRoot, Return, Goto, NoCall, None, ghostVars
<1>2. PICK r \in Sector : r = call.sector
  BY <1>1, RootReached DEF RootOf
<1>3. /\ Table = alloc_unit_list /\ Table' = alloc_unit_list'
      /\ alloc_unit_list \in [Sector -> Header]
  BY <1>1 DEF Table, IInv, TypeOK
<1>4. \/ alloc_unit_list' = alloc_unit_list
      \/ \E bits : alloc_unit_list' = [alloc_unit_list EXCEPT ![r].file_protect = bits]
  BY <1>2 DEF SetProtection
<1>5. \A s \in Sector : /\ FileOf(s)' = FileOf(s) /\ Link(s)' = Link(s)
                        /\ Table'[s].circular = Table[s].circular
  BY <1>3, <1>4 DEF FileOf, Link, Header
<1>6. ~ Growing /\ ~ Growing' /\ (\A f : ~ Busy(f) /\ ~ Removing(f)) /\ call.op # "format"
  BY <1>1 DEF Growing, Busy, Removing, Erasing
<1>7. \A h \in HandleId : ~ Opening(h)'
  BY <1>1 DEF Opening
<1>8. \A h \in HandleId : SameWriter(h)
  BY <1>1, <1>6, <1>7, WritersRest
<1> QED
  BY <1>1, <1>5, <1>6, <1>8, StreamKept

\* Mounting and unmounting happen with no file open.
LEMMA MountStream ==
  ASSUME IInv, TableInv, StreamInv, Liberties = {}, Mount \/ Unmount
  PROVE  StreamInv'
<1>1. /\ pc \in {"idle", "unmounted"} /\ pc' \in {"idle", "unmounted"}
      /\ UNCHANGED <<session, data, origin, stream>>
      /\ header' = header /\ call' = call /\ call.op = "none"
      /\ fs_priv_handle_list' = [h \in HandleId |-> FreeHandle]
  BY DEF Mount, Unmount, flashVars, ghostVars, IInv, CallInv, NoCall
<1>2. Table' = Table
  <2>1. CASE Mount
    BY <2>1 DEF Mount, Table, flashVars
  <2>2. CASE Unmount
    <3>1. alloc_unit_list \in [Sector -> Header] /\ header \in [Sector -> Header]
      BY DEF IInv, TypeOK
    <3>2. \A s \in Sector : header[s] = alloc_unit_list[s]
      BY <2>2 DEF Unmount, TableInv, MirrorInv, InFlash, Growing
    <3>3. header = alloc_unit_list
      BY <3>1, <3>2
    <3> QED
      BY <2>2, <3>3 DEF Unmount, Table, flashVars
  <2> QED
    BY <2>1, <2>2
<1>3. \A s \in Sector : /\ FileOf(s)' = FileOf(s) /\ Link(s)' = Link(s)
                        /\ Table'[s].circular = Table[s].circular
  BY <1>2 DEF FileOf, Link
<1>4. \A h \in HandleId : ~ Open_(h)'
  BY <1>1 DEF Open_, FreeHandle
<1>5. \A h \in HandleId : ~ Open_(h)
  BY DEF Mount, Unmount, StreamInv, MountedInv
<1>6. \A h \in HandleId : SameWriter(h)
  BY <1>4, <1>5 DEF SameWriter, Writes, Placed
<1>7. ~ Growing /\ ~ Growing' /\ \A f : ~ Busy(f) /\ ~ Removing(f)
  BY <1>1 DEF Growing, Busy, Removing, Erasing
<1> QED
  BY <1>1, <1>3, <1>4, <1>6, <1>7, StreamKept

\* format begins: from here on there are no streams.
LEMMA FormatStream ==
  ASSUME IInv, TableInv, StreamInv, Liberties = {}, Format
  PROVE  StreamInv'
<1>1. /\ pc = "idle" /\ pc' = "erase_block" /\ call'.op = "format"
      /\ UNCHANGED <<session, data, origin, alloc_unit_list, fs_priv_handle_list>>
      /\ \A h \in HandleId : ~ Open_(h)
  BY DEF Format, Goto, NoCall, flashVars, ramVars
<1>2. \A h \in HandleId : ~ Writes(h) /\ ~ Writes(h)'
  BY <1>1 DEF Writes, Placed, Open_
<1>3. \A s \in Sector : FileOf(s)' = FileOf(s)
  BY <1>1 DEF FileOf, Table
<1>4. DataInv' /\ (\A h \in HandleId : CacheInv(h))'
  BY <1>1, <1>2, <1>3, StoredKept DEF SameWriter
<1> QED
  BY <1>1, <1>4 DEF StreamInv, LinkedInv, EndInv, GrowthInv, Growing, MountedInv

\* The stream of a file that is removed is gone with the first step of its erasure; nobody
\* has the file open.
LEMMA RemoveRootStream ==
  ASSUME IInv, TableInv, StreamInv, RemoveRoot
  PROVE  StreamInv'
<1>1. /\ AtRoot("remove") /\ pc = "find_file_root" /\ pc' = "erase_block"
      /\ call.op = "remove" /\ call \in Call
      /\ UNCHANGED <<session, data, origin, alloc_unit_list, fs_priv_handle_list>>
  BY DEF RemoveRoot, AtRoot, EraseNext, Goto, flashVars, ramVars, IInv, TypeOK
<1>2. call'.op = "remove" /\ call'.file = call.file
  <2>1. PICK s, n : call' = [call EXCEPT !.sector = s, !.next = n]
    BY DEF RemoveRoot, EraseNext, Goto
  <2> QED
    BY <1>1, <2>1 DEF Call
<1>3. PICK f \in FileId : f = call.file /\ HandlesOn(f) = {}
  BY <1>1, RootReached DEF TableInv, PathInv, SearchInv
<1>4. \A k : k # f => stream'[k] = stream[k]
  <2>1. stream' = [stream EXCEPT ![f] = 0] /\ stream \in [Nil(FileId) -> Nat]
    BY <1>3 DEF RemoveRoot, IInv, TypeOK
  <2> QED
    BY <2>1
<1>5. \A h \in HandleId : SameWriter(h) /\ (Writes(h) => Hd(h).file_id # f)
  <2>1. \A h \in HandleId : ~ Opening(h)' /\ ~ Growing' /\ pc' # "write_counter"
    BY <1>1, <1>2 DEF Opening, Growing
  <2>2. \A h \in HandleId : SameWriter(h)
    BY <1>1, <2>1, WritersRest
  <2>3. \A h \in HandleId : Writes(h) => Hd(h).file_id # f
    BY <1>3 DEF Writes, Placed, HandlesOn, Hd
  <2> QED
    BY <2>2, <2>3
<1>6. \A s \in Sector : /\ FileOf(s)' = FileOf(s) /\ Link(s)' = Link(s)
                        /\ Table'[s].circular = Table[s].circular
                        /\ Headless(s)' <=> Headless(s)
  <2>1. Table' = Table
    BY <1>1 DEF Table
  <2> QED
    BY <2>1 DEF FileOf, Link, Headless
<1>7. /\ DataInv' /\ (\A h \in HandleId : CacheInv(h))'
      /\ \A s \in Sector : StreamEnd(s)' = StreamEnd(s)
      /\ \A h \in HandleId : \A s \in Sector : WritesTo(h, s)' <=> WritesTo(h, s)
  BY <1>1, <1>4, <1>5, <1>6, StoredKept
<1>8. ~ Growing /\ ~ Growing' /\ (\A k : ~ Busy(k) /\ ~ Removing(k)) /\ Erasing'
  BY <1>1 DEF Growing, Busy, Removing, Erasing
<1>9. LinkedInv'
  BY <1>1, <1>6, <1>7, <1>8 DEF LinkedInv, StreamInv
<1>10. EndInv'
  <2> SUFFICES ASSUME NEW s \in Sector, FileOf(s)' # None
               PROVE  /\ Link(s)' = None =>
                           \/ Busy(FileOf(s))'
                           \/ \E h \in HandleId : WritesTo(h, s)'
                           \/ StreamEnd(s)' = stream'[FileOf(s)']
                      /\ Headless(s)' /\ ~ Table'[s].circular =>
                           Removing(FileOf(s))' \/ (Growing' /\ s = call'.sector)
                             \/ origin'[s] = 0
    BY DEF EndInv
  <2>1. CASE FileOf(s) = f
    <3>1. Removing(FileOf(s))'
      BY <1>2, <1>3, <1>6, <1>8, <2>1 DEF Removing
    <3> QED
      BY <3>1 DEF Busy
  <2>2. CASE FileOf(s) # f
    <3>1. /\ Link(s) = None =>
               (\E h \in HandleId : WritesTo(h, s)) \/ StreamEnd(s) = stream[FileOf(s)]
          /\ Headless(s) /\ ~ Table[s].circular => origin[s] = 0
      BY <1>1, <1>6, <1>8 DEF StreamInv, EndInv
    <3> QED
      BY <1>1, <1>4, <1>6, <1>7, <2>2, <3>1
  <2> QED
    BY <2>1, <2>2
<1> QED
  BY <1>1, <1>7, <1>8, <1>9, <1>10 DEF StreamInv, GrowthInv, MountedInv

\* An erasure goes on with the next sector; at the end of a removal no sector of the file
\* is left, at the end of format none of any file.
LEMMA EraseLoopStream ==
  ASSUME IInv, TableInv, ChainInv, StreamInv, RemoveNext \/ FormatNext
  PROVE  StreamInv'
<1>1. /\ UNCHANGED <<session, data, origin, stream, alloc_unit_list, fs_priv_handle_list>>
      /\ pc = "write_counter" /\ call \in Call /\ call.op \in {"remove", "format"}
  BY DEF RemoveNext, FormatNext, WriteCounter, ramVars, ghostVars, IInv, TypeOK
<1>2. \/ pc' = "idle" /\ call'.op = "none"
      \/ pc' = "erase_block" /\ call'.op = call.op /\ call'.file = call.file
  <2>1. \/ Return("FS_NO_ERROR")
        \/ EraseNext(call.next)
        \/ Goto("erase_block", [call EXCEPT !.sector = @ + 1])
    BY DEF RemoveNext, FormatNext
  <2>2. CASE Return("FS_NO_ERROR")
    BY <2>2 DEF Return, Goto, NoCall
  <2>3. CASE EraseNext(call.next)
    BY <1>1, <2>3 DEF EraseNext, Goto, Call
  <2>4. CASE Goto("erase_block", [call EXCEPT !.sector = @ + 1])
    BY <1>1, <2>4 DEF Goto, Call
  <2> QED
    BY <2>1, <2>2, <2>3, <2>4
<1>3. \A s \in Sector : /\ FileOf(s)' = FileOf(s) /\ Link(s)' = Link(s)
                        /\ Table'[s].circular = Table[s].circular
  BY <1>1, <1>2, SameTable
<1>4. \A h \in HandleId : SameWriter(h)
  <2>1. \A h \in HandleId : ~ Opening(h) /\ ~ Opening(h)' /\ ~ Moving(h) /\ ~ Moving(h)'
    BY <1>1, <1>2 DEF Opening, Moving, Growing
  <2> QED
    BY <1>1, <2>1 DEF SameWriter, Writes, Placed, Open_, Hd
<1>5. ~ Growing /\ ~ Growing' /\ pc' # "write_counter" /\ pc' # "unmounted"
  BY <1>1, <1>2 DEF Growing
<1>6. CASE pc' = "erase_block"
  <2>1. \A f : (Busy(f) => Busy(f)') /\ (Removing(f) => Removing(f)')
    <3>1. \A f : Removing(f) => Removing(f)'
      BY <1>1, <1>2, <1>6 DEF Removing, Erasing
    <3>2. \A f : Busy(f) => Removing(f)
      BY <1>1 DEF Busy
    <3> QED
      BY <3>1, <3>2 DEF Busy
  <2> QED
    BY <1>1, <1>2, <1>3, <1>4, <1>5, <1>6, <2>1, StreamKept
<1>7. CASE RemoveNext /\ pc' = "idle"
  <2>1. call.next = None /\ call.op = "remove"
    BY <1>7 DEF RemoveNext, EraseNext, Goto, None
  <2>2. Unused(call.file)
    BY <1>1, <2>1 DEF ChainInv, GoneInv
  <2>3. \A f : (\E s \in Sector : FileOf(s) = f) => ~ Busy(f) /\ ~ Removing(f)
    BY <2>1, <2>2 DEF Busy, Removing, Unused
  <2> QED
    BY <1>1, <1>2, <1>3, <1>4, <1>5, <1>7, <2>1, <2>3, StreamKept
<1>8. CASE FormatNext /\ pc' = "idle"
  <2>1. call.op = "format" /\ call.sector + 1 \notin Sector
    BY <1>8 DEF FormatNext, Goto
  <2>2. \A s \in Sector : FileOf(s) = None
    <3>1. /\ \A s \in Sector : s < call.sector => FileOf(s) = None
          /\ FileOf(call.sector) = None /\ call.sector \in Sector
      BY <1>1, <2>1 DEF TableInv, PathInv, EraseInv, Erasing, IInv, CallInv
    <3>2. \A s \in Sector : s <= call.sector
      BY <2>1, <3>1, LayoutAssumption DEF Sector
    <3> QED
      BY <3>1, <3>2, LayoutAssumption DEF Sector
  <2>3. \A s \in Sector : Link(s) = None
    BY <2>2 DEF TableInv, FreeInv, Link, ErasedHeader, None
  <2>4. DataInv' /\ (\A h \in HandleId : CacheInv(h))'
    BY <1>1, <1>3, <1>4, StoredKept
  <2> QED
    BY <1>3, <1>5, <2>2, <2>3, <2>4 DEF StreamInv, LinkedInv, EndInv, GrowthInv, MountedInv
<1> QED
  BY <1>2, <1>6, <1>7, <1>8

\* The chip has just been erased.
LEMMA InitStream == Init => StreamInv
<1> SUFFICES ASSUME Init PROVE StreamInv
  OBVIOUS
<1>1. \A s \in Sector : Link(s) = None /\ FileOf(s) = None
  BY DEF Init, Table, Link, FileOf, ErasedHeader, None
<1>2. \A h \in HandleId : ~ Open_(h)
  BY DEF Init, Open_, FreeHandle
<1>3. pc = "unmounted" /\ data = [s \in Sector |-> ErasedData]
  BY DEF Init
<1>4. DataInv
  BY <1>1, <1>3 DEF DataInv, ErasedData
<1>5. \A h \in HandleId : CacheInv(h)
  BY <1>2 DEF CacheInv, Writes, Placed
<1> QED
  BY <1>1, <1>2, <1>3, <1>4, <1>5
  DEF StreamInv, LinkedInv, EndInv, GrowthInv, Growing, MountedInv

\* A step that changes nothing.
LEMMA StutterStream ==
  ASSUME StreamInv, UNCHANGED vars
  PROVE  StreamInv'
<1>1. /\ Table' = Table /\ Cur' = Cur /\ call' = call /\ pc' = pc
      /\ UNCHANGED <<session, data, origin, stream, fs_priv_handle_list>>
  BY DEF vars, flashVars, ramVars, ghostVars, Table, Cur
<1>2. \A s \in Sector : /\ FileOf(s)' = FileOf(s) /\ Link(s)' = Link(s)
                        /\ Headless(s)' <=> Headless(s)
  BY <1>1 DEF FileOf, Link, Headless
<1>3. Growing' <=> Growing
  BY <1>1 DEF Growing
<1>4. \A h \in HandleId : /\ SameWriter(h) /\ Open_(h)' = Open_(h)
  BY <1>1, <1>3 DEF SameWriter, Writes, Placed, Open_, Opening, Moving, Growing, Hd
<1>5. /\ DataInv' /\ (\A h \in HandleId : CacheInv(h))'
      /\ \A s \in Sector : StreamEnd(s)' = StreamEnd(s)
      /\ \A h \in HandleId : \A s \in Sector : WritesTo(h, s)' <=> WritesTo(h, s)
  BY <1>1, <1>2, <1>4, StoredKept
<1>6. LinkedInv'
  BY <1>1, <1>2, <1>3, <1>5 DEF StreamInv, LinkedInv
<1>7. EndInv'
  BY <1>1, <1>2, <1>3, <1>5
  DEF StreamInv, EndInv, Busy, Removing, Erasing, FileOf, Link, Headless
<1>8. GrowthInv' /\ MountedInv'
  BY <1>1, <1>3, <1>4
  DEF StreamInv, GrowthInv, MountedInv, Headless, Link, StreamEnd, Committed
<1> QED
  BY <1>5, <1>6, <1>7, <1>8 DEF StreamInv

-----------------------------------------------------------------------------
(***************************************************************************)
(* Steps that change what one sector holds, or who writes it.              *)
(***************************************************************************)

\* The last sector of a file, c, is given new bytes, a new writer or none: what it holds
\* is right again, and the stream of the file still begins, runs on and ends where it
\* should.  Of the other files nothing changes.
LEMMA SectorSettles ==
  ASSUME IInv, TableInv, ChainInv, StreamInv, UNCHANGED alloc_unit_list,
         pc # "unmounted", pc' # "unmounted", call.op \notin {"remove", "format"},
         ~ Growing', pc' # "write_counter",
         NEW g \in HandleId, NEW c \in Sector, NEW f, f = FileOf(c), f # None, Link(c) = None,
         \A h \in HandleId : h # g => SameWriter(h) /\ (Writes(h) => Hd(h).file_id # f),
         \A s \in Sector : WritesTo(g, s) => s = c,
         \A s \in Sector : s # c => /\ session'[s] = session[s]
                                    /\ data'[s] = data[s] /\ origin'[s] = origin[s],
         \A k : k # f => stream'[k] = stream[k],
         Growing => call.sector = c,
         \A k : Busy(k) => k = f,
         \A i \in Cell : i < Committed(c)' => data'[c][i] = Payload(f, origin'[c] + i),
         \/ Writes(g)' /\ Hd(g)'.curr_allocation_unit = c /\ CacheInv(g)'
         \/ /\ ~ Writes(g)'
            /\ \A i \in Cell : i >= Committed(c)' => data'[c][i] = ERASED
            /\ StreamEnd(c)' = stream'[f],
         \A p \in Sector : Link(p) = c => origin'[c] = StreamEnd(p),
         Headless(c) /\ ~ Table[c].circular => origin'[c] = 0
  PROVE  StreamInv'
<1>1. \A s \in Sector : /\ FileOf(s)' = FileOf(s) /\ Link(s)' = Link(s)
                        /\ Table'[s].circular = Table[s].circular
                        /\ Headless(s)' <=> Headless(s)
  BY SameTable DEF Headless
<1>2. \A s \in Sector : s # c => Committed(s)' = Committed(s) /\ StreamEnd(s)' = StreamEnd(s)
  BY DEF Committed, StreamEnd
<1>3. \A h \in HandleId : \A s \in Sector : h # g => (WritesTo(h, s)' <=> WritesTo(h, s))
  BY DEF WritesTo, SameWriter
<1>4. DataInv'
  <2> SUFFICES ASSUME NEW s \in Sector
               PROVE  /\ FileOf(s)' # None =>
                           \A i \in Cell : i < Committed(s)' =>
                             data'[s][i] = Payload(FileOf(s)', origin'[s] + i)
                      /\ (\A h \in HandleId : ~ WritesTo(h, s)') =>
                           \A i \in Cell : i >= Committed(s)' => data'[s][i] = ERASED
    BY DEF DataInv
  <2>1. CASE s = c
    <3>1. (\A h \in HandleId : ~ WritesTo(h, c)') => ~ (Writes(g)' /\ Hd(g)'.curr_allocation_unit = c)
      BY DEF WritesTo
    <3> QED
      BY <1>1, <2>1, <3>1
  <2>2. CASE s # c
    <3>1. (\A h \in HandleId : ~ WritesTo(h, s)') => \A h \in HandleId : ~ WritesTo(h, s)
      BY <1>3, <2>2
    <3> QED
      BY <1>1, <1>2, <2>2, <3>1 DEF StreamInv, DataInv
  <2> QED
    BY <2>1, <2>2
<1>5. ASSUME NEW h \in HandleId PROVE CacheInv(h)'
  <2>1. CASE ~ Writes(h)'
    BY <2>1 DEF CacheInv
  <2>2. CASE Writes(h)' /\ h = g
    BY <2>2
  <2>3. CASE Writes(h)' /\ h # g
    <3>1. Writes(h) /\ Hd(h)' = Hd(h) /\ Hd(h).file_id # f
      BY <2>3 DEF SameWriter
    <3>2. PICK s \in Sector : s = Hd(h).curr_allocation_unit /\ FileOf(s) = Hd(h).file_id
      BY <3>1 DEF Writes, Placed, TableInv, PlaceInv, IInv, HandleInv, Hd
    <3>3. /\ s # c /\ data'[s] = data[s] /\ origin'[s] = origin[s]
          /\ stream'[Hd(h).file_id] = stream[Hd(h).file_id]
      BY <3>1, <3>2
    <3>4. CacheInv(h)
      BY DEF StreamInv
    <3> QED
      BY <3>1, <3>2, <3>3, <3>4 DEF CacheInv
  <2> QED
    BY <2>1, <2>2, <2>3
<1>6. LinkedInv'
  <2> SUFFICES ASSUME NEW s \in Sector, Link(s)' # None
               PROVE  origin'[Link(s)'] = StreamEnd(s)'
    BY DEF LinkedInv
  <2>1. PICK t \in Sector : t = Link(s) /\ t = Link(s)'
    BY <1>1, TableType DEF Nil, None
  <2>2. s # c /\ StreamEnd(s)' = StreamEnd(s)
    BY <1>1, <1>2
  <2>3. CASE t = c
    BY <2>1, <2>2, <2>3
  <2>4. CASE t # c
    <3>1. origin[t] = StreamEnd(s)
      BY <1>1, <2>1, <2>4 DEF StreamInv, LinkedInv
    <3> QED
      BY <2>1, <2>2, <2>4, <3>1
  <2> QED
    BY <2>3, <2>4
<1>7. EndInv'
  <2> SUFFICES ASSUME NEW s \in Sector, FileOf(s)' # None
               PROVE  /\ Link(s)' = None =>
                           \/ \E h \in HandleId : WritesTo(h, s)'
                           \/ StreamEnd(s)' = stream'[FileOf(s)']
                      /\ Headless(s)' /\ ~ Table'[s].circular => origin'[s] = 0
    BY DEF EndInv
  <2>1. CASE s = c
    <3>1. Writes(g)' /\ Hd(g)'.curr_allocation_unit = c => WritesTo(g, c)'
      BY DEF WritesTo
    <3> QED
      BY <1>1, <2>1, <3>1
  <2>2. CASE s # c
    <3>1. /\ Link(s) = None =>
               \/ Busy(FileOf(s))
               \/ \E h \in HandleId : WritesTo(h, s)
               \/ StreamEnd(s) = stream[FileOf(s)]
          /\ Headless(s) /\ ~ Table[s].circular =>
               Removing(FileOf(s)) \/ (Growing /\ s = call.sector) \/ origin[s] = 0
      BY <1>1 DEF StreamInv, EndInv
    <3>2. Headless(s) /\ ~ Table[s].circular => origin[s] = 0
      BY <2>2, <3>1 DEF Removing
    <3>3. Link(s) = None => FileOf(s) # f
      BY <1>1, <2>2 DEF ChainInv, ShapeInv, SameFile
    <3>4. Link(s) = None =>
            (\E h \in HandleId : WritesTo(h, s)') \/ StreamEnd(s) = stream[FileOf(s)]
      BY <1>3, <2>2, <3>1, <3>3
    <3> QED
      BY <1>1, <1>2, <2>2, <3>2, <3>3, <3>4
  <2> QED
    BY <2>1, <2>2
<1>8. GrowthInv' /\ MountedInv'
  BY DEF GrowthInv, MountedInv
<1> QED
  BY <1>4, <1>5, <1>6, <1>7, <1>8 DEF StreamInv

\* The writer of the running call adds to its sector, or leaves it with all committed.
LEMMA WriterStep ==
  ASSUME IInv, TableInv, ChainInv, StreamInv, UNCHANGED <<alloc_unit_list, origin>>,
         Writing, OnHandle,
         pc' \notin {"unmounted", "write_counter", "write_next", "write_file_info"},
         call'.op # "open",
         NEW g \in HandleId, g = call.handle, NEW hd, SetHandle(g, hd),
         NEW c \in Sector, c = Cur.curr_allocation_unit, NEW f \in FileId, f = Cur.file_id,
         \A s \in Sector : s # c => session'[s] = session[s] /\ data'[s] = data[s],
         \A k : k # f => stream'[k] = stream[k],
         \A i \in Cell : i < Committed(c)' => data'[c][i] = Payload(f, origin[c] + i),
         \/ Writes(g)' /\ hd.curr_allocation_unit = c /\ CacheInv(g)'
         \/ /\ ~ Writes(g)'
            /\ \A i \in Cell : i >= Committed(c)' => data'[c][i] = ERASED
            /\ StreamEnd(c)' = stream'[f]
  PROVE  StreamInv'
<1>1. /\ Cur = Hd(g) /\ Cur.writeable /\ Placed(g) /\ FileOf(c) = f
      /\ f # None /\ Link(c) = None
  <2>1. Cur = Hd(g) /\ Cur.writeable /\ Placed(g) /\ FileOf(c) = f
    BY WriterAlone
  <2> QED
    BY <2>1, TableType DEF TableInv, PlaceInv
<1>2. /\ ~ Growing /\ ~ Growing' /\ call.op \notin {"open", "remove", "format"}
      /\ \A k : ~ Busy(k) /\ ~ Removing(k)
  BY DEF Writing, Growing, Busy, Removing, Erasing, IInv, CallInv
<1>3. \A h \in HandleId : /\ ~ Opening(h) /\ ~ Opening(h)' /\ ~ Moving(h) /\ ~ Moving(h)'
  BY <1>2 DEF Opening, Moving, Writing
<1>4. Hd(g)' = hd /\ \A h \in HandleId : h # g => Hd(h)' = Hd(h)
  BY DEF SetHandle, Hd, IInv, TypeOK
<1>5. \A h \in HandleId : h # g => SameWriter(h) /\ (Writes(h) => Hd(h).file_id # f)
  <2>1. \A h \in HandleId : h # g => SameWriter(h)
    BY <1>3, <1>4 DEF SameWriter, Writes, Placed, Open_, Hd
  <2>2. \A h \in HandleId : h # g /\ Writes(h) => Hd(h).file_id # f
    BY <1>1 DEF Writes, Placed, TableInv, Exclusive
  <2> QED
    BY <2>1, <2>2
<1>6. \A s \in Sector : WritesTo(g, s) => s = c
  BY <1>1 DEF WritesTo
<1>7. /\ \A p \in Sector : Link(p) = c => origin[c] = StreamEnd(p)
      /\ Headless(c) /\ ~ Table[c].circular => origin[c] = 0
  <2>1. c # None
    BY TableType
  <2>2. call.op # "format"
    BY <1>2
  <2>3. \A p \in Sector : Link(p) = c => origin[c] = StreamEnd(p)
    BY <1>2, <2>1, <2>2 DEF StreamInv, LinkedInv
  <2>4. Headless(c) /\ ~ Table[c].circular => origin[c] = 0
    BY <1>1, <1>2, <2>2 DEF StreamInv, EndInv
  <2> QED
    BY <2>3, <2>4
<1>8. \/ Writes(g)' /\ Hd(g)'.curr_allocation_unit = c /\ CacheInv(g)'
      \/ /\ ~ Writes(g)'
         /\ \A i \in Cell : i >= Committed(c)' => data'[c][i] = ERASED
         /\ StreamEnd(c)' = stream'[f]
  BY <1>4
<1>9. pc # "unmounted"
  BY DEF Writing
<1> QED
  BY <1>1, <1>2, <1>5, <1>6, <1>7, <1>8, <1>9, SectorSettles

\* What the running call's writer knows of its sector.
LEMMA WriterKnows ==
  ASSUME IInv, TableInv, SessionInv, StreamInv, Writing, OnHandle
  PROVE  \E g \in HandleId, c \in Sector : \E f \in FileId :
           /\ g = call.handle /\ Cur = Hd(g) /\ Cur \in Handle /\ Cur.writeable /\ Cur.fs_priv
           /\ c = Cur.curr_allocation_unit /\ FileOf(c) = f /\ f = Cur.file_id
           /\ Cur.last_data_offset \in Nat /\ Cur.curr_data_offset \in Nat
           /\ Cur.curr_data_offset <= FS_PRIV_USABLE_SIZE
           /\ cached_bytes(Cur) \in 0 .. FS_PRIV_PAGE_SIZE
           /\ Committed(c) \in Nat /\ Committed(c) <= Cur.last_data_offset
           /\ origin[c] \in Nat /\ stream[f] \in Nat
           /\ \A i \in Cell : data[c][i] = IF i < Cur.last_data_offset
                                             THEN Payload(f, origin[c] + i) ELSE ERASED
           /\ \A i \in PageIdx : i < cached_bytes(Cur) =>
                Cur.page_cache[i] = Payload(f, origin[c] + Cur.last_data_offset + i)
           /\ origin[c] + Cur.curr_data_offset = stream[f]
<1>1. PICK g \in HandleId, c \in Sector :
           /\ g = call.handle /\ Cur = Hd(g) /\ Cur \in Handle /\ Cur.writeable /\ Placed(g)
           /\ c = Cur.curr_allocation_unit /\ FileOf(c) = Cur.file_id /\ Cur.file_id \in FileId
  BY WriterAlone
<1>2. PICK f \in FileId : f = Cur.file_id
  BY <1>1
<1>3. Writes(g) /\ Cur.fs_priv
  BY <1>1 DEF Writes, Placed, Open_, Hd
<1>4. /\ Cur.curr_session_value \in Nat /\ Cur.last_data_offset \in Nat
      /\ Cur.curr_data_offset \in Nat /\ Cur.curr_data_offset <= FS_PRIV_USABLE_SIZE
      /\ Committed(c) = Cur.curr_session_value /\ Committed(c) <= Cur.last_data_offset
  <2>1. Cur.curr_data_offset <= FS_PRIV_USABLE_SIZE
    BY WriterOffsets, LayoutAssumption DEF Offset
  <2> QED
    BY <1>1, <2>1, WriterOffsets, OffsetIsNatural DEF Committed
<1>5. cached_bytes(Cur) \in 0 .. FS_PRIV_PAGE_SIZE
  <2>1. cached_bytes(Cur) \in 0 .. page_boundary(Cur)
    BY <1>1, <1>3 DEF IInv, HandleInv, Hd, Placed
  <2>2. page_boundary(Cur) \in 1 .. FS_PRIV_PAGE_SIZE
    BY WriterOffsets
  <2> QED
    BY <2>1, <2>2, LayoutAssumption
<1>6. origin[c] \in Nat /\ stream[f] \in Nat
  BY DEF IInv, TypeOK, Nil
<1>7. CacheInv(g)
  BY DEF StreamInv
<1> QED
  BY <1>1, <1>2, <1>3, <1>4, <1>5, <1>6, <1>7 DEF CacheInv

\* Bytes accepted into the cache are the next ones of the stream.
LEMMA AcceptStream ==
  ASSUME IInv, NEW g \in HandleId, g = call.handle, NEW c \in Sector, NEW f \in FileId,
         NEW old \in Handle, old.fs_priv, old.writeable,
         old.curr_allocation_unit = c, old.file_id = f,
         NEW cached \in Nat, NEW n \in Nat,
         old.last_data_offset + cached = old.curr_data_offset,
         origin[c] + old.curr_data_offset = stream[f], UNCHANGED origin,
         \A i \in PageIdx : i < cached =>
           old.page_cache[i] = Payload(f, origin[c] + old.last_data_offset + i),
         \A i \in Cell : data'[c][i] = IF i < old.last_data_offset
                                         THEN Payload(f, origin[c] + i) ELSE ERASED,
         Accept(old, cached, n), ~ Opening(g)', ~ Moving(g)'
  PROVE  /\ \E hd : SetHandle(g, hd) /\ hd.curr_allocation_unit = c
         /\ Writes(g)' /\ CacheInv(g)'
         /\ \A k : k # f => stream'[k] = stream[k]
<1> DEFINE hd == [old EXCEPT !.page_cache = Filled(old.page_cache, cached, n, old.file_id),
                             !.curr_data_offset = @ + n]
<1>1. /\ SetHandle(g, hd) /\ hd.fs_priv /\ hd.writeable
      /\ hd.curr_allocation_unit = c /\ hd.file_id = f
      /\ hd.last_data_offset = old.last_data_offset
      /\ hd.curr_data_offset = old.curr_data_offset + n
      /\ hd.page_cache = Filled(old.page_cache, cached, n, f)
  BY DEF Accept, Handle
<1>2. Hd(g)' = hd
  BY <1>1 DEF SetHandle, Hd, IInv, TypeOK
<1>3. Writes(g)'
  BY <1>1, <1>2 DEF Writes, Placed, Open_, Hd
<1>4. /\ stream'[f] = stream[f] + n
      /\ \A k : k # f => stream'[k] = stream[k]
      /\ origin[c] \in Nat /\ stream[f] \in Nat /\ f \in Nat /\ NUM_FILES \in Nat
  BY LayoutAssumption DEF Accept, IInv, TypeOK, Nil, FileId
<1>5. old.last_data_offset \in Nat /\ old.curr_data_offset \in Nat
  BY OffsetIsNatural DEF Handle
<1>6. cached_bytes(hd) = cached + n
  BY <1>1, <1>5 DEF cached_bytes
<1>7. \A i \in PageIdx : i < cached_bytes(hd) =>
        hd.page_cache[i] = Payload(f, origin[c] + hd.last_data_offset + i)
  <2> SUFFICES ASSUME NEW i \in PageIdx, i < cached + n
               PROVE  Filled(old.page_cache, cached, n, f)[i]
                        = Payload(f, origin[c] + old.last_data_offset + i)
    BY <1>1, <1>6
  <2>1. i \in Nat
    BY LayoutAssumption DEF PageIdx
  <2>2. CASE i < cached
    BY <2>1, <2>2 DEF Filled
  <2>3. CASE i >= cached
    <3>1. Filled(old.page_cache, cached, n, f)[i] = Payload(f, stream[f] + (i - cached))
      BY <2>1, <2>3 DEF Filled
    <3>2. stream[f] + (i - cached) = origin[c] + old.last_data_offset + i
      BY <1>4, <1>5, <2>1
    <3> QED
      BY <3>1, <3>2
  <2> QED
    BY <2>1, <2>2, <2>3
<1>8. origin[c] + hd.curr_data_offset = stream'[f]
  BY <1>1, <1>4, <1>5
<1>9. CacheInv(g)'
  BY <1>1, <1>2, <1>7, <1>8 DEF CacheInv, cached_bytes
<1> QED
  BY <1>1, <1>3, <1>4, <1>9

\* write_through_cache, up to the page boundary.
LEMMA FillCacheStream ==
  ASSUME IInv, TableInv, SessionInv, ChainInv, StreamInv, FillCache
  PROVE  StreamInv'
<1>1. /\ pc = "write" /\ pc' \in {"write", "write_page"} /\ OnHandle /\ Writing
      /\ UNCHANGED <<session, data, alloc_unit_list, origin>> /\ ~ is_full(Cur)
      /\ call.size > 0
  BY DEF FillCache, Goto, flashVars, OnHandle, Writing
<1>2. PICK g \in HandleId, c \in Sector : \E f \in FileId :
           /\ g = call.handle /\ Cur = Hd(g) /\ Cur \in Handle /\ Cur.writeable /\ Cur.fs_priv
           /\ c = Cur.curr_allocation_unit /\ FileOf(c) = f /\ f = Cur.file_id
           /\ Cur.last_data_offset \in Nat /\ Cur.curr_data_offset \in Nat
           /\ Cur.curr_data_offset <= FS_PRIV_USABLE_SIZE
           /\ cached_bytes(Cur) \in 0 .. FS_PRIV_PAGE_SIZE
           /\ Committed(c) \in Nat /\ Committed(c) <= Cur.last_data_offset
           /\ origin[c] \in Nat /\ stream[f] \in Nat
           /\ \A i \in Cell : data[c][i] = IF i < Cur.last_data_offset
                                             THEN Payload(f, origin[c] + i) ELSE ERASED
           /\ \A i \in PageIdx : i < cached_bytes(Cur) =>
                Cur.page_cache[i] = Payload(f, origin[c] + Cur.last_data_offset + i)
           /\ origin[c] + Cur.curr_data_offset = stream[f]
  BY <1>1, WriterKnows
<1>3. PICK f \in FileId : f = Cur.file_id
  BY <1>2
<1>4. PICK wanted, sz : /\ wanted = write_size(Cur, call.size)
                        /\ sz = SmallerOf(page_boundary(Cur) - cached_bytes(Cur), wanted)
  OBVIOUS
<1>5. /\ Accept(Cur, cached_bytes(Cur), sz)
      /\ call' = [call EXCEPT !.size = @ - sz, !.done = @ + sz, !.rest = wanted - sz]
  BY <1>4 DEF FillCache, Goto
<1>6. call.op = "write" /\ call'.op = "write"
  BY <1>1, <1>5 DEF IInv, CallInv, TypeOK, Call
<1>7. cached_bytes(Cur) \in Nat /\ sz \in Nat
  <2>1. /\ HandleInv(g) /\ Open_(g) /\ call.size \in Nat
    BY <1>2 DEF IInv, TypeOK, Call, Open_, Hd
  <2>2. /\ cached_bytes(Cur) \in 0 .. page_boundary(Cur)
        /\ cached_bytes(Cur) # page_boundary(Cur)
    BY <1>1, <1>2, <2>1 DEF HandleInv, Hd
  <2> QED
    BY <1>1, <1>2, <1>4, <2>1, <2>2, FillSizes
<1>8. Cur.last_data_offset + cached_bytes(Cur) = Cur.curr_data_offset
  BY <1>2 DEF cached_bytes
<1>9. ~ Opening(g)' /\ ~ Moving(g)'
  BY <1>1, <1>6 DEF Opening, Moving, Growing
<1>10. /\ \E hd : SetHandle(g, hd) /\ hd.curr_allocation_unit = c
       /\ Writes(g)' /\ CacheInv(g)'
       /\ \A k : k # f => stream'[k] = stream[k]
  <2>1. \A i \in Cell : data'[c][i] = IF i < Cur.last_data_offset
                                        THEN Payload(f, origin[c] + i) ELSE ERASED
    BY <1>1, <1>2, <1>3
  <2>2. /\ origin[c] + Cur.curr_data_offset = stream[f]
        /\ \A i \in PageIdx : i < cached_bytes(Cur) =>
             Cur.page_cache[i] = Payload(f, origin[c] + Cur.last_data_offset + i)
    BY <1>2, <1>3
  <2> QED
    BY <1>1, <1>2, <1>3, <1>5, <1>7, <1>8, <1>9, <2>1, <2>2, AcceptStream
<1>11. \A i \in Cell : i < Committed(c)' => data'[c][i] = Payload(f, origin[c] + i)
  <2> SUFFICES ASSUME NEW i \in Cell, i < Committed(c)
               PROVE  data[c][i] = Payload(f, origin[c] + i)
    BY <1>1 DEF Committed
  <2>1. i \in Nat
    BY LayoutAssumption DEF Cell
  <2> QED
    BY <1>2, <1>3, <2>1
<1> QED
  BY <1>1, <1>2, <1>3, <1>6, <1>10, <1>11, WriterStep

\* Programming n cached bytes past those in flash appends them there.
LEMMA Programmed ==
  ASSUME IInv, NEW c \in Sector, NEW last \in Nat, NEW n \in Nat, NEW f, NEW bytes,
         n <= FS_PRIV_PAGE_SIZE, origin[c] \in Nat,
         ProgramData(c, last, n, bytes),
         \A i \in Cell : data[c][i] = IF i < last THEN Payload(f, origin[c] + i) ELSE ERASED,
         \A i \in PageIdx : i < n => bytes[i] = Payload(f, origin[c] + last + i)
  PROVE  \A i \in Cell : data'[c][i] = IF i < last + n
                                         THEN Payload(f, origin[c] + i) ELSE ERASED
<1> SUFFICES ASSUME NEW i \in Cell
             PROVE  data'[c][i] = IF i < last + n THEN Payload(f, origin[c] + i) ELSE ERASED
  OBVIOUS
<1>1. i \in Nat
  BY LayoutAssumption DEF Cell
<1>2. data'[c][i] = IF i >= last /\ i < last + n THEN ProgramByte(data[c][i], bytes[i - last])
                                                 ELSE data[c][i]
  BY DEF ProgramData, IInv, TypeOK
<1>3. CASE i < last
  <2>1. i < last + n /\ ~ (i >= last)
    BY <1>1, <1>3
  <2> QED
    BY <1>2, <1>3, <2>1
<1>4. CASE i >= last /\ i < last + n
  <2>1. i - last \in PageIdx /\ i - last < n /\ ~ (i < last)
        /\ origin[c] + last + (i - last) = origin[c] + i
    BY <1>1, <1>4, LayoutAssumption DEF PageIdx
  <2>2. data[c][i] = ERASED /\ bytes[i - last] = Payload(f, origin[c] + i)
    BY <2>1
  <2> QED
    BY <1>2, <1>4, <2>2 DEF ProgramByte
<1>5. CASE i >= last + n
  <2>1. ~ (i < last) /\ ~ (i < last + n)
    BY <1>1, <1>5
  <2> QED
    BY <1>2, <2>1
<1> QED
  BY <1>1, <1>3, <1>4, <1>5

\* write_through_cache: the page is programmed, and the rest of the round is cached.
LEMMA WritePageStream ==
  ASSUME IInv, TableInv, SessionInv, ChainInv, StreamInv, WritePage
  PROVE  StreamInv'
<1>1. /\ pc = "write_page" /\ pc' = "write" /\ OnHandle /\ Writing
      /\ UNCHANGED <<session, alloc_unit_list, origin>>
      /\ call.op = "write" /\ cached_bytes(Cur) = page_boundary(Cur)
  BY DEF WritePage, Goto, OnHandle, Writing, IInv, CallInv
<1>2. PICK g \in HandleId, c \in Sector : \E f \in FileId :
           /\ g = call.handle /\ Cur = Hd(g) /\ Cur \in Handle /\ Cur.writeable /\ Cur.fs_priv
           /\ c = Cur.curr_allocation_unit /\ FileOf(c) = f /\ f = Cur.file_id
           /\ Cur.last_data_offset \in Nat /\ Cur.curr_data_offset \in Nat
           /\ Cur.curr_data_offset <= FS_PRIV_USABLE_SIZE
           /\ cached_bytes(Cur) \in 0 .. FS_PRIV_PAGE_SIZE
           /\ Committed(c) \in Nat /\ Committed(c) <= Cur.last_data_offset
           /\ origin[c] \in Nat /\ stream[f] \in Nat
           /\ \A i \in Cell : data[c][i] = IF i < Cur.last_data_offset
                                             THEN Payload(f, origin[c] + i) ELSE ERASED
           /\ \A i \in PageIdx : i < cached_bytes(Cur) =>
                Cur.page_cache[i] = Payload(f, origin[c] + Cur.last_data_offset + i)
           /\ origin[c] + Cur.curr_data_offset = stream[f]
  BY <1>1, WriterKnows
<1>3. PICK f \in FileId : f = Cur.file_id
  BY <1>2
<1>4. PICK n \in Nat : n = cached_bytes(Cur) /\ n = page_boundary(Cur) /\ n <= FS_PRIV_PAGE_SIZE
  BY <1>1, <1>2, LayoutAssumption
<1>5. PICK last \in Nat : last = Cur.last_data_offset
  BY <1>2
<1>6. last + n = Cur.curr_data_offset
  BY <1>2, <1>4, <1>5 DEF cached_bytes
<1>7. /\ \A i \in Cell : data'[c][i] = IF i < Cur.curr_data_offset
                                         THEN Payload(f, origin[c] + i) ELSE ERASED
      /\ \A t \in Sector : t # c => data'[t] = data[t]
  <2>0. PICK bytes : bytes = Cur.page_cache
    OBVIOUS
  <2>1. ProgramData(c, last, n, bytes)
    BY <1>2, <1>4, <1>5, <2>0 DEF WritePage
  <2>2. \A i \in Cell : data[c][i] = IF i < last THEN Payload(f, origin[c] + i) ELSE ERASED
    BY <1>2, <1>3, <1>5
  <2>3. \A i \in PageIdx : i < n => bytes[i] = Payload(f, origin[c] + last + i)
    BY <1>2, <1>3, <1>4, <1>5, <2>0
  <2>4. \A i \in Cell : data'[c][i] = IF i < last + n
                                        THEN Payload(f, origin[c] + i) ELSE ERASED
    <3>1. origin[c] \in Nat
      BY <1>2
    <3>2. n <= FS_PRIV_PAGE_SIZE
      BY <1>4
    <3> QED
      BY <2>1, <2>2, <2>3, <3>1, <3>2, Programmed, SMTT(60)
  <2>5. \A t \in Sector : t # c => data'[t] = data[t]
    BY <2>1, ProgramDataElsewhere
  <2> QED
    BY <1>6, <2>4, <2>5
<1>8. PICK old : old = [Cur EXCEPT !.last_data_offset = @ + page_boundary(Cur)]
  OBVIOUS
<1>9. /\ old \in Handle /\ old.fs_priv /\ old.writeable
      /\ old.curr_allocation_unit = c /\ old.file_id = f
      /\ old.last_data_offset = Cur.curr_data_offset
      /\ old.curr_data_offset = Cur.curr_data_offset
  <2>1. Cur.last_data_offset + page_boundary(Cur) = Cur.curr_data_offset
    BY <1>4, <1>5, <1>6
  <2> QED
    BY <1>2, <1>3, <1>8, <2>1 DEF Handle
<1>10. Accept(old, 0, call.rest) /\ call.rest \in Nat /\ call'.op = "write"
  BY <1>1, <1>8 DEF WritePage, Goto, IInv, TypeOK, Call
<1>11. ~ Opening(g)' /\ ~ Moving(g)'
  BY <1>1, <1>10 DEF Opening, Moving, Growing
<1>12. /\ \E hd : SetHandle(g, hd) /\ hd.curr_allocation_unit = c
       /\ Writes(g)' /\ CacheInv(g)'
       /\ \A k : k # f => stream'[k] = stream[k]
  <2>1. /\ origin[c] + old.curr_data_offset = stream[f]
        /\ old.last_data_offset + 0 = old.curr_data_offset
    BY <1>2, <1>3, <1>9
  <2>2. \A i \in PageIdx : i < 0 =>
          old.page_cache[i] = Payload(f, origin[c] + old.last_data_offset + i)
    BY LayoutAssumption DEF PageIdx
  <2>3. \A i \in Cell : data'[c][i] = IF i < old.last_data_offset
                                        THEN Payload(f, origin[c] + i) ELSE ERASED
    BY <1>7, <1>9
  <2> QED
    BY <1>1, <1>2, <1>9, <1>10, <1>11, <2>1, <2>2, <2>3, AcceptStream
<1>13. \A i \in Cell : i < Committed(c)' => data'[c][i] = Payload(f, origin[c] + i)
  <2> SUFFICES ASSUME NEW i \in Cell, i < Committed(c)
               PROVE  data'[c][i] = Payload(f, origin[c] + i)
    BY <1>1 DEF Committed
  <2>1. i \in Nat
    BY LayoutAssumption DEF Cell
  <2>2. i < Cur.curr_data_offset
    BY <1>2, <1>4, <1>5, <1>6, <2>1
  <2> QED
    BY <1>7, <2>2
<1>14. \A s \in Sector : s # c => session'[s] = session[s] /\ data'[s] = data[s]
  BY <1>1, <1>7
<1> QED
  BY <1>1, <1>2, <1>3, <1>10, <1>12, <1>13, <1>14, WriterStep

\* flush_page_cache: all that was cached is in flash.
LEMMA FlushPageCacheStream ==
  ASSUME IInv, TableInv, SessionInv, ChainInv, StreamInv, FlushPageCache
  PROVE  StreamInv'
<1>1. /\ pc = "flush_page_cache" /\ pc' = "update_session_offset" /\ call' = call
      /\ OnHandle /\ Writing /\ call.op # "open"
      /\ UNCHANGED <<session, alloc_unit_list, stream, origin>>
  BY DEF FlushPageCache, OnHandle, Writing, ghostVars, IInv, CallInv
<1>2. PICK g \in HandleId, c \in Sector : \E f \in FileId :
           /\ g = call.handle /\ Cur = Hd(g) /\ Cur \in Handle /\ Cur.writeable /\ Cur.fs_priv
           /\ c = Cur.curr_allocation_unit /\ FileOf(c) = f /\ f = Cur.file_id
           /\ Cur.last_data_offset \in Nat /\ Cur.curr_data_offset \in Nat
           /\ Cur.curr_data_offset <= FS_PRIV_USABLE_SIZE
           /\ cached_bytes(Cur) \in 0 .. FS_PRIV_PAGE_SIZE
           /\ Committed(c) \in Nat /\ Committed(c) <= Cur.last_data_offset
           /\ origin[c] \in Nat /\ stream[f] \in Nat
           /\ \A i \in Cell : data[c][i] = IF i < Cur.last_data_offset
                                             THEN Payload(f, origin[c] + i) ELSE ERASED
           /\ \A i \in PageIdx : i < cached_bytes(Cur) =>
                Cur.page_cache[i] = Payload(f, origin[c] + Cur.last_data_offset + i)
           /\ origin[c] + Cur.curr_data_offset = stream[f]
  BY <1>1, WriterKnows
<1>3. PICK f \in FileId : f = Cur.file_id
  BY <1>2
<1>4. PICK n \in Nat : n = cached_bytes(Cur) /\ n <= FS_PRIV_PAGE_SIZE
  BY <1>2, LayoutAssumption
<1>5. PICK last \in Nat : last = Cur.last_data_offset
  BY <1>2
<1>6. last + n = Cur.curr_data_offset
  BY <1>2, <1>4, <1>5 DEF cached_bytes
<1>7. /\ \A i \in Cell : data'[c][i] = IF i < Cur.curr_data_offset
                                         THEN Payload(f, origin[c] + i) ELSE ERASED
      /\ \A t \in Sector : t # c => data'[t] = data[t]
  <2>0. PICK bytes : bytes = Cur.page_cache
    OBVIOUS
  <2>1. ProgramData(c, last, n, bytes)
    BY <1>2, <1>4, <1>5, <2>0 DEF FlushPageCache
  <2>2. \A i \in Cell : data[c][i] = IF i < last THEN Payload(f, origin[c] + i) ELSE ERASED
    BY <1>2, <1>3, <1>5
  <2>3. \A i \in PageIdx : i < n => bytes[i] = Payload(f, origin[c] + last + i)
    BY <1>2, <1>3, <1>4, <1>5, <2>0
  <2>4. \A i \in Cell : data'[c][i] = IF i < last + n
                                        THEN Payload(f, origin[c] + i) ELSE ERASED
    <3>1. origin[c] \in Nat
      BY <1>2
    <3>2. n <= FS_PRIV_PAGE_SIZE
      BY <1>4
    <3> QED
      BY <2>1, <2>2, <2>3, <3>1, <3>2, Programmed, SMTT(60)
  <2>5. \A t \in Sector : t # c => data'[t] = data[t]
    BY <2>1, ProgramDataElsewhere
  <2> QED
    BY <1>6, <2>4, <2>5
<1>8. PICK hd : hd = [Cur EXCEPT !.last_data_offset = Cur.curr_data_offset,
                                 !.page_cache = EmptyCache]
  OBVIOUS
<1>9. /\ hd.fs_priv /\ hd.writeable /\ hd.curr_allocation_unit = c /\ hd.file_id = f
      /\ hd.last_data_offset = Cur.curr_data_offset
      /\ hd.curr_data_offset = Cur.curr_data_offset
  BY <1>2, <1>3, <1>8 DEF Handle
<1>10. SetHandle(g, hd) /\ Hd(g)' = hd
  BY <1>2, <1>8 DEF FlushPageCache, SetHandle, IInv, TypeOK, Hd
<1>11. Writes(g)'
  BY <1>1, <1>9, <1>10 DEF Writes, Placed, Open_, Hd, Opening, Moving, Growing
<1>12. CacheInv(g)'
  <2>1. cached_bytes(hd) = 0
    BY <1>2, <1>9 DEF cached_bytes
  <2>2. \A i \in PageIdx : ~ (i < cached_bytes(hd))
    BY <2>1, LayoutAssumption DEF PageIdx
  <2>3. \A i \in Cell : data'[c][i] = IF i < hd.last_data_offset
                                        THEN Payload(f, origin'[c] + i) ELSE ERASED
    BY <1>1, <1>7, <1>9
  <2>4. origin'[c] + hd.curr_data_offset = stream'[f]
    BY <1>1, <1>2, <1>3, <1>9
  <2> QED
    BY <1>9, <1>10, <2>2, <2>3, <2>4 DEF CacheInv, cached_bytes
<1>13. \A i \in Cell : i < Committed(c)' => data'[c][i] = Payload(f, origin[c] + i)
  <2> SUFFICES ASSUME NEW i \in Cell, i < Committed(c)
               PROVE  data'[c][i] = Payload(f, origin[c] + i)
    BY <1>1 DEF Committed
  <2>1. i \in Nat
    BY LayoutAssumption DEF Cell
  <2>2. i < Cur.curr_data_offset
    BY <1>2, <1>4, <1>5, <1>6, <2>1
  <2> QED
    BY <1>7, <2>2
<1>14. \A s \in Sector : s # c => session'[s] = session[s] /\ data'[s] = data[s]
  BY <1>1, <1>7
<1>15. \A k : k # f => stream'[k] = stream[k]
  BY <1>1
<1> QED
  BY <1>1, <1>2, <1>3, <1>9, <1>10, <1>11, <1>12, <1>13, <1>14, <1>15, WriterStep

\* update_session_offset: all of the sector is committed, and close gives the handle back.
LEMMA UpdateSessionOffsetStream ==
  ASSUME IInv, TableInv, SessionInv, ChainInv, StreamInv, UpdateSessionOffset
  PROVE  StreamInv'
<1>1. /\ pc = "update_session_offset" /\ UNCHANGED <<data, alloc_unit_list, stream, origin>>
      /\ OnHandle /\ Writing /\ pc' \in {"idle", "allocate"} /\ call.op # "open"
      /\ call' \in {NoCall, call} /\ call'.op # "open"
  BY DEF UpdateSessionOffset, Goto, Return, OnHandle, Writing, ghostVars, IInv, CallInv, NoCall
<1>2. PICK g \in HandleId, c \in Sector : \E f \in FileId :
           /\ g = call.handle /\ Cur = Hd(g) /\ Cur \in Handle /\ Cur.writeable /\ Cur.fs_priv
           /\ c = Cur.curr_allocation_unit /\ FileOf(c) = f /\ f = Cur.file_id
           /\ Cur.last_data_offset \in Nat /\ Cur.curr_data_offset \in Nat
           /\ Cur.curr_data_offset <= FS_PRIV_USABLE_SIZE
           /\ cached_bytes(Cur) \in 0 .. FS_PRIV_PAGE_SIZE
           /\ Committed(c) \in Nat /\ Committed(c) <= Cur.last_data_offset
           /\ origin[c] \in Nat /\ stream[f] \in Nat
           /\ \A i \in Cell : data[c][i] = IF i < Cur.last_data_offset
                                             THEN Payload(f, origin[c] + i) ELSE ERASED
           /\ \A i \in PageIdx : i < cached_bytes(Cur) =>
                Cur.page_cache[i] = Payload(f, origin[c] + Cur.last_data_offset + i)
           /\ origin[c] + Cur.curr_data_offset = stream[f]
  BY <1>1, WriterKnows
<1>3. PICK f \in FileId : f = Cur.file_id
  BY <1>2
<1>4. PICK hd : hd = IF call.op = "close" THEN FreeHandle ELSE UpdatedHandle(Cur)
  OBVIOUS
<1>5. SetHandle(g, hd) /\ Hd(g)' = hd
  BY <1>2, <1>4 DEF UpdateSessionOffset, SetHandle, IInv, TypeOK, Hd
<1>6. Cur.last_data_offset = Cur.curr_data_offset
  BY <1>1 DEF SessionInv, FlushInv
<1>7. /\ \A t \in Sector : t # c => session'[t] = session[t]
      /\ Committed(c)' = Cur.last_data_offset
  <2>1. CASE SessionMoved(Cur)
    <3>1. /\ session \in [Sector -> [Slot -> Nil(Offset)]] /\ Cur.curr_session_offset \in Slot
          /\ session' = [session EXCEPT
               ![c][Cur.curr_session_offset] =
                  ProgramWord(session[c][Cur.curr_session_offset], Cur.last_data_offset)]
      BY <1>1, <1>2, <2>1, SlotProgrammed DEF UpdateSessionOffset, IInv, TypeOK
    <3>2. /\ \A t \in Sector : t # c => session'[t] = session[t]
          /\ session'[c] = [session[c] EXCEPT ![Cur.curr_session_offset] = Cur.last_data_offset]
      BY <1>1, <1>2, <2>1, <3>1, SlotProgrammed
    <3>3. session_end(session'[c]) = Cur.last_data_offset
      BY <1>1, <1>2, <2>1, <3>2, SlotProgrammed
    <3> QED
      BY <3>2, <3>3 DEF Committed
  <2>2. CASE ~ SessionMoved(Cur)
    <3>1. session' = session
      BY <2>2 DEF UpdateSessionOffset
    <3>2. Cur.last_data_offset = Cur.curr_session_value
      BY <2>2 DEF SessionMoved
    <3> QED
      BY <1>1, <1>2, <3>1, <3>2, WriterOffsets DEF Committed
  <2> QED
    BY <2>1, <2>2
<1>8. \A i \in Cell : i < Committed(c)' => data'[c][i] = Payload(f, origin[c] + i)
  BY <1>1, <1>2, <1>3, <1>7
<1>9. \/ Writes(g)' /\ hd.curr_allocation_unit = c /\ CacheInv(g)'
      \/ /\ ~ Writes(g)'
         /\ \A i \in Cell : i >= Committed(c)' => data'[c][i] = ERASED
         /\ StreamEnd(c)' = stream'[f]
  <2>1. CASE call.op = "close"
    <3>1. ~ Writes(g)'
      BY <1>4, <1>5, <2>1 DEF Writes, Placed, Open_, Hd, FreeHandle
    <3>2. \A i \in Cell : i >= Cur.last_data_offset => data[c][i] = ERASED
      <4> SUFFICES ASSUME NEW i \in Cell, i >= Cur.last_data_offset PROVE data[c][i] = ERASED
        OBVIOUS
      <4>1. i \in Nat
        BY LayoutAssumption DEF Cell
      <4>2. ~ (i < Cur.last_data_offset)
        BY <1>2, <4>1
      <4> QED
        BY <1>2, <4>2
    <3>3. StreamEnd(c)' = stream'[f]
      BY <1>1, <1>2, <1>3, <1>6, <1>7 DEF StreamEnd
    <3> QED
      BY <1>1, <1>7, <3>1, <3>2, <3>3
  <2>2. CASE call.op # "close"
    <3>1. /\ hd.fs_priv /\ hd.writeable /\ hd.curr_allocation_unit = c /\ hd.file_id = f
          /\ hd.last_data_offset = Cur.last_data_offset
          /\ hd.curr_data_offset = Cur.curr_data_offset
          /\ hd.page_cache = Cur.page_cache
      BY <1>2, <1>3, <1>4, <2>2 DEF UpdatedHandle, Handle
    <3>2. Writes(g)'
      BY <1>1, <1>5, <3>1 DEF Writes, Placed, Open_, Hd, Opening, Moving, Growing
    <3>3. CacheInv(g)'
      BY <1>1, <1>2, <1>3, <1>5, <3>1 DEF CacheInv, cached_bytes
    <3> QED
      BY <3>1, <3>2, <3>3
  <2> QED
    BY <2>1, <2>2
<1>10. \A s \in Sector : s # c => session'[s] = session[s] /\ data'[s] = data[s]
  BY <1>1, <1>7
<1>11. \A k : k # f => stream'[k] = stream[k]
  BY <1>1
<1> QED
  BY <1>1, <1>2, <1>3, <1>5, <1>8, <1>9, <1>10, <1>11, WriterStep

\* close without a flush: without a free slot there is nothing to flush.
LEMMA CloseStream ==
  ASSUME IInv, TableInv, SessionInv, ChainInv, StreamInv, NEW g \in HandleId, Close(g)
  PROVE  StreamInv'
<1>1. CASE UNCHANGED fs_priv_handle_list
  BY <1>1, HandleCallsStream
<1>2. CASE SetHandle(g, FreeHandle) /\ ~ Hd(g).writeable /\ Return("FS_NO_ERROR")
  BY <1>2, GivenUpStream DEF Close, flashVars, ghostVars
<1>3. CASE /\ SetHandle(g, FreeHandle) /\ Hd(g).writeable /\ ~ CanFlush(Hd(g))
           /\ Return("FS_NO_ERROR")
  <2>1. /\ pc = "idle" /\ pc' = "idle" /\ call'.op = "none" /\ call.op = "none" /\ Open_(g)
        /\ UNCHANGED <<session, data, alloc_unit_list, stream, origin>>
    BY <1>3 DEF Close, Return, Goto, NoCall, flashVars, ghostVars, IInv, CallInv
  <2>2. Placed(g) /\ \A h \in HandleId : ~ Opening(h) /\ ~ Moving(h)
    BY <2>1, AllPlaced
  <2>3. PICK hd \in Handle : hd = Hd(g)
    BY DEF IInv, TypeOK, Hd
  <2>4. PICK c \in Sector : c = hd.curr_allocation_unit
    BY <2>1, <2>2, <2>3 DEF IInv, HandleInv, Hd
  <2>5. PICK f : f = FileOf(c)
    OBVIOUS
  <2>6. f = hd.file_id /\ f # None /\ Link(c) = None
    BY <1>3, <2>1, <2>2, <2>3, <2>4, <2>5, TableType DEF TableInv, PlaceInv
  <2>7. /\ hd.last_data_offset = Committed(c) /\ hd.curr_data_offset = Committed(c)
    <3>1. /\ hd.curr_session_value = Committed(c)
          /\ hd.curr_session_value <= hd.last_data_offset
          /\ hd.curr_data_offset = hd.curr_session_value
      BY <1>3, <2>2, <2>3, <2>4 DEF SessionInv, WriterInv, CanFlush, None, Committed
    <3>2. /\ hd.curr_session_value \in Nat /\ hd.last_data_offset \in Nat
          /\ hd.curr_data_offset \in Nat
      BY <2>3, OffsetIsNatural DEF Handle
    <3>3. cached_bytes(hd) \in 0 .. page_boundary(hd)
      BY <1>3, <2>1, <2>3 DEF IInv, HandleInv, Hd
    <3>4. page_boundary(hd) \in 1 .. FS_PRIV_PAGE_SIZE
      BY <3>2, PageBoundary DEF page_boundary
    <3>5. hd.last_data_offset <= hd.curr_data_offset
      BY <3>2, <3>3, <3>4, LayoutAssumption DEF cached_bytes
    <3> QED
      BY <3>1, <3>2, <3>5
  <2>8. Writes(g) /\ CacheInv(g)
    BY <1>3, <2>2 DEF Writes, StreamInv
  <2>9. /\ \A i \in Cell : data[c][i] = IF i < Committed(c) THEN Payload(f, origin[c] + i)
                                                            ELSE ERASED
        /\ StreamEnd(c) = stream[f]
    BY <2>3, <2>4, <2>6, <2>7, <2>8 DEF CacheInv, StreamEnd
  <2>10. \A i \in Cell : i >= Committed(c) => data[c][i] = ERASED
    <3> SUFFICES ASSUME NEW i \in Cell, i >= Committed(c) PROVE data[c][i] = ERASED
      OBVIOUS
    <3>1. i \in Nat /\ Committed(c) \in Nat
      <4>1. i \in Nat
        BY LayoutAssumption DEF Cell
      <4>2. Committed(c) \in Nat
        BY <2>3, <2>7, OffsetIsNatural DEF Handle
      <4> QED
        BY <4>1, <4>2
    <3>2. ~ (i < Committed(c))
      BY <3>1
    <3> QED
      BY <2>9, <3>2
  <2>11. Hd(g)' = FreeHandle /\ \A h \in HandleId : h # g => Hd(h)' = Hd(h)
    BY <1>3 DEF SetHandle, Hd, IInv, TypeOK
  <2>12. ~ Writes(g)'
    BY <2>11 DEF Writes, Placed, Open_, Hd, FreeHandle
  <2>13. \A h \in HandleId : h # g => SameWriter(h) /\ (Writes(h) => Hd(h).file_id # f)
    <3>1. \A h \in HandleId : ~ Opening(h)' /\ ~ Moving(h)'
      BY <2>1 DEF Opening, Moving, Growing
    <3>2. \A h \in HandleId : h # g => SameWriter(h)
      BY <2>2, <2>11, <3>1 DEF SameWriter, Writes, Placed, Open_, Hd
    <3>3. \A h \in HandleId : h # g /\ Writes(h) => Hd(h).file_id # f
      BY <2>1, <2>3, <2>6 DEF Writes, Placed, TableInv, Exclusive
    <3> QED
      BY <3>2, <3>3
  <2>14. \A s \in Sector : WritesTo(g, s) => s = c
    BY <2>3, <2>4 DEF WritesTo
  <2>15. /\ \A p \in Sector : Link(p) = c => origin[c] = StreamEnd(p)
         /\ Headless(c) /\ ~ Table[c].circular => origin[c] = 0
    <3>1. c # None /\ ~ Growing /\ call.op # "format" /\ ~ Removing(f)
      BY <2>1, TableType DEF Growing, Removing
    <3>2. \A p \in Sector : Link(p) = c => origin[c] = StreamEnd(p)
      BY <3>1 DEF StreamInv, LinkedInv
    <3>3. Headless(c) /\ ~ Table[c].circular => origin[c] = 0
      BY <2>5, <2>6, <3>1 DEF StreamInv, EndInv
    <3> QED
      BY <3>2, <3>3
  <2>16. /\ StreamEnd(c)' = stream'[f]
         /\ \A i \in Cell : i < Committed(c)' => data'[c][i] = Payload(f, origin'[c] + i)
         /\ \A i \in Cell : i >= Committed(c)' => data'[c][i] = ERASED
    BY <2>1, <2>9, <2>10 DEF StreamEnd, Committed
  <2>17. \A k : ~ Busy(k)
    BY <2>1 DEF Busy, Removing, Growing
  <2>18. ~ Growing /\ ~ Growing'
    BY <2>1 DEF Growing
  <2> QED
    BY <2>1, <2>5, <2>6, <2>12, <2>13, <2>14, <2>15, <2>16, <2>17, <2>18, SectorSettles,
      ZenonT(40)
<1> QED
  BY <1>1, <1>2, <1>3 DEF Close, Hd

\* open ends with the writer at the end of what the last sector holds, and of the stream.
LEMMA OpenAtEndStream ==
  ASSUME IInv, TableInv, SessionInv, ChainInv, StreamInv, OpenAtEnd
  PROVE  StreamInv'
<1>1. /\ pc = "find_last_allocation_unit" /\ pc' = "idle" /\ call'.op = "none" /\ OnHandle
      /\ UNCHANGED <<session, data, alloc_unit_list, stream, origin>>
      /\ call.op = "open" /\ call.sector \in Sector
      /\ alloc_unit_list[call.sector].next_allocation_unit = None
      /\ FileOf(call.sector) = Cur.file_id
  BY DEF OpenAtEnd, is_last_allocation_unit, None, Return, Goto, NoCall, flashVars, ghostVars,
    OnHandle, IInv, CallInv, TableInv, PathInv, OpenInv
<1>2. PICK g \in HandleId : g = call.handle /\ Open_(g) /\ Cur = Hd(g) /\ Cur \in Handle
  BY <1>1, CurHandle
<1>3. PICK c \in Sector : c = call.sector
  BY <1>1
<1>4. PICK f \in FileId : f = Cur.file_id /\ f = FileOf(c)
  BY <1>1, <1>2, <1>3 DEF TableInv, PlaceInv
<1>5. /\ Cur.writeable /\ Opening(g) /\ f # None /\ Link(c) = None
      /\ \A h \in HandleId : h # g /\ Open_(h) => Hd(h).file_id # f
  BY <1>1, <1>2, <1>3, <1>4, TableType DEF TableInv, PlaceInv, Exclusive, Opening, Link, Table
<1>6. PICK end \in Offset : end = Committed(c)
  BY SessionScanType DEF IInv, TypeOK, Committed
<1>7. end \in Nat
  BY <1>6, OffsetIsNatural
<1>8. PICK hd : /\ SetHandle(g, hd) /\ hd.fs_priv /\ hd.writeable
                /\ hd.curr_allocation_unit = c /\ hd.file_id = f
                /\ hd.last_data_offset = end /\ hd.curr_data_offset = end
  <2> DEFINE hd == [Cur EXCEPT !.curr_allocation_unit = c,
                               !.curr_session_offset = next_session(session[c]),
                               !.curr_session_value = end,
                               !.last_data_offset = end,
                               !.curr_data_offset = end]
  <2>1. /\ hd.fs_priv /\ hd.writeable /\ hd.curr_allocation_unit = c /\ hd.file_id = f
        /\ hd.last_data_offset = end /\ hd.curr_data_offset = end
    BY <1>2, <1>4, <1>5 DEF Handle, Open_, Hd
  <2>2. SetHandle(g, hd)
    BY <1>2, <1>3, <1>6 DEF OpenAtEnd, Committed
  <2> QED
    BY <2>1, <2>2
<1>9. Hd(g)' = hd /\ \A h \in HandleId : h # g => Hd(h)' = Hd(h)
  BY <1>8 DEF SetHandle, Hd, IInv, TypeOK
<1>10. ~ Growing /\ ~ Growing' /\ pc # "unmounted" /\ \A k : ~ Busy(k) /\ ~ Removing(k)
  BY <1>1 DEF Growing, Busy, Removing
<1>11. /\ \A h \in HandleId : ~ Opening(h)' /\ ~ Moving(h)' /\ ~ Moving(h)
       /\ \A h \in HandleId : h # g => ~ Opening(h)
  BY <1>1, <1>2, <1>10 DEF Opening, Moving
<1>12. \A h \in HandleId : h # g => SameWriter(h) /\ (Writes(h) => Hd(h).file_id # f)
  BY <1>5, <1>9, <1>11 DEF SameWriter, Writes, Placed, Open_, Hd
<1>13. /\ \A s \in Sector : ~ WritesTo(g, s)
       /\ \A h \in HandleId : ~ WritesTo(h, c)
  <2>1. ~ Writes(g)
    BY <1>5 DEF Writes, Placed
  <2>2. ASSUME NEW h \in HandleId, h # g PROVE ~ WritesTo(h, c)
    <3>1. Writes(h) /\ Hd(h).curr_allocation_unit = c => Hd(h).file_id = f
      BY <1>4 DEF Writes, TableInv, PlaceInv
    <3> QED
      BY <1>12, <2>2, <3>1 DEF WritesTo
  <2> QED
    BY <2>1, <2>2 DEF WritesTo
<1>14. /\ StreamEnd(c) = stream[f]
       /\ \A p \in Sector : Link(p) = c => origin[c] = StreamEnd(p)
       /\ Headless(c) /\ ~ Table[c].circular => origin[c] = 0
  <2>1. c # None /\ call.op # "format"
    BY <1>1, TableType
  <2>2. \A p \in Sector : Link(p) = c => origin[c] = StreamEnd(p)
    BY <1>10, <2>1 DEF StreamInv, LinkedInv
  <2>3. /\ StreamEnd(c) = stream[f]
        /\ Headless(c) /\ ~ Table[c].circular => origin[c] = 0
    BY <1>4, <1>5, <1>10, <1>13, <2>1 DEF StreamInv, EndInv
  <2> QED
    BY <2>2, <2>3
<1>15. \A i \in Cell : data[c][i] = IF i < end THEN Payload(f, origin[c] + i) ELSE ERASED
  <2> SUFFICES ASSUME NEW i \in Cell
               PROVE  data[c][i] = IF i < end THEN Payload(f, origin[c] + i) ELSE ERASED
    OBVIOUS
  <2>1. /\ i < Committed(c) => data[c][i] = Payload(f, origin[c] + i)
        /\ i >= Committed(c) => data[c][i] = ERASED
    BY <1>4, <1>5, <1>13 DEF StreamInv, DataInv
  <2>2. i \in Nat
    BY LayoutAssumption DEF Cell
  <2> QED
    BY <1>6, <1>7, <2>1, <2>2
<1>16. Writes(g)'
  BY <1>8, <1>9, <1>11 DEF Writes, Placed, Open_, Hd
<1>17. CacheInv(g)'
  <2>1. \A i \in PageIdx : ~ (i < cached_bytes(hd))
    BY <1>7, <1>8, LayoutAssumption DEF cached_bytes, PageIdx
  <2>2. origin[c] + end = stream[f]
    BY <1>6, <1>14 DEF StreamEnd
  <2> QED
    BY <1>1, <1>8, <1>9, <1>15, <2>1, <2>2 DEF CacheInv, cached_bytes
<1>18. \A i \in Cell : i < Committed(c)' => data'[c][i] = Payload(f, origin'[c] + i)
  BY <1>1, <1>6, <1>15 DEF Committed
<1>19. Writes(g)' /\ Hd(g)'.curr_allocation_unit = c /\ CacheInv(g)'
  BY <1>8, <1>9, <1>16, <1>17
<1> QED
  BY <1>1, <1>4, <1>5, <1>10, <1>12, <1>13, <1>14, <1>18, <1>19, SectorSettles

\* allocate_new_sector_to_file ends with the writer at the start of a blank sector, where
\* the stream goes on, or begins.
LEMMA WriteFileInfoStream ==
  ASSUME IInv, TableInv, SessionInv, ChainInv, StreamInv, WriteFileInfo
  PROVE  StreamInv'
<1>1. /\ pc = "write_file_info" /\ pc' \in {"idle", "write"} /\ call'.op \in {"none", "write"}
      /\ UNCHANGED <<session, data, alloc_unit_list>>
      /\ call.op \in {"open", "write"} /\ OnHandle /\ call.sector \in Sector
  <2>1. /\ call \in Call /\ pc = "write_file_info" /\ call.op \in {"open", "write"}
        /\ call.sector \in Sector
    BY DEF WriteFileInfo, IInv, TypeOK, CallInv
  <2> QED
    BY <2>1 DEF WriteFileInfo, Return, Goto, NoCall, Call, OnHandle
<1>2. PICK g \in HandleId : g = call.handle /\ Open_(g) /\ Cur = Hd(g) /\ Cur \in Handle
  BY <1>1, CurHandle
<1>3. PICK c \in Sector : c = call.sector
  BY <1>1
<1>4. PICK f \in FileId : f = Cur.file_id
  BY <1>2 DEF TableInv, PlaceInv
<1>5. /\ FileOf(c) = f /\ f # None /\ Link(c) = None /\ c # None
      /\ Growing /\ ~ Growing' /\ Moving(g) /\ pc # "unmounted"
  BY <1>1, <1>2, <1>3, <1>4, TableType DEF TableInv, PathInv, GrowInv, Growing, Moving
<1>6. /\ Cur.writeable
      /\ \A h \in HandleId : h # g /\ Open_(h) => Hd(h).file_id # f
  <2>1. Cur.writeable
    BY <1>1, <1>2 DEF TableInv, PlaceInv, Opening, IInv, CallInv
  <2> QED
    BY <1>2, <1>4, <2>1 DEF TableInv, Exclusive
<1>7. PICK begin : begin = IF call.op = "open" THEN 0 ELSE stream[f]
  OBVIOUS
<1>8. /\ stream' = [stream EXCEPT ![f] = begin] /\ origin' = [origin EXCEPT ![c] = begin]
      /\ begin \in Nat
  BY <1>3, <1>4, <1>7 DEF WriteFileInfo, IInv, TypeOK, Nil
<1>9. /\ stream'[f] = begin /\ \A k : k # f => stream'[k] = stream[k]
      /\ origin'[c] = begin /\ \A s \in Sector : s # c => origin'[s] = origin[s]
  BY <1>8 DEF IInv, TypeOK, Nil
<1>10. PICK hd : /\ SetHandle(g, hd) /\ hd.fs_priv /\ hd.writeable
                 /\ hd.curr_allocation_unit = c /\ hd.file_id = f
                 /\ hd.last_data_offset = 0 /\ hd.curr_data_offset = 0
  <2> DEFINE hd == [Cur EXCEPT !.curr_allocation_unit = c,
                               !.last_data_offset = 0,
                               !.curr_data_offset = 0,
                               !.curr_session_offset = 0,
                               !.curr_session_value = 0,
                               !.page_cache = EmptyCache]
  <2>1. /\ hd.fs_priv /\ hd.writeable /\ hd.curr_allocation_unit = c /\ hd.file_id = f
        /\ hd.last_data_offset = 0 /\ hd.curr_data_offset = 0
    BY <1>2, <1>4, <1>6 DEF Handle, Open_, Hd
  <2>2. SetHandle(g, hd)
    BY <1>2, <1>3 DEF WriteFileInfo
  <2> QED
    BY <2>1, <2>2
<1>11. Hd(g)' = hd /\ \A h \in HandleId : h # g => Hd(h)' = Hd(h)
  BY <1>10 DEF SetHandle, Hd, IInv, TypeOK
<1>12. /\ \A h \in HandleId : ~ Opening(h)' /\ ~ Moving(h)'
       /\ \A h \in HandleId : h # g => ~ Opening(h) /\ ~ Moving(h)
  BY <1>1, <1>2, <1>5 DEF Opening, Moving
<1>13. \A h \in HandleId : h # g => SameWriter(h) /\ (Writes(h) => Hd(h).file_id # f)
  BY <1>6, <1>11, <1>12 DEF SameWriter, Writes, Placed, Open_, Hd
<1>14. \A s \in Sector : ~ WritesTo(g, s)
  BY <1>5 DEF WritesTo, Writes, Placed
<1>15. /\ \A k : Busy(k) => k = f
       /\ call.op \notin {"remove", "format"}
  BY <1>1, <1>4 DEF Busy, Removing
<1>16. data[c] = ErasedData /\ Committed(c) = 0
  BY <1>3, <1>5, ScanErased DEF SessionInv, BlankInv, Blank, Committed
<1>17. \A p \in Sector : Link(p) = c => origin'[c] = StreamEnd(p)
  <2> SUFFICES ASSUME NEW p \in Sector, Link(p) = c PROVE begin = StreamEnd(p)
    BY <1>9
  <2>1. CASE call.op = "open"
    <3>1. Headless(c)
      BY <1>3, <1>5, <2>1 DEF StreamInv, GrowthInv, Headless
    <3> QED
      BY <3>1 DEF Headless
  <2>2. CASE call.op = "write"
    BY <1>3, <1>4, <1>5, <1>7, <2>2 DEF StreamInv, GrowthInv
  <2> QED
    BY <1>1, <2>1, <2>2
<1>18. Headless(c) /\ ~ Table[c].circular => origin'[c] = 0
  <2> SUFFICES ASSUME Headless(c), ~ Table[c].circular PROVE begin = 0
    BY <1>9
  <2>1. Headless(call.sector) /\ ~ Table[call.sector].circular
    BY <1>3 DEF Headless
  <2> QED
    BY <1>5, <1>7, <2>1 DEF StreamInv, GrowthInv
<1>19. \A i \in Cell : data[c][i] = ERASED /\ ~ (i < 0)
  BY <1>16, LayoutAssumption DEF ErasedData, Cell
<1>20. Writes(g)'
  BY <1>10, <1>11, <1>12 DEF Writes, Placed, Open_, Hd
<1>21. CacheInv(g)'
  <2>1. \A i \in PageIdx : ~ (i < cached_bytes(hd))
    BY <1>10, LayoutAssumption DEF cached_bytes, PageIdx
  <2>2. origin'[c] + 0 = stream'[f]
    BY <1>8, <1>9
  <2>3. \A i \in Cell : data'[c][i] = ERASED /\ ~ (i < 0)
    BY <1>1, <1>19
  <2> QED
    BY <1>10, <1>11, <2>1, <2>2, <2>3 DEF CacheInv, cached_bytes
<1>22. \A i \in Cell : i < Committed(c)' => data'[c][i] = Payload(f, origin'[c] + i)
  BY <1>1, <1>16, <1>19 DEF Committed
<1>23. Writes(g)' /\ Hd(g)'.curr_allocation_unit = c /\ CacheInv(g)'
  BY <1>10, <1>11, <1>20, <1>21
<1>24. pc' # "unmounted" /\ pc' # "write_counter"
  BY <1>1
<1>25. \A s \in Sector : s # c => /\ session'[s] = session[s]
                                  /\ data'[s] = data[s] /\ origin'[s] = origin[s]
  BY <1>1, <1>9
<1> QED
  BY <1>1, <1>3, <1>5, <1>9, <1>13, <1>14, <1>15, <1>17, <1>18, <1>22, <1>23, <1>24, <1>25,
     SectorSettles

-----------------------------------------------------------------------------
(***************************************************************************)
(* Steps that erase a sector or add one to a file.                         *)
(***************************************************************************)

\* What the running write knows when it gives up its root: its own sector is committed.
LEMMA LeaverKnows ==
  ASSUME IInv, TableInv, SessionInv, StreamInv, pc = "erase_block" \/ pc = "allocate",
         call.op = "write"
  PROVE  \E g \in HandleId, c \in Sector : \E f \in FileId :
           /\ g = call.handle /\ Cur = Hd(g) /\ Writes(g) /\ f = Cur.file_id
           /\ c = Cur.curr_allocation_unit /\ FileOf(c) = f
           /\ \A i \in Cell : i >= Committed(c) => data[c][i] = ERASED
           /\ StreamEnd(c) = stream[f]
<1>1. OnHandle
  BY DEF OnHandle
<1>2. PICK g \in HandleId : g = call.handle /\ Open_(g) /\ Cur = Hd(g) /\ Cur \in Handle
  BY <1>1, CurHandle
<1>3. Writes(g)
  BY <1>1, <1>2 DEF Writes, Placed, Opening, Moving, Growing, IInv, CallInv
<1>4. PICK c \in Sector : c = Cur.curr_allocation_unit
  BY <1>2, <1>3 DEF IInv, HandleInv, Writes, Placed, Hd
<1>5. PICK f \in FileId : f = Cur.file_id /\ FileOf(c) = f
  BY <1>2, <1>3, <1>4 DEF TableInv, PlaceInv, Writes, Placed
<1>6. Cur.curr_data_offset = Committed(c)
  BY <1>4 DEF SessionInv, FlushInv, Leaving
<1>7. /\ \A i \in Cell : data[c][i] = IF i < Cur.last_data_offset
                                        THEN Payload(f, origin[c] + i) ELSE ERASED
      /\ origin[c] + Cur.curr_data_offset = stream[f]
  BY <1>2, <1>3, <1>4, <1>5 DEF StreamInv, CacheInv
<1>8. /\ Cur.last_data_offset \in Nat /\ Cur.curr_data_offset \in Nat
      /\ Cur.last_data_offset <= Cur.curr_data_offset
  <2>1. Cur.last_data_offset \in Nat /\ Cur.curr_data_offset \in Nat
    BY <1>2, OffsetIsNatural DEF Handle
  <2>2. cached_bytes(Cur) \in 0 .. page_boundary(Cur)
    BY <1>2, <1>3 DEF IInv, HandleInv, Hd, Writes
  <2>3. page_boundary(Cur) \in 1 .. FS_PRIV_PAGE_SIZE
    BY <2>1, PageBoundary DEF page_boundary
  <2>4. cached_bytes(Cur) >= 0
    BY <2>2, <2>3, LayoutAssumption
  <2> QED
    BY <2>1, <2>4 DEF cached_bytes
<1>9. ASSUME NEW i \in Cell, i >= Committed(c) PROVE data[c][i] = ERASED
  <2>1. i \in Nat
    BY LayoutAssumption DEF Cell
  <2>2. ~ (i < Cur.last_data_offset)
    BY <1>6, <1>8, <1>9, <2>1
  <2> QED
    BY <1>7, <2>2
<1>10. StreamEnd(c) = stream[f]
  BY <1>6, <1>7 DEF StreamEnd
<1> QED
  BY <1>2, <1>3, <1>4, <1>5, <1>9, <1>10

\* A root is erased; the writer of a circular file is between two sectors from here on.
LEMMA EraseBlockStream ==
  ASSUME IInv, TableInv, TableInv', SessionInv, ChainInv, StreamInv, EraseBlock
  PROVE  StreamInv'
<1>1. PICK s \in Sector :
        /\ s = call.sector /\ pc = "erase_block" /\ pc' = "write_counter"
        /\ call' = call /\ UNCHANGED <<fs_priv_handle_list, stream>> /\ Cur' = Cur
  BY DEF EraseBlock, IInv, CallInv, Cur
<1>2. /\ \A t \in Sector : t # s =>
           /\ FileOf(t)' = FileOf(t) /\ Link(t)' = Link(t) /\ Table'[t] = Table[t]
           /\ session'[t] = session[t] /\ data'[t] = data[t] /\ origin'[t] = origin[t]
           /\ Committed(t)' = Committed(t) /\ StreamEnd(t)' = StreamEnd(t)
      /\ FileOf(s)' = None /\ Link(s)' = None /\ data'[s] = ErasedData
  <2>1. alloc_unit_list' =
           [alloc_unit_list EXCEPT
              ![s] = [ErasedHeader EXCEPT
                        !.alloc_counter = NextCounter(alloc_unit_list[s].alloc_counter)]]
        /\ alloc_unit_list \in [Sector -> Header]
    BY <1>1 DEF EraseBlock, IInv, TypeOK
  <2>2. /\ \A t \in Sector : t # s =>
             FileOf(t)' = FileOf(t) /\ Link(t)' = Link(t) /\ Table'[t] = Table[t]
        /\ FileOf(s)' = None /\ Link(s)' = None
    BY <1>1, <2>1 DEF Table, FileOf, Link, ErasedHeader, None
  <2>3. /\ \A t \in Sector : t # s =>
             session'[t] = session[t] /\ data'[t] = data[t] /\ origin'[t] = origin[t]
        /\ data'[s] = ErasedData
    BY <1>1 DEF EraseBlock, IInv, TypeOK
  <2> QED
    BY <2>2, <2>3 DEF Committed, StreamEnd
<1>3. /\ call.op \in {"write", "remove", "format"}
      /\ call.op # "format" => Headless(s) /\ FileOf(s) \in FileId
      /\ call.op = "remove" => FileOf(s) = call.file
      /\ call.op = "write" => FileOf(s) = Cur.file_id /\ Cur.circular
  <2>1. EraseInv
    BY DEF TableInv, PathInv
  <2>2. ASSUME call.op = "write" PROVE RootOf(s, Cur.file_id) /\ Cur.file_id \in FileId
    <3>1. OnHandle
      BY <1>1, <2>2 DEF OnHandle
    <3>2. PICK g \in HandleId : g = call.handle /\ Open_(g) /\ Cur = Hd(g)
      BY <3>1, CurHandle
    <3>3. Placed(g)
      BY <1>1, <2>2, <3>2 DEF Placed, Moving, Growing, Opening
    <3> QED
      BY <1>1, <2>1, <2>2, <3>2, <3>3 DEF EraseInv, Erasing, TableInv, PlaceInv
  <2> QED
    BY <1>1, <2>1, <2>2 DEF EraseInv, Erasing, RootOf
<1>4. \A h \in HandleId :
        /\ Hd(h)' = Hd(h) /\ Open_(h)' = Open_(h)
        /\ Writes(h)' <=> (Writes(h) /\ ~ (call.op = "write" /\ call.handle = h))
  <2> SUFFICES ASSUME NEW h \in HandleId
               PROVE  /\ Hd(h)' = Hd(h) /\ Open_(h)' = Open_(h)
                      /\ Writes(h)' <=> (Writes(h) /\ ~ (call.op = "write" /\ call.handle = h))
    OBVIOUS
  <2>1. /\ Hd(h)' = Hd(h) /\ Open_(h)' = Open_(h) /\ (Opening(h)' <=> Opening(h))
        /\ ~ Moving(h) /\ (Moving(h)' <=> (call.op = "write" /\ call.handle = h))
    BY <1>1 DEF Hd, Open_, Opening, Moving, Growing
  <2> QED
    BY <2>1 DEF Writes, Placed
<1>5. None \notin Sector /\ None \notin FileId /\ ~ Growing /\ ~ Growing'
      /\ \A t \in Sector : Link(t) \in Nil(Sector)
  BY <1>1, TableType DEF Growing
\* The sector the writer leaves.
<1>6. ASSUME NEW h \in HandleId, NEW t \in Sector, WritesTo(h, t), ~ WritesTo(h, t)'
      PROVE  /\ call.op = "write" /\ FileOf(t) = Cur.file_id
             /\ \A i \in Cell : i >= Committed(t) => data[t][i] = ERASED
  <2>1. call.op = "write" /\ call.handle = h
    BY <1>4, <1>6 DEF WritesTo
  <2>2. PICK g \in HandleId, c \in Sector : \E f \in FileId :
           /\ g = call.handle /\ Cur = Hd(g) /\ Writes(g) /\ f = Cur.file_id
           /\ c = Cur.curr_allocation_unit /\ FileOf(c) = f
           /\ \A i \in Cell : i >= Committed(c) => data[c][i] = ERASED
           /\ StreamEnd(c) = stream[f]
    BY <1>1, <2>1, LeaverKnows
  <2>3. t = c
    BY <1>6, <2>1, <2>2 DEF WritesTo
  <2> QED
    BY <2>1, <2>2, <2>3
<1>7. DataInv'
  <2> SUFFICES ASSUME NEW t \in Sector
               PROVE  /\ FileOf(t)' # None =>
                           \A i \in Cell : i < Committed(t)' =>
                             data'[t][i] = Payload(FileOf(t)', origin'[t] + i)
                      /\ (\A h \in HandleId : ~ WritesTo(h, t)') =>
                           \A i \in Cell : i >= Committed(t)' => data'[t][i] = ERASED
    BY DEF DataInv
  <2>1. CASE t = s
    BY <1>2, <2>1 DEF ErasedData
  <2>2. CASE t # s
    <3>1. FileOf(t) # None =>
            \A i \in Cell : i < Committed(t) => data[t][i] = Payload(FileOf(t), origin[t] + i)
      BY DEF StreamInv, DataInv
    <3>2. (\A h \in HandleId : ~ WritesTo(h, t)) =>
            \A i \in Cell : i >= Committed(t) => data[t][i] = ERASED
      BY DEF StreamInv, DataInv
    <3>3. (\A h \in HandleId : ~ WritesTo(h, t)') =>
            \A i \in Cell : i >= Committed(t) => data[t][i] = ERASED
      BY <1>6, <3>2
    <3> QED
      BY <1>2, <2>2, <3>1, <3>3
  <2> QED
    BY <2>1, <2>2
<1>8. ASSUME NEW h \in HandleId, Writes(h)' PROVE CacheInv(h)'
  <2>1. Hd(h)' = Hd(h) /\ Writes(h) /\ Placed(h)'
    BY <1>4, <1>8 DEF Writes
  <2>2. PICK c \in Sector : c = Hd(h).curr_allocation_unit
    BY <2>1 DEF IInv, HandleInv, Writes, Placed, Hd
  <2>3. FileOf(c)' = Hd(h).file_id /\ Hd(h).file_id \in FileId
    BY <2>1, <2>2 DEF TableInv, PlaceInv, FileOf, Writes, Placed
  <2>4. c # s
    BY <1>2, <1>5, <2>3
  <2>5. CacheInv(h)
    BY DEF StreamInv
  <2> QED
    BY <1>1, <1>2, <2>1, <2>2, <2>4, <2>5 DEF CacheInv
<1>9. LinkedInv'
  <2> SUFFICES ASSUME call.op # "format", NEW t \in Sector, Link(t)' # None
               PROVE  origin'[Link(t)'] = StreamEnd(t)'
    BY <1>1 DEF LinkedInv
  <2>1. t # s /\ Link(t)' = Link(t) /\ Link(t) \in Sector /\ Link(t) # s
    BY <1>2, <1>3, <1>5 DEF Headless, Nil, None
  <2>2. origin[Link(t)] = StreamEnd(t)
    BY <1>5, <2>1 DEF StreamInv, LinkedInv
  <2> QED
    BY <1>2, <2>1, <2>2
<1>10. EndInv'
  <2> SUFFICES ASSUME call.op # "format", NEW t \in Sector, FileOf(t)' # None
               PROVE  /\ Link(t)' = None =>
                           \/ Busy(FileOf(t))'
                           \/ \E h \in HandleId : WritesTo(h, t)'
                           \/ StreamEnd(t)' = stream'[FileOf(t)']
                      /\ Headless(t)' /\ ~ Table'[t].circular =>
                           Removing(FileOf(t))' \/ origin'[t] = 0
    BY <1>1 DEF EndInv
  <2>1. t # s /\ FileOf(t)' = FileOf(t)
    BY <1>2
  <2>2. PICK f : f = FileOf(t) /\ f = FileOf(t)' /\ f # None
    BY <2>1
  <2>3. Removing(FileOf(t))' <=> (call.op = "remove" /\ call.file = f)
    BY <1>1, <2>2 DEF Removing, Erasing
  <2>4. Busy(f) => call.op = "remove" /\ call.file = f
    BY <1>1, <1>5 DEF Busy, Removing
  <2>5. call.op = "write" /\ Cur.file_id = f => Busy(FileOf(t))'
    BY <1>1, <2>2 DEF Busy
  <2>6. Removing(FileOf(t))' => Busy(FileOf(t))'
    BY DEF Busy
  <2>7. Link(t) = None =>
           Busy(f) \/ (\E h \in HandleId : WritesTo(h, t)) \/ StreamEnd(t) = stream[f]
    BY <2>2 DEF StreamInv, EndInv
  <2>8. Headless(t) /\ ~ Table[t].circular => Removing(f) \/ origin[t] = 0
    BY <1>5, <2>2 DEF StreamInv, EndInv
  <2>9. Link(t)' = None =>
           \/ Busy(FileOf(t))'
           \/ \E h \in HandleId : WritesTo(h, t)'
           \/ StreamEnd(t)' = stream'[FileOf(t)']
    BY <1>1, <1>2, <1>6, <2>1, <2>2, <2>3, <2>4, <2>5, <2>6, <2>7
  <2>10. ASSUME Headless(t)', ~ Table'[t].circular
         PROVE  Removing(FileOf(t))' \/ origin'[t] = 0
    <3>1. ~ Table[t].circular /\ origin'[t] = origin[t]
      BY <1>2, <2>1, <2>10
    <3>2. CASE Headless(t)
      BY <2>3, <2>8, <3>1, <3>2 DEF Removing
    <3>3. CASE ~ Headless(t)
      <4>1. t = Link(s)
        BY <1>2, <1>5, <2>10, <3>3 DEF Headless
      <4>2. FileOf(s) = f
        BY <1>5, <2>2, <4>1 DEF TableInv, LinkInv
      <4>3. CASE call.op = "remove"
        BY <1>3, <2>3, <4>2, <4>3
      <4>4. CASE call.op = "write"
        <5>1. PICK g \in HandleId : g = call.handle /\ Open_(g) /\ Cur = Hd(g)
          BY <1>1, <4>4, CurHandle DEF OnHandle
        <5>2. Table[t].circular = Hd(g).circular
          BY <1>3, <2>2, <4>2, <4>4, <5>1 DEF ChainInv, CircularInv
        <5> QED
          BY <1>3, <3>1, <4>4, <5>1, <5>2
      <4> QED
        BY <1>3, <4>3, <4>4
    <3> QED
      BY <3>2, <3>3
  <2> QED
    BY <2>9, <2>10
<1>11. GrowthInv'
  <2> SUFFICES ASSUME call.op = "write", call.sector # Cur.curr_allocation_unit
               PROVE  StreamEnd(Cur.curr_allocation_unit)' = stream[Cur.file_id]
    BY <1>1, <1>5 DEF GrowthInv
  <2>1. PICK g \in HandleId, c \in Sector : \E f \in FileId :
           /\ g = call.handle /\ Cur = Hd(g) /\ Writes(g) /\ f = Cur.file_id
           /\ c = Cur.curr_allocation_unit /\ FileOf(c) = f
           /\ \A i \in Cell : i >= Committed(c) => data[c][i] = ERASED
           /\ StreamEnd(c) = stream[f]
    BY <1>1, LeaverKnows
  <2>2. c # s /\ StreamEnd(c)' = stream[Cur.file_id] /\ c = Cur'.curr_allocation_unit
    BY <1>1, <1>2, <2>1
  <2>3. StreamEnd(Cur.curr_allocation_unit)' = StreamEnd(c)'
    BY <2>2 DEF StreamEnd, Committed
  <2> QED
    BY <2>2, <2>3
<1>12. MountedInv'
  BY <1>1 DEF MountedInv
<1> QED
  BY <1>7, <1>8, <1>9, <1>10, <1>11, <1>12 DEF StreamInv, CacheInv

\* A sector enters the file of the running call's writer: the writer has left its last
\* sector, where the stream of the file ends, and is not in the new one yet.
LEMMA AllocateStream ==
  ASSUME IInv, TableInv, SessionInv, ChainInv, StreamInv, AllocateFree \/ Recycled
  PROVE  StreamInv'
<1>1. PICK s \in Sector, root \in Nil(Sector) : Claims(s, root)
  BY ClaimsSector
<1>2. PICK g \in HandleId : \E f \in FileId : \E curr \in Nil(Sector) :
        ClaimedBy(s, root, g, f, curr)
  BY <1>1, ClaimEffect
<1>3. PICK f \in FileId : \E curr \in Nil(Sector) : ClaimedBy(s, root, g, f, curr)
  BY <1>2
<1>4. PICK curr \in Nil(Sector) : ClaimedBy(s, root, g, f, curr)
  BY <1>3
<1>5. /\ UNCHANGED <<session, data, origin, stream>>
      /\ pc \in {"allocate", "write_counter"} /\ call.op \in {"open", "write"}
      /\ pc = "write_counter" => call.op = "write" /\ Cur.circular
  <2>1. /\ UNCHANGED <<session, data, origin, stream>>
        /\ pc \in {"allocate", "write_counter"} /\ call.op \in {"open", "write"}
    BY <1>1 DEF AllocateFree, Recycled, flashVars, ghostVars, Claims
  <2> QED
    BY <2>1 DEF TableInv, PathInv, EraseInv, Erasing
<1>6. pc = "write_counter" => call.sector = s
  <2>1. ASSUME pc = "write_counter" PROVE call'.sector = call.sector
    <3>1. Recycled /\ call \in Call
      BY <2>1 DEF AllocateFree, IInv, TypeOK
    <3> QED
      BY <3>1 DEF Recycled, Claim, Goto, Call
  <2> QED
    BY <1>4, <2>1 DEF ClaimedBy
<1>7. \A h \in HandleId : h # g => Hd(h)' = Hd(h)
  <2>1. PICK hd : SetHandle(g, hd)
    BY <1>1, <1>4 DEF Claims, Claim, ClaimedBy
  <2> QED
    BY <2>1 DEF SetHandle, Hd, IInv, TypeOK
<1>8. /\ g = call.handle /\ Open_(g) /\ Cur = Hd(g) /\ f = Hd(g).file_id /\ Hd(g).writeable
      /\ FileOf(s) = None /\ Link(s) = None /\ Headless(s)
      /\ FileOf(s)' = f /\ Link(s)' = None
      /\ Table'[s].circular = Hd(g).circular
      /\ Growing' /\ call'.op = call.op /\ call'.sector = s /\ call'.handle = g
      /\ \A t \in Sector : t # s =>
           /\ FileOf(t)' = FileOf(t)
           /\ Link(t)' = IF t = curr THEN s ELSE Link(t)
           /\ Table'[t].circular = Table[t].circular
      /\ IF root = None THEN curr = None /\ Unused(f)
         ELSE /\ curr \in Sector /\ curr = Hd(g).curr_allocation_unit /\ curr # s
              /\ call.op = "write" /\ FileOf(curr) = f /\ Link(curr) = None
      /\ \A h \in HandleId : Open_(h)' = Open_(h) /\ SameAttrs(h)
  BY <1>4 DEF ClaimedBy
<1>9. None \notin Sector /\ f # None /\ ~ Growing /\ pc' \in {"write_next", "write_file_info"}
  BY <1>5, <1>8, TableType DEF Growing
<1>10. \A h \in HandleId : h # g => SameWriter(h)
  <2>1. \A h \in HandleId : h # g => /\ ~ Opening(h) /\ ~ Opening(h)'
                                     /\ ~ Moving(h) /\ ~ Moving(h)'
    BY <1>8 DEF Opening, Moving
  <2> QED
    BY <1>7, <2>1 DEF SameWriter, Writes, Placed, Open_, Hd
<1>11. ~ Writes(g)'
  BY <1>8 DEF Writes, Placed, Moving
<1>12. /\ Cur' = Hd(g)' /\ Cur'.file_id = f
       /\ Busy(f)'
  <2>1. Cur' = Hd(g)' /\ Cur'.file_id = f
    BY <1>8 DEF Cur, Hd, SameAttrs
  <2> QED
    BY <1>5, <1>8, <2>1 DEF Busy
<1>13. Blank(s) /\ Committed(s) = 0
  BY <1>8, ScanErased DEF SessionInv, BlankInv, Blank, Committed
<1>14. \A t \in Sector : Committed(t)' = Committed(t) /\ StreamEnd(t)' = StreamEnd(t)
  BY <1>5 DEF Committed, StreamEnd
\* The sector the writer has just left.
<1>15. ASSUME Writes(g)
       PROVE  /\ call.op = "write" /\ Hd(g).curr_allocation_unit \in Sector
              /\ FileOf(Hd(g).curr_allocation_unit) = f
              /\ StreamEnd(Hd(g).curr_allocation_unit) = stream[f]
              /\ \A i \in Cell : i >= Committed(Hd(g).curr_allocation_unit) =>
                   data[Hd(g).curr_allocation_unit][i] = ERASED
  <2>1. pc = "allocate" /\ call.op = "write"
    BY <1>5, <1>8, <1>15 DEF Writes, Placed, Opening, Moving
  <2>2. PICK h \in HandleId, c \in Sector : \E k \in FileId :
           /\ h = call.handle /\ Cur = Hd(h) /\ Writes(h) /\ k = Cur.file_id
           /\ c = Cur.curr_allocation_unit /\ FileOf(c) = k
           /\ \A i \in Cell : i >= Committed(c) => data[c][i] = ERASED
           /\ StreamEnd(c) = stream[k]
    BY <2>1, LeaverKnows
  <2>3. c = Hd(g).curr_allocation_unit
    BY <1>8, <2>2
  <2>4. StreamEnd(c) = stream[f] /\ FileOf(c) = f
    BY <1>8, <2>2
  <2> QED
    BY <2>1, <2>2, <2>3, <2>4
<1>16. ASSUME NEW h \in HandleId, NEW t \in Sector, WritesTo(h, t), ~ WritesTo(h, t)'
       PROVE  FileOf(t) = f /\ \A i \in Cell : i >= Committed(t) => data[t][i] = ERASED
  <2>1. h = g /\ Writes(g) /\ t = Hd(g).curr_allocation_unit
    BY <1>10, <1>16 DEF WritesTo, SameWriter
  <2> QED
    BY <1>15, <2>1
<1>17. DataInv'
  <2> SUFFICES ASSUME NEW t \in Sector
               PROVE  /\ FileOf(t)' # None =>
                           \A i \in Cell : i < Committed(t) =>
                             data[t][i] = Payload(FileOf(t)', origin[t] + i)
                      /\ (\A h \in HandleId : ~ WritesTo(h, t)') =>
                           \A i \in Cell : i >= Committed(t) => data[t][i] = ERASED
    BY <1>5, <1>14 DEF DataInv
  <2>1. CASE t = s
    BY <1>13, <2>1, LayoutAssumption DEF Blank, ErasedData, Cell
  <2>2. CASE t # s
    <3>1. /\ FileOf(t)' = FileOf(t)
          /\ FileOf(t) # None =>
               \A i \in Cell : i < Committed(t) => data[t][i] = Payload(FileOf(t), origin[t] + i)
          /\ (\A h \in HandleId : ~ WritesTo(h, t)) =>
               \A i \in Cell : i >= Committed(t) => data[t][i] = ERASED
      BY <1>8, <2>2 DEF StreamInv, DataInv
    <3>2. (\A h \in HandleId : ~ WritesTo(h, t)') =>
            \A i \in Cell : i >= Committed(t) => data[t][i] = ERASED
      BY <1>16, <3>1
    <3> QED
      BY <3>1, <3>2
  <2> QED
    BY <2>1, <2>2
<1>18. ASSUME NEW h \in HandleId, Writes(h)' PROVE CacheInv(h)'
  <2>1. Writes(h) /\ Hd(h)' = Hd(h)
    BY <1>10, <1>11, <1>18 DEF SameWriter
  <2>2. CacheInv(h)
    BY DEF StreamInv
  <2> QED
    BY <1>5, <2>1, <2>2 DEF CacheInv
<1>19. LinkedInv'
  <2> SUFFICES ASSUME NEW t \in Sector, Link(t)' # None
               PROVE  Link(t)' = s \/ origin'[Link(t)'] = StreamEnd(t)'
    BY <1>8 DEF LinkedInv
  <2>1. t # s
    BY <1>8
  <2>2. CASE t = curr
    BY <1>8, <2>1, <2>2
  <2>3. CASE t # curr
    <3>1. Link(t)' = Link(t)
      BY <1>8, <2>1, <2>3
    <3>2. origin[Link(t)] = StreamEnd(t)
      BY <1>5, <1>9, <3>1 DEF StreamInv, LinkedInv
    <3> QED
      BY <1>5, <1>14, <3>1, <3>2
  <2> QED
    BY <2>2, <2>3
<1>20. EndInv'
  <2> SUFFICES ASSUME NEW t \in Sector, FileOf(t)' # None
               PROVE  /\ Link(t)' = None =>
                           \/ Busy(FileOf(t))'
                           \/ \E h \in HandleId : WritesTo(h, t)'
                           \/ StreamEnd(t)' = stream'[FileOf(t)']
                      /\ Headless(t)' /\ ~ Table'[t].circular => t = s \/ origin'[t] = 0
    BY <1>8 DEF EndInv
  <2>1. FileOf(t)' = f => Busy(FileOf(t))'
    BY <1>12 DEF Busy, Removing
  <2>2. CASE t = s
    BY <1>8, <2>1, <2>2
  <2>3. CASE t # s
    <3>1. FileOf(t)' = FileOf(t) /\ FileOf(t) # None /\ Table'[t].circular = Table[t].circular
      BY <1>8, <2>3
    <3>2. PICK k : k = FileOf(t)
      OBVIOUS
    <3>3. Busy(k) => k = f
      BY <1>5, <1>8 DEF Busy, Removing
    <3>4. /\ Link(t) = None =>
               Busy(k) \/ (\E h \in HandleId : WritesTo(h, t)) \/ StreamEnd(t) = stream[k]
          /\ Headless(t) /\ ~ Table[t].circular => origin[t] = 0
      BY <1>5, <1>9, <3>1, <3>2 DEF StreamInv, EndInv, Removing
    <3>5. ASSUME Link(t)' = None
          PROVE  \/ Busy(FileOf(t))'
                 \/ \E h \in HandleId : WritesTo(h, t)'
                 \/ StreamEnd(t)' = stream'[FileOf(t)']
      <4>1. Link(t) = None
        BY <1>8, <1>9, <2>3, <3>5
      <4>2. (\E h \in HandleId : WritesTo(h, t)) =>
              k = f \/ \E h \in HandleId : WritesTo(h, t)'
        BY <1>16, <3>2
      <4> QED
        BY <1>5, <1>14, <2>1, <3>1, <3>2, <3>3, <3>4, <4>1, <4>2
    <3>6. Headless(t)' => Headless(t)
      <4> SUFFICES ASSUME NEW p \in Sector, Link(p) = t PROVE Link(p)' = t
        BY DEF Headless
      <4> QED
        BY <1>8, <1>9
    <3> QED
      BY <1>5, <3>1, <3>4, <3>5, <3>6
  <2> QED
    BY <2>2, <2>3
<1>21. GrowthInv'
  <2>1. /\ call.op = "write" =>
             \A p \in Sector : Link(p)' = s => StreamEnd(p)' = stream'[Cur'.file_id]
    <3> SUFFICES ASSUME call.op = "write", NEW p \in Sector, Link(p)' = s
                 PROVE  StreamEnd(p) = stream[f]
      BY <1>5, <1>12, <1>14
    <3>1. p = curr /\ root # None /\ p = Hd(g).curr_allocation_unit /\ p # s
      BY <1>8, <1>9 DEF Headless
    <3>2. CASE pc = "allocate"
      <4>1. Writes(g)
        BY <1>8, <3>2 DEF Writes, Placed, Opening, Moving, Growing
      <4> QED
        BY <1>15, <3>1, <4>1
    <3>3. CASE pc = "write_counter"
      BY <1>6, <1>8, <3>1, <3>3 DEF StreamInv, GrowthInv
    <3> QED
      BY <1>5, <3>2, <3>3
  <2>2. call.op = "open" => \A p \in Sector : Link(p)' # s
    BY <1>8, <1>9 DEF Headless
  <2>3. ASSUME \A p \in Sector : Link(p)' # s, call.op = "write" PROVE Table'[s].circular
    <3>1. root = None
      BY <1>8, <2>3
    <3>2. CASE pc = "allocate"
      <4>1. Writes(g)
        BY <1>8, <2>3, <3>2 DEF Writes, Placed, Opening, Moving, Growing
      <4> QED
        BY <1>8, <1>15, <3>1, <4>1 DEF Unused
    <3>3. CASE pc = "write_counter"
      BY <1>5, <1>8, <3>3
    <3> QED
      BY <1>5, <3>2, <3>3
  <2> QED
    BY <1>5, <1>8, <1>9, <2>1, <2>2, <2>3 DEF GrowthInv, Headless
<1>22. MountedInv'
  BY <1>9 DEF MountedInv
<1> QED
  BY <1>17, <1>18, <1>19, <1>20, <1>21, <1>22 DEF StreamInv, CacheInv

-----------------------------------------------------------------------------
(***************************************************************************)
(* Every step, and the invariant.                                          *)
(***************************************************************************)

\* Whatever an orderly client calls.
LEMMA ClientStream ==
  ASSUME IInv, TableInv, SessionInv, ChainInv, StreamInv, Liberties = {}, Client
  PROVE  StreamInv'
<1>1. CASE Mount \/ Unmount
  BY <1>1, MountStream
<1>2. CASE Format
  BY <1>2, FormatStream
<1>3. CASE \E f \in FileId : Remove(f) \/ Protect(f) \/ Unprotect(f)
  <2>1. \E f, m : \E op \in Op : BeginOnFile(op, f, m)
    BY <1>3 DEF Remove, Protect, Unprotect, ChangeProtection, Op
  <2> QED
    BY <2>1, CallsStream
<1>4. CASE \E f \in IF "reserved_id" \in Liberties THEN Nil(FileId) ELSE FileId, m \in Mode :
             Open(f, m)
  <2>1. \E f, m : \E op \in Op : BeginOnFile(op, f, m)
    BY <1>4 DEF Open, Op
  <2> QED
    BY <2>1, CallsStream
<1>5. CASE \E h \in HandleId : Close(h) \/ Flush(h) \/ InvalidHandle(h)
  BY <1>5, CloseStream, HandleCallsStream
<1>6. CASE \E h \in HandleId, n \in WriteSizes : Write(h, n)
  BY <1>6, HandleCallsStream
<1>7. CASE \E h \in HandleId, n \in ReadSizes : Read(h, n)
  BY <1>7, HandleCallsStream
<1> QED
  BY <1>1, <1>2, <1>3, <1>4, <1>5, <1>6, <1>7 DEF Client

\* Whatever the code does until the call returns.
LEMMA StepStream ==
  ASSUME IInv, TableInv, TableInv', SessionInv, ChainInv, StreamInv, Step
  PROVE  StreamInv'
<1>1. CASE \/ ClimbToRoot \/ FileMissing \/ OpenRefused \/ RemoveRefused
           \/ WriteDone \/ ReadDone \/ WriteToFullSector
  BY <1>1, CallsStream
<1>2. CASE OpenForReading \/ ReadNextSector \/ ReadBytes
  BY <1>2, ReadersStream
<1>3. CASE OpenForWriting \/ OpenNewFile
  BY <1>3, OpenGoesOnStream
<1>4. CASE FollowChain \/ RecycleRoot
  BY <1>4, TurnsStream
<1>5. CASE AllocateFree \/ Recycled
  BY <1>5, AllocateStream
<1>6. CASE RemoveNext \/ FormatNext
  BY <1>6, EraseLoopStream
<1>7. CASE \E op \in {"protect", "unprotect"} : SetProtection(op)
  BY <1>7, SetProtectionStream
<1>8. CASE AllocateFails \/ WriteNext \/ WriteFileInfo
  BY <1>8, AllocateFailsStream, WriteNextStream, WriteFileInfoStream
<1>9. CASE OpenAtEnd \/ EraseBlock \/ RemoveRoot
  BY <1>9, OpenAtEndStream, EraseBlockStream, RemoveRootStream
<1>10. CASE FlushPageCache \/ UpdateSessionOffset \/ FillCache \/ WritePage
  BY <1>10, FlushPageCacheStream, UpdateSessionOffsetStream, FillCacheStream, WritePageStream
<1> QED
  BY <1>1, <1>2, <1>3, <1>4, <1>5, <1>6, <1>7, <1>8, <1>9, <1>10 DEF Step

\* Orderly clients find, at every step, every accepted byte of a stream in flash or in the
\* cache of its writer, each at its place, and the sectors of a file holding consecutive
\* parts of the stream up to its end (write_through_cache, flush_handle,
\* allocate_new_sector_to_file).
THEOREM StreamInvariant ==
  ASSUME Liberties = {}
  PROVE  Spec => []StreamInv
<1>1. IInv /\ TableInv /\ TableInv' /\ SessionInv /\ ChainInv /\ StreamInv /\ [Next]_vars
        => StreamInv'
  <2> SUFFICES ASSUME IInv, TableInv, TableInv', SessionInv, ChainInv, StreamInv, [Next]_vars
               PROVE  StreamInv'
    OBVIOUS
  <2>1. CASE Client
    BY <2>1, ClientStream
  <2>2. CASE Step
    BY <2>2, StepStream
  <2>3. CASE UNCHANGED vars
    BY <2>3, StutterStream
  <2> QED
    BY <2>1, <2>2, <2>3 DEF Next
<1> QED
  BY <1>1, Invariant, TableInvariant, SessionInvariant, ChainInvariant, InitStream, PTL DEF Spec

-----------------------------------------------------------------------------
(***************************************************************************)
(* What it means for clients.                                              *)
(***************************************************************************)

\* At every step, also between two flash operations of a call, committed bytes are in
\* flash, each at its place of the file's stream.
THEOREM CommittedDataStaysIntact ==
  ASSUME Liberties = {}
  PROVE  Spec => []CommittedDataIntact
<1>1. TableInv /\ StreamInv => CommittedDataIntact
  <2> SUFFICES ASSUME TableInv, StreamInv, NEW s \in Sector, header[s].file_id # None,
                      NEW i \in Cell, i < Committed(s)
               PROVE  data[s][i] = Payload(header[s].file_id, origin[s] + i)
    BY DEF CommittedDataIntact, None
  <2>1. header[s].file_id = FileOf(s)
    BY HeaderFile
  <2> QED
    BY <2>1 DEF StreamInv, DataInv
<1> QED
  BY <1>1, TableInvariant, StreamInvariant, PTL

\* Between calls nothing is being erased or added.
LEMMA StreamsAtRest ==
  ASSUME IInv, TableInv, StreamInv, pc = "idle"
  PROVE  /\ call.op # "format" /\ ~ Growing
         /\ \A f : ~ Busy(f) /\ ~ Removing(f)
         /\ \A h \in HandleId : Open_(h) /\ Hd(h).writeable => Writes(h)
<1>1. call = NoCall /\ call.op # "format"
  BY HeadersAtRest DEF IInv, CallInv
<1>2. ~ Growing /\ ~ Erasing /\ call.op = "none"
  BY <1>1 DEF Growing, Erasing, NoCall
<1> QED
  BY <1>1, <1>2, AllPlaced DEF Busy, Removing, Writes

\* Between calls consecutive sectors of a file hold consecutive parts of its stream, and
\* a file that is not circular is kept from its first byte.
THEOREM ChainsStayContiguous ==
  ASSUME Liberties = {}
  PROVE  Spec => []ChainContiguous
<1>1. IInv /\ TableInv /\ StreamInv => ChainContiguous
  <2> SUFFICES ASSUME IInv, TableInv, StreamInv, pc = "idle",
                      NEW s \in Sector, header[s].file_id # None
               PROVE  /\ ~ is_last_allocation_unit(header, s) =>
                           origin[header[s].next_allocation_unit] = StreamEnd(s)
                      /\ parents(header, header[s].file_id, s) = {} /\ ~ header[s].circular =>
                           origin[s] = 0
    BY DEF ChainContiguous, None
  <2>1. /\ header[s].file_id = FileOf(s) /\ header[s].next_allocation_unit = Link(s)
        /\ header[s].circular = Table[s].circular /\ call.op # "format"
        /\ ~ Growing /\ ~ Removing(FileOf(s))
    BY HeadersAtRest, StreamsAtRest
  <2>2. Link(s) # None => origin[Link(s)] = StreamEnd(s)
    BY <2>1 DEF StreamInv, LinkedInv
  <2>3. ASSUME parents(header, header[s].file_id, s) = {} PROVE Headless(s)
    <3>1. FileOf(s) \in FileId
      BY <2>1, TableType DEF Nil, None
    <3>2. s \in RootsOf(FileOf(s))
      BY <2>1, <2>3 DEF RootsOf, sectors_of
    <3> QED
      BY <3>1, <3>2, HeadersAtRest DEF RootOf
  <2>4. Headless(s) /\ ~ Table[s].circular => origin[s] = 0
    BY <2>1 DEF StreamInv, EndInv
  <2> QED
    BY <2>1, <2>2, <2>3, <2>4 DEF is_last_allocation_unit, None
<1> QED
  BY <1>1, Invariant, TableInvariant, StreamInvariant, PTL

\* Between calls every byte that write counted is in flash or in the cache of the open
\* writer, at its place of the stream; once no writer is left, it is committed ("no hidden
\* data loss allowed", write).
THEOREM NothingIsLost ==
  ASSUME Liberties = {}
  PROVE  Spec => []NoHiddenLoss
<1>1. IInv /\ TableInv /\ SessionInv /\ ChainInv /\ StreamInv => NoHiddenLoss
  <2> SUFFICES ASSUME IInv, TableInv, SessionInv, ChainInv, StreamInv, pc = "idle",
                      NEW s \in Sector, NEW f, f = header[s].file_id,
                      f # None, is_last_allocation_unit(header, s)
               PROVE  /\ Writers(f) = {} => StreamEnd(s) = stream[f]
                      /\ \A h \in Writers(f) :
                           /\ Hd(h).curr_allocation_unit = s
                           /\ origin[s] + Hd(h).curr_data_offset = stream[f]
                           /\ \A i \in Committed(s) .. Hd(h).curr_data_offset - 1 :
                                Payload(f, origin[s] + i) =
                                  IF i < Hd(h).last_data_offset
                                    THEN data[s][i]
                                    ELSE Hd(h).page_cache[i - Hd(h).last_data_offset]
    BY DEF NoHiddenLoss, None, Hd
  <2>1. /\ FileOf(s) = f /\ Link(s) = None /\ call.op # "format" /\ f \in FileId
        /\ ~ Busy(f)
    BY HeadersAtRest, StreamsAtRest, TableType DEF is_last_allocation_unit, None, Nil
  <2>2. ASSUME Writers(f) = {} PROVE StreamEnd(s) = stream[f]
    <3>1. \A h \in HandleId : ~ WritesTo(h, s)
      BY <2>1, <2>2 DEF WritesTo, Writes, Placed, Writers, HandlesOn, Hd, TableInv, PlaceInv
    <3> QED
      BY <2>1, <3>1 DEF StreamInv, EndInv
  <2>3. ASSUME NEW h \in Writers(f)
        PROVE  /\ Hd(h).curr_allocation_unit = s
               /\ origin[s] + Hd(h).curr_data_offset = stream[f]
               /\ \A i \in Committed(s) .. Hd(h).curr_data_offset - 1 :
                    Payload(f, origin[s] + i) =
                      IF i < Hd(h).last_data_offset
                        THEN data[s][i]
                        ELSE Hd(h).page_cache[i - Hd(h).last_data_offset]
    <3>1. /\ h \in HandleId /\ Open_(h) /\ Hd(h).file_id = f /\ Hd(h).writeable
          /\ Hd(h) \in Handle
      BY DEF Writers, HandlesOn, Hd, IInv, TypeOK
    <3>2. Placed(h) /\ Writes(h) /\ ~ Opening(h)
      BY <3>1, AllPlaced, StreamsAtRest
    <3>3. PICK c \in Sector : c = Hd(h).curr_allocation_unit
      BY <3>1, <3>2 DEF IInv, HandleInv, Hd
    <3>4. FileOf(c) = f /\ Link(c) = None
      BY <3>1, <3>2, <3>3 DEF TableInv, PlaceInv
    <3>5. c = s
      BY <2>1, <3>4 DEF ChainInv, ShapeInv, SameFile
    <3>6. /\ \A i \in Cell : data[s][i] = IF i < Hd(h).last_data_offset
                                            THEN Payload(f, origin[s] + i) ELSE ERASED
          /\ \A i \in PageIdx : i < cached_bytes(Hd(h)) =>
               Hd(h).page_cache[i] = Payload(f, origin[s] + Hd(h).last_data_offset + i)
          /\ origin[s] + Hd(h).curr_data_offset = stream[f]
      BY <3>1, <3>2, <3>3, <3>5, ZenonT(40) DEF StreamInv, CacheInv
    <3>7. PICK last \in Nat, curr \in Nat, old \in Nat, from \in Nat :
            /\ last = Hd(h).last_data_offset /\ curr = Hd(h).curr_data_offset
            /\ old = Committed(s) /\ from = origin[s]
      <4>1. Hd(h).last_data_offset \in Nat /\ Hd(h).curr_data_offset \in Nat
            /\ origin[s] \in Nat
        BY <3>1, OffsetIsNatural DEF Handle, IInv, TypeOK
      <4>2. Committed(s) \in Nat
        BY OffsetIsNatural, SessionScanType DEF Committed, IInv, TypeOK
      <4> QED
        BY <4>1, <4>2
    <3>8. curr <= FS_PRIV_USABLE_SIZE /\ curr - last <= FS_PRIV_PAGE_SIZE
      <4>1. curr - last <= page_boundary(Hd(h)) /\ page_boundary(Hd(h)) \in Int
        <5>1. page_boundary(Hd(h)) \in 1 .. FS_PRIV_PAGE_SIZE
          BY <3>7, PageBoundary DEF page_boundary
        <5>2. cached_bytes(Hd(h)) \in 0 .. page_boundary(Hd(h))
          BY <3>1 DEF IInv, HandleInv, Hd
        <5> QED
          BY <3>7, <5>1, <5>2, LayoutAssumption DEF cached_bytes
      <4>2. page_boundary(Hd(h)) <= FS_PRIV_PAGE_SIZE
        BY <3>7, PageBoundary DEF page_boundary
      <4>3. curr <= FS_PRIV_USABLE_SIZE
        BY <3>1, <3>7, LayoutAssumption DEF Handle, Offset
      <4> QED
        BY <3>7, <4>1, <4>2, <4>3, LayoutAssumption
    <3>9. ASSUME NEW i \in old .. curr - 1
          PROVE  Payload(f, from + i) = IF i < last THEN data[s][i]
                                                    ELSE Hd(h).page_cache[i - last]
      <4>1. i \in Cell
        BY <3>7, <3>8, <3>9, LayoutAssumption DEF Cell
      <4>2. CASE i < last
        BY <3>6, <3>7, <4>1, <4>2
      <4>3. CASE ~ i < last
        <5>1. /\ i - last \in PageIdx /\ i - last < cached_bytes(Hd(h))
              /\ from + last + (i - last) = from + i
          BY <3>7, <3>8, <3>9, <4>3, LayoutAssumption DEF PageIdx, cached_bytes
        <5>2. Hd(h).page_cache[i - last] = Payload(f, from + last + (i - last))
          BY <3>6, <3>7, <5>1
        <5> QED
          BY <4>3, <5>1, <5>2
      <4> QED
        BY <4>2, <4>3
    <3> QED
      BY <3>3, <3>5, <3>6, <3>7, <3>9
  <2> QED
    BY <2>2, <2>3
<1> QED
  BY <1>1, Invariant, TableInvariant, SessionInvariant, ChainInvariant, StreamInvariant, PTL

\* The sector a reader is in, and what it knows of it.
LEMMA ReaderKnows ==
  ASSUME IInv, TableInv, SessionInv, pc = "read"
  PROVE  \E g \in HandleId, c \in Sector : \E f \in FileId :
           /\ g = call.handle /\ Cur = Hd(g) /\ Cur \in Handle /\ call \in Call
           /\ c = Cur.curr_allocation_unit /\ f = Cur.file_id /\ FileOf(c) = f
           /\ Cur.last_data_offset = Committed(c)
           /\ Cur.curr_data_offset <= Cur.last_data_offset
<1>1. PICK g \in HandleId : g = call.handle /\ Open_(g) /\ Cur = Hd(g) /\ Cur \in Handle
  BY CurHandle DEF OnHandle
<1>2. Placed(g) /\ ~ Opening(g) /\ ~ Hd(g).writeable
  BY <1>1, AllPlaced DEF IInv, CallInv
<1>3. PICK c \in Sector, f \in FileId :
        c = Hd(g).curr_allocation_unit /\ f = Hd(g).file_id /\ FileOf(c) = f
  BY <1>1, <1>2 DEF IInv, HandleInv, TableInv, PlaceInv, Hd
<1>4. Hd(g).last_data_offset = Committed(c)
  BY <1>2, <1>3 DEF SessionInv, WriterInv, Committed
<1>5. Hd(g).curr_data_offset <= Hd(g).last_data_offset /\ call \in Call
  BY <1>1, <1>2 DEF IInv, HandleInv, TypeOK, Hd
<1> QED
  BY <1>1, <1>3, <1>4, <1>5

\* A reader that changes sectors goes on where it stopped.
LEMMA NextSectorRead ==
  ASSUME IInv, TableInv, SessionInv, StreamInv, ReadNextSector
  PROVE  ReadStep(call.handle)
<1>1. /\ pc = "read" /\ UNCHANGED <<call, data, origin>>
      /\ Cur.last_data_offset = Cur.curr_data_offset /\ ~ is_eof(Cur)
  BY DEF ReadNextSector, AtSectorEnd, flashVars, ghostVars
<1>2. PICK g \in HandleId, c \in Sector :
        /\ g = call.handle /\ Cur = Hd(g) /\ Cur \in Handle /\ call \in Call
        /\ c = Cur.curr_allocation_unit /\ Cur.last_data_offset = Committed(c)
  BY <1>1, ReaderKnows
<1>3. PICK t : /\ t = Link(c) /\ t # None
               /\ Hd(g)'.curr_allocation_unit = t /\ Hd(g)'.curr_data_offset = 0
  <2> DEFINE t  == alloc_unit_list[c].next_allocation_unit
             hd == [Cur EXCEPT !.curr_allocation_unit = t,
                               !.last_data_offset = session_end(session[t]),
                               !.curr_data_offset = 0]
  <2>1. SetHandle(g, hd) /\ hd.curr_allocation_unit = t /\ hd.curr_data_offset = 0
    BY <1>2 DEF ReadNextSector, Handle
  <2>2. Hd(g)' = hd
    BY <2>1 DEF SetHandle, Hd, IInv, TypeOK
  <2>3. t = Link(c)
    BY <1>1 DEF Link, Table
  <2>4. t # None
    BY <1>1, <1>2 DEF is_eof, is_last_allocation_unit, None
  <2> QED
    BY <2>1, <2>2, <2>3, <2>4
<1>4. origin[t] = StreamEnd(c)
  <2>1. call.op # "format" /\ ~ Growing
    BY <1>1, NotFormatting DEF Erasing, Growing
  <2> QED
    BY <1>3, <2>1 DEF StreamInv, LinkedInv
<1>5. t \in Sector
  BY <1>3, TableType DEF Nil, None
<1>6. /\ Position(g) = origin[t]
      /\ origin'[Hd(g)'.curr_allocation_unit] + Hd(g)'.curr_data_offset = origin[t]
      /\ origin[t] \in Nat /\ call.done \in Nat
  <2>1. origin[t] \in Nat /\ call.done \in Nat
    BY <1>2, <1>5 DEF IInv, TypeOK, Call
  <2>2. Position(g) = origin[t]
    BY <1>1, <1>2, <1>4 DEF Position, StreamEnd, Hd
  <2> QED
    BY <1>1, <1>3, <2>1, <2>2
<1>7. Position(call.handle)' = origin[t] /\ Position(call.handle) = origin[t]
  BY <1>1, <1>2, <1>6 DEF Position, Hd
<1>8. call'.done - call.done = 0 /\ call'.done - call.done - 1 = -1
  BY <1>1, <1>6
<1> QED
  BY <1>6, <1>7, <1>8 DEF ReadStep

\* A reader gets the bytes at its position, and moves past them.
LEMMA BytesRead ==
  ASSUME IInv, TableInv, SessionInv, StreamInv, ReadBytes
  PROVE  ReadStep(call.handle)
<1>1. /\ pc = "read" /\ call.size > 0 /\ UNCHANGED <<data, origin>>
      /\ Cur.last_data_offset # Cur.curr_data_offset
  BY DEF ReadBytes, AtSectorEnd, flashVars, ghostVars
<1>2. PICK g \in HandleId, c \in Sector : \E k \in FileId :
        /\ g = call.handle /\ Cur = Hd(g) /\ Cur \in Handle /\ call \in Call
        /\ c = Cur.curr_allocation_unit /\ k = Cur.file_id /\ FileOf(c) = k
        /\ Cur.last_data_offset = Committed(c)
        /\ Cur.curr_data_offset <= Cur.last_data_offset
  BY <1>1, ReaderKnows
<1>3. PICK f \in FileId : f = Cur.file_id /\ FileOf(c) = f
  BY <1>2
<1>4. PICK last \in Nat, curr \in Nat, from \in Nat, done \in Nat, size \in Nat :
        /\ last = Cur.last_data_offset /\ curr = Cur.curr_data_offset
        /\ from = origin[c] /\ done = call.done /\ size = call.size
  <2>1. Cur.last_data_offset \in Nat /\ Cur.curr_data_offset \in Nat
    BY <1>2, OffsetIsNatural DEF Handle
  <2>2. origin[c] \in Nat /\ call.done \in Nat /\ call.size \in Nat
    BY <1>2 DEF IInv, TypeOK, Call
  <2> QED
    BY <2>1, <2>2
<1>5. PICK n : n = SmallerOf(size, last - curr)
  OBVIOUS
<1>6. n \in Nat /\ curr + n <= last
  BY <1>1, <1>2, <1>4, <1>5 DEF SmallerOf
<1>7. /\ Hd(g)'.curr_allocation_unit = c /\ Hd(g)'.curr_data_offset = curr + n
      /\ call'.done = done + n /\ call'.handle = g
  <2> DEFINE hd == [Cur EXCEPT !.curr_data_offset = @ + n]
  <2>1. SetHandle(g, hd) /\ call' = [call EXCEPT !.size = @ - n, !.done = @ + n]
    BY <1>2, <1>4, <1>5 DEF ReadBytes
  <2>2. hd.curr_allocation_unit = c /\ hd.curr_data_offset = curr + n
    BY <1>2, <1>4 DEF Handle
  <2>3. Hd(g)' = hd
    BY <2>1 DEF SetHandle, Hd, IInv, TypeOK
  <2>4. call'.done = done + n /\ call'.handle = g
    BY <1>2, <1>4, <2>1 DEF Call
  <2> QED
    BY <2>2, <2>3, <2>4
<1>8. Position(call.handle)' = from + (curr + n) /\ Position(call.handle) = from + curr
  BY <1>1, <1>2, <1>4, <1>7 DEF Position, Hd
<1>9. ASSUME NEW k \in 0 .. n - 1
      PROVE  data[c][curr + k] = Payload(f, from + curr + k)
  <2>1. last <= FS_PRIV_USABLE_SIZE
    BY <1>2, <1>4, LayoutAssumption DEF Handle, Offset
  <2>2. /\ curr + k \in Cell /\ curr + k < last
        /\ from + (curr + k) = from + curr + k
    BY <1>4, <1>6, <1>9, <2>1, LayoutAssumption DEF Cell
  <2>3. FileOf(c) # None
    BY <1>3, TableType
  <2>4. data[c][curr + k] = Payload(f, from + (curr + k))
    BY <1>2, <1>3, <1>4, <2>2, <2>3 DEF StreamInv, DataInv
  <2> QED
    BY <2>2, <2>4
<1>10. call'.done - call.done = n /\ (from + (curr + n)) - (from + curr) = n
  BY <1>4, <1>6, <1>7
<1> QED
  BY <1>2, <1>3, <1>4, <1>8, <1>9, <1>10 DEF ReadStep, Hd

\* What a step of read delivers are the next bytes of the file's stream, sector changes
\* included: no byte is skipped, repeated or wrong.
THEOREM ReadsStayContiguous ==
  ASSUME Liberties = {}
  PROVE  Spec => ReadsContiguous
<1>1. IInv /\ TableInv /\ SessionInv /\ StreamInv /\ [Next]_vars =>
        [pc = "read" /\ pc' = "read" => ReadStep(call.handle)]_vars
  <2> SUFFICES ASSUME IInv, TableInv, SessionInv, StreamInv, Next, pc = "read", pc' = "read"
               PROVE  ReadStep(call.handle)
    OBVIOUS
  <2>1. ~ Client
    BY DEF Client, Mount, Unmount, Format, Remove, Protect, Unprotect, ChangeProtection,
      Open, BeginOnFile, Close, Flush, InvalidHandle, Write, Read
  <2>2. ReadNextSector \/ ReadBytes
    <3>1. Step
      BY <2>1 DEF Next
    <3>2. ~ (\/ ClimbToRoot \/ FileMissing \/ OpenRefused \/ OpenForReading
             \/ OpenForWriting \/ OpenNewFile \/ RemoveRefused \/ RemoveRoot
             \/ \E op \in {"protect", "unprotect"} : SetProtection(op))
      BY DEF ClimbToRoot, FileMissing, OpenRefused, OpenForReading, OpenForWriting,
        OpenNewFile, OpenAccepted, RemoveRefused, RemoveRoot, SetProtection, AtRoot
    <3>3. ~ (\/ FollowChain \/ OpenAtEnd \/ EraseBlock \/ Recycled \/ RemoveNext
             \/ FormatNext \/ AllocateFree \/ RecycleRoot \/ AllocateFails)
      BY DEF FollowChain, OpenAtEnd, EraseBlock, Recycled, RemoveNext, FormatNext,
        WriteCounter, AllocateFree, RecycleRoot, AllocateFails
    <3>4. ~ (\/ WriteNext \/ WriteFileInfo \/ FlushPageCache \/ UpdateSessionOffset
             \/ WriteDone \/ WriteToFullSector \/ FillCache \/ WritePage)
      BY DEF WriteNext, WriteFileInfo, FlushPageCache, UpdateSessionOffset, WriteDone,
        WriteToFullSector, FillCache, WritePage
    <3>5. ~ ReadDone
      BY DEF ReadDone, Return, Goto
    <3> QED
      BY <3>1, <3>2, <3>3, <3>4, <3>5 DEF Step
  <2> QED
    BY <2>2, NextSectorRead, BytesRead
<1> QED
  BY <1>1, Invariant, TableInvariant, SessionInvariant, StreamInvariant, PTL
     DEF Spec, ReadsContiguous
=============================================================================
