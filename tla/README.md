# A verification of the SPI flash file system

The repository holds examples for the Jumper board emulator. The one with logic of its
own is `src/examples/spi_flash_filesystem`: a log-structured file store
(`FileSystem/FileSystem.cpp`, 895 lines) on an S25FL128 NOR flash chip, which a driver
(`SpiFlash/SpiFlash.cpp`) reaches over SPI. This directory models the file system, the
loss of power under it, the addresses it uses and the driver in TLA+, checks them on small
devices with TLC and proves facts about every device with the TLA+ proof system. Paths below are relative to `src/examples/spi_flash_filesystem`.

## 1. Inventory

| Component | State | Operations | Talks to |
|---|---|---|---|
| FileSystem (`FileSystem/FileSystem.cpp`, `.h`) | `fs_priv_t`: a copy in RAM of every sector's header; `FS_MAX_HANDLES` handles with identifier, mode, sector, offsets, next session slot and a page of write cache | `open close write flush read protect unprotect remove format`, constructor | calls `SpiFlash::read / write / erase_block`, one at a time, and waits for each |
| On-flash layout (`FileSystem/fs_priv.h`) | per sector: allocation unit header (file identifier, protection, link to the next sector, flags, erase counter), session slots, data | none: offsets and types | read and written by FileSystem |
| SpiFlash driver (`SpiFlash/SpiFlash.cpp`) | `xfer_busy`, shared with the SPI interrupt; one buffer of 255 bytes, sent from and received into | `read`, `write` (both in chunks), `erase_block`, `erase_all`, `get_capacity`; inside: `wren`, `status`, `busy_wait`, `xfer` and the interrupt handler | nrf SPI driver, flash chip |
| S25FL128 class (`S25FL128/`) | none | three geometry constants | base class SpiFlash |
| Flash chip (`S25FL128.so`, a binary of the emulator) | memory, write-enable latch, busy bit | command set of the chip | the driver |
| Tests (`test/`), runner (`main.cpp`, `jumper.c`) | none that lasts | CppUTest groups | FileSystem, SpiFlash |
| `cpputest_basic`, build files, SDK configuration | none | an increment function | - |

How they interact. There is one thread. A call of the client runs to its end before the
next; inside it, every flash operation is synchronous, and the only concurrency is
between `SpiFlash::xfer` and the interrupt handler that clears `xfer_busy`. What makes
the file system hard is not threads but *state kept in three places* that a call changes
one after the other: flash (which can only clear bits between erasures), the table in
RAM, and the handles, of which two may be about the same file or the same sector.

What is hard, and what must hold:

* **FileSystem**: a page and the session offset that commits it are two writes; growing
  a file updates the table, links the old sector and writes the new header in three
  steps; a circular file gives up its root while it is being written; a sector may run
  out of session slots before it runs out of room; protection is a parity over bits that
  can only be cleared. Correct means: the table in RAM is what flash holds whenever no
  call runs; the sectors of a file are one chain; no accepted byte is lost and none is
  programmed twice; readers get the stream in order; protected files do not change;
  calls return. In one sentence: the file system is a store of byte streams
  (`FileStore`), and its sectors, sessions and caches cannot be told from outside.
* **SpiFlash**: every program follows its own write enable; chunks must not cross a page
  of the chip; results of transfers are dropped, so a command the chip does not obey is a
  write lost; `xfer_busy` is not volatile. Correct means: each request is carried out
  completely and in order before it returns (`NorFlash`).
* **Between the two**: the requests must be ones the driver can carry out, and about the
  bytes the file system thinks they are about.
* **Failure**: power may be lost at any flash operation. The layout has no journal; the
  order of the writes is all there is.

`PROJECT.json` lists every hazard at its line, with the properties that cover it.

## 2. Modules

The file system:

| Module | Models |
|---|---|
| `FlashLayout` | the layout of a sector, NOR programming and erasure, and the pure scans of the table (`find_free_allocation_unit`, the parents of `find_file_root`, `find_next_session_offset`, the parity of `file_protect`) |
| `FileSystem` | extends it: the state machine of every operation, its properties |
| `FileStore` | abstract: files as stretches of byte streams, what each call may do to them, and which codes it may return |
| `FileSystemStore` | extends `FileSystem`: the refinement mapping to `FileStore` |
| `PowerLoss` | extends `FileSystemStore`: power lost once, between any two steps |
| `FlashAddresses` | extends `FileSystem`: the addresses of `fs_priv.h`, the requests each step makes of the driver, the constants of the S25FL128 |
| `FileSystem_proofs`, then `FileSystem_table_proofs`, `_session_proofs`, `_chain_proofs`, `_stream_proofs` | inductive invariants and theorems in five layers, each extending the one before |
| `FlashAddresses_proofs` | inductive invariant and theorems about the addresses |
| `MCFileSystem`, `MCPowerLoss` | the modules TLC runs, with one `.cfg` per question; `MCPowerLoss` joins `PowerLoss` and `FlashAddresses` |

The driver:

| Module | Models |
|---|---|
| `NorChip` | the chip as seen through the driver: geometry, memory, the requests the driver takes |
| `NorFlash` | abstract: one request at a time is carried out, a write or a read in one or more parts, in order |
| `SpiFlash` | the driver, the SPI peripheral with its interrupt, and the chip, interleaved; its refinement of `NorFlash` |
| `SpiFlashOptimised` | the same as an optimising build may compile it: `xfer_busy` read once |
| `SpiFlash_proofs` | inductive invariant, safety theorems, the refinement |
| `MCSpiFlash` | the module TLC runs |

`PageArithmetic` has the facts about division that both sides' proofs use.

### State of the file system

| Code | Model |
|---|---|
| sector header, session slots and data in flash | `header`, `session`, `data`, functions of the sector |
| `fs_priv_t.alloc_unit_list` | `alloc_unit_list` |
| `fs_priv_handle_list` | `fs_priv_handle_list`; `fs_priv = FALSE` is the null pointer of a free handle |
| where the running call is, its arguments and locals | `pc`, `call` |
| the value returned | `ret`, "none" while a call runs |
| - (ghost) | `stream[f]`: bytes accepted for `f` since its creation; `origin[s]`: position in the stream of the first data byte of sector `s` |

Data. A byte written at position `p` of the stream of file `f` is the number
`Payload(f, p)`, so a byte at the wrong place, of the wrong file or from an earlier life
of the sector is seen. Programming a byte over a different one gives `CLASH`; session
offsets and links are programmed with a true bitwise AND. `file_protect` is its number
of set bits, all the code ever uses. A page cache keeps only its live bytes.

### Steps of the file system

A step is at most one flash operation with the RAM updates around it, or one round of a
loop. `BeginOnFile` computes the candidate of `find_file_root`, `ClimbToRoot` is a round of
its loop; `FollowChain` one of `find_last_allocation_unit`.

| Code | Actions |
|---|---|
| constructor, destructor | `Mount`, `Unmount` |
| `open` | `Open`, `ClimbToRoot`, `OpenRefused`, then `OpenForReading`, or `OpenForWriting`, `FollowChain`, `OpenAtEnd`, or `OpenNewFile` and the allocation |
| `allocate_new_sector_to_file` | `AllocateFree`, or `RecycleRoot`, `EraseBlock`, `Recycled`, or `AllocateFails`; then `WriteNext` (unless the file is new) and `WriteFileInfo` |
| `erase_allocation_unit` | `EraseBlock`, then `WriteCounter` inside the action of its caller |
| `write` | `Write`, `FillCache`, `WritePage`, `WriteToFullSector`, `WriteDone` |
| `flush_handle` | `FlushPageCache`, `UpdateSessionOffset` |
| `flush`, `close` | `Flush`, `Close` |
| `read` | `Read`, `ReadBytes`, `ReadNextSector`, `ReadDone` |
| `protect`, `unprotect` | `Protect`, `Unprotect`, `SetProtection`, `FileMissing` |
| `remove`, `format` | `Remove`, `RemoveRefused`, `RemoveRoot`, `RemoveNext`; `Format`, `FormatNext` |
| an operation on a handle that is not open | `InvalidHandle` |

### Clients

The model's clients are orderly: one writer or some readers of a file at a time, no
removal, formatting or protection under an open handle, every handle closed before the
file system goes away, identifiers other than 0xFF. The code enforces none of this, so
each of these is a *liberty* that a run may grant through the constant `Liberties`
("share", "remove_open", "protect_open", "dirty_unmount", "reserved_id"). The theorems of
`FileSystem_proofs` and `FlashAddresses_proofs` hold whatever liberties are taken, those of
the other four layers for orderly clients (`Liberties = {}`). Properties checked without liberties say what an orderly client can rely
on; the runs with one show what the others meet (section 5).

### The driver

| Code | Model |
|---|---|
| `xfer_busy`, `spi_buffer` | the same; the buffer is a command, its address and the bytes behind them, as after the transfer it is what the chip sent |
| place in `write`, `read`, `erase_*`, `wren`, `busy_wait` | `pc`: "loop" is the `while (sz > 0)` of a call, "wren", "command", "status", "read" the transfer it is in |
| place in `xfer` | `xpc`: "fill", "start", "spin" |
| `addr`, `data`, `sz` | `req` and `sent`: the arguments and how far the loop has got |
| SPI peripheral | `bus`: a transfer is in flight |
| chip | `mem`, `wel` (write-enable latch), `work` (the command it is busy with) |

| Code | Actions |
|---|---|
| constructor, destructor | `Construct` (`xfer_busy` is not initialised and may be anything), `Destruct` |
| `xfer` | `Fill`, `StartTransfer`, then the return of `XferReturns` in the caller |
| `_spi_event_handler` | `SpiEvent`: the transfer ends, the chip has heard the command and its reply is in the buffer, `xfer_busy` is cleared |
| `write`, `read`, `erase_block`, `erase_all` | `Call`, `Round`, `WrenReturns`, `CommandReturns`, `BytesRead`, `Return` |
| `busy_wait` | `StillBusy`, `Ready` |
| - (chip) | `ChipDoes`, `ChipReady`: a busy chip obeys nothing but RDSR and answers a read with anything; without write enable it neither programs nor erases; a program wraps at the end of its page |

The three address bytes are one number: a theorem (`S25FL128Fits`) says that every address
of the S25FL128 fits them. Only the sizes that clients may ask for are restricted, to what
`NorChip!Requests` has: a write within a page, a read within the chip. That the file system
keeps to this is `CallsInPlace`.

### Refinement mappings

* **FileSystem implements FileStore** (`FileSystemStore`). A file's stretch goes from the
  least `origin` of its sectors to the end of its last committed byte; a handle's position
  is the number of bytes accepted for a writer, its place in the chain for a reader. The
  store knows no sectors: it lets a writer commit, a circular file give up its beginning, a
  removal cut the file from its beginning, each as often as it likes, but demands that
  flush and close return only with everything committed, that readers get bytes in order
  and up to the end, and that every returned code is true at that moment.
* **SpiFlash implements NorFlash**. `done <- sent + chunk_applied(Chunk)`: a write has
  progressed by a chunk when the chip has finished with it, not when the driver learns
  so. `ChipReady` maps to `WritePart` or an erasure, `BytesRead` to `ReadPart`, `Call` and
  `Return` to themselves, everything else to a stutter.

### Composition

`FileSystem` treats a request to the driver as one step on a table of sectors; `SpiFlash`
carries out requests on a row of bytes. `FlashAddresses` joins them. `UnitCalls`, `DataCalls`
and `EraseCalls` are the requests the code makes in the next step, with the addresses it
computes; `Stored(s, i)` says what the byte at offset `i` of a sector belongs to.
`CallsInPlace` says that each is one the driver takes (`TakenByDriver` puts it as membership
in `NorChip!Requests`), and `ChangesOnlyRequested` that a step of `FileSystem` changes no byte
but those of its request. `SpiFlash` in turn implements `NorFlash` for all such requests. What
is left to the reader is that one request is one step: there is one thread, and the driver
returns only when the chip is ready.

## 3. Runs

Sizes are the smallest at which the interesting cases happen; TLC explores every order
of calls within them. `MAX_STREAM` bounds what a client writes to a file in its life, the
one counter without a bound of its own. `MAX_COUNTER` is 1, so that an erase counter goes
through "never", 0 and the wrap.

| Run | Instance | Shows |
|---|---|---|
| `two_files` | 2 files, 2 sectors of one page, 2 session slots, 1 handle | `TypeOK`; the table mirrors the flash between calls (`MirrorCoherent`); sectors handed out are clean (`FreeSectorsErased`); a protected file is untouched by any call (`ProtectedUntouched`). The device fills up, files are removed, recreated, made circular and recycled. |
| `long_chain` | 1 file, 3 sectors of 2 pages, 2 slots, 1 handle, writes of 2 and 3 bytes | chain shape (`ChainsWellFormed`), data (`CommittedDataIntact`, `ChainContiguous`), slots (`SessionsIncrease`), cache (`CacheWithinPage`), and what a reader is given (`ReadsContiguous`). A write crosses pages and sectors, a sector is left for want of a slot, a circular file of 1 to 3 sectors wraps around. |
| `two_handles` | 2 handles, 2 files, 2 sectors, 1 slot | no accepted byte is lost (`NoHiddenLoss`); handles stay fresh while another changes the flash (`HandlesFresh`). |
| `calls_return` | 1 file, 3 sectors of 12 bytes after an allocation unit of 12, 1 slot, power lost once | requests stay in their part of a sector (`CallsInPlace`) and cover what a step changes (`ChangesOnlyRequested`); every call returns unless power is lost in it (`CallsReturnUnlessLost`); what is read after the loss is the store as it was (`StoreSurvivesLoss`). |
| `chunked` | driver: 2 blocks of 3 bytes of one bit, chunks of 2 bytes, reads of 0, 1 and 5 bytes | types and buffer size (`TypeOK`), no command ignored (`CommandsObeyed`), no race on the buffer (`BufferLeftAlone`), the refinement (`ImplementsNorFlash`), every call returns (`CallsReturn`). |

In `two_files`, `ImplementsFileStore` checks every step of every call against `FileStore`.

Bounds of `calls_return`: the page is 12 bytes because the header is two words and there is
to be one slot. Power is lost at most once, at any step but one of `format`; after it,
clients only read. A flash operation is not cut short: the chip's promise for a torn
program is not known to the code. `FileSystem` is otherwise unchanged, so `PowerLoss` shows
what the order of the writes alone achieves. In `chunked` a page of 3 bytes takes two chunks,
a read of 5 bytes three, across the two blocks; one bit to a byte tells an erased byte from
a programmed one, and programming ANDs.

`FS_MAX_HANDLES` is 1 by default (`FileSystem.h:11`): `two_handles` and
`shared_file` are about builds that set it higher, as its `#ifndef` provides for.

Runs expected to fail each show one disagreement, see section 5. For every property of a
passing run, `PROJECT.json` names a mutant: a plausible slip in the code with which TLC
finds that property violated. The mutated operators stand before the operators they
replace, marked as such.

Deadlock is checked in every run: a client can always mount, call or unmount, and the
driver's clients construct, call or destroy.

**Fairness.** `FairSpec` adds weak fairness of `Step`, the disjunction of the steps of a
running call. The code is single threaded and no step waits for anything but the flash,
whose operations the driver completes before it returns; a begun call is therefore run to
its end. Nothing is assumed of the clients. With it `CallsReturn` is about the loops:
the walk to the root, the walk to the end, and those of `read` and `write`.
`FairReadAfterLossSpec` is the same with the loss of power, which is never forced.
`SpiFlash!FairSpec` assumes of the driver that the processor executes it, of the peripheral
that a transfer which was started ends with its interrupt, and of the chip that it finishes
what it works on; without the last two no code could return, and `busy_wait` has no timeout.
In `OptimisedSpec` the processor is as fair: the loop that never reads again runs forever.

## 4. Proofs

### The file system

`FileSystem_proofs` proves, for all values of the constants that satisfy
`LayoutAssumption` and `ClientAssumption`, all liberties included:

* `Invariant`: `Spec => []IInv`, the inductive invariant below;
* `TypeCorrect`: `Spec => []TypeOK`. No handle index, sector, slot or offset leaves its
  table, and words of flash stay in their range however they are programmed over;
* `CacheStaysWithinPage`: `Spec => []CacheWithinPage`, that is, the assertion of
  `write_through_cache` (`FileSystem.cpp:506`) never fires, no page write crosses a page,
  and no data offset passes the end of the sector.

The assumptions: at least one sector, slot, handle, page byte and file; a sector is a
whole number of pages (256 KiB less one page, in pages of 512 bytes); identifiers and
sector numbers fit a byte, with 0xFF kept for "none"; the protection bits are even in
number, so an erased sector is unprotected.

Neither property is inductive. `TypeOK` fails to be when a step uses a local variable of
the call: that `call.sector` is a sector at the labels that erase or write one, or that
`call.handle` is an open handle, is a fact about where the call has been. The bounds of the
cache depend on how it was left: `FillCache` may fill it up only because it was not full,
and `WritePage` may put the rest of the request in an empty page only because the rest is
less than a page and fits the sector. Hence
`IInv == TypeOK /\ (\A h : HandleInv(h)) /\ CallInv`:

* `HandleInv(h)`: an open handle, once open has filled it in, is on a sector; a writer's
  cache is below the page boundary, except between `FillCache` and `WritePage`; a reader
  is not past the end of its sector's committed bytes;
* `CallInv`: what the locals of the call are at each label, which operations may be at
  it, and the room for the rest of a write.

There is one lemma per action (or for a few that go together), over lemmas on the
operators: `ProgramWordType` (a word programmed over another is no larger),
`SessionScanType`, `FindFreeType`, `RootSearchType` (the scans return what is in the
table), `PageBoundary` and `FillSizes` (the arithmetic of a round of `write`), `HeaderType`,
`ProtectionType`. `MinIsLeast` and `MaxIsGreatest` rest on the well-foundedness of the
natural numbers; `HandleReplaced` and `HandlesKept` carry the invariant of the handles a
step leaves alone. `TypeOK` and `CacheWithinPage` are also checked by TLC (`two_files`,
`long_chain`), where their mutants break them.

### Table, sessions, chains and streams

The theorems of these four modules assume `Liberties = {}`, and nothing else: any number of
sectors, slots, handles and files, pages of any size, writes and reads of any length. The
assumption is needed, as the runs of section 5 that take a liberty show.

| Module | Inductive invariant | What follows from it |
|---|---|---|
| `FileSystem_table_proofs` | `TableInv` | `MirrorStaysCoherent` |
| `FileSystem_session_proofs` | `SessionInv` | `SessionsAlwaysIncrease`, `FreeSectorsStayErased` |
| `FileSystem_chain_proofs` | `ChainInv` | `ChainsStayWellFormed`, `HandlesStayFresh`, `ProtectedStaysUntouched` |
| `FileSystem_stream_proofs` | `StreamInv` | `CommittedDataStaysIntact`, `ChainsStayContiguous`, `NothingIsLost`, `ReadsStayContiguous` |

Most of the properties speak of the moments between calls, so none is inductive: an
invariant must say what holds at every label of every call. They build on one another, each
step preserving a layer given the ones below (at an erasure, also their next value).

* **`TableInv`.** `Table` is what the code takes for the headers. `MirrorInv` says in which
  three places flash may lag behind it (`InFlash`): the sector just erased, the sector
  claimed, and the link to that sector. `LinkInv`: links stay in their file and never meet.
  `PlaceInv` and `Exclusive` are the *ownership* of sectors: a handle is on a sector of its
  file, a writer on one without a link, and nobody else has its file open. `PathInv` is what
  the running call knows at each label: that the root it is looking for is the root, that the
  link saved before an erasure leads to the new root, that a claimed sector is the file's
  last. Ownership is what keeps an erasure or an allocation away from other handles.
* **`SessionInv`.** A free sector is blank, used slots come first with increasing offsets,
  and a handle remembers of its sector's slots what a new scan would find. `FlushInv` adds
  that a writer leaves a sector only with all its bytes committed (`write` flushes a full
  sector first; a sector without a slot has nothing cached). `ScanFinds` and `ScanStored` say
  what `find_next_session_offset` computes before and after a slot is used.
* **`ChainInv`.** A file has at most one sector without predecessor and one without link
  (`ShapeInv`). That does not exclude a cycle beside the chain, so `RankInv` says that some
  numbering of the sectors grows along every link; adding a sector at the end and erasing the
  root keep one. `GoneInv`: a root erased without a link was all of its file, which is why a
  circular file may start again. `CircularInv` and `GuardInv` (only the root of a file that
  nobody writes or removes is protected) carry `ProtectedUntouched` through recycling.
  `FirstAndLast` shows that a finite nonempty set of sectors without a cycle has both ends.
* **`StreamInv`.** `DataInv`: committed bytes are at their place, and behind them a sector is
  erased unless its writer has programmed pages there. This second half is what excludes
  programming a byte twice. `CacheInv`: what a writer has accepted is in flash up to
  `last_data_offset`, in the cache from there to `curr_data_offset`, and the stream ends there.
  `LinkedInv` and `EndInv`: a sector begins where the one before it ends, and the last one
  ends where the stream does, or a writer or a removal is at work on the file (`Busy`).
  `GrowthInv` carries this from the moment the writer has left its last sector to the moment
  the new one is written. The lemmas `SectorSettles` and `WriterStep` reduce a step of `write`
  or `flush_handle` to what becomes of the one sector it is about.

`ReadsContiguous` and `ProtectedUntouched` are about steps; they follow from the invariants
in the state before, and the first has a lemma for each of the two steps of `read` that
move the reader. On the instances of `long_chain`, `two_files` and `two_handles` TLC finds
all four invariants to hold too (with ranks up to the number of sectors in `RankInv`).

### The addresses

`FlashAddresses_proofs` adds `DeviceAssumption`: the allocation unit (8 bytes of header and a
word per slot) fits its page, and the sectors fit the chip. For all clients it proves

* `RequestsInPlace`: `Spec => []CallsInPlace`. Besides `IInv` it needs two facts about where a
  call has been. `SlotInv`: at the labels of `flush_handle` there is a session slot to write
  (its early return, line 375, guards them), or the address would be past the table of
  slots. `LinkInv`: a file that `open` creates has no root, so nothing is recycled or linked
  for it, or a link would go to a handle that is on no sector yet. The page bound of a
  write is `CacheWithinPage`, carried from an offset in the sector to an address on the chip
  by `PagesBefore` (the allocation unit is a page and a sector is whole pages);
* `NothingElseChanges`: `Spec => ChangesOnlyRequested`, with a lemma per request: which byte
  of the sector changes (`CounterAsked`, `FileInfoAsked`, `ProtectionAsked`, `SlotAsked`,
  `DataAsked`, `EraseAsked`), and that the request covers it;
* `TakenByDriver` and `S25FL128Fits`, see section 2.

### The driver

`SpiFlash_proofs` assumes `GeometryAssumption` (pages divide blocks, blocks the chip, a byte has
bits) and `BufferAssumption` (room for more than the four bytes of a command). It proves
`TypeCorrect`, `Obeyed`, `BufferSafe` and `Refinement` (`Spec => ImplementsNorFlash`) from
`IInv == TypeOK /\ TransferInv /\ RoundInv /\ ChipInv /\ ReplyInv`:

* `TransferInv`: while the driver spins, `xfer_busy` is set exactly when a transfer is in
  flight, and until the transfer ends the buffer has the command of its place. Without it
  the interrupt of an earlier transfer could end a later one's wait;
* `RoundInv`: which requests are at which places, and that a transfer is made for bytes
  that are left;
* `ChipInv`: a busy chip works on this round's command and the driver has not left the
  round; the latch is set when `wren` has returned. This is what makes dropping the results
  harmless;
* `ReplyInv`: a status received while the chip is busy says so, and the bytes received are
  the memory's. The chip may become ready after it has answered; then one more round of
  `busy_wait` is made.

The refinement's hard step is `ChipReady`, where the chip's page program, which wraps, is
shown equal to `Programmed`, which knows no pages (`ProgramInPage`), since the chunk lies in
the page of its request.

### What stays with TLC

Liveness (`CallsReturnUnlessLost`, `CallsReturn`): the provers have no rule for fairness and
ENABLED here. The refinement of `FileStore`, with and without the loss of power, and
`StoreSurvivesLoss`: not proved yet; the facts about chains and streams that they need are
`ChainInv` and `StreamInv`. What happens with a liberty taken, and the findings of section 5,
are counterexamples.

## 5. Findings

| Run | Property | What the code does |
|---|---|---|
| `protect_exhausted` | `ProtectTakesEffect` | Each protect or unprotect clears one of the 8 bits of `file_protect`. The ninth change finds none: `protect` writes 0, returns `FS_NO_ERROR`, and the file is unprotected (`FileSystem.cpp:149`). |
| `full_flash` | `CreateOnFullDevice` | Creating a file that exists on a full device gives `FS_ERROR_FILE_ALREADY_EXISTS`; the ignored test (`test/FileSystemTest.cpp:103`) expects `FS_ERROR_FILESYSTEM_FULL`. |
| `removed_while_open` | `CallsReturn` | With liberty "remove_open": a writer whose sector was erased under it is given that sector as its next one, links it to itself, and the walk to the root never ends. |
| `shared_file` | `ReadsContiguous` | With "share": a reader keeps the end of a sector it read on entering it, and skips the bytes committed there since when the writer has moved on. |
| `unclosed_file` | `CommittedDataIntact` | With "dirty_unmount": pages programmed beyond the last session offset are programmed over by the next append, and the mixture is committed. |
| `go_on` | `NeverUsedIsErased` | Power lost between lines 445 and 462 leaves a link into a free sector. The next writer of the file goes on in it, and the allocator still has the sector as "never used" and gives it to the next file unerased. `calls_return` shows that clients that only read are not harmed. |
| `read_once` | `CallsReturn` | `xfer_busy` is a plain `bool` (`SpiFlash.h:16`) that an interrupt clears. At `-O3` the loop may read it once: if the interrupt comes later, the call hangs. |

## 6. Not modelled, and why

* **Errors of the flash driver.** `SpiFlash::read` and `write` return 0 always and
  `erase_block` the result of the status transfer, which `xfer` sets to 0; the branches of
  `FileSystem.cpp` on `FS_ERROR_FLASH_MEDIA` cannot be reached and are left out.
* **A flash operation cut short** by a loss of power, a second loss, and a loss during
  `format`: the code says nothing about them.
* **A reset of the processor alone**, while the chip is at work. The constructor of
  `SpiFlash` does not wait for the chip; in the model the object goes away between calls.
* **A transfer refused by the nrf driver** for other reasons than one in flight (which
  `BufferLeftAlone` excludes): its source is not part of the repository.
* **The liberties "protect_open" and "reserved_id"** are in the model and in the proofs, but no
  run grants them: the repository states nothing that such a client could rely on.
* **A second handle on a circular file that wraps around** keeps the root and the sector it
  knew. Only clients with "share" have one, and the repository promises them nothing either.
* **user_flags**: bytes that `open` stores with a new file and hands back for an existing
  one. No step of the file system depends on them.
* **The emulator's binary** is external: `FlashLayout` and `SpiFlash` model the chip as the
  code relies on it. Block protection (`RDSR_BP*`) and timing are left out.
* **Tests, runner, `cpputest_basic`, build files and SDK configuration**: no state.
* **Null arguments.** The optional `written` and `read` counters and a null
  `user_flags` select no behaviour but whether a count is reported.

## 7. Plan

Done, in this order: `FlashLayout`, `FileSystem` and its proofs; `NorChip`, `NorFlash`, `SpiFlash` and
their proofs; `FileStore` and the refinement; `PowerLoss`; `FlashAddresses` and its proofs; the
layers of proofs about orderly clients. Left,
the most important first:

1. A proof that `FileSystem` implements `FileStore` for orderly clients: `StreamInv` gives the
   first and the last position of a file, the steps map one by one.
2. The same with the loss of power, which needs `ChainInv` without its one last sector: a loss
   between `WriteNext` and `WriteFileInfo` leaves a link out of the file.
3. A reset of the processor while the chip is at work, with the constructor as it is.
4. Power lost in the middle of a program, given what the chip's data sheet promises of it.

## 8. Running

In this directory, for instance:

    tlc -config MCFileSystem_two_files.cfg MCFileSystem.tla
    tlc -config MCPowerLoss_calls_return.cfg MCPowerLoss.tla
    tlc -config MCSpiFlash_chunked.cfg MCSpiFlash.tla
    tlapm FileSystem_stream_proofs.tla
    tlapm SpiFlash_proofs.tla

Every run takes less than three minutes with two workers, each proof module a few minutes.
