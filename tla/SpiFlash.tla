------------------------------- MODULE SpiFlash -------------------------------
(***************************************************************************)
(* SpiFlash.cpp: the driver of the flash chip.  A request becomes a        *)
(* sequence of SPI transfers, and xfer waits for the interrupt that ends   *)
(* each of them.  Three parties run: the driver, the SPI peripheral with   *)
(* its interrupt handler, and the chip, which works on a program or an     *)
(* erasure after the transfer that ordered it.  The peripheral and the     *)
(* chip are external, modelled from how the driver uses them.              *)
(***************************************************************************)
EXTENDS Integers, Sequences

CONSTANTS
  page_size, block_size, num_pages, Bits, ReadSizes,
  SPI_BUFFER   \* bytes of spi_buffer

ASSUME GeometryAssumption ==
  /\ page_size \in Nat \ {0}
  /\ block_size \in Nat \ {0}
  /\ num_pages \in Nat \ {0}
  /\ block_size % page_size = 0
  /\ (num_pages * page_size) % block_size = 0
  /\ Bits # {}
  /\ ReadSizes \subseteq Nat

ASSUME BufferAssumption == SPI_BUFFER \in Nat /\ SPI_BUFFER > 4

VARIABLES
  mem, wel, work,         \* chip: memory, write-enable latch, command it works on
  bus,                    \* SPI peripheral: whether a transfer is in flight
  xfer_busy, spi_buffer,  \* members of SpiFlash
  pc,                     \* the driver: place in its functions ...
  xpc,                    \* ... and in the transfer made from there
  req, sent,              \* arguments of the call; bytes its loop is past
  out                     \* bytes copied to the reader

chipVars == <<mem, wel, work>>
vars == <<chipVars, bus, xfer_busy, spi_buffer, pc, xpc, req, sent, out>>

\* The chunk of the loop's round has reached the memory: the transfer that ordered
\* it is over and the chip is no longer at work.
NoWork  == [code |-> "none", addr |-> 0, bytes |-> <<>>]
Busy    == work # NoWork
Ordered == \/ pc = "command" /\ xpc = "spin" /\ ~ bus
           \/ pc = "status"
chunk_applied(n) == IF Ordered /\ ~ Busy THEN n ELSE 0

\* Mutant: the four bytes of the command are not taken off.
chunk_size_whole_buffer(sz) == IF sz < SPI_BUFFER THEN sz ELSE SPI_BUFFER

\* wr_size and rd_size: what the buffer holds behind a command and its address.
chunk_size(sz) == IF sz < SPI_BUFFER - 4 THEN sz ELSE SPI_BUFFER - 4
Chunk == chunk_size(req.size - sent)

Nor == INSTANCE NorFlash WITH done <- sent + chunk_applied(Chunk)

Byte    == Nor!Byte
Address == Nor!Address

-----------------------------------------------------------------------------
(***************************************************************************)
(* The buffer: a command, its address and the bytes that follow.  A        *)
(* transfer overwrites it with what the chip sent meanwhile.               *)
(***************************************************************************)
Command(code, a, bytes) == [code |-> code, addr |-> a, bytes |-> bytes]
Reply(bytes) == Command("reply", 0, bytes)

RDSR_BUSY == "busy"
RDSR_WEL  == "wel"
Status == {b \in {RDSR_BUSY, RDSR_WEL} : (b = RDSR_BUSY /\ Busy) \/ (b = RDSR_WEL /\ wel)}

OpCode == [write |-> "PP", erase_block |-> "SE", erase_all |-> "BE", read |-> "READ"]

ChunkData ==
  IF req.op = "write" THEN SubSeq(req.data, sent + 1, sent + Chunk) ELSE <<>>

\* Mutant: every chunk is sent to the address of the first.
CommandAt_same_address ==
  CASE pc = "wren"    -> Command("WREN", 0, <<>>)
    [] pc = "status"  -> Command("RDSR", 0, <<{}>>)
    [] pc = "read"    -> Command("READ", req.addr, [i \in 1 .. Chunk |-> {}])
    [] pc = "command" -> Command(OpCode[req.op], req.addr, ChunkData)

\* What each function puts in the buffer before its transfer.
CommandAt ==
  CASE pc = "wren"    -> Command("WREN", 0, <<>>)
    [] pc = "status"  -> Command("RDSR", 0, <<{}>>)
    [] pc = "read"    -> Command("READ", req.addr + sent, [i \in 1 .. Chunk |-> {}])
    [] pc = "command" -> Command(OpCode[req.op], req.addr + sent, ChunkData)

-----------------------------------------------------------------------------
(***************************************************************************)
(* The object is made and destroyed between calls.  Its memory is not      *)
(* initialised: xfer_busy may be anything.                                 *)
(***************************************************************************)
Init ==
  /\ mem = Nor!AllErased
  /\ wel = FALSE
  /\ work = NoWork
  /\ bus = FALSE
  /\ xfer_busy \in BOOLEAN
  /\ spi_buffer = Reply(<<>>)
  /\ pc = "off"
  /\ xpc = "none"
  /\ req = Nor!NoRequest
  /\ sent = 0
  /\ out = <<>>

Construct ==
  /\ pc = "off"
  /\ pc' = "idle"
  /\ xfer_busy' \in BOOLEAN
  /\ UNCHANGED <<chipVars, bus, spi_buffer, xpc, req, sent, out>>

Destruct ==
  /\ pc = "idle"
  /\ pc' = "off"
  /\ UNCHANGED <<chipVars, bus, xfer_busy, spi_buffer, xpc, req, sent, out>>

-----------------------------------------------------------------------------
(***************************************************************************)
(* xfer: the buffer is filled and xfer_busy set, the transfer is started,  *)
(* the loop waits for the interrupt.                                       *)
(***************************************************************************)
At(place, label) == pc = place /\ xpc = label
Enter(place)     == pc' = place /\ xpc' = "fill"

\* Mutant: xfer_busy is not set before the transfer.
Fill_not_busy ==
  /\ xpc = "fill"
  /\ spi_buffer' = CommandAt
  /\ xpc' = "start"
  /\ UNCHANGED <<chipVars, bus, xfer_busy, pc, req, sent, out>>

Fill ==
  /\ xpc = "fill"
  /\ spi_buffer' = CommandAt
  /\ xfer_busy' = TRUE
  /\ xpc' = "start"
  /\ UNCHANGED <<chipVars, bus, pc, req, sent, out>>

\* nrf_drv_spi_transfer refuses a transfer while one is in flight, and xfer drops
\* its result.
StartTransfer ==
  /\ xpc = "start"
  /\ bus' = TRUE
  /\ xpc' = "spin"
  /\ UNCHANGED <<chipVars, xfer_busy, spi_buffer, pc, req, sent, out>>

\* xfer returns once its loop has read FALSE; a round that reads TRUE changes nothing.
XferReturns(place) == At(place, "spin") /\ ~ xfer_busy

-----------------------------------------------------------------------------
(***************************************************************************)
(* The calls.  write and read go through their loop; an erasure is one     *)
(* round of it.                                                            *)
(***************************************************************************)
Call(r) ==
  /\ pc = "idle"
  /\ pc' = "loop"
  /\ req' = r
  /\ sent' = 0
  /\ out' = <<>>
  /\ UNCHANGED <<chipVars, bus, xfer_busy, spi_buffer, xpc>>

Round ==
  /\ pc = "loop" /\ sent < req.size
  /\ Enter(IF req.op = "read" THEN "read" ELSE "wren")
  /\ UNCHANGED <<chipVars, bus, xfer_busy, spi_buffer, req, sent, out>>

Return ==
  /\ pc = "loop" /\ sent = req.size
  /\ pc' = "idle"
  /\ req' = Nor!NoRequest
  /\ sent' = 0
  /\ UNCHANGED <<chipVars, bus, xfer_busy, spi_buffer, xpc, out>>

WrenReturns ==
  /\ XferReturns("wren")
  /\ Enter("command")
  /\ UNCHANGED <<chipVars, bus, xfer_busy, spi_buffer, req, sent, out>>

CommandReturns ==
  /\ XferReturns("command")
  /\ Enter("status")
  /\ UNCHANGED <<chipVars, bus, xfer_busy, spi_buffer, req, sent, out>>

LoopBack(n) ==
  /\ pc' = "loop" /\ xpc' = "none"
  /\ sent' = sent + n
  /\ UNCHANGED <<chipVars, bus, xfer_busy, spi_buffer, req>>

\* Mutant: the write enable is given once, not for every chunk.
Ready_without_wren ==
  /\ XferReturns("status") /\ RDSR_BUSY \notin spi_buffer.bytes[1]
  /\ sent' = sent + Chunk
  /\ IF sent' < req.size THEN Enter("command") ELSE pc' = "loop" /\ xpc' = "none"
  /\ UNCHANGED <<chipVars, bus, xfer_busy, spi_buffer, req, out>>

\* busy_wait asks for the status until the chip is ready.
StillBusy ==
  /\ XferReturns("status") /\ RDSR_BUSY \in spi_buffer.bytes[1]
  /\ Enter("status")
  /\ UNCHANGED <<chipVars, bus, xfer_busy, spi_buffer, req, sent, out>>

Ready ==
  /\ XferReturns("status") /\ RDSR_BUSY \notin spi_buffer.bytes[1]
  /\ LoopBack(Chunk)
  /\ UNCHANGED out

\* Mutant: a chunk read is not taken off what is left to read.
BytesRead_not_counted ==
  /\ XferReturns("read")
  /\ LoopBack(0)
  /\ out' = out

BytesRead ==
  /\ XferReturns("read")
  /\ LoopBack(Chunk)
  /\ out' = out \o spi_buffer.bytes

-----------------------------------------------------------------------------
(***************************************************************************)
(* The SPI peripheral and the chip.  The chip hears every command, but     *)
(* while it is at work it obeys none except RDSR and returns anything, and *)
(* without write enable it neither programs nor erases.                    *)
(***************************************************************************)
ChipDoes(c) ==
  \/ /\ c.code = "RDSR"
     /\ spi_buffer' = Reply(<<Status>>)
     /\ UNCHANGED <<wel, work>>
  \/ /\ c.code = "WREN"
     /\ spi_buffer' = Reply(<<>>)
     /\ wel' = (wel \/ ~ Busy)
     /\ UNCHANGED work
  \/ /\ c.code = "READ"
     /\ spi_buffer' \in
          IF Busy THEN {Reply(b) : b \in [1 .. Len(c.bytes) -> Byte]}
                  ELSE {Reply(Nor!Content(mem, c.addr, Len(c.bytes)))}
     /\ UNCHANGED <<wel, work>>
  \/ /\ c.code \in {"PP", "SE", "BE"}
     /\ spi_buffer' = Reply(c.bytes)
     /\ work' = IF wel /\ ~ Busy THEN c ELSE work
     /\ UNCHANGED wel

\* The transfer ends, and _spi_event_handler runs.
SpiEvent ==
  /\ bus
  /\ ChipDoes(spi_buffer)
  /\ bus' = FALSE
  /\ xfer_busy' = FALSE
  /\ UNCHANGED <<mem, pc, xpc, req, sent, out>>

\* A program that reaches the end of its page goes on at the beginning of the page.
InPage(a, i) == (a \div page_size) * page_size + ((a + i) % page_size)
PageProgrammed(a, bytes) ==
  [x \in Address |->
     LET hits == {i \in 1 .. Len(bytes) : InPage(a, i - 1) = x}
     IN  {b \in mem[x] : \A i \in hits : b \in bytes[i]}]

ChipReady ==
  /\ Busy
  /\ mem' = CASE work.code = "PP" -> PageProgrammed(work.addr, work.bytes)
              [] work.code = "SE" -> Nor!BlockErased(mem, work.addr)
              [] work.code = "BE" -> Nor!AllErased
  /\ wel' = FALSE
  /\ work' = NoWork
  /\ UNCHANGED <<bus, xfer_busy, spi_buffer, pc, xpc, req, sent, out>>

-----------------------------------------------------------------------------
Driver ==
  \/ Fill \/ StartTransfer
  \/ Round \/ Return \/ WrenReturns \/ CommandReturns
  \/ StillBusy \/ Ready \/ BytesRead

Next ==
  \/ Construct \/ Destruct
  \/ \E r \in Nor!Requests : Call(r)
  \/ Driver
  \/ SpiEvent
  \/ ChipReady

Spec == Init /\ [][Next]_vars

\* The processor executes the call it is in, a transfer that was started ends with
\* its interrupt, and the chip finishes what it works on.
FairSpec == Spec /\ WF_vars(Driver) /\ WF_vars(SpiEvent) /\ WF_vars(ChipReady)

-----------------------------------------------------------------------------
(***************************************************************************)
(* Properties.                                                             *)
(***************************************************************************)

\* Every variable has its type; in particular no command is longer than spi_buffer
\* (SpiFlash.cpp:102, 125).
CommandType ==
  [code  : {"none", "reply", "WREN", "RDSR", "READ", "PP", "SE", "BE"},
   addr  : Address,
   bytes : UNION {[1 .. n -> Byte \cup SUBSET {RDSR_BUSY, RDSR_WEL}] : n \in 0 .. SPI_BUFFER - 4}]
TypeOK ==
  /\ mem \in [Address -> Byte]
  /\ wel \in BOOLEAN
  /\ work \in CommandType
  /\ bus \in BOOLEAN
  /\ xfer_busy \in BOOLEAN
  /\ spi_buffer \in CommandType
  /\ pc \in {"off", "idle", "loop", "wren", "command", "status", "read"}
  /\ xpc \in {"none", "fill", "start", "spin"}
  /\ req \in Nor!Requests \cup {Nor!NoRequest}
  /\ sent \in 0 .. req.size
  /\ out \in Seq(Byte)

\* No command is sent that the chip would not obey: a program or an erasure follows
\* its own write enable, and nothing but RDSR is sent to a chip at work.  The driver
\* drops every result (SpiFlash.cpp:95-106), so a command not obeyed is a write lost.
CommandsObeyed ==
  bus => /\ spi_buffer.code # "RDSR" => ~ Busy
         /\ spi_buffer.code \in {"PP", "SE", "BE"} => wel

\* The driver leaves the buffer alone while a transfer is in flight: the peripheral
\* reads and writes it by DMA (xfer gives it as both, SpiFlash.cpp:57), and starts no
\* second one.
BufferLeftAlone ==
  [][bus /\ bus' => UNCHANGED spi_buffer /\ xpc # "start"]_vars

\* The driver implements NorFlash: what is written is in the memory when the call
\* returns, chunk after chunk and nowhere else, an erasure is over, and a reader gets
\* the memory's bytes (S25FL128Test.cpp:50-104).
ImplementsNorFlash == Nor!Spec

\* Every call returns.
CallsReturn == \A r \in {"write", "read", "erase_block", "erase_all"} :
                 req.op = r ~> req = Nor!NoRequest

=============================================================================
