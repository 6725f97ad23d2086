---------------------------- MODULE SpiFlash_proofs ----------------------------
(***************************************************************************)
(* For every geometry of the chip and every size of the buffer: SpiFlash   *)
(* keeps its types, sends no command the chip would not obey, leaves the   *)
(* buffer alone during a transfer, and implements NorFlash.                *)
(***************************************************************************)
EXTENDS SpiFlash, PageArithmetic, SequenceTheorems, TLAPS

(***************************************************************************)
(* The inductive invariant.                                                *)
(***************************************************************************)

\* Where the driver is in its transfer, and what the interrupt has left to it.
TransferInv ==
  /\ (xpc = "none") <=> (pc \in {"off", "idle", "loop"})
  /\ bus => xpc = "spin"
  /\ xpc = "spin" => xfer_busy = bus
  /\ xpc = "start" => xfer_busy
  /\ xpc = "start" \/ bus => spi_buffer = CommandAt

\* Where the call is in its loop.
RoundInv ==
  /\ (pc \in {"off", "idle"}) <=> (req = Nor!NoRequest)
  /\ xpc # "none" => sent < req.size
  /\ pc = "read" => req.op = "read"
  /\ pc \in {"wren", "command", "status"} => req.op \in {"write", "erase_block", "erase_all"}

\* What the chip is at work on is the command of this round, and it is enabled for it.
ChipInv ==
  /\ Busy => Ordered /\ work = Command(OpCode[req.op], req.addr + sent, ChunkData)
  /\ pc = "wren" /\ xpc = "spin" /\ ~ bus => wel
  /\ pc = "command" /\ ~ Ordered => wel

\* What the chip has answered is true of it.
ReplyInv ==
  xpc = "spin" /\ ~ bus =>
    /\ pc = "status" /\ Busy => RDSR_BUSY \in spi_buffer.bytes[1]
    /\ pc = "read" => spi_buffer = Reply(Nor!Content(mem, req.addr + sent, Chunk))

IInv == TypeOK /\ TransferInv /\ RoundInv /\ ChipInv /\ ReplyInv

-----------------------------------------------------------------------------
(***************************************************************************)
(* The chip.                                                               *)
(***************************************************************************)

\* The capacity of the chip, and the least the buffer can carry.
LEMMA Sizes ==
  /\ page_size \in Nat /\ page_size > 0
  /\ num_pages \in Nat /\ num_pages > 0
  /\ Nor!get_capacity = num_pages * page_size
  /\ Nor!get_capacity \in Nat /\ page_size <= Nor!get_capacity
  /\ Address = 0 .. Nor!get_capacity - 1
  /\ 0 \in Address
  /\ SPI_BUFFER \in Nat /\ SPI_BUFFER - 4 \in Nat /\ SPI_BUFFER - 4 >= 1
<1>1. page_size \in Nat /\ page_size > 0 /\ num_pages \in Nat /\ num_pages > 0
  BY GeometryAssumption
<1>2. num_pages * page_size \in Nat /\ page_size <= num_pages * page_size
  BY <1>1, SMTT(30)
<1> QED
  BY <1>1, <1>2, BufferAssumption DEF Nor!get_capacity, Address, Nor!Address

\* A stretch that stays in its page stays in the chip.
LEMMA FitsInChip ==
  ASSUME NEW a \in Address, NEW n \in Nat, (a % page_size) + n <= page_size
  PROVE  a + n <= Nor!get_capacity
<1> DEFINE q == a \div page_size
           r == a % page_size
<1>1. a \in Nat /\ a < num_pages * page_size
  BY Sizes
<1>2. q \in Nat /\ r \in 0 .. page_size - 1 /\ a = page_size * q + r
  BY <1>1, Sizes, DivMod
<1> HIDE DEF q
<1>3. q < num_pages
  <2>1. ASSUME q >= num_pages PROVE page_size * q >= num_pages * page_size
    BY <2>1, <1>2, Sizes, SMTT(30)
  <2> QED
    BY <2>1, <1>1, <1>2, Sizes
<1>4. page_size * q + page_size <= num_pages * page_size
  <2>1. q + 1 <= num_pages
    BY <1>2, <1>3, Sizes
  <2>2. page_size * (q + 1) <= page_size * num_pages
    BY <2>1, <1>2, Sizes, SMTT(30)
  <2> QED
    BY <2>2, <1>2, Sizes, SMTT(30)
<1> QED
  BY <1>2, <1>4, Sizes

-----------------------------------------------------------------------------
(***************************************************************************)
(* Requests and their chunks.                                              *)
(***************************************************************************)

\* What a request is, by its operation.
LEMMA RequestFacts ==
  ASSUME NEW r \in Nor!Requests
  PROVE  /\ r.op \in {"write", "read", "erase_block", "erase_all"}
         /\ r.addr \in Address /\ r.size \in Nat
         /\ r # Nor!NoRequest
         /\ r.size <= Nor!get_capacity
         /\ r.addr + r.size <= Nor!get_capacity
         /\ r.op = "write" => /\ r.data \in Seq(Byte) /\ Len(r.data) = r.size
                              /\ (r.addr % page_size) + r.size <= page_size
         /\ r.op \in {"erase_block", "erase_all"} => r.size = 1
<1>1. CASE r \in Nor!WriteRequests
  <2>1. /\ r.op = "write" /\ r.addr \in Address /\ r.size \in 0 .. page_size
        /\ r.data \in UNION {[1 .. n -> Byte] : n \in 0 .. page_size}
        /\ Len(r.data) = r.size /\ (r.addr % page_size) + r.size <= page_size
    BY <1>1 DEF Nor!WriteRequests, Nor!FitsPage, Address, Byte
  <2>2. PICK n \in 0 .. page_size : r.data \in [1 .. n -> Byte]
    BY <2>1
  <2>3. n \in Nat
    BY <2>2, Sizes
  <2>4. r.data \in Seq(Byte)
    BY <2>2, <2>3, SeqDef
  <2>5. r.size \in Nat /\ r.size <= Nor!get_capacity
    BY <2>1, Sizes
  <2>6. r.addr + r.size <= Nor!get_capacity
    BY <2>1, <2>5, FitsInChip
  <2>7. r # Nor!NoRequest
    BY <2>1 DEF Nor!NoRequest, Nor!Request
  <2> QED
    BY <2>1, <2>4, <2>5, <2>6, <2>7
<1>2. CASE r \in Nor!ReadRequests
  <2>1. /\ r.op = "read" /\ r.addr \in Address /\ r.size \in Nat
        /\ r.addr + r.size <= Nor!get_capacity
    BY <1>2, GeometryAssumption DEF Nor!ReadRequests, Nor!FitsChip, Address
  <2> QED
    BY <2>1, Sizes DEF Nor!NoRequest, Nor!Request
<1>3. CASE r \in Nor!EraseRequests
  <2>1. r.op \in {"erase_block", "erase_all"} /\ r.addr \in Address /\ r.size = 1
    BY <1>3, Sizes DEF Nor!EraseRequests, Nor!Request, Address
  <2> QED
    BY <2>1, Sizes DEF Nor!NoRequest, Nor!Request
<1> QED
  BY <1>1, <1>2, <1>3 DEF Nor!Requests

\* A chunk is part of what is left and fits in the buffer behind its command.
LEMMA ChunkFacts ==
  ASSUME NEW n \in Nat, n > 0
  PROVE  chunk_size(n) \in 1 .. n /\ chunk_size(n) <= SPI_BUFFER - 4
  BY Sizes DEF chunk_size

\* Bytes that fit behind a command are among those the buffer may hold.
Payloads == UNION {[1 .. n -> Byte \cup SUBSET {RDSR_BUSY, RDSR_WEL}] : n \in 0 .. SPI_BUFFER - 4}

LEMMA PayloadFacts ==
  ASSUME NEW n \in Nat, n <= SPI_BUFFER - 4
  PROVE  /\ \A bytes \in [1 .. n -> Byte] : bytes \in Payloads
         /\ \A bytes \in Seq(Byte) : Len(bytes) = n => bytes \in Payloads
<1>1. n \in 0 .. SPI_BUFFER - 4
  BY Sizes
<1>2. ASSUME NEW bytes \in [1 .. n -> Byte] PROVE bytes \in Payloads
  <2>1. bytes \in [1 .. n -> Byte \cup SUBSET {RDSR_BUSY, RDSR_WEL}]
    OBVIOUS
  <2> QED
    BY <1>1, <2>1 DEF Payloads
<1>3. ASSUME NEW bytes \in Seq(Byte), Len(bytes) = n PROVE bytes \in [1 .. n -> Byte]
  BY <1>3, LenProperties
<1> QED
  BY <1>2, <1>3

LEMMA CommandIsTyped ==
  ASSUME NEW c \in {"none", "reply", "WREN", "RDSR", "READ", "PP", "SE", "BE"},
         NEW a \in Address, NEW bytes \in Payloads
  PROVE  Command(c, a, bytes) \in CommandType
  BY DEF Command, CommandType, Payloads

\* Where the call is, in numbers: the round's chunk lies in the request and in the chip.
LEMMA RoundFacts ==
  ASSUME TypeOK, RoundInv, xpc # "none"
  PROVE  /\ req \in Nor!Requests
         /\ sent \in Nat /\ sent < req.size
         /\ Chunk \in 1 .. req.size - sent /\ Chunk \in Nat /\ Chunk <= SPI_BUFFER - 4
         /\ req.addr + sent \in Address
         /\ req.addr + sent + Chunk <= Nor!get_capacity
         /\ sent + Chunk \in 0 .. req.size
<1>1. req \in Nor!Requests
  <2>1. sent < req.size /\ sent \in 0 .. req.size /\ req \in Nor!Requests \cup {Nor!NoRequest}
    BY DEF TypeOK, RoundInv
  <2>2. Nor!NoRequest.size = 0
    BY DEF Nor!NoRequest, Nor!Request
  <2> QED
    BY <2>1, <2>2
<1>2. sent < req.size /\ sent \in 0 .. req.size
  BY DEF TypeOK, RoundInv
<1>3. req.size \in Nat /\ req.addr \in Address /\ req.addr + req.size <= Nor!get_capacity
  BY <1>1, RequestFacts
<1>4. req.size - sent \in Nat /\ req.size - sent > 0
  BY <1>2, <1>3
<1>5. Chunk \in 1 .. req.size - sent /\ Chunk <= SPI_BUFFER - 4
  BY <1>4, ChunkFacts DEF Chunk
<1> QED
  BY <1>1, <1>2, <1>3, <1>5, Sizes

\* The bytes of a chunk.
LEMMA ChunkDataFacts ==
  ASSUME TypeOK, RoundInv, xpc # "none"
  PROVE  /\ ChunkData \in Payloads
         /\ req.op = "write" => /\ ChunkData = SubSeq(req.data, sent + 1, sent + Chunk)
                                /\ ChunkData \in Seq(Byte) /\ Len(ChunkData) = Chunk
<1>0. /\ req \in Nor!Requests /\ sent \in Nat /\ req.size \in Nat
      /\ Chunk \in 1 .. req.size - sent /\ Chunk \in Nat /\ Chunk <= SPI_BUFFER - 4
  BY RoundFacts, RequestFacts
<1>1. CASE req.op = "write"
  <2>1. ChunkData = SubSeq(req.data, sent + 1, sent + Chunk)
    BY <1>1 DEF ChunkData
  <2>2. req.data \in Seq(Byte) /\ Len(req.data) = req.size
    BY <1>0, <1>1, RequestFacts
  <2>3. \A i \in sent + 1 .. sent + Chunk : req.data[i] \in Byte
    BY <2>2, <1>0, LenProperties
  <2>4. sent + 1 \in Int /\ sent + Chunk \in Int
    BY <1>0
  <2>5. SubSeq(req.data, sent + 1, sent + Chunk) \in Seq(Byte)
        /\ Len(SubSeq(req.data, sent + 1, sent + Chunk)) = Chunk
    BY <2>3, <2>4, <1>0, SubSeqProperties
  <2> QED
    BY <2>1, <2>5, <1>0, PayloadFacts
<1>2. CASE req.op # "write"
  <2>1. ChunkData = <<>>
    BY <1>2 DEF ChunkData
  <2>2. 0 \in Nat /\ 0 <= SPI_BUFFER - 4 /\ <<>> \in Seq(Byte) /\ Len(<<>>) = 0
    BY Sizes, EmptySeq
  <2> QED
    BY <2>1, <2>2, <1>2, PayloadFacts
<1> QED
  BY <1>1, <1>2

-----------------------------------------------------------------------------
(***************************************************************************)
(* The command of a place.                                                 *)
(***************************************************************************)
Places == {"wren", "status", "read", "command"}

LEMMA InTransfer ==
  ASSUME TypeOK, TransferInv, xpc # "none"
  PROVE  pc \in Places
  BY DEF TypeOK, TransferInv, Places

\* The command depends on the place and the round alone.
LEMMA CommandKept ==
  ASSUME UNCHANGED <<pc, req, sent>>
  PROVE  CommandAt' = CommandAt /\ Chunk' = Chunk /\ ChunkData' = ChunkData
  BY DEF CommandAt, Chunk, ChunkData, chunk_size, OpCode, Command

\* The length of a sequence is the end of its domain.
LEMMA SameEnd ==
  ASSUME NEW m \in Nat, NEW n \in Nat, 1 .. m = 1 .. n
  PROVE  m = n
<1>1. m > n => m \in 1 .. m /\ m \notin 1 .. n
  OBVIOUS
<1>2. n > m => n \in 1 .. n /\ n \notin 1 .. m
  OBVIOUS
<1> QED
  BY <1>1, <1>2

LEMMA CommandFacts ==
  ASSUME TypeOK, RoundInv, xpc # "none", pc \in Places
  PROVE  /\ CommandAt \in CommandType
         /\ pc = "wren" => CommandAt.code = "WREN"
         /\ pc = "status" => CommandAt.code = "RDSR"
         /\ pc = "read" => /\ CommandAt.code = "READ"
                           /\ CommandAt.addr = req.addr + sent
                           /\ Len(CommandAt.bytes) = Chunk
         /\ pc = "command" => /\ CommandAt.code \in {"PP", "SE", "BE"}
                              /\ CommandAt = Command(OpCode[req.op], req.addr + sent, ChunkData)
<1>0. /\ req \in Nor!Requests /\ req.addr + sent \in Address
      /\ Chunk \in Nat /\ Chunk <= SPI_BUFFER - 4 /\ ChunkData \in Payloads /\ 0 \in Address
  BY RoundFacts, ChunkDataFacts, Sizes
<1>1. CASE pc = "wren"
  <2>1. CommandAt = Command("WREN", 0, <<>>)
    BY <1>1 DEF CommandAt
  <2>2. <<>> \in Payloads
    <3>1. 0 \in Nat /\ 0 <= SPI_BUFFER - 4 /\ <<>> \in Seq(Byte) /\ Len(<<>>) = 0
      BY Sizes, EmptySeq
    <3> QED
      BY <3>1, PayloadFacts
  <2>3. CommandAt \in CommandType
    BY <2>1, <2>2, <1>0, CommandIsTyped
  <2> QED
    BY <2>1, <2>3, <1>1 DEF Command
<1>2. CASE pc = "status"
  <2>1. CommandAt = Command("RDSR", 0, <<{}>>)
    BY <1>2 DEF CommandAt
  <2>2. <<{}>> \in Payloads
    <3>1. <<{}>> \in [1 .. 1 -> Byte \cup SUBSET {RDSR_BUSY, RDSR_WEL}] /\ 1 \in 0 .. SPI_BUFFER - 4
      BY Sizes
    <3> QED
      BY <3>1 DEF Payloads
  <2>3. CommandAt \in CommandType
    BY <2>1, <2>2, <1>0, CommandIsTyped
  <2> QED
    BY <2>1, <2>3, <1>2 DEF Command
<1>3. CASE pc = "read"
  <2> DEFINE zeros == [i \in 1 .. Chunk |-> {}]
  <2>1. CommandAt = Command("READ", req.addr + sent, zeros)
    BY <1>3 DEF CommandAt
  <2>2. zeros \in [1 .. Chunk -> Byte]
    BY DEF Byte, Nor!Byte
  <2>3. zeros \in Payloads
    BY <2>2, <1>0, PayloadFacts
  <2>4. zeros \in Seq(Byte) /\ Len(zeros) = Chunk
    <3>1. zeros \in Seq(Byte)
      BY <2>2, <1>0, SeqDef
    <3>2. DOMAIN zeros = 1 .. Len(zeros) /\ Len(zeros) \in Nat
      BY <3>1, LenProperties
    <3>3. DOMAIN zeros = 1 .. Chunk
      OBVIOUS
    <3> HIDE DEF zeros
    <3>4. 1 .. Len(zeros) = 1 .. Chunk
      BY <3>2, <3>3
    <3>5. Len(zeros) = Chunk
      BY <3>2, <3>4, <1>0, SameEnd
    <3> QED
      BY <3>1, <3>5
  <2> HIDE DEF zeros
  <2>5. CommandAt \in CommandType
    BY <2>1, <2>3, <1>0, CommandIsTyped
  <2> QED
    BY <2>1, <2>4, <2>5, <1>3 DEF Command
<1>4. CASE pc = "command"
  <2>1. CommandAt = Command(OpCode[req.op], req.addr + sent, ChunkData)
    BY <1>4 DEF CommandAt
  <2>2. OpCode[req.op] \in {"PP", "SE", "BE"}
    BY <1>4 DEF RoundInv, OpCode
  <2>3. CommandAt \in CommandType
    BY <2>1, <2>2, <1>0, CommandIsTyped
  <2> QED
    BY <2>1, <2>2, <2>3, <1>4 DEF Command
<1> QED
  BY <1>1, <1>2, <1>3, <1>4 DEF Places

-----------------------------------------------------------------------------
(***************************************************************************)
(* The invariant is inductive.  Most steps of the driver change its place  *)
(* alone; the interrupt and the chip change what the place promises.       *)
(***************************************************************************)

\* The bytes the chip answers a READ of this round with.
LEMMA ContentTyped ==
  ASSUME TypeOK, RoundInv, xpc # "none"
  PROVE  Nor!Content(mem, req.addr + sent, Chunk) \in [1 .. Chunk -> Byte]
<1>1. /\ req.addr + sent \in Address /\ Chunk \in Nat
      /\ req.addr + sent + Chunk <= Nor!get_capacity
  BY RoundFacts
<1>2. \A i \in 1 .. Chunk : req.addr + sent + i - 1 \in Address
  BY <1>1, Sizes
<1>3. mem \in [Address -> Byte]
  BY DEF TypeOK
<1> QED
  BY <1>2, <1>3 DEF Nor!Content

LEMMA ReplyTyped ==
  ASSUME NEW bytes \in Payloads
  PROVE  Reply(bytes) \in CommandType
<1>1. 0 \in Address
  BY Sizes
<1> QED
  BY <1>1, CommandIsTyped DEF Reply

LEMMA InitInv == Init => IInv
<1> SUFFICES ASSUME Init PROVE IInv
  OBVIOUS
<1>1. /\ <<>> \in Payloads /\ <<>> \in Seq(Byte) /\ 0 \in Address
  <2>1. 0 \in Nat /\ 0 <= SPI_BUFFER - 4 /\ <<>> \in Seq(Byte) /\ Len(<<>>) = 0
    BY Sizes, EmptySeq
  <2> QED
    BY <2>1, Sizes, PayloadFacts
<1>2. NoWork \in CommandType /\ Reply(<<>>) \in CommandType
  <2>1. Command("none", 0, <<>>) \in CommandType
    BY <1>1, CommandIsTyped
  <2> QED
    BY <1>1, <2>1, ReplyTyped DEF NoWork, Command
<1>3. Nor!AllErased \in [Address -> Byte]
  BY DEF Nor!AllErased, Address, Byte, Nor!Byte, Nor!ERASED
<1>4. Nor!NoRequest.size = 0
  BY DEF Nor!NoRequest, Nor!Request
<1>5. sent \in 0 .. req.size /\ req \in Nor!Requests \cup {Nor!NoRequest}
  BY <1>4 DEF Init
<1>6. work \in CommandType /\ spi_buffer \in CommandType /\ mem \in [Address -> Byte]
  BY <1>2, <1>3 DEF Init
<1>7. TypeOK
  BY <1>1, <1>5, <1>6 DEF Init, TypeOK
<1> QED
  BY <1>7 DEF Init, IInv, TransferInv, RoundInv, ChipInv, ReplyInv, Busy

\* The transfer ends: the chip has heard the command of the place.
LEMMA SpiEventInv ==
  ASSUME IInv, SpiEvent
  PROVE  IInv'
<1>0. TypeOK /\ TransferInv /\ RoundInv /\ ChipInv
  BY DEF IInv
<1>1. /\ bus /\ xpc = "spin" /\ spi_buffer = CommandAt /\ spi_buffer \in CommandType
      /\ pc \in Places
  BY <1>0, InTransfer DEF SpiEvent, TransferInv, TypeOK
<1>2. /\ UNCHANGED <<mem, pc, xpc, req, sent, out>>
      /\ ~ bus' /\ ~ xfer_busy' /\ bus' \in BOOLEAN /\ xfer_busy' \in BOOLEAN
  BY DEF SpiEvent
<1>3. Chunk' = Chunk /\ ChunkData' = ChunkData
  BY <1>2, CommandKept
<1>4. TransferInv' /\ RoundInv'
  BY <1>0, <1>1, <1>2 DEF TransferInv, RoundInv, Places
<1>5. spi_buffer.bytes \in Payloads
  BY <1>1 DEF CommandType, Payloads
<1>6. ~ Ordered /\ pc # "status" => ~ Busy
  BY <1>0 DEF ChipInv
<1>7. spi_buffer' \in CommandType /\ wel' \in BOOLEAN /\ work' \in CommandType
      /\ ChipInv' /\ ReplyInv'
  <2>1. CASE pc = "wren"
    <3>1. spi_buffer.code = "WREN" /\ ~ Busy
      BY <1>0, <1>1, <1>6, <2>1, CommandFacts DEF Ordered
    <3>2. spi_buffer' = Reply(<<>>) /\ wel' /\ wel' \in BOOLEAN /\ work' = work
      BY <3>1 DEF SpiEvent, ChipDoes
    <3>3. <<>> \in Payloads
      <4>1. 0 \in Nat /\ 0 <= SPI_BUFFER - 4 /\ <<>> \in Seq(Byte) /\ Len(<<>>) = 0
        BY Sizes, EmptySeq
      <4> QED
        BY <4>1, PayloadFacts
    <3>4. spi_buffer' \in CommandType
      BY <3>2, <3>3, ReplyTyped
    <3> QED
      BY <1>0, <1>2, <2>1, <3>1, <3>2, <3>4 DEF TypeOK, ChipInv, ReplyInv, Busy, NoWork
  <2>2. CASE pc = "status"
    <3>1. spi_buffer.code = "RDSR"
      BY <1>0, <1>1, <2>2, CommandFacts
    <3>2. spi_buffer' = Reply(<<Status>>) /\ UNCHANGED <<wel, work>>
      BY <3>1 DEF SpiEvent, ChipDoes
    <3>3. <<Status>> \in Payloads
      <4>1. <<Status>> \in [1 .. 1 -> Byte \cup SUBSET {RDSR_BUSY, RDSR_WEL}]
            /\ 1 \in 0 .. SPI_BUFFER - 4
        BY Sizes DEF Status
      <4> QED
        BY <4>1 DEF Payloads
    <3>4. spi_buffer' \in CommandType
      BY <3>2, <3>3, ReplyTyped
    <3>5. Busy => RDSR_BUSY \in spi_buffer'.bytes[1]
      BY <3>2 DEF Reply, Command, Status
    <3>6. ChipInv'
      BY <1>0, <1>2, <1>3, <2>2, <3>2 DEF ChipInv, Busy, NoWork, Ordered
    <3> QED
      BY <1>0, <1>2, <2>2, <3>2, <3>4, <3>5, <3>6 DEF TypeOK, ReplyInv, Busy, NoWork
  <2>3. CASE pc = "read"
    <3>1. /\ spi_buffer.code = "READ" /\ spi_buffer.addr = req.addr + sent
          /\ Len(spi_buffer.bytes) = Chunk
      BY <1>0, <1>1, <2>3, CommandFacts
    <3>2. ~ Busy
      BY <1>6, <2>3 DEF Ordered
    <3>3. /\ spi_buffer' = Reply(Nor!Content(mem, req.addr + sent, Chunk))
          /\ UNCHANGED <<wel, work>>
      BY <3>1, <3>2 DEF SpiEvent, ChipDoes
    <3>4. Nor!Content(mem, req.addr + sent, Chunk) \in Payloads
      <4>1. Chunk \in Nat /\ Chunk <= SPI_BUFFER - 4
        BY <1>0, <1>1, RoundFacts
      <4> QED
        BY <4>1, <1>0, <1>1, ContentTyped, PayloadFacts
    <3>5. spi_buffer' \in CommandType
      BY <3>3, <3>4, ReplyTyped
    <3>6. ReplyInv'
      BY <1>2, <1>3, <2>3, <3>3 DEF ReplyInv
    <3> QED
      BY <1>0, <1>2, <2>3, <3>2, <3>3, <3>5, <3>6 DEF TypeOK, ChipInv, Busy, NoWork
  <2>4. CASE pc = "command"
    <3>1. /\ spi_buffer.code \in {"PP", "SE", "BE"}
          /\ spi_buffer = Command(OpCode[req.op], req.addr + sent, ChunkData)
      BY <1>0, <1>1, <2>4, CommandFacts
    <3>2. ~ Busy /\ wel
      BY <1>0, <1>1, <1>6, <2>4 DEF Ordered, ChipInv
    <3>3. spi_buffer' = Reply(spi_buffer.bytes) /\ work' = spi_buffer /\ wel' = wel
      BY <3>1, <3>2 DEF SpiEvent, ChipDoes
    <3>4. spi_buffer' \in CommandType
      BY <1>5, <3>3, ReplyTyped
    <3>5. Ordered'
      BY <1>1, <1>2, <2>4 DEF Ordered
    <3>6. ChipInv'
      BY <1>2, <1>3, <2>4, <3>1, <3>3, <3>5 DEF ChipInv
    <3> QED
      BY <1>0, <1>1, <1>2, <2>4, <3>3, <3>4, <3>6 DEF TypeOK, ReplyInv
  <2> QED
    BY <1>1, <2>1, <2>2, <2>3, <2>4 DEF Places
<1>8. TypeOK'
  BY <1>0, <1>2, <1>7 DEF TypeOK, CommandType
<1> QED
  BY <1>4, <1>7, <1>8 DEF IInv

\* What the chip is at work on when it is: the operation of the call, on this round's chunk.
LEMMA AtWork ==
  ASSUME IInv, Busy
  PROVE  /\ req \in Nor!Requests /\ xpc # "none" /\ Ordered
         /\ work.addr = req.addr + sent /\ work.bytes = ChunkData
         /\ \/ req.op = "write" /\ work.code = "PP"
            \/ req.op = "erase_block" /\ work.code = "SE"
            \/ req.op = "erase_all" /\ work.code = "BE"
<1>1. Ordered /\ work = Command(OpCode[req.op], req.addr + sent, ChunkData)
  BY DEF IInv, ChipInv
<1>2. pc \in {"command", "status"} /\ xpc # "none"
  BY <1>1 DEF Ordered, IInv, TransferInv
<1>3. req.op \in {"write", "erase_block", "erase_all"}
  BY <1>2 DEF IInv, RoundInv
<1>4. req \in Nor!Requests
  BY <1>2, RoundFacts DEF IInv
<1> QED
  BY <1>1, <1>2, <1>3, <1>4 DEF Command, OpCode

\* The chip finishes its work.
LEMMA ChipReadyInv ==
  ASSUME IInv, ChipReady
  PROVE  IInv'
<1>0. TypeOK /\ TransferInv /\ RoundInv /\ ChipInv /\ ReplyInv
  BY DEF IInv
<1>1. Busy /\ work' = NoWork /\ UNCHANGED <<bus, xfer_busy, spi_buffer, pc, xpc, req, sent, out>>
  BY DEF ChipReady
<1>2. CommandAt' = CommandAt /\ Chunk' = Chunk /\ ChunkData' = ChunkData
  BY <1>1, CommandKept
<1>3. mem' \in [Address -> Byte]
  <2>1. mem \in [Address -> Byte]
    BY <1>0 DEF TypeOK
  <2>2. CASE work.code = "PP"
    <3>1. mem' = PageProgrammed(work.addr, work.bytes)
      BY <2>2 DEF ChipReady
    <3> QED
      BY <2>1, <3>1 DEF PageProgrammed, Byte, Nor!Byte
  <2>3. CASE work.code = "SE"
    <3>1. mem' = Nor!BlockErased(mem, work.addr)
      BY <2>3 DEF ChipReady
    <3> QED
      BY <2>1, <3>1 DEF Nor!BlockErased, Address, Byte, Nor!Byte, Nor!ERASED
  <2>4. CASE work.code = "BE"
    <3>1. mem' = Nor!AllErased
      BY <2>4 DEF ChipReady
    <3> QED
      BY <2>1, <3>1 DEF Nor!AllErased, Address, Byte, Nor!Byte, Nor!ERASED
  <2> QED
    BY <1>1, <2>2, <2>3, <2>4, AtWork
<1>4. wel' = FALSE /\ work' \in CommandType /\ ~ Busy'
  <2>1. <<>> \in Payloads /\ 0 \in Address
    <3>1. 0 \in Nat /\ 0 <= SPI_BUFFER - 4 /\ <<>> \in Seq(Byte) /\ Len(<<>>) = 0
      BY Sizes, EmptySeq
    <3> QED
      BY <3>1, Sizes, PayloadFacts
  <2>2. Command("none", 0, <<>>) \in CommandType
    BY <2>1, CommandIsTyped
  <2> QED
    BY <1>1, <2>2 DEF ChipReady, NoWork, Command, Busy
<1>5. TypeOK'
  BY <1>0, <1>1, <1>3, <1>4, ZenonT(40) DEF TypeOK, CommandType
<1>6. TransferInv' /\ RoundInv'
  BY <1>0, <1>1, <1>2 DEF TransferInv, RoundInv
<1>7. pc # "wren" /\ Ordered /\ pc \in {"command", "status"}
  BY <1>0, <1>1 DEF ChipInv, Ordered
<1>8. ChipInv' /\ ReplyInv'
  BY <1>0, <1>1, <1>4, <1>7 DEF ChipInv, ReplyInv, Ordered
<1> QED
  BY <1>5, <1>6, <1>8 DEF IInv

\* A step of the driver that changes its place, xfer_busy or the round.
LEMMA DriverInv ==
  ASSUME IInv, Driver
  PROVE  IInv'
<1>0. TypeOK /\ TransferInv /\ RoundInv /\ ChipInv /\ ReplyInv
  BY DEF IInv
<1>1. CASE Fill
  <2>1. /\ xpc = "fill" /\ xpc' = "start" /\ xfer_busy' = TRUE /\ spi_buffer' = CommandAt
        /\ UNCHANGED <<chipVars, bus, pc, req, sent, out>>
    BY <1>1 DEF Fill
  <2>2. CommandAt' = CommandAt /\ Chunk' = Chunk /\ ChunkData' = ChunkData
    BY <2>1, CommandKept
  <2>3. CommandAt \in CommandType
    BY <1>0, <2>1, InTransfer, CommandFacts
  <2>4. TypeOK'
    BY <1>0, <2>1, <2>3 DEF TypeOK, CommandType, chipVars
  <2>5. TransferInv' /\ RoundInv'
    BY <1>0, <2>1, <2>2 DEF TransferInv, RoundInv
  <2>6. ChipInv' /\ ReplyInv'
    BY <1>0, <2>1, <2>2 DEF ChipInv, ReplyInv, TransferInv, Ordered, Busy, NoWork, chipVars
  <2> QED
    BY <2>4, <2>5, <2>6 DEF IInv
<1>2. CASE StartTransfer
  <2>1. /\ xpc = "start" /\ xpc' = "spin" /\ bus' = TRUE
        /\ UNCHANGED <<chipVars, xfer_busy, spi_buffer, pc, req, sent, out>>
    BY <1>2 DEF StartTransfer
  <2>2. CommandAt' = CommandAt /\ Chunk' = Chunk /\ ChunkData' = ChunkData
    BY <2>1, CommandKept
  <2>3. TypeOK'
    BY <1>0, <2>1 DEF TypeOK, CommandType, chipVars
  <2>4. TransferInv' /\ RoundInv'
    BY <1>0, <2>1, <2>2 DEF TransferInv, RoundInv, TypeOK
  <2>5. ChipInv' /\ ReplyInv'
    BY <1>0, <2>1, <2>2 DEF ChipInv, ReplyInv, TransferInv, Ordered, Busy, NoWork, chipVars
  <2> QED
    BY <2>3, <2>4, <2>5 DEF IInv
<1>3. CASE Round
  <2>1. /\ pc = "loop" /\ sent < req.size /\ xpc' = "fill"
        /\ pc' = IF req.op = "read" THEN "read" ELSE "wren"
        /\ UNCHANGED <<chipVars, bus, xfer_busy, spi_buffer, req, sent, out>>
    BY <1>3 DEF Round, Enter
  <2>2. xpc = "none" /\ ~ bus /\ ~ Busy /\ req # Nor!NoRequest
    BY <1>0, <2>1 DEF TransferInv, ChipInv, RoundInv, Ordered
  <2>3. req.op \in {"write", "read", "erase_block", "erase_all"}
    BY <1>0, <2>2, RequestFacts DEF TypeOK
  <2>4. TypeOK'
    BY <1>0, <2>1 DEF TypeOK, CommandType, chipVars
  <2>5. TransferInv' /\ RoundInv'
    BY <1>0, <2>1, <2>2, <2>3 DEF TransferInv, RoundInv
  <2>6. ChipInv' /\ ReplyInv'
    BY <1>0, <2>1, <2>2 DEF ChipInv, ReplyInv, Busy, NoWork, chipVars
  <2> QED
    BY <2>4, <2>5, <2>6 DEF IInv
<1>4. CASE Return
  <2>1. /\ pc = "loop" /\ pc' = "idle" /\ req' = Nor!NoRequest /\ sent' = 0
        /\ UNCHANGED <<chipVars, bus, xfer_busy, spi_buffer, xpc, out>>
    BY <1>4 DEF Return
  <2>2. xpc = "none" /\ ~ bus /\ ~ Busy
    BY <1>0, <2>1 DEF TransferInv, ChipInv, Ordered
  <2>3. sent' \in 0 .. req'.size
    BY <2>1 DEF Nor!NoRequest, Nor!Request
  <2>4. TypeOK'
    BY <1>0, <2>1, <2>3 DEF TypeOK, CommandType, chipVars
  <2>5. TransferInv' /\ RoundInv'
    BY <1>0, <2>1, <2>2 DEF TransferInv, RoundInv
  <2>6. ChipInv' /\ ReplyInv'
    BY <1>0, <2>1, <2>2 DEF ChipInv, ReplyInv, Busy, NoWork, chipVars
  <2> QED
    BY <2>4, <2>5, <2>6 DEF IInv
<1>5. CASE WrenReturns
  <2>1. /\ pc = "wren" /\ xpc = "spin" /\ ~ xfer_busy /\ pc' = "command" /\ xpc' = "fill"
        /\ UNCHANGED <<chipVars, bus, xfer_busy, spi_buffer, req, sent, out>>
    BY <1>5 DEF WrenReturns, XferReturns, At, Enter
  <2>2. ~ bus /\ ~ Busy /\ wel
    BY <1>0, <2>1 DEF TransferInv, ChipInv, Ordered
  <2>3. TypeOK'
    BY <1>0, <2>1 DEF TypeOK, CommandType, chipVars
  <2>4. TransferInv' /\ RoundInv'
    BY <1>0, <2>1, <2>2 DEF TransferInv, RoundInv
  <2>5. ChipInv' /\ ReplyInv'
    BY <1>0, <2>1, <2>2 DEF ChipInv, ReplyInv, Busy, NoWork, chipVars
  <2> QED
    BY <2>3, <2>4, <2>5 DEF IInv
<1>6. CASE CommandReturns
  <2>1. /\ pc = "command" /\ xpc = "spin" /\ ~ xfer_busy /\ pc' = "status" /\ xpc' = "fill"
        /\ UNCHANGED <<chipVars, bus, xfer_busy, spi_buffer, req, sent, out>>
    BY <1>6 DEF CommandReturns, XferReturns, At, Enter
  <2>2. ~ bus
    BY <1>0, <2>1 DEF TransferInv
  <2>3. TypeOK'
    BY <1>0, <2>1 DEF TypeOK, CommandType, chipVars
  <2>4. TransferInv' /\ RoundInv'
    BY <1>0, <2>1, <2>2 DEF TransferInv, RoundInv
  <2>5. ChunkData' = ChunkData
    BY <2>1 DEF ChunkData, Chunk, chunk_size
  <2>6. ChipInv' /\ ReplyInv'
    BY <1>0, <2>1, <2>2, <2>5 DEF ChipInv, ReplyInv, Ordered, Busy, NoWork, chipVars
  <2> QED
    BY <2>3, <2>4, <2>6 DEF IInv
<1>7. CASE StillBusy
  <2>1. /\ pc = "status" /\ xpc = "spin" /\ ~ xfer_busy /\ pc' = "status" /\ xpc' = "fill"
        /\ UNCHANGED <<chipVars, bus, xfer_busy, spi_buffer, req, sent, out>>
    BY <1>7 DEF StillBusy, XferReturns, At, Enter
  <2>2. ~ bus
    BY <1>0, <2>1 DEF TransferInv
  <2>3. TypeOK'
    BY <1>0, <2>1 DEF TypeOK, CommandType, chipVars
  <2>4. TransferInv' /\ RoundInv'
    BY <1>0, <2>1, <2>2 DEF TransferInv, RoundInv
  <2>5. ChunkData' = ChunkData
    BY <2>1 DEF ChunkData, Chunk, chunk_size
  <2>6. ChipInv' /\ ReplyInv'
    BY <1>0, <2>1, <2>2, <2>5 DEF ChipInv, ReplyInv, Ordered, Busy, NoWork, chipVars
  <2> QED
    BY <2>3, <2>4, <2>6 DEF IInv
<1>8. CASE Ready
  <2>1. /\ pc = "status" /\ xpc = "spin" /\ ~ xfer_busy /\ RDSR_BUSY \notin spi_buffer.bytes[1]
        /\ pc' = "loop" /\ xpc' = "none" /\ sent' = sent + Chunk
        /\ UNCHANGED <<chipVars, bus, xfer_busy, spi_buffer, req, out>>
    BY <1>8 DEF Ready, LoopBack, XferReturns, At
  <2>2. ~ bus /\ ~ Busy
    BY <1>0, <2>1 DEF TransferInv, ReplyInv
  <2>3. sent + Chunk \in 0 .. req.size /\ req # Nor!NoRequest
    BY <1>0, <2>1, RoundFacts, RequestFacts
  <2>4. TypeOK'
    BY <1>0, <2>1, <2>3 DEF TypeOK, CommandType, chipVars
  <2>5. TransferInv' /\ RoundInv'
    BY <1>0, <2>1, <2>2, <2>3 DEF TransferInv, RoundInv
  <2>6. ChipInv' /\ ReplyInv'
    BY <1>0, <2>1, <2>2 DEF ChipInv, ReplyInv, Busy, NoWork, chipVars
  <2> QED
    BY <2>4, <2>5, <2>6 DEF IInv
<1>9. CASE BytesRead
  <2>1. /\ pc = "read" /\ xpc = "spin" /\ ~ xfer_busy
        /\ pc' = "loop" /\ xpc' = "none" /\ sent' = sent + Chunk
        /\ out' = out \o spi_buffer.bytes
        /\ UNCHANGED <<chipVars, bus, xfer_busy, spi_buffer, req>>
    BY <1>9 DEF BytesRead, LoopBack, XferReturns, At
  <2>2. ~ bus /\ ~ Busy
    BY <1>0, <2>1 DEF TransferInv, ChipInv, Ordered
  <2>3. sent + Chunk \in 0 .. req.size /\ req # Nor!NoRequest /\ Chunk \in Nat
    BY <1>0, <2>1, RoundFacts, RequestFacts
  <2>4. out' \in Seq(Byte)
    <3>1. spi_buffer.bytes = Nor!Content(mem, req.addr + sent, Chunk)
      BY <1>0, <2>1, <2>2 DEF ReplyInv, Reply, Command
    <3>2. spi_buffer.bytes \in [1 .. Chunk -> Byte]
      BY <1>0, <2>1, <3>1, ContentTyped
    <3>3. spi_buffer.bytes \in Seq(Byte)
      BY <2>3, <3>2, SeqDef
    <3>4. out \in Seq(Byte)
      BY <1>0 DEF TypeOK
    <3> QED
      BY <2>1, <3>3, <3>4, ConcatProperties
  <2>5. TypeOK'
    BY <1>0, <2>1, <2>3, <2>4 DEF TypeOK, CommandType, chipVars
  <2>6. TransferInv' /\ RoundInv'
    BY <1>0, <2>1, <2>2, <2>3 DEF TransferInv, RoundInv
  <2>7. ChipInv' /\ ReplyInv'
    BY <1>0, <2>1, <2>2 DEF ChipInv, ReplyInv, Busy, NoWork, chipVars
  <2> QED
    BY <2>5, <2>6, <2>7 DEF IInv
<1> QED
  BY <1>1, <1>2, <1>3, <1>4, <1>5, <1>6, <1>7, <1>8, <1>9 DEF Driver

LEMMA Inductive == IInv /\ [Next]_vars => IInv'
<1> SUFFICES ASSUME IInv, [Next]_vars PROVE IInv'
  OBVIOUS
<1>0. TypeOK /\ TransferInv /\ RoundInv /\ ChipInv /\ ReplyInv
  BY DEF IInv
<1>1. CASE Construct \/ Destruct
  <2>1. /\ pc \in {"off", "idle"} /\ pc' \in {"off", "idle"} /\ xfer_busy' \in BOOLEAN
        /\ UNCHANGED <<chipVars, bus, spi_buffer, xpc, req, sent, out>>
    BY <1>0, <1>1 DEF Construct, Destruct, TypeOK
  <2>2. xpc = "none" /\ ~ bus /\ ~ Busy
    BY <1>0, <2>1 DEF TransferInv, ChipInv, Ordered
  <2>3. TypeOK'
    BY <1>0, <2>1 DEF TypeOK, CommandType, chipVars
  <2>4. TransferInv' /\ RoundInv'
    BY <1>0, <2>1, <2>2 DEF TransferInv, RoundInv
  <2>5. ChipInv' /\ ReplyInv'
    BY <1>0, <2>1, <2>2 DEF ChipInv, ReplyInv, Busy, NoWork, chipVars
  <2> QED
    BY <2>3, <2>4, <2>5 DEF IInv
<1>2. ASSUME NEW r \in Nor!Requests, Call(r) PROVE IInv'
  <2>1. /\ pc = "idle" /\ pc' = "loop" /\ req' = r /\ sent' = 0 /\ out' = <<>>
        /\ UNCHANGED <<chipVars, bus, xfer_busy, spi_buffer, xpc>>
    BY <1>2 DEF Call
  <2>2. xpc = "none" /\ ~ bus /\ ~ Busy
    BY <1>0, <2>1 DEF TransferInv, ChipInv, Ordered
  <2>3. r.size \in Nat /\ r # Nor!NoRequest /\ <<>> \in Seq(Byte)
    BY RequestFacts, EmptySeq
  <2>4. TypeOK'
    BY <1>0, <2>1, <2>3 DEF TypeOK, CommandType, chipVars
  <2>5. TransferInv' /\ RoundInv'
    BY <1>0, <2>1, <2>2, <2>3 DEF TransferInv, RoundInv
  <2>6. ChipInv' /\ ReplyInv'
    BY <1>0, <2>1, <2>2 DEF ChipInv, ReplyInv, Busy, NoWork, chipVars
  <2> QED
    BY <2>4, <2>5, <2>6 DEF IInv
<1>3. CASE UNCHANGED vars
  <2>1. CommandAt' = CommandAt /\ Chunk' = Chunk /\ ChunkData' = ChunkData
    BY <1>3, CommandKept DEF vars
  <2>2. TypeOK' /\ TransferInv' /\ RoundInv'
    BY <1>0, <1>3, <2>1 DEF TypeOK, CommandType, TransferInv, RoundInv, vars, chipVars
  <2>3. ChipInv' /\ ReplyInv'
    BY <1>0, <1>3, <2>1 DEF ChipInv, ReplyInv, Ordered, Busy, NoWork, vars, chipVars
  <2> QED
    BY <2>2, <2>3 DEF IInv
<1> QED
  BY <1>1, <1>2, <1>3, DriverInv, SpiEventInv, ChipReadyInv DEF Next

LEMMA Invariance == Spec => []IInv
  BY InitInv, Inductive, PTL DEF Spec

\* Every variable keeps its type: no command is longer than spi_buffer, every address
\* sent is one of the chip, every read stays in it.
THEOREM TypeCorrect == Spec => []TypeOK
<1>1. IInv => TypeOK
  BY DEF IInv
<1> QED
  BY <1>1, Invariance, PTL

\* A program or an erasure is only sent to a chip at rest, after its own write enable.
THEOREM Obeyed == Spec => []CommandsObeyed
<1>1. IInv => CommandsObeyed
  <2> SUFFICES ASSUME IInv, bus
               PROVE  /\ spi_buffer.code # "RDSR" => ~ Busy
                      /\ spi_buffer.code \in {"PP", "SE", "BE"} => wel
    BY DEF CommandsObeyed
  <2>1. xpc = "spin" /\ spi_buffer = CommandAt /\ pc \in Places
    BY InTransfer DEF IInv, TransferInv
  <2>2. /\ pc = "wren" => spi_buffer.code = "WREN"
        /\ pc = "status" => spi_buffer.code = "RDSR"
        /\ pc = "read" => spi_buffer.code = "READ"
    BY <2>1, CommandFacts DEF IInv
  <2>3. ~ Ordered \/ pc = "status"
    BY DEF Ordered
  <2>4. pc # "status" => ~ Busy
    BY <2>3 DEF IInv, ChipInv
  <2>5. pc = "command" => wel
    BY <2>3 DEF IInv, ChipInv
  <2> QED
    BY <2>1, <2>2, <2>4, <2>5 DEF Places
<1> QED
  BY <1>1, Invariance, PTL

\* While a transfer is in flight the driver neither writes the buffer nor starts another.
THEOREM BufferSafe == Spec => BufferLeftAlone
<1>1. IInv /\ [Next]_vars => (bus /\ bus' => UNCHANGED spi_buffer /\ xpc # "start")
  <2> SUFFICES ASSUME IInv, [Next]_vars, bus, bus'
               PROVE  UNCHANGED spi_buffer /\ xpc # "start"
    OBVIOUS
  <2>1. xpc = "spin" /\ pc \notin {"off", "idle", "loop"}
    BY DEF IInv, TransferInv
  <2>2. ~ SpiEvent /\ ~ Fill
    BY <2>1 DEF SpiEvent, Fill
  <2>3. UNCHANGED spi_buffer
    BY <2>1, <2>2 DEF Next, Construct, Destruct, Call, Driver, StartTransfer, Round, Return,
       WrenReturns, CommandReturns, StillBusy, Ready, BytesRead, LoopBack, ChipReady, vars
  <2> QED
    BY <2>1, <2>3
<1>2. IInv /\ [Next]_vars => [bus /\ bus' => UNCHANGED spi_buffer /\ xpc # "start"]_vars
  BY <1>1
<1> QED
  BY <1>2, Invariance, PTL DEF Spec, BufferLeftAlone

-----------------------------------------------------------------------------
(***************************************************************************)
(* The refinement.  Three steps of SpiFlash are steps of a request: the    *)
(* call, its return, and what moves the request on -- the chip's end of    *)
(* its work, or the copy of the bytes read.  The others stutter.           *)
(***************************************************************************)

\* A program that stays in its page is one that knows no pages.
LEMMA ProgramInPage ==
  ASSUME mem \in [Address -> Byte],
         NEW a \in Address, NEW bytes \in Seq(Byte),
         (a % page_size) + Len(bytes) <= page_size
  PROVE  PageProgrammed(a, bytes) = Nor!Programmed(mem, a, bytes)
<1>0. a \in Nat /\ Len(bytes) \in Nat /\ DOMAIN bytes = 1 .. Len(bytes)
  BY Sizes, LenProperties
<1>1. ASSUME NEW i \in 1 .. Len(bytes) PROVE InPage(a, i - 1) = a + i - 1
  <2>1. /\ a \div page_size \in Nat /\ a % page_size \in 0 .. page_size - 1
        /\ a = page_size * (a \div page_size) + (a % page_size)
    BY <1>0, Sizes, DivMod
  <2>2. i - 1 \in Nat /\ (a % page_size) + (i - 1) < page_size
    BY <1>0, <2>1, Sizes
  <2>3. (a + (i - 1)) % page_size = (a % page_size) + (i - 1)
    BY <1>0, <2>2, Sizes, InSamePage
  <2>4. (a \div page_size) * page_size = page_size * (a \div page_size)
    BY <2>1, Sizes, SMTT(30)
  <2>5. InPage(a, i - 1) = page_size * (a \div page_size) + ((a % page_size) + (i - 1))
    BY <2>3, <2>4 DEF InPage
  <2> DEFINE pq == page_size * (a \div page_size)
             r == a % page_size
  <2>6. pq \in Int /\ r \in Int
    BY <2>1, Sizes, SMTT(30)
  <2>7. InPage(a, i - 1) = pq + (r + (i - 1)) /\ a = pq + r
    BY <2>1, <2>5
  <2> HIDE DEF pq, r
  <2> QED
    BY <2>6, <2>7, <1>0
<1>2. ASSUME NEW x \in Address
      PROVE  {b \in mem[x] : \A i \in {j \in 1 .. Len(bytes) : InPage(a, j - 1) = x} : b \in bytes[i]}
               = IF x - a + 1 \in 1 .. Len(bytes) THEN mem[x] \cap bytes[x - a + 1] ELSE mem[x]
  <2>1. x \in Nat
    BY Sizes
  <2>2. ASSUME NEW j \in 1 .. Len(bytes) PROVE InPage(a, j - 1) = x <=> j = x - a + 1
    <3>1. InPage(a, j - 1) = a + j - 1 /\ j \in Nat
      BY <1>0, <1>1
    <3>2. a + j - 1 = x <=> j = x - a + 1
      BY <1>0, <2>1, <3>1
    <3> QED
      BY <3>1, <3>2
  <2> QED
    BY <2>2
<1> QED
  BY <1>2 DEF PageProgrammed, Nor!Programmed, Address

\* A chunk of at least one byte is within the sizes a part of a request may have.
LEMMA ChunkIsPart ==
  ASSUME TypeOK, RoundInv, xpc # "none"
  PROVE  Chunk \in 1 .. Nor!get_capacity
<1>1. /\ req \in Nor!Requests /\ Chunk \in 1 .. req.size - sent /\ Chunk \in Nat
      /\ sent \in Nat /\ req.size \in Nat /\ req.size <= Nor!get_capacity
  BY RoundFacts, RequestFacts
<1> QED
  BY <1>1, Sizes

\* The chip's end of its work is the part of the request that the round is about.
LEMMA ChipReadyRefines ==
  ASSUME IInv, ChipReady
  PROVE  Nor!Next
<1>0. TypeOK /\ RoundInv /\ xpc # "none" /\ Ordered /\ Busy /\ req \in Nor!Requests
  BY AtWork DEF IInv, ChipReady
<1>1. ~ Busy' /\ Ordered' /\ UNCHANGED <<pc, req, sent, out>>
  BY <1>0 DEF ChipReady, Busy, Ordered
<1>2. /\ Chunk' = Chunk /\ Chunk \in 1 .. Nor!get_capacity
      /\ Chunk \in 1 .. req.size - sent /\ sent \in Nat /\ Chunk \in Nat
      /\ req.addr + sent \in Address
  BY <1>0, <1>1, CommandKept, ChunkIsPart, RoundFacts
<1>3. sent + chunk_applied(Chunk) = sent /\ (sent + chunk_applied(Chunk))' = sent + Chunk
  BY <1>0, <1>1, <1>2 DEF chunk_applied
<1>4. CASE req.op = "write"
  <2>1. mem' = PageProgrammed(req.addr + sent, ChunkData)
    BY <1>0, <1>4, AtWork DEF ChipReady
  <2>2. /\ ChunkData = SubSeq(req.data, sent + 1, sent + Chunk)
        /\ ChunkData \in Seq(Byte) /\ Len(ChunkData) = Chunk
    BY <1>0, <1>4, ChunkDataFacts
  <2>3. /\ req.addr \in Nat /\ req.size \in Nat
        /\ (req.addr % page_size) + req.size <= page_size
    BY <1>0, <1>4, RequestFacts, Sizes
  <2>4. ((req.addr + sent) % page_size) + Chunk <= page_size
    <3>1. req.addr % page_size \in 0 .. page_size - 1
      BY <2>3, Sizes, DivMod
    <3>2. (req.addr % page_size) + sent < page_size
      BY <1>2, <2>3, <3>1, Sizes
    <3>3. (req.addr + sent) % page_size = (req.addr % page_size) + sent
      BY <1>2, <2>3, <3>2, Sizes, InSamePage, ZenonT(40)
    <3> DEFINE r == req.addr % page_size
               r2 == (req.addr + sent) % page_size
    <3>4. r \in Int /\ r2 = r + sent /\ r + req.size <= page_size
      BY <2>3, <3>1, <3>3
    <3> HIDE DEF r, r2
    <3>5. r2 + Chunk <= page_size
      BY <1>2, <2>3, <3>4, Sizes
    <3> QED
      BY <3>5 DEF r2
  <2>5. mem' = Nor!Programmed(mem, req.addr + sent, SubSeq(req.data, sent + 1, sent + Chunk))
    BY <1>0, <1>2, <2>1, <2>2, <2>4, ProgramInPage DEF TypeOK
  <2>6. Nor!WritePart(Chunk)
    BY <1>1, <1>2, <1>3, <1>4, <2>5 DEF Nor!WritePart, Nor!Carry
  <2> QED
    BY <1>2, <2>6 DEF Nor!Next
<1>5. CASE req.op \in {"erase_block", "erase_all"}
  <2>1. req.size = 1 /\ sent = 0 /\ Chunk = 1
    BY <1>0, <1>2, <1>5, RequestFacts
  <2>2. Nor!Carry(req.op, 1)
    BY <1>1, <1>3, <2>1 DEF Nor!Carry
  <2>3. req.addr \in Nat
    BY <1>0, RequestFacts, Sizes
  <2>4. req.addr + sent = req.addr
    BY <2>1, <2>3
  <2>5. CASE req.op = "erase_block"
    <3>1. mem' = Nor!BlockErased(mem, req.addr)
      BY <1>0, <2>4, <2>5, AtWork DEF ChipReady
    <3> QED
      BY <1>1, <2>2, <2>5, <3>1 DEF Nor!EraseBlock, Nor!Next
  <2>6. CASE req.op = "erase_all"
    <3>1. mem' = Nor!AllErased
      BY <1>0, <2>6, AtWork DEF ChipReady
    <3> QED
      BY <1>1, <2>2, <2>6, <3>1 DEF Nor!EraseAll, Nor!Next
  <2> QED
    BY <1>5, <2>5, <2>6
<1> QED
  BY <1>0, <1>4, <1>5, AtWork

\* The steps that are none of a request leave its progress as it is.
LEMMA StepRefines ==
  ASSUME IInv, [Next]_vars
  PROVE  [Nor!Next]_(Nor!vars)
<1> DEFINE done == sent + chunk_applied(Chunk)
<1>0. TypeOK /\ TransferInv /\ RoundInv /\ ChipInv /\ ReplyInv
  BY DEF IInv
<1>1. ASSUME UNCHANGED <<mem, req, sent, out>>, Ordered' = Ordered, Busy' = Busy
      PROVE  UNCHANGED Nor!vars
  <2>1. Chunk' = Chunk
    BY <1>1 DEF Chunk, chunk_size
  <2>2. done' = done
    BY <1>1, <2>1 DEF chunk_applied
  <2> QED
    BY <1>1, <2>2 DEF Nor!vars
<1>2. ASSUME NEW r \in Nor!Requests, Call(r) PROVE Nor!Next
  <2>1. /\ pc = "idle" /\ pc' = "loop" /\ req' = r /\ sent' = 0 /\ out' = <<>> /\ mem' = mem
    BY <1>2 DEF Call, chipVars
  <2>2. req = Nor!NoRequest /\ ~ Ordered'
    BY <1>0, <2>1 DEF RoundInv, Ordered
  <2>3. done' = 0
    BY <2>1, <2>2 DEF chunk_applied
  <2> QED
    BY <2>1, <2>2, <2>3 DEF Nor!Call, Nor!Next
<1>3. CASE Return
  <2>1. /\ pc = "loop" /\ pc' = "idle" /\ sent = req.size /\ req' = Nor!NoRequest /\ sent' = 0
        /\ UNCHANGED <<mem, out>>
    BY <1>3 DEF Return, chipVars
  <2>2. req # Nor!NoRequest /\ ~ Ordered /\ ~ Ordered' /\ req.size \in Nat
    BY <1>0, <2>1, RequestFacts DEF RoundInv, Ordered, TypeOK
  <2>3. done = req.size /\ done' = 0
    BY <2>1, <2>2 DEF chunk_applied
  <2> QED
    BY <2>1, <2>2, <2>3 DEF Nor!Return, Nor!Next
<1>4. CASE Ready
  <2>1. /\ pc = "status" /\ xpc = "spin" /\ ~ xfer_busy /\ RDSR_BUSY \notin spi_buffer.bytes[1]
        /\ pc' = "loop" /\ sent' = sent + Chunk
        /\ UNCHANGED <<mem, req, out>>
    BY <1>4 DEF Ready, LoopBack, XferReturns, At, chipVars
  <2>2. Ordered /\ ~ Ordered' /\ ~ Busy
    BY <1>0, <2>1 DEF TransferInv, ReplyInv, Ordered
  <2>3. sent \in Nat /\ Chunk \in Nat
    BY <1>0, <2>1, RoundFacts
  <2>4. done' = done
    BY <2>1, <2>2, <2>3 DEF chunk_applied
  <2> QED
    BY <2>1, <2>4 DEF Nor!vars
<1>5. CASE BytesRead
  <2>1. /\ pc = "read" /\ xpc = "spin" /\ ~ xfer_busy
        /\ pc' = "loop" /\ sent' = sent + Chunk /\ out' = out \o spi_buffer.bytes
        /\ UNCHANGED <<mem, req>>
    BY <1>5 DEF BytesRead, LoopBack, XferReturns, At, chipVars
  <2>2. ~ bus /\ ~ Ordered /\ ~ Ordered' /\ req.op = "read"
    BY <1>0, <2>1 DEF TransferInv, RoundInv, Ordered
  <2>3. /\ sent \in Nat /\ Chunk \in Nat /\ Chunk \in 1 .. req.size - sent
        /\ Chunk \in 1 .. Nor!get_capacity
    BY <1>0, <2>1, RoundFacts, ChunkIsPart
  <2>4. done = sent /\ done' = sent + Chunk
    BY <2>1, <2>2, <2>3 DEF chunk_applied
  <2>5. out' = out \o Nor!Content(mem, req.addr + sent, Chunk)
    BY <1>0, <2>1, <2>2 DEF ReplyInv, Reply, Command
  <2>6. Nor!ReadPart(Chunk)
    BY <2>1, <2>2, <2>3, <2>4, <2>5 DEF Nor!ReadPart, Nor!Carry
  <2> QED
    BY <2>3, <2>6 DEF Nor!Next
<1>6. CASE SpiEvent
  <2>1. /\ bus /\ ~ bus' /\ xpc = "spin" /\ pc \in Places /\ spi_buffer = CommandAt
        /\ UNCHANGED <<mem, pc, xpc, req, sent, out>>
    BY <1>0, <1>6, InTransfer DEF SpiEvent, TransferInv
  <2>2. CASE pc = "command"
    <3>1. ~ Ordered /\ Ordered' /\ ~ Busy /\ wel
      BY <1>0, <2>1, <2>2 DEF Ordered, ChipInv
    <3>2. spi_buffer.code \in {"PP", "SE", "BE"}
      BY <1>0, <2>1, <2>2, CommandFacts
    <3>3. work' = spi_buffer
      BY <1>6, <3>1, <3>2 DEF SpiEvent, ChipDoes
    <3>4. Busy'
      BY <3>2, <3>3 DEF Busy, NoWork
    <3>5. done' = done
      BY <2>1, <3>1, <3>4 DEF chunk_applied
    <3> QED
      BY <2>1, <3>5 DEF Nor!vars
  <2>3. CASE pc # "command"
    <3>1. Ordered' = Ordered
      BY <2>1, <2>3 DEF Ordered
    <3>2. spi_buffer.code \in {"WREN", "RDSR", "READ"}
      BY <1>0, <2>1, <2>3, CommandFacts DEF Places
    <3>3. work' = work
      BY <1>6, <3>2 DEF SpiEvent, ChipDoes
    <3> QED
      BY <1>1, <2>1, <3>1, <3>3 DEF Busy, NoWork
  <2> QED
    BY <2>2, <2>3
<1>7. CASE \/ Construct \/ Destruct \/ Fill \/ StartTransfer \/ Round
           \/ WrenReturns \/ CommandReturns \/ StillBusy
  <2>1. UNCHANGED <<mem, work, req, sent, out>>
    BY <1>7 DEF Construct, Destruct, Fill, StartTransfer, Round, WrenReturns, CommandReturns,
       StillBusy, chipVars
  <2>2. Ordered' = Ordered
    BY <1>0, <1>7 DEF Construct, Destruct, Fill, StartTransfer, Round, WrenReturns,
       CommandReturns, StillBusy, XferReturns, At, Enter, Ordered, TransferInv
  <2> QED
    BY <1>1, <2>1, <2>2 DEF Busy, NoWork
<1>8. CASE UNCHANGED vars
  <2>1. Ordered' = Ordered /\ Busy' = Busy
    BY <1>8 DEF Ordered, Busy, NoWork, vars, chipVars
  <2> QED
    BY <1>1, <1>8, <2>1 DEF vars, chipVars
<1> QED
  BY <1>2, <1>3, <1>4, <1>5, <1>6, <1>7, <1>8, ChipReadyRefines DEF Next, Driver

\* What is written is in the memory when the call returns, part after part and nowhere
\* else, an erasure is over, and a reader gets the memory's bytes, whatever the interrupt
\* and the chip are late by.
THEOREM Refinement == Spec => ImplementsNorFlash
<1>1. Init => Nor!Init
  <2> SUFFICES ASSUME Init PROVE Nor!Init
    OBVIOUS
  <2>1. mem \in [Nor!Address -> Nor!Byte] /\ req = Nor!NoRequest /\ out = <<>>
    BY DEF Init, Nor!AllErased, Nor!Byte, Nor!ERASED
  <2>2. sent + chunk_applied(Chunk) = 0
    BY DEF Init, chunk_applied, Ordered
  <2> QED
    BY <2>1, <2>2 DEF Nor!Init
<1>2. IInv /\ [Next]_vars => [Nor!Next]_(Nor!vars)
  BY StepRefines
<1> QED
  BY <1>1, <1>2, Invariance, PTL DEF Spec, ImplementsNorFlash, Nor!Spec

=============================================================================
