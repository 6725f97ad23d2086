-------------------------------- MODULE NorChip --------------------------------
(***************************************************************************)
(* The chip as the clients of its driver see it: pages, units of erasure,  *)
(* what programming and erasing do to the memory, and the requests that    *)
(* the driver takes.                                                       *)
(***************************************************************************)
EXTENDS Integers, Sequences

CONSTANTS
  page_size,   \* bytes of a page, which no program may cross
  block_size,  \* bytes of the unit of erasure
  num_pages,   \* pages of the chip
  Bits,        \* the bits of a byte
  ReadSizes    \* sizes the clients read

-----------------------------------------------------------------------------
\* A byte is the set of its bits that are 1; all are after an erasure.
Byte   == SUBSET Bits
ERASED == Bits

get_capacity == num_pages * page_size
Address      == 0 .. get_capacity - 1
BlockOf(a)   == a \div block_size

\* The memory m with bytes programmed from address a on: bits are only cleared.
Programmed(m, a, bytes) ==
  [x \in Address |-> IF x - a + 1 \in 1 .. Len(bytes)
                       THEN m[x] \cap bytes[x - a + 1] ELSE m[x]]

BlockErased(m, a) ==
  [x \in Address |-> IF BlockOf(x) = BlockOf(a) THEN ERASED ELSE m[x]]

AllErased == [x \in Address |-> ERASED]

Content(m, a, n) == [i \in 1 .. n |-> m[a + i - 1]]

-----------------------------------------------------------------------------
\* The size of an erasure is one: there are no parts of it.
Request(op, a, bytes, n) == [op |-> op, addr |-> a, data |-> bytes, size |-> n]
NoRequest == Request("none", 0, <<>>, 0)

\* A write stays in a page (FileSystem.cpp:312-315), a read in the chip.
FitsPage(a, n) == (a % page_size) + n <= page_size
FitsChip(a, n) == a + n <= get_capacity

WriteRequests ==
  {r \in [op : {"write"}, addr : Address,
          data : UNION {[1 .. n -> Byte] : n \in 0 .. page_size}, size : 0 .. page_size] :
     Len(r.data) = r.size /\ FitsPage(r.addr, r.size)}

ReadRequests ==
  {r \in [op : {"read"}, addr : Address, data : {<<>>}, size : ReadSizes] :
     FitsChip(r.addr, r.size)}

EraseRequests ==
  [op : {"erase_block"}, addr : Address, data : {<<>>}, size : {1}]
    \cup {Request("erase_all", 0, <<>>, 1)}

Requests == WriteRequests \cup ReadRequests \cup EraseRequests

=============================================================================
