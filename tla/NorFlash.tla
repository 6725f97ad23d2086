------------------------------- MODULE NorFlash -------------------------------
(***************************************************************************)
(* What the clients of the flash driver rely on: one request at a time is  *)
(* carried out, in order and completely, before it returns.  A write may   *)
(* reach the memory in several parts, each a run of bytes after the last   *)
(* one; between two parts the memory holds a prefix of the write.          *)
(***************************************************************************)
EXTENDS NorChip

VARIABLES
  mem,   \* the memory
  req,   \* the request being carried out, or NoRequest
  done,  \* how much of it has been
  out    \* the bytes read so far

vars == <<mem, req, done, out>>

-----------------------------------------------------------------------------
Init ==
  /\ mem \in [Address -> Byte]
  /\ req = NoRequest
  /\ done = 0
  /\ out = <<>>

Call(r) ==
  /\ req = NoRequest
  /\ req' = r
  /\ done' = 0
  /\ out' = <<>>
  /\ UNCHANGED mem

Carry(op, n) ==
  /\ req.op = op
  /\ n \in 1 .. req.size - done
  /\ done' = done + n
  /\ UNCHANGED req

WritePart(n) ==
  /\ Carry("write", n)
  /\ mem' = Programmed(mem, req.addr + done, SubSeq(req.data, done + 1, done + n))
  /\ UNCHANGED out

ReadPart(n) ==
  /\ Carry("read", n)
  /\ out' = out \o Content(mem, req.addr + done, n)
  /\ UNCHANGED mem

EraseBlock ==
  /\ Carry("erase_block", 1)
  /\ mem' = BlockErased(mem, req.addr)
  /\ UNCHANGED out

EraseAll ==
  /\ Carry("erase_all", 1)
  /\ mem' = AllErased
  /\ UNCHANGED out

Return ==
  /\ req # NoRequest
  /\ done = req.size
  /\ req' = NoRequest
  /\ done' = 0
  /\ UNCHANGED <<mem, out>>

Next ==
  \/ \E r \in Requests : Call(r)
  \/ \E n \in 1 .. get_capacity : WritePart(n) \/ ReadPart(n)
  \/ EraseBlock
  \/ EraseAll
  \/ Return

Spec == Init /\ [][Next]_vars

=============================================================================
