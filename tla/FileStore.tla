------------------------------- MODULE FileStore -------------------------------
(***************************************************************************)
(* What the file system promises.  A file is a stretch of its stream: the  *)
(* bytes from `first' up to `end' are kept for good, those a writer has    *)
(* passed on beyond `end' are still to be committed.  Sectors, sessions,   *)
(* caches and the table do not exist here.  A call has its effect in one   *)
(* or more steps and returns with a code that tells the truth about it.    *)
(***************************************************************************)
EXTENDS Integers

CONSTANTS FileId, HandleId

VARIABLES
  files,    \* the files there are: first, end, circular, protected
  handles,  \* the open handles: file, writeable, pos
  call,     \* the running call: op, file, mode, handle, left
  ret       \* what the last call returned, "none" while one runs

vars == <<files, handles, call, ret>>

Exists(f) == f \in DOMAIN files
Open(h)   == h \in DOMAIN handles
On(f)     == {h \in DOMAIN handles : handles[h].file = f}

With(fun, x, value) == [y \in DOMAIN fun \cup {x} |-> IF y = x THEN value ELSE fun[y]]
Without(fun, x)     == [y \in DOMAIN fun \ {x} |-> fun[y]]

\* Everything written through the handle is committed; the reader is at the end.
AtEnd(h) == Exists(handles[h].file) /\ handles[h].pos = files[handles[h].file].end

Idle         == call.op = "none"
Running(op)  == call.op = op
Returns(code) == call'.op = "none" /\ ret' = code
GoesOn       == ret' = ret /\ call'.op = call.op

-----------------------------------------------------------------------------
Init ==
  /\ files = [f \in {} |-> 0]
  /\ handles = [h \in {} |-> 0]
  /\ Idle
  /\ ret = "FS_NO_ERROR"

\* A call on a handle is about the file of an open one, in the handle's mode.
Begin ==
  /\ Idle /\ ~ (call'.op = "none")
  /\ ret' = "none"
  /\ call'.op \in {"close", "flush", "read", "write"} =>
       /\ Open(call'.handle)
       /\ call'.file = handles[call'.handle].file
       /\ handles[call'.handle].writeable = (call'.op # "read")
  /\ UNCHANGED <<files, handles>>

\* Calls that return at once.  Only a writer with everything committed is closed, and
\* told that the file system is full by flush.
Refused(h) ==
  \/ ~ Open(h) /\ ret' = "FS_ERROR_INVALID_HANDLE"
  \/ Open(h) /\ ret' = "FS_ERROR_INVALID_MODE"
  \/ Open(h) /\ AtEnd(h) /\ ~ handles[h].writeable /\ ret' = "FS_ERROR_END_OF_FILE"
  \/ Open(h) /\ AtEnd(h) /\ handles[h].writeable /\ ret' = "FS_ERROR_FILESYSTEM_FULL"

AtOnce(h) ==
  /\ Idle /\ UNCHANGED <<files, call>>
  /\ \/ Refused(h) /\ UNCHANGED handles
     \/ /\ Open(h) /\ (handles[h].writeable => AtEnd(h))
        /\ handles' = Without(handles, h)
        /\ ret' = "FS_NO_ERROR"

-----------------------------------------------------------------------------
\* open
OpenError(f, mode) ==
  \/ ~ Exists(f) /\ ~ mode.create /\ ret' = "FS_ERROR_FILE_NOT_FOUND"
  \/ ~ Exists(f) /\ mode.create /\ ret' = "FS_ERROR_FILESYSTEM_FULL"
  \/ Exists(f) /\ mode.create /\ ret' = "FS_ERROR_FILE_ALREADY_EXISTS"
  \/ Exists(f) /\ mode.writeable /\ files[f].protected /\ ret' = "FS_ERROR_FILE_PROTECTED"
  \/ DOMAIN handles = HandleId /\ ret' = "FS_ERROR_NO_FREE_HANDLE"

OpenFails ==
  /\ Running("open") /\ call'.op = "none"
  /\ OpenError(call.file, call.mode)
  /\ UNCHANGED <<files, handles>>

NewFile(c) == [first |-> 0, end |-> 0, circular |-> c, protected |-> FALSE]

\* A reader starts with the first byte kept, a writer after the last one.
Opens(h) ==
  /\ Running("open") /\ Returns("FS_NO_ERROR")
  /\ ~ Open(h)
  /\ LET f == call.file
         m == call.mode
         at(p) == handles' = With(handles, h, [file |-> f, writeable |-> m.writeable, pos |-> p])
     IN  \/ /\ m.create /\ ~ Exists(f)
            /\ files' = With(files, f, NewFile(m.circular))
            /\ at(0)
         \/ /\ ~ m.create /\ Exists(f)
            /\ ~ (m.writeable /\ files[f].protected)
            /\ at(IF m.writeable THEN files[f].end ELSE files[f].first)
            /\ UNCHANGED files

-----------------------------------------------------------------------------
\* write, flush and close.  h is the handle of the call.
Moved(h, n) == handles' = [handles EXCEPT ![h].pos = @ + n]

Accept(h, n) ==
  /\ Running("write") /\ GoesOn
  /\ n \in 1 .. call.left /\ call'.left = call.left - n
  /\ Moved(h, n)
  /\ UNCHANGED files

\* More of what was accepted is kept; flush and close return only when all of it is.
Commit(h) ==
  /\ Running("write") \/ Running("flush") \/ Running("close")
  /\ Exists(call.file)
  /\ \E n \in files[call.file].end .. handles[h].pos :
     /\ files' = [files EXCEPT ![call.file].end = n]
     /\ \/ Running("write") /\ GoesOn /\ UNCHANGED handles
        \/ Running("flush") /\ n = handles[h].pos /\ Returns("FS_NO_ERROR") /\ UNCHANGED handles
        \/ /\ Running("close") /\ n = handles[h].pos /\ Returns("FS_NO_ERROR")
           /\ handles' = Without(handles, h)

\* A circular file gives its oldest bytes up to make room for what is written.  It may
\* give up all it has; until the next sector is its own there is then no such file.
GiveUp ==
  /\ Running("write") /\ GoesOn /\ UNCHANGED handles
  /\ LET f == call.file
     IN  /\ Exists(f) /\ files[f].circular
         /\ \/ \E n \in files[f].first .. files[f].end :
                 files' = [files EXCEPT ![f].first = n]
            \/ files' = Without(files, f)

StartAgain(h) ==
  /\ Running("write") /\ GoesOn /\ UNCHANGED handles
  /\ ~ Exists(call.file)
  /\ files' = With(files, call.file,
                   [NewFile(TRUE) EXCEPT !.first = handles[h].pos, !.end = handles[h].pos])

\* All bytes are accepted, or there is no room, which a circular file always has.
WriteReturns ==
  /\ Running("write") /\ call'.op = "none" /\ UNCHANGED <<files, handles>>
  /\ \/ call.left = 0 /\ ret' = "FS_NO_ERROR"
     \/ ~ files[call.file].circular /\ ret' = "FS_ERROR_FILESYSTEM_FULL"

-----------------------------------------------------------------------------
\* read
Deliver(h, n) ==
  /\ Running("read") /\ GoesOn /\ UNCHANGED files
  /\ n \in 1 .. call.left /\ call'.left = call.left - n
  /\ handles[h].pos + n <= files[call.file].end
  /\ Moved(h, n)

ReadReturns(h) ==
  /\ Running("read") /\ Returns("FS_NO_ERROR") /\ UNCHANGED <<files, handles>>
  /\ call.left = 0 \/ AtEnd(h)

-----------------------------------------------------------------------------
\* protect, unprotect, remove and format.
NoSuchFile ==
  /\ call.op \in {"protect", "unprotect", "remove"}
  /\ Returns("FS_ERROR_FILE_NOT_FOUND")
  /\ ~ Exists(call.file)
  /\ UNCHANGED <<files, handles>>

\* protect may be without effect, because a file can be protected only so many times.
SetProtection ==
  /\ Running("protect") \/ Running("unprotect")
  /\ Returns("FS_NO_ERROR") /\ UNCHANGED handles
  /\ Exists(call.file)
  /\ \/ files' = [files EXCEPT ![call.file].protected = (call.op = "protect")]
     \/ Running("protect") /\ UNCHANGED files

\* A file is removed from its beginning on.
Shrink ==
  /\ Running("remove") /\ GoesOn /\ UNCHANGED handles
  /\ LET f == call.file
     IN  /\ Exists(f) /\ ~ files[f].protected /\ On(f) = {}
         /\ \/ \E n \in files[f].first .. files[f].end :
                 files' = [files EXCEPT ![f].first = n]
            \/ files' = Without(files, f)

RemoveReturns ==
  /\ Running("remove") /\ call'.op = "none" /\ UNCHANGED <<files, handles>>
  /\ \/ ~ Exists(call.file) /\ ret' = "FS_NO_ERROR"
     \/ Exists(call.file) /\ files[call.file].protected /\ ret' = "FS_ERROR_FILE_PROTECTED"

\* Until it returns, format leaves any part of the files.
Formatting ==
  /\ Running("format") /\ DOMAIN handles = {} /\ UNCHANGED handles
  /\ DOMAIN files' \subseteq DOMAIN files
  /\ \/ GoesOn
     \/ DOMAIN files' = {} /\ Returns("FS_NO_ERROR")

-----------------------------------------------------------------------------
WriteCall ==
  \/ \E n \in 1 .. call.left : Accept(call.handle, n)
  \/ Commit(call.handle)
  \/ GiveUp \/ StartAgain(call.handle) \/ WriteReturns

Next ==
  \/ Begin
  \/ \E h \in HandleId : AtOnce(h)
  \/ OpenFails
  \/ \E h \in HandleId : Opens(h)
  \/ call.op \in {"write", "flush", "close"} /\ WriteCall
  \/ \E n \in 1 .. call.left : Deliver(call.handle, n)
  \/ Running("read") /\ ReadReturns(call.handle)
  \/ NoSuchFile \/ SetProtection \/ Shrink \/ RemoveReturns \/ Formatting

Spec == Init /\ [][Next]_vars

\* A loss of power ends everything that runs and keeps every file as it stands.
PowerLoss ==
  /\ handles' = [h \in {} |-> 0]
  /\ call'.op = "none"
  /\ UNCHANGED files

SpecWithPowerLoss == Init /\ [][Next \/ PowerLoss]_vars

=============================================================================
