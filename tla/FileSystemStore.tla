---------------------------- MODULE FileSystemStore ----------------------------
(***************************************************************************)
(* FileSystem implements FileStore: what of the store each state of the    *)
(* flash, the handles and the running call stands for.                     *)
(***************************************************************************)
EXTENDS FileSystem

\* A file is what the sectors that bear its identifier hold.
StoredFiles ==
  [f \in {g \in FileId : sectors_of(header, g) # {}} |->
     LET S == sectors_of(header, f)
     IN  [first     |-> Min({origin[s] : s \in S}),
          end       |-> Max({StreamEnd(s) : s \in S}),
          circular  |-> \E s \in S : header[s].circular,
          protected |-> FileProtected(f)]]

\* A handle is open once the call that opens it has returned.  A writer is at the end
\* of the bytes accepted, a reader at its place in the chain.
StoredHandles ==
  [h \in {g \in HandleId : Open_(g) /\ ~ (call.op = "open" /\ call.handle = g)} |->
     LET hd == fs_priv_handle_list[h]
     IN  [file      |-> hd.file_id,
          writeable |-> hd.writeable,
          pos       |-> IF hd.writeable THEN stream[hd.file_id] ELSE Position(h)]]

StoredCall == [op     |-> call.op,
               file   |-> call.file,
               mode   |-> call.mode,
               handle |-> IF call.op = "open" THEN FS_PRIV_NOT_ALLOCATED ELSE call.handle,
               left   |-> call.size]

Store == INSTANCE FileStore
           WITH files <- StoredFiles, handles <- StoredHandles, call <- StoredCall

\* For orderly clients the file system implements the store: what a step of a call does
\* to sectors, sessions and caches amounts to one of the store's steps or to none, and
\* every code returned is true of the store.
ImplementsFileStore == Store!Spec

=============================================================================
