---------------------------- MODULE MCFileSystem ----------------------------
(* Finite instances of FileSystem for TLC. *)
EXTENDS FileSystemStore
=============================================================================
