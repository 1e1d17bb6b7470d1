--------------------------- MODULE MCFileTransfer ---------------------------
(***************************************************************************)
(* Small instances of FileTransfer: uploads that may meet in one file, and *)
(* a download, across a reconnect.                                         *)
(***************************************************************************)
EXTENDS FileTransfer

=============================================================================
