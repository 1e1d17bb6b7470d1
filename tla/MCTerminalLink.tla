--------------------------- MODULE MCTerminalLink ---------------------------
(***************************************************************************)
(* Small instances of TerminalLink: one worker beside the Reader and as    *)
(* many heartbeat loops as there are connections to spawn them.            *)
(***************************************************************************)
EXTENDS TerminalLink

=============================================================================
