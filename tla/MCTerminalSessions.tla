------------------------- MODULE MCTerminalSessions -------------------------
(***************************************************************************)
(* Small instances of TerminalSessions: an id that is used once beside one *)
(* that is started again while pumps of its first PTYs are still running.  *)
(***************************************************************************)
EXTENDS TerminalSessions

=============================================================================
