--------------------------- MODULE MCConfigStore ---------------------------
(***************************************************************************)
(* Small instances of ConfigStore: a file that is written by the start, by *)
(* a reload and by a command, in any order and with crashes in between.    *)
(***************************************************************************)
EXTENDS ConfigStore

=============================================================================
