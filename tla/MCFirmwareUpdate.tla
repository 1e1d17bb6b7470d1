-------------------------- MODULE MCFirmwareUpdate --------------------------
(***************************************************************************)
(* Small instances of FirmwareUpdate: updates to images that run and to    *)
(* one that does not, cut by crashes and met by other commands.            *)
(***************************************************************************)
EXTENDS FirmwareUpdate

=============================================================================
