--------------------------- MODULE MCGatewayAgent ---------------------------
(***************************************************************************)
(* Small instances of GatewayAgent: as many connections as handlers.       *)
(***************************************************************************)
EXTENDS GatewayAgent

=============================================================================
