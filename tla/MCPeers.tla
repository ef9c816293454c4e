-------------------------------- MODULE MCPeers --------------------------------
(***************************************************************************)
(* Peers for TLC.                                                          *)
(***************************************************************************)
EXTENDS Peers
================================================================================
