------------------------------- MODULE MCOutbound -------------------------------
(***************************************************************************)
(* Outbound for TLC: one client, against whom the wire and the sessions'   *)
(* own tasks race.  OutboundProofs takes any number of clients.            *)
(***************************************************************************)
EXTENDS Outbound
================================================================================
