------------------------------ MODULE MCEventFeed ------------------------------
(***************************************************************************)
(* EventFeed for TLC.  Pushers are interchangeable, and so are clients.    *)
(***************************************************************************)
EXTENDS EventFeed, TLC

Symmetry == Permutations(Pushers) \cup Permutations(Clients)
================================================================================
