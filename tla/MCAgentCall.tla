------------------------------ MODULE MCAgentCall ------------------------------
(***************************************************************************)
(* AgentCall for TLC.  Worker threads and the ids of one action are        *)
(* interchangeable.                                                        *)
(***************************************************************************)
EXTENDS AgentCall, TLC

Symmetry ==
    Permutations(Workers) \cup Permutations(ClaimIds) \cup Permutations(HangupIds)
================================================================================
