-------------------------------- MODULE MCBench --------------------------------
(***************************************************************************)
(* Bench for TLC.  No symmetry: the run checks a liveness property.        *)
(***************************************************************************)
EXTENDS Bench
================================================================================
