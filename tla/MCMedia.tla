-------------------------------- MODULE MCMedia --------------------------------
(***************************************************************************)
(* Media for TLC: three images of two numbers, two of one number and       *)
(* different counts.  The reassembler and what follows it have little to   *)
(* do with each other, so that the sum of what happens in both is bounded. *)
(***************************************************************************)
EXTENDS Media

CONSTANT MaxActivity   \* bound: fragments, items, ticks and streams

MCImages == { [seq |-> 0, count |-> 2], [seq |-> 0, count |-> 3], [seq |-> 1, count |-> 2] }

FewThings ==
    MapThenSumSet(LAMBDA i : Cardinality(arrived[i]), Images)
      + Len(pushed) + now + MapThenSumSet(LAMBDA v : opens[v], Viewers) <= MaxActivity
================================================================================
