------------------------------- MODULE FeedSpec --------------------------------
(***************************************************************************)
(* What docs/openapi.yaml ("Events and reconnects") promises a client of   *)
(* the event feed, whatever its connections do: things happen one after    *)
(* the other, and the client always knows a prefix of them - it learns of  *)
(* them in order, by events or by a snapshot, forgets none and skips none; *)
(* and it learns of everything in the end.                                 *)
(***************************************************************************)
EXTENDS Naturals

CONSTANT Clients

VARIABLES
    happened,  \* how many events there have been
    known      \* the events each client has been told of

vars == <<happened, known>>

Init == happened = 0 /\ known = [c \in Clients |-> {}]

Happen ==
    /\ happened' = happened + 1
    /\ UNCHANGED known

Learn(c) ==
    /\ \E k \in 1..happened :
          /\ k \notin known[c]
          /\ known' = [known EXCEPT ![c] = 1..k]
    /\ UNCHANGED happened

Next == Happen \/ \E c \in Clients : Learn(c)

Spec == Init /\ [][Next]_vars /\ \A c \in Clients : WF_vars(Learn(c))
================================================================================
