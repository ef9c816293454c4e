------------------------------- MODULE CallSpec --------------------------------
(***************************************************************************)
(* What docs/PENGUIN0.md ("first-answer-wins") and src/state.rs promise of *)
(* the incoming calls, without threads, messages or commands: they come    *)
(* one after the other, numbered in that order, are answered once at most, *)
(* by the Pad or by a client, whoever is first, and end once.  A restart   *)
(* of the Agent begins again.                                              *)
(***************************************************************************)
EXTENDS Naturals

CONSTANT Numbers  \* the numbers of the calls of one run of the Agent

VARIABLES
    life,     \* how far each call is; one that is answered, by whom
    answers,  \* how many answers to each call were accepted
    ends      \* how many hangups of each call were accepted

vars == <<life, answers, ends>>

Answerers == {"Pad", "Remote"}
Up        == {"ringing"} \cup Answerers

Init ==
    /\ life = [n \in Numbers |-> "unborn"]
    /\ answers = [n \in Numbers |-> 0]
    /\ ends = [n \in Numbers |-> 0]

\* The next call rings when all before it are over.
Ring(n) ==
    /\ life[n] = "unborn"
    /\ \A k \in Numbers : k < n => life[k] = "over"
    /\ life' = [life EXCEPT ![n] = "ringing"]
    /\ UNCHANGED <<answers, ends>>

Answer(n, who) ==
    /\ life[n] = "ringing"
    /\ life' = [life EXCEPT ![n] = who]
    /\ answers' = [answers EXCEPT ![n] = @ + 1]
    /\ UNCHANGED ends

End(n) ==
    /\ life[n] \in Up
    /\ life' = [life EXCEPT ![n] = "over"]
    /\ ends' = [ends EXCEPT ![n] = @ + 1]
    /\ UNCHANGED answers

Forget ==
    /\ life' = [n \in Numbers |-> "unborn"]
    /\ answers' = [n \in Numbers |-> 0]
    /\ ends' = [n \in Numbers |-> 0]

Next ==
    \/ \E n \in Numbers : Ring(n) \/ End(n) \/ \E who \in Answerers : Answer(n, who)
    \/ Forget

Spec == Init /\ [][Next]_vars
================================================================================
