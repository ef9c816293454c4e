--------------------------------- MODULE Bench ---------------------------------
(***************************************************************************)
(* The programs beside the Agent, each under clients of its own: the two   *)
(* simulated Agents, which a backend is developed against, and the Python  *)
(* Pad, which came before the Agent.  They have nothing to do with each    *)
(* other: `kind` says which one runs, and the variables of the others keep *)
(* their initial values.                                                   *)
(***************************************************************************)
EXTENDS DoorStation, ReplayAgent, LanPad

vars == <<shared, station, replay, lan>>

TypeOK == SharedTypeOK /\ StationTypeOK /\ ReplayTypeOK /\ LanTypeOK

Init ==
    /\ SharedInit /\ StationInit /\ ReplayInit /\ LanInit
    /\ kind # "replay" => timeline = <<"request">>

Next ==
    \/ kind = "station" /\ StationNext /\ UNCHANGED <<replay, lan>>
    \/ kind = "replay" /\ ReplayNext /\ UNCHANGED <<station, lan>>
    \/ kind = "lan" /\ LanNext /\ UNCHANGED <<shared, station, replay>>

Spec == Init /\ [][Next]_vars

\* The media loops are scheduled.
FairSpec == Spec /\ WF_vars(kind = "station" /\ LoopEnds /\ UNCHANGED <<replay, lan>>)

(***************************************************************************)
(* When nobody is under way, a client that follows the events knows the    *)
(* call, unless an event overtook another or named a session that had been *)
(* replaced (command, execute, apply, ring, hangup_local).                 *)
(***************************************************************************)
EventsTellTheCall ==
    (StationQuiet \/ ReplayQuiet) /\ ~misled => ViewIsTrue
================================================================================
