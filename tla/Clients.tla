-------------------------------- MODULE Clients --------------------------------
(***************************************************************************)
(* The clients inside the Agent's process, HomeKit and the talk-back       *)
(* handlers, over the calls they share: a call that HomeKit claims to open *)
(* the door is a call that a browser may talk to.                          *)
(***************************************************************************)
EXTENDS HomeKit, TalkBack

CONSTANT MaxThings  \* bound: things that come from outside, of all kinds

vars == <<calls, homekit, talk>>

TypeOK == CallsTypeOK /\ HomeKitTypeOK /\ TalkTypeOK

Init == CallsInit /\ HomeKitInit /\ TalkInit

Things == machine.session + dialled + taps + flips + turn + frames

Next ==
    /\ \/ CallsMove /\ UNCHANGED <<homekit, talk>>
       \/ HomeKitMoves /\ UNCHANGED talk
       \/ TalkMoves /\ UNCHANGED <<calls, homekit>>
    /\ Things' <= MaxThings

Spec == Init /\ [][Next]_vars

\* The three loops of the bridge are scheduled; users, calls and talkers
\* need not move.
FairSpec ==
    /\ Spec
    /\ WF_vars(LockMoves /\ UNCHANGED talk)
    /\ WF_vars(LiftMoves /\ UNCHANGED talk)
    /\ WF_vars(Receive /\ UNCHANGED talk)
================================================================================
