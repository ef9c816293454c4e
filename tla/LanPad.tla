--------------------------------- MODULE LanPad ---------------------------------
(***************************************************************************)
(* The Python replacement of the Pad (pad_intercom/service.py): a control  *)
(* thread takes the door's messages, and every HTTP POST is a thread of    *)
(* its own.  They share the phase of the call, under a lock, and the door  *)
(* to send to (_remote), under none.                                       *)
(*                                                                         *)
(* An action looks at the phase, sends, and writes the phase it leads to,  *)
(* in three steps: whatever the door says in between is overwritten.  What *)
(* is wrong then is put right by the next ring or hangup that nobody       *)
(* crosses.  Media and the answers to discovery and bootstrap are left     *)
(* out; they change nothing here.                                          *)
(***************************************************************************)
EXTENDS Naturals

CONSTANTS
    Handlers,  \* threads of HTTP requests
    MaxRings,  \* bound: requests of the door
    MaxPosts   \* bound: actions posted

ASSUME LanPadAssumption ==
    MaxRings \in Nat /\ MaxPosts \in Nat /\ "control" \notin Handlers

VARIABLES
    phase,    \* PublicState.phase
    remote,   \* _remote is the door, and not None
    spent,    \* less than the cooldown ago an unlock was let through
    control,  \* where the control thread is in _handle_message, or "dead"
    handler,  \* where each POST is ...
    does      \* ... and which action it is

\* History variables.
VARIABLES
    late,      \* threads that go by a phase which has been replaced
    muddled,   \* one of them has written, and no ring or hangup since
    answered,  \* an answer has been sent since the last ring
    rude,      \* an unlock was sent in no answered call, by a thread on time
    rings,
    posts

lan == <<phase, remote, spent, control, handler, does,
         late, muddled, answered, rude, rings, posts>>

LanTypeOK ==
    /\ phase \in {"idle", "ringing", "connected"}
    /\ remote \in BOOLEAN /\ spent \in BOOLEAN
    /\ control \in {"receive", "ring", "reply", "bye", "drop", "dead"}
    /\ handler \in [Handlers -> {"none", "recheck", "send", "write", "forget"}]
    /\ does \in [Handlers -> {"none", "answer", "unlock", "hangup"}]
    /\ late \subseteq Handlers \cup {"control"}
    /\ muddled \in BOOLEAN /\ answered \in BOOLEAN /\ rude \in BOOLEAN
    /\ rings \in 0..MaxRings /\ posts \in 0..MaxPosts

LanInit ==
    /\ phase = "idle" /\ remote = FALSE /\ spent = FALSE
    /\ control = "receive"
    /\ handler = [h \in Handlers |-> "none"]
    /\ does = [h \in Handlers |-> "none"]
    /\ late = {} /\ muddled = FALSE /\ answered = FALSE /\ rude = FALSE
    /\ rings = 0 /\ posts = 0

Receives(from, to) == control = from /\ control' = to
Handles(h, from, to) == handler[h] = from /\ handler' = [handler EXCEPT ![h] = to]

UnderWay == {h \in Handlers : handler[h] # "none"}
Answering == {h \in UnderWay : does[h] = "answer"}
Unlocking == {h \in UnderWay : does[h] = "unlock"}

--------------------------------------------------------------------------------
(***************************************************************************)
(* The control thread.                                                     *)
(***************************************************************************)

\* OP_REQUEST: the door is kept before the lock is taken.
RingComes ==
    /\ Receives("receive", "ring")
    /\ rings < MaxRings /\ rings' = rings + 1
    /\ remote' = TRUE
    /\ late' = UnderWay
    /\ UNCHANGED <<phase, spent, handler, does, muddled, answered, rude, posts>>

\* A request that repeats itself makes an answered call ring again.
RingIsSet ==
    /\ Receives("ring", "reply")
    /\ phase' = "ringing"
    /\ answered' = FALSE
    /\ muddled' = ("control" \in late)
    /\ late' = UnderWay
    /\ UNCHANGED <<remote, spent, handler, does, rude, rings, posts>>

\* A reply that is due goes to _remote as it is by now: without one sendto
\* raises what nobody catches, as it does when the network is down.
RingReplied ==
    /\ \/ Receives("reply", "receive")
       \/ Receives("reply", "dead")
    /\ UNCHANGED <<phase, remote, spent, handler, does, late, muddled, answered, rude,
                   rings, posts>>

\* OP_HANGUP.
EndComes ==
    /\ Receives("receive", IF phase = "idle" THEN "drop" ELSE "bye")
    /\ phase' = "idle"
    /\ muddled' = FALSE
    /\ late' = (late \ {"control"}) \cup Answering \cup Unlocking
    /\ UNCHANGED <<remote, spent, handler, does, answered, rude, rings, posts>>

EndEchoed ==
    /\ Receives("bye", "drop") \/ Receives("bye", "dead")
    /\ UNCHANGED <<phase, remote, spent, handler, does, late, muddled, answered, rude,
                   rings, posts>>

\* Mutant: the door stays where actions are sent to.
DoorKept ==
    /\ Receives("drop", "receive")
    /\ UNCHANGED <<phase, remote, spent, handler, does, late, muddled, answered, rude,
                   rings, posts>>

DoorForgotten ==
    /\ Receives("drop", "receive")
    /\ remote' = FALSE
    /\ UNCHANGED <<phase, spent, handler, does, late, muddled, answered, rude, rings, posts>>

Control == RingComes \/ RingIsSet \/ RingReplied \/ EndComes \/ EndEchoed \/ DoorForgotten

--------------------------------------------------------------------------------
(***************************************************************************)
(* An HTTP POST: answer, unlock, hangup.                                   *)
(***************************************************************************)

Accepted(h, a, at) ==
    /\ Handles(h, "none", at)
    /\ posts < MaxPosts /\ posts' = posts + 1
    /\ does' = [does EXCEPT ![h] = a]
    /\ late' = late \ {h}

\* Mutant: an answer counts before it is sent.
PostEarly(h, a) ==
    /\ \/ a = "answer" /\ phase = "ringing" /\ phase' = "connected"
       \/ a = "hangup" /\ phase # "idle" /\ UNCHANGED phase
    /\ Accepted(h, a, "send")
    /\ UNCHANGED <<remote, spent, control, muddled, answered, rude, rings>>

\* The check of _send_action; a refused action changes nothing.
Post(h, a) ==
    /\ \/ a = "answer" /\ phase = "ringing"
       \/ a = "hangup" /\ phase # "idle"
    /\ Accepted(h, a, "send")
    /\ UNCHANGED <<phase, remote, spent, control, muddled, answered, rude, rings>>

\* The cooldown is spent before it is known whether the unlock can be sent.
PostUnlock(h) ==
    /\ phase = "connected" /\ ~spent
    /\ spent' = TRUE
    /\ Accepted(h, "unlock", "recheck")
    /\ UNCHANGED <<phase, remote, control, muddled, answered, rude, rings>>

Finished(h) ==
    /\ does' = [does EXCEPT ![h] = "none"]
    /\ late' = late \ {h}

\* _send_action looks at the phase again.
Recheck(h) ==
    /\ \/ phase = "connected" /\ Handles(h, "recheck", "send")
          /\ late' = late \ {h} /\ UNCHANGED does
       \/ phase # "connected" /\ Handles(h, "recheck", "none") /\ Finished(h)
    /\ UNCHANGED <<phase, remote, spent, control, muddled, answered, rude, rings, posts>>

SendAnswer(h) ==
    /\ does[h] = "answer" /\ Handles(h, "send", "write")
    /\ answered' = TRUE
    /\ UNCHANGED <<does, late, rude>>

SendUnlock(h) ==
    /\ does[h] = "unlock" /\ Handles(h, "send", "none")
    /\ rude' = (rude \/ (h \notin late /\ ~muddled /\ ~(answered /\ phase = "connected")))
    /\ Finished(h)
    /\ UNCHANGED answered

SendHangup(h) ==
    /\ does[h] = "hangup" /\ Handles(h, "send", "write")
    /\ UNCHANGED <<does, late, answered, rude>>

\* To the door, if there still is one.
SendAction(h) ==
    /\ remote
    /\ SendAnswer(h) \/ SendUnlock(h) \/ SendHangup(h)
    /\ UNCHANGED <<phase, remote, spent, control, muddled, rings, posts>>

\* There is none, or the network is down: the POST fails.
SendRaises(h) ==
    /\ Handles(h, "send", "none")
    /\ Finished(h)
    /\ UNCHANGED <<phase, remote, spent, control, muddled, answered, rude, rings, posts>>

\* The phase is written, whatever it is by now.
SetConnected(h) ==
    /\ does[h] = "answer" /\ Handles(h, "write", "none")
    /\ phase' = "connected"
    /\ muddled' = (muddled \/ h \in late)
    /\ Finished(h)
    /\ UNCHANGED <<remote, spent, control, answered, rude, rings, posts>>

\* The writes of a hangup make late whoever answers, unlocks or is about to
\* set the phase of a ring.
Ends(h) ==
    /\ muddled' = (muddled \/ h \in late)
    /\ late' = late \cup Answering \cup Unlocking
                    \cup (IF control = "ring" THEN {"control"} ELSE {})

SetIdle(h) ==
    /\ does[h] = "hangup" /\ Handles(h, "write", "forget")
    /\ phase' = "idle"
    /\ Ends(h)
    /\ UNCHANGED <<remote, spent, control, does, answered, rude, rings, posts>>

ForgetDoor(h) ==
    /\ Handles(h, "forget", "none")
    /\ remote' = FALSE
    /\ Ends(h)
    /\ does' = [does EXCEPT ![h] = "none"]
    /\ UNCHANGED <<phase, spent, control, answered, rude, rings, posts>>

CooldownOver ==
    /\ spent /\ spent' = FALSE
    /\ UNCHANGED <<phase, remote, control, handler, does, late, muddled, answered, rude,
                   rings, posts>>

Serve(h) ==
    \/ \E a \in {"answer", "hangup"} : Post(h, a)
    \/ PostUnlock(h) \/ Recheck(h) \/ SendAction(h) \/ SendRaises(h)
    \/ SetConnected(h) \/ SetIdle(h) \/ ForgetDoor(h)

LanNext == Control \/ CooldownOver \/ \E h \in Handlers : Serve(h)

LanSpec == LanInit /\ [][LanNext]_lan

--------------------------------------------------------------------------------
(***************************************************************************)
(* The phase is true whenever nobody is under way: there is a door to send *)
(* to exactly while a call is up, and the call is connected exactly if an  *)
(* answer has been sent since it last rang - unless a thread has written   *)
(* after the door or another client had ended or begun the call it was     *)
(* about, and neither a ring nor a hangup has come since                   *)
(* (_handle_message, answer, hangup).                                      *)
(***************************************************************************)
PhaseIsTrue ==
    control = "receive" /\ UnderWay = {} /\ ~muddled =>
        /\ remote <=> phase # "idle"
        /\ phase # "idle" => (phase = "connected" <=> answered)

(***************************************************************************)
(* An unlock is sent only in a call that has been answered, as the error   *)
(* message of unlock() says, unless the call ended or rang anew after      *)
(* _send_action looked at it, or the phase was muddled.                    *)
(***************************************************************************)
UnlocksAreAnswered == ~rude
================================================================================
