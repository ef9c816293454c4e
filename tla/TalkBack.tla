-------------------------------- MODULE TalkBack -------------------------------
(***************************************************************************)
(* Talk-back: the microphone of a browser, sent to the door or to whoever  *)
(* was dialled (talk_upload and talk_websocket in agent_server.rs,         *)
(* Agent::talk in agent.rs).  One connection at a time holds the slot      *)
(* TALK_BUSY, from its request to the end of its handler, and forwards its *)
(* audio in frames of one packet.  Which call a frame goes to is decided   *)
(* frame by frame: the dialled call if there is one, answered or not, else *)
(* the incoming call if a remote client has answered it.  The number of    *)
(* the packet is taken before it is sent, and no lock covers both.         *)
(***************************************************************************)
EXTENDS Calls

CONSTANTS
    Talkers,   \* connections of /v1/media/talk and its WebSocket
    MaxFrames, \* bound: frames of audio received from them
    MaxTurns   \* bound: times the slot is taken

ASSUME TalkAssumption == MaxFrames \in Nat /\ MaxTurns \in Nat

Door == 0  \* where a frame goes that no dialled call takes

VARIABLES
    busy,     \* TALK_BUSY
    talker,   \* where each handler is
    packet,   \* the packet it has built
    audioSeq  \* Agent.audio_seq, and CallHandle.aseq of each dialled call

\* History variables.
VARIABLES
    turn,    \* times the slot was taken
    frames,  \* frames received so far
    said     \* packets sent, in order

talk == <<busy, talker, packet, audioSeq, turn, frames, said>>

Packets == [to : 0..MaxDialled, seq : Nat, turn : Nat]
Silence == [to |-> Door, seq |-> 0, turn |-> 0]

TalkTypeOK ==
    /\ busy \in BOOLEAN
    /\ talker \in [Talkers -> {"out", "reading", "line", "call", "number", "send"}]
    /\ packet \in [Talkers -> Packets]
    /\ audioSeq \in [0..MaxDialled -> Nat]
    /\ turn \in 0..MaxTurns /\ frames \in 0..MaxFrames
    /\ said \in Seq(Packets)

TalkInit ==
    /\ busy = FALSE
    /\ talker = [t \in Talkers |-> "out"]
    /\ packet = [t \in Talkers |-> Silence]
    /\ audioSeq = [d \in 0..MaxDialled |-> 0]
    /\ turn = 0 /\ frames = 0
    /\ said = <<>>

Moves(t, from, to) == talker[t] = from /\ talker' = [talker EXCEPT ![t] = to]

\* Mutant: the guard that releases the slot is made before the slot is won,
\* so that a refused request gives away the slot of the one who talks.
TakeSlotGuardFirst(t) ==
    /\ talker[t] = "out" /\ turn < MaxTurns
    /\ IF busy THEN busy' = FALSE /\ UNCHANGED <<talker, turn, packet>>
       ELSE /\ busy' = TRUE
            /\ talker' = [talker EXCEPT ![t] = "reading"]
            /\ turn' = turn + 1
            /\ packet' = [packet EXCEPT ![t].turn = turn']
    /\ UNCHANGED <<audioSeq, frames, said>>

\* TALK_BUSY.swap(true) was false; otherwise the request is refused with 409.
TakeSlot(t) ==
    /\ Moves(t, "out", "reading")
    /\ turn < MaxTurns
    /\ ~busy /\ busy' = TRUE
    /\ turn' = turn + 1
    /\ packet' = [packet EXCEPT ![t].turn = turn']
    /\ UNCHANGED <<audioSeq, frames, said>>

\* The handler returns, and its guard releases the slot.
Out(t) ==
    /\ talker' = [talker EXCEPT ![t] = "out"]
    /\ packet' = [packet EXCEPT ![t] = Silence]
    /\ busy' = FALSE

\* Mutant: an error return leaves the slot taken.
LeaveSlotTaken(t) ==
    /\ talker[t] = "reading"
    /\ talker' = [talker EXCEPT ![t] = "out"]
    /\ packet' = [packet EXCEPT ![t] = Silence]
    /\ UNCHANGED <<busy, audioSeq, turn, frames, said>>

\* The body or the socket ends, or a read or the handshake fails.
Leave(t) ==
    /\ talker[t] = "reading" /\ Out(t)
    /\ UNCHANGED <<audioSeq, turn, frames, said>>

Hear(t) ==
    /\ Moves(t, "reading", "line")
    /\ frames < MaxFrames /\ frames' = frames + 1
    /\ UNCHANGED <<busy, packet, audioSeq, turn, said>>

\* A packet for d gets the next number of d.
Number(t, d) ==
    /\ packet' = [packet EXCEPT ![t].to = d, ![t].seq = audioSeq[d]]
    /\ audioSeq' = [audioSeq EXCEPT ![d] = @ + 1]

\* talk(), under the line's lock.
LookAtLine(t) ==
    /\ IF line # 0
         THEN Moves(t, "line", "send") /\ Number(t, line)
         ELSE Moves(t, "line", "call") /\ UNCHANGED <<packet, audioSeq>>
    /\ UNCHANGED <<busy, turn, frames, said>>

\* talk(), under the call's lock: a frame that may not be heard ends the talk.
LookAtCall(t) ==
    /\ talker[t] = "call"
    /\ IF RemoteMediaAllowed(machine, machine.session)
         THEN Moves(t, "call", "number") /\ UNCHANGED <<busy, packet>>
         ELSE Out(t)
    /\ UNCHANGED <<audioSeq, turn, frames, said>>

TakeNumber(t) ==
    /\ Moves(t, "number", "send") /\ Number(t, Door)
    /\ UNCHANGED <<busy, turn, frames, said>>

Say(t) ==
    /\ Moves(t, "send", "reading")
    /\ said' = Append(said, packet[t])
    /\ UNCHANGED <<busy, packet, audioSeq, turn, frames>>

\* A socket refuses the packet: the door's ends the talk, the callee's is
\* not asked.
SayFails(t) ==
    /\ talker[t] = "send"
    /\ IF packet[t].to = Door THEN Out(t)
       ELSE Moves(t, "send", "reading") /\ UNCHANGED <<busy, packet>>
    /\ UNCHANGED <<audioSeq, turn, frames, said>>

TalkStep(t) ==
    \/ TakeSlot(t) \/ Leave(t) \/ Hear(t) \/ LookAtLine(t) \/ LookAtCall(t)
    \/ TakeNumber(t) \/ Say(t) \/ SayFails(t)

TalkMoves == \E t \in Talkers : TalkStep(t)

--------------------------------------------------------------------------------
(***************************************************************************)
(* The slot is taken exactly while one handler is at work: no way out of   *)
(* either handler keeps it, and no refused request gives it away (the      *)
(* Release guards of talk_upload and talk_websocket).                      *)
(***************************************************************************)
SlotIsHeld ==
    LET holders == {t \in Talkers : talker[t] # "out"}
    IN  IF busy THEN \E t \in Talkers : holders = {t} ELSE holders = {}

(***************************************************************************)
(* One voice is heard at a time, and in order: once a later holder of the  *)
(* slot has spoken nothing of an earlier one follows, and the packets of   *)
(* one destination come in the order of their numbers, though the number   *)
(* is taken before the packet is sent (the comment at TALK_BUSY; talk).    *)
(***************************************************************************)
VoicesDoNotMix ==
    \A i, j \in 1..Len(said) : i < j =>
        /\ said[i].turn <= said[j].turn
        /\ said[i].to = said[j].to => said[i].seq < said[j].seq
================================================================================
