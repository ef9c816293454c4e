------------------------------ MODULE ReplayAgent ------------------------------
(***************************************************************************)
(* The replay Agent (replay_agent.rs): a task plays the session messages   *)
(* of a capture over the call machine, once or again and again, while      *)
(* clients send commands.  The capture does not know of the commands: the  *)
(* Pad in it answers a call that a client has taken, or hangs up one that  *)
(* is over, and the machine has to put up with it.                         *)
(*                                                                         *)
(* The session of every call is the time stamp of the capture's first      *)
(* request, so all passes have the same.  Media messages are left out.     *)
(***************************************************************************)
EXTENDS SimulatedAgent, SequencesExt

CONSTANT MaxCaptured  \* bound: session messages in a capture

ASSUME CapturedAssumption == MaxCaptured \in Nat \ {0}

Opcodes == {"request", "answer", "unlock", "hangup"}
CapturedSession == 1

\* What there is of a capture from the first request on; replay_timeline
\* skips whatever comes before, and fails without one.
Captures == {c \in SeqOf(Opcodes, MaxCaptured) : c # <<>> /\ c[1] = "request"}

\* Of requests and hangups the first becomes an event, of answers and unlocks
\* each does.
IsEvent(c, k) == c[k] \in {"request", "hangup"} => \A j \in 1..(k - 1) : c[j] # c[k]

\* What is at the positions `kept` of c, in their order.
InOrder(c, kept) ==
    {[n \in DOMAIN at |-> c[at[n]]] :
        at \in {f \in [1..Cardinality(kept) -> kept] :
                  \A m, n \in DOMAIN f : m < n => f[m] < f[n]}}

\* Mutant: every request of the capture begins a call.
TimelineOfAll(c) == InOrder(c, {k \in DOMAIN c : c[k] = "request" \/ IsEvent(c, k)})

\* replay_timeline, which has one result.
Timeline(c) == InOrder(c, {k \in DOMAIN c : IsEvent(c, k)})

VARIABLES
    timeline,  \* the events of the capture
    next,      \* the event run() applies next
    announce,  \* the event apply() is about to push, if any
    passes     \* passes begun, up to MaxCalls

\* History variable: the number of the player's transition.
VARIABLE pstamp

replay == <<timeline, next, announce, passes, pstamp>>

ReplayTypeOK ==
    /\ timeline \in Seq(Opcodes)
    /\ next \in 1..Len(timeline) + 1 /\ passes \in 1..MaxCalls
    /\ announce \in {"none", "CallStarted", "PadAnswered", "Unlocked", "CallEnded"}
    /\ pstamp \in 0..clock

ReplayInit ==
    /\ timeline \in UNION {Timeline(c) : c \in Captures}
    /\ next = 1 /\ passes = 1 /\ announce = "none"
    /\ pstamp = 0

\* The event that is up is op's; it is taken care of.
Turn(op) ==
    /\ announce = "none"
    /\ next <= Len(timeline) /\ timeline[next] = op
    /\ next' = next + 1

--------------------------------------------------------------------------------
(***************************************************************************)
(* The player (run and apply): a step under the call's lock, then a push.  *)
(***************************************************************************)

\* The machine changes, and an event will tell.
Play(op, m, e) ==
    /\ Turn(op)
    /\ Transition(m)
    /\ announce' = e /\ pstamp' = clock'
    /\ UNCHANGED <<kind, cache, local, requests, feed,
                   timeline, passes>>

\* The machine refuses, or is left as it was.
PlayNothing(op) ==
    /\ Turn(op)
    /\ UNCHANGED <<shared, timeline, passes, announce, pstamp>>

\* A call that is still up is replaced.
PlayRequest == Play("request", StartCall(machine, CapturedSession), "CallStarted")

PlayAnswer ==
    IF PadAnswerVerdict(machine) = "Ok"
      THEN Play("answer", PadAnswer(machine), "PadAnswered")
      ELSE PlayNothing("answer")

\* The Pad's unlock is reported if the Pad owns the call.
PlayUnlock ==
    IF machine.owner # "Pad" THEN PlayNothing("unlock")
    ELSE /\ Turn("unlock")
         /\ announce' = "Unlocked" /\ pstamp' = clock
         /\ UNCHANGED <<shared, timeline, passes>>

\* The machine is reset even when there is no call.
PlayHangup ==
    IF machine.phase # "Idle" THEN Play("hangup", Hangup(machine), "CallEnded")
    ELSE /\ Turn("hangup")
         /\ machine' = Hangup(machine)
         /\ UNCHANGED <<kind, cache, local, requests, clock, feed,
                        timeline, passes, announce, pstamp>>

PlayerPushes ==
    /\ announce # "none" /\ announce' = "none"
    /\ Push(announce, CapturedSession, pstamp, TRUE)
    /\ pstamp' = 0
    /\ UNCHANGED <<kind, machine, cache, local, requests, clock,
                   timeline, next, passes>>

\* The pass is over; with `repeat`, after a gap, the next one begins.
NextPass ==
    /\ passes < MaxCalls
    /\ announce = "none" /\ next > Len(timeline)
    /\ next' = 1 /\ passes' = passes + 1
    /\ UNCHANGED <<shared, timeline, announce, pstamp>>

Player == PlayRequest \/ PlayAnswer \/ PlayUnlock \/ PlayHangup \/ PlayerPushes \/ NextPass

ReplayNext ==
    \/ Player
    \/ (CooldownElapses \/ \E w \in Workers : Command(w)) /\ UNCHANGED replay

--------------------------------------------------------------------------------
ReplayQuiet == kind = "replay" /\ WorkersIdle /\ announce = "none"

(***************************************************************************)
(* A captured hangup is the end of the pass's call, whatever the capture   *)
(* and the clients do after it: a second call in the capture is not begun, *)
(* and its answers find nothing that rings (replay_timeline, apply).       *)
(***************************************************************************)
HangupEndsPass ==
    kind = "replay" /\ (\E k \in 1..(next - 1) : timeline[k] = "hangup")
        => machine.phase = "Idle"

================================================================================
