-------------------------------- MODULE Emitter --------------------------------
(***************************************************************************)
(* The handshake tools (emitter.rs): a door that rings a Pad, a Pad that   *)
(* dials another, a viewer of a door's camera, and a call of the elevator. *)
(* Each is a main loop that sends and a receiver task that reads the same  *)
(* socket; they share what has been observed, and a watch channel with     *)
(* which the receiver stops the loop.                                      *)
(*                                                                         *)
(* At the far end of a ring and of a dialled call there is another michoi, *)
(* an Agent in pad mode: the two ends meet over UDP, where a packet may be *)
(* lost and may overtake another.  A request is sent three times, so that  *)
(* one that is still under way when the call is over begins a call of its  *)
(* own.  A camera and an elevator's door are modelled from what the tools  *)
(* expect of them.                                                         *)
(*                                                                         *)
(* Paging, bootstrap and keepalives change nothing at either end and are   *)
(* left out, as is video, which needs no answer when a door rings.         *)
(***************************************************************************)
EXTENDS CallMachine, SequencesExt

CONSTANTS
    Tools,      \* which of "ring", "dial", "monitor", "elevator" to run
    Repeats,    \* times that a ring or a dialled call is requested (3)
    MaxUnlocks  \* bound: unlocks the far end sends

ASSUME EmitterAssumption ==
    /\ Tools \subseteq {"ring", "dial", "monitor", "elevator"}
    /\ Repeats \in Nat \ {0} /\ MaxUnlocks \in Nat

Calls == {"ring", "dial"}  \* tools that call an Agent
Ended == {"done", "failed"}

VARIABLES
    tool,      \* which one runs
    pc,        \* where its main loop is
    left,      \* requests it has yet to send
    receiver,  \* "off", "on", "gone" after an error of the socket, or "aborted"
    stop,      \* the watch channel
    observed,  \* DoorObservation, CallObservation or MonitorObservation
    far,       \* the call machine at the far end; of a camera, its viewer
    toFar,     \* packets under way
    toUs

\* History variables.
VARIABLES
    disturbed,  \* a packet was lost, or overtook another
    asked,      \* what the far end had sent before its first hangup
    blared      \* voice came to a Pad that rang

channels == <<toFar, toUs>>
history  == <<disturbed, asked, blared>>
vars     == <<tool, pc, left, receiver, stop, observed, far, channels, history>>

NothingObserved == [reply |-> FALSE, answered |-> FALSE, unlocks |-> 0, hangups |-> 0]

TypeOK ==
    /\ tool \in Tools
    /\ pc \in {"resolve", "page", "request", "loop", "bye"} \cup Ended
    /\ left \in 0..Repeats
    /\ receiver \in {"off", "on", "gone", "aborted"}
    /\ stop \in BOOLEAN
    /\ observed \in [reply : BOOLEAN, answered : BOOLEAN,
                     unlocks : 0..MaxUnlocks, hangups : Nat]
    /\ far \in Machines
    /\ toFar \in Seq({"request", "voice", "hangup"})
    /\ toUs \in Seq({"reply", "answer", "unlock", "hangup", "ack"})
    /\ disturbed \in BOOLEAN /\ blared \in BOOLEAN
    /\ asked \in [answered : BOOLEAN, unlocks : 0..MaxUnlocks, hungUp : BOOLEAN]

Init ==
    /\ tool \in Tools
    /\ pc = "resolve" /\ receiver = "off" /\ stop = FALSE
    /\ left = IF tool \in Calls THEN Repeats ELSE 1
    /\ observed = NothingObserved
    /\ far = NewMachine
    /\ toFar = <<>> /\ toUs = <<>>
    /\ disturbed = FALSE /\ blared = FALSE
    /\ asked = [answered |-> FALSE, unlocks |-> 0, hungUp |-> FALSE]

Goto(from, to) == pc = from /\ pc' = to

--------------------------------------------------------------------------------
(***************************************************************************)
(* The main loop.                                                          *)
(***************************************************************************)

\* resolve_pad: replies about other stations are passed over until one about
\* this station comes, or the time is up, or the socket fails.
Resolved ==
    /\ Goto("resolve", IF tool = "ring" THEN "page" ELSE "request")
    /\ receiver' = IF tool = "elevator" THEN "off" ELSE "on"
    /\ UNCHANGED <<tool, left, stop, observed, far, channels, history>>

Unresolved ==
    /\ Goto("resolve", "failed")
    /\ UNCHANGED <<tool, left, receiver, stop, observed, far, channels, history>>

\* Ten pages and a bootstrap request, whose errors are ignored.
Page ==
    /\ Goto("page", "request")
    /\ UNCHANGED <<tool, left, receiver, stop, observed, far, channels, history>>

Request ==
    /\ Goto("request", IF left = 1 THEN "loop" ELSE "request")
    /\ left' = left - 1
    /\ toFar' = Append(toFar, "request")
    /\ UNCHANGED <<tool, receiver, stop, observed, far, toUs, history>>

\* The socket reports an error: no hangup is sent, and the receiver stays
\* behind.
RequestFails ==
    /\ Goto("request", "failed")
    /\ UNCHANGED <<tool, left, receiver, stop, observed, far, channels, history>>

\* Mutant: the voice channel is opened as soon as the Pad has replied.
VoiceAfterReply ==
    /\ pc = "loop" /\ observed.reply
    /\ ~Contains(toFar, "voice")
    /\ toFar' = Append(toFar, "voice")
    /\ UNCHANGED <<tool, pc, left, receiver, stop, observed, far, toUs, history>>

\* A tick of the microphone, once the call has been answered.
Voice ==
    /\ pc = "loop" /\ observed.answered
    /\ ~Contains(toFar, "voice")
    /\ toFar' = Append(toFar, "voice")
    /\ UNCHANGED <<tool, pc, left, receiver, stop, observed, far, toUs, history>>

\* Mutant: the far end has hung up, and is not told.
StoppedSilently ==
    /\ Goto("loop", "done") /\ stop
    /\ receiver' = "aborted"
    /\ UNCHANGED <<tool, left, stop, observed, far, channels, history>>

\* The top of the loop: the receiver has said stop.
Stopped ==
    /\ Goto("loop", "bye") /\ stop
    /\ UNCHANGED <<tool, left, receiver, stop, observed, far, channels, history>>

\* The duration is over, if one was asked for.
TimeUp ==
    /\ Goto("loop", "bye")
    /\ UNCHANGED <<tool, left, receiver, stop, observed, far, channels, history>>

HangUp ==
    /\ Goto("bye", "done")
    /\ toFar' = Append(toFar, "hangup")
    /\ receiver' = "aborted"
    /\ UNCHANGED <<tool, left, stop, observed, far, toUs, history>>

\* request_elevator reads the socket itself.
ElevatorAcked ==
    /\ Goto("loop", "done")
    /\ toUs # <<>> /\ toUs' = Tail(toUs)
    /\ observed' = [observed EXCEPT !.reply = TRUE]
    /\ UNCHANGED <<tool, left, receiver, stop, far, toFar, history>>

\* No answer in time, or an error of the socket.
ElevatorFails ==
    /\ Goto("loop", "failed")
    /\ UNCHANGED <<tool, left, receiver, stop, observed, far, channels, history>>

\* run_tool begins each tool with resolve_pad.
Resolve == Resolved \/ Unresolved

\* run_emulator.
Ring ==
    /\ tool = "ring"
    /\ Page \/ Request \/ RequestFails \/ Voice \/ Stopped \/ TimeUp \/ HangUp

\* run_outbound_call: an error of the socket is ignored.
Dial ==
    /\ tool = "dial"
    /\ Request \/ Voice \/ Stopped \/ TimeUp \/ HangUp

\* run_monitor.
Monitor ==
    /\ tool = "monitor"
    /\ Request \/ RequestFails \/ Stopped \/ TimeUp \/ HangUp

\* request_elevator.
CallElevator ==
    /\ tool = "elevator"
    /\ Request \/ RequestFails \/ ElevatorAcked \/ ElevatorFails

--------------------------------------------------------------------------------
(***************************************************************************)
(* The receiver task.                                                      *)
(***************************************************************************)

\* Mutant: only an unlock within an answered call counts.
ObservedIfAnswered(o, msg) ==
    CASE msg = "reply" -> [o EXCEPT !.reply = TRUE]
      [] msg = "answer" -> [o EXCEPT !.answered = TRUE]
      [] msg = "unlock" -> IF o.answered THEN [o EXCEPT !.unlocks = @ + 1] ELSE o
      [] msg = "hangup" -> [o EXCEPT !.hangups = @ + 1]

\* observe_reply, of a door that rings.
ObservedByDoor(o, msg) ==
    CASE msg = "reply" -> [o EXCEPT !.reply = TRUE]
      [] msg = "answer" -> [o EXCEPT !.answered = TRUE]
      [] msg = "unlock" -> [o EXCEPT !.unlocks = @ + 1]
      [] msg = "hangup" -> [o EXCEPT !.hangups = @ + 1]

\* A dialler passes over replies and unlocks, a viewer over answers too.
ObservedByDialler(o, msg) ==
    CASE msg = "answer" -> [o EXCEPT !.answered = TRUE]
      [] msg = "hangup" -> [o EXCEPT !.hangups = @ + 1]
      [] OTHER -> o

ObservedByViewer(o, msg) ==
    CASE msg = "reply" -> [o EXCEPT !.reply = TRUE]
      [] msg = "hangup" -> [o EXCEPT !.hangups = @ + 1]
      [] OTHER -> o

Observed(o, msg) ==
    CASE tool = "ring" -> ObservedByDoor(o, msg)
      [] tool = "dial" -> ObservedByDialler(o, msg)
      [] tool = "monitor" -> ObservedByViewer(o, msg)

\* Mutant: a hangup stops only a call that has been answered.
ReceiveStopAnswered ==
    /\ receiver = "on" /\ toUs # <<>>
    /\ observed' = Observed(observed, Head(toUs))
    /\ stop' = (stop \/ (Head(toUs) = "hangup" /\ observed.answered))
    /\ toUs' = Tail(toUs)
    /\ UNCHANGED <<tool, pc, left, receiver, far, toFar, history>>

Receive ==
    /\ receiver = "on" /\ toUs # <<>>
    /\ observed' = Observed(observed, Head(toUs))
    /\ stop' = (stop \/ Head(toUs) = "hangup")
    /\ toUs' = Tail(toUs)
    /\ UNCHANGED <<tool, pc, left, receiver, far, toFar, history>>

\* The socket reports an error, say that the port at the far end is closed:
\* the receiver ends for good, and the loop goes on without it.
ReceiverFails ==
    /\ receiver = "on" /\ receiver' = "gone"
    /\ UNCHANGED <<tool, pc, left, stop, observed, far, channels, history>>

--------------------------------------------------------------------------------
(***************************************************************************)
(* The far end.                                                            *)
(***************************************************************************)

\* The Agent takes packet number i (on_wire, execute for its clients); the
\* camera and the elevator's door answer a request.
Arrives(i) ==
    /\ toFar' = RemoveAt(toFar, i)
    /\ disturbed' = (disturbed \/ i # 1)
    /\ CASE toFar[i] = "request" ->
              /\ far' = IF tool # "elevator" /\ far.phase = "Idle"
                          THEN StartCall(far, far.session + 1) ELSE far
              /\ toUs' = Append(toUs, IF tool = "elevator" THEN "ack" ELSE "reply")
              /\ UNCHANGED blared
         [] toFar[i] = "voice" ->
              /\ blared' = (blared \/ (far.phase = "Ringing" /\ far.session = 1))
              /\ UNCHANGED <<far, toUs>>
         [] toFar[i] = "hangup" ->
              /\ far' = Hangup(far)
              /\ UNCHANGED <<toUs, blared>>
    /\ UNCHANGED <<tool, pc, left, receiver, stop, observed, asked>>

\* What the far end sends on its own account.
Says(msg) == toUs' = Append(toUs, msg)

FarAnswers ==
    /\ tool \in Calls /\ RemoteAnswerVerdict(far) = "Ok"
    /\ far' = RemoteAnswer(far) /\ Says("answer")
    /\ asked' = IF asked.hungUp THEN asked ELSE [asked EXCEPT !.answered = TRUE]
    /\ UNCHANGED <<tool, pc, left, receiver, stop, observed, toFar, disturbed, blared>>

FarUnlocks ==
    /\ tool \in Calls /\ far.phase # "Idle" /\ UnlockVerdict(far, FALSE) = "Ok"
    /\ asked.unlocks < MaxUnlocks /\ ~asked.hungUp
    /\ far' = Unlock(far) /\ Says("unlock")
    /\ asked' = [asked EXCEPT !.unlocks = @ + 1]
    /\ UNCHANGED <<tool, pc, left, receiver, stop, observed, toFar, disturbed, blared>>

FarHangsUp ==
    /\ far.phase # "Idle"
    /\ far' = Hangup(far) /\ Says("hangup")
    /\ asked' = [asked EXCEPT !.hungUp = TRUE]
    /\ UNCHANGED <<tool, pc, left, receiver, stop, observed, toFar, disturbed, blared>>

FarCooldownElapses ==
    /\ far.cooling /\ far' = CooledDown(far)
    /\ UNCHANGED <<tool, pc, left, receiver, stop, observed, channels, history>>

Lost ==
    /\ \/ \E i \in DOMAIN toFar : toFar' = RemoveAt(toFar, i) /\ UNCHANGED toUs
       \/ \E i \in DOMAIN toUs : toUs' = RemoveAt(toUs, i) /\ UNCHANGED toFar
    /\ disturbed' = TRUE
    /\ UNCHANGED <<tool, pc, left, receiver, stop, observed, far, asked, blared>>

Far ==
    \/ \E i \in DOMAIN toFar : Arrives(i)
    \/ FarAnswers \/ FarUnlocks \/ FarHangsUp \/ FarCooldownElapses

Next ==
    \/ Resolve \/ Ring \/ Dial \/ Monitor \/ CallElevator
    \/ Receive \/ ReceiverFails \/ Far \/ Lost

Spec == Init /\ [][Next]_vars

\* The two tasks of the tool are scheduled, and each turn of the loop looks at
\* the watch channel first.
FairSpec == Spec /\ WF_vars(Receive) /\ WF_vars(Resolved \/ Page \/ Request \/ Stopped \/ HangUp)

--------------------------------------------------------------------------------
(***************************************************************************)
(* Both ends agree that the call is over: when the tool has ended in order *)
(* and its packets have come in order, nothing rings or talks at the far   *)
(* end - not even a call that a repeated request began after the far end   *)
(* had hung up, which is why a tool that was told to stop still sends a    *)
(* hangup of its own (run_emulator, run_outbound_call, run_monitor).       *)
(***************************************************************************)
CallsEndTogether ==
    pc = "done" /\ toFar = <<>> /\ ~disturbed => far.phase = "Idle"

(***************************************************************************)
(* No voice reaches a Pad that rings, which would take it for a call in    *)
(* progress (the comment at emitter.rs 328), whatever was lost or arrived  *)
(* in another order: `blared` is about the call that was asked for, not    *)
(* one that a repeated request has begun.                                  *)
(***************************************************************************)
NoVoiceWhileRinging == ~blared

(***************************************************************************)
(* When it was the far end's hangup that ended a ring, the report tells    *)
(* everything that came before: the answer, and each unlock, of a call     *)
(* that was answered or not (observe_reply), unless packets were lost.     *)
(***************************************************************************)
ReportIsComplete ==
    tool = "ring" /\ pc = "done" /\ stop /\ ~disturbed =>
        /\ asked.answered => observed.answered
        /\ observed.unlocks = asked.unlocks

(***************************************************************************)
(* A tool runs until the far end hangs up (the doc comments of all three): *)
(* a hangup on its way ends it, unless the receiver fails or packets are   *)
(* lost.                                                                   *)
(***************************************************************************)
HangupEndsTool ==
    Contains(toUs, "hangup") ~> pc \in Ended \/ receiver = "gone" \/ disturbed
================================================================================
