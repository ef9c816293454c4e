-------------------------------- MODULE Outbound -------------------------------
(***************************************************************************)
(* The Agent's outbound sessions (agent.rs): viewing a door camera         *)
(* (start_monitor_now, stop_monitor_now, run_monitor_session) and dialling *)
(* another station (dial_now, hangup_call_now).                            *)
(*                                                                         *)
(* Each kind has one slot of the Agent, which holds the handle of the      *)
(* session: the sending half of the cancel channel of a task.  A task ends *)
(* when its handle is used to cancel it, or merely dropped.  A request     *)
(* checks that the line is free, awaits the discovery of the station, and  *)
(* only then fills the slot; the wire task looks at the two slots to       *)
(* decide whose a session message is; a monitor's task empties the slot    *)
(* when it ends.  None of them holds a lock across two of these steps.     *)
(*                                                                         *)
(* A handle is the number of the request that makes it.  The incoming      *)
(* call, AgentCall's subject, is only whether one is up.                   *)
(***************************************************************************)
EXTENDS Naturals, FiniteSets

CONSTANTS
    Requests,     \* threads that serve /v1/monitor, /v1/dial and their stops
    MaxMonitors,  \* bound: requests for a monitor
    MaxDials      \* bound: requests to dial

ASSUME BoundsAssumption == MaxMonitors \in Nat /\ MaxDials \in Nat

Monitors == 1..MaxMonitors
Dials    == 1..MaxDials
Messages == {"request", "answer", "hangup"}

VARIABLES
    callUp,    \* an incoming call is up
    monitor,   \* the handle in Agent.monitor; 0: None
    line,      \* the handle in Agent.call_session; 0: None
    watch,     \* each monitor's task
    keep,      \* each dialled call's keepalive task
    answered,  \* CallHandle.answered
    pc,        \* where each request is,
    mine,      \* ... and which handle is its own
    wire       \* where on_wire is, and with which message

\* History variables.
VARIABLES
    monitors,  \* requests for a monitor so far
    dials,     \* requests to dial so far
    dropped,   \* why each monitor's handle left the slot
    cut,       \* dialled calls whose handle left the slot
    connected, \* CallConnected events of each dialled call
    hungUp     \* CallHungUp events of each dialled call

slots   == <<monitor, line, dropped, cut>>
tasks   == <<watch, keep>>
tallies == <<answered, connected, hungUp>>
counts  == <<monitors, dials>>
vars    == <<callUp, slots, tasks, tallies, counts, pc, mine, wire>>

\* on_wire between two messages.
Listening == [pc |-> "recv", msg |-> "request", handle |-> 0]

Init ==
    /\ callUp = FALSE
    /\ monitor = 0 /\ line = 0
    /\ watch = [m \in Monitors |-> "none"]
    /\ keep = [d \in Dials |-> "none"]
    /\ answered = [d \in Dials |-> FALSE]
    /\ pc = [r \in Requests |-> "idle"]
    /\ mine = [r \in Requests |-> 0]
    /\ wire = Listening
    /\ monitors = 0 /\ dials = 0
    /\ dropped = [m \in Monitors |-> "no"]
    /\ cut = {}
    /\ connected = [d \in Dials |-> 0]
    /\ hungUp = [d \in Dials |-> 0]

Goto(r, from, to) == pc[r] = from /\ pc' = [pc EXCEPT ![r] = to]

\* The handler returns, and its locals are gone.
Return(r) ==
    /\ pc' = [pc EXCEPT ![r] = "idle"]
    /\ mine' = [mine EXCEPT ![r] = 0]

\* The monitor slot gets the handle next; the one it held is dropped.
SetMonitor(next, why) ==
    /\ monitor' = next
    /\ dropped' = IF monitor = 0 THEN dropped ELSE [dropped EXCEPT ![monitor] = why]
    /\ UNCHANGED <<line, cut>>

\* The same of the line.
SetLine(next) ==
    /\ line' = next
    /\ cut' = IF line = 0 THEN cut ELSE cut \cup {line}
    /\ UNCHANGED <<monitor, dropped>>

--------------------------------------------------------------------------------
(***************************************************************************)
(* start_monitor_now: check, await, empty the slot, fill it, spawn.        *)
(***************************************************************************)
AskMonitor(r) ==
    /\ Goto(r, "idle", "find")
    /\ ~callUp /\ monitors < MaxMonitors
    /\ monitors' = monitors + 1
    /\ mine' = [mine EXCEPT ![r] = monitors']
    /\ UNCHANGED <<callUp, slots, tasks, tallies, dials, wire>>

Replace(r) ==
    /\ Goto(r, "find", "install")
    /\ SetMonitor(0, "replaced")
    /\ UNCHANGED <<callUp, tasks, tallies, counts, mine, wire>>

Install(r) ==
    /\ Goto(r, "install", "spawn")
    /\ SetMonitor(mine[r], "replaced")
    /\ UNCHANGED <<callUp, tasks, tallies, counts, mine, wire>>

\* MonitorStarted is pushed, and the task spawned.
Spawn(r) ==
    /\ pc[r] = "spawn" /\ Return(r)
    /\ watch' = [watch EXCEPT ![mine[r]] = "running"]
    /\ UNCHANGED <<callUp, slots, keep, tallies, counts, wire>>

\* stop_monitor_now, for a client.
StopMonitor(r) ==
    /\ pc[r] = "idle" /\ monitor # 0
    /\ SetMonitor(0, "stopped")
    /\ UNCHANGED <<callUp, tasks, tallies, counts, pc, mine, wire>>

\* Mutant: a task ends only when it is cancelled in so many words.
WatchEndsIfTold(m) ==
    /\ watch[m] = "running" /\ dropped[m] = "stopped"
    /\ watch' = [watch EXCEPT ![m] = "ended"]
    /\ UNCHANGED <<callUp, slots, keep, tallies, counts, pc, mine, wire>>

\* run_monitor_session returns, because its handle was used or dropped ...
WatchEnds(m) ==
    /\ watch[m] = "running" /\ dropped[m] # "no"
    /\ watch' = [watch EXCEPT ![m] = "ended"]
    /\ UNCHANGED <<callUp, slots, keep, tallies, counts, pc, mine, wire>>

\* ... or because a socket or a packet could not be made.
WatchFails(m) ==
    /\ watch[m] = "running"
    /\ watch' = [watch EXCEPT ![m] = "ended"]
    /\ UNCHANGED <<callUp, slots, keep, tallies, counts, pc, mine, wire>>

\* Mutant: the task empties the slot only if it was told to stop.
CleanUpIfTold(m) ==
    /\ watch[m] = "ended"
    /\ watch' = [watch EXCEPT ![m] = "cleaned"]
    /\ IF dropped[m] = "no" THEN UNCHANGED slots ELSE SetMonitor(0, "swept")
    /\ UNCHANGED <<callUp, keep, tallies, counts, pc, mine, wire>>

\* The task takes the handle out of the slot, whosever it is.
CleanUp(m) ==
    /\ watch[m] = "ended"
    /\ watch' = [watch EXCEPT ![m] = "cleaned"]
    /\ SetMonitor(0, IF monitor = m THEN "finished" ELSE "swept")
    /\ UNCHANGED <<callUp, keep, tallies, counts, pc, mine, wire>>

\* MonitorStopped is pushed.
ReportStop(m) ==
    /\ watch[m] = "cleaned"
    /\ watch' = [watch EXCEPT ![m] = "over"]
    /\ UNCHANGED <<callUp, slots, keep, tallies, counts, pc, mine, wire>>

--------------------------------------------------------------------------------
(***************************************************************************)
(* dial_now: check, await, fill the slot, spawn.                           *)
(***************************************************************************)
AskDial(r) ==
    /\ Goto(r, "idle", "lines")
    /\ ~callUp /\ dials < MaxDials
    /\ dials' = dials + 1
    /\ mine' = [mine EXCEPT ![r] = dials']
    /\ UNCHANGED <<callUp, slots, tasks, tallies, monitors, wire>>

CheckLines(r) ==
    /\ pc[r] = "lines"
    /\ IF monitor = 0 /\ line = 0
         THEN Goto(r, "lines", "look") /\ UNCHANGED mine
         ELSE Return(r)
    /\ UNCHANGED <<callUp, slots, tasks, tallies, counts, wire>>

Dial(r) ==
    /\ Goto(r, "look", "dialling")
    /\ SetLine(mine[r])
    /\ UNCHANGED <<callUp, tasks, tallies, counts, mine, wire>>

\* Dialing is pushed, and the keepalive task spawned.
SpawnKeep(r) ==
    /\ pc[r] = "dialling" /\ Return(r)
    /\ keep' = [keep EXCEPT ![mine[r]] = "running"]
    /\ UNCHANGED <<callUp, slots, watch, tallies, counts, wire>>

\* The keepalive task says goodbye to the callee when its handle is gone.
KeepEnds(d) ==
    /\ keep[d] = "running" /\ d \in cut
    /\ keep' = [keep EXCEPT ![d] = "over"]
    /\ UNCHANGED <<callUp, slots, watch, tallies, counts, pc, mine, wire>>

\* The discovery of a camera or a callee, or a socket, fails.
NotFound(r) ==
    /\ pc[r] \in {"find", "look"} /\ Return(r)
    /\ UNCHANGED <<callUp, slots, tasks, tallies, counts, wire>>

\* Mutant: a local hangup takes the handle, and says nothing.
HangUpDialUnsaid(r) ==
    /\ pc[r] = "idle" /\ line # 0
    /\ SetLine(0)
    /\ UNCHANGED <<callUp, tasks, tallies, counts, pc, mine, wire>>

\* hangup_call_now, for a client: take the handle, then push CallHungUp.
HangUpDial(r) ==
    /\ Goto(r, "idle", "hungup")
    /\ line # 0
    /\ mine' = [mine EXCEPT ![r] = line]
    /\ SetLine(0)
    /\ UNCHANGED <<callUp, tasks, tallies, counts, wire>>

ReportHangUp(r) ==
    /\ pc[r] = "hungup" /\ Return(r)
    /\ hungUp' = [hungUp EXCEPT ![mine[r]] = @ + 1]
    /\ UNCHANGED <<callUp, slots, tasks, answered, connected, counts, wire>>

--------------------------------------------------------------------------------
(***************************************************************************)
(* on_wire, for a session message: first the monitor's slot is looked at,  *)
(* then the line, then the message is the incoming call's.                 *)
(***************************************************************************)
WireTo(to) == wire' = [wire EXCEPT !.pc = to]
WireDone   == wire' = Listening

WireMessage(msg) ==
    /\ wire.pc = "recv"
    /\ wire' = [pc |-> IF monitor # 0 THEN "monitor" ELSE "line", msg |-> msg, handle |-> 0]
    /\ UNCHANGED <<callUp, slots, tasks, tallies, counts, pc, mine>>

\* While monitoring, a hangup stops the monitor; anything else is swallowed.
WireMonitor ==
    /\ wire.pc = "monitor"
    /\ WireDone
    /\ IF wire.msg = "hangup" THEN SetMonitor(0, "hungup") ELSE UNCHANGED slots
    /\ UNCHANGED <<callUp, tasks, tallies, counts, pc, mine>>

WireLine ==
    /\ wire.pc = "line"
    /\ WireTo(IF line # 0 THEN "dialled" ELSE "call")
    /\ UNCHANGED <<callUp, slots, tasks, tallies, counts, pc, mine>>

\* The callee's answer connects the call once; CallConnected is pushed
\* under the line's lock.
WireAnswered ==
    /\ wire.pc = "dialled" /\ wire.msg = "answer"
    /\ WireDone
    /\ IF line # 0 /\ ~answered[line]
         THEN /\ answered' = [answered EXCEPT ![line] = TRUE]
              /\ connected' = [connected EXCEPT ![line] = @ + 1]
              /\ UNCHANGED hungUp
         ELSE UNCHANGED tallies
    /\ UNCHANGED <<callUp, slots, tasks, counts, pc, mine>>

\* Mutant: the wire looks at the handle, and leaves it in the slot.
WireHungUpPeeking ==
    /\ wire.pc = "dialled" /\ wire.msg = "hangup"
    /\ IF line # 0
         THEN wire' = [wire EXCEPT !.pc = "hungup", !.handle = line]
         ELSE WireDone
    /\ UNCHANGED <<callUp, slots, tasks, tallies, counts, pc, mine>>

\* hangup_call_now, for the callee.
WireHungUp ==
    /\ wire.pc = "dialled" /\ wire.msg = "hangup"
    /\ IF line # 0
         THEN wire' = [wire EXCEPT !.pc = "hungup", !.handle = line] /\ SetLine(0)
         ELSE WireDone /\ UNCHANGED slots
    /\ UNCHANGED <<callUp, tasks, tallies, counts, pc, mine>>

WireReport ==
    /\ wire.pc = "hungup"
    /\ WireDone
    /\ hungUp' = [hungUp EXCEPT ![wire.handle] = @ + 1]
    /\ UNCHANGED <<callUp, slots, tasks, answered, connected, counts, pc, mine>>

WireSwallow ==
    /\ wire.pc = "dialled" /\ wire.msg = "request"
    /\ WireDone
    /\ UNCHANGED <<callUp, slots, tasks, tallies, counts, pc, mine>>

\* The incoming call's handlers: on_call_started, on_pad_answer, on_wire_hangup.
WireCall ==
    /\ wire.pc = "call"
    /\ WireDone
    /\ callUp' = IF wire.msg = "request" THEN TRUE
                 ELSE IF wire.msg = "hangup" THEN FALSE ELSE callUp
    /\ UNCHANGED <<slots, tasks, tallies, counts, pc, mine>>

\* A hangup command for the incoming call (execute).
EndCall ==
    /\ callUp
    /\ callUp' = FALSE
    /\ UNCHANGED <<slots, tasks, tallies, counts, pc, mine, wire>>

--------------------------------------------------------------------------------
RequestGoesOn(r) ==
    \/ Replace(r) \/ Install(r) \/ Spawn(r) \/ NotFound(r)
    \/ CheckLines(r) \/ Dial(r) \/ SpawnKeep(r) \/ ReportHangUp(r)

RequestStep(r) ==
    \/ AskMonitor(r) \/ StopMonitor(r) \/ AskDial(r) \/ HangUpDial(r)
    \/ RequestGoesOn(r)

WatchGoesOn(m) == WatchEnds(m) \/ CleanUp(m) \/ ReportStop(m)

WireGoesOn ==
    \/ WireMonitor \/ WireLine \/ WireAnswered \/ WireHungUp \/ WireReport
    \/ WireSwallow \/ WireCall

Next ==
    \/ \E r \in Requests : RequestStep(r)
    \/ \E m \in Monitors : WatchGoesOn(m) \/ WatchFails(m)
    \/ \E d \in Dials : KeepEnds(d)
    \/ \E msg \in Messages : WireMessage(msg)
    \/ WireGoesOn
    \/ EndCall

Spec == Init /\ [][Next]_vars

\* Threads that have begun something are scheduled, and an await ends, for
\* it has a timeout.
FairSpec ==
    /\ Spec
    /\ \A r \in Requests : WF_vars(RequestGoesOn(r))
    /\ \A m \in Monitors : WF_vars(WatchGoesOn(m))
    /\ \A d \in Dials : WF_vars(KeepEnds(d))
    /\ WF_vars(WireGoesOn)

--------------------------------------------------------------------------------
WatchStates == {"none", "running", "ended", "cleaned", "over"}
Reasons == {"no", "stopped", "replaced", "hungup", "finished", "swept"}

TypeOK ==
    /\ callUp \in BOOLEAN
    /\ monitor \in 0..MaxMonitors /\ line \in 0..MaxDials
    /\ watch \in [Monitors -> WatchStates]
    /\ keep \in [Dials -> {"none", "running", "over"}]
    /\ answered \in [Dials -> BOOLEAN]
    /\ pc \in [Requests -> {"idle", "find", "install", "spawn", "lines", "look",
                            "dialling", "hungup"}]
    /\ mine \in [Requests -> Nat]
    /\ wire \in [pc : {"recv", "monitor", "line", "dialled", "hungup", "call"},
                 msg : Messages, handle : 0..MaxDials]
    /\ monitors \in 0..MaxMonitors /\ dials \in 0..MaxDials
    /\ dropped \in [Monitors -> Reasons]
    /\ cut \subseteq Dials
    /\ connected \in [Dials -> Nat] /\ hungUp \in [Dials -> Nat]

(***************************************************************************)
(* No slot keeps a handle whose task is gone: on_wire would swallow every  *)
(* ring for a session nobody runs (the cleanups of start_monitor_now,      *)
(* hangup_call_now).                                                       *)
(***************************************************************************)
NoZombieSession ==
    /\ monitor # 0 => watch[monitor] \notin {"cleaned", "over"}
    /\ line # 0 => keep[line] # "over"

(***************************************************************************)
(* A dialled call is reported connected at most once and hung up at most   *)
(* once, however client and callee race (on_wire, hangup_call_now).        *)
(***************************************************************************)
ReportedOnce == \A d \in Dials : connected[d] <= 1 /\ hungUp[d] <= 1

(***************************************************************************)
(* A monitor whose handle left the slot ends and is reported stopped, and  *)
(* a call that was cut stops its keepalives, even if nobody cancelled them *)
(* in so many words (run_monitor_session, dial_now: changed.is_err()).     *)
(***************************************************************************)
OrphansEnd ==
    /\ \A m \in Monitors : (watch[m] = "running" /\ dropped[m] # "no") ~> (watch[m] = "over")
    /\ \A d \in Dials : (keep[d] = "running" /\ d \in cut) ~> (keep[d] = "over")

(***************************************************************************)
(* With one client, every dialled call that has left the line is reported  *)
(* hung up, or about to be, whoever ended it (openapi.yaml /v1/dial:       *)
(* call_hung_up events are emitted; hangup_call_now).                      *)
(***************************************************************************)
DialsAreHungUp ==
    \A d \in cut :
        \/ hungUp[d] > 0
        \/ wire.pc = "hungup" /\ wire.handle = d
        \/ \E r \in Requests : pc[r] = "hungup" /\ mine[r] = d

================================================================================
