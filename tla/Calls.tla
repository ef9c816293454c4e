--------------------------------- MODULE Calls ---------------------------------
(***************************************************************************)
(* The two calls of the Agent as the clients inside its process share      *)
(* them: the incoming call's machine, which AgentCall has in detail, and   *)
(* the line of a dialled call, which Outbound has.  HomeKit and TalkBack   *)
(* extend this module; what moves the calls here is everybody else, the    *)
(* wire, the Pad and the HTTP clients, in one step each.                   *)
(***************************************************************************)
EXTENDS CallMachine, Sequences

CONSTANTS
    Broadcast,  \* events a receiver may be behind (LIVE_CAPACITY in the code)
    MaxRings,   \* bound: incoming calls
    MaxDialled  \* bound: dialled calls

ASSUME CallsAssumption ==
    Broadcast \in Nat \ {0} /\ MaxRings \in Nat /\ MaxDialled \in Nat

VARIABLES
    machine,  \* CallInner.machine
    line,     \* the dialled call in Agent.call_session; 0: None
    updates,  \* events the doorbell's receiver has yet to take
    lagged    \* the next recv() of the doorbell returns Lagged

\* History variable.
VARIABLE dialled  \* calls dialled so far

calls == <<machine, line, updates, lagged, dialled>>

CallsTypeOK ==
    /\ machine \in Machines
    /\ line \in 0..MaxDialled /\ dialled \in 0..MaxDialled
    /\ updates \in Seq({"started", "other"}) /\ Len(updates) <= Broadcast
    /\ lagged \in BOOLEAN

CallsInit ==
    /\ machine = NewMachine
    /\ line = 0 /\ dialled = 0
    /\ updates = <<>> /\ lagged = FALSE

\* EventLog::push, for a receiver of the broadcast channel: a full channel
\* overwrites the oldest event, and the receiver is told that it lagged.
Push(kind) ==
    LET full == Len(updates) = Broadcast
    IN  /\ updates' = Append(IF full THEN Tail(updates) ELSE updates, kind)
        /\ lagged' = (lagged \/ full)

Becomes(next, kind) == machine' = next /\ Push(kind)

\* on_call_started.
Ring ==
    /\ machine.phase = "Idle" /\ machine.session < MaxRings
    /\ Becomes(StartCall(machine, machine.session + 1), "started")
    /\ UNCHANGED <<line, dialled>>

\* on_pad_answer, and a claim of an HTTP client.
Answered ==
    /\ \/ PadAnswerVerdict(machine) = "Ok" /\ Becomes(PadAnswer(machine), "other")
       \/ RemoteAnswerVerdict(machine) = "Ok" /\ Becomes(RemoteAnswer(machine), "other")
    /\ UNCHANGED <<line, dialled>>

\* on_wire_hangup, and a hangup of an HTTP client.
CallOver ==
    /\ machine.phase # "Idle"
    /\ Becomes(Hangup(machine), "other")
    /\ UNCHANGED <<line, dialled>>

Cools ==
    /\ machine.cooling
    /\ machine' = CooledDown(machine)
    /\ UNCHANGED <<line, updates, lagged, dialled>>

\* dial_now fills the slot.
DialOut ==
    /\ line = 0 /\ dialled < MaxDialled
    /\ dialled' = dialled + 1 /\ line' = dialled'
    /\ Push("other")
    /\ UNCHANGED machine

\* hangup_call_now.
LineOver ==
    /\ line # 0
    /\ line' = 0 /\ Push("other")
    /\ UNCHANGED <<machine, dialled>>

CallsMove == Ring \/ Answered \/ CallOver \/ Cools \/ DialOut \/ LineOver
================================================================================
