---------------------------- MODULE SimulatedAgent -----------------------------
(***************************************************************************)
(* What the two simulated Agents have in common: the software door station *)
(* (door_station.rs), which an operator rings, and the replay Agent        *)
(* (replay_agent.rs), which plays a capture.  Both put the call machine,   *)
(* the command cache and the event log of the real Agent behind the HTTP   *)
(* server, and both run a client's command in the same steps.  DoorStation *)
(* and ReplayAgent extend this module with what drives the call.           *)
(*                                                                         *)
(* Of the event log only what a client makes of it is kept: the phase and  *)
(* owner it derives from the events, in the order they were pushed.        *)
(***************************************************************************)
EXTENDS CallMachine, CommandCache

CONSTANTS
    Kinds,        \* which of "station", "replay", "lan" (LanPad) to model
    Workers,      \* threads that execute commands
    Ids,          \* command ids
    Capacity,     \* results the command cache holds (256 in the code)
    MaxRequests,  \* bound: command requests received
    MaxCalls      \* bound: rings of the operator, or passes over the capture

ASSUME SimulatedAssumption ==
    /\ Kinds \subseteq {"station", "replay", "lan"}
    /\ Capacity \in Nat /\ MaxRequests \in Nat /\ MaxCalls \in Nat

Actions  == {"Claim", "Unlock", "Hangup"}
Verdicts == {"Ok", "NotRinging", "PadOwnsCall", "UnlockCooldown", "NoCall"}
NoId     == "none"

VARIABLES
    kind,      \* which program this is
    machine,   \* CallInner.machine
    cache,     \* CommandCache
    pc,        \* where each worker is in command() or execute()
    action,    \* its CallAction ...
    id,        \* ... and command id
    session,   \* the session it read before it locked the call
    result     \* the CommandResult it will store

\* History variables.
VARIABLES
    requests,  \* requests so far
    clock,     \* transitions of the machine so far
    stamp,     \* the number of each worker's transition
    stale,     \* workers whose transition was not in the session they had read
    view,      \* the call as the events pushed so far tell it
    told,      \* the latest transition an event has told of
    misled     \* an event came after that of a later transition, or named
               \* another session than it was about

local  == <<pc, action, id, session, result, stamp, stale>>
feed   == <<view, told, misled>>
shared == <<kind, machine, cache, local, requests, clock, feed>>

SharedTypeOK ==
    /\ kind \in Kinds
    /\ machine \in Machines
    /\ CachedIds(cache) \subseteq Ids
    /\ \A i \in CachedIds(cache) : cache.results[i] \in Verdicts
    /\ pc \in [Workers -> {"idle", "session", "lock", "push", "stop", "store"}]
    /\ action \in [Workers -> Actions]
    /\ id \in [Workers -> Ids \cup {NoId}]
    /\ session \in [Workers -> Nat]
    /\ result \in [Workers -> Verdicts]
    /\ requests \in 0..MaxRequests
    /\ clock \in Nat /\ told \in 0..clock /\ stamp \in [Workers -> 0..clock]
    /\ stale \subseteq Workers
    /\ view \in [session : Nat, phase : Phases, owner : Owners]
    /\ misled \in BOOLEAN

SharedInit ==
    /\ kind \in Kinds
    /\ machine = NewMachine
    /\ cache = EmptyCache
    /\ pc = [w \in Workers |-> "idle"]
    /\ action = [w \in Workers |-> "Claim"]
    /\ id = [w \in Workers |-> NoId]
    /\ session = [w \in Workers |-> 0]
    /\ result = [w \in Workers |-> "Ok"]
    /\ requests = 0 /\ clock = 0
    /\ stamp = [w \in Workers |-> 0] /\ stale = {}
    /\ view = [session |-> 0, phase |-> "Idle", owner |-> "None"]
    /\ told = 0 /\ misled = FALSE

Goto(w, from, to) == pc[w] = from /\ pc' = [pc EXCEPT ![w] = to]

--------------------------------------------------------------------------------
(***************************************************************************)
(* EventLog::push, as a client sees it: event e of session s, about the    *)
(* transition numbered t.  A start or an end tells everything there is to  *)
(* know, so that one in turn clears up what went wrong before.             *)
(***************************************************************************)
Viewed(e, s) ==
    CASE e = "CallStarted" -> [session |-> s, phase |-> "Ringing", owner |-> "None"]
      [] e = "PadAnswered" -> [session |-> s, phase |-> "Connected", owner |-> "Pad"]
      [] e = "RemoteAnswered" -> [session |-> s, phase |-> "Connected", owner |-> "Remote"]
      [] e = "CallEnded" -> [session |-> s, phase |-> "Idle", owner |-> "None"]
      [] OTHER -> view

Push(e, s, t, right) ==
    /\ view' = Viewed(e, s)
    /\ told' = IF t > told THEN t ELSE told
    /\ misled' = IF e \in {"CallStarted", "CallEnded"} /\ t = clock /\ right THEN FALSE
                 ELSE misled \/ t < told \/ ~right

\* A transition of the machine to m, under its lock.
Transition(m) == machine' = m /\ clock' = clock + 1

--------------------------------------------------------------------------------
(***************************************************************************)
(* A client's command (DoorStation::command, ReplayAgent::execute).        *)
(***************************************************************************)

\* commands.get() answers a cached id.
Replay(w, i) ==
    /\ pc[w] = "idle" /\ requests < MaxRequests
    /\ i \in CachedIds(cache)
    /\ requests' = requests + 1
    /\ UNCHANGED <<kind, machine, cache, local, clock, feed>>

Begin(w, a, i) ==
    /\ Goto(w, "idle", "session")
    /\ requests < MaxRequests
    /\ i \notin CachedIds(cache)
    /\ requests' = requests + 1
    /\ action' = [action EXCEPT ![w] = a]
    /\ id' = [id EXCEPT ![w] = i]
    /\ UNCHANGED <<kind, machine, cache, session, result, stamp, stale, clock, feed>>

\* session_string() locks the call for itself.
ReadSession(w) ==
    /\ Goto(w, "session", "lock")
    /\ session' = [session EXCEPT ![w] = machine.session]
    /\ UNCHANGED <<kind, machine, cache, action, id, result, stamp, stale,
                   requests, clock, feed>>

\* Neither Agent asks for an answer before an unlock, whatever the Pad does.
Verdict(a) ==
    CASE a = "Claim" -> RemoteAnswerVerdict(machine)
      [] a = "Unlock" -> UnlockVerdict(machine, FALSE)
      [] a = "Hangup" -> IF machine.phase = "Idle" THEN "NoCall" ELSE "Ok"

After(a) ==
    CASE a = "Claim" -> RemoteAnswer(machine)
      [] a = "Unlock" -> Unlock(machine)
      [] a = "Hangup" -> Hangup(machine)

Accept(w) ==
    /\ Goto(w, "lock", "push")
    /\ Verdict(action[w]) = "Ok"
    /\ Transition(After(action[w]))
    /\ stamp' = [stamp EXCEPT ![w] = clock']
    /\ stale' = IF session[w] # machine.session THEN stale \cup {w} ELSE stale
    /\ UNCHANGED <<kind, cache, action, id, session, result, requests, feed>>

Reject(w) ==
    /\ Goto(w, "lock", "store")
    /\ Verdict(action[w]) # "Ok"
    /\ result' = [result EXCEPT ![w] = Verdict(action[w])]
    /\ UNCHANGED <<kind, machine, cache, action, id, session, stamp, stale,
                   requests, clock, feed>>

\* Mutant: the media of a call that a client ends is left running.
AnnounceOnly(w) ==
    /\ Goto(w, "push", "store")
    /\ LET e == [Claim |-> "RemoteAnswered", Unlock |-> "Unlocked", Hangup |-> "CallEnded"]
       IN  Push(e[action[w]], session[w], stamp[w], w \notin stale)
    /\ UNCHANGED <<kind, machine, cache, action, id, session, result, stamp, stale,
                   requests, clock>>

\* The event carries the session read before the lock.  The door station
\* then runs its callback, and after a hangup stops its media.
Announce(w) ==
    /\ Goto(w, "push", IF kind = "station" /\ action[w] = "Hangup" THEN "stop" ELSE "store")
    /\ LET e == [Claim |-> "RemoteAnswered", Unlock |-> "Unlocked", Hangup |-> "CallEnded"]
       IN  Push(e[action[w]], session[w], stamp[w], w \notin stale)
    /\ UNCHANGED <<kind, machine, cache, action, id, session, result, stamp, stale,
                   requests, clock>>

StoreResult(w) ==
    /\ Goto(w, "store", "idle")
    /\ cache' = Store(cache, Capacity, id[w], result[w])
    /\ id' = [id EXCEPT ![w] = NoId]
    /\ action' = [action EXCEPT ![w] = "Claim"]
    /\ session' = [session EXCEPT ![w] = 0]
    /\ result' = [result EXCEPT ![w] = "Ok"]
    /\ stamp' = [stamp EXCEPT ![w] = 0] /\ stale' = stale \ {w}
    /\ UNCHANGED <<kind, machine, requests, clock, feed>>

CooldownElapses ==
    /\ machine.cooling
    /\ machine' = CooledDown(machine)
    /\ UNCHANGED <<kind, cache, local, requests, clock, feed>>

Command(w) ==
    \/ \E i \in Ids : Replay(w, i) \/ \E a \in Actions : Begin(w, a, i)
    \/ ReadSession(w) \/ Accept(w) \/ Reject(w) \/ Announce(w) \/ StoreResult(w)

--------------------------------------------------------------------------------
\* No command is under way.
WorkersIdle == \A w \in Workers : pc[w] = "idle"

(***************************************************************************)
(* The events tell the truth: a client that follows them knows the phase,  *)
(* the owner and the session of the call, unless an event overtook another *)
(* or named a session that had been replaced (both Agents push after they  *)
(* release the lock, and read the session before they take it).            *)
(***************************************************************************)
ViewIsTrue ==
    /\ view.phase = machine.phase /\ view.owner = machine.owner
    /\ machine.phase # "Idle" => view.session = machine.session
================================================================================
