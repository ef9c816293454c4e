------------------------------- MODULE AgentCall -------------------------------
(***************************************************************************)
(* The Agent's incoming call (agent.rs), as seen by its threads.           *)
(*                                                                         *)
(* Two kinds of threads share the call:                                    *)
(*                                                                         *)
(*   - the wire task (wire_udp.rs run, wire_tap.rs run) delivers one       *)
(*     PENGUIN0 message at a time to Agent::on_wire;                       *)
(*   - every HTTP connection, and the HomeKit bridge, runs                 *)
(*     Agent::execute for a claim, an unlock or a hangup on a thread of    *)
(*     the runtime: a worker here.                                         *)
(*                                                                         *)
(* Every field of the Agent has a mutex of its own and no handler holds    *)
(* one across another, so an action below is one critical section (or one  *)
(* call to the wire), and the handlers interleave between them.  What a    *)
(* handler read under one lock may be stale under the next; this module    *)
(* keeps such values in the handler's own variables (seenDoor,             *)
(* seenSession) exactly as the code keeps them in locals.                  *)
(*                                                                         *)
(* The messages the wire delivers are the environment's: any message may   *)
(* arrive, be repeated or be lost.  on_wire hands the call handlers no     *)
(* message while a monitor or an outbound call is up; to this module those *)
(* messages are lost.                                                      *)
(***************************************************************************)
EXTENDS CallMachine, CommandCache

CONSTANTS
    Workers,         \* threads that execute commands
    ClaimIds,        \* command ids clients use for claims ...
    UnlockIds,       \* ... for unlocks
    HangupIds,       \* ... and for hangups
    Capacity,        \* results the command cache holds (256 in the code)
    RequiresAnswer,  \* security.unlock_requires_answer
    Tap,             \* TRUE: wire_tap (physical Pad present); FALSE: wire_udp
    Faults,          \* which of "send", "nft" may fail
    MaxSessions,     \* bound: incoming calls per run of the Agent
    MaxRequests,     \* bound: command requests received
    MaxEvents,       \* bound: events after which the Pad sends no more unlocks
    MaxCrashes       \* bound: times the process dies

CommandIds == ClaimIds \cup UnlockIds \cup HangupIds
Sessions   == 1..MaxSessions
Actions    == {"Claim", "Unlock", "Hangup"}

IdsOf(a) == {i \in CommandIds : \/ a = "Claim"  /\ i \in ClaimIds
                                \/ a = "Unlock" /\ i \in UnlockIds
                                \/ a = "Hangup" /\ i \in HangupIds}

ASSUME BoundsAssumption ==
    /\ MaxSessions \in Nat /\ MaxRequests \in Nat /\ MaxEvents \in Nat
    /\ MaxCrashes \in Nat /\ Capacity \in Nat
ASSUME PolicyAssumption ==
    RequiresAnswer \in BOOLEAN /\ Tap \in BOOLEAN /\ Faults \subseteq {"send", "nft"}

VARIABLES
    up,           \* the process runs
    call,         \* Call.machine
    nextSession,  \* Call.next_session
    doorKnown,    \* peers.door is Some, so peers.endpoints() is
    silenced,     \* the nftables silence table is installed (kernel state)
    cache,        \* CommandCache
    log,          \* the events pushed, in order of their seq
    wire,         \* where the wire task is in a handler, and its locals
    pc,           \* where each worker is in execute()
    action,       \* the worker's CallAction ...
    id,           \* ... and command id
    seenDoor,     \* its snapshot of doorKnown
    seenSession,  \* its snapshot of the session id
    result        \* the CommandResult it will store

\* History variables: they record what happened and steer nothing.
VARIABLES
    target,       \* the session the worker's transition really applied to
    answers,      \* how often each session was answered
    ends,         \* how often each session was ended
    acted,        \* how often each command id changed the call
    excused,      \* ids that raced, were evicted or outlived a restart
    slipped,      \* a step touched, or failed to touch, the table out of turn
    requests,     \* requests so far
    crashes       \* crashes so far

threads == <<wire, pc, action, id, seenDoor, seenSession, result, target>>
history == <<answers, ends, acted, excused, slipped, requests, crashes>>
vars    == <<up, call, nextSession, doorKnown, silenced, cache, log,
             threads, history>>

EventKinds == {"CallStarted", "PadAnswered", "RemoteAnswered", "Unlocked", "CallEnded"}
Verdicts   == {"Ok", "NotRinging", "PadOwnsCall", "UnlockNotAllowed",
               "UnlockCooldown", "NoCall", "AgentOffline"}
WirePcs    == {"recv", "restore", "publish"}
WorkerPcs  == {"idle", "peers", "session", "lock", "send", "effect", "publish", "store"}

Event(kind, session) == [kind |-> kind, session |-> session]

\* The wire task between two messages, and a worker between two commands.
AtRest == [pc |-> "recv", kind |-> "CallStarted", session |-> 0]
NoId   == "none"

--------------------------------------------------------------------------------
(***************************************************************************)
(* A run of the process: run_agent builds Agent::new, and in tap mode      *)
(* TapWire::open first removes a table a previous run left behind.  The    *)
(* door may be configured, or learned from the first call.                 *)
(***************************************************************************)
Init ==
    /\ up = TRUE
    /\ call = NewMachine
    /\ nextSession = 1
    /\ doorKnown \in BOOLEAN
    /\ silenced = FALSE
    /\ cache = EmptyCache
    /\ log = <<>>
    /\ wire = AtRest
    /\ pc = [w \in Workers |-> "idle"]
    /\ action = [w \in Workers |-> "Claim"]
    /\ id = [w \in Workers |-> NoId]
    /\ seenDoor = [w \in Workers |-> FALSE]
    /\ seenSession = [w \in Workers |-> 0]
    /\ result = [w \in Workers |-> "Ok"]
    /\ target = [w \in Workers |-> 0]
    /\ answers = [s \in Sessions |-> 0]
    /\ ends = [s \in Sessions |-> 0]
    /\ acted = [i \in CommandIds |-> 0]
    /\ excused = {}
    /\ slipped = FALSE
    /\ requests = 0
    /\ crashes = 0

Goto(w, from, to) == up /\ pc[w] = from /\ pc' = [pc EXCEPT ![w] = to]

\* execute() returns: its locals are gone.
Return(w) ==
    /\ pc' = [pc EXCEPT ![w] = "idle"]
    /\ action' = [action EXCEPT ![w] = "Claim"]
    /\ id' = [id EXCEPT ![w] = NoId]
    /\ seenDoor' = [seenDoor EXCEPT ![w] = FALSE]
    /\ seenSession' = [seenSession EXCEPT ![w] = 0]
    /\ result' = [result EXCEPT ![w] = "Ok"]
    /\ target' = [target EXCEPT ![w] = 0]

locals == <<action, id, seenDoor, seenSession, result, target>>
shared == <<up, call, nextSession, doorKnown, silenced, cache, log>>

Executing(w, i) == pc[w] # "idle" /\ id[w] = i

--------------------------------------------------------------------------------
(***************************************************************************)
(* Agent::execute, one critical section at a time.                         *)
(***************************************************************************)

\* A request with a cached id: commands.get() answers it.
Replay(w, i) ==
    /\ up /\ pc[w] = "idle" /\ requests < MaxRequests
    /\ i \in CachedIds(cache)
    /\ requests' = requests + 1
    /\ UNCHANGED <<shared, threads, answers, ends, acted, excused, slipped, crashes>>

\* Mutant: execute() does not look the id up.
BeginUnasked(w, a, i) ==
    /\ Goto(w, "idle", "peers")
    /\ requests < MaxRequests
    /\ action' = [action EXCEPT ![w] = a]
    /\ id' = [id EXCEPT ![w] = i]
    /\ requests' = requests + 1
    /\ excused' = IF \E v \in Workers : Executing(v, i) THEN excused \cup {i} ELSE excused
    /\ UNCHANGED <<shared, wire, seenDoor, seenSession, result, target,
                   answers, ends, acted, slipped, crashes>>

\* A request with an unknown id: commands.get() found nothing.
Begin(w, a, i) ==
    /\ Goto(w, "idle", "peers")
    /\ requests < MaxRequests
    /\ i \notin CachedIds(cache)
    /\ action' = [action EXCEPT ![w] = a]
    /\ id' = [id EXCEPT ![w] = i]
    /\ requests' = requests + 1
    /\ excused' = IF \E v \in Workers : Executing(v, i) THEN excused \cup {i} ELSE excused
    /\ UNCHANGED <<shared, wire, seenDoor, seenSession, result, target,
                   answers, ends, acted, slipped, crashes>>

ReadPeers(w) ==
    /\ Goto(w, "peers", "session")
    /\ seenDoor' = [seenDoor EXCEPT ![w] = doorKnown]
    /\ UNCHANGED <<shared, wire, action, id, seenSession, result, target, history>>

\* session_string(): the id the event will carry, read before the call lock.
ReadSession(w) ==
    /\ Goto(w, "session", "lock")
    /\ seenSession' = [seenSession EXCEPT ![w] = call.session]
    /\ UNCHANGED <<shared, wire, action, id, seenDoor, result, target, history>>

\* What the state machine says of the worker's action.
Verdict(w) ==
    IF ~seenDoor[w]                THEN "NoCall"
    ELSE IF action[w] = "Claim"    THEN RemoteAnswerVerdict(call)
    ELSE IF action[w] = "Unlock"   THEN UnlockVerdict(call, RequiresAnswer)
    ELSE IF call.phase = "Idle"    THEN "NoCall"
    ELSE "Ok"

\* Mutant: the rejection is not recorded in the result.
RejectUnrecorded(w) ==
    /\ Goto(w, "lock", "store")
    /\ Verdict(w) # "Ok"
    /\ UNCHANGED <<shared, wire, locals, history>>

Reject(w) ==
    /\ Goto(w, "lock", "store")
    /\ Verdict(w) # "Ok"
    /\ result' = [result EXCEPT ![w] = Verdict(w)]
    /\ UNCHANGED <<shared, wire, action, id, seenDoor, seenSession, target, history>>

\* What every accepted transition does besides changing the machine.
Accept(w, a, next) ==
    /\ Goto(w, "lock", "send")
    /\ action[w] = a
    /\ Verdict(w) = "Ok"
    /\ call' = next
    /\ result' = [result EXCEPT ![w] = "Ok"]
    /\ target' = [target EXCEPT ![w] = call.session]
    /\ acted' = [acted EXCEPT ![id[w]] = @ + 1]
    /\ UNCHANGED <<up, nextSession, doorKnown, silenced, cache, log, wire,
                   action, id, seenDoor, seenSession, excused, slipped, requests, crashes>>

Claim(w) ==
    /\ Accept(w, "Claim", RemoteAnswer(call))
    /\ answers' = [answers EXCEPT ![call.session] = @ + 1]
    /\ UNCHANGED ends

UnlockDoor(w) ==
    /\ Accept(w, "Unlock", Unlock(call))
    /\ UNCHANGED <<answers, ends>>

HangUp(w) ==
    /\ Accept(w, "Hangup", Hangup(call))
    /\ ends' = [ends EXCEPT ![call.session] = @ + 1]
    /\ UNCHANGED answers

\* wire.send_as_pad() succeeds.  Only a claim and a hangup go on to the wire.
Send(w) ==
    /\ Goto(w, "send", IF action[w] = "Unlock" THEN "publish" ELSE "effect")
    /\ UNCHANGED <<shared, wire, locals, history>>

\* send_as_pad(), or building the packet, fails: the transition stands, but
\* neither the wire effect nor the event follows.
SendFails(w) ==
    /\ "send" \in Faults
    /\ Goto(w, "send", "store")
    /\ result' = [result EXCEPT ![w] = "AgentOffline"]
    /\ slipped' = (slipped \/ action[w] # "Unlock")
    /\ UNCHANGED <<shared, wire, action, id, seenDoor, seenSession, target,
                   answers, ends, acted, excused, requests, crashes>>

\* An nft script: it takes effect, or fails and is only logged.  In pad mode
\* the wire does nothing.
SetSilence(on) ==
    \/ Tap /\ silenced' = on
    \/ (~Tap \/ "nft" \in Faults) /\ UNCHANGED silenced

RemoteOwns == call.phase = "Connected" /\ call.owner = "Remote"

\* on_remote_claim.
SilencePad(w) ==
    /\ Goto(w, "effect", "publish")
    /\ action[w] = "Claim"
    /\ SetSilence(TRUE)
    /\ slipped' = \/ slipped
                  \/ ~RemoteOwns \/ call.session # target[w]
                  \/ ~silenced'
    /\ UNCHANGED <<up, call, nextSession, doorKnown, cache, log, wire, locals,
                   answers, ends, acted, excused, requests, crashes>>

\* on_call_end, after a hangup command.
RestorePad(w) ==
    /\ Goto(w, "effect", "publish")
    /\ action[w] = "Hangup"
    /\ SetSilence(FALSE)
    /\ slipped' = (slipped \/ RemoteOwns \/ silenced')
    /\ UNCHANGED <<up, call, nextSession, doorKnown, cache, log, wire, locals,
                   answers, ends, acted, excused, requests, crashes>>

EventOf(a) == IF a = "Claim" THEN "RemoteAnswered"
              ELSE IF a = "Unlock" THEN "Unlocked" ELSE "CallEnded"

\* events.push, with the session id read before the transition.
Publish(w) ==
    /\ Goto(w, "publish", "store")
    /\ log' = Append(log, Event(EventOf(action[w]), seenSession[w]))
    /\ UNCHANGED <<up, call, nextSession, doorKnown, silenced, cache, wire, locals, history>>

\* commands.store, and the result goes to the client.
StoreResult(w) ==
    /\ up /\ pc[w] = "store"
    /\ cache' = Store(cache, Capacity, id[w], result[w])
    /\ Return(w)
    /\ excused' = excused \cup (Evicted(cache, Capacity) \ {id[w]})
    /\ UNCHANGED <<up, call, nextSession, doorKnown, silenced, log, wire,
                   answers, ends, acted, slipped, requests, crashes>>

--------------------------------------------------------------------------------
(***************************************************************************)
(* Agent::on_wire: the messages of the call's own household.  Accepting a  *)
(* message's endpoints pins the door; that and the handler's first section *)
(* are one action, for workers look at the two through their own reads.    *)
(***************************************************************************)
Receive ==
    /\ up /\ wire.pc = "recv"
    /\ doorKnown' = TRUE
    /\ UNCHANGED <<up, silenced, cache, log, pc, locals,
                   acted, excused, slipped, requests, crashes>>

\* Accepted, but not for the current state: a retransmitted request, an
\* answer to no ringing call, media, ...
WireIgnored ==
    /\ Receive
    /\ UNCHANGED <<call, nextSession, wire, answers, ends>>

\* Mutant: a session request starts a call even while one is up.
WireRequestAnyTime ==
    /\ Receive
    /\ nextSession <= MaxSessions
    /\ call' = StartCall(call, nextSession)
    /\ nextSession' = nextSession + 1
    /\ wire' = [pc |-> "publish", kind |-> "CallStarted", session |-> nextSession]
    /\ UNCHANGED <<answers, ends>>

\* Mutant: the event names the session before the new one.
WireRequestOldSession ==
    /\ Receive
    /\ call.phase = "Idle" /\ nextSession <= MaxSessions
    /\ call' = StartCall(call, nextSession)
    /\ nextSession' = nextSession + 1
    /\ wire' = [pc |-> "publish", kind |-> "CallStarted", session |-> call.session]
    /\ UNCHANGED <<answers, ends>>

\* on_call_started: a session request of the door while no call is up.
WireRequest ==
    /\ Receive
    /\ call.phase = "Idle" /\ nextSession <= MaxSessions
    /\ call' = StartCall(call, nextSession)
    /\ nextSession' = nextSession + 1
    /\ wire' = [pc |-> "publish", kind |-> "CallStarted", session |-> nextSession]
    /\ UNCHANGED <<answers, ends>>

\* on_pad_answer.  In pad mode there is no other Pad: wire_udp attributes
\* every message to the door.
WirePadAnswer ==
    /\ Receive /\ Tap
    /\ PadAnswerVerdict(call) = "Ok"
    /\ call' = PadAnswer(call)
    /\ answers' = [answers EXCEPT ![call.session] = @ + 1]
    /\ wire' = [pc |-> "publish", kind |-> "PadAnswered", session |-> call.session]
    /\ UNCHANGED <<nextSession, ends>>

\* on_pad_unlock: only observed, the physical Pad opens the door itself.
WirePadUnlock ==
    /\ Receive /\ Tap
    /\ call.owner = "Pad" /\ Len(log) < MaxEvents
    /\ wire' = [pc |-> "publish", kind |-> "Unlocked", session |-> call.session]
    /\ UNCHANGED <<call, nextSession, answers, ends>>

\* Mutant: a hangup is announced even when there is no call.
WireHangupAnnounced ==
    /\ Receive
    /\ call' = Hangup(call)
    /\ Len(log) < MaxEvents \/ call.phase # "Idle"
    /\ wire' = [pc |-> "restore", kind |-> "CallEnded", session |-> call.session]
    /\ ends' = IF call.phase = "Idle" THEN ends ELSE [ends EXCEPT ![call.session] = @ + 1]
    /\ UNCHANGED <<nextSession, answers>>

\* on_wire_hangup, of either side; without a call it still resets the machine.
WireHangup ==
    /\ Receive
    /\ call' = Hangup(call)
    /\ IF call.phase = "Idle"
         THEN UNCHANGED <<wire, ends>>
         ELSE /\ wire' = [pc |-> "restore", kind |-> "CallEnded", session |-> call.session]
              /\ ends' = [ends EXCEPT ![call.session] = @ + 1]
    /\ UNCHANGED <<nextSession, answers>>

\* Mutant: the hangup of the wire does not restore the Pad.
WireRestoreForgets ==
    /\ up /\ wire.pc = "restore"
    /\ wire' = [wire EXCEPT !.pc = "publish"]
    /\ UNCHANGED <<shared, pc, locals, history>>

\* on_call_end, after a hangup on the wire.
WireRestore ==
    /\ up /\ wire.pc = "restore"
    /\ wire' = [wire EXCEPT !.pc = "publish"]
    /\ SetSilence(FALSE)
    /\ slipped' = (slipped \/ RemoteOwns \/ silenced')
    /\ UNCHANGED <<up, call, nextSession, doorKnown, cache, log, pc, locals,
                   answers, ends, acted, excused, requests, crashes>>

WirePublish ==
    /\ up /\ wire.pc = "publish"
    /\ wire' = AtRest
    /\ log' = Append(log, Event(wire.kind, wire.session))
    /\ UNCHANGED <<up, call, nextSession, doorKnown, silenced, cache, pc, locals, history>>

--------------------------------------------------------------------------------
\* Time passes: the cooldown of the last accepted unlock is over.
CooldownElapses ==
    /\ up /\ call.cooling
    /\ call' = CooledDown(call)
    /\ UNCHANGED <<up, nextSession, doorKnown, silenced, cache, log, threads,
                   answers, ends, acted, excused, slipped, requests, crashes>>

(***************************************************************************)
(* The process ends, by a signal or a crash; no handler runs on the way    *)
(* out.  Only the kernel's table and what the door did survive.            *)
(***************************************************************************)
Crash ==
    /\ up /\ crashes < MaxCrashes
    /\ up' = FALSE
    /\ crashes' = crashes + 1
    /\ excused' = excused \cup {i \in CommandIds : acted[i] > 0}
    /\ call' = NewMachine
    /\ nextSession' = 1
    /\ cache' = EmptyCache
    /\ log' = <<>>
    /\ wire' = AtRest
    /\ pc' = [w \in Workers |-> "idle"]
    /\ action' = [w \in Workers |-> "Claim"]
    /\ id' = [w \in Workers |-> NoId]
    /\ seenDoor' = [w \in Workers |-> FALSE]
    /\ seenSession' = [w \in Workers |-> 0]
    /\ result' = [w \in Workers |-> "Ok"]
    /\ target' = [w \in Workers |-> 0]
    /\ answers' = [s \in Sessions |-> 0]
    /\ ends' = [s \in Sessions |-> 0]
    /\ UNCHANGED <<doorKnown, silenced, acted, slipped, requests>>

\* run_agent again: the peers are the configured or discovered ones, and
\* TapWire::open removes the residual table.
Restart ==
    /\ ~up
    /\ up' = TRUE
    /\ doorKnown' \in BOOLEAN
    /\ SetSilence(FALSE)
    /\ slipped' = silenced'
    /\ UNCHANGED <<call, nextSession, cache, log, threads,
                   answers, ends, acted, excused, requests, crashes>>

WorkerStep(w) ==
    \/ \E a \in Actions : \E i \in IdsOf(a) : Begin(w, a, i)
    \/ \E i \in CommandIds : Replay(w, i)
    \/ ReadPeers(w) \/ ReadSession(w)
    \/ Reject(w) \/ Claim(w) \/ UnlockDoor(w) \/ HangUp(w)
    \/ Send(w) \/ SendFails(w)
    \/ SilencePad(w) \/ RestorePad(w)
    \/ Publish(w) \/ StoreResult(w)

WireStep ==
    \/ WireIgnored \/ WireRequest \/ WirePadAnswer \/ WirePadUnlock \/ WireHangup
    \/ WireRestore \/ WirePublish

Next ==
    \/ \E w \in Workers : WorkerStep(w)
    \/ WireStep
    \/ CooldownElapses
    \/ Crash
    \/ Restart

Spec == Init /\ [][Next]_vars

--------------------------------------------------------------------------------
TypeOK ==
    /\ up \in BOOLEAN /\ doorKnown \in BOOLEAN /\ silenced \in BOOLEAN
    /\ call \in Machines
    /\ nextSession \in 1..(MaxSessions + 1)
    /\ cache.order \in Seq(CommandIds)
    /\ CachedIds(cache) \subseteq CommandIds
    /\ \A i \in CachedIds(cache) : cache.results[i] \in Verdicts
    /\ log \in Seq([kind : EventKinds, session : Nat])
    /\ wire \in [pc : WirePcs, kind : EventKinds, session : Nat]
    /\ pc \in [Workers -> WorkerPcs]
    /\ action \in [Workers -> Actions]
    /\ id \in [Workers -> CommandIds \cup {NoId}]
    /\ \A w \in Workers : pc[w] # "idle" => id[w] \in CommandIds
    /\ seenDoor \in [Workers -> BOOLEAN]
    /\ seenSession \in [Workers -> Nat]
    /\ result \in [Workers -> Verdicts]
    /\ target \in [Workers -> Nat]
    /\ answers \in [Sessions -> Nat] /\ ends \in [Sessions -> Nat]
    /\ acted \in [CommandIds -> Nat]
    /\ excused \subseteq CommandIds
    /\ slipped \in BOOLEAN
    /\ requests \in Nat /\ crashes \in Nat

(***************************************************************************)
(* First answer wins: however a claim and the Pad's answer interleave, a   *)
(* call is answered at most once, whoever is quicker (state.rs pad_answer, *)
(* remote_answer).                                                         *)
(***************************************************************************)
FirstAnswerWins == \A s \in Sessions : answers[s] <= 1

(***************************************************************************)
(* Calls do not overlap: a call ends once, whether the wire's hangup or a  *)
(* command's comes first, and the next one starts only after that          *)
(* (on_call_started, on_wire_hangup, execute).                             *)
(***************************************************************************)
CallsDoNotOverlap ==
    \A s \in Sessions :
        ends[s] = IF s < call.session \/ (s = call.session /\ call.phase = "Idle")
                    THEN 1 ELSE 0

(***************************************************************************)
(* A command id changes the call at most once, unless two requests with it *)
(* were in execute() at a time, its result was evicted, or the Agent has   *)
(* restarted since (execute, CommandCache).                                *)
(***************************************************************************)
AtMostOnce == \A i \in CommandIds \ excused : acted[i] <= 1

(***************************************************************************)
(* A stored result is the truth, up to the same exceptions: "Ok" means the *)
(* command acted, a rejection other than AgentOffline that it did not.     *)
(***************************************************************************)
ResultsAreTrue ==
    \A i \in CachedIds(cache) \ excused :
        /\ cache.results[i] = "Ok" => acted[i] = 1
        /\ cache.results[i] \notin {"Ok", "AgentOffline"} => acted[i] = 0

\* No handler is between its transition and its effect on the table.
EffectPending(w, a) == pc[w] \in {"send", "effect"} /\ action[w] = a
EffectsDone ==
    /\ wire.pc # "restore"
    /\ \A w \in Workers : ~EffectPending(w, "Claim") /\ ~EffectPending(w, "Hangup")

(***************************************************************************)
(* The physical Pad is silenced exactly while a remote client owns the     *)
(* call, unless an effect ran out of turn or failed (on_remote_claim,      *)
(* on_call_end).                                                           *)
(***************************************************************************)
SilenceTracksCall ==
    up /\ Tap /\ ~slipped /\ EffectsDone => (silenced <=> RemoteOwns)

(***************************************************************************)
(* The inductive strengthenings of the four invariants above, which        *)
(* AgentCallProofs proves.                                                 *)
(***************************************************************************)

\* Sessions are numbered in order, and only the current one is still open.
CallInv ==
    /\ call.session = nextSession - 1
    /\ call.session = 0 => call.phase = "Idle"
    /\ \A s \in Sessions :
          /\ answers[s] <= 1
          /\ s > call.session => answers[s] = 0
          /\ s = call.session /\ call.phase = "Ringing" => answers[s] = 0
    /\ CallsDoNotOverlap

\* Where worker w stands with a command id that is not excused: it acts at
\* its lock step, and not before.
Progress(i, w) ==
    /\ pc[w] \in {"peers", "session", "lock"} => acted[i] = 0
    /\ pc[w] \in {"send", "effect", "publish"} => acted[i] = 1 /\ result[w] = "Ok"
    /\ pc[w] = "store" => /\ result[w] = "Ok" => acted[i] = 1
                          /\ result[w] \notin {"Ok", "AgentOffline"} => acted[i] = 0

CachedTruth(i) ==
    i \in CachedIds(cache) =>
        /\ cache.results[i] = "Ok" => acted[i] = 1
        /\ cache.results[i] \notin {"Ok", "AgentOffline"} => acted[i] = 0

\* One worker at most runs it, and while one does it is not cached; once it
\* has acted, one of the two is the case.
Once(i) ==
    /\ acted[i] <= 1
    /\ acted[i] = 1 => i \in CachedIds(cache) \/ \E w \in Workers : Executing(w, i)
    /\ \A v, w \in Workers : Executing(v, i) /\ Executing(w, i) => v = w
    /\ \A w \in Workers : Executing(w, i) => i \notin CachedIds(cache) /\ Progress(i, w)
    /\ CachedTruth(i)

OnceInv == \A i \in CommandIds \ excused : Once(i)

\* A table installed without a remote owner is about to be removed, and a
\* remote owner without a table is about to install it.
SilenceInv ==
    /\ ~up => call.phase = "Idle"
    /\ up /\ Tap /\ ~slipped =>
         /\ silenced => \/ RemoteOwns
                        \/ wire.pc = "restore"
                        \/ \E w \in Workers : EffectPending(w, "Hangup")
         /\ RemoteOwns => \/ silenced
                          \/ \E w \in Workers : EffectPending(w, "Claim")

EventCount(kind) == Cardinality({n \in DOMAIN log : log[n].kind = kind})

\* Every handler has run to its end.
Quiet == wire.pc = "recv" /\ \A w \in Workers : pc[w] = "idle"

(***************************************************************************)
(* Once the handlers are done, and if no packet was lost on the way out,   *)
(* the feed accounts for every call: as many starts, answers and ends as   *)
(* calls started, were answered and ended, whatever raced with what        *)
(* (the four handlers that change the call, and their events.push).        *)
(***************************************************************************)
EventsAccountForCalls ==
    up /\ Quiet /\ "send" \notin Faults =>
        /\ EventCount("CallStarted") = nextSession - 1
        /\ EventCount("PadAnswered") + EventCount("RemoteAnswered")
              = Cardinality({s \in Sessions : answers[s] > 0})
        /\ EventCount("CallEnded") = Cardinality({s \in Sessions : ends[s] > 0})

(***************************************************************************)
(* The wire task's own events tell one story: calls start in the order of  *)
(* their sessions, and the Pad's answer follows the start of its call      *)
(* (on_call_started, on_pad_answer on one task).                           *)
(***************************************************************************)
CallsAreAnnounced ==
    \A n \in DOMAIN log :
        /\ log[n].kind = "CallStarted" =>
              log[n].session = Cardinality({m \in 1..n : log[m].kind = "CallStarted"})
        /\ log[n].kind = "PadAnswered" =>
              \E m \in 1..(n - 1) : log[m] = Event("CallStarted", log[n].session)

--------------------------------------------------------------------------------
\* How far a call is, to who only sees the machine.
LifeOf(s) ==
    IF s > call.session THEN "unborn"
    ELSE IF s < call.session \/ call.phase = "Idle" THEN "over"
    ELSE IF call.phase = "Ringing" THEN "ringing"
    ELSE call.owner

(***************************************************************************)
(* The calls run as CallSpec says, whatever the threads and the wire do:   *)
(* each rings when those before it are over, the first answer is the only  *)
(* one and decides whose call it is until the end, and the end is one of   *)
(* the call that is up (on_call_started, on_pad_answer, on_wire_hangup,    *)
(* execute, over the methods of CallMachine).                              *)
(***************************************************************************)
Lives == INSTANCE CallSpec WITH Numbers <- Sessions,
                                life <- [s \in Sessions |-> LifeOf(s)]

CallImplemented == Lives!Spec

--------------------------------------------------------------------------------
(* What the documents promise and the code does not keep.                   *)

\* docs/PENGUIN0.md: one command id executes only once; openapi.yaml: a
\* retried request can never unlock twice.
NeverActsTwice == \A i \in CommandIds : acted[i] <= 1
================================================================================
