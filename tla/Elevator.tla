-------------------------------- MODULE Elevator -------------------------------
(***************************************************************************)
(* Calling the elevator (call_elevator_now in agent.rs), together with the *)
(* discovery service and the command cache it uses.                        *)
(*                                                                         *)
(* A request looks its command id up, finds the door, by discovery when    *)
(* one is configured and else the one learned from a call, leaves a        *)
(* waiter for the door's acknowledgement, sends the call and waits with a  *)
(* timeout.  The acknowledgement arrives on the wire and names no call:    *)
(* on_wire completes every waiter there is.                                *)
(*                                                                         *)
(* The camera list, monitors and dials look stations up through the same   *)
(* service: Lookers.  The other commands' use of the cache is AgentCall's. *)
(***************************************************************************)
EXTENDS Discovery, CommandCache

CONSTANTS
    Requests,     \* threads that serve POST /v1/elevator
    Lookers,      \* ... and threads that look stations up for other purposes
    ElevatorIds,  \* command ids of elevator calls
    Door,         \* the station id of the elevator door
    Capacity,     \* results the command cache holds
    MaxRequests   \* bound: elevator requests

ASSUME RequestsAssumption ==
    /\ Seekers = Requests \cup Lookers /\ Door \in Stations
    /\ Capacity \in Nat /\ MaxRequests \in Nat

Calls == 1..MaxRequests
Verdicts == {"Ok", "NoCall", "AgentOffline"}
NoId == "none"

VARIABLES
    door,        \* "configured": elevator_door is Some(Door); otherwise whether
                 \* peers.door is "unknown" or "learned", with its address
    cache,       \* CommandCache
    waiters,     \* Agent.elevator_acks: the calls whose sender is in it
    acked,       \* calls under way whose channel holds the acknowledgement
    pc,          \* where each request is in call_elevator_now
    id,          \* its command id,
    call,        \* its number
    result,      \* and the CommandResult it will store
    requests     \* requests so far

\* History variables.
VARIABLES
    sent,        \* elevator calls sent for each command id
    heard,       \* calls under way during whose wait an acknowledgement arrived
    excused      \* ids that raced or were evicted

local == <<pc, id, call, result>>
vars  == <<discovery, door, cache, waiters, acked, local,
           requests, sent, heard, excused>>

TypeOK ==
    /\ DiscoveryTypeOK
    /\ door \in {"configured", "unknown", "learned"}
    /\ CachedIds(cache) \subseteq ElevatorIds
    /\ \A i \in CachedIds(cache) : cache.results[i] \in Verdicts
    /\ cache.order \in Seq(ElevatorIds)
    /\ waiters \in SUBSET Calls /\ acked \in SUBSET Calls
    /\ pc \in [Requests -> {"idle", "door", "resolve", "listen", "send", "wait", "store"}]
    /\ id \in [Requests -> ElevatorIds \cup {NoId}]
    /\ call \in [Requests -> 0..MaxRequests]
    /\ result \in [Requests -> Verdicts]
    /\ requests \in 0..MaxRequests
    /\ sent \in [ElevatorIds -> Nat]
    /\ heard \in SUBSET Calls
    /\ excused \in SUBSET ElevatorIds

Init ==
    /\ DiscoveryInit
    /\ door \in {"configured", "unknown"}
    /\ cache = EmptyCache
    /\ waiters = {} /\ acked = {}
    /\ pc = [r \in Requests |-> "idle"]
    /\ id = [r \in Requests |-> NoId]
    /\ call = [r \in Requests |-> 0]
    /\ result = [r \in Requests |-> "Ok"]
    /\ requests = 0
    /\ sent = [i \in ElevatorIds |-> 0]
    /\ heard = {} /\ excused = {}

Goto(r, from, to) == pc[r] = from /\ pc' = [pc EXCEPT ![r] = to]

Conclude(r, from, verdict) ==
    /\ Goto(r, from, "store")
    /\ result' = [result EXCEPT ![r] = verdict]
    /\ UNCHANGED <<id, call>>

--------------------------------------------------------------------------------
(***************************************************************************)
(* call_elevator_now.                                                      *)
(***************************************************************************)

\* commands.get() answers a cached id.
Replay(r, i) ==
    /\ pc[r] = "idle" /\ requests < MaxRequests
    /\ i \in CachedIds(cache)
    /\ requests' = requests + 1
    /\ UNCHANGED <<discovery, door, cache, waiters, acked, local,
                   sent, heard, excused>>

\* Mutant: the cache is not asked.
BeginUnasked(r, i) ==
    /\ Goto(r, "idle", "door")
    /\ requests < MaxRequests
    /\ requests' = requests + 1
    /\ id' = [id EXCEPT ![r] = i]
    /\ call' = [call EXCEPT ![r] = requests']
    /\ excused' = IF \E q \in Requests : id[q] = i THEN excused \cup {i} ELSE excused
    /\ UNCHANGED <<discovery, door, cache, waiters, acked, result,
                   sent, heard>>

Begin(r, i) ==
    /\ Goto(r, "idle", "door")
    /\ requests < MaxRequests
    /\ i \notin CachedIds(cache)
    /\ requests' = requests + 1
    /\ id' = [id EXCEPT ![r] = i]
    /\ call' = [call EXCEPT ![r] = requests']
    /\ excused' = IF \E q \in Requests : id[q] = i THEN excused \cup {i} ELSE excused
    /\ UNCHANGED <<discovery, door, cache, waiters, acked, result,
                   sent, heard>>

ResolveDoor(r) ==
    /\ door = "configured"
    /\ Goto(r, "door", "resolve")
    /\ Register(r, Door)
    /\ UNCHANGED <<door, cache, waiters, acked, id, call, result,
                   requests, sent, heard, excused>>

DoorResolved(r) ==
    /\ Goto(r, "resolve", "listen")
    /\ stage[r] = "idle" /\ ended[mine[r]] = "found"
    /\ UNCHANGED <<discovery, door, cache, waiters, acked, id, call,
                   result, requests, sent, heard, excused>>

UseLearnedDoor(r) ==
    /\ door = "learned"
    /\ Goto(r, "door", "listen")
    /\ UNCHANGED <<discovery, door, cache, waiters, acked, id, call,
                   result, requests, sent, heard, excused>>

\* Neither way led to an address.
NoDoor(r) ==
    /\ \/ pc[r] = "door" /\ door = "unknown"
       \/ pc[r] = "resolve" /\ stage[r] = "idle" /\ ended[mine[r]] # "found"
    /\ Conclude(r, pc[r], "NoCall")
    /\ UNCHANGED <<discovery, door, cache, waiters, acked,
                   requests, sent, heard, excused>>

Listen(r) ==
    /\ Goto(r, "listen", "send")
    /\ waiters' = waiters \cup {call[r]}
    /\ UNCHANGED <<discovery, door, cache, acked, id, call, result,
                   requests, sent, heard, excused>>

\* send_elevator() succeeds ...
CallCar(r) ==
    /\ Goto(r, "send", "wait")
    /\ sent' = [sent EXCEPT ![id[r]] = @ + 1]
    /\ UNCHANGED <<discovery, door, cache, waiters, acked, id, call,
                   result, requests, heard, excused>>

\* ... or fails, and the waiter stays.
CallFails(r) ==
    /\ "call" \in Faults
    /\ Conclude(r, "send", "AgentOffline")
    /\ UNCHANGED <<discovery, door, cache, waiters, acked,
                   requests, sent, heard, excused>>

Acknowledged(r) ==
    /\ Conclude(r, "wait", "Ok")
    /\ call[r] \in acked
    /\ UNCHANGED <<discovery, door, cache, waiters, acked,
                   requests, sent, heard, excused>>

\* discover_timeout passes without an acknowledgement; the waiter stays.
Unanswered(r) ==
    /\ call[r] \notin acked
    /\ Conclude(r, "wait", "AgentOffline")
    /\ UNCHANGED <<discovery, door, cache, waiters, acked,
                   requests, sent, heard, excused>>

StoreResult(r) ==
    /\ Goto(r, "store", "idle")
    /\ cache' = Store(cache, Capacity, id[r], result[r])
    /\ id' = [id EXCEPT ![r] = NoId]
    /\ call' = [call EXCEPT ![r] = 0]
    /\ result' = [result EXCEPT ![r] = "Ok"]
    /\ excused' = excused \cup (Evicted(cache, Capacity) \ {id[r]})
    /\ acked' = acked \ {call[r]} /\ heard' = heard \ {call[r]}
    /\ UNCHANGED <<discovery, door, waiters, requests, sent>>

Request(r) ==
    \/ \E i \in ElevatorIds : Replay(r, i) \/ Begin(r, i)
    \/ ResolveDoor(r) \/ DoorResolved(r) \/ UseLearnedDoor(r) \/ NoDoor(r)
    \/ Listen(r) \/ CallCar(r) \/ CallFails(r)
    \/ Acknowledged(r) \/ Unanswered(r) \/ StoreResult(r)

--------------------------------------------------------------------------------
(***************************************************************************)
(* The wire, and everybody else.                                           *)
(***************************************************************************)

\* The calls that wait for an acknowledgement just now.
Waiting == {call[r] : r \in {q \in Requests : pc[q] = "wait"}}

\* The calls whose receiver is still there.
Listening == {call[r] : r \in {q \in Requests : pc[q] \in {"send", "wait"}}}

\* Mutant: an acknowledgement completes the oldest waiter only.
DoorAcksOne ==
    /\ \E k \in waiters :
          /\ \A m \in waiters : k <= m
          /\ waiters' = waiters \ {k} /\ acked' = acked \cup ({k} \cap Listening)
    /\ heard' = heard \cup Waiting
    /\ UNCHANGED <<discovery, door, cache, local, requests, sent, excused>>

\* on_wire: an acknowledgement, of whatever call of whatever Pad; there may be
\* nobody who waits for it.
DoorAcks ==
    /\ waiters' = {} /\ acked' = acked \cup (waiters \cap Listening)
    /\ heard' = heard \cup Waiting
    /\ UNCHANGED <<discovery, door, cache, local, requests, sent, excused>>

\* accept_endpoints learns the door from a call.
LearnDoor ==
    /\ door = "unknown" /\ door' = "learned"
    /\ UNCHANGED <<discovery, cache, waiters, acked, local, requests,
                   sent, heard, excused>>

\* list_cameras, start_monitor_now and dial_now.
LookElsewhere ==
    /\ \E s \in Lookers, st \in Stations : Register(s, st)
    /\ UNCHANGED <<door, cache, waiters, acked, local, requests,
                   sent, heard, excused>>

Discover ==
    /\ Serve \/ \E s \in Seekers : Lookup(s)
    /\ UNCHANGED <<door, cache, waiters, acked, local, requests,
                   sent, heard, excused>>

Next == (\E r \in Requests : Request(r)) \/ DoorAcks \/ LearnDoor \/ LookElsewhere \/ Discover

Spec == Init /\ [][Next]_vars

--------------------------------------------------------------------------------
(***************************************************************************)
(* One command id calls the car once, unless two requests with it overlap  *)
(* or the cache has forgotten it (openapi.yaml: idempotent by command_id;  *)
(* call_elevator_now, CommandCache).                                       *)
(***************************************************************************)
CalledOnce == \A i \in ElevatorIds \ excused : sent[i] <= 1

(***************************************************************************)
(* The door's acknowledgement reaches every request that waits when it     *)
(* comes: none of them goes on to report the Agent offline (the waiter is  *)
(* in the list before the call is sent, and on_wire drains the list).      *)
(***************************************************************************)
NoAckIsMissed ==
    \A r \in Requests : pc[r] = "store" /\ call[r] \in heard => result[r] = "Ok"
================================================================================
