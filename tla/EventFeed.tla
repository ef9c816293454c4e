------------------------------- MODULE EventFeed -------------------------------
(***************************************************************************)
(* The event feed: EventLog of agent_api.rs, and events_stream of          *)
(* agent_server.rs, which serves it as Server-Sent Events.                 *)
(*                                                                         *)
(* push() numbers an event and puts it in the ring under the log's mutex,  *)
(* and broadcasts it after the mutex is released: two threads that push    *)
(* may broadcast in the other order.  A stream subscribes to the broadcast *)
(* first and reads the ring afterwards.                                    *)
(*                                                                         *)
(* An event is its seq.  The client keeps the id of the last SSE message   *)
(* it received and sends it as Last-Event-ID when it connects again; a     *)
(* snapshot has id 0.  A snapshot is the Agent's state, and so tells of    *)
(* every call event recorded before it is taken.                           *)
(***************************************************************************)
EXTENDS Naturals, Sequences, FiniteSets, SequencesExt

CONSTANTS
    Pushers,       \* threads that push events
    Clients,       \* readers of the feed
    Capacity,      \* events the ring keeps (256 in the code)
    LiveCapacity,  \* events the broadcast channel keeps (64 in the code)
    MaxEvents,     \* bound: events pushed in one run of the process
    MaxConnects,   \* bound: connections a client makes
    MaxRestarts    \* bound: restarts of the process

ASSUME CapacityAssumption == Capacity \in Nat \ {0} /\ LiveCapacity \in Nat \ {0}
ASSUME BoundsAssumption ==
    MaxEvents \in Nat /\ MaxConnects \in Nat \ {0} /\ MaxRestarts \in Nat

VARIABLES
    nextSeq,   \* LogInner.next_seq
    ring,      \* LogInner.events, oldest first
    live,      \* everything sent on the broadcast channel, in order
    holds,     \* the event a pusher has recorded and not broadcast; 0: none
    conn,      \* where each client's connection is in events_stream
    cursor,    \* how much of live the connection has received or skipped
    lastId     \* the id of the client's last message; 0: a snapshot's, or none

\* History variables.
VARIABLES
    known,     \* the events of this run of the process the client was told of
    base,      \* the Last-Event-ID the current connection began with
    connects,  \* connections so far
    restarts   \* restarts so far

log     == <<nextSeq, ring, live, holds>>
streams == <<conn, cursor, lastId, known, base, connects>>
vars    == <<log, streams, restarts>>

Recorded == 1..(nextSeq - 1)

--------------------------------------------------------------------------------
Init ==
    /\ nextSeq = 1 /\ ring = <<>> /\ live = <<>>
    /\ holds = [p \in Pushers |-> 0]
    /\ conn = [c \in Clients |-> "off"]
    /\ cursor = [c \in Clients |-> 0]
    /\ lastId = [c \in Clients |-> 0]
    /\ known = [c \in Clients |-> {}]
    /\ base = [c \in Clients |-> 0]
    /\ connects = [c \in Clients |-> 0]
    /\ restarts = 0

\* Mutant: the full ring drops the newest event instead of the oldest.
KeepOldest(s) == IF Len(s) = Capacity THEN Append(Front(s), nextSeq) ELSE Append(s, nextSeq)

\* pop_front when the ring is full, then push_back.
Appended(s) == Append(IF Len(s) = Capacity THEN Tail(s) ELSE s, nextSeq)

\* push, its critical section.
Record(p) ==
    /\ holds[p] = 0 /\ nextSeq <= MaxEvents
    /\ holds' = [holds EXCEPT ![p] = nextSeq]
    /\ ring' = Appended(ring)
    /\ nextSeq' = nextSeq + 1
    /\ UNCHANGED <<live, streams, restarts>>

\* push, live.send after the section.
Broadcast(p) ==
    /\ holds[p] # 0
    /\ live' = Append(live, holds[p])
    /\ holds' = [holds EXCEPT ![p] = 0]
    /\ UNCHANGED <<nextSeq, ring, streams, restarts>>

\* Mutant: the oldest event of the ring is taken for one already seen.
RecentOffByOne(after) ==
    IF after + 1 >= nextSeq THEN {}
    ELSE IF ring # <<>> /\ after + 2 >= Head(ring) THEN {s \in Range(ring) : s > after}
    ELSE {0}

\* recent(after): NoReplay (None) when there is a gap the ring cannot fill.
NoReplay == {0}
Recent(after) ==
    IF after + 1 >= nextSeq THEN {}
    ELSE IF ring # <<>> /\ after + 1 >= Head(ring) THEN {s \in Range(ring) : s > after}
    ELSE NoReplay

--------------------------------------------------------------------------------
\* The first thing a stream does is subscribe.
Connect(c) ==
    /\ conn[c] = "off" /\ connects[c] < MaxConnects
    /\ conn' = [conn EXCEPT ![c] = "subscribed"]
    /\ cursor' = [cursor EXCEPT ![c] = Len(live)]
    /\ base' = [base EXCEPT ![c] = lastId[c]]
    /\ connects' = [connects EXCEPT ![c] = @ + 1]
    /\ UNCHANGED <<log, lastId, known, restarts>>

\* The client is told of the events in told, and its last message has id last.
Tell(c, told, last) ==
    /\ known' = [known EXCEPT ![c] = @ \cup told]
    /\ lastId' = [lastId EXCEPT ![c] = last]

\* A snapshot: its id is 0, and it tells of all that was recorded so far.
Snapshot(c) == Tell(c, Recorded, 0)

\* The first chunk: a snapshot for a client that sends no Last-Event-ID, or
\* one the ring has lost; otherwise the events it missed, and when there are
\* none a comment line.
Replay(c) ==
    /\ conn[c] = "subscribed"
    /\ conn' = [conn EXCEPT ![c] = "live"]
    /\ \/ Snapshot(c)
       \/ LET missed == Recent(lastId[c])
          IN  IF missed = NoReplay THEN Snapshot(c)
              ELSE Tell(c, missed, IF missed = {} THEN lastId[c] ELSE nextSeq - 1)
    /\ UNCHANGED <<log, cursor, base, connects, restarts>>

Lagging(c) == Len(live) - cursor[c] > LiveCapacity

\* live.recv() gives the next event.
Deliver(c) ==
    /\ conn[c] = "live" /\ cursor[c] < Len(live) /\ ~Lagging(c)
    /\ cursor' = [cursor EXCEPT ![c] = @ + 1]
    /\ LET event == live[cursor[c] + 1] IN Tell(c, {event}, event)
    /\ UNCHANGED <<log, conn, base, connects, restarts>>

\* Mutant: a receiver that lagged goes on with the oldest event it can have.
LagUnnoticed(c) ==
    /\ conn[c] = "live" /\ Lagging(c)
    /\ cursor' = [cursor EXCEPT ![c] = Len(live) - LiveCapacity]
    /\ UNCHANGED <<log, conn, lastId, known, base, connects, restarts>>

\* live.recv() gives Lagged, and goes on with the oldest event it still has:
\* the client gets a snapshot.
Lag(c) ==
    /\ conn[c] = "live" /\ Lagging(c)
    /\ cursor' = [cursor EXCEPT ![c] = Len(live) - LiveCapacity]
    /\ Snapshot(c)
    /\ UNCHANGED <<log, conn, base, connects, restarts>>

\* The stream's lifetime is over, the client goes away, or a write fails.
Disconnect(c) ==
    /\ conn[c] # "off" /\ connects[c] < MaxConnects
    /\ conn' = [conn EXCEPT ![c] = "off"]
    /\ UNCHANGED <<log, cursor, lastId, known, base, connects, restarts>>

\* The process dies and a new one starts: the log is empty, the numbers
\* begin again, and clients still have their Last-Event-ID.
Restart ==
    /\ restarts < MaxRestarts
    /\ restarts' = restarts + 1
    /\ nextSeq' = 1 /\ ring' = <<>> /\ live' = <<>>
    /\ holds' = [p \in Pushers |-> 0]
    /\ conn' = [c \in Clients |-> "off"]
    /\ cursor' = [c \in Clients |-> 0]
    /\ known' = [c \in Clients |-> {}]
    /\ UNCHANGED <<lastId, base>>
    /\ connects' = [c \in Clients |-> 0]

ClientStep(c) == Connect(c) \/ Replay(c) \/ Deliver(c) \/ Lag(c)

Next ==
    \/ \E p \in Pushers : Record(p) \/ Broadcast(p)
    \/ \E c \in Clients : ClientStep(c) \/ Disconnect(c)
    \/ Restart

Spec == Init /\ [][Next]_vars

\* A pusher's thread goes on after the section; a client connects again
\* (EventSource does), and its stream's task is scheduled.
FairSpec ==
    /\ Spec
    /\ \A p \in Pushers : WF_vars(Broadcast(p))
    /\ \A c \in Clients : WF_vars(ClientStep(c))

--------------------------------------------------------------------------------
Conns == {"off", "subscribed", "live"}

TypeOK ==
    /\ nextSeq \in 1..(MaxEvents + 1)
    /\ ring \in Seq(Nat) /\ live \in Seq(Nat)
    /\ holds \in [Pushers -> Nat]
    /\ conn \in [Clients -> Conns]
    /\ cursor \in [Clients -> Nat]
    /\ lastId \in [Clients -> Nat]
    /\ known \in [Clients -> SUBSET Nat]
    /\ base \in [Clients -> Nat]
    /\ connects \in [Clients -> Nat] /\ restarts \in Nat

(***************************************************************************)
(* The ring is the last Capacity events, without a gap, whichever threads  *)
(* pushed them (push).                                                     *)
(***************************************************************************)
RingIsRecent ==
    /\ Len(ring) <= Capacity
    /\ Len(ring) = Capacity \/ Len(ring) = nextSeq - 1
    /\ \A i \in DOMAIN ring : ring[i] = nextSeq - 1 - Len(ring) + i

(***************************************************************************)
(* "Subscribe before replaying so nothing slips between the two"           *)
(* (events_stream): an event later than the stream's Last-Event-ID is      *)
(* known to the client, still ahead of it on the channel, or about to be   *)
(* broadcast - in whatever order events were broadcast, and however far    *)
(* the stream fell behind.                                                 *)
(***************************************************************************)
Ahead(c) == {live[i] : i \in (cursor[c] + 1)..Len(live)}
InFlight == {holds[p] : p \in Pushers}

NothingSlips ==
    \A c \in Clients : conn[c] = "live" =>
        \A s \in Recorded :
            s > base[c] => s \in known[c] \cup Ahead(c) \cup InFlight

(***************************************************************************)
(* With one pusher and no restart the feed keeps the promise of FeedSpec:  *)
(* what a client knows is at every moment a prefix of what happened, and   *)
(* in the end all of it (push, recent, events_stream).                     *)
(***************************************************************************)
Feed == INSTANCE FeedSpec WITH happened <- nextSeq - 1

FeedImplemented == Feed!Spec
================================================================================
