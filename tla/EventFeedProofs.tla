---------------------------- MODULE EventFeedProofs ----------------------------
(***************************************************************************)
(* Theorems about EventFeed, for any number of pushers, clients, events,   *)
(* connections and restarts, and any capacity of the ring and the channel; *)
(* and, for one pusher and a process that does not restart, that every     *)
(* step of the feed is one that FeedSpec allows.                           *)
(***************************************************************************)
EXTENDS EventFeed, SequenceTheorems, TLAPS

--------------------------------------------------------------------------------
(***************************************************************************)
(* What the feed keeps to.  A connection has received or skipped part of   *)
(* what was broadcast; between its subscription and its replay the client  *)
(* has the Last-Event-ID it came with.                                     *)
(***************************************************************************)
StreamsOK ==
    /\ \A c \in Clients : cursor[c] <= Len(live)
    /\ \A c \in Clients : conn[c] = "subscribed" => base[c] = lastId[c]

FeedInv == TypeOK /\ RingIsRecent /\ StreamsOK /\ NothingSlips

--------------------------------------------------------------------------------
(***************************************************************************)
(* The ring after one more event: the oldest has gone if it was full       *)
(* (push).                                                                 *)
(***************************************************************************)
LEMMA AppendedIsRecent ==
  ASSUME TypeOK, RingIsRecent
  PROVE  LET r == Appended(ring)
         IN  /\ r \in Seq(Nat) /\ Len(r) <= Capacity
             /\ Len(r) = Capacity \/ Len(r) = nextSeq
             /\ \A i \in DOMAIN r : r[i] = nextSeq - Len(r) + i
<1> DEFINE kept == IF Len(ring) = Capacity THEN Tail(ring) ELSE ring
           r == Appended(ring)
<1>1. ring \in Seq(Nat) /\ Len(ring) \in Nat /\ nextSeq \in Nat
      /\ Capacity \in Nat \ {0} /\ DOMAIN ring = 1..Len(ring)
  BY CapacityAssumption, BoundsAssumption DEF TypeOK
<1>2. /\ kept \in Seq(Nat) /\ Len(kept) < Capacity
      /\ Len(kept) + 1 = Capacity \/ Len(kept) + 1 = nextSeq
      /\ \A i \in 1..Len(kept) : kept[i] = nextSeq - 1 - Len(kept) + i
  <2>1. CASE Len(ring) = Capacity
    <3>1. ring # <<>>
      BY <1>1, <2>1
    <3>2. kept = Tail(ring)
      BY <2>1
    <3>3. /\ Tail(ring) \in Seq(Nat) /\ Len(Tail(ring)) = Len(ring) - 1
          /\ \A i \in 1..Len(Tail(ring)) : Tail(ring)[i] = ring[i + 1]
      BY <1>1, <3>1, HeadTailProperties
    <3> HIDE DEF kept
    <3> QED
      <4>1. /\ kept \in Seq(Nat) /\ Len(kept) = Len(ring) - 1
            /\ \A i \in 1..Len(kept) : kept[i] = ring[i + 1]
        BY <3>2, <3>3
      <4>2. \A i \in 1..Len(ring) : ring[i] = nextSeq - 1 - Len(ring) + i
        BY <1>1 DEF RingIsRecent
      <4>3. \A i \in 1..Len(kept) : i + 1 \in 1..Len(ring)
        BY <1>1, <2>1, <4>1
      <4> QED
        BY <1>1, <2>1, <4>1, <4>2, <4>3
  <2>2. CASE Len(ring) # Capacity
    <3>1. kept = ring
      BY <2>2
    <3> HIDE DEF kept
    <3>2. Len(ring) < Capacity /\ Len(ring) + 1 = nextSeq
      <4>1. /\ Len(ring) <= Capacity
            /\ Len(ring) = Capacity \/ Len(ring) = nextSeq - 1
        BY DEF RingIsRecent
      <4>2. Len(ring) \in Nat /\ Capacity \in Nat /\ nextSeq \in Nat
        BY <1>1
      <4> QED
        BY <2>2, <4>1, <4>2
    <3>3. \A i \in 1..Len(ring) : ring[i] = nextSeq - 1 - Len(ring) + i
      BY <1>1 DEF RingIsRecent
    <3> QED
      BY <1>1, <3>1, <3>2, <3>3
  <2> QED
    BY <2>1, <2>2
<1>3. r = Append(kept, nextSeq)
  BY DEF Appended
<1> HIDE DEF kept, r
<1>4. /\ r \in Seq(Nat) /\ Len(r) = Len(kept) + 1
      /\ r[Len(kept) + 1] = nextSeq
      /\ \A i \in 1..Len(kept) : r[i] = kept[i]
  BY <1>1, <1>2, <1>3, AppendProperties
<1>5. DOMAIN r = 1..Len(r)
  BY <1>4, LenProperties
<1>6. /\ Len(r) <= Capacity
      /\ Len(r) = Capacity \/ Len(r) = nextSeq
  <2>1. Len(kept) \in Nat
    BY <1>2
  <2> QED
    BY <1>1, <1>2, <1>4, <2>1
<1>7. ASSUME NEW i \in DOMAIN r
      PROVE  r[i] = nextSeq - Len(r) + i
  <2>1. Len(kept) \in Nat /\ i \in 1..(Len(kept) + 1)
    BY <1>2, <1>4, <1>5
  <2>2. CASE i = Len(kept) + 1
    BY <1>1, <1>4, <2>1, <2>2
  <2>3. CASE i \in 1..Len(kept)
    <3>1. r[i] = nextSeq - 1 - Len(kept) + i
      BY <1>2, <1>4, <2>3
    <3> QED
      BY <1>1, <1>4, <2>1, <3>1
  <2> QED
    BY <2>1, <2>2, <2>3
<1> QED
  BY <1>4, <1>6, <1>7 DEF r

(***************************************************************************)
(* recent(after) leaves out nothing later than after, unless it says that  *)
(* it cannot tell.                                                         *)
(***************************************************************************)
LEMMA RecentIsComplete ==
  ASSUME TypeOK, RingIsRecent, NEW after \in Nat
  PROVE  /\ Recent(after) \subseteq Nat
         /\ Recent(after) # NoReplay =>
              Recent(after) = {s \in Recorded : s > after}
<1>1. ring \in Seq(Nat) /\ Len(ring) \in Nat /\ nextSeq \in Nat \ {0}
      /\ DOMAIN ring = 1..Len(ring)
  BY BoundsAssumption DEF TypeOK
<1>2. Range(ring) = {ring[i] : i \in 1..Len(ring)}
  BY <1>1 DEF Range
<1>3. CASE after + 1 >= nextSeq
  <2>1. Recent(after) = {}
    BY <1>3 DEF Recent
  <2> QED
    BY <1>1, <1>3, <2>1 DEF Recorded
<1>4. CASE after + 1 < nextSeq /\ ring # <<>> /\ after + 1 >= Head(ring)
  <2>1. Recent(after) = {s \in Range(ring) : s > after}
    BY <1>1, <1>4 DEF Recent
  <2>2. Head(ring) = ring[1] /\ Len(ring) >= 1
    BY <1>1, <1>4
  <2>3. \A i \in 1..Len(ring) : ring[i] = nextSeq - 1 - Len(ring) + i
    BY <1>1 DEF RingIsRecent
  <2>4. ASSUME NEW s \in Range(ring), s > after
        PROVE  s \in Recorded
    BY <1>1, <1>2, <2>3, <2>4 DEF Recorded
  <2>5. ASSUME NEW s \in Recorded, s > after
        PROVE  s \in Range(ring)
    <3>1. s \in Nat /\ s >= ring[1] /\ s <= nextSeq - 1
      BY <1>1, <1>4, <2>2, <2>3, <2>5 DEF Recorded
    <3> DEFINE i == s - (nextSeq - 1 - Len(ring))
    <3>2. i \in 1..Len(ring) /\ nextSeq - 1 - Len(ring) + i = s
      BY <1>1, <2>2, <2>3, <3>1
    <3>3. ring[i] = s
      BY <2>3, <3>2
    <3> QED
      BY <1>2, <3>2, <3>3
  <2> QED
    BY <1>1, <2>1, <2>4, <2>5 DEF Recorded
<1>5. CASE after + 1 < nextSeq /\ ~(ring # <<>> /\ after + 1 >= Head(ring))
  <2>1. ~(after + 1 >= nextSeq)
    BY <1>1, <1>5
  <2>2. Recent(after) = NoReplay
    BY <1>5, <2>1 DEF Recent
  <2> QED
    BY <2>2 DEF NoReplay
<1> QED
  BY <1>1, <1>3, <1>4, <1>5

--------------------------------------------------------------------------------
(***************************************************************************)
(* Each step keeps FeedInv.  An event that is recorded is in flight: its   *)
(* pusher holds it (push, its critical section).                           *)
(***************************************************************************)
LEMMA RecordStep ==
  ASSUME FeedInv, NEW p \in Pushers, Record(p)
  PROVE  FeedInv'
<1> USE DEF FeedInv
<1>1. nextSeq \in Nat /\ nextSeq' = nextSeq + 1 /\ nextSeq' \in 1..(MaxEvents + 1)
  BY BoundsAssumption DEF TypeOK, Record
<1>2. /\ ring' \in Seq(Nat) /\ Len(ring') <= Capacity
      /\ Len(ring') = Capacity \/ Len(ring') = nextSeq
      /\ \A i \in DOMAIN ring' : ring'[i] = nextSeq - Len(ring') + i
  BY AppendedIsRecent DEF Record
<1>3. /\ holds' \in [Pushers -> Nat] /\ holds'[p] = nextSeq
      /\ \A q \in Pushers : holds[q] # 0 => holds'[q] = holds[q]
  BY <1>1 DEF TypeOK, Record
<1>4. UNCHANGED <<live, conn, cursor, lastId, known, base, connects, restarts>>
  BY DEF Record, streams
<1>5. TypeOK'
  BY <1>1, <1>2, <1>3, <1>4 DEF TypeOK
<1>6. RingIsRecent'
  <2>1. \A i \in DOMAIN ring' : ring'[i] = nextSeq' - 1 - Len(ring') + i
    BY <1>1, <1>2
  <2> QED
    BY <1>1, <1>2, <2>1 DEF RingIsRecent
<1>7. StreamsOK'
  BY <1>4 DEF StreamsOK
<1>8. NothingSlips'
  <2> SUFFICES ASSUME NEW c \in Clients, conn'[c] = "live",
                      NEW s \in Recorded', s > base'[c]
               PROVE  s \in known'[c] \cup Ahead(c)' \cup InFlight'
    BY DEF NothingSlips
  <2>1. s \in Nat \ {0} /\ (s \in Recorded \/ s = nextSeq)
    BY <1>1 DEF Recorded
  <2>2. CASE s = nextSeq
    BY <1>3, <2>2 DEF InFlight
  <2>3. CASE s \in Recorded
    <3>1. s \in known[c] \cup Ahead(c) \cup InFlight
      BY <1>4, <2>3 DEF NothingSlips
    <3>2. Ahead(c)' = Ahead(c)
      BY <1>4 DEF Ahead
    <3>3. s \in InFlight => s \in InFlight'
      BY <1>3, <2>1 DEF InFlight
    <3> QED
      BY <1>4, <3>1, <3>2, <3>3
  <2> QED
    BY <2>1, <2>2, <2>3
<1> QED
  BY <1>5, <1>6, <1>7, <1>8

(***************************************************************************)
(* A broadcast puts the event ahead of every stream (push, live.send).     *)
(***************************************************************************)
LEMMA BroadcastStep ==
  ASSUME FeedInv, NEW p \in Pushers, Broadcast(p)
  PROVE  FeedInv'
<1> USE DEF FeedInv
<1>1. live \in Seq(Nat) /\ Len(live) \in Nat /\ holds[p] \in Nat
  BY DEF TypeOK
<1>2. /\ live' \in Seq(Nat) /\ Len(live') = Len(live) + 1
      /\ live'[Len(live) + 1] = holds[p]
      /\ \A i \in 1..Len(live) : live'[i] = live[i]
  BY <1>1, AppendProperties DEF Broadcast
<1>3. /\ holds' \in [Pushers -> Nat]
      /\ \A q \in Pushers : q # p => holds'[q] = holds[q]
  BY DEF TypeOK, Broadcast
<1>4. UNCHANGED <<nextSeq, ring, conn, cursor, lastId, known, base, connects, restarts>>
  BY DEF Broadcast, streams
<1>5. TypeOK'
  BY <1>2, <1>3, <1>4 DEF TypeOK
<1>6. RingIsRecent'
  BY <1>4 DEF RingIsRecent
<1>7. StreamsOK'
  BY <1>1, <1>2, <1>4 DEF StreamsOK, TypeOK
<1>8. NothingSlips'
  <2> SUFFICES ASSUME NEW c \in Clients, conn'[c] = "live",
                      NEW s \in Recorded', s > base'[c]
               PROVE  s \in known'[c] \cup Ahead(c)' \cup InFlight'
    BY DEF NothingSlips
  <2>1. s \in known[c] \cup Ahead(c) \cup InFlight
    BY <1>4 DEF NothingSlips, Recorded
  <2>2. cursor[c] \in Nat /\ cursor[c] <= Len(live) /\ cursor'[c] = cursor[c]
    BY <1>4 DEF StreamsOK, TypeOK
  <2>3. Ahead(c)' = {live'[i] : i \in (cursor[c] + 1)..(Len(live) + 1)}
    BY <1>2, <2>2 DEF Ahead
  <2>4. CASE s \in known[c]
    BY <1>4, <2>4
  <2>5. CASE s \in Ahead(c)
    <3>1. PICK i \in (cursor[c] + 1)..Len(live) : s = live[i]
      BY <2>5 DEF Ahead
    <3>2. i \in 1..Len(live) /\ i \in (cursor[c] + 1)..(Len(live) + 1)
      BY <1>1, <2>2
    <3> QED
      BY <1>2, <2>3, <3>1, <3>2
  <2>6. CASE s \in InFlight
    <3>1. PICK q \in Pushers : s = holds[q]
      BY <2>6 DEF InFlight
    <3>2. CASE q = p
      <4>1. Len(live) + 1 \in (cursor[c] + 1)..(Len(live) + 1)
        BY <1>1, <2>2
      <4> QED
        BY <1>2, <2>3, <3>1, <3>2, <4>1
    <3>3. CASE q # p
      BY <1>3, <3>1, <3>3 DEF InFlight
    <3> QED
      BY <3>2, <3>3
  <2> QED
    BY <2>1, <2>4, <2>5, <2>6
<1> QED
  BY <1>5, <1>6, <1>7, <1>8

(***************************************************************************)
(* A stream that begins is not live yet, and nothing of what was broadcast *)
(* before it is ahead of it (events_stream).                               *)
(***************************************************************************)
LEMMA ConnectStep ==
  ASSUME FeedInv, NEW c \in Clients, Connect(c)
  PROVE  FeedInv'
<1> USE DEF FeedInv
<1>1. live \in Seq(Nat) /\ Len(live) \in Nat
  BY DEF TypeOK
<1>2. UNCHANGED <<nextSeq, ring, live, holds, lastId, known, restarts>>
  BY DEF Connect, log
<1>3. TypeOK'
  BY <1>1, <1>2 DEF TypeOK, Connect, Conns
<1>4. RingIsRecent'
  BY <1>2 DEF RingIsRecent
<1>5. \A d \in Clients :
        /\ conn'[d] = IF d = c THEN "subscribed" ELSE conn[d]
        /\ cursor'[d] = IF d = c THEN Len(live) ELSE cursor[d]
        /\ base'[d] = IF d = c THEN lastId[c] ELSE base[d]
  BY DEF TypeOK, Connect
<1>6. StreamsOK'
  BY <1>1, <1>2, <1>5 DEF StreamsOK
<1>7. NothingSlips'
  <2> SUFFICES ASSUME NEW d \in Clients, conn'[d] = "live",
                      NEW s \in Recorded', s > base'[d]
               PROVE  s \in known'[d] \cup Ahead(d)' \cup InFlight'
    BY DEF NothingSlips
  <2>1. conn[d] = "live" /\ base'[d] = base[d] /\ cursor'[d] = cursor[d]
    BY <1>5
  <2> QED
    BY <1>2, <2>1 DEF NothingSlips, Recorded, Ahead, InFlight
<1> QED
  BY <1>3, <1>4, <1>6, <1>7

(***************************************************************************)
(* What is told to a client is added to what it knows, and nothing else    *)
(* moves but its own connection.                                           *)
(***************************************************************************)
LEMMA TellStep ==
  ASSUME FeedInv, NEW c \in Clients, NEW told \in SUBSET Nat, NEW last \in Nat,
         Tell(c, told, last),
         conn' \in [Clients -> Conns], cursor' \in [Clients -> Nat],
         \A d \in Clients : d # c => conn'[d] = conn[d] /\ cursor'[d] = cursor[d],
         conn'[c] = "live", cursor'[c] <= Len(live),
         UNCHANGED <<log, base, connects, restarts>>,
         \A s \in Recorded : s > base[c] =>
           s \in known[c] \cup told \cup InFlight
                \cup {live[i] : i \in (cursor'[c] + 1)..Len(live)}
  PROVE  FeedInv'
<1> USE DEF FeedInv
<1>1. UNCHANGED <<nextSeq, ring, live, holds, base, connects, restarts>>
  BY DEF log
<1>2. /\ known' \in [Clients -> SUBSET Nat] /\ lastId' \in [Clients -> Nat]
      /\ \A d \in Clients :
           /\ known'[d] = IF d = c THEN known[c] \cup told ELSE known[d]
           /\ lastId'[d] = IF d = c THEN last ELSE lastId[d]
  BY DEF TypeOK, Tell
<1>3. TypeOK'
  BY <1>1, <1>2 DEF TypeOK
<1>4. RingIsRecent'
  BY <1>1 DEF RingIsRecent
<1>5. StreamsOK'
  BY <1>1, <1>2 DEF StreamsOK
<1>6. NothingSlips'
  <2> SUFFICES ASSUME NEW d \in Clients, conn'[d] = "live",
                      NEW s \in Recorded', s > base'[d]
               PROVE  s \in known'[d] \cup Ahead(d)' \cup InFlight'
    BY DEF NothingSlips
  <2>1. s \in Recorded /\ s > base[d] /\ InFlight' = InFlight
    BY <1>1 DEF Recorded, InFlight
  <2>2. CASE d = c
    <3>1. Ahead(c)' = {live[i] : i \in (cursor'[c] + 1)..Len(live)}
      BY <1>1 DEF Ahead
    <3> QED
      BY <1>2, <2>1, <2>2, <3>1
  <2>3. CASE d # c
    <3>1. Ahead(d)' = Ahead(d)
      BY <1>1, <2>3 DEF Ahead
    <3> QED
      BY <1>2, <2>1, <2>3, <3>1 DEF NothingSlips
  <2> QED
    BY <2>2, <2>3
<1> QED
  BY <1>3, <1>4, <1>5, <1>6

(***************************************************************************)
(* The first chunk tells of everything after the Last-Event-ID, from the   *)
(* ring or as a snapshot (events_stream).                                  *)
(***************************************************************************)
LEMMA ReplayStep ==
  ASSUME FeedInv, NEW c \in Clients, Replay(c)
  PROVE  FeedInv'
<1> USE DEF FeedInv
<1> DEFINE missed == Recent(lastId[c])
           told == IF missed = NoReplay THEN Recorded ELSE missed
           last == IF missed = {} THEN lastId[c] ELSE nextSeq - 1
<1>1. /\ lastId[c] \in Nat /\ base[c] = lastId[c] /\ cursor[c] <= Len(live)
      /\ nextSeq - 1 \in Nat /\ Recorded \in SUBSET Nat
  BY BoundsAssumption DEF TypeOK, StreamsOK, Replay, Recorded
<1>2. /\ conn' = [conn EXCEPT ![c] = "live"]
      /\ UNCHANGED <<log, cursor, base, connects, restarts>>
  BY DEF Replay
<1>3. /\ conn' \in [Clients -> Conns] /\ conn'[c] = "live"
      /\ \A d \in Clients : d # c => conn'[d] = conn[d]
  BY <1>2 DEF TypeOK, Conns
<1>4. cursor' = cursor /\ cursor' \in [Clients -> Nat]
  BY <1>2 DEF TypeOK
<1>5. CASE Snapshot(c)
  BY <1>1, <1>2, <1>3, <1>4, <1>5, TellStep DEF Snapshot
<1>6. CASE missed # NoReplay /\ Tell(c, missed, last)
  <2>1. missed \in SUBSET Nat /\ missed = {s \in Recorded : s > lastId[c]}
    BY <1>1, <1>6, RecentIsComplete
  <2>2. \A s \in Recorded : s > base[c] => s \in missed
    BY <1>1, <2>1
  <2>3. last \in Nat
    BY <1>1
  <2> HIDE DEF missed, last
  <2> QED
    BY <1>1, <1>2, <1>3, <1>4, <1>6, <2>1, <2>2, <2>3, TellStep
<1> QED
  BY <1>5, <1>6 DEF Replay

(***************************************************************************)
(* The event that is received was the next ahead (live.recv()).            *)
(***************************************************************************)
LEMMA DeliverStep ==
  ASSUME FeedInv, NEW c \in Clients, Deliver(c)
  PROVE  FeedInv'
<1> USE DEF FeedInv
<1> DEFINE event == live[cursor[c] + 1]
<1>1. /\ live \in Seq(Nat) /\ Len(live) \in Nat
      /\ cursor \in [Clients -> Nat] /\ cursor[c] \in Nat
      /\ cursor[c] < Len(live) /\ conn[c] = "live" /\ conn \in [Clients -> Conns]
  BY DEF TypeOK, Deliver
<1>2. /\ cursor' = [cursor EXCEPT ![c] = cursor[c] + 1]
      /\ Tell(c, {event}, event)
      /\ conn' = conn /\ UNCHANGED <<log, base, connects, restarts>>
  BY DEF Deliver
<1>3. /\ cursor' \in [Clients -> Nat] /\ cursor'[c] = cursor[c] + 1
      /\ cursor'[c] <= Len(live)
      /\ \A d \in Clients : d # c => cursor'[d] = cursor[d]
  BY <1>1, <1>2
<1>4. event \in Nat
  <2>1. cursor[c] + 1 \in 1..Len(live)
    BY <1>1
  <2> QED
    BY <1>1, <2>1, ElementOfSeq
<1>5. ASSUME NEW s \in Recorded, s > base[c]
      PROVE  s \in known[c] \cup {event} \cup InFlight
                 \cup {live[i] : i \in (cursor'[c] + 1)..Len(live)}
  <2>1. s \in known[c] \cup Ahead(c) \cup InFlight
    BY <1>1, <1>5 DEF NothingSlips
  <2>2. CASE s \in Ahead(c)
    <3>1. PICK i \in (cursor[c] + 1)..Len(live) : s = live[i]
      BY <2>2 DEF Ahead
    <3>2. i = cursor[c] + 1 \/ i \in (cursor'[c] + 1)..Len(live)
      BY <1>1, <1>3
    <3> QED
      BY <3>1, <3>2
  <2> QED
    BY <2>1, <2>2
<1> HIDE DEF event
<1>6. {event} \in SUBSET Nat
  BY <1>4
<1> QED
  BY <1>1, <1>2, <1>3, <1>4, <1>5, <1>6, TellStep

(***************************************************************************)
(* A receiver that lagged gives its client a snapshot (live.recv()).       *)
(***************************************************************************)
LEMMA LagStep ==
  ASSUME FeedInv, NEW c \in Clients, Lag(c)
  PROVE  FeedInv'
<1> USE DEF FeedInv
<1>1. /\ Len(live) \in Nat /\ LiveCapacity \in Nat /\ cursor[c] \in Nat
      /\ cursor \in [Clients -> Nat] /\ conn \in [Clients -> Conns]
      /\ conn[c] = "live" /\ Len(live) - cursor[c] > LiveCapacity
  BY CapacityAssumption DEF TypeOK, Lag, Lagging
<1>2. /\ cursor' = [cursor EXCEPT ![c] = Len(live) - LiveCapacity]
      /\ conn' = conn /\ UNCHANGED <<log, base, connects, restarts>>
      /\ Tell(c, Recorded, 0)
  BY DEF Lag, Snapshot
<1>3. /\ cursor' \in [Clients -> Nat] /\ cursor'[c] <= Len(live)
      /\ \A d \in Clients : d # c => cursor'[d] = cursor[d]
  BY <1>1, <1>2
<1>4. Recorded \in SUBSET Nat
  BY BoundsAssumption DEF TypeOK, Recorded
<1> QED
  BY <1>1, <1>2, <1>3, <1>4, TellStep

(***************************************************************************)
(* FeedInv holds of the feed, whichever threads push, whatever the clients *)
(* do, and however often the process dies (EventLog, events_stream).       *)
(***************************************************************************)
THEOREM FeedInvariant == Spec => []FeedInv
<1>1. Init => FeedInv
  <2> SUFFICES ASSUME Init PROVE FeedInv
    OBVIOUS
  <2>1. <<>> \in Seq(Nat) /\ Len(<<>>) = 0 /\ DOMAIN <<>> = 1..0
    OBVIOUS
  <2>2. TypeOK
    BY <2>1, BoundsAssumption DEF Init, TypeOK, Conns
  <2>3. RingIsRecent /\ StreamsOK /\ NothingSlips
    BY <2>1, CapacityAssumption DEF Init, RingIsRecent, StreamsOK, NothingSlips
  <2> QED
    BY <2>2, <2>3 DEF FeedInv
<1>2. FeedInv /\ [Next]_vars => FeedInv'
  <2> SUFFICES ASSUME FeedInv, [Next]_vars PROVE FeedInv'
    OBVIOUS
  <2> USE DEF FeedInv
  <2>1. ASSUME NEW c \in Clients, Disconnect(c)
        PROVE  FeedInv'
    <3>1. UNCHANGED <<nextSeq, ring, live, holds, cursor, lastId, known, base,
                      connects, restarts>>
      BY <2>1 DEF Disconnect, log
    <3>2. TypeOK'
      BY <2>1, <3>1 DEF TypeOK, Disconnect, Conns
    <3>3. \A d \in Clients : conn'[d] = IF d = c THEN "off" ELSE conn[d]
      BY <2>1 DEF TypeOK, Disconnect
    <3>4. RingIsRecent'
      BY <3>1 DEF RingIsRecent
    <3>5. StreamsOK'
      BY <3>1, <3>3 DEF StreamsOK
    <3>6. NothingSlips'
      BY <3>1, <3>3 DEF NothingSlips, Recorded, Ahead, InFlight
    <3> QED
      BY <3>2, <3>4, <3>5, <3>6
  <2>2. CASE Restart
    <3>1. <<>> \in Seq(Nat) /\ Len(<<>>) = 0 /\ DOMAIN <<>> = 1..0
      OBVIOUS
    <3>2. TypeOK'
      BY <2>2, <3>1, BoundsAssumption DEF TypeOK, Restart, Conns
    <3>3. RingIsRecent' /\ StreamsOK' /\ NothingSlips'
      BY <2>2, <3>1, CapacityAssumption DEF Restart, RingIsRecent, StreamsOK, NothingSlips
    <3> QED
      BY <3>2, <3>3
  <2>3. CASE UNCHANGED vars
    BY <2>3 DEF vars, log, streams, TypeOK, RingIsRecent, StreamsOK, NothingSlips,
                Recorded, Ahead, InFlight
  <2> QED
    BY <2>1, <2>2, <2>3, RecordStep, BroadcastStep, ConnectStep, ReplayStep, DeliverStep,
       LagStep DEF Next, ClientStep
<1> QED
  BY <1>1, <1>2, PTL DEF Spec

(***************************************************************************)
(* The type of the log and of the streams (EventLog, events_stream).       *)
(***************************************************************************)
THEOREM TypeCorrect == Spec => []TypeOK
<1>1. FeedInv => TypeOK
  BY DEF FeedInv
<1> QED
  BY <1>1, FeedInvariant, PTL

(***************************************************************************)
(* The ring is the last Capacity events without a gap, whichever threads   *)
(* pushed them (push).                                                     *)
(***************************************************************************)
THEOREM RingKept == Spec => []RingIsRecent
<1>1. FeedInv => RingIsRecent
  BY DEF FeedInv
<1> QED
  BY <1>1, FeedInvariant, PTL

(***************************************************************************)
(* Nothing slips between the subscription, the replay and the channel, in  *)
(* whatever order events are broadcast, however far a stream falls behind, *)
(* and whatever restarts there are (events_stream).                        *)
(***************************************************************************)
THEOREM NothingIsLost == Spec => []NothingSlips
<1>1. FeedInv => NothingSlips
  BY DEF FeedInv
<1> QED
  BY <1>1, FeedInvariant, PTL

--------------------------------------------------------------------------------
(***************************************************************************)
(* One pusher and no restart.  Events are then broadcast in the order of   *)
(* their numbers, a client knows a beginning of them that reaches its      *)
(* Last-Event-ID, and on a stream that is live all that it has received or *)
(* skipped.                                                                *)
(***************************************************************************)
OrderInv(p) ==
    /\ restarts = 0
    /\ Len(live) = IF holds[p] = 0 THEN nextSeq - 1 ELSE nextSeq - 2
    /\ holds[p] # 0 => holds[p] = nextSeq - 1
    /\ \A i \in 1..Len(live) : live[i] = i
    /\ \A c \in Clients :
         \E k \in 0..(nextSeq - 1) :
           /\ known[c] = 1..k /\ lastId[c] <= k
           /\ conn[c] = "live" => cursor[c] <= k

Ordered(p) == FeedInv /\ OrderInv(p)

(***************************************************************************)
(* To learn a longer beginning of what happened is a step of FeedSpec, and *)
(* to learn the same is none.                                              *)
(***************************************************************************)
LEMMA LearnsMore ==
  ASSUME NEW c \in Clients, NEW j \in Nat, NEW k \in Nat, nextSeq \in Nat \ {0},
         j <= k, k <= nextSeq - 1, known[c] = 1..j,
         known' = [known EXCEPT ![c] = 1..k], known \in [Clients -> SUBSET Nat],
         nextSeq' = nextSeq
  PROVE  [Feed!Next]_(Feed!vars)
<1>1. CASE j = k
  BY <1>1 DEF Feed!vars
<1>2. CASE j # k
  <2>1. k \in 1..(nextSeq - 1) /\ k \notin known[c]
    BY <1>2
  <2> QED
    BY <2>1 DEF Feed!Next, Feed!Learn
<1> QED
  BY <1>1, <1>2

(***************************************************************************)
(* When one client has been told of all up to k and its connection has not *)
(* gone past k, OrderInv goes on, and FeedSpec allows the step.            *)
(***************************************************************************)
LEMMA ClientIsTold ==
  ASSUME NEW p \in Pushers, Ordered(p), NEW c \in Clients, NEW k \in 0..(nextSeq - 1),
         NEW j \in 0..k, known[c] = 1..j,
         known' = [known EXCEPT ![c] = 1..k],
         lastId'[c] <= k, conn'[c] = "live" => cursor'[c] <= k,
         \A d \in Clients : d # c =>
           lastId'[d] = lastId[d] /\ conn'[d] = conn[d] /\ cursor'[d] = cursor[d],
         UNCHANGED <<log, restarts>>
  PROVE  OrderInv(p)' /\ [Feed!Next]_(Feed!vars)
<1>1. UNCHANGED <<nextSeq, live, holds>>
  BY DEF log
<1>2. /\ nextSeq \in Nat \ {0} /\ known \in [Clients -> SUBSET Nat]
      /\ k \in Nat /\ j \in Nat /\ j <= k /\ k <= nextSeq - 1
  BY BoundsAssumption DEF Ordered, FeedInv, TypeOK
<1>3. known'[c] = 1..k /\ \A d \in Clients : d # c => known'[d] = known[d]
  BY <1>2
<1>4. ASSUME NEW d \in Clients
      PROVE  \E n \in 0..(nextSeq' - 1) :
               /\ known'[d] = 1..n /\ lastId'[d] <= n
               /\ conn'[d] = "live" => cursor'[d] <= n
  <2>1. CASE d = c
    BY <1>1, <1>3, <2>1
  <2>2. CASE d # c
    BY <1>1, <1>3, <2>2 DEF Ordered, OrderInv
  <2> QED
    BY <2>1, <2>2
<1>5. OrderInv(p)'
  BY <1>1, <1>4 DEF Ordered, OrderInv
<1>6. [Feed!Next]_(Feed!vars)
  BY <1>1, <1>2, LearnsMore
<1> QED
  BY <1>5, <1>6

(***************************************************************************)
(* A step of the pusher: what it records has happened, and its broadcast   *)
(* is in order (push).                                                     *)
(***************************************************************************)
LEMMA PusherInOrder ==
  ASSUME NEW p \in Pushers, Ordered(p), Record(p) \/ Broadcast(p)
  PROVE  OrderInv(p)' /\ [Feed!Next]_(Feed!vars)
<1> USE DEF Ordered
<1>1. /\ nextSeq \in Nat /\ nextSeq >= 1 /\ live \in Seq(Nat) /\ Len(live) \in Nat
      /\ holds \in [Pushers -> Nat] /\ restarts = 0
  BY BoundsAssumption DEF FeedInv, TypeOK, OrderInv
<1>2. CASE Record(p)
  <2>1. /\ holds[p] = 0 /\ holds'[p] = nextSeq /\ nextSeq' = nextSeq + 1
        /\ UNCHANGED <<live, conn, cursor, lastId, known, restarts>>
    BY <1>1, <1>2 DEF Record, streams
  <2>2. Len(live') = nextSeq' - 2 /\ holds'[p] # 0 /\ holds'[p] = nextSeq' - 1
    BY <1>1, <2>1 DEF OrderInv
  <2>3. 0..(nextSeq - 1) \subseteq 0..(nextSeq' - 1)
    BY <1>1, <2>1
  <2>4. \A i \in 1..Len(live') : live'[i] = i
    BY <2>1 DEF OrderInv
  <2>5. ASSUME NEW c \in Clients
        PROVE  \E n \in 0..(nextSeq' - 1) :
                 /\ known'[c] = 1..n /\ lastId'[c] <= n
                 /\ conn'[c] = "live" => cursor'[c] <= n
    BY <2>1, <2>3 DEF OrderInv
  <2>6. OrderInv(p)'
    BY <1>1, <2>1, <2>2, <2>4, <2>5 DEF OrderInv
  <2>7. Feed!Happen
    BY <1>1, <2>1 DEF Feed!Happen
  <2> QED
    BY <2>6, <2>7 DEF Feed!Next
<1>3. CASE Broadcast(p)
  <2>1. /\ holds[p] = nextSeq - 1 /\ holds[p] # 0 /\ holds'[p] = 0
        /\ UNCHANGED <<nextSeq, conn, cursor, lastId, known, restarts>>
    BY <1>1, <1>3 DEF Broadcast, OrderInv, streams
  <2>2. /\ Len(live') = Len(live) + 1 /\ live'[Len(live) + 1] = nextSeq - 1
        /\ \A i \in 1..Len(live) : live'[i] = live[i]
    BY <1>1, <1>3, <2>1, AppendProperties DEF Broadcast
  <2>3. Len(live) = nextSeq - 2
    BY <2>1 DEF OrderInv
  <2>4. \A i \in 1..Len(live') : live'[i] = i
    <3> TAKE i \in 1..Len(live')
    <3>1. i = Len(live) + 1 \/ i \in 1..Len(live)
      BY <1>1, <2>2
    <3>2. CASE i = Len(live) + 1
      BY <1>1, <2>2, <2>3, <3>2
    <3>3. CASE i \in 1..Len(live)
      <4>1. live'[i] = live[i]
        BY <2>2, <3>3
      <4> QED
        BY <3>3, <4>1 DEF OrderInv
    <3> QED
      BY <3>1, <3>2, <3>3
  <2>5. Len(live') = nextSeq' - 1
    BY <1>1, <2>1, <2>2, <2>3
  <2>6. OrderInv(p)'
    BY <1>1, <2>1, <2>4, <2>5 DEF OrderInv
  <2>7. UNCHANGED Feed!vars
    BY <2>1 DEF Feed!vars
  <2> QED
    BY <2>6, <2>7
<1> QED
  BY <1>2, <1>3

(***************************************************************************)
(* A step of a client: a replay and a snapshot tell it of all that has     *)
(* happened, and the next event on the channel is one it knows already or  *)
(* the next one to know (events_stream).                                   *)
(***************************************************************************)
LEMMA ClientInOrder ==
  ASSUME NEW p \in Pushers, Ordered(p), NEW c \in Clients, ClientStep(c) \/ Disconnect(c)
  PROVE  OrderInv(p)' /\ [Feed!Next]_(Feed!vars)
<1> USE DEF Ordered
<1>1. /\ nextSeq \in Nat /\ nextSeq >= 1 /\ Len(live) \in Nat /\ LiveCapacity \in Nat
      /\ Len(live) <= nextSeq - 1
      /\ known \in [Clients -> SUBSET Nat] /\ conn \in [Clients -> Conns]
      /\ cursor \in [Clients -> Nat] /\ lastId \in [Clients -> Nat]
      /\ Recorded = 1..(nextSeq - 1) /\ nextSeq - 1 \in 0..(nextSeq - 1)
  BY BoundsAssumption, CapacityAssumption DEF FeedInv, TypeOK, OrderInv, Recorded
<1>2. PICK k \in 0..(nextSeq - 1) :
        /\ known[c] = 1..k /\ lastId[c] <= k
        /\ conn[c] = "live" => cursor[c] <= k
  BY DEF OrderInv
<1>3. k \in 0..k /\ k \in Nat
  BY <1>2
<1>4. CASE Connect(c) \/ Disconnect(c)
  <2>1. /\ known' = known /\ lastId' = lastId /\ UNCHANGED <<log, restarts>>
        /\ conn'[c] # "live"
        /\ \A d \in Clients : d # c => conn'[d] = conn[d] /\ cursor'[d] = cursor[d]
    BY <1>1, <1>4 DEF Connect, Disconnect
  <2>2. known' = [known EXCEPT ![c] = 1..k]
    BY <1>1, <1>2, <2>1
  <2> QED
    BY <1>2, <1>3, <2>1, <2>2, ClientIsTold
<1>5. ASSUME NEW last \in Nat, last <= nextSeq - 1,
             known' = [known EXCEPT ![c] = Recorded],
             lastId' = [lastId EXCEPT ![c] = last],
             conn'[c] = "live" => cursor'[c] <= nextSeq - 1,
             \A d \in Clients : d # c => conn'[d] = conn[d] /\ cursor'[d] = cursor[d],
             UNCHANGED <<log, restarts>>
      PROVE  OrderInv(p)' /\ [Feed!Next]_(Feed!vars)
  <2>1. k \in 0..(nextSeq - 1) /\ known' = [known EXCEPT ![c] = 1..(nextSeq - 1)]
    BY <1>1, <1>5
  <2>2. lastId'[c] <= nextSeq - 1
    BY <1>1, <1>5
  <2>3. \A d \in Clients : d # c =>
          lastId'[d] = lastId[d] /\ conn'[d] = conn[d] /\ cursor'[d] = cursor[d]
    BY <1>1, <1>5
  <2>4. nextSeq - 1 \in 0..(nextSeq - 1) /\ known[c] = 1..k
    BY <1>1, <1>2
  <2>5. (conn'[c] = "live" => cursor'[c] <= nextSeq - 1) /\ UNCHANGED <<log, restarts>>
    BY <1>5
  <2> QED
    BY <2>1, <2>2, <2>3, <2>4, <2>5, ClientIsTold
<1>6. 0 \in Nat /\ 0 <= nextSeq - 1
  BY <1>1
<1>7. CASE Replay(c)
  <2>1. /\ conn' = [conn EXCEPT ![c] = "live"] /\ cursor' = cursor
        /\ UNCHANGED <<log, restarts>> /\ cursor[c] <= nextSeq - 1
    <3>1. cursor[c] <= Len(live)
      BY DEF FeedInv, StreamsOK
    <3> QED
      BY <1>1, <1>7, <3>1 DEF Replay
  <2>2. \A d \in Clients : d # c => conn'[d] = conn[d]
    BY <1>1, <2>1
  <2>3. CASE Snapshot(c)
    <3>1. known' = [known EXCEPT ![c] = Recorded] /\ lastId' = [lastId EXCEPT ![c] = 0]
      <4>1. known[c] \cup Recorded = Recorded
        BY <1>1, <1>2
      <4> QED
        BY <2>3, <4>1 DEF Snapshot, Tell
    <3> QED
      BY <1>5, <1>6, <2>1, <2>2, <3>1
  <2>4. CASE ~Snapshot(c)
    <3> DEFINE missed == Recent(lastId[c])
               last == IF missed = {} THEN lastId[c] ELSE nextSeq - 1
    <3>1. /\ missed # NoReplay
          /\ known' = [known EXCEPT ![c] = known[c] \cup missed]
          /\ lastId' = [lastId EXCEPT ![c] = last]
      BY <1>7, <2>4 DEF Replay, Tell
    <3>2. lastId[c] \in Nat /\ missed = {s \in Recorded : s > lastId[c]}
      BY <1>1, <3>1, RecentIsComplete DEF FeedInv
    <3>3. known[c] \cup missed = Recorded
      BY <1>1, <1>2, <3>2
    <3>4. last \in Nat /\ last <= nextSeq - 1
      <4>1. lastId[c] <= nextSeq - 1 /\ nextSeq - 1 \in Nat
        BY <1>1, <1>2, <3>2
      <4> QED
        BY <3>2, <4>1
    <3> HIDE DEF missed, last
    <3> QED
      BY <1>5, <2>1, <2>2, <3>1, <3>3, <3>4
  <2> QED
    BY <2>3, <2>4
<1>8. CASE Lag(c)
  <2>1. /\ conn' = conn /\ cursor' = [cursor EXCEPT ![c] = Len(live) - LiveCapacity]
        /\ UNCHANGED <<log, restarts>>
    BY <1>8 DEF Lag
  <2>2. known' = [known EXCEPT ![c] = Recorded] /\ lastId' = [lastId EXCEPT ![c] = 0]
    <3>1. known[c] \cup Recorded = Recorded
      BY <1>1, <1>2
    <3> QED
      BY <1>8, <3>1 DEF Lag, Snapshot, Tell
  <2>3. cursor'[c] = Len(live) - LiveCapacity /\ \A d \in Clients : d # c => cursor'[d] = cursor[d]
    BY <1>1, <2>1
  <2>4. cursor'[c] <= nextSeq - 1
    BY <1>1, <2>3
  <2> QED
    <3>1. \A d \in Clients : d # c => conn'[d] = conn[d] /\ cursor'[d] = cursor[d]
      BY <2>1, <2>3
    <3> QED
      BY <1>5, <1>6, <2>1, <2>2, <2>4, <3>1
<1>9. CASE Deliver(c)
  <2> DEFINE event == cursor[c] + 1
             upto == IF event <= k THEN k ELSE event
  <2>1. /\ conn' = conn /\ conn[c] = "live" /\ cursor[c] < Len(live) /\ cursor[c] \in Nat
        /\ cursor' = [cursor EXCEPT ![c] = event] /\ UNCHANGED <<log, restarts>>
    BY <1>1, <1>9 DEF Deliver
  <2>2. live[event] = event
    <3>1. event \in 1..Len(live)
      BY <1>1, <2>1
    <3> QED
      BY <3>1 DEF OrderInv
  <2>3. /\ known' = [known EXCEPT ![c] = known[c] \cup {event}]
        /\ lastId' = [lastId EXCEPT ![c] = event]
    BY <1>9, <2>2 DEF Deliver, Tell
  <2>4. upto \in 0..(nextSeq - 1) /\ k \in 0..upto /\ event <= upto
    BY <1>1, <1>2, <1>3, <2>1
  <2>5. known[c] \cup {event} = 1..upto
    <3>1. CASE event <= k
      <4>1. upto = k /\ event \in 1..k
        BY <1>3, <2>1, <3>1
      <4> QED
        BY <1>2, <4>1
    <3>2. CASE ~(event <= k)
      <4>1. upto = event /\ event = k + 1
        BY <1>1, <1>2, <1>3, <2>1, <3>2
      <4> HIDE DEF upto, event
      <4>2. 1..k \cup {event} = 1..event
        BY <1>3, <4>1
      <4> QED
        BY <1>2, <4>1, <4>2
    <3> QED
      BY <3>1, <3>2
  <2>6. /\ cursor'[c] = event /\ lastId'[c] = event
        /\ \A d \in Clients : d # c => cursor'[d] = cursor[d] /\ lastId'[d] = lastId[d]
    BY <1>1, <2>1, <2>3
  <2> HIDE DEF upto, event
  <2> QED
    BY <1>2, <2>1, <2>3, <2>4, <2>5, <2>6, ClientIsTold
<1> QED
  BY <1>4, <1>7, <1>8, <1>9 DEF ClientStep

(***************************************************************************)
(* With one pusher and no restart every step of the feed is one FeedSpec   *)
(* allows: what a client knows is at every moment a prefix of what         *)
(* happened, for any number of clients and connections (push, recent,      *)
(* events_stream).                                                         *)
(***************************************************************************)
THEOREM FeedIsInOrder ==
  ASSUME NEW p, Pushers = {p}, MaxRestarts = 0
  PROVE  Spec => Feed!Init /\ [][Feed!Next]_(Feed!vars)
<1>1. p \in Pushers
  OBVIOUS
<1>2. Init => Feed!Init /\ OrderInv(p)
  <2> SUFFICES ASSUME Init PROVE Feed!Init /\ OrderInv(p)
    OBVIOUS
  <2>1. Feed!Init
    BY DEF Init, Feed!Init
  <2>2. OrderInv(p)
    BY <1>1 DEF Init, OrderInv
  <2> QED
    BY <2>1, <2>2
<1>3. FeedInv /\ OrderInv(p) /\ [Next]_vars => OrderInv(p)' /\ [Feed!Next]_(Feed!vars)
  <2> SUFFICES ASSUME FeedInv, OrderInv(p), [Next]_vars
               PROVE  OrderInv(p)' /\ [Feed!Next]_(Feed!vars)
    OBVIOUS
  <2>1. Ordered(p)
    BY DEF Ordered
  <2>2. ASSUME NEW q \in Pushers, Record(q) \/ Broadcast(q)
        PROVE  OrderInv(p)' /\ [Feed!Next]_(Feed!vars)
    BY <1>1, <2>1, <2>2, PusherInOrder
  <2>3. ASSUME NEW c \in Clients, ClientStep(c) \/ Disconnect(c)
        PROVE  OrderInv(p)' /\ [Feed!Next]_(Feed!vars)
    BY <1>1, <2>1, <2>3, ClientInOrder
  <2>4. ~Restart
    BY DEF Restart, OrderInv
  <2>5. CASE UNCHANGED vars
    BY <2>5 DEF vars, log, streams, OrderInv, Feed!vars
  <2> QED
    BY <2>2, <2>3, <2>4, <2>5 DEF Next
<1> QED
  BY <1>2, <1>3, FeedInvariant, PTL DEF Spec
================================================================================
