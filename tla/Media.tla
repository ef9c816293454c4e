--------------------------------- MODULE Media ---------------------------------
(***************************************************************************)
(* The media path of the Agent: a fragment or an audio chunk on the wire   *)
(* (on_wire), the reassembler, the latest frame, the pre-roll ring and the *)
(* broadcast channel (push_video, push_audio), and the MJPEG streams that  *)
(* read the last two (mjpeg_stream of agent_server.rs).                    *)
(*                                                                         *)
(* The wire is one thread, and the three places a frame goes to are three  *)
(* locks: a stream that is opened in between sees some of them before and  *)
(* some after.                                                             *)
(***************************************************************************)
EXTENDS Reassembly, PreRoll

CONSTANTS
    Viewers,    \* MJPEG streams
    Channel,    \* frames the broadcast channel keeps (32 in the code)
    MaxTime,    \* bound: the clock
    MaxItems,   \* bound: frames and chunks handed on
    MaxOpens    \* bound: streams a viewer opens

ASSUME MediaAssumption ==
    /\ Channel \in Nat \ {0}
    /\ MaxTime \in Nat /\ MaxItems \in Nat /\ MaxOpens \in Nat

VARIABLES
    now,      \* Agent.started.elapsed()
    latest,   \* Agent.latest: the number of a frame; 0: None
    ring,     \* Agent.history
    handing,  \* what the wire thread hands on, and the places left
    seat,     \* where each stream is in mjpeg_stream
    queue     \* the frames its receiver has not taken yet

\* History variables.
VARIABLES
    pushed,   \* every item handed to the ring
    sent,     \* frames broadcast
    shown,    \* frames each stream has written
    lost,     \* ... and those the channel dropped before it took them
    base,     \* the frame it began with
    opens     \* streams opened so far

places    == <<latest, ring, sent, pushed>>
streams   == <<seat, queue, shown, lost, base, opens>>
mediaVars == <<assembly, now, places, handing, streams>>

Idle == [todo |-> <<>>, item |-> [n |-> 0, pts |-> 0, size |-> 0]]
NextNumber == Len(pushed) + 1

MediaInit ==
    /\ AssemblyInit
    /\ now = 0 /\ latest = 0 /\ ring = EmptyRing /\ handing = Idle
    /\ pushed = <<>> /\ sent = {}
    /\ seat = [v \in Viewers |-> "off"]
    /\ queue = [v \in Viewers |-> <<>>]
    /\ shown = [v \in Viewers |-> {}]
    /\ lost = [v \in Viewers |-> {}]
    /\ base = [v \in Viewers |-> 0]
    /\ opens = [v \in Viewers |-> 0]

Tick ==
    /\ now < MaxTime
    /\ now' = now + 1
    /\ UNCHANGED <<assembly, places, handing, streams>>

--------------------------------------------------------------------------------
(***************************************************************************)
(* The wire thread.                                                        *)
(***************************************************************************)

\* Mutant: a frame is broadcast first and remembered afterwards.
VideoStepsLatestLast == <<"send", "ring", "latest">>

VideoSteps == <<"latest", "ring", "send">>   \* push_video
AudioSteps == <<"ring">>                     \* push_audio; nobody subscribes here

Hand(steps, size) ==
    handing' = [todo |-> steps, item |-> [n |-> NextNumber, pts |-> now, size |-> size]]

Receiving == handing.todo = <<>> /\ Len(pushed) < MaxItems

\* A fragment: most end here, the last of a frame makes it an item.
ReceiveFragment(f) ==
    /\ Receiving
    /\ PushFragment(f)
    /\ IF Result(f) = Nothing
         THEN UNCHANGED handing
         ELSE Hand(VideoSteps, f.image.count)
    /\ UNCHANGED <<now, places, streams>>

ReceiveAudio ==
    /\ Receiving
    /\ Hand(AudioSteps, 1)
    /\ UNCHANGED <<assembly, now, places, streams>>

\* The next place of the item.
HandTo(place) ==
    /\ handing.todo # <<>> /\ Head(handing.todo) = place
    /\ handing' = [handing EXCEPT !.todo = Tail(@)]

Remember ==
    /\ HandTo("latest")
    /\ latest' = handing.item.n
    /\ UNCHANGED <<assembly, now, ring, sent, pushed, streams>>

\* A chunk's steps are one, a frame's three.
Buffer ==
    /\ HandTo("ring")
    /\ ring' = IF handing.todo = AudioSteps THEN PushAudio(ring, handing.item)
               ELSE PushVideo(ring, handing.item)
    /\ pushed' = Append(pushed, handing.item)
    /\ UNCHANGED <<assembly, now, latest, sent, streams>>

\* The channel keeps the last frames for every receiver.
Broadcast ==
    /\ HandTo("send")
    /\ sent' = sent \cup {handing.item.n}
    /\ LET full(v) == Len(queue[v]) = Channel
           listens(v) == seat[v] # "off"
       IN  /\ queue' = [v \in Viewers |->
                          IF ~listens(v) THEN queue[v]
                          ELSE Append(IF full(v) THEN Tail(queue[v]) ELSE queue[v],
                                      handing.item.n)]
           /\ lost' = [v \in Viewers |->
                         IF listens(v) /\ full(v) THEN lost[v] \cup {Head(queue[v])}
                         ELSE lost[v]]
    /\ UNCHANGED <<assembly, now, latest, ring, pushed, seat, shown, base, opens>>

--------------------------------------------------------------------------------
(***************************************************************************)
(* An MJPEG stream: subscribe, show the latest frame, then what comes.     *)
(***************************************************************************)
Open(v) ==
    /\ seat[v] = "off" /\ opens[v] < MaxOpens
    /\ seat' = [seat EXCEPT ![v] = "open"]
    /\ opens' = [opens EXCEPT ![v] = @ + 1]
    /\ UNCHANGED <<assembly, now, places, handing, queue, shown, lost, base>>

Show(v, n) == shown' = [shown EXCEPT ![v] = @ \cup {n}]

ShowLatest(v) ==
    /\ seat[v] = "open"
    /\ seat' = [seat EXCEPT ![v] = "live"]
    /\ base' = [base EXCEPT ![v] = latest]
    /\ IF latest = 0 THEN UNCHANGED shown ELSE Show(v, latest)
    /\ UNCHANGED <<assembly, now, places, handing, queue, lost, opens>>

\* live.recv(); a receiver that lagged goes on with what is left.
ShowNext(v) ==
    /\ seat[v] = "live" /\ queue[v] # <<>>
    /\ Show(v, Head(queue[v]))
    /\ queue' = [queue EXCEPT ![v] = Tail(@)]
    /\ UNCHANGED <<assembly, now, places, handing, seat, lost, base, opens>>

\* The client goes away, or a write to it fails.
Close(v) ==
    /\ seat[v] # "off"
    /\ seat' = [seat EXCEPT ![v] = "off"]
    /\ queue' = [queue EXCEPT ![v] = <<>>]
    /\ shown' = [shown EXCEPT ![v] = {}]
    /\ lost' = [lost EXCEPT ![v] = {}]
    /\ base' = [base EXCEPT ![v] = 0]
    /\ UNCHANGED <<assembly, now, places, handing, opens>>

--------------------------------------------------------------------------------
MediaNext ==
    \/ Tick
    \/ \E f \in Fragments : ReceiveFragment(f)
    \/ ReceiveAudio \/ Remember \/ Buffer \/ Broadcast
    \/ \E v \in Viewers : Open(v) \/ ShowLatest(v) \/ ShowNext(v) \/ Close(v)

MediaSpec == MediaInit /\ [][MediaNext]_mediaVars

--------------------------------------------------------------------------------
(***************************************************************************)
(* The ring is the last Window of the media: its bytes are counted and     *)
(* capped, nothing in it is older than the window, nothing was dropped for *)
(* something older, and only the window or the cap has dropped anything    *)
(* (MediaRing: push_video, push_audio, evict).                             *)
(***************************************************************************)
PreRollIsRecent ==
    LET kept == Range(ring.video) \cup Range(ring.audio)
        gone == Range(pushed) \ kept
    IN  /\ ring.bytes = Sizes(ring.video) + Sizes(ring.audio)
        /\ ring.bytes <= MaxBytes
        /\ pushed # <<>> =>
             /\ \A x \in kept : x.pts + Window >= Last(pushed).pts
             /\ \A x \in gone :
                  /\ \A y \in kept : x.pts <= y.pts
                  /\ \/ Window = 0
                     \/ x.pts + Window < Last(pushed).pts
                     \/ SizesAt(pushed, {k \in DOMAIN pushed : pushed[k].pts >= x.pts}) > MaxBytes

(***************************************************************************)
(* A stream that has begun misses no frame but those it was too slow for:  *)
(* every frame broadcast after the one it began with was written or waits  *)
(* for it (push_video, mjpeg_stream: subscribe before the snapshot).       *)
(***************************************************************************)
StreamsMissNothing ==
    \A v \in Viewers : seat[v] = "live" =>
        \A n \in sent : n > base[v] =>
            n \in shown[v] \cup lost[v] \cup Range(queue[v])
================================================================================
