-------------------------------- MODULE PreRoll --------------------------------
(***************************************************************************)
(* The pre-roll buffer of the media (MediaRing of agent_api.rs): the last  *)
(* seconds of video and audio, capped in bytes.                            *)
(*                                                                         *)
(* An item is a record [n, pts, size]: n numbers what was pushed.          *)
(***************************************************************************)
EXTENDS Integers, Sequences, SequencesExt

CONSTANTS
    Window,    \* window_us; 0 turns the buffer off
    MaxBytes   \* max_bytes

ASSUME RingAssumption == Window \in Nat /\ MaxBytes \in Nat

EmptyRing == [video |-> <<>>, audio |-> <<>>, bytes |-> 0]

\* The bytes of the items of q at some places, and of them all.  (FoldLeft of
\* SequencesExt recurs over sets, where a proof wants to recur over numbers.)
Total(numbers) ==
    LET sum[k \in 0..Len(numbers)] == IF k = 0 THEN 0 ELSE sum[k - 1] + numbers[k]
    IN  sum[Len(numbers)]
SizesAt(q, places) == Total([k \in 1..Len(q) |-> IF k \in places THEN q[k].size ELSE 0])
Sizes(q) == SizesAt(q, DOMAIN q)

\* saturating_sub.
Minus(a, b) == IF a < b THEN 0 ELSE a - b

\* A queue without the items at its front that are older than the floor.
Since(q, floor) ==
    LET old == CHOOSE k \in 0..Len(q) :
                 /\ \A j \in 1..k : q[j].pts < floor
                 /\ k < Len(q) => ~(q[k + 1].pts < floor)
    IN  SubSeq(q, old + 1, Len(q))

DropVideo(r) ==
    [r EXCEPT !.video = Tail(@), !.bytes = @ - Head(r.video).size]
DropAudio(r) ==
    [r EXCEPT !.audio = Tail(@), !.bytes = @ - Head(r.audio).size]

\* Mutant: video always goes first.
DropVideoFirst(r) == IF r.video # <<>> THEN DropVideo(r) ELSE DropAudio(r)

\* The oldest of both queues goes; of two of one time, the video.
DropOldest(r) ==
    IF r.video # <<>> /\ (r.audio = <<>> \/ Head(r.audio).pts >= Head(r.video).pts)
      THEN DropVideo(r)
      ELSE DropAudio(r)

\* The loop over the byte cap, which ends at the latest with two empty queues.
Lowered(r) == IF r.bytes > MaxBytes THEN DropOldest(r) ELSE r
Capped(r) ==
    LET drop[k \in 0..Len(r.video) + Len(r.audio)] ==
          IF k = 0 THEN r ELSE Lowered(drop[k - 1])
    IN  drop[Len(r.video) + Len(r.audio)]

Evict(r, newest) ==
    LET floor == Minus(newest, Window)
        video == Since(r.video, floor)
        audio == Since(r.audio, floor)
        gone  == (Sizes(r.video) - Sizes(video)) + (Sizes(r.audio) - Sizes(audio))
    IN  Capped([video |-> video, audio |-> audio, bytes |-> r.bytes - gone])

PushVideo(r, x) ==
    IF Window = 0 THEN r
    ELSE Evict([r EXCEPT !.video = Append(@, x), !.bytes = @ + x.size], x.pts)

PushAudio(r, x) ==
    IF Window = 0 THEN r
    ELSE Evict([r EXCEPT !.audio = Append(@, x), !.bytes = @ + x.size], x.pts)
================================================================================
