------------------------------- MODULE Reassembly ------------------------------
(***************************************************************************)
(* The JPEG reassembler of the wire (JpegReassembler of protocol.rs), and  *)
(* the images whose fragments reach it.                                    *)
(*                                                                         *)
(* A camera numbers its images with 16 bits and cuts each into fragments   *)
(* 1..count (jpeg_packets).  The Agent has one reassembler for the door,   *)
(* the monitored camera and the callee, and never empties it: a number     *)
(* comes again when a camera wraps around, or when another one streams.    *)
(* Fragments are lost, repeated and reordered like any UDP packet.         *)
(***************************************************************************)
EXTENDS Naturals, Sequences, FiniteSets, SequencesExt, Functions

CONSTANTS
    Images,      \* what cameras send: records [seq, count], told apart by name
    OpenFrames   \* frames kept while incomplete (8 in the code)

ASSUME ImagesAssumption ==
    \A i \in Images : i.seq \in Nat /\ i.count \in Nat \ {0}
ASSUME OpenFramesAssumption == OpenFrames \in Nat \ {0}

VARIABLES
    frames,   \* JpegReassembler.frames: seq -> [count, parts: index -> image]
    order     \* JpegReassembler.order: the seqs, oldest first

\* History variables.
VARIABLES
    arrived,  \* the fragments of each image that have arrived
    younger,  \* the other numbers met since an image's first fragment
    clashed,  \* images that were in the buffer together under one number
    whole     \* images that were handed on whole

buffer == <<frames, order>>
assembly == <<buffer, arrived, younger, clashed, whole>>

Fragments == UNION {[image : {i}, index : 1..i.count] : i \in Images}
Nothing == <<>>   \* Option::None

AssemblyInit ==
    /\ frames = <<>> /\ order = <<>>
    /\ arrived = [i \in Images |-> {}]
    /\ younger = [i \in Images |-> {}]
    /\ clashed = {} /\ whole = {}

\* What push() takes: the type, and an index within the count.
Acceptable(f) == f.index \in 1..f.image.count

\* The entry a fragment goes to: the one of its number, but one of another
\* count starts over.
Entry(f) ==
    IF f.image.seq \in DOMAIN frames /\ frames[f.image.seq].count = f.image.count
      THEN frames[f.image.seq]
      ELSE [count |-> f.image.count, parts |-> <<>>]

Without(fn, keys) == Restrict(fn, DOMAIN fn \ keys)
With(fn, key, value) ==
    [k \in DOMAIN fn \cup {key} |-> IF k = key THEN value ELSE fn[k]]

\* The entry once the fragment is in it.
Filled(f) == [Entry(f) EXCEPT !.parts = With(@, f.index, f.image)]

Complete(e) == DOMAIN e.parts = 1..e.count

\* The bytes begin and end as a JPEG does: the last part is the last of its
\* own image, too.
Markers(e) == e.parts[e.count].count = e.count

Queued(seq) == IF seq \in DOMAIN frames THEN order ELSE Append(order, seq)

\* trim: numbers leave the front of `order`, and their frames with them,
\* until few enough are open.  The loop has no other way to end.
Leaving(open, queue) ==
    CHOOSE n \in 0..Len(queue) :
        /\ Cardinality(DOMAIN Without(open, Range(SubSeq(queue, 1, n)))) <= OpenFrames
        /\ \A m \in 0..n - 1 :
             Cardinality(DOMAIN Without(open, Range(SubSeq(queue, 1, m)))) > OpenFrames

\* retain: the items of a queue that differ from this one, in their order.
\* (Remove of SequencesExt, which has no definition a proof could expand.)
Retain(queue, gone) ==
    LET kept == {i \in DOMAIN queue : queue[i] # gone}
        place(i) == Cardinality({j \in kept : j <= i})
    IN  [n \in 1..Cardinality(kept) |-> queue[CHOOSE i \in kept : place(i) = n]]

\* Mutant: the order keeps the number of a frame that is complete.
CollectLeavesOrder(f) ==
    /\ frames' = Without(frames, {f.image.seq})
    /\ order' = Queued(f.image.seq)

\* The last part is there: the frame leaves the buffer.
Collect(f) ==
    /\ frames' = Without(frames, {f.image.seq})
    /\ order' = Retain(Queued(f.image.seq), f.image.seq)

\* Mutant: the newest frame makes room for itself.
KeepYoungest(f) ==
    LET open == With(frames, f.image.seq, Filled(f))
    IN  IF Cardinality(DOMAIN open) > OpenFrames
          THEN UNCHANGED buffer
          ELSE frames' = open /\ order' = Queued(f.image.seq)

\* Parts are missing: the frame stays, and the oldest make room.
Keep(f) ==
    LET open  == With(frames, f.image.seq, Filled(f))
        queue == Queued(f.image.seq)
        n     == Leaving(open, queue)
    IN  /\ frames' = Without(open, Range(SubSeq(queue, 1, n)))
        /\ order' = SubSeq(queue, n + 1, Len(queue))

\* What push() returns: the parts of a frame, or Nothing.
Result(f) ==
    LET e == Filled(f)
    IN  IF Acceptable(f) /\ Complete(e) /\ Markers(e) THEN e.parts ELSE Nothing

\* Whose parts the number's entry holds already.
Others(f) ==
    IF f.image.seq \in DOMAIN frames
      THEN Range(frames[f.image.seq].parts) \ {f.image}
      ELSE {}

\* What happened, for the properties.
Account(f) ==
    /\ arrived' = [arrived EXCEPT ![f.image] = @ \cup {f.index}]
    /\ younger' = [i \in Images |->
                     IF arrived[i] # {} /\ i.seq # f.image.seq
                       THEN younger[i] \cup {f.image.seq} ELSE younger[i]]
    /\ clashed' = IF Others(f) = {} THEN clashed
                  ELSE clashed \cup Others(f) \cup {f.image}
    /\ whole' = IF Result(f) # Nothing /\ Range(Result(f)) = {f.image}
                  THEN whole \cup {f.image} ELSE whole

\* JpegReassembler::push.
PushFragment(f) ==
    /\ Account(f)
    /\ IF ~Acceptable(f) THEN UNCHANGED buffer
       ELSE IF Complete(Filled(f)) THEN Collect(f)
       ELSE Keep(f)

--------------------------------------------------------------------------------
(***************************************************************************)
(* The queue and the frames stay in step: every open frame is queued once, *)
(* so that the loop of trim() ends, and no more are open than the buffer   *)
(* is for (push, trim).                                                    *)
(***************************************************************************)
BufferInStep ==
    /\ Range(order) = DOMAIN frames /\ IsInjective(order)
    /\ Len(order) <= OpenFrames

(***************************************************************************)
(* A frame whose fragments have all come is shown, unless another frame of *)
(* its number was under way with it or the buffer had as many younger ones *)
(* as it is for: repeats, losses and reordering cost no other frame (push, *)
(* trim).                                                                  *)
(***************************************************************************)
WholeFramesAreShown ==
    \A i \in Images :
        arrived[i] = 1..i.count =>
            \/ i \in whole
            \/ i \in clashed
            \/ Cardinality(younger[i]) >= OpenFrames
================================================================================
