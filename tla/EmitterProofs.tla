----------------------------- MODULE EmitterProofs ------------------------------
(***************************************************************************)
(* Theorems about the handshake tools, for any number of requests and of   *)
(* unlocks, and any order in which two michois' packets arrive.            *)
(***************************************************************************)
EXTENDS Emitter, SequenceTheorems, FiniteSetTheorems, TLAPS

--------------------------------------------------------------------------------
(***************************************************************************)
(* Packets under way: one that is taken out leaves the others, in order.   *)
(***************************************************************************)
LEMMA RemoveAtKeeps ==
  ASSUME NEW S, NEW s \in Seq(S), NEW i \in DOMAIN s
  PROVE  /\ RemoveAt(s, i) \in Seq(S)
         /\ \A e : Contains(RemoveAt(s, i), e) => Contains(s, e)
         /\ i = 1 => RemoveAt(s, i) = Tail(s)
<1> DEFINE a == SubSeq(s, 1, i - 1)
           b == SubSeq(s, i + 1, Len(s))
<1>1. i \in Nat /\ i >= 1 /\ i <= Len(s) /\ Len(s) \in Nat
  OBVIOUS
<1>2. /\ a \in Seq(S) /\ Len(a) = i - 1
      /\ \A j \in 1..(i - 1) : a[j] = s[j]
  <2>1. \A j \in 1..(i - 1) : s[j] \in S
    BY <1>1
  <2>2. /\ a \in Seq(S) /\ Len(a) = IF 1 <= i - 1 THEN (i - 1) - 1 + 1 ELSE 0
        /\ \A j \in 1..((i - 1) - 1 + 1) : a[j] = s[1 + j - 1]
    BY <1>1, <2>1, SubSeqProperties
  <2> QED
    BY <1>1, <2>2
<1>3. /\ b \in Seq(S) /\ Len(b) = Len(s) - i
      /\ \A j \in 1..(Len(s) - i) : b[j] = s[i + j]
  <2>1. \A j \in (i + 1)..Len(s) : s[j] \in S
    BY <1>1
  <2>2. /\ b \in Seq(S) /\ Len(b) = IF i + 1 <= Len(s) THEN Len(s) - (i + 1) + 1 ELSE 0
        /\ \A j \in 1..(Len(s) - (i + 1) + 1) : b[j] = s[(i + 1) + j - 1]
    BY <1>1, <2>1, SubSeqProperties
  <2> QED
    BY <1>1, <2>2
<1>4. RemoveAt(s, i) = a \o b
  BY DEF RemoveAt
<1>5. i = 1 => RemoveAt(s, i) = Tail(s)
  <2>1. ASSUME i = 1
        PROVE  a \o b = Tail(s)
    <3>1. a = <<>>
      BY <1>2, <2>1, EmptySeq
    <3>2. a \o b = b
      BY <1>3, <3>1, ConcatEmptySeq
    <3>3. Tail(s) = SubSeq(s, 2, Len(s))
      BY <1>1, TailIsSubSeq
    <3> QED
      BY <2>1, <3>2, <3>3
  <2> QED
    BY <1>4, <2>1
<1> HIDE DEF a, b
<1>6. /\ a \o b \in Seq(S) /\ Len(a \o b) = Len(a) + Len(b)
      /\ \A j \in 1..(Len(a) + Len(b)) :
           (a \o b)[j] = IF j <= Len(a) THEN a[j] ELSE b[j - Len(a)]
  BY <1>2, <1>3, ConcatProperties
<1>7. ASSUME NEW e, Contains(a \o b, e)
      PROVE  Contains(s, e)
  <2>1. PICK j \in 1..(Len(a) + Len(b)) : (a \o b)[j] = e
    BY <1>6, <1>7 DEF Contains
  <2>2. CASE j <= Len(a)
    <3>1. j \in 1..(i - 1) /\ j \in 1..Len(s)
      BY <1>1, <1>2, <1>3, <2>2
    <3> QED
      BY <1>2, <1>6, <2>1, <2>2, <3>1 DEF Contains
  <2>3. CASE ~(j <= Len(a))
    <3>1. j - (i - 1) \in 1..(Len(s) - i) /\ i + (j - (i - 1)) \in 1..Len(s)
      <4>1. Len(a) = i - 1 /\ Len(b) = Len(s) - i
        BY <1>2, <1>3
      <4>2. j \in Int /\ j > i - 1 /\ j <= (i - 1) + (Len(s) - i)
        BY <1>1, <2>3, <4>1
      <4> QED
        BY <1>1, <4>2
    <3>2. (a \o b)[j] = b[j - Len(a)]
      BY <1>6, <2>3
    <3>3. e = b[j - (i - 1)]
      BY <1>2, <2>1, <3>2
    <3>4. e = s[i + (j - (i - 1))]
      BY <1>3, <3>1, <3>3
    <3> QED
      BY <3>1, <3>4 DEF Contains
  <2> QED
    BY <2>2, <2>3
<1> QED
  BY <1>4, <1>5, <1>6, <1>7

LEMMA TailKeeps ==
  ASSUME NEW S, NEW s \in Seq(S), s # <<>>
  PROVE  /\ Tail(s) \in Seq(S) /\ Head(s) = s[1] /\ Head(s) \in S
         /\ Len(s) \in Nat /\ Len(s) >= 1 /\ Len(Tail(s)) = Len(s) - 1
         /\ \A j \in 1..(Len(s) - 1) : Tail(s)[j] = s[j + 1]
         /\ \A e : Contains(s, e) <=> Head(s) = e \/ Contains(Tail(s), e)
<1>1. /\ Tail(s) \in Seq(S) /\ Head(s) = s[1] /\ Head(s) \in S
      /\ Len(s) \in Nat /\ Len(s) >= 1 /\ Len(Tail(s)) = Len(s) - 1
      /\ \A j \in 1..(Len(s) - 1) : Tail(s)[j] = s[j + 1]
  BY HeadTailProperties
<1>2. ASSUME NEW e
      PROVE  Contains(s, e) <=> Head(s) = e \/ Contains(Tail(s), e)
  <2>1. ASSUME Contains(s, e), Head(s) # e
        PROVE  Contains(Tail(s), e)
    <3>1. PICK j \in 1..Len(s) : s[j] = e
      BY <2>1 DEF Contains
    <3>2. j - 1 \in 1..(Len(s) - 1) /\ (j - 1) + 1 = j
      BY <1>1, <2>1, <3>1
    <3> QED
      BY <1>1, <3>1, <3>2 DEF Contains
  <2>2. ASSUME Contains(Tail(s), e)
        PROVE  Contains(s, e)
    <3>1. PICK j \in 1..(Len(s) - 1) : Tail(s)[j] = e
      BY <1>1, <2>2 DEF Contains
    <3>2. j + 1 \in 1..Len(s)
      BY <1>1
    <3> QED
      BY <1>1, <3>1, <3>2 DEF Contains
  <2>3. ASSUME Head(s) = e
        PROVE  Contains(s, e)
    BY <1>1, <2>3 DEF Contains
  <2> QED
    BY <2>1, <2>2, <2>3
<1> QED
  BY <1>1, <1>2

LEMMA AppendKeeps ==
  ASSUME NEW S, NEW s \in Seq(S), NEW m \in S
  PROVE  /\ Append(s, m) \in Seq(S) /\ Append(s, m) # <<>> /\ Len(s) \in Nat
         /\ Len(Append(s, m)) = Len(s) + 1 /\ Append(s, m)[Len(s) + 1] = m
         /\ \A j \in 1..Len(s) : Append(s, m)[j] = s[j]
         /\ \A e : Contains(Append(s, m), e) <=> Contains(s, e) \/ m = e
<1>1. /\ Append(s, m) \in Seq(S) /\ Append(s, m) # <<>> /\ Len(s) \in Nat
      /\ Len(Append(s, m)) = Len(s) + 1 /\ Append(s, m)[Len(s) + 1] = m
      /\ \A j \in 1..Len(s) : Append(s, m)[j] = s[j]
  BY AppendProperties
<1>2. \A j : j \in 1..(Len(s) + 1) <=> j \in 1..Len(s) \/ j = Len(s) + 1
  BY <1>1
<1> QED
  BY <1>1, <1>2 DEF Contains

--------------------------------------------------------------------------------
(***************************************************************************)
(* What the state holds.  Only an elevator's door acknowledges, and nobody *)
(* receives beside a call of the elevator.                                 *)
(***************************************************************************)
Sent == {"request", "voice", "hangup"}
Said == {"reply", "answer", "unlock", "hangup"}
Observations == [reply : BOOLEAN, answered : BOOLEAN, unlocks : Nat, hangups : Nat]
Heard == IF tool = "elevator" THEN Said \cup {"ack"} ELSE Said

Typed ==
    /\ tool \in {"ring", "dial", "monitor", "elevator"}
    /\ receiver = "on" => tool # "elevator"
    /\ far \in Machines
    /\ toFar \in Seq(Sent) /\ toUs \in Seq(Heard)
    /\ stop \in BOOLEAN /\ disturbed \in BOOLEAN
    /\ observed \in Observations
    /\ asked \in [answered : BOOLEAN, unlocks : Nat, hungUp : BOOLEAN]

(***************************************************************************)
(* The steps of the main loop that send nothing, and do not end it well.   *)
(***************************************************************************)
Quiet ==
    \/ Resolve \/ Page \/ RequestFails \/ Stopped \/ TimeUp \/ ElevatorFails
    \/ ReceiverFails \/ FarCooldownElapses \/ UNCHANGED vars

LEMMA Steps ==
  ASSUME [Next]_vars
  PROVE  \/ Quiet
         \/ Request \/ Voice \/ Receive
         \/ HangUp /\ tool # "elevator"
         \/ ElevatorAcked /\ tool = "elevator"
         \/ \E i \in DOMAIN toFar : Arrives(i)
         \/ FarAnswers \/ FarUnlocks \/ FarHangsUp \/ Lost
  BY DEF Next, Quiet, Ring, Dial, Monitor, CallElevator, Far

LEMMA QuietSteps ==
  ASSUME Quiet, Typed
  PROVE  /\ UNCHANGED <<tool, stop, observed, toFar, toUs, disturbed, asked, blared>>
         /\ receiver' = "on" => tool # "elevator"
         /\ far' \in Machines /\ far'.phase = far.phase /\ far'.session = far.session
         /\ pc' = "done" <=> pc = "done"
<1>1. CASE Resolve
  BY <1>1 DEF Resolve, Resolved, Unresolved, Goto, channels, history, Typed
<1>2. CASE Page \/ RequestFails \/ Stopped \/ TimeUp \/ ElevatorFails
  BY <1>2 DEF Page, RequestFails, Stopped, TimeUp, ElevatorFails, Goto, channels, history,
              Typed
<1>3. CASE ReceiverFails
  BY <1>3 DEF ReceiverFails, channels, history, Typed
<1>4. CASE FarCooldownElapses
  BY <1>4 DEF FarCooldownElapses, channels, history, Typed, CooledDown, Machines
<1>5. CASE UNCHANGED vars
  BY <1>5 DEF vars, channels, history, Typed
<1> QED
  BY <1>1, <1>2, <1>3, <1>4, <1>5 DEF Quiet

(***************************************************************************)
(* What arrives at the far end, by what it is.                             *)
(***************************************************************************)
LEMMA ArrivesSteps ==
  ASSUME Typed, NEW i \in DOMAIN toFar, Arrives(i)
  PROVE  /\ UNCHANGED <<tool, pc, receiver, stop, observed, asked>>
         /\ toFar' = RemoveAt(toFar, i) /\ disturbed' \in BOOLEAN
         /\ ~disturbed' => ~disturbed /\ i = 1
         /\ toFar[i] # "request" => UNCHANGED toUs
         /\ toFar[i] = "request" =>
              toUs' = Append(toUs, IF tool = "elevator" THEN "ack" ELSE "reply")
         /\ \/ far' = far
            \/ tool # "elevator" /\ far.phase = "Idle"
                 /\ far' = StartCall(far, far.session + 1)
            \/ far' = Hangup(far)
         /\ toFar[i] = "hangup" => far' = Hangup(far)
         /\ toFar[i] # "voice" => blared' = blared
         /\ toFar[i] = "voice" =>
              blared' = (blared \/ (far.phase = "Ringing" /\ far.session = 1))
<1>1. toFar[i] \in Sent
  BY DEF Typed
<1>2. /\ UNCHANGED <<tool, pc, receiver, stop, observed, asked>>
      /\ toFar' = RemoveAt(toFar, i) /\ disturbed' = (disturbed \/ i # 1)
  BY DEF Arrives
<1>3. disturbed' \in BOOLEAN /\ (~disturbed' => ~disturbed /\ i = 1)
  BY <1>2
<1>4. CASE toFar[i] = "request"
  BY <1>2, <1>3, <1>4 DEF Arrives
<1>5. CASE toFar[i] = "voice"
  BY <1>2, <1>3, <1>5 DEF Arrives
<1>6. CASE toFar[i] = "hangup"
  BY <1>2, <1>3, <1>6 DEF Arrives
<1> QED
  BY <1>1, <1>4, <1>5, <1>6 DEF Sent

LEMMA LostSteps ==
  ASSUME Lost
  PROVE  /\ UNCHANGED <<tool, pc, receiver, stop, observed, far, asked, blared>>
         /\ disturbed' = TRUE
         /\ toFar' = toFar \/ \E i \in DOMAIN toFar : toFar' = RemoveAt(toFar, i)
         /\ toUs' = toUs \/ \E i \in DOMAIN toUs : toUs' = RemoveAt(toUs, i)
  BY DEF Lost

(***************************************************************************)
(* What a receiver makes of a packet.                                      *)
(***************************************************************************)
LEMMA ObservedSteps ==
  ASSUME NEW o \in Observations, NEW m \in Said, tool \in {"ring", "dial", "monitor"}
  PROVE  /\ Observed(o, m) \in Observations
         /\ Observed(o, m).answered => o.answered \/ m = "answer"
         /\ o.answered => Observed(o, m).answered
         /\ tool = "ring" =>
              /\ m = "answer" => Observed(o, m).answered
              /\ m = "unlock" => Observed(o, m).unlocks = o.unlocks + 1
              /\ m # "unlock" => Observed(o, m).unlocks = o.unlocks
<1> USE DEF Observations
<1>1. CASE Observed(o, m) = [o EXCEPT !.reply = TRUE] /\ m = "reply"
  BY <1>1
<1>2. CASE Observed(o, m) = [o EXCEPT !.answered = TRUE] /\ m = "answer"
  BY <1>2
<1>3. CASE Observed(o, m) = [o EXCEPT !.unlocks = @ + 1] /\ m = "unlock"
  BY <1>3
<1>4. CASE Observed(o, m) = [o EXCEPT !.hangups = @ + 1] /\ m = "hangup"
  BY <1>4
<1>5. CASE Observed(o, m) = o /\ tool # "ring"
  BY <1>5
<1>6. CASE tool = "ring"
  <2>1. Observed(o, m) = ObservedByDoor(o, m)
    BY <1>6 DEF Observed
  <2> QED
    BY <1>1, <1>2, <1>3, <1>4, <2>1 DEF ObservedByDoor, Said
<1>7. CASE tool = "dial"
  <2>1. Observed(o, m) = ObservedByDialler(o, m)
    BY <1>7 DEF Observed
  <2> QED
    BY <1>2, <1>4, <1>5, <1>7, <2>1 DEF ObservedByDialler, Said
<1>8. CASE tool = "monitor"
  <2>1. Observed(o, m) = ObservedByViewer(o, m)
    BY <1>8 DEF Observed
  <2> QED
    BY <1>1, <1>4, <1>5, <1>8, <2>1 DEF ObservedByViewer, Said
<1> QED
  BY <1>6, <1>7, <1>8

LEMMA ReceiveSteps ==
  ASSUME Typed, Receive
  PROVE  /\ toUs # <<>> /\ toUs' = Tail(toUs) /\ tool # "elevator" /\ Head(toUs) \in Said
         /\ stop' = (stop \/ Head(toUs) = "hangup") /\ stop' \in BOOLEAN
         /\ UNCHANGED <<tool, pc, receiver, far, toFar, disturbed, asked, blared>>
         /\ observed' \in Observations
         /\ observed'.answered => observed.answered \/ Head(toUs) = "answer"
         /\ observed.answered => observed'.answered
         /\ tool = "ring" /\ Head(toUs) = "answer" => observed'.answered
         /\ tool = "ring" /\ Head(toUs) = "unlock" =>
              observed'.unlocks = observed.unlocks + 1
         /\ tool = "ring" /\ Head(toUs) # "unlock" => observed'.unlocks = observed.unlocks
<1>1. /\ toUs # <<>> /\ toUs' = Tail(toUs) /\ stop' = (stop \/ Head(toUs) = "hangup")
      /\ observed' = Observed(observed, Head(toUs))
      /\ UNCHANGED <<tool, pc, receiver, far, toFar, disturbed, asked, blared>>
  BY DEF Receive, history
<1>2. tool \in {"ring", "dial", "monitor"} /\ toUs \in Seq(Said)
  BY DEF Receive, Typed, Heard
<1>3. Head(toUs) \in Said /\ observed \in Observations
  BY <1>1, <1>2, TailKeeps DEF Typed
<1>4. stop' \in BOOLEAN /\ tool # "elevator"
  BY <1>1, <1>2
<1> QED
  BY <1>1, <1>2, <1>3, <1>4, ObservedSteps

(***************************************************************************)
(* What the far end says of its own accord.                                *)
(***************************************************************************)
LEMMA FarSteps ==
  ASSUME Typed, FarAnswers \/ FarUnlocks \/ FarHangsUp
  PROVE  /\ UNCHANGED <<tool, pc, receiver, stop, observed, toFar, disturbed, blared>>
         /\ \E m \in Said : toUs' = Append(toUs, m) /\ (m = "answer" => FarAnswers)
         /\ far' \in Machines /\ far'.session = far.session /\ far.phase # "Idle"
         /\ far'.phase = "Ringing" => far.phase = "Ringing"
         /\ FarAnswers => far.phase = "Ringing" /\ far'.phase = "Connected"
         /\ asked' \in [answered : BOOLEAN, unlocks : Nat, hungUp : BOOLEAN]
<1> USE DEF Says, Said, Typed
<1>0. \A m \in Said : Append(toUs, m)[Len(toUs) + 1] = m
  <2>1. toUs \in Seq(Heard) /\ \A m \in Said : m \in Heard
    BY DEF Heard
  <2> HIDE DEF Said
  <2> QED
    BY <2>1, AppendProperties
<1>1. CASE FarAnswers
  <2>1. far.phase = "Ringing"
    BY <1>1 DEF FarAnswers, RemoteAnswerVerdict
  <2>2. /\ far' = RemoteAnswer(far) /\ toUs' = Append(toUs, "answer")
        /\ asked' = IF asked.hungUp THEN asked ELSE [asked EXCEPT !.answered = TRUE]
        /\ UNCHANGED <<tool, pc, receiver, stop, observed, toFar, disturbed, blared>>
    BY <1>1 DEF FarAnswers
  <2>3. /\ far' \in Machines /\ far'.session = far.session /\ far'.phase = "Connected"
    BY <2>2 DEF RemoteAnswer, Machines, Phases, Owners
  <2>4. asked' \in [answered : BOOLEAN, unlocks : Nat, hungUp : BOOLEAN]
    BY <2>2
  <2> QED
    BY <1>1, <2>1, <2>2, <2>3, <2>4
<1>2. CASE FarUnlocks
  <2>1. /\ far' = Unlock(far) /\ toUs' = Append(toUs, "unlock") /\ far.phase # "Idle"
        /\ asked' = [asked EXCEPT !.unlocks = @ + 1]
        /\ UNCHANGED <<tool, pc, receiver, stop, observed, toFar, disturbed, blared>>
    BY <1>2 DEF FarUnlocks
  <2>2. /\ far' \in Machines /\ far'.session = far.session /\ far'.phase = far.phase
    BY <2>1 DEF Unlock, Machines
  <2>3. asked' \in [answered : BOOLEAN, unlocks : Nat, hungUp : BOOLEAN]
    <3>1. asked \in [answered : BOOLEAN, unlocks : Nat, hungUp : BOOLEAN]
      OBVIOUS
    <3>2. asked.unlocks + 1 \in Nat
      BY <3>1
    <3> HIDE DEF Typed
    <3> QED
      BY <2>1, <3>1, <3>2
  <2>4. ~FarAnswers
    <3>1. Append(toUs, "unlock") # Append(toUs, "answer")
      BY <1>0
    <3> QED
      BY <2>1, <3>1 DEF FarAnswers
  <2> QED
    BY <2>1, <2>2, <2>3, <2>4
<1>3. CASE FarHangsUp
  <2>1. /\ far' = Hangup(far) /\ toUs' = Append(toUs, "hangup") /\ far.phase # "Idle"
        /\ asked' = [asked EXCEPT !.hungUp = TRUE]
        /\ UNCHANGED <<tool, pc, receiver, stop, observed, toFar, disturbed, blared>>
    BY <1>3 DEF FarHangsUp
  <2>2. /\ far' \in Machines /\ far'.session = far.session /\ far'.phase = "Idle"
    BY <2>1 DEF Hangup, Machines, Phases, Owners
  <2>3. asked' \in [answered : BOOLEAN, unlocks : Nat, hungUp : BOOLEAN]
    BY <2>1
  <2>4. ~FarAnswers
    <3>1. Append(toUs, "hangup") # Append(toUs, "answer")
      BY <1>0
    <3> QED
      BY <2>1, <3>1 DEF FarAnswers
  <2>5. \E m \in Said : toUs' = Append(toUs, m) /\ (m = "answer" => FarAnswers)
    BY <2>1
  <2> QED
    BY <2>1, <2>2, <2>3, <2>4, <2>5
<1> QED
  BY <1>1, <1>2, <1>3

(***************************************************************************)
(* The state is what it should be.                                         *)
(***************************************************************************)
LEMMA TypedInvariant == Spec => []Typed
<1>1. Init => Typed
  <2> SUFFICES ASSUME Init PROVE Typed
    OBVIOUS
  <2>1. tool \in {"ring", "dial", "monitor", "elevator"}
    BY EmitterAssumption DEF Init
  <2>2. far \in Machines
    BY DEF Init, NewMachine, Machines, Phases, Owners
  <2>3. toFar \in Seq(Sent) /\ toUs \in Seq(Heard)
    BY DEF Init
  <2>4. observed \in Observations
    BY DEF Init, NothingObserved, Observations
  <2> QED
    BY <2>1, <2>2, <2>3, <2>4 DEF Init, Typed
<1>2. Typed /\ [Next]_vars => Typed'
  <2> SUFFICES ASSUME Typed, [Next]_vars PROVE Typed'
    OBVIOUS
  <2>0. /\ toFar \in Seq(Sent) /\ toUs \in Seq(Heard) /\ far \in Machines
        /\ "reply" \in Heard /\ (tool = "elevator" => "ack" \in Heard)
        /\ \A m \in Said : m \in Heard
    BY DEF Typed, Heard, Said
  <2>1. CASE Quiet
    <3>1. Heard' = Heard
      BY <2>1, QuietSteps DEF Heard
    <3> QED
      BY <2>1, <3>1, QuietSteps DEF Typed
  <2>2. CASE Request \/ Voice \/ HangUp
    <3>1. \E m \in Sent : toFar' = Append(toFar, m)
      BY <2>2 DEF Request, Voice, HangUp, Sent
    <3>2. toFar' \in Seq(Sent)
      BY <2>0, <3>1
    <3>3. /\ UNCHANGED <<tool, stop, observed, far, toUs, disturbed, asked>>
          /\ receiver' \in {receiver, "aborted"}
      BY <2>2 DEF Request, Voice, HangUp, history
    <3>4. Heard' = Heard
      BY <3>3 DEF Heard
    <3> QED
      BY <3>2, <3>3, <3>4 DEF Typed
  <2>3. CASE Receive
    <3>1. toUs' \in Seq(Heard)
      <4>1. toUs # <<>> /\ toUs' = Tail(toUs)
        BY <2>3, ReceiveSteps
      <4> QED
        BY <2>0, <4>1, TailKeeps
    <3>2. Heard' = Heard
      BY <2>3, ReceiveSteps DEF Heard
    <3> QED
      BY <2>3, <3>1, <3>2, ReceiveSteps DEF Typed
  <2>4. CASE ElevatorAcked
    <3>1. /\ toUs # <<>> /\ toUs' = Tail(toUs)
          /\ observed' = [observed EXCEPT !.reply = TRUE]
          /\ UNCHANGED <<tool, receiver, stop, far, toFar, disturbed, asked>>
      BY <2>4 DEF ElevatorAcked, history
    <3>2. toUs' \in Seq(Heard)
      BY <2>0, <3>1, TailKeeps
    <3>3. observed' \in Observations
      BY <3>1 DEF Observations, Typed
    <3>4. Heard' = Heard
      BY <3>1 DEF Heard
    <3> QED
      BY <3>1, <3>2, <3>3, <3>4 DEF Typed
  <2>5. CASE \E i \in DOMAIN toFar : Arrives(i)
    <3>1. PICK i \in DOMAIN toFar : Arrives(i)
      BY <2>5
    <3>2. toFar' \in Seq(Sent)
      BY <2>0, <3>1, ArrivesSteps, RemoveAtKeeps
    <3>3. toUs' \in Seq(Heard)
      <4>1. CASE toFar[i] = "request"
        BY <2>0, <3>1, <4>1, ArrivesSteps
      <4>2. CASE toFar[i] # "request"
        BY <2>0, <3>1, <4>2, ArrivesSteps
      <4> QED
        BY <4>1, <4>2
    <3>4. far' \in Machines
      <4>0. far.session + 1 \in Nat
        BY <2>0 DEF Machines
      <4>1. StartCall(far, far.session + 1) \in Machines
        BY <4>0 DEF StartCall, Machines, Phases, Owners
      <4>2. Hangup(far) \in Machines
        BY <2>0 DEF Hangup, Machines, Phases, Owners
      <4> QED
        BY <2>0, <3>1, <4>1, <4>2, ArrivesSteps
    <3>5. Heard' = Heard
      BY <3>1, ArrivesSteps DEF Heard
    <3> QED
      BY <3>1, <3>2, <3>3, <3>4, <3>5, ArrivesSteps DEF Typed
  <2>6. CASE FarAnswers \/ FarUnlocks \/ FarHangsUp
    <3>1. PICK m \in Said : toUs' = Append(toUs, m)
      BY <2>6, FarSteps
    <3>2. toUs' \in Seq(Heard)
      BY <2>0, <3>1
    <3>3. Heard' = Heard
      BY <2>6, FarSteps DEF Heard
    <3> QED
      BY <2>6, <3>2, <3>3, FarSteps DEF Typed
  <2>7. CASE Lost
    <3>1. toFar' \in Seq(Sent)
      BY <2>0, <2>7, LostSteps, RemoveAtKeeps
    <3>2. toUs' \in Seq(Heard)
      BY <2>0, <2>7, LostSteps, RemoveAtKeeps
    <3>3. Heard' = Heard
      BY <2>7, LostSteps DEF Heard
    <3> QED
      BY <2>7, <3>1, <3>2, <3>3, LostSteps DEF Typed
  <2> QED
    BY <2>1, <2>2, <2>3, <2>4, <2>5, <2>6, <2>7, Steps
<1> QED
  BY <1>1, <1>2, PTL DEF Spec

--------------------------------------------------------------------------------
(***************************************************************************)
(* The end.  The last that a tool sends is a hangup, so that what is under *)
(* way after that ends with it, or the far end has taken it.               *)
(***************************************************************************)
EndInv ==
    /\ tool = "elevator" => far.phase = "Idle"
    /\ tool # "elevator" /\ pc = "done" /\ ~disturbed =>
         IF toFar = <<>> THEN far.phase = "Idle" ELSE toFar[Len(toFar)] = "hangup"

LEMMA EndInvariant == Spec => []EndInv
<1>1. Init => EndInv
  BY DEF Init, EndInv, NewMachine
<1>2. Typed /\ EndInv /\ [Next]_vars => EndInv'
  <2> SUFFICES ASSUME Typed, EndInv, [Next]_vars PROVE EndInv'
    OBVIOUS
  <2>0. /\ toFar \in Seq(Sent) /\ far \in Machines
        /\ Hangup(far).phase = "Idle"
    BY DEF Typed, Hangup, Machines
  <2>1. CASE Quiet
    BY <2>1, QuietSteps DEF EndInv
  <2>2. CASE Request \/ Voice
    BY <2>2 DEF Request, Voice, Goto, EndInv
  <2>3. CASE HangUp /\ tool # "elevator"
    <3>1. toFar' = Append(toFar, "hangup") /\ tool' = tool
      BY <2>3 DEF HangUp
    <3>2. toFar' # <<>> /\ toFar'[Len(toFar')] = "hangup"
      BY <2>0, <3>1, AppendKeeps DEF Sent
    <3> QED
      BY <2>3, <3>1, <3>2 DEF EndInv
  <2>4. CASE ElevatorAcked /\ tool = "elevator"
    BY <2>4 DEF ElevatorAcked, EndInv
  <2>5. CASE Receive
    BY <2>5, ReceiveSteps DEF EndInv
  <2>6. CASE \E i \in DOMAIN toFar : Arrives(i)
    <3>1. PICK i \in DOMAIN toFar : Arrives(i)
      BY <2>6
    <3>2. tool = "elevator" => far'.phase = "Idle"
      BY <2>0, <3>1, ArrivesSteps DEF EndInv
    <3>3. ASSUME tool # "elevator", pc = "done", ~disturbed'
          PROVE  IF toFar' = <<>> THEN far'.phase = "Idle" ELSE toFar'[Len(toFar')] = "hangup"
      <4>1. ~disturbed /\ i = 1 /\ toFar # <<>>
        BY <3>1, <3>3, ArrivesSteps
      <4>2. toFar[Len(toFar)] = "hangup"
        BY <3>3, <4>1 DEF EndInv
      <4>3. toFar' = Tail(toFar)
        BY <2>0, <3>1, <4>1, ArrivesSteps, RemoveAtKeeps
      <4>4. /\ Len(toFar) \in Nat /\ Len(toFar) >= 1 /\ Len(toFar') = Len(toFar) - 1
            /\ \A j \in 1..(Len(toFar) - 1) : toFar'[j] = toFar[j + 1]
        BY <2>0, <4>1, <4>3, TailKeeps
      <4>5. CASE Len(toFar) = 1
        <5>1. toFar[i] = "hangup" /\ far' = Hangup(far)
          BY <3>1, <4>1, <4>2, <4>5, ArrivesSteps
        <5>2. toFar' \in Seq(Sent) /\ Len(toFar') = 0
          BY <2>0, <4>1, <4>3, <4>4, <4>5, TailKeeps
        <5>3. toFar' = <<>>
          BY <5>2, EmptySeq
        <5> QED
          BY <2>0, <5>1, <5>3
      <4>6. CASE Len(toFar) # 1
        <5>1. Len(toFar') \in 1..(Len(toFar) - 1) /\ Len(toFar') + 1 = Len(toFar)
          BY <4>4, <4>6
        <5>2. toFar'[Len(toFar')] = "hangup"
          BY <4>2, <4>4, <5>1
        <5>3. toFar' # <<>>
          BY <5>1
        <5> QED
          BY <5>2, <5>3
      <4> QED
        BY <4>5, <4>6
    <3> QED
      BY <3>1, <3>2, <3>3, ArrivesSteps DEF EndInv
  <2>7. CASE FarAnswers \/ FarUnlocks \/ FarHangsUp
    BY <2>7, FarSteps DEF EndInv
  <2>8. CASE Lost
    BY <2>8, LostSteps DEF EndInv
  <2> QED
    BY <2>1, <2>2, <2>3, <2>4, <2>5, <2>6, <2>7, <2>8, Steps
<1> QED
  BY <1>1, <1>2, TypedInvariant, PTL DEF Spec

(***************************************************************************)
(* Both ends agree that the call is over, however often it was requested:  *)
(* a tool that ends in order sends a hangup, also when it was told of one  *)
(* (run_emulator, run_outbound_call, run_monitor), and nothing after it.   *)
(***************************************************************************)
THEOREM EndsAgree == Spec => []CallsEndTogether
<1>1. EndInv => CallsEndTogether
  BY DEF EndInv, CallsEndTogether
<1> QED
  BY <1>1, EndInvariant, PTL

--------------------------------------------------------------------------------
(***************************************************************************)
(* Voice.  Once the call has been answered, and as long as anything comes  *)
(* of that, the call that was asked for does not ring: what rings later is *)
(* a call that a repeated request began.                                   *)
(***************************************************************************)
FirstRings == far.phase = "Ringing" /\ far.session = 1

AnswerTold == observed.answered \/ Contains(toUs, "answer") \/ Contains(toFar, "voice")

VoiceInv ==
    /\ ~blared
    /\ far.phase = "Ringing" => far.session >= 1
    /\ AnswerTold => far.session >= 1 /\ ~FirstRings

LEMMA VoiceInvariant == Spec => []VoiceInv
<1>1. Init => VoiceInv
  <2> SUFFICES ASSUME Init PROVE VoiceInv
    OBVIOUS
  <2>1. \A e : ~Contains(toUs, e) /\ ~Contains(toFar, e)
    BY DEF Init, Contains
  <2> QED
    BY <2>1 DEF Init, VoiceInv, AnswerTold, NewMachine, NothingObserved
<1>2. Typed /\ VoiceInv /\ [Next]_vars => VoiceInv'
  <2> SUFFICES ASSUME Typed, VoiceInv, [Next]_vars PROVE VoiceInv'
    OBVIOUS
  <2>0. /\ toFar \in Seq(Sent) /\ toUs \in Seq(Heard) /\ far \in Machines
        /\ \A m \in Said : m \in Heard
        /\ far.session \in Nat
    BY DEF Typed, Heard, Machines
  <2>1. ASSUME UNCHANGED blared, AnswerTold' => AnswerTold,
               far'.phase = far.phase /\ far'.session = far.session
        PROVE  VoiceInv'
    BY <2>1 DEF VoiceInv, FirstRings
  <2>2. CASE Quiet
    BY <2>1, <2>2, QuietSteps DEF AnswerTold
  <2>3. CASE Request \/ HangUp
    <3>1. \E m \in {"request", "hangup"} : toFar' = Append(toFar, m)
      BY <2>3 DEF Request, HangUp
    <3>2. Contains(toFar', "voice") => Contains(toFar, "voice")
      BY <2>0, <3>1, AppendKeeps DEF Sent
    <3> QED
      BY <2>1, <2>3, <3>2 DEF Request, HangUp, AnswerTold, history
  <2>4. CASE Voice
    BY <2>1, <2>4 DEF Voice, AnswerTold, history
  <2>5. CASE Receive
    <3>1. Contains(toUs', "answer") => Contains(toUs, "answer")
      BY <2>0, <2>5, ReceiveSteps, TailKeeps
    <3>2. observed'.answered => observed.answered \/ Contains(toUs, "answer")
      BY <2>0, <2>5, ReceiveSteps, TailKeeps
    <3> QED
      BY <2>1, <2>5, <3>1, <3>2, ReceiveSteps DEF AnswerTold
  <2>6. CASE ElevatorAcked
    <3>1. /\ toUs # <<>> /\ toUs' = Tail(toUs)
          /\ observed' = [observed EXCEPT !.reply = TRUE]
          /\ UNCHANGED <<far, toFar, blared>>
      BY <2>6 DEF ElevatorAcked, history
    <3>2. Contains(toUs', "answer") => Contains(toUs, "answer")
      BY <2>0, <3>1, TailKeeps
    <3>3. observed'.answered = observed.answered
      BY <3>1 DEF Typed, Observations
    <3> QED
      BY <2>1, <3>1, <3>2, <3>3 DEF AnswerTold
  <2>7. CASE \E i \in DOMAIN toFar : Arrives(i)
    <3>1. PICK i \in DOMAIN toFar : Arrives(i)
      BY <2>7
    <3>2. Contains(toFar', "voice") => Contains(toFar, "voice")
      BY <2>0, <3>1, ArrivesSteps, RemoveAtKeeps
    <3>3. Contains(toUs', "answer") => Contains(toUs, "answer")
      <4>1. "reply" \in Heard /\ (tool = "elevator" => "ack" \in Heard)
        BY DEF Heard, Said
      <4>2. CASE toFar[i] = "request"
        <5>1. PICK m \in Heard : m # "answer" /\ toUs' = Append(toUs, m)
          BY <3>1, <4>1, <4>2, ArrivesSteps
        <5> QED
          BY <2>0, <5>1, AppendKeeps
      <4>3. CASE toFar[i] # "request"
        BY <3>1, <4>3, ArrivesSteps
      <4> QED
        BY <4>2, <4>3
    <3>4. AnswerTold' => AnswerTold
      BY <3>1, <3>2, <3>3, ArrivesSteps DEF AnswerTold
    <3>5. ~blared'
      <4>1. CASE toFar[i] = "voice"
        <5>1. AnswerTold
          BY <4>1 DEF AnswerTold, Contains
        <5> QED
          BY <3>1, <4>1, <5>1, ArrivesSteps DEF VoiceInv, FirstRings
      <4>2. CASE toFar[i] # "voice"
        BY <3>1, <4>2, ArrivesSteps DEF VoiceInv
      <4> QED
        BY <4>1, <4>2
    <3>6. CASE far' = far
      BY <3>4, <3>5, <3>6 DEF VoiceInv, FirstRings
    <3>7. CASE far' = StartCall(far, far.session + 1)
      <4>1. far'.session = far.session + 1
        BY <3>7 DEF StartCall
      <4>2. far'.session >= 1
        BY <2>0, <4>1
      <4>3. far.session >= 1 => far'.session # 1
        BY <2>0, <4>1
      <4>4. AnswerTold' => far'.session >= 1 /\ ~FirstRings'
        BY <3>4, <4>2, <4>3 DEF VoiceInv, FirstRings
      <4> QED
        BY <3>5, <4>2, <4>4 DEF VoiceInv
    <3>8. CASE far' = Hangup(far)
      <4>1. far'.phase = "Idle" /\ far'.session = far.session
        BY <2>0, <3>8 DEF Hangup, Machines
      <4> QED
        BY <3>4, <3>5, <4>1 DEF VoiceInv, FirstRings
    <3> QED
      BY <3>1, <3>6, <3>7, <3>8, ArrivesSteps
  <2>8. CASE FarAnswers
    <3>1. far'.phase = "Connected" /\ far'.session = far.session /\ far.phase = "Ringing"
          /\ blared' = blared
      BY <2>8, FarSteps
    <3> QED
      BY <3>1 DEF VoiceInv, FirstRings
  <2>9. CASE (FarUnlocks \/ FarHangsUp) /\ ~FarAnswers
    <3>1. PICK m \in Said : toUs' = Append(toUs, m) /\ m # "answer"
      BY <2>9, FarSteps
    <3>2. Contains(toUs', "answer") => Contains(toUs, "answer")
      BY <2>0, <3>1, AppendKeeps
    <3>3. AnswerTold' => AnswerTold
      BY <2>9, <3>2, FarSteps DEF AnswerTold
    <3> QED
      BY <2>9, <3>3, FarSteps DEF VoiceInv, FirstRings
  <2>10. CASE Lost
    <3>1. Contains(toFar', "voice") => Contains(toFar, "voice")
      BY <2>0, <2>10, LostSteps, RemoveAtKeeps
    <3>2. Contains(toUs', "answer") => Contains(toUs, "answer")
      BY <2>0, <2>10, LostSteps, RemoveAtKeeps
    <3> QED
      BY <2>1, <2>10, <3>1, <3>2, LostSteps DEF AnswerTold
  <2> QED
    BY <2>2, <2>3, <2>4, <2>5, <2>6, <2>7, <2>8, <2>9, <2>10, Steps
<1> QED
  BY <1>1, <1>2, TypedInvariant, PTL DEF Spec

(***************************************************************************)
(* No voice reaches a Pad while the call that was asked for rings, even if *)
(* packets are lost or overtake each other: the microphone waits for the   *)
(* answer (run_emulator, run_outbound_call), and no later call has the     *)
(* number of the first.                                                    *)
(***************************************************************************)
THEOREM RingsUndisturbed == Spec => []NoVoiceWhileRinging
<1>1. VoiceInv => NoVoiceWhileRinging
  BY DEF VoiceInv, NoVoiceWhileRinging
<1> QED
  BY <1>1, VoiceInvariant, PTL

--------------------------------------------------------------------------------
(***************************************************************************)
(* The report.  What a door has sent and the receiver has yet to take:     *)
(* how many unlocks, that they come before any hangup, and whether there   *)
(* is an answer that comes before any.                                     *)
(***************************************************************************)
Unlocks(s) == {i \in 1..Len(s) : s[i] = "unlock"}

UnlocksFirst(s) ==
    \A i, j \in 1..Len(s) : s[i] = "hangup" /\ s[j] = "unlock" => j < i

AnswerFirst(s) ==
    \E i \in 1..Len(s) : s[i] = "answer" /\ \A j \in 1..(i - 1) : s[j] # "hangup"

LEMMA UnlocksAreFinite ==
  ASSUME NEW S, NEW s \in Seq(S)
  PROVE  IsFiniteSet(Unlocks(s)) /\ Cardinality(Unlocks(s)) \in Nat
<1>1. Len(s) \in Nat /\ IsFiniteSet(1..Len(s))
  BY FS_Interval
<1>2. Unlocks(s) \in SUBSET (1..Len(s))
  BY DEF Unlocks
<1>3. IsFiniteSet(Unlocks(s))
  BY <1>1, <1>2, FS_Subset
<1> QED
  BY <1>3, FS_CardinalityType

LEMMA TailReports ==
  ASSUME NEW S, NEW s \in Seq(S), s # <<>>
  PROVE  /\ Head(s) = "unlock" =>
              Cardinality(Unlocks(s)) = Cardinality(Unlocks(Tail(s))) + 1
         /\ Head(s) # "unlock" => Cardinality(Unlocks(s)) = Cardinality(Unlocks(Tail(s)))
         /\ UnlocksFirst(s) => UnlocksFirst(Tail(s))
         /\ UnlocksFirst(s) /\ Head(s) = "hangup" => ~Contains(Tail(s), "unlock")
         /\ AnswerFirst(s) =>
              Head(s) = "answer" \/ (Head(s) # "hangup" /\ AnswerFirst(Tail(s)))
<1> DEFINE t == Tail(s)
           later == {i + 1 : i \in Unlocks(t)}
           shift == [i \in Unlocks(t) |-> i + 1]
<1>1. /\ t \in Seq(S) /\ Head(s) = s[1] /\ Len(s) \in Nat /\ Len(s) >= 1
      /\ Len(t) = Len(s) - 1 /\ Len(t) \in Nat
      /\ \A j \in 1..Len(t) : t[j] = s[j + 1]
  BY TailKeeps
<1> HIDE DEF t
<1>2. Cardinality(later) = Cardinality(Unlocks(t)) /\ IsFiniteSet(later)
  <2>1. shift \in Bijection(Unlocks(t), later)
    <3>1. shift \in [Unlocks(t) -> later]
      OBVIOUS
    <3>2. \A a, b \in Unlocks(t) : shift[a] = shift[b] => a = b
      BY <1>1 DEF Unlocks
    <3>3. \A x \in later : \E a \in Unlocks(t) : shift[a] = x
      OBVIOUS
    <3> HIDE DEF shift, later
    <3> QED
      BY <3>1, <3>2, <3>3 DEF Bijection, Injection, Surjection, IsInjective
  <2>2. IsFiniteSet(Unlocks(t))
    BY <1>1, UnlocksAreFinite
  <2> QED
    BY <2>1, <2>2, FS_Bijection DEF ExistsBijection
<1>3. ASSUME NEW i
      PROVE  i \in Unlocks(s) <=> i \in later \/ (i = 1 /\ Head(s) = "unlock")
  <2>1. ASSUME i \in later
        PROVE  i \in Unlocks(s)
    <3>1. PICK k \in Unlocks(t) : i = k + 1
      BY <2>1
    <3> QED
      BY <1>1, <3>1 DEF Unlocks
  <2>2. ASSUME i \in Unlocks(s), i # 1
        PROVE  i \in later
    <3>1. i - 1 \in 1..Len(t) /\ (i - 1) + 1 = i /\ s[i] = "unlock"
      BY <1>1, <2>2 DEF Unlocks
    <3>2. i - 1 \in Unlocks(t)
      BY <1>1, <3>1 DEF Unlocks
    <3> QED
      BY <3>1, <3>2
  <2>3. 1 \in Unlocks(s) <=> Head(s) = "unlock"
    BY <1>1 DEF Unlocks
  <2> HIDE DEF later
  <2> QED
    BY <2>1, <2>2, <2>3
<1>4. 1 \notin later
  BY <1>1 DEF Unlocks
<1> HIDE DEF later
<1>5. ASSUME Head(s) = "unlock"
      PROVE  Cardinality(Unlocks(s)) = Cardinality(Unlocks(t)) + 1
  <2>1. Unlocks(s) = later \cup {1}
    BY <1>3, <1>5
  <2> QED
    BY <1>2, <1>4, <2>1, FS_AddElement
<1>6. ASSUME Head(s) # "unlock"
      PROVE  Cardinality(Unlocks(s)) = Cardinality(Unlocks(t))
  <2>1. Unlocks(s) = later
    BY <1>3, <1>6
  <2> QED
    BY <1>2, <2>1
<1>7. \A i \in 1..Len(t) : i \in Nat /\ i >= 1 /\ i + 1 \in 1..Len(s)
  BY <1>1
<1>8. ASSUME UnlocksFirst(s)
      PROVE  UnlocksFirst(t) /\ (Head(s) = "hangup" => ~Contains(t, "unlock"))
  <2>1. ASSUME NEW i \in 1..Len(t), NEW j \in 1..Len(t), t[i] = "hangup", t[j] = "unlock"
        PROVE  j < i
    <3>1. j + 1 < i + 1
      BY <1>1, <1>7, <1>8, <2>1 DEF UnlocksFirst
    <3> QED
      BY <1>7, <3>1
  <2>2. ASSUME NEW j \in 1..Len(t), t[j] = "unlock", Head(s) = "hangup"
        PROVE  FALSE
    <3>1. s[1] = "hangup" /\ s[j + 1] = "unlock" /\ j + 1 \in 1..Len(s) /\ 1 \in 1..Len(s)
      BY <1>1, <1>7, <2>2
    <3>2. j + 1 < 1
      BY <1>8, <3>1 DEF UnlocksFirst
    <3> QED
      BY <1>7, <3>2
  <2> QED
    BY <2>1, <2>2 DEF UnlocksFirst, Contains
<1>9. ASSUME AnswerFirst(s), Head(s) # "answer"
      PROVE  Head(s) # "hangup" /\ AnswerFirst(t)
  <2>1. PICK i \in 1..Len(s) : s[i] = "answer" /\ \A j \in 1..(i - 1) : s[j] # "hangup"
    BY <1>9 DEF AnswerFirst
  <2>2. i - 1 \in 1..Len(t) /\ (i - 1) + 1 = i /\ 1 \in 1..(i - 1)
    BY <1>1, <1>9, <2>1
  <2>3. t[i - 1] = "answer"
    BY <1>1, <2>1, <2>2
  <2>4. \A j \in 1..((i - 1) - 1) : t[j] # "hangup"
    <3> SUFFICES ASSUME NEW j \in 1..((i - 1) - 1) PROVE t[j] # "hangup"
      OBVIOUS
    <3>1. j \in 1..Len(t) /\ j + 1 \in 1..(i - 1)
      BY <1>1, <2>2
    <3> QED
      BY <1>1, <2>1, <3>1
  <2> QED
    BY <1>1, <2>1, <2>2, <2>3, <2>4 DEF AnswerFirst
<1> QED
  BY <1>5, <1>6, <1>8, <1>9 DEF t

LEMMA AppendReports ==
  ASSUME NEW S, NEW s \in Seq(S), NEW m \in S
  PROVE  /\ m = "unlock" =>
              Cardinality(Unlocks(Append(s, m))) = Cardinality(Unlocks(s)) + 1
         /\ m # "unlock" => Cardinality(Unlocks(Append(s, m))) = Cardinality(Unlocks(s))
         /\ UnlocksFirst(s) /\ (m = "unlock" => ~Contains(s, "hangup")) =>
              UnlocksFirst(Append(s, m))
         /\ AnswerFirst(s) => AnswerFirst(Append(s, m))
         /\ m = "answer" /\ ~Contains(s, "hangup") => AnswerFirst(Append(s, m))
<1> DEFINE a == Append(s, m)
           n == Len(s) + 1
<1>1. /\ Len(s) \in Nat /\ Len(a) = n /\ a[n] = m
      /\ \A j \in 1..Len(s) : a[j] = s[j]
  BY AppendKeeps
<1> HIDE DEF a
<1>2. IsFiniteSet(Unlocks(s)) /\ n \notin Unlocks(s)
  BY <1>1, UnlocksAreFinite DEF Unlocks
<1>3. \A i : i \in 1..n <=> i \in 1..Len(s) \/ i = n
  BY <1>1
<1>4. \A i : i \in Unlocks(a) <=> i \in Unlocks(s) \/ (i = n /\ m = "unlock")
  BY <1>1, <1>3 DEF Unlocks
<1>5. ASSUME m = "unlock"
      PROVE  Cardinality(Unlocks(a)) = Cardinality(Unlocks(s)) + 1
  <2>1. Unlocks(a) = Unlocks(s) \cup {n}
    BY <1>4, <1>5
  <2> QED
    BY <1>2, <2>1, FS_AddElement
<1>6. ASSUME m # "unlock"
      PROVE  Cardinality(Unlocks(a)) = Cardinality(Unlocks(s))
  <2>1. Unlocks(a) = Unlocks(s)
    BY <1>4, <1>6
  <2> QED
    BY <2>1
<1>7. ASSUME UnlocksFirst(s), m = "unlock" => ~Contains(s, "hangup")
      PROVE  UnlocksFirst(a)
  <2> SUFFICES ASSUME NEW i \in 1..n, NEW j \in 1..n, a[i] = "hangup", a[j] = "unlock"
               PROVE  j < i
    BY <1>1 DEF UnlocksFirst
  <2>1. CASE i \in 1..Len(s) /\ j \in 1..Len(s)
    BY <1>1, <1>7, <2>1 DEF UnlocksFirst
  <2>2. CASE i = n
    <3>1. j \in 1..Len(s)
      BY <1>1, <1>3, <2>2
    <3> QED
      BY <1>1, <2>2, <3>1
  <2>3. CASE i \in 1..Len(s) /\ j = n
    <3>1. m = "unlock" /\ Contains(s, "hangup")
      BY <1>1, <2>3 DEF Contains
    <3> QED
      BY <1>7, <3>1
  <2> QED
    BY <1>3, <2>1, <2>2, <2>3
<1>8. ASSUME AnswerFirst(s)
      PROVE  AnswerFirst(a)
  <2>1. PICK i \in 1..Len(s) : s[i] = "answer" /\ \A j \in 1..(i - 1) : s[j] # "hangup"
    BY <1>8 DEF AnswerFirst
  <2>2. \A j \in 1..(i - 1) : j \in 1..Len(s)
    BY <1>1
  <2>3. a[i] = "answer" /\ \A j \in 1..(i - 1) : a[j] # "hangup"
    BY <1>1, <2>1, <2>2
  <2> QED
    BY <1>1, <1>3, <2>1, <2>3 DEF AnswerFirst
<1>9. ASSUME m = "answer", ~Contains(s, "hangup")
      PROVE  AnswerFirst(a)
  <2>1. \A j \in 1..(n - 1) : j \in 1..Len(s) /\ s[j] # "hangup"
    BY <1>1, <1>9 DEF Contains
  <2>2. a[n] = "answer" /\ \A j \in 1..(n - 1) : a[j] # "hangup"
    BY <1>1, <1>9, <2>1
  <2> QED
    BY <1>1, <1>3, <2>2 DEF AnswerFirst
<1> QED
  BY <1>5, <1>6, <1>7, <1>8, <1>9 DEF a

(***************************************************************************)
(* While nothing is lost, what was observed and what is on its way are     *)
(* together what the far end had sent before its hangup.                   *)
(***************************************************************************)
UnlocksAddUp == observed.unlocks + Cardinality(Unlocks(toUs)) = asked.unlocks

HangupIsLast ==
    /\ stop \/ Contains(toUs, "hangup") => asked.hungUp
    /\ UnlocksFirst(toUs)
    /\ stop => ~Contains(toUs, "unlock")

AnswerIsComing ==
    asked.answered => observed.answered \/ (~stop /\ AnswerFirst(toUs))

ReportInv ==
    tool = "ring" /\ ~disturbed => UnlocksAddUp /\ HangupIsLast /\ AnswerIsComing

LEMMA ReceiveReports ==
  ASSUME Typed, UnlocksAddUp, HangupIsLast, AnswerIsComing, tool = "ring", Receive
  PROVE  UnlocksAddUp' /\ HangupIsLast' /\ AnswerIsComing'
<1>1. toUs \in Seq(Heard) /\ toUs # <<>> /\ toUs' = Tail(toUs) /\ asked' = asked
  BY ReceiveSteps DEF Typed
<1>2. UnlocksAddUp'
  <2>1. /\ observed.unlocks \in Nat /\ asked.unlocks \in Nat
        /\ Cardinality(Unlocks(toUs)) \in Nat
    BY <1>1, UnlocksAreFinite DEF Typed, Observations
  <2>2. toUs' \in Seq(Heard)
    BY <1>1, TailKeeps
  <2>3. Cardinality(Unlocks(toUs')) \in Nat
    BY <2>2, UnlocksAreFinite
  <2>4. CASE Head(toUs) = "unlock"
    <3>1. observed'.unlocks = observed.unlocks + 1
      BY <2>4, ReceiveSteps
    <3>2. Cardinality(Unlocks(toUs)) = Cardinality(Unlocks(toUs')) + 1
      BY <1>1, <2>4, TailReports
    <3>3. observed.unlocks + Cardinality(Unlocks(toUs)) = asked.unlocks
      BY DEF UnlocksAddUp
    <3>4. (observed.unlocks + 1) + Cardinality(Unlocks(toUs')) = asked.unlocks
      BY <2>1, <2>3, <3>2, <3>3
    <3>5. observed'.unlocks + Cardinality(Unlocks(toUs')) = asked'.unlocks
      BY <1>1, <3>1, <3>4
    <3> QED
      BY <3>5 DEF UnlocksAddUp
  <2>5. CASE Head(toUs) # "unlock"
    <3>1. observed'.unlocks = observed.unlocks
      BY <2>5, ReceiveSteps
    <3>2. Cardinality(Unlocks(toUs)) = Cardinality(Unlocks(toUs'))
      BY <1>1, <2>5, TailReports
    <3> QED
      BY <1>1, <3>1, <3>2 DEF UnlocksAddUp
  <2> QED
    BY <2>4, <2>5
<1>3. stop' = (stop \/ Head(toUs) = "hangup")
  BY ReceiveSteps
<1>4. HangupIsLast'
  <2>1. Contains(toUs', "hangup") \/ Head(toUs) = "hangup" => Contains(toUs, "hangup")
    BY <1>1, TailKeeps
  <2>2. UnlocksFirst(toUs')
    BY <1>1, TailReports DEF HangupIsLast
  <2>3. stop => ~Contains(toUs', "unlock")
    BY <1>1, TailKeeps DEF HangupIsLast
  <2>4. Head(toUs) = "hangup" => ~Contains(toUs', "unlock")
    BY <1>1, TailReports DEF HangupIsLast
  <2> QED
    BY <1>1, <1>3, <2>1, <2>2, <2>3, <2>4 DEF HangupIsLast
<1>5. AnswerIsComing'
  <2>1. AnswerFirst(toUs) =>
          Head(toUs) = "answer" \/ (Head(toUs) # "hangup" /\ AnswerFirst(toUs'))
    BY <1>1, TailReports
  <2>2. observed.answered \/ Head(toUs) = "answer" => observed'.answered
    BY ReceiveSteps
  <2> QED
    BY <1>1, <1>3, <2>1, <2>2 DEF AnswerIsComing
<1> QED
  BY <1>2, <1>4, <1>5

\* The far end says m, which is told of if it has not hung up before.
LEMMA SaysReports ==
  ASSUME Typed, UnlocksAddUp, HangupIsLast, AnswerIsComing, UNCHANGED <<stop, observed>>,
         NEW m \in Heard, toUs' = Append(toUs, m),
         m = "unlock" => ~asked.hungUp /\ asked'.unlocks = asked.unlocks + 1,
         m # "unlock" => asked'.unlocks = asked.unlocks,
         asked'.hungUp <=> asked.hungUp \/ m = "hangup",
         asked'.answered <=> asked.answered \/ (m = "answer" /\ ~asked.hungUp)
  PROVE  UnlocksAddUp' /\ HangupIsLast' /\ AnswerIsComing'
<1>1. toUs \in Seq(Heard)
  BY DEF Typed
<1>2. UnlocksAddUp'
  <2>1. /\ observed.unlocks \in Nat /\ asked.unlocks \in Nat
        /\ Cardinality(Unlocks(toUs)) \in Nat
    BY <1>1, UnlocksAreFinite DEF Typed, Observations
  <2>2. CASE m = "unlock"
    <3>1. Cardinality(Unlocks(toUs')) = Cardinality(Unlocks(toUs)) + 1
      BY <1>1, <2>2, AppendReports
    <3> QED
      BY <2>1, <2>2, <3>1 DEF UnlocksAddUp
  <2>3. CASE m # "unlock"
    <3>1. Cardinality(Unlocks(toUs')) = Cardinality(Unlocks(toUs))
      BY <1>1, <2>3, AppendReports
    <3> QED
      BY <2>3, <3>1 DEF UnlocksAddUp
  <2> QED
    BY <2>2, <2>3
<1>3. \A e : Contains(toUs', e) <=> Contains(toUs, e) \/ m = e
  BY <1>1, AppendKeeps
<1>4. HangupIsLast'
  <2>1. UnlocksFirst(toUs')
    BY <1>1, AppendReports DEF HangupIsLast
  <2> QED
    BY <1>3, <2>1 DEF HangupIsLast
<1>5. AnswerIsComing'
  <2>1. AnswerFirst(toUs) => AnswerFirst(toUs')
    BY <1>1, AppendReports
  <2>2. m = "answer" /\ ~asked.hungUp => AnswerFirst(toUs') /\ ~stop
    BY <1>1, AppendReports DEF HangupIsLast
  <2> QED
    BY <2>1, <2>2 DEF AnswerIsComing
<1> QED
  BY <1>2, <1>4, <1>5

LEMMA FarReports ==
  ASSUME Typed, UnlocksAddUp, HangupIsLast, AnswerIsComing,
         FarAnswers \/ FarUnlocks \/ FarHangsUp
  PROVE  UnlocksAddUp' /\ HangupIsLast' /\ AnswerIsComing'
<1>1. /\ UNCHANGED <<stop, observed>>
      /\ \A m \in Said : m \in Heard
      /\ asked \in [answered : BOOLEAN, unlocks : Nat, hungUp : BOOLEAN]
  BY FarSteps DEF Typed, Heard
<1>2. CASE FarAnswers
  <2>1. /\ toUs' = Append(toUs, "answer")
        /\ asked' = IF asked.hungUp THEN asked ELSE [asked EXCEPT !.answered = TRUE]
    BY <1>2 DEF FarAnswers, Says
  <2>2. /\ asked'.unlocks = asked.unlocks /\ (asked'.hungUp <=> asked.hungUp)
        /\ asked'.answered <=> asked.answered \/ ~asked.hungUp
    BY <1>1, <2>1
  <2> QED
    BY <1>1, <2>1, <2>2, SaysReports DEF Said
<1>3. CASE FarUnlocks
  <2>1. /\ toUs' = Append(toUs, "unlock") /\ ~asked.hungUp
        /\ asked' = [asked EXCEPT !.unlocks = @ + 1]
    BY <1>3 DEF FarUnlocks, Says
  <2>2. /\ asked'.unlocks = asked.unlocks + 1 /\ (asked'.hungUp <=> asked.hungUp)
        /\ asked'.answered <=> asked.answered
    BY <1>1, <2>1
  <2> QED
    BY <1>1, <2>1, <2>2, SaysReports DEF Said
<1>4. CASE FarHangsUp
  <2>1. /\ toUs' = Append(toUs, "hangup")
        /\ asked' = [asked EXCEPT !.hungUp = TRUE]
    BY <1>4 DEF FarHangsUp, Says
  <2>2. /\ asked'.unlocks = asked.unlocks /\ asked'.hungUp
        /\ asked'.answered <=> asked.answered
    BY <1>1, <2>1
  <2> QED
    BY <1>1, <2>1, <2>2, SaysReports DEF Said
<1> QED
  BY <1>2, <1>3, <1>4

LEMMA ReportInvariant == Spec => []ReportInv
<1>1. Init => ReportInv
  <2> SUFFICES ASSUME Init PROVE ReportInv
    OBVIOUS
  <2>1. toUs = <<>> /\ Len(toUs) = 0
    BY DEF Init
  <2>2. Unlocks(toUs) = {} /\ UnlocksFirst(toUs) /\ \A e : ~Contains(toUs, e)
    BY <2>1 DEF Unlocks, UnlocksFirst, Contains
  <2>3. UnlocksAddUp
    <3>1. Cardinality(Unlocks(toUs)) = 0
      BY <2>2, FS_EmptySet
    <3>2. observed.unlocks = 0 /\ asked.unlocks = 0
      BY DEF Init, NothingObserved
    <3> QED
      BY <3>1, <3>2 DEF UnlocksAddUp
  <2> QED
    BY <2>2, <2>3 DEF Init, ReportInv, HangupIsLast, AnswerIsComing
<1>2. Typed /\ ReportInv /\ [Next]_vars => ReportInv'
  <2> SUFFICES ASSUME Typed, ReportInv, [Next]_vars, tool' = "ring", ~disturbed'
               PROVE  UnlocksAddUp' /\ HangupIsLast' /\ AnswerIsComing'
    BY DEF ReportInv
  <2>0. ASSUME UNCHANGED <<tool, disturbed, stop, observed, toUs, asked>>
        PROVE  UnlocksAddUp' /\ HangupIsLast' /\ AnswerIsComing'
    BY <2>0 DEF ReportInv, UnlocksAddUp, HangupIsLast, AnswerIsComing
  <2>1. CASE Quiet
    BY <2>0, <2>1, QuietSteps
  <2>2. CASE Request \/ Voice \/ HangUp
    BY <2>0, <2>2 DEF Request, Voice, HangUp, history
  <2>3. CASE Receive
    BY <2>3, ReceiveSteps, ReceiveReports DEF ReportInv
  <2>4. CASE ElevatorAcked /\ tool = "elevator"
    BY <2>4 DEF ElevatorAcked
  <2>5. CASE \E i \in DOMAIN toFar : Arrives(i)
    <3>1. PICK i \in DOMAIN toFar : Arrives(i)
      BY <2>5
    <3>2. tool = "ring" /\ ~disturbed /\ UNCHANGED <<stop, observed, asked>>
      BY <3>1, ArrivesSteps
    <3>3. CASE toUs' = toUs
      BY <3>2, <3>3 DEF ReportInv, UnlocksAddUp, HangupIsLast, AnswerIsComing
    <3>4. CASE toUs' = Append(toUs, "reply")
      BY <3>2, <3>4, SaysReports DEF ReportInv, Heard, Said
    <3> QED
      BY <3>1, <3>2, <3>3, <3>4, ArrivesSteps
  <2>6. CASE FarAnswers \/ FarUnlocks \/ FarHangsUp
    BY <2>6, FarSteps, FarReports DEF ReportInv
  <2>7. CASE Lost
    BY <2>7, LostSteps
  <2> QED
    BY <2>1, <2>2, <2>3, <2>4, <2>5, <2>6, <2>7, Steps
<1> QED
  BY <1>1, <1>2, TypedInvariant, PTL DEF Spec

(***************************************************************************)
(* When a far end's hangup has ended a ring, the report has the answer and *)
(* every unlock that came before it, however many there were and whatever  *)
(* came after (observe_reply, run_emulator), unless packets were lost.     *)
(***************************************************************************)
THEOREM ReportTellsAll == Spec => []ReportIsComplete
<1>1. Typed /\ ReportInv => ReportIsComplete
  <2> SUFFICES ASSUME Typed, ReportInv, tool = "ring", stop, ~disturbed
               PROVE  /\ asked.answered => observed.answered
                      /\ observed.unlocks = asked.unlocks
    BY DEF ReportIsComplete
  <2>1. ~Contains(toUs, "unlock") /\ (asked.answered => observed.answered)
    BY DEF ReportInv, HangupIsLast, AnswerIsComing
  <2>2. Unlocks(toUs) = {}
    BY <2>1 DEF Unlocks, Contains
  <2>3. observed.unlocks + 0 = asked.unlocks
    BY <2>2, FS_EmptySet, Zenon DEF ReportInv, UnlocksAddUp
  <2>4. observed.unlocks \in Nat
    BY DEF Typed, Observations
  <2> QED
    BY <2>1, <2>3, <2>4
<1> QED
  BY <1>1, TypedInvariant, ReportInvariant, PTL

================================================================================
