------------------------------ MODULE BenchProofs -------------------------------
(***************************************************************************)
(* Theorems about the programs of Bench, for any number of workers,        *)
(* command ids, requests, rings and passes, any capture, and any number of *)
(* HTTP threads of the Python Pad.                                         *)
(***************************************************************************)
EXTENDS Bench, FiniteSetTheorems, TLAPS

--------------------------------------------------------------------------------
(***************************************************************************)
(* The simulated Agents: the machine.  A call that is over has no owner,   *)
(* only the door station has a console that is busy, and the calls of the  *)
(* replay Agent all have the session of the capture.                       *)
(***************************************************************************)
Placed ==
    /\ pc \in [Workers -> {"idle", "session", "lock", "push", "stop", "store"}]
    /\ action \in [Workers -> Actions]
    /\ session \in [Workers -> Nat] /\ stamp \in [Workers -> Nat]
    /\ console \in {"prompt", "announce", "stream", "stop", "ended", "stopIdle"}
    /\ clock \in Nat

MachineInv ==
    /\ Placed
    /\ machine \in Machines
    /\ machine.phase = "Idle" => machine.owner = "None"
    /\ kind # "station" => console = "prompt"
    /\ kind = "replay" /\ machine.phase # "Idle" => machine.session = CapturedSession

\* What a client sees of the machine stays as it is.
SameCall ==
    /\ machine'.phase = machine.phase /\ machine'.owner = machine.owner
    /\ machine'.session = machine.session

LEMMA AfterKeeps ==
  ASSUME machine \in Machines, machine.phase = "Idle" => machine.owner = "None",
         NEW a \in Actions, Verdict(a) = "Ok"
  PROVE  /\ After(a) \in Machines /\ After(a).session = machine.session
         /\ After(a).phase = "Idle" => After(a).owner = "None"
         /\ a = "Claim" => After(a).phase = "Connected" /\ After(a).owner = "Remote"
         /\ a = "Hangup" => machine.phase # "Idle" /\ After(a).phase = "Idle"
         /\ a = "Unlock" => After(a).phase = machine.phase /\ After(a).owner = machine.owner
         /\ a # "Hangup" => (After(a).phase = "Idle" <=> machine.phase = "Idle")
<1> USE DEF Machines, Phases, Owners
<1>1. CASE a = "Claim"
  <2>1. machine.phase = "Ringing"
    BY <1>1 DEF Verdict, RemoteAnswerVerdict
  <2>2. After(a) = RemoteAnswer(machine)
    BY <1>1 DEF After
  <2> QED
    BY <1>1, <2>1, <2>2 DEF RemoteAnswer
<1>2. CASE a = "Unlock"
  <2>1. After(a) = Unlock(machine)
    BY <1>2 DEF After
  <2> QED
    BY <1>2, <2>1 DEF Unlock
<1>3. CASE a = "Hangup"
  <2>1. machine.phase # "Idle"
    BY <1>3 DEF Verdict
  <2>2. After(a) = Hangup(machine)
    BY <1>3 DEF After
  <2> QED
    BY <1>3, <2>1, <2>2 DEF Hangup
<1> QED
  BY <1>1, <1>2, <1>3 DEF Actions

(***************************************************************************)
(* The machine of either simulated Agent, step by step.                    *)
(***************************************************************************)
LEMMA MachineGoes ==
  ASSUME MachineInv, Placed', machine' \in Machines, kind' = kind,
         machine'.phase = "Idle" => machine'.owner = "None",
         kind # "station" => console' = "prompt",
         kind = "replay" /\ machine'.phase # "Idle" =>
           machine'.session = CapturedSession
  PROVE  MachineInv'
  BY DEF MachineInv

LEMMA CommandMoves ==
  ASSUME MachineInv, NEW w \in Workers, Command(w), console' = console
  PROVE  MachineInv'
<1> USE DEF MachineInv
<1>1. Placed /\ machine.session \in Nat /\ action[w] \in Actions
  BY DEF Placed, Machines
<1>2. CASE \E i \in Ids : Replay(w, i)
  BY <1>1, <1>2 DEF Replay, local, Placed
<1>3. CASE \E i \in Ids, a \in Actions : Begin(w, a, i)
  BY <1>1, <1>3 DEF Begin, Goto, Placed
<1>4. CASE ReadSession(w)
  BY <1>1, <1>4 DEF ReadSession, Goto, Placed
<1>5. CASE Accept(w)
  <2>1. /\ machine' = After(action[w]) /\ clock' = clock + 1 /\ kind' = kind
        /\ Verdict(action[w]) = "Ok"
    BY <1>5 DEF Accept, Transition
  <2>2. /\ machine' \in Machines /\ machine'.session = machine.session
        /\ machine'.phase = "Idle" => machine'.owner = "None"
        /\ machine.phase = "Idle" => machine'.phase = "Idle"
    BY <1>1, <2>1, AfterKeeps DEF Actions
  <2>3. Placed'
    BY <1>1, <1>5, <2>1 DEF Accept, Goto, Placed
  <2> QED
    BY <2>1, <2>2, <2>3, MachineGoes
<1>6. CASE Reject(w)
  BY <1>1, <1>6 DEF Reject, Goto, Placed
<1>7. CASE Announce(w)
  BY <1>1, <1>7 DEF Announce, Goto, Placed
<1>8. CASE StoreResult(w)
  BY <1>1, <1>8 DEF StoreResult, Goto, Placed, Actions
<1> QED
  BY <1>2, <1>3, <1>4, <1>5, <1>6, <1>7, <1>8 DEF Command

LEMMA CooldownMoves ==
  ASSUME MachineInv, CooldownElapses, console' = console
  PROVE  MachineInv' /\ SameCall
<1> USE DEF MachineInv
<1>1. machine' = CooledDown(machine) /\ UNCHANGED <<kind, local, clock>>
  BY DEF CooldownElapses
<1>2. machine' \in Machines /\ SameCall
  BY <1>1 DEF CooledDown, Machines, Phases, Owners, SameCall
<1> QED
  BY <1>1, <1>2, MachineGoes DEF local, Placed, SameCall

LEMMA ConsoleMoves ==
  ASSUME MachineInv, kind = "station",
         Console \/ LoopEnds \/ SpeakerFails \/ \E w \in Workers : CommandStopsMedia(w)
  PROVE  MachineInv'
<1> USE DEF MachineInv
<1>1. machine.session \in Nat
  BY DEF Machines
<1>2. CASE Ring
  <2>1. machine' = StartCall(machine, machine.session + 1) /\ clock' = clock + 1
    BY <1>2 DEF Ring, Transition
  <2>2. machine' \in Machines /\ machine'.phase = "Ringing"
    BY <1>1, <2>1 DEF StartCall, Machines, Phases, Owners
  <2>3. Placed'
    BY <1>2, <2>1 DEF Ring, ConsoleGoto, local, Placed
  <2> QED
    BY <1>2, <2>2, <2>3, MachineGoes DEF Ring
<1>3. CASE HangUpLocal
  <2>1. machine' = Hangup(machine) /\ clock' \in {clock, clock + 1} /\ kind' = kind
    BY <1>3 DEF HangUpLocal, Transition
  <2>2. machine' \in Machines /\ machine'.phase = "Idle" /\ machine'.owner = "None"
    BY <2>1 DEF Hangup, Machines, Phases, Owners
  <2>3. Placed'
    BY <1>3, <2>1 DEF HangUpLocal, ConsoleGoto, local, Placed
  <2> QED
    BY <2>1, <2>2, <2>3, MachineGoes
<1>4. CASE AnnounceRing \/ AnnounceEnd
  BY <1>4 DEF AnnounceRing, AnnounceEnd, ConsoleGoto, local, Placed
<1>5. CASE StartMedia \/ StopMedia \/ LoopEnds \/ SpeakerFails
  BY <1>5 DEF StartMedia, StopMedia, LoopEnds, SpeakerFails, ConsoleGoto, shared, local, Placed
<1>6. CASE \E w \in Workers : CommandStopsMedia(w)
  BY <1>6 DEF CommandStopsMedia, Goto, Placed
<1> QED
  BY <1>2, <1>3, <1>4, <1>5, <1>6 DEF Console

LEMMA PlayerMoves ==
  ASSUME MachineInv, kind = "replay", Player, console' = console
  PROVE  MachineInv'
<1> USE DEF MachineInv
<1>1. ASSUME NEW m \in Machines, NEW op, NEW e, Play(op, m, e),
             m.phase = "Idle" => m.owner = "None",
             m.phase # "Idle" => m.session = CapturedSession
      PROVE  MachineInv'
  <2>1. machine' = m /\ clock' = clock + 1 /\ kind' = kind /\ UNCHANGED local
    BY <1>1 DEF Play, Transition
  <2>2. Placed'
    BY <2>1 DEF local, Placed
  <2> QED
    BY <1>1, <2>1, <2>2, MachineGoes
<1>2. ASSUME NEW op, PlayNothing(op)
      PROVE  MachineInv'
  BY <1>2 DEF PlayNothing, shared, local, Placed
<1>3. CASE PlayRequest
  <2>1. StartCall(machine, CapturedSession) \in Machines
    BY DEF StartCall, Machines, Phases, Owners, CapturedSession
  <2> QED
    BY <1>1, <1>3, <2>1 DEF PlayRequest, StartCall
<1>4. CASE PlayAnswer
  <2>1. CASE PadAnswerVerdict(machine) = "Ok"
    <3>1. machine.phase = "Ringing"
      BY <2>1 DEF PadAnswerVerdict
    <3>2. /\ PadAnswer(machine) \in Machines
          /\ PadAnswer(machine).session = CapturedSession
          /\ PadAnswer(machine).phase = "Connected"
      BY <3>1 DEF PadAnswer, Machines, Phases, Owners
    <3> QED
      BY <1>1, <1>4, <2>1, <3>2 DEF PlayAnswer
  <2>2. CASE PadAnswerVerdict(machine) # "Ok"
    BY <1>2, <1>4, <2>2 DEF PlayAnswer
  <2> QED
    BY <2>1, <2>2
<1>5. CASE PlayUnlock
  BY <1>2, <1>5 DEF PlayUnlock, shared, local, Placed
<1>6. CASE PlayHangup
  <2>1. /\ Hangup(machine) \in Machines /\ Hangup(machine).phase = "Idle"
        /\ Hangup(machine).owner = "None"
    BY DEF Hangup, Machines, Phases, Owners
  <2>2. CASE machine.phase # "Idle"
    BY <1>1, <1>6, <2>1, <2>2 DEF PlayHangup
  <2>3. CASE machine.phase = "Idle"
    <3>1. machine' = Hangup(machine) /\ UNCHANGED <<kind, local, clock>>
      BY <1>6, <2>3 DEF PlayHangup
    <3>2. Placed'
      BY <3>1 DEF local, Placed
    <3> QED
      BY <2>1, <3>1, <3>2, MachineGoes
  <2> QED
    BY <2>2, <2>3
<1>7. CASE PlayerPushes
  BY <1>7 DEF PlayerPushes, local, Placed
<1>8. CASE NextPass
  BY <1>8 DEF NextPass, shared, local, Placed
<1> QED
  BY <1>3, <1>4, <1>5, <1>6, <1>7, <1>8 DEF Player

(***************************************************************************)
(* MachineInv holds in every state.                                        *)
(***************************************************************************)
LEMMA MachineInvariant == Spec => []MachineInv
<1>1. Init => MachineInv
  BY DEF Init, SharedInit, StationInit, MachineInv, Placed, NewMachine, Machines, Phases,
         Owners, Actions
<1>2. MachineInv /\ [Next]_vars => MachineInv'
  <2> SUFFICES ASSUME MachineInv, [Next]_vars PROVE MachineInv'
    OBVIOUS
  <2>1. CASE kind = "station" /\ StationNext
    BY <2>1, ConsoleMoves, CommandMoves, CooldownMoves DEF StationNext, station
  <2>2. CASE kind = "replay" /\ ReplayNext /\ UNCHANGED station
    BY <2>2, PlayerMoves, CommandMoves, CooldownMoves DEF ReplayNext, station
  <2>3. CASE UNCHANGED <<shared, station>>
    BY <2>3 DEF shared, local, station, MachineInv, Placed
  <2> QED
    BY <2>1, <2>2, <2>3 DEF Next, vars
<1> QED
  BY <1>1, <1>2, PTL DEF Spec

--------------------------------------------------------------------------------
(***************************************************************************)
(* The simulated Agents: the events that are due, because a transition has *)
(* been made and not been told of.  Each is a record of the event, its     *)
(* session, the number of its transition, and whether it will name the     *)
(* right session.                                                          *)
(***************************************************************************)
Events == {"CallStarted", "PadAnswered", "RemoteAnswered", "Unlocked", "CallEnded"}

EventOf(a) ==
    CASE a = "Claim" -> "RemoteAnswered" [] a = "Unlock" -> "Unlocked" [] OTHER -> "CallEnded"

Ev(e, s, t, right) == [e |-> e, s |-> s, t |-> t, right |-> right]

Announcing == {w \in Workers : pc[w] = "push"}

EvOf(w) == Ev(EventOf(action[w]), session[w], stamp[w], w \notin stale)

OfWorkers == {EvOf(w) : w \in Announcing}

OfConsole ==
    IF console = "announce" THEN {Ev("CallStarted", machine.session, ostamp, TRUE)}
    ELSE IF console \in {"stop", "ended"}
      THEN {Ev("CallEnded", machine.session, ostamp, TRUE)}
    ELSE {}

OfPlayer ==
    IF announce = "none" THEN {} ELSE {Ev(announce, CapturedSession, pstamp, TRUE)}

Due == OfWorkers \cup OfConsole \cup OfPlayer

(***************************************************************************)
(* An event matches the machine if it tells what the machine is now.  The  *)
(* latest transition that changed the call is the only one whose event     *)
(* must: only unlocks come later.  And the view is true unless it has been *)
(* misled, or is still to be told of something but an unlock.              *)
(***************************************************************************)
Matches(d) ==
    /\ d.e = "CallStarted" => machine.phase = "Ringing" /\ machine.owner = "None"
    /\ d.e = "PadAnswered" => machine.phase = "Connected" /\ machine.owner = "Pad"
    /\ d.e = "RemoteAnswered" => machine.phase = "Connected" /\ machine.owner = "Remote"
    /\ d.e = "CallEnded" => machine.phase = "Idle" /\ machine.owner = "None"
    /\ d.e # "CallEnded" => machine.session = d.s

ClockOK ==
    /\ clock \in Nat /\ told \in Nat /\ told <= clock
    /\ \A d \in Due : d.e \in Events /\ d.t \in Nat /\ d.t <= clock

LatestMatches ==
    \A d \in Due :
        /\ d.e # "Unlocked" /\ d.right /\ d.t >= told
        /\ \A b \in Due : b.t > d.t => b.e = "Unlocked"
        => Matches(d)

ViewMatches ==
    ~misled /\ (\A d \in Due : d.e = "Unlocked" /\ d.t >= told) => ViewIsTrue

TellInv == ClockOK /\ LatestMatches /\ ViewMatches

(***************************************************************************)
(* The events of a client's commands (Announce), and their names.          *)
(***************************************************************************)
LEMMA EventNames ==
  ASSUME NEW a \in Actions
  PROVE  /\ EventOf(a) \in Events
         /\ [Claim |-> "RemoteAnswered", Unlock |-> "Unlocked", Hangup |-> "CallEnded"][a]
              = EventOf(a)
  BY DEF Actions, EventOf, Events

(***************************************************************************)
(* An event that is pushed tells the client what the machine is.           *)
(***************************************************************************)
LEMMA ToldIsTrue ==
  ASSUME NEW d, d.e \in Events, d.e # "Unlocked", Matches(d), machine' = machine,
         view' = Viewed(d.e, d.s)
  PROVE  ViewIsTrue'
<1>1. CASE d.e = "CallStarted"
  BY <1>1 DEF Matches, Viewed, ViewIsTrue
<1>2. CASE d.e = "PadAnswered"
  BY <1>2 DEF Matches, Viewed, ViewIsTrue
<1>3. CASE d.e = "RemoteAnswered"
  BY <1>3 DEF Matches, Viewed, ViewIsTrue
<1>4. CASE d.e = "CallEnded"
  BY <1>4 DEF Matches, Viewed, ViewIsTrue
<1> QED
  BY <1>1, <1>2, <1>3, <1>4 DEF Events

(***************************************************************************)
(* A push keeps TellInv (EventLog::push): whoever is overtaken misleads,   *)
(* and a start or an end that is the latest of all clears that up.         *)
(***************************************************************************)
LEMMA PushTells ==
  ASSUME TellInv, NEW d \in Due, Push(d.e, d.s, d.t, d.right),
         machine' = machine, clock' = clock,
         Due' \subseteq Due, Due \subseteq Due' \cup {d}
  PROVE  TellInv'
<1> USE DEF TellInv
<1>1. /\ clock \in Nat /\ told \in Nat /\ told <= clock
      /\ \A x \in Due : x.e \in Events /\ x.t \in Nat /\ x.t <= clock
  BY DEF ClockOK
<1>2. told' = IF d.t > told THEN d.t ELSE told
  BY DEF Push
<1>3. told' \in Nat /\ told' <= clock /\ told' >= told /\ told' >= d.t
  BY <1>1, <1>2
<1>4. ClockOK'
  BY <1>1, <1>3 DEF ClockOK
<1>5. LatestMatches'
  <2> SUFFICES ASSUME NEW x \in Due', x.e # "Unlocked", x.right, x.t >= told',
                      \A b \in Due' : b.t > x.t => b.e = "Unlocked"
               PROVE  Matches(x)'
    BY DEF LatestMatches
  <2>1. x \in Due /\ x.t \in Nat /\ d.t \in Nat
    BY <1>1
  <2>2. x.t >= told /\ ~(d.t > x.t)
    BY <1>1, <1>3, <2>1
  <2>3. \A b \in Due : b.t > x.t => b.e = "Unlocked"
    BY <2>2
  <2>4. Matches(x)
    BY <2>1, <2>2, <2>3 DEF LatestMatches
  <2> QED
    BY <2>4 DEF Matches
<1>6. ViewMatches'
  <2> SUFFICES ASSUME ~misled', \A x \in Due' : x.e = "Unlocked" /\ x.t >= told'
               PROVE  ViewIsTrue'
    BY DEF ViewMatches
  <2>1. view' = Viewed(d.e, d.s)
    BY DEF Push
  <2>2. CASE d.e \in {"CallStarted", "CallEnded"} /\ d.t = clock /\ d.right
    <3>1. \A b \in Due : ~(b.t > d.t)
      BY <1>1, <2>2
    <3>2. Matches(d)
      BY <1>1, <2>2, <3>1 DEF LatestMatches
    <3> QED
      BY <1>1, <2>1, <2>2, <3>2, ToldIsTrue
  <2>3. CASE ~(d.e \in {"CallStarted", "CallEnded"} /\ d.t = clock /\ d.right)
    <3>1. ~misled /\ ~(d.t < told) /\ d.right
      BY <2>3 DEF Push
    <3>2. d.t >= told /\ d.t \in Nat
      BY <1>1, <3>1
    <3>3. CASE d.e = "Unlocked"
      <4>1. view' = view
        BY <2>1, <3>3 DEF Viewed
      <4>2. \A x \in Due' : x.t >= told
        BY <1>1, <1>3
      <4>3. \A x \in Due : x.e = "Unlocked" /\ x.t >= told
        BY <3>2, <3>3, <4>2
      <4>4. ViewIsTrue
        BY <3>1, <4>3 DEF ViewMatches
      <4> QED
        BY <4>1, <4>4 DEF ViewIsTrue
    <3>4. CASE d.e # "Unlocked"
      <4>1. \A b \in Due : b.t > d.t => b.e = "Unlocked"
        BY <3>2
      <4>2. Matches(d)
        BY <3>1, <3>2, <3>4, <4>1 DEF LatestMatches
      <4> QED
        BY <1>1, <2>1, <3>4, <4>2, ToldIsTrue
    <3> QED
      BY <3>3, <3>4
  <2> QED
    BY <2>2, <2>3
<1> QED
  BY <1>4, <1>5, <1>6

(***************************************************************************)
(* So does a transition, whose event is then due and later than all others *)
(* - or an unlock, which leaves the call as it was.                        *)
(***************************************************************************)
LEMMA TransitionTells ==
  ASSUME TellInv, UNCHANGED <<view, told, misled>>, NEW d \in Due',
         Due' \subseteq Due \cup {d}, Due \subseteq Due',
         clock' \in {clock, clock + 1}, d.e \in Events, d.t = clock',
         \/ d.e = "Unlocked" /\ SameCall
         \/ d.e # "Unlocked" /\ clock' = clock + 1 /\ (d.right => Matches(d)')
  PROVE  TellInv'
<1> USE DEF TellInv
<1>1. /\ clock \in Nat /\ told \in Nat /\ told <= clock
      /\ \A x \in Due : x.e \in Events /\ x.t \in Nat /\ x.t <= clock
  BY DEF ClockOK
<1>2. clock' \in Nat /\ clock' >= clock /\ d.t \in Nat /\ d.t >= told
  BY <1>1
<1>3. ClockOK'
  <2>1. told' = told /\ told <= clock'
    BY <1>1, <1>2
  <2>2. ASSUME NEW x \in Due'
        PROVE  x.e \in Events /\ x.t \in Nat /\ x.t <= clock'
    <3>1. CASE x = d
      BY <1>2, <3>1
    <3>2. CASE x \in Due
      BY <1>1, <1>2, <3>2
    <3> QED
      BY <3>1, <3>2
  <2> QED
    BY <1>1, <1>2, <2>1, <2>2 DEF ClockOK
<1>4. CASE d.e = "Unlocked" /\ SameCall
  <2>1. LatestMatches'
    <3> SUFFICES ASSUME NEW x \in Due', x.e # "Unlocked", x.right, x.t >= told',
                        \A b \in Due' : b.t > x.t => b.e = "Unlocked"
                 PROVE  Matches(x)'
      BY DEF LatestMatches
    <3>1. x \in Due /\ Matches(x)
      BY <1>4 DEF LatestMatches
    <3> QED
      BY <1>4, <3>1 DEF Matches, SameCall
  <2>2. ViewMatches'
    <3> SUFFICES ASSUME ~misled', \A x \in Due' : x.e = "Unlocked" /\ x.t >= told'
                 PROVE  ViewIsTrue'
      BY DEF ViewMatches
    <3>1. ViewIsTrue
      BY DEF ViewMatches
    <3> QED
      BY <1>4, <3>1 DEF ViewIsTrue, SameCall
  <2> QED
    BY <1>3, <2>1, <2>2
<1>5. CASE clock' = clock + 1 /\ (d.right => Matches(d)') /\ d.e # "Unlocked"
  <2>1. LatestMatches'
    <3> SUFFICES ASSUME NEW x \in Due', x.e # "Unlocked", x.right, x.t >= told',
                        \A b \in Due' : b.t > x.t => b.e = "Unlocked"
                 PROVE  Matches(x)'
      BY DEF LatestMatches
    <3>1. ~(d.t > x.t)
      BY <1>5
    <3>2. x \notin Due
      BY <1>1, <1>5, <3>1
    <3> QED
      BY <1>5, <3>2
  <2>2. ViewMatches'
    BY <1>5 DEF ViewMatches
  <2> QED
    BY <1>3, <2>1, <2>2
<1> QED
  BY <1>4, <1>5

(***************************************************************************)
(* And whatever leaves the call, the clock and what is due alone.          *)
(***************************************************************************)
LEMMA NothingToTell ==
  ASSUME TellInv, UNCHANGED <<view, told, misled, clock>>, SameCall, Due' = Due
  PROVE  TellInv'
<1> USE DEF TellInv
<1>1. \A d : Matches(d)' <=> Matches(d)
  BY DEF Matches, SameCall
<1>2. ClockOK'
  BY DEF ClockOK
<1>3. LatestMatches'
  BY <1>1 DEF LatestMatches
<1>4. ViewMatches'
  BY DEF ViewMatches, ViewIsTrue, SameCall
<1> QED
  BY <1>2, <1>3, <1>4

(***************************************************************************)
(* A client's command, step by step: what is due changes when its          *)
(* transition is made and when its event is pushed (command, execute).     *)
(***************************************************************************)
LEMMA OthersDue ==
  ASSUME machine'.session = machine.session, UNCHANGED <<console, ostamp, announce, pstamp>>
  PROVE  UNCHANGED <<OfConsole, OfPlayer>>
  BY DEF OfConsole, OfPlayer, Ev

LEMMA QuietCommand ==
  ASSUME MachineInv, TellInv, NEW w \in Workers,
         pc[w] # "push", pc'[w] # "push",
         \A v \in Workers : v # w =>
           /\ pc'[v] = pc[v] /\ action'[v] = action[v] /\ session'[v] = session[v]
           /\ stamp'[v] = stamp[v] /\ (v \in stale' <=> v \in stale),
         UNCHANGED <<machine, clock, view, told, misled, console, ostamp, announce, pstamp>>
  PROVE  TellInv'
<1>1. Announcing' = Announcing
  BY DEF Announcing
<1>2. \A v \in Announcing : EvOf(v)' = EvOf(v)
  BY DEF Announcing, EvOf, Ev, EventOf
<1>3. OfWorkers' = OfWorkers
  BY <1>1, <1>2 DEF OfWorkers
<1>4. Due' = Due
  BY <1>3, OthersDue DEF Due
<1> QED
  BY <1>4, NothingToTell DEF SameCall

LEMMA CommandTells ==
  ASSUME MachineInv, TellInv, NEW w \in Workers, Command(w),
         UNCHANGED <<console, ostamp, announce, pstamp>>
  PROVE  TellInv'
<1>1. /\ Placed /\ machine \in Machines /\ action[w] \in Actions
      /\ machine.phase = "Idle" => machine.owner = "None"
  BY DEF MachineInv, Placed
<1>2. CASE \E i \in Ids : Replay(w, i)
  <2>1. UNCHANGED <<machine, local, clock, feed, console, ostamp, announce, pstamp>>
    BY <1>2 DEF Replay
  <2>2. Due' = Due
    BY <2>1 DEF Due, OfWorkers, OfConsole, OfPlayer, Announcing, EvOf, local
  <2> QED
    BY <2>1, <2>2, NothingToTell DEF SameCall, feed
<1>3. CASE \E i \in Ids, a \in Actions : Begin(w, a, i)
  BY <1>1, <1>3, QuietCommand DEF Begin, Goto, Placed, feed
<1>4. CASE ReadSession(w)
  BY <1>1, <1>4, QuietCommand DEF ReadSession, Goto, Placed, feed
<1>5. CASE Reject(w)
  BY <1>1, <1>5, QuietCommand DEF Reject, Goto, Placed, feed
<1>6. CASE StoreResult(w)
  BY <1>1, <1>6, QuietCommand DEF StoreResult, Goto, Placed, feed
<1>7. CASE Accept(w)
  <2> DEFINE a == action[w]
  <2>0. PICK d : d = Ev(EventOf(a), session[w], clock', w \notin stale')
    OBVIOUS
  <2>1. /\ machine' = After(a) /\ clock' = clock + 1 /\ Verdict(a) = "Ok"
        /\ pc[w] = "lock" /\ pc' = [pc EXCEPT ![w] = "push"]
        /\ stamp' = [stamp EXCEPT ![w] = clock']
        /\ stale' = IF session[w] # machine.session THEN stale \cup {w} ELSE stale
        /\ UNCHANGED <<action, session, view, told, misled>>
    BY <1>7 DEF Accept, Transition, Goto, feed
  <2>2. Announcing' = Announcing \cup {w} /\ w \notin Announcing
    BY <1>1, <2>1 DEF Announcing, Placed
  <2>3. \A v \in Announcing : EvOf(v)' = EvOf(v)
    BY <1>1, <2>1, <2>2 DEF Announcing, EvOf, Ev, Placed
  <2>4. OfWorkers' = OfWorkers \cup {d}
    <3>1. EvOf(w)' = d
      BY <1>1, <2>0, <2>1 DEF EvOf, Ev, Placed, EventOf
    <3> QED
      BY <2>2, <2>3, <3>1 DEF OfWorkers
  <2>5. machine'.session = machine.session
    BY <1>1, <2>1, AfterKeeps
  <2>6. Due' = Due \cup {d}
    BY <2>4, <2>5, OthersDue DEF Due
  <2>7. d.e = EventOf(a) /\ d.t = clock' /\ d.s = session[w] /\ d.right = (w \notin stale')
    BY <2>0 DEF Ev
  <2>8. d.e \in Events
    BY <1>1, <2>7, EventNames
  <2>9. CASE a = "Unlock"
    <3>1. d.e = "Unlocked"
      BY <2>7, <2>9 DEF EventOf
    <3>2. SameCall
      BY <1>1, <2>1, <2>9, AfterKeeps DEF SameCall
    <3> QED
      BY <2>1, <2>6, <2>7, <2>8, <3>1, <3>2, TransitionTells
  <2>10. CASE a # "Unlock"
    <3>1. d.e # "Unlocked"
      BY <1>1, <2>7, <2>10 DEF EventOf, Actions
    <3>2. d.right => session[w] = machine.session
      BY <2>1, <2>7
    <3>3. d.right => Matches(d)'
      <4>1. CASE a = "Claim"
        <5>1. machine'.phase = "Connected" /\ machine'.owner = "Remote"
          BY <1>1, <2>1, <4>1, AfterKeeps
        <5>2. d.e = "RemoteAnswered"
          BY <2>7, <4>1 DEF EventOf
        <5> QED
          BY <2>5, <2>7, <3>2, <5>1, <5>2 DEF Matches
      <4>2. CASE a = "Hangup"
        <5>1. machine'.phase = "Idle" /\ machine'.owner = "None"
          BY <1>1, <2>1, <4>2, AfterKeeps
        <5>2. d.e = "CallEnded"
          BY <2>7, <4>2 DEF EventOf
        <5> QED
          BY <5>1, <5>2 DEF Matches
      <4> QED
        BY <1>1, <2>10, <4>1, <4>2 DEF Actions
    <3> QED
      BY <2>1, <2>6, <2>7, <2>8, <3>1, <3>3, TransitionTells
  <2> QED
    BY <2>9, <2>10
<1>8. CASE Announce(w)
  <2> DEFINE d == EvOf(w)
  <2>1. /\ pc[w] = "push" /\ \E to \in {"stop", "store"} : pc' = [pc EXCEPT ![w] = to]
        /\ UNCHANGED <<machine, clock, action, session, stamp, stale>>
    BY <1>8 DEF Announce, Goto
  <2>2. Push(EventOf(action[w]), session[w], stamp[w], w \notin stale)
    BY <1>1, <1>8, EventNames DEF Announce
  <2>3. Push(d.e, d.s, d.t, d.right)
    BY <2>2 DEF EvOf, Ev
  <2>4. Announcing' = Announcing \ {w} /\ w \in Announcing
    BY <1>1, <2>1 DEF Announcing, Placed
  <2>5. \A v \in Announcing : EvOf(v)' = EvOf(v)
    BY <2>1 DEF EvOf, Ev
  <2>6. OfWorkers' \subseteq OfWorkers /\ OfWorkers \subseteq OfWorkers' \cup {d}
        /\ d \in OfWorkers
    BY <2>4, <2>5 DEF OfWorkers
  <2>7. Due' \subseteq Due /\ Due \subseteq Due' \cup {d} /\ d \in Due
    BY <2>1, <2>6, OthersDue DEF Due
  <2> HIDE DEF d
  <2> QED
    BY <2>1, <2>3, <2>7, PushTells
<1> QED
  BY <1>2, <1>3, <1>4, <1>5, <1>6, <1>7, <1>8 DEF Command

(***************************************************************************)
(* Whoever else moves leaves the events of the commands alone.             *)
(***************************************************************************)
LEMMA WorkersDue ==
  ASSUME UNCHANGED local
  PROVE  OfWorkers' = OfWorkers
  BY DEF local, OfWorkers, Announcing, EvOf

LEMMA CooldownTells ==
  ASSUME MachineInv, TellInv, CooldownElapses,
         UNCHANGED <<console, ostamp, announce, pstamp>>
  PROVE  TellInv'
<1>1. SameCall
  BY CooldownMoves
<1>2. UNCHANGED local /\ UNCHANGED <<view, told, misled, clock>>
  BY DEF CooldownElapses, feed
<1>3. Due' = Due
  BY <1>1, <1>2, WorkersDue, OthersDue DEF SameCall, Due
<1> QED
  BY <1>1, <1>2, <1>3, NothingToTell

(***************************************************************************)
(* The console of the door station (ring, hangup_local), and its media.    *)
(***************************************************************************)
LEMMA ConsoleTells ==
  ASSUME MachineInv, TellInv, UNCHANGED <<announce, pstamp>>,
         Console \/ LoopEnds \/ SpeakerFails \/ \E w \in Workers : CommandStopsMedia(w)
  PROVE  TellInv'
<1>1. OfPlayer' = OfPlayer
  BY DEF OfPlayer, Ev
<1>2. clock \in Nat /\ machine.session \in Nat
      /\ (machine.phase = "Idle" => machine.owner = "None")
  BY DEF TellInv, ClockOK, MachineInv, Machines
<1>3. CASE Ring
  <2>0. PICK d : d = Ev("CallStarted", machine'.session, clock', TRUE)
    OBVIOUS
  <2>1. /\ machine' = StartCall(machine, machine.session + 1) /\ clock' = clock + 1
        /\ console = "prompt" /\ console' = "announce" /\ ostamp' = clock'
        /\ UNCHANGED local /\ UNCHANGED <<view, told, misled>>
    BY <1>3 DEF Ring, Transition, ConsoleGoto, feed
  <2>2. OfConsole = {} /\ OfConsole' = {d}
    BY <2>0, <2>1 DEF OfConsole
  <2>3. Due' = Due \cup {d}
    BY <1>1, <2>1, <2>2, WorkersDue DEF Due
  <2>4. d.e = "CallStarted" /\ d.t = clock' /\ d.s = machine'.session
    BY <2>0 DEF Ev
  <2>5. Matches(d)'
    BY <2>1, <2>4 DEF Matches, StartCall
  <2> QED
    BY <2>1, <2>3, <2>4, <2>5, TransitionTells DEF Events
<1>4. CASE AnnounceRing
  <2>0. PICK d : d = Ev("CallStarted", machine.session, ostamp, TRUE)
    OBVIOUS
  <2>1. /\ console = "announce" /\ console' = "stream"
        /\ UNCHANGED local /\ UNCHANGED <<machine, clock>>
        /\ Push("CallStarted", machine.session, ostamp, TRUE)
    BY <1>4 DEF AnnounceRing, ConsoleGoto
  <2>2. OfConsole = {d} /\ OfConsole' = {}
    BY <2>0, <2>1 DEF OfConsole
  <2>3. Due' \subseteq Due /\ Due \subseteq Due' \cup {d} /\ d \in Due
    BY <1>1, <2>1, <2>2, WorkersDue DEF Due
  <2>4. Push(d.e, d.s, d.t, d.right)
    BY <2>0, <2>1 DEF Ev
  <2> QED
    BY <2>1, <2>3, <2>4, PushTells
<1>5. CASE HangUpLocal
  <2>1. CASE machine.phase # "Idle"
    <3>0. PICK d : d = Ev("CallEnded", machine'.session, clock', TRUE)
      OBVIOUS
    <3>1. /\ machine' = Hangup(machine) /\ clock' = clock + 1
          /\ console = "prompt" /\ console' = "stop" /\ ostamp' = clock'
          /\ UNCHANGED local /\ UNCHANGED <<view, told, misled>>
      BY <1>5, <2>1 DEF HangUpLocal, Transition, ConsoleGoto, feed
    <3>2. OfConsole = {} /\ OfConsole' = {d}
      BY <3>0, <3>1 DEF OfConsole
    <3>3. Due' = Due \cup {d}
      BY <1>1, <3>1, <3>2, WorkersDue DEF Due
    <3>4. d.e = "CallEnded" /\ d.t = clock'
      BY <3>0 DEF Ev
    <3>5. machine'.phase = "Idle" /\ machine'.owner = "None"
      BY <3>1 DEF Hangup, MachineInv, Machines
    <3>6. Matches(d)'
      BY <3>4, <3>5 DEF Matches
    <3> QED
      BY <3>1, <3>3, <3>4, <3>6, TransitionTells DEF Events
  <2>2. CASE machine.phase = "Idle"
    <3>1. /\ machine' = Hangup(machine) /\ clock' = clock
          /\ console = "prompt" /\ console' = "stopIdle"
          /\ UNCHANGED local /\ UNCHANGED <<view, told, misled>>
      BY <1>5, <2>2 DEF HangUpLocal, Transition, ConsoleGoto, feed
    <3>2. SameCall
      BY <1>2, <2>2, <3>1 DEF SameCall, Hangup, MachineInv, Machines
    <3>3. Due' = Due
      BY <1>1, <3>1, WorkersDue DEF Due, OfConsole
    <3> QED
      BY <3>1, <3>2, <3>3, NothingToTell
  <2> QED
    BY <2>1, <2>2
<1>6. CASE AnnounceEnd
  <2>0. PICK d : d = Ev("CallEnded", machine.session, ostamp, TRUE)
    OBVIOUS
  <2>1. /\ console = "ended" /\ console' = "prompt"
        /\ UNCHANGED local /\ UNCHANGED <<machine, clock>>
        /\ Push("CallEnded", machine.session, ostamp, TRUE)
    BY <1>6 DEF AnnounceEnd, ConsoleGoto
  <2>2. OfConsole = {d} /\ OfConsole' = {}
    BY <2>0, <2>1 DEF OfConsole
  <2>3. Due' \subseteq Due /\ Due \subseteq Due' \cup {d} /\ d \in Due
    BY <1>1, <2>1, <2>2, WorkersDue DEF Due
  <2>4. Push(d.e, d.s, d.t, d.right)
    BY <2>0, <2>1 DEF Ev
  <2> QED
    BY <2>1, <2>3, <2>4, PushTells
<1>7. CASE StartMedia \/ StopMedia \/ LoopEnds \/ SpeakerFails
  <2>1. UNCHANGED shared /\ ostamp' = ostamp
    BY <1>7 DEF StartMedia, StopMedia, LoopEnds, SpeakerFails
  <2>2. OfConsole' = OfConsole
    <3>1. CASE StartMedia
      BY <2>1, <3>1 DEF StartMedia, ConsoleGoto, OfConsole, shared
    <3>2. CASE StopMedia
      BY <2>1, <3>2 DEF StopMedia, ConsoleGoto, OfConsole, shared
    <3>3. CASE LoopEnds \/ SpeakerFails
      BY <2>1, <3>3 DEF LoopEnds, SpeakerFails, OfConsole, shared
    <3> QED
      BY <1>7, <3>1, <3>2, <3>3
  <2>3. Due' = Due
    BY <1>1, <2>1, <2>2, WorkersDue DEF Due, shared
  <2> QED
    BY <2>1, <2>3, NothingToTell DEF shared, feed, SameCall
<1>8. CASE \E w \in Workers : CommandStopsMedia(w)
  <2>1. PICK w \in Workers : CommandStopsMedia(w)
    BY <1>8
  <2> QED
    BY <2>1, QuietCommand DEF CommandStopsMedia, Goto, feed, MachineInv, Placed
<1> QED
  BY <1>3, <1>4, <1>5, <1>6, <1>7, <1>8 DEF Console

(***************************************************************************)
(* The player of the replay Agent (apply).                                 *)
(***************************************************************************)
LEMMA PlayerTells ==
  ASSUME MachineInv, TellInv, kind = "replay", Player, UNCHANGED <<console, ostamp>>
  PROVE  TellInv'
<1>1. OfConsole = {} /\ OfConsole' = {}
  BY DEF MachineInv, OfConsole
<1>2. clock \in Nat /\ (machine.phase = "Idle" => machine.owner = "None")
      /\ machine \in Machines
  BY DEF TellInv, ClockOK, MachineInv
<1>3. machine.phase # "Idle" => machine.session = CapturedSession
  BY DEF MachineInv
<1>4. ASSUME NEW op, NEW m, NEW e \in Events, Play(op, m, e), e # "Unlocked",
             e = "CallStarted" => m.phase = "Ringing" /\ m.owner = "None",
             e = "PadAnswered" => m.phase = "Connected" /\ m.owner = "Pad",
             e # "RemoteAnswered",
             e = "CallEnded" => m.phase = "Idle" /\ m.owner = "None",
             e # "CallEnded" => m.session = CapturedSession
      PROVE  TellInv'
  <2>0. PICK d : d = Ev(e, CapturedSession, clock', TRUE)
    OBVIOUS
  <2>1. /\ machine' = m /\ clock' = clock + 1 /\ announce = "none"
        /\ announce' = e /\ pstamp' = clock'
        /\ UNCHANGED local /\ UNCHANGED <<view, told, misled>>
    BY <1>4 DEF Play, Turn, Transition, feed
  <2>2. OfPlayer = {} /\ OfPlayer' = {d}
    BY <1>4, <2>0, <2>1 DEF OfPlayer, Events
  <2>3. Due' = Due \cup {d}
    BY <1>1, <2>1, <2>2, WorkersDue DEF Due
  <2>4. d.e = e /\ d.t = clock' /\ d.s = CapturedSession
    BY <2>0 DEF Ev
  <2>5. Matches(d)'
    BY <1>4, <2>1, <2>4 DEF Matches
  <2> QED
    BY <1>4, <2>1, <2>3, <2>4, <2>5, TransitionTells
<1>5. ASSUME NEW op, PlayNothing(op)
      PROVE  TellInv'
  <2>1. UNCHANGED shared /\ UNCHANGED <<announce, pstamp>>
    BY <1>5 DEF PlayNothing
  <2>2. Due' = Due
    BY <1>1, <2>1, WorkersDue DEF Due, OfPlayer, shared
  <2> QED
    BY <2>1, <2>2, NothingToTell DEF shared, feed, SameCall
<1>6. CASE PlayRequest
  BY <1>4, <1>6 DEF PlayRequest, StartCall, Events
<1>7. CASE PlayAnswer
  <2>1. CASE PadAnswerVerdict(machine) = "Ok"
    <3>1. machine.phase = "Ringing"
      BY <2>1 DEF PadAnswerVerdict
    <3>2. /\ PadAnswer(machine).session = CapturedSession
          /\ PadAnswer(machine).phase = "Connected" /\ PadAnswer(machine).owner = "Pad"
      BY <1>2, <1>3, <3>1 DEF PadAnswer, Machines
    <3> QED
      BY <1>4, <1>7, <2>1, <3>2 DEF PlayAnswer, Events
  <2>2. CASE PadAnswerVerdict(machine) # "Ok"
    BY <1>5, <1>7, <2>2 DEF PlayAnswer
  <2> QED
    BY <2>1, <2>2
<1>8. CASE PlayUnlock
  <2>1. CASE machine.owner # "Pad"
    BY <1>5, <1>8, <2>1 DEF PlayUnlock
  <2>2. CASE machine.owner = "Pad"
    <3>0. PICK d : d = Ev("Unlocked", CapturedSession, clock', TRUE)
      OBVIOUS
    <3>1. /\ announce = "none" /\ announce' = "Unlocked" /\ pstamp' = clock
          /\ UNCHANGED shared
      BY <1>8, <2>2 DEF PlayUnlock, Turn
    <3>2. OfPlayer = {} /\ OfPlayer' = {d}
      BY <3>0, <3>1 DEF OfPlayer, shared
    <3>3. Due' = Due \cup {d}
      BY <1>1, <3>1, <3>2, WorkersDue DEF Due, shared
    <3>4. d.e = "Unlocked" /\ d.t = clock'
      BY <3>0 DEF Ev
    <3> QED
      BY <3>1, <3>3, <3>4, TransitionTells DEF shared, feed, SameCall, Events
  <2> QED
    BY <2>1, <2>2
<1>9. CASE PlayHangup
  <2>1. Hangup(machine).phase = "Idle" /\ Hangup(machine).owner = "None"
    BY <1>2 DEF Hangup, Machines
  <2>2. CASE machine.phase # "Idle"
    BY <1>4, <1>9, <2>1, <2>2 DEF PlayHangup, Events
  <2>3. CASE machine.phase = "Idle"
    <3>1. /\ machine' = Hangup(machine) /\ UNCHANGED local
          /\ UNCHANGED <<clock, feed, announce, pstamp>>
      BY <1>9, <2>3 DEF PlayHangup
    <3>2. SameCall
      BY <1>2, <2>1, <2>3, <3>1 DEF SameCall, Hangup, Machines
    <3>3. Due' = Due
      BY <1>1, <3>1, WorkersDue DEF Due, OfPlayer
    <3> QED
      BY <3>1, <3>2, <3>3, NothingToTell DEF feed
  <2> QED
    BY <2>2, <2>3
<1>10. CASE PlayerPushes
  <2>0. PICK d : d = Ev(announce, CapturedSession, pstamp, TRUE)
    OBVIOUS
  <2>1. /\ announce # "none" /\ announce' = "none"
        /\ Push(announce, CapturedSession, pstamp, TRUE)
        /\ UNCHANGED local /\ UNCHANGED <<machine, clock>>
    BY <1>10 DEF PlayerPushes
  <2>2. OfPlayer = {d} /\ OfPlayer' = {}
    BY <2>0, <2>1 DEF OfPlayer
  <2>3. Due' \subseteq Due /\ Due \subseteq Due' \cup {d} /\ d \in Due
    BY <1>1, <2>1, <2>2, WorkersDue DEF Due
  <2>4. Push(d.e, d.s, d.t, d.right)
    BY <2>0, <2>1 DEF Ev
  <2> QED
    BY <2>1, <2>3, <2>4, PushTells
<1>11. CASE NextPass
  <2>1. UNCHANGED shared /\ UNCHANGED <<announce, pstamp>>
    BY <1>11 DEF NextPass
  <2>2. Due' = Due
    BY <1>1, <2>1, WorkersDue DEF Due, OfPlayer, shared
  <2> QED
    BY <2>1, <2>2, NothingToTell DEF shared, feed, SameCall
<1> QED
  BY <1>6, <1>7, <1>8, <1>9, <1>10, <1>11 DEF Player

(***************************************************************************)
(* Both simulated Agents keep their clients informed.                      *)
(***************************************************************************)
TellingInv == MachineInv /\ TellInv /\ (kind # "replay" => announce = "none")

LEMMA TellingInvariant == Spec => []TellingInv
<1>1. Init => TellingInv
  <2> SUFFICES ASSUME Init PROVE TellingInv
    OBVIOUS
  <2>1. MachineInv
    BY DEF Init, SharedInit, StationInit, MachineInv, Placed, NewMachine, Machines, Phases,
           Owners, Actions
  <2>2. Due = {}
    BY DEF Init, SharedInit, StationInit, ReplayInit, Due, OfWorkers, OfConsole, OfPlayer,
           Announcing
  <2>3. ViewIsTrue
    BY DEF Init, SharedInit, ViewIsTrue, NewMachine
  <2>4. TellInv
    BY <2>2, <2>3 DEF Init, SharedInit, TellInv, ClockOK, LatestMatches, ViewMatches
  <2> QED
    BY <2>1, <2>4 DEF Init, ReplayInit, TellingInv
<1>2. TellingInv /\ MachineInv' /\ [Next]_vars => TellingInv'
  <2> SUFFICES ASSUME TellingInv, MachineInv', [Next]_vars PROVE TellingInv'
    OBVIOUS
  <2> USE DEF TellingInv
  <2>1. CASE kind = "station" /\ StationNext /\ UNCHANGED replay
    <3>1. UNCHANGED <<announce, pstamp, kind>>
      BY <2>1 DEF replay, StationNext, Console, Ring, AnnounceRing, StartMedia, HangUpLocal,
                  StopMedia, AnnounceEnd, LoopEnds, SpeakerFails, CommandStopsMedia, shared,
                  CooldownElapses, Command, Replay, Begin, ReadSession, Accept, Reject,
                  Announce, StoreResult
    <3>2. TellInv'
      BY <2>1, <3>1, ConsoleTells, CommandTells, CooldownTells DEF StationNext, station
    <3> QED
      BY <3>1, <3>2
  <2>2. CASE kind = "replay" /\ ReplayNext /\ UNCHANGED station
    <3>1. kind' = kind
      BY <2>2 DEF ReplayNext, Player, PlayRequest, PlayAnswer, PlayUnlock, PlayHangup, Play,
                  PlayNothing, PlayerPushes, NextPass, shared,
                  CooldownElapses, Command, Replay, Begin, ReadSession, Accept, Reject,
                  Announce, StoreResult
    <3>2. TellInv'
      BY <2>2, PlayerTells, CommandTells, CooldownTells DEF ReplayNext, station, replay
    <3> QED
      BY <2>2, <3>1, <3>2
  <2>3. CASE UNCHANGED <<shared, station, replay>>
    <3>1. Due' = Due
      BY <2>3 DEF shared, local, station, replay, Due, OfWorkers, OfConsole, OfPlayer,
                  Announcing, EvOf
    <3>2. TellInv'
      BY <2>3, <3>1, NothingToTell DEF shared, feed, SameCall
    <3> QED
      BY <2>3, <3>2 DEF shared, replay
  <2> QED
    BY <2>1, <2>2, <2>3 DEF Next, vars
<1> QED
  BY <1>1, <1>2, MachineInvariant, PTL DEF Spec

(***************************************************************************)
(* When no command is under way and neither the console nor the player is  *)
(* about to push, a client that follows the events knows the call: one of  *)
(* them, by any number of commands, told of the latest transition that     *)
(* changed it (command, execute, apply, ring, hangup_local).               *)
(***************************************************************************)
THEOREM EventsAreTrue == Spec => []EventsTellTheCall
<1>1. TellingInv => EventsTellTheCall
  <2> SUFFICES ASSUME TellingInv, StationQuiet \/ ReplayQuiet, ~misled
               PROVE  ViewIsTrue
    BY DEF EventsTellTheCall
  <2>1. Announcing = {} /\ console = "prompt" /\ announce = "none"
    BY DEF TellingInv, MachineInv, StationQuiet, ReplayQuiet, WorkersIdle, Announcing
  <2>2. Due = {}
    BY <2>1 DEF Due, OfWorkers, OfConsole, OfPlayer
  <2> QED
    BY <2>2 DEF TellingInv, TellInv, ViewMatches
<1> QED
  BY <1>1, TellingInvariant, PTL

--------------------------------------------------------------------------------
(***************************************************************************)
(* The door station's media (ring, hangup_local, command, media_loop).     *)
(* The flag follows the call unless it strayed, or the console or a worker *)
(* that has ended a call is about to write it.                             *)
(***************************************************************************)
Clearing(w) == pc[w] = "stop" \/ (pc[w] = "push" /\ action[w] = "Hangup")

AboutToSet == console \notin {"prompt", "ended"} \/ \E w \in Workers : Clearing(w)

FlagFollows == strayed \/ AboutToSet \/ streaming = (machine.phase # "Idle")

MediaInv ==
    /\ loops \in Nat /\ streaming \in BOOLEAN /\ strayed \in BOOLEAN
    /\ streaming => loops > 0
    /\ kind = "station" => FlagFollows

LEMMA KindStays ==
  ASSUME [Next]_vars
  PROVE  kind' = kind
<1>1. CASE kind = "station" /\ StationNext
  BY <1>1 DEF StationNext, Console, Ring, AnnounceRing, StartMedia, HangUpLocal, StopMedia,
              AnnounceEnd, LoopEnds, SpeakerFails, CommandStopsMedia, shared, CooldownElapses,
              Command, Replay, Begin, ReadSession, Accept, Reject, Announce, StoreResult
<1>2. CASE kind = "replay" /\ ReplayNext
  BY <1>2 DEF ReplayNext, Player, PlayRequest, PlayAnswer, PlayUnlock, PlayHangup, Play,
              PlayNothing, PlayerPushes, NextPass, shared, CooldownElapses,
              Command, Replay, Begin, ReadSession, Accept, Reject, Announce, StoreResult
<1>3. CASE UNCHANGED shared
  BY <1>3 DEF shared
<1> QED
  BY <1>1, <1>2, <1>3 DEF Next, vars

\* Whoever is about to clear the flag still is, if w alone moves.
LEMMA OthersClear ==
  ASSUME NEW w \in Workers, FlagFollows,
         \A v \in Workers : v # w => pc'[v] = pc[v] /\ action'[v] = action[v],
         ~Clearing(w) \/ Clearing(w)',
         UNCHANGED <<console, streaming, strayed>>,
         Clearing(w)' \/ (machine'.phase = "Idle" <=> machine.phase = "Idle")
  PROVE  FlagFollows'
<1>1. CASE Clearing(w)'
  BY <1>1 DEF FlagFollows, AboutToSet
<1>2. CASE ~Clearing(w)'
  <2>1. ASSUME NEW v \in Workers, Clearing(v)
        PROVE  Clearing(v)'
    BY <1>2, <2>1 DEF Clearing
  <2>2. AboutToSet => AboutToSet'
    BY <2>1 DEF AboutToSet
  <2> QED
    BY <1>2, <2>2 DEF FlagFollows
<1> QED
  BY <1>1, <1>2

LEMMA CommandFollows ==
  ASSUME MachineInv, FlagFollows, kind = "station", NEW w \in Workers, Command(w),
         UNCHANGED station
  PROVE  FlagFollows'
<1>1. /\ Placed /\ machine \in Machines /\ action[w] \in Actions
      /\ machine.phase = "Idle" => machine.owner = "None"
      /\ UNCHANGED <<console, streaming, strayed>>
  BY DEF MachineInv, Placed, station
<1>2. CASE \E i \in Ids : Replay(w, i)
  BY <1>1, <1>2, OthersClear DEF Replay, local, Clearing
<1>3. CASE \E i \in Ids, a \in Actions : Begin(w, a, i)
  BY <1>1, <1>3, OthersClear DEF Begin, Goto, Placed, Clearing
<1>4. CASE ReadSession(w)
  BY <1>1, <1>4, OthersClear DEF ReadSession, Goto, Placed, Clearing
<1>5. CASE Accept(w)
  <2>1. /\ pc[w] = "lock" /\ pc' = [pc EXCEPT ![w] = "push"] /\ action' = action
        /\ machine' = After(action[w]) /\ Verdict(action[w]) = "Ok"
    BY <1>5 DEF Accept, Goto, Transition
  <2>2. CASE action[w] = "Hangup"
    BY <1>1, <2>1, <2>2, OthersClear DEF Placed, Clearing
  <2>3. CASE action[w] # "Hangup"
    <3>1. machine'.phase = "Idle" <=> machine.phase = "Idle"
      BY <1>1, <2>1, <2>3, AfterKeeps
    <3> QED
      BY <1>1, <2>1, <3>1, OthersClear DEF Placed, Clearing
  <2> QED
    BY <2>2, <2>3
<1>6. CASE Reject(w)
  BY <1>1, <1>6, OthersClear DEF Reject, Goto, Placed, Clearing
<1>7. CASE Announce(w)
  <2>1. /\ pc[w] = "push" /\ UNCHANGED <<action, machine>>
        /\ pc' = [pc EXCEPT ![w] = IF action[w] = "Hangup" THEN "stop" ELSE "store"]
    BY <1>7 DEF Announce, Goto
  <2> QED
    BY <1>1, <2>1, OthersClear DEF Placed, Clearing
<1>8. CASE StoreResult(w)
  BY <1>1, <1>8, OthersClear DEF StoreResult, Goto, Placed, Clearing
<1> QED
  BY <1>2, <1>3, <1>4, <1>5, <1>6, <1>7, <1>8 DEF Command

LEMMA ConsoleFollows ==
  ASSUME MachineInv, MediaInv, kind = "station",
         Console \/ LoopEnds \/ SpeakerFails \/ \E w \in Workers : CommandStopsMedia(w)
  PROVE  FlagFollows'
<1>1. FlagFollows
  BY DEF MediaInv
<1>2. CASE Ring \/ HangUpLocal \/ AnnounceRing
  BY <1>2 DEF Ring, HangUpLocal, AnnounceRing, ConsoleGoto, FlagFollows, AboutToSet
<1>3. CASE StartMedia
  BY <1>3 DEF StartMedia, SetStreaming, shared, FlagFollows
<1>4. CASE StopMedia
  BY <1>4 DEF StopMedia, SetStreaming, shared, FlagFollows
<1>5. CASE \E w \in Workers : CommandStopsMedia(w)
  BY <1>5 DEF CommandStopsMedia, SetStreaming, FlagFollows
<1>6. CASE AnnounceEnd
  <2>1. /\ console = "ended" /\ console' = "prompt"
        /\ UNCHANGED <<streaming, strayed, machine, pc, action>>
    BY <1>6 DEF AnnounceEnd, ConsoleGoto, local
  <2>2. AboutToSet' <=> AboutToSet
    BY <2>1 DEF AboutToSet, Clearing
  <2> QED
    BY <1>1, <2>1, <2>2 DEF FlagFollows
<1>7. CASE LoopEnds \/ SpeakerFails
  <2>1. UNCHANGED <<console, streaming, strayed, machine, pc, action>>
    BY <1>7 DEF LoopEnds, SpeakerFails, shared, local
  <2>2. AboutToSet' <=> AboutToSet
    BY <2>1 DEF AboutToSet, Clearing
  <2> QED
    BY <1>1, <2>1, <2>2 DEF FlagFollows
<1> QED
  BY <1>2, <1>3, <1>4, <1>5, <1>6, <1>7 DEF Console

LEMMA LoopsKeep ==
  ASSUME MediaInv,
         UNCHANGED station \/ Console \/ LoopEnds \/ SpeakerFails
           \/ \E w \in Workers : CommandStopsMedia(w)
  PROVE  /\ loops' \in Nat /\ streaming' \in BOOLEAN /\ strayed' \in BOOLEAN
         /\ streaming' => loops' > 0
<1>1. loops \in Nat /\ (streaming => loops > 0) /\ streaming \in BOOLEAN /\ strayed \in BOOLEAN
  BY DEF MediaInv
<1>2. CASE UNCHANGED station
  BY <1>1, <1>2 DEF station
<1>3. CASE Ring \/ AnnounceRing \/ HangUpLocal \/ AnnounceEnd \/ SpeakerFails
  <2>1. UNCHANGED <<loops, streaming, strayed>>
    BY <1>3 DEF Ring, AnnounceRing, HangUpLocal, AnnounceEnd, SpeakerFails
  <2> QED
    BY <1>1, <2>1
<1>4. CASE StartMedia
  <2>1. loops' = IF streaming THEN loops ELSE loops + 1
    BY <1>4 DEF StartMedia
  <2>2. loops' \in Nat /\ loops' > 0
    BY <1>1, <2>1
  <2>3. streaming' \in BOOLEAN /\ strayed' \in BOOLEAN
    BY <1>4 DEF StartMedia, SetStreaming
  <2> QED
    BY <2>2, <2>3
<1>5. CASE StopMedia \/ \E w \in Workers : CommandStopsMedia(w)
  <2>1. loops' = loops /\ SetStreaming(FALSE)
    BY <1>5 DEF StopMedia, CommandStopsMedia
  <2>2. ~streaming' /\ streaming' \in BOOLEAN /\ strayed' \in BOOLEAN
    BY <2>1 DEF SetStreaming
  <2> QED
    BY <1>1, <2>1, <2>2
<1>6. CASE LoopEnds
  <2>1. /\ loops > 0 /\ ~streaming /\ loops' = loops - 1
        /\ streaming' = streaming /\ strayed' = strayed
    BY <1>6 DEF LoopEnds
  <2>2. loops' \in Nat
    BY <1>1, <2>1
  <2> QED
    BY <1>1, <2>1, <2>2
<1> QED
  BY <1>2, <1>3, <1>4, <1>5, <1>6 DEF Console

LEMMA MediaInvariant == Spec => []MediaInv
<1>1. Init => MediaInv
  <2> SUFFICES ASSUME Init PROVE MediaInv
    OBVIOUS
  <2>1. machine.phase = "Idle"
    BY DEF Init, SharedInit, NewMachine
  <2>2. streaming = FALSE /\ strayed = FALSE
    BY DEF Init, StationInit
  <2>3. loops \in Nat
    BY DEF Init, StationInit
  <2>4. FlagFollows
    BY <2>1, <2>2 DEF FlagFollows
  <2> QED
    BY <2>2, <2>3, <2>4 DEF MediaInv
<1>2. MachineInv /\ MediaInv /\ [Next]_vars => MediaInv'
  <2> SUFFICES ASSUME MachineInv, MediaInv, [Next]_vars PROVE MediaInv'
    OBVIOUS
  <2>1. kind' = kind
    BY KindStays
  <2>2. /\ loops' \in Nat /\ streaming' \in BOOLEAN /\ strayed' \in BOOLEAN
        /\ streaming' => loops' > 0
    <3>1. CASE StationNext
      BY <3>1, LoopsKeep DEF StationNext
    <3>2. CASE UNCHANGED station
      BY <3>2, LoopsKeep
    <3> QED
      BY <3>1, <3>2 DEF Next, vars
  <2>3. ASSUME kind = "station"
        PROVE  FlagFollows'
    <3>1. FlagFollows
      BY <2>3 DEF MediaInv
    <3>2. CASE StationNext
      <4>1. CASE CooldownElapses /\ UNCHANGED station
        <5>1. SameCall /\ UNCHANGED <<pc, action, console, streaming, strayed>>
          BY <4>1, CooldownMoves DEF CooldownElapses, local, station
        <5>2. AboutToSet' <=> AboutToSet
          BY <5>1 DEF AboutToSet, Clearing
        <5> QED
          BY <3>1, <5>1, <5>2 DEF FlagFollows, SameCall
      <4> QED
        BY <2>3, <3>1, <3>2, <4>1, ConsoleFollows, CommandFollows DEF StationNext
    <3>3. CASE UNCHANGED <<shared, station>>
      <4>1. AboutToSet' <=> AboutToSet
        BY <3>3 DEF shared, local, station, AboutToSet, Clearing
      <4> QED
        BY <3>1, <3>3, <4>1 DEF FlagFollows, shared, station
    <3> QED
      BY <2>3, <3>2, <3>3 DEF Next, vars
  <2> QED
    BY <2>1, <2>2, <2>3 DEF MediaInv
<1> QED
  BY <1>1, <1>2, MachineInvariant, PTL DEF Spec

(***************************************************************************)
(* Every ring and every hangup reaches the media of the door station, with *)
(* any number of commands between: when nobody is under way the flag says  *)
(* whether there is a call, and while it is set a loop runs, however many  *)
(* loops of earlier calls run beside it (ring, hangup_local, command).     *)
(***************************************************************************)
THEOREM MediaFollowsTheCall == Spec => []MediaTracksCall
<1>1. MediaInv => MediaTracksCall
  <2> SUFFICES ASSUME MediaInv, StationQuiet, ~strayed
               PROVE  streaming = (machine.phase # "Idle") /\ (streaming => loops > 0)
    BY DEF MediaTracksCall
  <2>1. ~AboutToSet /\ kind = "station"
    BY DEF StationQuiet, WorkersIdle, AboutToSet, Clearing
  <2> QED
    BY <2>1 DEF MediaInv, FlagFollows
<1> QED
  BY <1>1, MediaInvariant, PTL

--------------------------------------------------------------------------------
(***************************************************************************)
(* The replay Agent's pass (replay_timeline, run).  Whatever the capture,  *)
(* only the first event of its timeline begins a call.                     *)
(***************************************************************************)
BeginsOnce(t) == t \in Seq(Opcodes) /\ \A k \in DOMAIN t : t[k] = "request" => k = 1

PassInv == BeginsOnce(timeline) /\ next \in Nat /\ next >= 1 /\ HangupEndsPass

LEMMA OneRequest ==
  ASSUME NEW c \in Captures, NEW t \in Timeline(c)
  PROVE  BeginsOnce(t)
<1> DEFINE kept == {k \in DOMAIN c : IsEvent(c, k)}
           n == Cardinality(kept)
<1>1. PICK m \in 0..MaxCaptured : c \in [1..m -> Opcodes]
  BY DEF Captures, SeqOf
<1>2. m \in Nat /\ c[1] = "request" /\ DOMAIN c = 1..m
  BY <1>1, CapturedAssumption DEF Captures
<1>3. n \in Nat
  <2>1. IsFiniteSet(DOMAIN c)
    BY <1>2, FS_Interval
  <2>2. IsFiniteSet(kept)
    BY <2>1, FS_Subset
  <2> QED
    BY <2>2, FS_CardinalityType
<1>4. \A k \in kept : c[k] \in Opcodes /\ k \in Nat /\ k >= 1
  BY <1>1, <1>2
<1>5. \A k \in kept : c[k] = "request" => k = 1
  <2> SUFFICES ASSUME NEW k \in kept, c[k] = "request", k # 1
               PROVE  FALSE
    OBVIOUS
  <2>1. 1 \in 1..(k - 1)
    BY <1>4
  <2> QED
    BY <1>2, <2>1 DEF IsEvent
<1> HIDE DEF kept, n
<1>6. PICK at \in [1..n -> kept] :
        /\ \A i, j \in DOMAIN at : i < j => at[i] < at[j]
        /\ t = [i \in DOMAIN at |-> c[at[i]]]
  BY DEF Timeline, InOrder, kept, n
<1>7. DOMAIN t = 1..n /\ \A i \in 1..n : t[i] = c[at[i]] /\ at[i] \in kept
  BY <1>6
<1>8. t \in Seq(Opcodes)
  <2>1. t \in [1..n -> Opcodes]
    BY <1>4, <1>6, <1>7
  <2> QED
    BY <1>3, <2>1
<1>9. ASSUME NEW k \in DOMAIN t, t[k] = "request", k # 1
      PROVE  FALSE
  <2>1. at[k] = 1 /\ k \in 1..n
    BY <1>5, <1>7, <1>9
  <2>2. 1 \in 1..n /\ 1 < k
    BY <1>3, <1>9, <2>1
  <2>3. at[1] < at[k]
    BY <1>6, <2>1, <2>2
  <2>4. at[1] \in Nat /\ at[1] >= 1
    BY <1>4, <1>7, <2>2
  <2> QED
    BY <2>1, <2>3, <2>4
<1> QED
  BY <1>8, <1>9 DEF BeginsOnce

\* The events before the next one, one more of which may have been taken.
LEMMA NextTurn ==
  ASSUME PassInv, NEW op, Turn(op), timeline' = timeline, kind' = kind, kind = "replay",
         \/ machine'.phase = "Idle"
         \/ op # "hangup" /\ ~(\E k \in 1..(next - 1) : timeline[k] = "hangup")
         \/ op # "hangup" /\ (machine.phase = "Idle" => machine'.phase = "Idle")
  PROVE  PassInv'
<1>1. next \in Nat /\ next >= 1 /\ BeginsOnce(timeline)
  BY DEF PassInv
<1>2. next' = next + 1 /\ timeline[next] = op
  BY DEF Turn
<1>3. next' \in Nat /\ next' >= 1
  BY <1>1, <1>2
<1>4. \A k \in 1..(next' - 1) : k \in 1..(next - 1) \/ k = next
  BY <1>1, <1>2
<1>5. HangupEndsPass'
  <2> SUFFICES ASSUME NEW k \in 1..(next' - 1), timeline[k] = "hangup"
               PROVE  machine'.phase = "Idle"
    BY DEF HangupEndsPass
  <2>1. op # "hangup" => k \in 1..(next - 1)
    BY <1>2, <1>4
  <2>2. op # "hangup" => machine.phase = "Idle"
    BY <2>1 DEF PassInv, HangupEndsPass
  <2> QED
    BY <2>1, <2>2
<1> QED
  BY <1>1, <1>3, <1>5 DEF PassInv

LEMMA PlayerPasses ==
  ASSUME MachineInv, PassInv, kind = "replay", kind' = kind, Player
  PROVE  PassInv'
<1>1. next \in Nat /\ next >= 1 /\ timeline \in Seq(Opcodes)
      /\ \A k \in DOMAIN timeline : timeline[k] = "request" => k = 1
  BY DEF PassInv, BeginsOnce
<1>2. ASSUME NEW op, PlayNothing(op), op # "hangup"
      PROVE  PassInv'
  BY <1>2, NextTurn DEF PlayNothing, shared
<1>3. CASE PlayRequest
  <2>1. Turn("request") /\ timeline' = timeline
    BY <1>3 DEF PlayRequest, Play
  <2>2. next <= Len(timeline) /\ timeline[next] = "request"
    BY <2>1 DEF Turn
  <2>3. next = 1
    BY <1>1, <2>2
  <2>4. ~(\E k \in 1..(next - 1) : timeline[k] = "hangup")
    BY <2>3
  <2> QED
    BY <2>1, <2>4, NextTurn
<1>4. CASE PlayAnswer
  <2>1. CASE PadAnswerVerdict(machine) = "Ok"
    <3>1. machine.phase # "Idle"
      BY <2>1 DEF PadAnswerVerdict
    <3>2. Turn("answer") /\ timeline' = timeline
      BY <1>4, <2>1 DEF PlayAnswer, Play
    <3> QED
      BY <3>1, <3>2, NextTurn
  <2>2. CASE PadAnswerVerdict(machine) # "Ok"
    BY <1>2, <1>4, <2>2 DEF PlayAnswer
  <2> QED
    BY <2>1, <2>2
<1>5. CASE PlayUnlock
  <2>1. CASE machine.owner # "Pad"
    BY <1>2, <1>5, <2>1 DEF PlayUnlock
  <2>2. CASE machine.owner = "Pad"
    <3>1. Turn("unlock") /\ UNCHANGED <<timeline, machine>>
      BY <1>5, <2>2 DEF PlayUnlock, shared
    <3> QED
      BY <3>1, NextTurn
  <2> QED
    BY <2>1, <2>2
<1>6. CASE PlayHangup
  <2>1. machine' = Hangup(machine) /\ Turn("hangup") /\ timeline' = timeline
    BY <1>6 DEF PlayHangup, Play, Transition
  <2>2. machine'.phase = "Idle"
    BY <2>1 DEF Hangup, MachineInv, Machines
  <2> QED
    BY <2>1, <2>2, NextTurn
<1>7. CASE PlayerPushes
  BY <1>7 DEF PlayerPushes, PassInv, HangupEndsPass
<1>8. CASE NextPass
  <2>1. next' = 1 /\ timeline' = timeline
    BY <1>8 DEF NextPass
  <2>2. \A k \in 1..(next' - 1) : FALSE
    BY <2>1
  <2>3. HangupEndsPass'
    BY <2>2 DEF HangupEndsPass
  <2> QED
    BY <2>1, <2>3 DEF PassInv
<1> QED
  BY <1>3, <1>4, <1>5, <1>6, <1>7, <1>8 DEF Player

\* A client's command does not begin a call.
LEMMA CommandBegins ==
  ASSUME MachineInv, NEW w \in Workers, Command(w), machine.phase = "Idle"
  PROVE  machine'.phase = "Idle"
<1>1. CASE Accept(w)
  <2>1. machine' = After(action[w]) /\ Verdict(action[w]) = "Ok" /\ action[w] \in Actions
    BY <1>1 DEF Accept, Transition, MachineInv, Placed
  <2> QED
    BY <2>1, AfterKeeps DEF MachineInv, Actions
<1>2. CASE ~Accept(w)
  BY <1>2 DEF Command, Replay, Begin, ReadSession, Reject, Announce, StoreResult
<1> QED
  BY <1>1, <1>2

LEMMA PassInvariant == Spec => []PassInv
<1>1. Init => PassInv
  <2> SUFFICES ASSUME Init PROVE PassInv
    OBVIOUS
  <2>1. PICK c \in Captures : timeline \in Timeline(c)
    BY DEF Init, ReplayInit
  <2>2. BeginsOnce(timeline)
    BY <2>1, OneRequest
  <2>3. next = 1 /\ machine.phase = "Idle"
    BY DEF Init, ReplayInit, SharedInit, NewMachine
  <2> QED
    BY <2>2, <2>3 DEF PassInv, HangupEndsPass
<1>2. MachineInv /\ PassInv /\ [Next]_vars => PassInv'
  <2> SUFFICES ASSUME MachineInv, PassInv, [Next]_vars PROVE PassInv'
    OBVIOUS
  <2>1. kind' = kind
    BY KindStays
  <2>2. ASSUME UNCHANGED replay,
               kind = "replay" /\ machine.phase = "Idle" => machine'.phase = "Idle"
        PROVE  PassInv'
    BY <2>1, <2>2 DEF PassInv, HangupEndsPass, replay
  <2>3. CASE kind = "replay" /\ ReplayNext
    <3>1. CASE Player
      BY <2>1, <2>3, <3>1, PlayerPasses
    <3>2. CASE CooldownElapses /\ UNCHANGED replay
      <4>1. machine' = CooledDown(machine)
        BY <3>2 DEF CooldownElapses
      <4>2. machine'.phase = machine.phase
        BY <4>1 DEF CooledDown, MachineInv, Machines
      <4> QED
        BY <2>2, <3>2, <4>2
    <3>3. CASE (\E w \in Workers : Command(w)) /\ UNCHANGED replay
      BY <2>2, <3>3, CommandBegins
    <3> QED
      BY <2>3, <3>1, <3>2, <3>3 DEF ReplayNext
  <2>4. CASE UNCHANGED replay /\ (kind # "replay" \/ UNCHANGED shared)
    BY <2>2, <2>4 DEF shared
  <2> QED
    BY <2>3, <2>4 DEF Next, vars
<1> QED
  BY <1>1, <1>2, MachineInvariant, PTL DEF Spec

(***************************************************************************)
(* A captured hangup is the end of the pass's call, for every capture of   *)
(* any length: a second request in it is no event, and none of the other   *)
(* events and no command of a client begins a call (replay_timeline,       *)
(* apply, execute).                                                        *)
(***************************************************************************)
THEOREM PassEnds == Spec => []HangupEndsPass
<1>1. PassInv => HangupEndsPass
  BY DEF PassInv
<1> QED
  BY <1>1, PassInvariant, PTL

--------------------------------------------------------------------------------
(***************************************************************************)
(* The Python Pad: where an action can be, by its kind.                    *)
(***************************************************************************)
PlacesInv ==
    \A h \in Handlers :
        /\ handler[h] = "none" <=> does[h] = "none"
        /\ handler[h] = "recheck" => does[h] = "unlock"
        /\ handler[h] = "write" => does[h] \in {"answer", "hangup"}
        /\ handler[h] = "forget" => does[h] = "hangup"

(***************************************************************************)
(* What the threads know that are not late: an answer is about to be       *)
(* written that has been sent, an unlock goes to a connected call, and     *)
(* whoever still has the door to forget has left the phase idle.           *)
(***************************************************************************)
OnTimeInv ==
    \A h \in Handlers : h \notin late =>
        /\ handler[h] = "write" /\ does[h] = "answer" => answered
        /\ ~muddled /\ does[h] = "answer" => phase # "idle"
        /\ ~muddled /\ handler[h] = "send" /\ does[h] = "unlock" => phase = "connected"
        /\ ~muddled /\ handler[h] = "forget" => phase = "idle"

(***************************************************************************)
(* How the phase and the door belong together at any time: PhaseIsTrue but *)
(* for what somebody is about to do.                                       *)
(***************************************************************************)
CallInv ==
    /\ control = "ring" /\ "control" \notin late => remote
    /\ ~muddled =>
        /\ phase # "idle" => remote
        /\ control \in {"bye", "drop"} => phase = "idle"
        /\ phase = "idle" /\ remote =>
             \/ control \in {"ring", "bye", "drop", "dead"}
             \/ \E h \in Handlers : handler[h] = "forget"
        /\ phase = "connected" => answered
        /\ phase = "ringing" /\ answered =>
             \E h \in Handlers : handler[h] = "write" /\ does[h] = "answer"

LanInv == LanTypeOK /\ PlacesInv /\ OnTimeInv /\ CallInv /\ UnlocksAreAnswered

--------------------------------------------------------------------------------
(***************************************************************************)
(* It holds at first.                                                      *)
(***************************************************************************)
LEMMA LanInitInv == LanInit => LanInv
<1> SUFFICES ASSUME LanInit
             PROVE  LanInv
  OBVIOUS
<1>1. LanTypeOK
  <2>1. rings \in 0..MaxRings /\ posts \in 0..MaxPosts
    BY LanPadAssumption DEF LanInit
  <2> QED
    BY <2>1, Zenon DEF LanInit, LanTypeOK
<1>2. PlacesInv
  BY DEF LanInit, PlacesInv
<1>3. OnTimeInv
  BY DEF LanInit, OnTimeInv
<1>4. CallInv
  BY DEF LanInit, CallInv
<1>5. UnlocksAreAnswered
  BY DEF LanInit, UnlocksAreAnswered
<1> QED
  BY <1>1, <1>2, <1>3, <1>4, <1>5 DEF LanInv

(***************************************************************************)
(* The control thread keeps it.                                            *)
(***************************************************************************)
LEMMA ControlInv ==
  ASSUME LanInv, Control
  PROVE  LanInv'
<1> USE LanPadAssumption DEF LanInv, Receives, UnderWay, Answering, Unlocking
<1>1. CASE RingComes
  BY <1>1 DEF RingComes, LanTypeOK, PlacesInv, OnTimeInv, CallInv, UnlocksAreAnswered
<1>2. CASE RingIsSet
  <2>1. LanTypeOK'
    <3>1. late' \subseteq Handlers \cup {"control"}
      BY <1>2 DEF RingIsSet, LanTypeOK
    <3>2. phase' \in {"idle", "ringing", "connected"} /\ answered' \in BOOLEAN
      BY <1>2 DEF RingIsSet
    <3>3. muddled' \in BOOLEAN
      <4>1. CASE "control" \in late
        BY <1>2, <4>1 DEF RingIsSet
      <4>2. CASE "control" \notin late
        BY <1>2, <4>2 DEF RingIsSet
      <4> QED
        BY <4>1, <4>2
    <3> QED
      BY <1>2, <3>1, <3>2, <3>3 DEF RingIsSet, LanTypeOK
  <2>2. PlacesInv'
    BY <1>2 DEF RingIsSet, LanTypeOK, PlacesInv
  <2>3. OnTimeInv'
    BY <1>2 DEF RingIsSet, LanTypeOK, PlacesInv, OnTimeInv
  <2>4. CallInv'
    BY <1>2 DEF RingIsSet, LanTypeOK, PlacesInv, OnTimeInv, CallInv
  <2>5. UnlocksAreAnswered'
    BY <1>2 DEF RingIsSet, LanTypeOK, PlacesInv, OnTimeInv, CallInv, UnlocksAreAnswered
  <2> QED
    BY <2>1, <2>2, <2>3, <2>4, <2>5
<1>3. CASE RingReplied
  BY <1>3 DEF RingReplied, LanTypeOK, PlacesInv, OnTimeInv, CallInv, UnlocksAreAnswered
<1>4. CASE EndComes
  BY <1>4 DEF EndComes, LanTypeOK, PlacesInv, OnTimeInv, CallInv, UnlocksAreAnswered
<1>5. CASE EndEchoed
  BY <1>5 DEF EndEchoed, LanTypeOK, PlacesInv, OnTimeInv, CallInv, UnlocksAreAnswered
<1>6. CASE DoorForgotten
  BY <1>6 DEF DoorForgotten, LanTypeOK, PlacesInv, OnTimeInv, CallInv, UnlocksAreAnswered
<1> QED
  BY <1>1, <1>2, <1>3, <1>4, <1>5, <1>6 DEF Control

(***************************************************************************)
(* So does every thread of HTTP.                                           *)
(***************************************************************************)
LEMMA ServeInv ==
  ASSUME LanInv, NEW h \in Handlers, Serve(h)
  PROVE  LanInv'
<1> USE LanPadAssumption DEF LanInv, Handles, Answering, Unlocking, UnderWay
<1>1. ASSUME NEW a \in {"answer", "hangup"}, Post(h, a)
      PROVE  LanInv'
  BY <1>1 DEF Post, Accepted, LanTypeOK, PlacesInv, OnTimeInv, CallInv, UnlocksAreAnswered
<1>2. CASE PostUnlock(h)
  BY <1>2 DEF PostUnlock, Accepted, LanTypeOK, PlacesInv, OnTimeInv, CallInv, UnlocksAreAnswered
<1>3. CASE Recheck(h)
  BY <1>3 DEF Recheck, Finished, LanTypeOK, PlacesInv, OnTimeInv, CallInv, UnlocksAreAnswered
<1>4. CASE SendAction(h)
  <2>1. LanTypeOK'
    <3>1. rude' \in BOOLEAN
      BY <1>4, Zenon DEF SendAction, SendAnswer, SendUnlock, SendHangup, LanTypeOK
    <3>2. handler' \in [Handlers -> {"none", "recheck", "send", "write", "forget"}]
      BY <1>4 DEF SendAction, SendAnswer, SendUnlock, SendHangup, LanTypeOK
    <3>3. does' \in [Handlers -> {"none", "answer", "unlock", "hangup"}]
      BY <1>4 DEF SendAction, SendAnswer, SendUnlock, SendHangup, Finished, LanTypeOK
    <3>4. late' \subseteq Handlers \cup {"control"} /\ answered' \in BOOLEAN
      BY <1>4 DEF SendAction, SendAnswer, SendUnlock, SendHangup, Finished, LanTypeOK
    <3> QED
      BY <1>4, <3>1, <3>2, <3>3, <3>4 DEF SendAction, LanTypeOK
  <2>2. PlacesInv'
    BY <1>4 DEF SendAction, SendAnswer, SendUnlock, SendHangup, Finished, LanTypeOK, PlacesInv
  <2>3. OnTimeInv'
    BY <1>4 DEF SendAction, SendAnswer, SendUnlock, SendHangup, Finished, LanTypeOK,
                PlacesInv, OnTimeInv
  <2>4. CallInv'
    BY <1>4 DEF SendAction, SendAnswer, SendUnlock, SendHangup, Finished, LanTypeOK,
                PlacesInv, OnTimeInv, CallInv
  <2>5. UnlocksAreAnswered'
    BY <1>4 DEF SendAction, SendAnswer, SendUnlock, SendHangup, Finished, LanTypeOK,
                PlacesInv, OnTimeInv, CallInv, UnlocksAreAnswered
  <2> QED
    BY <2>1, <2>2, <2>3, <2>4, <2>5
<1>5. CASE SendRaises(h)
  BY <1>5 DEF SendRaises, Finished, LanTypeOK, PlacesInv, OnTimeInv, CallInv, UnlocksAreAnswered
<1>6. CASE SetConnected(h)
  BY <1>6 DEF SetConnected, Finished, LanTypeOK, PlacesInv, OnTimeInv, CallInv, UnlocksAreAnswered
<1>7. CASE SetIdle(h)
  BY <1>7 DEF SetIdle, Ends, LanTypeOK, PlacesInv, OnTimeInv, CallInv, UnlocksAreAnswered
<1>8. CASE ForgetDoor(h)
  BY <1>8 DEF ForgetDoor, Ends, LanTypeOK, PlacesInv, OnTimeInv, CallInv, UnlocksAreAnswered
<1> QED
  BY <1>1, <1>2, <1>3, <1>4, <1>5, <1>6, <1>7, <1>8 DEF Serve

(***************************************************************************)
(* Every step keeps it.                                                    *)
(***************************************************************************)
LEMMA LanStepInv ==
  ASSUME LanInv, [LanNext]_lan
  PROVE  LanInv'
<1>1. CASE Control
  BY <1>1, ControlInv
<1>2. CASE CooldownOver
  BY <1>2 DEF CooldownOver, LanInv, LanTypeOK, PlacesInv, OnTimeInv, CallInv, UnlocksAreAnswered
<1>3. CASE \E h \in Handlers : Serve(h)
  BY <1>3, ServeInv
<1>4. CASE UNCHANGED lan
  BY <1>4 DEF lan, LanInv, LanTypeOK, PlacesInv, OnTimeInv, CallInv, UnlocksAreAnswered
<1> QED
  BY <1>1, <1>2, <1>3, <1>4 DEF LanNext

(***************************************************************************)
(* Nobody under way has a door to forget, and the control thread is not    *)
(* about to.                                                               *)
(***************************************************************************)
LEMMA LanInvTells == LanInv => PhaseIsTrue
  BY DEF LanInv, LanTypeOK, PlacesInv, CallInv, PhaseIsTrue, UnderWay

LEMMA LanInvariant == LanSpec => []LanInv
  BY LanInitInv, LanStepInv, PTL DEF LanSpec

(***************************************************************************)
(* The state of the Python Pad keeps its type (service.py, PublicState).   *)
(***************************************************************************)
THEOREM LanTypeCorrect == LanSpec => []LanTypeOK
<1>1. LanInv => LanTypeOK
  BY DEF LanInv
<1> QED
  BY <1>1, LanInvariant, PTL

(***************************************************************************)
(* The phase a client reads is true whenever nobody is under way, however  *)
(* many threads answer, unlock and hang up across the door's messages -    *)
(* unless one was overtaken and wrote since the last ring or hangup        *)
(* (_handle_message, answer, hangup).                                      *)
(***************************************************************************)
THEOREM PhaseTold == LanSpec => []PhaseIsTrue
  BY LanInvariant, LanInvTells, PTL

(***************************************************************************)
(* No thread that was not overtaken sends an unlock outside an answered    *)
(* call: the check under the lock in _send_action is enough for that.      *)
(***************************************************************************)
THEOREM UnlocksInAnsweredCalls == LanSpec => []UnlocksAreAnswered
<1>1. LanInv => UnlocksAreAnswered
  BY DEF LanInv
<1> QED
  BY <1>1, LanInvariant, PTL

(***************************************************************************)
(* What Bench lets the Python Pad do is what LanSpec does: the three       *)
(* theorems are about it beside the simulated Agents as well.              *)
(***************************************************************************)
THEOREM PadRuns == Spec => LanSpec
<1>1. Init => LanInit
  BY DEF Init
<1>2. [Next]_vars => [LanNext]_lan
  BY DEF Next, vars
<1> QED
  BY <1>1, <1>2, PTL DEF Spec, LanSpec
================================================================================
