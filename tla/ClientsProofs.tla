----------------------------- MODULE ClientsProofs -----------------------------
(***************************************************************************)
(* Theorems about Clients, for any number of talkers, any capacity of the  *)
(* caches and channels, either policy and any bounds.                      *)
(***************************************************************************)
EXTENDS Clients, SequenceTheorems, FiniteSetTheorems, TLAPS

--------------------------------------------------------------------------------
(***************************************************************************)
(* What one talker after the other keeps to: the holder of the slot has    *)
(* the last turn, every packet that was sent has a turn and a number that  *)
(* have been handed out, and a packet that is about to be sent comes after *)
(* all that its destination has heard.                                     *)
(***************************************************************************)
LineInv == line \in 0..MaxDialled /\ dialled \in 0..MaxDialled

VoiceInv ==
    /\ \A t \in Talkers : talker[t] # "out" => packet[t].turn = turn
    /\ \A i \in 1..Len(said) :
         said[i].turn <= turn /\ said[i].seq < audioSeq[said[i].to]
    /\ \A t \in Talkers : talker[t] = "send" =>
         /\ packet[t].seq < audioSeq[packet[t].to]
         /\ \A i \in 1..Len(said) :
              said[i].to = packet[t].to => said[i].seq < packet[t].seq

TalkInv == LineInv /\ TalkTypeOK /\ SlotIsHeld /\ VoiceInv /\ VoicesDoNotMix

(***************************************************************************)
(* Ids in the cache are older than the next one, so that no result is ever *)
(* replayed to the bridge.                                                 *)
(***************************************************************************)
FreshInv ==
    /\ cmdSeq \in Nat
    /\ \A i \in CachedIds(cache) : i[2] \in Nat /\ i[2] < cmdSeq

ShowInv ==
    /\ FreshInv
    /\ granted \in BOOLEAN
    /\ shown \in Nat /\ opened \in Nat
    /\ ShownWasOpened

--------------------------------------------------------------------------------
(***************************************************************************)
(* What moves the calls fills the line with a call that was dialled, or    *)
(* leaves it alone.                                                        *)
(***************************************************************************)
LEMMA LineStep ==
  ASSUME LineInv, CallsMove \/ HomeKitMoves
  PROVE  LineInv'
<1> USE CallsAssumption DEF LineInv
<1>1. CASE CallsMove
  BY <1>1 DEF CallsMove, Ring, Answered, CallOver, Cools, DialOut, LineOver
<1>2. CASE HomeKitMoves
  <2>1. UNCHANGED <<line, dialled>>
    <3>1. CASE UserMoves \/ LiftMoves \/ Receive
      BY <3>1 DEF UserMoves, UserUnlocks, UserLocks, UserCallsLift, UserLeavesLift,
                  LiftMoves, PollSwitch, CallLift, SwitchOff, Receive, calls
    <3>2. CASE LockMoves
      BY <3>2 DEF LockMoves, PollLock, ClaimCall, UnlockDoor, ShowResult, Relock,
                  Execute, calls
    <3> QED
      BY <1>2, <3>1, <3>2 DEF HomeKitMoves
  <2> QED
    BY <2>1
<1> QED
  BY <1>1, <1>2

(***************************************************************************)
(* A packet gets the next number of its destination, which nobody there    *)
(* has heard (talk, next_sequence).                                        *)
(***************************************************************************)
LEMMA NumberIsNew ==
  ASSUME TalkInv, NEW t \in Talkers, NEW d \in 0..MaxDialled,
         Number(t, d), talker[t] # "out",
         talker' = [talker EXCEPT ![t] = "send"],
         UNCHANGED <<line, dialled, busy, turn, frames, said>>
  PROVE  TalkInv'
<1> USE CallsAssumption DEF TalkInv
<1>1. /\ packet' \in [Talkers -> Packets]
      /\ packet'[t].to = d /\ packet'[t].seq = audioSeq[d] /\ packet'[t].turn = packet[t].turn
      /\ \A u \in Talkers : u # t => packet'[u] = packet[u]
  BY DEF Number, TalkTypeOK, Packets
<1>2. /\ audioSeq' \in [0..MaxDialled -> Nat]
      /\ audioSeq'[d] = audioSeq[d] + 1
      /\ \A e \in 0..MaxDialled : audioSeq[e] <= audioSeq'[e]
  BY DEF Number, TalkTypeOK
<1>3. TalkTypeOK'
  BY <1>1, <1>2 DEF TalkTypeOK
<1>4. LineInv'
  BY DEF LineInv
<1>5. SlotIsHeld'
  BY DEF SlotIsHeld, TalkTypeOK
<1>6. \A i \in 1..Len(said) : said[i] \in Packets
  BY DEF TalkTypeOK
<1>7. \A i \in 1..Len(said) : /\ said[i].to \in 0..MaxDialled /\ said[i].seq \in Nat
                              /\ said[i].turn <= turn /\ said[i].seq < audioSeq[said[i].to]
  BY <1>6 DEF VoiceInv, Packets
<1>8. \A e \in 0..MaxDialled : \A n \in Nat : n < audioSeq[e] => n < audioSeq'[e]
  BY <1>2 DEF TalkTypeOK
<1>9. \A i \in 1..Len(said) : said[i].turn <= turn /\ said[i].seq < audioSeq'[said[i].to]
  BY <1>7, <1>8
<1>10. \A u \in Talkers : packet[u] \in Packets
  BY DEF TalkTypeOK
<1>11. \A u \in Talkers : talker'[u] # "out" => packet'[u].turn = turn
  BY <1>1 DEF VoiceInv, TalkTypeOK
<1>12. ASSUME NEW u \in Talkers, talker'[u] = "send"
       PROVE  /\ packet'[u].seq < audioSeq'[packet'[u].to]
              /\ \A i \in 1..Len(said) :
                   said[i].to = packet'[u].to => said[i].seq < packet'[u].seq
  <2>1. CASE u = t
    BY <1>1, <1>2, <1>7, <2>1 DEF TalkTypeOK
  <2>2. CASE u # t
    <3>1. talker[u] = "send" /\ packet'[u] = packet[u]
      BY <1>1, <1>12, <2>2 DEF TalkTypeOK
    <3>2. packet[u].to \in 0..MaxDialled /\ packet[u].seq \in Nat
      BY <1>10 DEF Packets
    <3>3. /\ packet[u].seq < audioSeq[packet[u].to]
          /\ \A i \in 1..Len(said) :
               said[i].to = packet[u].to => said[i].seq < packet[u].seq
      BY <3>1 DEF VoiceInv
    <3>4. packet[u].seq < audioSeq'[packet[u].to]
      BY <1>8, <3>2, <3>3
    <3> QED
      BY <3>1, <3>3, <3>4
  <2> QED
    BY <2>1, <2>2
<1>13. VoiceInv'
  BY <1>9, <1>11, <1>12 DEF VoiceInv
<1>14. VoicesDoNotMix'
  BY DEF VoicesDoNotMix
<1> QED
  BY <1>3, <1>4, <1>5, <1>13, <1>14

(***************************************************************************)
(* A packet that is sent comes after everything its destination has heard  *)
(* (talk).                                                                 *)
(***************************************************************************)
LEMMA SayKeeps ==
  ASSUME TalkInv, NEW t \in Talkers, Say(t), UNCHANGED <<line, dialled>>
  PROVE  TalkInv'
<1> USE DEF TalkInv
<1>1. /\ talker[t] = "send" /\ talker' = [talker EXCEPT ![t] = "reading"]
      /\ said' = Append(said, packet[t])
      /\ UNCHANGED <<busy, packet, audioSeq, turn, frames>>
  BY DEF Say, Moves
<1>2. /\ said \in Seq(Packets) /\ packet[t] \in Packets
      /\ said' \in Seq(Packets)
      /\ Len(said') = Len(said) + 1
      /\ said'[Len(said) + 1] = packet[t]
      /\ \A i \in 1..Len(said) : said'[i] = said[i]
  BY <1>1 DEF TalkTypeOK
<1>3. Len(said) \in Nat
  BY <1>2
<1>4. TalkTypeOK'
  BY <1>1, <1>2 DEF TalkTypeOK
<1>5. LineInv'
  BY DEF LineInv
<1>6. SlotIsHeld'
  BY <1>1 DEF SlotIsHeld, TalkTypeOK
<1>7. \A u \in Talkers : talker[u] # "out" => u = t
  BY <1>1 DEF SlotIsHeld
<1>8. /\ packet[t].turn = turn
      /\ packet[t].seq < audioSeq[packet[t].to]
      /\ \A i \in 1..Len(said) :
           said[i].to = packet[t].to => said[i].seq < packet[t].seq
  BY <1>1 DEF VoiceInv
<1>9. turn \in Nat
  BY TalkAssumption DEF TalkTypeOK
<1>10. VoiceInv'
  <2>1. \A u \in Talkers : talker'[u] # "send"
    BY <1>1, <1>7 DEF TalkTypeOK
  <2>2. \A u \in Talkers : talker'[u] # "out" => packet'[u].turn = turn'
    BY <1>1, <1>7, <1>8 DEF TalkTypeOK
  <2>3. ASSUME NEW i \in 1..Len(said')
        PROVE  said'[i].turn <= turn' /\ said'[i].seq < audioSeq'[said'[i].to]
    <3>1. CASE i = Len(said) + 1
      BY <1>1, <1>2, <1>8, <1>9, <3>1
    <3>2. CASE i \in 1..Len(said)
      BY <1>1, <1>2, <3>2 DEF VoiceInv
    <3> QED
      BY <1>2, <1>3, <3>1, <3>2
  <2> QED
    BY <2>1, <2>2, <2>3 DEF VoiceInv
<1>11. VoicesDoNotMix'
  <2>1. SUFFICES ASSUME NEW i \in 1..Len(said'), NEW j \in 1..Len(said'), i < j
                 PROVE  /\ said'[i].turn <= said'[j].turn
                        /\ said'[i].to = said'[j].to => said'[i].seq < said'[j].seq
    BY DEF VoicesDoNotMix
  <2>2. i \in 1..Len(said) /\ said'[i] = said[i]
    BY <1>2, <1>3, <2>1
  <2>3. CASE j = Len(said) + 1
    <3>1. said'[j] = packet[t] /\ said[i].turn <= turn
      BY <1>2, <2>2, <2>3 DEF VoiceInv
    <3> QED
      BY <1>8, <2>2, <3>1
  <2>4. CASE j \in 1..Len(said)
    <3>1. said'[j] = said[j]
      BY <1>2, <2>4
    <3> QED
      BY <2>1, <2>2, <2>4, <3>1 DEF VoicesDoNotMix
  <2> QED
    BY <1>2, <1>3, <2>3, <2>4
<1> QED
  BY <1>4, <1>5, <1>6, <1>10, <1>11

(***************************************************************************)
(* Whoever leaves gives the slot back, and nobody else had it (Release).   *)
(***************************************************************************)
LEMMA OutKeeps ==
  ASSUME TalkInv, NEW t \in Talkers, Out(t), talker[t] # "out",
         UNCHANGED <<line, dialled, audioSeq, turn, frames, said>>
  PROVE  TalkInv'
<1> USE DEF TalkInv
<1>1. \A u \in Talkers : talker[u] # "out" => u = t
  BY DEF SlotIsHeld
<1>2. \A u \in Talkers : talker'[u] = "out"
  BY <1>1 DEF Out, TalkTypeOK
<1>3. Silence \in Packets
  BY CallsAssumption DEF Silence, Packets, Door
<1>4. TalkTypeOK'
  BY <1>3 DEF Out, TalkTypeOK
<1>5. SlotIsHeld'
  BY <1>2 DEF Out, SlotIsHeld
<1>6. VoiceInv'
  BY <1>2 DEF VoiceInv
<1> QED
  BY <1>4, <1>5, <1>6 DEF LineInv, VoicesDoNotMix

(***************************************************************************)
(* The slot is won by somebody alone (talk_upload, talk_websocket).        *)
(***************************************************************************)
LEMMA TakeSlotKeeps ==
  ASSUME TalkInv, NEW t \in Talkers, TakeSlot(t), UNCHANGED <<line, dialled>>
  PROVE  TalkInv'
<1> USE TalkAssumption DEF TalkInv
<1>1. \A u \in Talkers : talker[u] = "out"
  BY DEF TakeSlot, SlotIsHeld
<1>2. /\ \A u \in Talkers : talker'[u] = IF u = t THEN "reading" ELSE "out"
      /\ busy' = TRUE /\ turn' = turn + 1 /\ turn < MaxTurns
      /\ UNCHANGED <<audioSeq, frames, said>>
  BY <1>1 DEF TakeSlot, Moves, TalkTypeOK
<1>3. turn \in Nat /\ turn' \in Nat /\ turn' \in 0..MaxTurns
  BY <1>2 DEF TalkTypeOK
<1>4. packet' \in [Talkers -> Packets] /\ packet'[t].turn = turn'
  BY <1>3 DEF TakeSlot, TalkTypeOK, Packets
<1>5. TalkTypeOK'
  BY <1>2, <1>3, <1>4 DEF TakeSlot, Moves, TalkTypeOK
<1>6. SlotIsHeld'
  BY <1>2 DEF SlotIsHeld
<1>7. \A i \in 1..Len(said) : said[i] \in Packets
  BY DEF TalkTypeOK
<1>8. VoiceInv'
  <2>1. \A i \in 1..Len(said) : said[i].turn <= turn'
    BY <1>2, <1>3, <1>7 DEF VoiceInv, Packets
  <2>2. \A u \in Talkers : talker'[u] # "out" => packet'[u].turn = turn'
    BY <1>2, <1>4
  <2>3. \A u \in Talkers : talker'[u] # "send"
    BY <1>2
  <2> QED
    BY <1>2, <2>1, <2>2, <2>3 DEF VoiceInv
<1> QED
  BY <1>2, <1>5, <1>6, <1>8 DEF LineInv, VoicesDoNotMix

(***************************************************************************)
(* A step that only moves the holder of the slot on, before a packet.      *)
(***************************************************************************)
LEMMA MoveKeeps ==
  ASSUME TalkInv, NEW t \in Talkers, NEW to \in {"reading", "line", "call", "number"},
         talker[t] # "out", talker' = [talker EXCEPT ![t] = to],
         frames' \in 0..MaxFrames,
         UNCHANGED <<line, dialled, busy, packet, audioSeq, turn, said>>
  PROVE  TalkInv'
<1> USE DEF TalkInv
<1>1. \A u \in Talkers : /\ talker'[u] # "out" <=> talker[u] # "out"
                         /\ talker'[u] = "send" => talker[u] = "send"
  BY DEF TalkTypeOK
<1>2. TalkTypeOK'
  BY DEF TalkTypeOK
<1>3. SlotIsHeld'
  BY <1>1 DEF SlotIsHeld
<1>4. VoiceInv'
  BY <1>1 DEF VoiceInv
<1> QED
  BY <1>2, <1>3, <1>4 DEF LineInv, VoicesDoNotMix

(***************************************************************************)
(* Every step of a talker keeps the invariant.                             *)
(***************************************************************************)
LEMMA TalkStepKeeps ==
  ASSUME TalkInv, NEW t \in Talkers, TalkStep(t), UNCHANGED calls
  PROVE  TalkInv'
<1> USE CallsAssumption DEF calls
<1>0. frames \in 0..MaxFrames /\ line \in 0..MaxDialled
  BY DEF TalkInv, TalkTypeOK, LineInv
<1>1. CASE TakeSlot(t)
  BY <1>1, TakeSlotKeeps
<1>2. CASE Leave(t)
  BY <1>2, OutKeeps DEF Leave
<1>3. CASE Hear(t)
  <2>1. frames' \in 0..MaxFrames
    BY <1>0, <1>3, TalkAssumption DEF Hear
  <2> QED
    BY <1>3, <2>1, MoveKeeps DEF Hear, Moves
<1>4. CASE LookAtLine(t)
  <2>1. CASE line # 0
    BY <1>0, <1>4, <2>1, NumberIsNew DEF LookAtLine, Moves
  <2>2. CASE line = 0
    BY <1>0, <1>4, <2>2, MoveKeeps DEF LookAtLine, Moves
  <2> QED
    BY <2>1, <2>2
<1>5. CASE LookAtCall(t)
  <2>1. CASE RemoteMediaAllowed(machine, machine.session)
    BY <1>0, <1>5, <2>1, MoveKeeps DEF LookAtCall, Moves
  <2>2. CASE ~RemoteMediaAllowed(machine, machine.session)
    BY <1>5, <2>2, OutKeeps DEF LookAtCall
  <2> QED
    BY <2>1, <2>2
<1>6. CASE TakeNumber(t)
  <2>1. Door \in 0..MaxDialled
    BY DEF Door
  <2> QED
    BY <1>6, <2>1, NumberIsNew DEF TakeNumber, Moves
<1>7. CASE Say(t)
  BY <1>7, SayKeeps
<1>8. CASE SayFails(t)
  <2>1. CASE packet[t].to = Door
    BY <1>8, <2>1, OutKeeps DEF SayFails
  <2>2. CASE packet[t].to # Door
    BY <1>0, <1>8, <2>2, MoveKeeps DEF SayFails, Moves
  <2> QED
    BY <2>1, <2>2
<1> QED
  BY <1>1, <1>2, <1>3, <1>4, <1>5, <1>6, <1>7, <1>8 DEF TalkStep

(***************************************************************************)
(* TalkInv holds in every state: talkers keep it, and what moves the calls *)
(* changes at most the line.                                               *)
(***************************************************************************)
LEMMA TalkInvariant == Spec => []TalkInv
<1>1. Init => TalkInv
  <2> SUFFICES ASSUME Init
               PROVE  TalkInv
    OBVIOUS
  <2> USE CallsAssumption, TalkAssumption
  <2>1. LineInv
    BY DEF Init, CallsInit, LineInv
  <2>2. Silence \in Packets
    BY DEF Silence, Packets, Door
  <2>3. TalkTypeOK
    BY <2>2 DEF Init, TalkInit, TalkTypeOK
  <2>4. SlotIsHeld
    BY DEF Init, TalkInit, SlotIsHeld
  <2>5. VoiceInv /\ VoicesDoNotMix
    BY DEF Init, TalkInit, VoiceInv, VoicesDoNotMix
  <2> QED
    BY <2>1, <2>3, <2>4, <2>5 DEF TalkInv
<1>2. TalkInv /\ [Next]_vars => TalkInv'
  <2> SUFFICES ASSUME TalkInv, [Next]_vars
               PROVE  TalkInv'
    OBVIOUS
  <2>1. CASE LineInv' /\ UNCHANGED talk
    BY <2>1 DEF talk, TalkInv, TalkTypeOK, SlotIsHeld, VoiceInv, VoicesDoNotMix
  <2>2. CASE (CallsMove \/ HomeKitMoves) /\ UNCHANGED talk
    BY <2>1, <2>2, LineStep DEF TalkInv
  <2>3. CASE TalkMoves /\ UNCHANGED calls
    BY <2>3, TalkStepKeeps DEF TalkMoves
  <2>4. CASE UNCHANGED vars
    BY <2>1, <2>4 DEF vars, calls, talk, TalkInv, LineInv
  <2> QED
    BY <2>2, <2>3, <2>4 DEF Next, talk
<1> QED
  BY <1>1, <1>2, PTL DEF Spec

--------------------------------------------------------------------------------
(***************************************************************************)
(* What the cache holds after a result has been stored.                    *)
(***************************************************************************)
LEMMA StoreAddsOne ==
  ASSUME NEW c, NEW i, NEW r
  PROVE  CachedIds(Store(c, Capacity, i, r)) \subseteq CachedIds(c) \cup {i}
  BY DEF CachedIds, Store

(***************************************************************************)
(* A command of the bridge is executed, never replayed: its id is new, and *)
(* an unlock that was granted has opened the door (execute, next_id).      *)
(***************************************************************************)
LEMMA ExecuteTells ==
  ASSUME FreshInv, granted \in BOOLEAN, opened \in Nat,
         NEW kind, NEW verdict, NEW next, NEW event,
         Execute(kind, verdict, next, event)
  PROVE  /\ FreshInv'
         /\ granted' \in BOOLEAN
         /\ opened' = IF kind = "unlock" /\ granted' THEN opened + 1 ELSE opened
<1>1. NextId(kind)[2] = cmdSeq /\ cmdSeq \in Nat
  BY DEF NextId, FreshInv
<1>2. NextId(kind) \notin CachedIds(cache)
  BY <1>1 DEF FreshInv
<1>3. /\ cmdSeq' = cmdSeq + 1
      /\ cache' = Store(cache, Capacity, NextId(kind), granted')
      /\ opened' = IF kind = "unlock" /\ granted' THEN opened + 1 ELSE opened
      /\ granted' \in BOOLEAN
  BY <1>2 DEF Execute
<1>4. CachedIds(cache') \subseteq CachedIds(cache) \cup {NextId(kind)}
  BY <1>3, StoreAddsOne
<1>5. FreshInv'
  <2>1. \A i \in CachedIds(cache) : i[2] \in Nat /\ i[2] < cmdSeq'
    BY <1>1, <1>3 DEF FreshInv
  <2> QED
    BY <1>1, <1>3, <1>4, <2>1 DEF FreshInv
<1> QED
  BY <1>3, <1>5

(***************************************************************************)
(* ShowInv holds in every state.                                           *)
(***************************************************************************)
LEMMA ShowInvariant == Spec => []ShowInv
<1>1. Init => ShowInv
  <2> SUFFICES ASSUME Init
               PROVE  ShowInv
    OBVIOUS
  <2>1. cache = EmptyCache /\ CachedIds(EmptyCache) = {}
    BY DEF Init, HomeKitInit, EmptyCache, CachedIds
  <2>2. FreshInv
    BY <2>1 DEF Init, HomeKitInit, FreshInv
  <2>3. lockPc = "poll" /\ granted = FALSE /\ shown = 0 /\ opened = 0
    BY DEF Init, HomeKitInit
  <2>4. ShownWasOpened
    BY <2>3 DEF ShownWasOpened
  <2> QED
    BY <2>2, <2>3, <2>4 DEF ShowInv
<1>2. ShowInv /\ [Next]_vars => ShowInv'
  <2> SUFFICES ASSUME ShowInv, [Next]_vars
               PROVE  ShowInv'
    OBVIOUS
  <2> USE DEF ShowInv
  <2>1. CASE UNCHANGED <<lockPc, granted, cmdSeq, cache, shown, opened>>
    BY <2>1 DEF FreshInv, ShownWasOpened
  <2>2. CASE UNCHANGED homekit
    BY <2>1, <2>2 DEF homekit, loops, tallies
  <2>3. CASE UserMoves \/ Receive \/ PollSwitch \/ SwitchOff
    BY <2>1, <2>3 DEF UserMoves, UserUnlocks, UserLocks, UserCallsLift, UserLeavesLift,
                      Receive, PollSwitch, SwitchOff, loops, tallies, LiftGoes
  <2>4. CASE CallLift
    BY <2>4 DEF CallLift, FreshInv, ShownWasOpened
  <2>5. CASE PollLock
    BY <2>5 DEF PollLock, tallies, FreshInv, ShownWasOpened
  <2>6. CASE ClaimCall
    <3>1. /\ FreshInv' /\ granted' \in BOOLEAN /\ opened' = opened
          /\ lockPc = "claim" /\ lockPc' = "unlock" /\ shown' = shown
      BY <2>6, ExecuteTells DEF ClaimCall, LockGoes
    <3> QED
      BY <3>1 DEF ShownWasOpened
  <2>7. CASE UnlockDoor
    <3>1. /\ FreshInv' /\ granted' \in BOOLEAN
          /\ opened' = IF granted' THEN opened + 1 ELSE opened
          /\ lockPc = "unlock" /\ lockPc' = "show" /\ shown' = shown
      BY <2>7, ExecuteTells DEF UnlockDoor, LockGoes
    <3> QED
      BY <3>1 DEF ShownWasOpened
  <2>8. CASE ShowResult
    BY <2>8 DEF ShowResult, LockGoes, FreshInv, ShownWasOpened
  <2>9. CASE Relock
    BY <2>9 DEF Relock, LockGoes, tallies, FreshInv, ShownWasOpened
  <2> QED
    BY <2>2, <2>3, <2>4, <2>5, <2>6, <2>7, <2>8, <2>9
       DEF Next, vars, HomeKitMoves, LockMoves, LiftMoves
<1> QED
  BY <1>1, <1>2, PTL DEF Spec

--------------------------------------------------------------------------------
(***************************************************************************)
(* A tap that the lock's loop has not served is the one in its target, or  *)
(* the one it is at; a flip of the switch likewise; and a press of the     *)
(* doorbell, or one that is still to come, is a call that rang.            *)
(***************************************************************************)
Waits(b) == IF b THEN 1 ELSE 0

LockOwes ==
    \/ lockPc \in {"claim", "unlock"}
    \/ lockPc = "poll" /\ lock.target = "UNSECURED"

LiftOwes == liftPc = "call" \/ (liftPc = "poll" /\ switch)

Started(s) == {i \in 1..Len(s) : s[i] = "started"}

LoopsSeen ==
    /\ lock \in [current : States, target : States]
    /\ lockPc \in {"poll", "claim", "unlock", "show", "relock"}
    /\ liftPc \in {"poll", "call", "off"}
    /\ switch \in BOOLEAN
    /\ lockPc = "poll" => lockLast = "SECURED"
    /\ liftPc = "poll" => liftLast = FALSE

LoopsServe ==
    /\ taps \in Nat /\ flips \in Nat /\ unlocks \in Nat /\ lifts \in Nat
    /\ unlocks <= taps /\ (LockOwes => unlocks < taps)
    /\ lifts <= flips /\ (LiftOwes => lifts < flips)

LoopsInv == LoopsSeen /\ LoopsServe

BellInv ==
    /\ machine \in Machines /\ presses \in Nat
    /\ updates \in Seq({"started", "other"})
    /\ presses + Cardinality(Started(updates)) <= machine.session

(***************************************************************************)
(* The events a receiver has yet to take: one that is taken was the first, *)
(* and one that is pushed is counted once.                                 *)
(***************************************************************************)
LEMMA StartedIsFinite ==
  ASSUME NEW s \in Seq({"started", "other"})
  PROVE  IsFiniteSet(Started(s)) /\ Cardinality(Started(s)) \in Nat
<1>1. Len(s) \in Nat /\ IsFiniteSet(1..Len(s))
  BY FS_Interval
<1>2. Started(s) \in SUBSET (1..Len(s))
  BY DEF Started
<1>3. IsFiniteSet(Started(s))
  BY <1>1, <1>2, FS_Subset
<1> QED
  BY <1>3, FS_CardinalityType

LEMMA StartedOfTail ==
  ASSUME NEW s \in Seq({"started", "other"}), s # <<>>
  PROVE  /\ Tail(s) \in Seq({"started", "other"})
         /\ Cardinality(Started(s)) =
              Cardinality(Started(Tail(s))) + Waits(Head(s) = "started")
<1> DEFINE t == Tail(s)
           later == {i + 1 : i \in Started(t)}
           shift == [i \in Started(t) |-> i + 1]
<1>1. /\ t \in Seq({"started", "other"}) /\ Len(t) = Len(s) - 1
      /\ Len(s) \in Nat /\ Len(t) \in Nat
      /\ \A i \in 1..Len(t) : t[i] = s[i + 1]
  BY HeadTailProperties
<1>2. Head(s) = s[1] /\ Len(s) >= 1
  OBVIOUS
<1> HIDE DEF t
<1>3. IsFiniteSet(Started(t)) /\ Cardinality(Started(t)) \in Nat
  BY <1>1, StartedIsFinite
<1>4. IsFiniteSet(later) /\ Cardinality(later) = Cardinality(Started(t))
  <2>1. shift \in Bijection(Started(t), later)
    <3>1. shift \in [Started(t) -> later]
      OBVIOUS
    <3>2. \A a, b \in Started(t) : shift[a] = shift[b] => a = b
      BY <1>1 DEF Started
    <3>3. \A x \in later : \E a \in Started(t) : shift[a] = x
      OBVIOUS
    <3> HIDE DEF shift, later
    <3> QED
      BY <3>1, <3>2, <3>3 DEF Bijection, Injection, Surjection, IsInjective
  <2> QED
    BY <1>3, <2>1, FS_Bijection DEF ExistsBijection
<1>5. Started(s) = IF Head(s) = "started" THEN later \cup {1} ELSE later
  <2>1. ASSUME NEW i \in later
        PROVE  i \in Started(s) /\ i # 1
    BY <1>1, <2>1 DEF Started
  <2>2. ASSUME NEW i \in Started(s), i # 1
        PROVE  i \in later
    <3>1. i - 1 \in 1..Len(t) /\ (i - 1) + 1 = i /\ s[i] = "started"
      BY <1>1, <2>2 DEF Started
    <3>2. i - 1 \in Started(t)
      BY <1>1, <3>1 DEF Started
    <3> QED
      BY <3>1, <3>2
  <2>3. 1 \in Started(s) <=> Head(s) = "started"
    BY <1>1, <1>2 DEF Started
  <2> HIDE DEF later
  <2>4. CASE Head(s) = "started"
    <3>1. Started(s) = later \cup {1}
      BY <2>1, <2>2, <2>3, <2>4
    <3> QED
      BY <2>4, <3>1
  <2>5. CASE Head(s) # "started"
    <3>1. Started(s) = later
      BY <2>1, <2>2, <2>3, <2>5
    <3> QED
      BY <2>5, <3>1
  <2> QED
    BY <2>4, <2>5
<1>6. 1 \notin later
  BY <1>1 DEF Started
<1> HIDE DEF later
<1>7. Cardinality(later \cup {1}) = Cardinality(later) + 1
  BY <1>4, <1>6, FS_AddElement
<1>8. CASE Head(s) = "started"
  <2>1. Cardinality(Started(s)) = Cardinality(Started(t)) + 1
    BY <1>4, <1>5, <1>7, <1>8
  <2> QED
    BY <1>1, <1>8, <2>1 DEF t, Waits
<1>9. CASE Head(s) # "started"
  <2>1. Cardinality(Started(s)) = Cardinality(Started(t)) + 0
    BY <1>3, <1>4, <1>5, <1>9
  <2> QED
    BY <1>1, <1>9, <2>1 DEF t, Waits
<1> QED
  BY <1>8, <1>9

LEMMA StartedOfAppend ==
  ASSUME NEW s \in Seq({"started", "other"}), NEW kind \in {"started", "other"}
  PROVE  /\ Append(s, kind) \in Seq({"started", "other"})
         /\ Cardinality(Started(Append(s, kind))) =
              Cardinality(Started(s)) + Waits(kind = "started")
<1> DEFINE a == Append(s, kind)
           n == Len(s) + 1
<1>1. /\ a \in Seq({"started", "other"}) /\ Len(s) \in Nat /\ Len(a) = n
      /\ a[n] = kind /\ \A i \in 1..Len(s) : a[i] = s[i]
  BY AppendProperties
<1> HIDE DEF a
<1>2. IsFiniteSet(Started(s)) /\ Cardinality(Started(s)) \in Nat /\ n \notin Started(s)
  BY <1>1, StartedIsFinite DEF Started
<1>3. Started(a) = IF kind = "started" THEN Started(s) \cup {n} ELSE Started(s)
  <2>1. ASSUME NEW i \in 1..n
        PROVE  i \in Started(a) <=> i \in Started(s) \/ (i = n /\ kind = "started")
    BY <1>1 DEF Started
  <2>2. Started(a) \subseteq 1..n /\ Started(s) \subseteq 1..n /\ n \in 1..n
    BY <1>1 DEF Started
  <2> QED
    BY <2>1, <2>2
<1>4. Cardinality(Started(s) \cup {n}) = Cardinality(Started(s)) + 1
  BY <1>2, FS_AddElement
<1>5. CASE kind = "started"
  BY <1>1, <1>3, <1>4, <1>5 DEF a, Waits
<1>6. CASE kind # "started"
  <2>1. Cardinality(Started(a)) = Cardinality(Started(s)) + 0
    BY <1>2, <1>3, <1>6
  <2> QED
    BY <1>1, <1>6, <2>1 DEF a, Waits
<1> QED
  BY <1>5, <1>6

(***************************************************************************)
(* An event that is pushed is one more to take, and a full channel loses   *)
(* its oldest (EventLog::push).                                            *)
(***************************************************************************)
LEMMA PushCounts ==
  ASSUME updates \in Seq({"started", "other"}), NEW kind \in {"started", "other"},
         Push(kind)
  PROVE  /\ updates' \in Seq({"started", "other"})
         /\ Cardinality(Started(updates')) <=
              Cardinality(Started(updates)) + Waits(kind = "started")
<1>1. Cardinality(Started(updates)) \in Nat /\ Waits(kind = "started") \in Nat
  BY StartedIsFinite DEF Waits
<1>2. CASE Len(updates) = Broadcast
  <2>1. updates # <<>>
    BY <1>2, CallsAssumption
  <2>2. /\ Tail(updates) \in Seq({"started", "other"})
        /\ Cardinality(Started(Tail(updates))) <= Cardinality(Started(updates))
    <3>1. Waits(Head(updates) = "started") \in Nat
      BY DEF Waits
    <3>2. /\ Tail(updates) \in Seq({"started", "other"})
          /\ Cardinality(Started(updates)) =
               Cardinality(Started(Tail(updates))) + Waits(Head(updates) = "started")
      BY <2>1, StartedOfTail
    <3>3. Cardinality(Started(Tail(updates))) \in Nat
      BY <3>2, StartedIsFinite
    <3> QED
      BY <3>1, <3>2, <3>3
  <2>3. updates' = Append(Tail(updates), kind)
    BY <1>2 DEF Push
  <2>4. /\ updates' \in Seq({"started", "other"})
        /\ Cardinality(Started(updates')) =
             Cardinality(Started(Tail(updates))) + Waits(kind = "started")
    BY <2>2, <2>3, StartedOfAppend
  <2>5. Cardinality(Started(Tail(updates))) \in Nat
    BY <2>2, StartedIsFinite
  <2> QED
    BY <1>1, <2>2, <2>4, <2>5
<1>3. CASE Len(updates) # Broadcast
  <2>1. updates' = Append(updates, kind)
    BY <1>3 DEF Push
  <2>2. /\ updates' \in Seq({"started", "other"})
        /\ Cardinality(Started(updates')) =
             Cardinality(Started(updates)) + Waits(kind = "started")
    BY <2>1, StartedOfAppend
  <2> QED
    BY <1>1, <2>2
<1> QED
  BY <1>2, <1>3

(***************************************************************************)
(* BellInv goes on when another event is pushed and the session stays, and *)
(* when a new session begins with its event (on_call_started).             *)
(***************************************************************************)
LEMMA BellGoesOn ==
  ASSUME BellInv, NEW kind \in {"started", "other"}, Push(kind), presses' = presses,
         machine' \in Machines,
         machine'.session = machine.session + Waits(kind = "started")
  PROVE  BellInv'
<1>1. /\ machine.session \in Nat /\ presses \in Nat /\ Waits(kind = "started") \in Nat
      /\ updates \in Seq({"started", "other"})
      /\ presses + Cardinality(Started(updates)) <= machine.session
  BY DEF BellInv, Waits, Machines
<1>2. /\ updates' \in Seq({"started", "other"})
      /\ Cardinality(Started(updates')) <=
           Cardinality(Started(updates)) + Waits(kind = "started")
  BY <1>1, PushCounts
<1>3. Cardinality(Started(updates)) \in Nat /\ Cardinality(Started(updates')) \in Nat
  BY <1>1, <1>2, StartedIsFinite
<1>4. presses + Cardinality(Started(updates')) <= machine'.session
  BY <1>1, <1>2, <1>3
<1> QED
  BY <1>1, <1>2, <1>4 DEF BellInv

(***************************************************************************)
(* The methods of the machine that a client reaches keep its session.      *)
(***************************************************************************)
LEMMA SessionStays ==
  ASSUME NEW m \in Machines
  PROVE  \A n \in {PadAnswer(m), RemoteAnswer(m), Unlock(m), Hangup(m), CooledDown(m)} :
           n \in Machines /\ n.session = m.session
  BY DEF Machines, Phases, Owners, PadAnswer, RemoteAnswer, Unlock, Hangup, CooledDown

(***************************************************************************)
(* A command of the bridge moves the machine within its session, and       *)
(* announces it or not (execute).                                          *)
(***************************************************************************)
LEMMA BellExecute ==
  ASSUME BellInv, NEW kind, NEW verdict, NEW next \in Machines,
         next.session = machine.session,
         Execute(kind, verdict, next, "other"), presses' = presses
  PROVE  BellInv'
<1>1. CASE machine' = next /\ Push("other")
  <2>1. machine'.session = machine.session + Waits("other" = "started")
    BY <1>1 DEF Waits, BellInv, Machines
  <2> QED
    BY <1>1, <2>1, BellGoesOn
<1>2. CASE (machine' = next \/ machine' = machine) /\ updates' = updates
  BY <1>2 DEF BellInv
<1> QED
  BY <1>1, <1>2 DEF Execute, calls

(***************************************************************************)
(* BellInv holds in every state: no press without a call that rang.        *)
(***************************************************************************)
LEMMA BellInvariant == Spec => []BellInv
<1>1. Init => BellInv
  <2> SUFFICES ASSUME Init PROVE BellInv
    OBVIOUS
  <2>1. updates = <<>> /\ presses = 0 /\ machine = NewMachine
    BY DEF Init, CallsInit, HomeKitInit
  <2>2. Started(updates) = {} /\ updates \in Seq({"started", "other"})
    BY <2>1 DEF Started
  <2>3. machine \in Machines /\ machine.session = 0
    BY <2>1 DEF NewMachine, Machines, Phases, Owners
  <2>4. Cardinality(Started(updates)) = 0
    BY <2>2, FS_EmptySet
  <2>5. presses \in Nat /\ presses + Cardinality(Started(updates)) <= machine.session
    BY <2>1, <2>3, <2>4
  <2> QED
    BY <2>2, <2>3, <2>5 DEF BellInv
<1>2. BellInv /\ [Next]_vars => BellInv'
  <2> SUFFICES ASSUME BellInv, [Next]_vars PROVE BellInv'
    OBVIOUS
  <2>1. CASE UNCHANGED <<machine, updates, presses>>
    BY <2>1 DEF BellInv
  <2>2. machine \in Machines /\ machine.session \in Nat
    BY DEF BellInv, Machines
  <2>3. ASSUME NEW kind \in {"started", "other"}, Push(kind), presses' = presses,
               machine' \in Machines,
               machine'.session = machine.session + Waits(kind = "started")
        PROVE  BellInv'
    BY <2>3, BellGoesOn
  <2>4. CASE CallsMove /\ UNCHANGED <<homekit, talk>>
    <3>1. presses' = presses
      BY <2>4 DEF homekit, tallies
    <3>2. ASSUME Push("other"), machine' \in Machines, machine'.session = machine.session
          PROVE  BellInv'
      <4>1. machine'.session = machine.session + Waits("other" = "started")
        BY <2>2, <3>2 DEF Waits
      <4> QED
        BY <2>3, <3>1, <3>2, <4>1
    <3>3. CASE Ring
      <4>1. machine' = StartCall(machine, machine.session + 1) /\ Push("started")
        BY <3>3 DEF Ring, Becomes
      <4>2. machine' \in Machines /\ machine'.session = machine.session + 1
        BY <2>2, <4>1 DEF StartCall, Machines, Phases, Owners
      <4>3. machine'.session = machine.session + Waits("started" = "started")
        BY <4>2 DEF Waits
      <4> QED
        BY <2>3, <3>1, <4>1, <4>2, <4>3
    <3>4. CASE Answered \/ CallOver
      <4>1. /\ Push("other")
            /\ machine' \in {PadAnswer(machine), RemoteAnswer(machine), Hangup(machine)}
        BY <3>4 DEF Answered, CallOver, Becomes
      <4>2. machine' \in Machines /\ machine'.session = machine.session
        BY <2>2, <4>1, SessionStays
      <4> QED
        BY <3>2, <4>1, <4>2
    <3>5. CASE Cools
      <4>1. machine' = CooledDown(machine) /\ updates' = updates
        BY <3>5 DEF Cools
      <4>2. machine' \in Machines /\ machine'.session = machine.session
        BY <2>2, <4>1, SessionStays
      <4> QED
        BY <3>1, <4>1, <4>2 DEF BellInv
    <3>6. CASE DialOut \/ LineOver
      <4>1. Push("other") /\ machine' = machine
        BY <3>6 DEF DialOut, LineOver
      <4> QED
        BY <2>2, <3>2, <4>1
    <3> QED
      BY <2>4, <3>3, <3>4, <3>5, <3>6 DEF CallsMove
  <2>5. CASE UserMoves \/ LiftMoves \/ PollLock \/ ShowResult \/ Relock
    BY <2>1, <2>5 DEF UserMoves, UserUnlocks, UserLocks, UserCallsLift, UserLeavesLift,
         LiftMoves, PollSwitch, CallLift, SwitchOff, PollLock, ShowResult, Relock,
         calls, tallies
  <2>6. CASE ClaimCall
    <3>1. RemoteAnswer(machine) \in Machines /\ RemoteAnswer(machine).session = machine.session
      BY <2>2, SessionStays
    <3> QED
      BY <2>6, <3>1, BellExecute DEF ClaimCall
  <2>7. CASE UnlockDoor
    <3>1. Unlock(machine) \in Machines /\ Unlock(machine).session = machine.session
      BY <2>2, SessionStays
    <3> QED
      BY <2>7, <3>1, BellExecute DEF UnlockDoor
  <2>8. CASE Receive
    <3>1. CASE lagged
      BY <2>1, <2>8, <3>1 DEF Receive
    <3>2. CASE ~lagged
      <4>1. /\ updates # <<>> /\ updates' = Tail(updates) /\ machine' = machine
            /\ presses' = IF Head(updates) = "started" THEN presses + 1 ELSE presses
        BY <2>8, <3>2 DEF Receive
      <4>2. updates \in Seq({"started", "other"}) /\ presses \in Nat
        BY DEF BellInv
      <4>3. presses' = presses + Waits(Head(updates) = "started") /\ presses' \in Nat
        BY <4>1, <4>2 DEF Waits
      <4>4. /\ updates' \in Seq({"started", "other"})
            /\ Cardinality(Started(updates)) =
                 Cardinality(Started(updates')) + Waits(Head(updates) = "started")
        BY <4>1, <4>2, StartedOfTail
      <4>5. Cardinality(Started(updates')) \in Nat /\ Waits(Head(updates) = "started") \in Nat
        BY <4>4, StartedIsFinite DEF Waits
      <4>6. presses + Cardinality(Started(updates)) <= machine.session
        BY DEF BellInv
      <4>7. presses' + Cardinality(Started(updates')) <= machine.session
        BY <2>2, <4>2, <4>3, <4>4, <4>5, <4>6
      <4> QED
        BY <2>2, <4>1, <4>3, <4>4, <4>7 DEF BellInv
    <3> QED
      BY <3>1, <3>2
  <2>9. CASE TalkMoves /\ UNCHANGED <<calls, homekit>>
    BY <2>1, <2>9 DEF calls, homekit, tallies
  <2>10. CASE UNCHANGED vars
    BY <2>1, <2>10 DEF vars, calls, homekit, tallies
  <2> QED
    BY <2>4, <2>5, <2>6, <2>7, <2>8, <2>9, <2>10 DEF Next, HomeKitMoves, LockMoves
<1> QED
  BY <1>1, <1>2, PTL DEF Spec

(***************************************************************************)
(* LoopsInv holds in every state: what a loop owes was asked for, and what *)
(* it writes itself it does not take for a wish (last, set_lock_states,    *)
(* set_switch).                                                            *)
(***************************************************************************)
LEMMA LoopsInvariant == Spec => []LoopsInv
<1>1. Init => LoopsInv
  <2> SUFFICES ASSUME Init PROVE LoopsInv
    OBVIOUS
  <2>1. lock \in [current : States, target : States] /\ lock.target = "SECURED"
    BY DEF Init, HomeKitInit, Lock, States
  <2>2. ~LockOwes /\ ~LiftOwes
    BY <2>1 DEF Init, HomeKitInit, LockOwes, LiftOwes
  <2>3. LoopsSeen
    BY <2>1 DEF Init, HomeKitInit, LoopsSeen
  <2>4. LoopsServe
    BY <2>2 DEF Init, HomeKitInit, LoopsServe
  <2> QED
    BY <2>3, <2>4 DEF LoopsInv
<1>2. LoopsInv /\ [Next]_vars => LoopsInv'
  <2> SUFFICES ASSUME LoopsInv, [Next]_vars PROVE LoopsInv'
    OBVIOUS
  <2>1. LoopsSeen /\ LoopsServe
    BY DEF LoopsInv
  <2>2. /\ taps \in Nat /\ flips \in Nat /\ unlocks \in Nat /\ lifts \in Nat
        /\ unlocks <= taps /\ lifts <= flips
    BY <2>1 DEF LoopsServe
  <2>3. (LockOwes => unlocks < taps) /\ (LiftOwes => lifts < flips)
    BY <2>1 DEF LoopsServe
  <2>4. ASSUME LoopsSeen', taps' \in Nat, flips' \in Nat, unlocks' \in Nat, lifts' \in Nat,
               unlocks' <= taps', LockOwes' => unlocks' < taps',
               lifts' <= flips', LiftOwes' => lifts' < flips'
        PROVE  LoopsInv'
    BY <2>4 DEF LoopsInv, LoopsServe
  <2>5. ASSUME LoopsSeen', taps' = taps, flips' = flips, unlocks' = unlocks, lifts' = lifts,
               LockOwes' => LockOwes, LiftOwes' => LiftOwes
        PROVE  LoopsInv'
    BY <2>2, <2>3, <2>4, <2>5
  <2>6. CASE UserUnlocks
    <3>1. LoopsSeen'
      BY <2>1, <2>6 DEF LoopsSeen, UserUnlocks, States
    <3>2. taps' = taps + 1 /\ flips' = flips /\ unlocks' = unlocks /\ lifts' = lifts
      BY <2>6 DEF UserUnlocks
    <3>3. LiftOwes' => LiftOwes
      BY <2>6 DEF UserUnlocks, LiftOwes
    <3> QED
      BY <2>2, <2>3, <2>4, <3>1, <3>2, <3>3
  <2>7. CASE UserLocks
    <3>1. LoopsSeen'
      BY <2>1, <2>7 DEF LoopsSeen, UserLocks, tallies, States
    <3>2. taps' = taps /\ flips' = flips /\ unlocks' = unlocks /\ lifts' = lifts
      BY <2>7 DEF UserLocks, tallies
    <3>3. (LockOwes' => LockOwes) /\ (LiftOwes' => LiftOwes)
      BY <2>1, <2>7 DEF LoopsSeen, UserLocks, tallies, States, LockOwes, LiftOwes
    <3> QED
      BY <2>5, <3>1, <3>2, <3>3
  <2>8. CASE UserCallsLift
    <3>1. LoopsSeen'
      BY <2>1, <2>8 DEF LoopsSeen, UserCallsLift
    <3>2. flips' = flips + 1 /\ taps' = taps /\ unlocks' = unlocks /\ lifts' = lifts
      BY <2>8 DEF UserCallsLift
    <3>3. LockOwes' => LockOwes
      BY <2>8 DEF UserCallsLift, LockOwes
    <3> QED
      BY <2>2, <2>3, <2>4, <3>1, <3>2, <3>3
  <2>9. CASE UserLeavesLift
    <3>1. LoopsSeen'
      BY <2>1, <2>9 DEF LoopsSeen, UserLeavesLift, tallies
    <3>2. taps' = taps /\ flips' = flips /\ unlocks' = unlocks /\ lifts' = lifts
      BY <2>9 DEF UserLeavesLift, tallies
    <3>3. (LockOwes' => LockOwes) /\ (LiftOwes' => LiftOwes)
      BY <2>1, <2>9 DEF LoopsSeen, UserLeavesLift, tallies, LockOwes, LiftOwes
    <3> QED
      BY <2>5, <3>1, <3>2, <3>3
  <2>10. CASE PollLock
    <3>1. LoopsSeen'
      BY <2>1, <2>10 DEF LoopsSeen, PollLock, tallies, States
    <3>2. taps' = taps /\ flips' = flips /\ unlocks' = unlocks /\ lifts' = lifts
      BY <2>10 DEF PollLock, tallies
    <3>3. (LockOwes' => LockOwes) /\ (LiftOwes' => LiftOwes)
      BY <2>1, <2>10 DEF LoopsSeen, PollLock, tallies, States, LockOwes, LiftOwes
    <3> QED
      BY <2>5, <3>1, <3>2, <3>3
  <2>11. CASE ClaimCall
    <3>1. LoopsSeen'
      BY <2>1, <2>11 DEF LoopsSeen, ClaimCall, LockGoes
    <3>2. taps' = taps /\ flips' = flips /\ unlocks' = unlocks /\ lifts' = lifts
      BY <2>11 DEF ClaimCall, LockGoes
    <3>3. (LockOwes' => LockOwes) /\ (LiftOwes' => LiftOwes)
      BY <2>1, <2>11 DEF LoopsSeen, ClaimCall, LockGoes, LockOwes, LiftOwes
    <3> QED
      BY <2>5, <3>1, <3>2, <3>3
  <2>12. CASE UnlockDoor
    <3>1. LoopsSeen'
      BY <2>1, <2>12 DEF LoopsSeen, UnlockDoor, LockGoes
    <3>2. unlocks' = unlocks + 1 /\ taps' = taps /\ flips' = flips /\ lifts' = lifts
      BY <2>12 DEF UnlockDoor, LockGoes
    <3>3. LiftOwes' => LiftOwes
      BY <2>12 DEF UnlockDoor, LockGoes, LiftOwes
    <3>4. LockOwes /\ ~LockOwes'
      BY <2>12 DEF UnlockDoor, LockGoes, LockOwes
    <3> QED
      BY <2>2, <2>3, <2>4, <3>1, <3>2, <3>3, <3>4
  <2>13. CASE ShowResult
    <3>1. LoopsSeen'
      BY <2>1, <2>13 DEF LoopsSeen, ShowResult, LockGoes, Lock, States
    <3>2. taps' = taps /\ flips' = flips /\ unlocks' = unlocks /\ lifts' = lifts
      BY <2>13 DEF ShowResult, LockGoes
    <3>3. (LockOwes' => LockOwes) /\ (LiftOwes' => LiftOwes)
      BY <2>1, <2>13 DEF LoopsSeen, ShowResult, LockGoes, Lock, States, LockOwes, LiftOwes
    <3> QED
      BY <2>5, <3>1, <3>2, <3>3
  <2>14. CASE Relock
    <3>1. LoopsSeen'
      BY <2>1, <2>14 DEF LoopsSeen, Relock, LockGoes, tallies, Lock, States
    <3>2. taps' = taps /\ flips' = flips /\ unlocks' = unlocks /\ lifts' = lifts
      BY <2>14 DEF Relock, LockGoes, tallies
    <3>3. (LockOwes' => LockOwes) /\ (LiftOwes' => LiftOwes)
      BY <2>1, <2>14 DEF LoopsSeen, Relock, LockGoes, tallies, Lock, States, LockOwes, LiftOwes
    <3> QED
      BY <2>5, <3>1, <3>2, <3>3
  <2>15. CASE PollSwitch
    <3>1. LoopsSeen'
      BY <2>1, <2>15 DEF LoopsSeen, PollSwitch, LiftGoes, tallies
    <3>2. taps' = taps /\ flips' = flips /\ unlocks' = unlocks /\ lifts' = lifts
      BY <2>15 DEF PollSwitch, LiftGoes, tallies
    <3>3. (LockOwes' => LockOwes) /\ (LiftOwes' => LiftOwes)
      BY <2>1, <2>15 DEF LoopsSeen, PollSwitch, LiftGoes, tallies, LockOwes, LiftOwes
    <3> QED
      BY <2>5, <3>1, <3>2, <3>3
  <2>16. CASE CallLift
    <3>1. LoopsSeen'
      BY <2>1, <2>16 DEF LoopsSeen, CallLift, LiftGoes
    <3>2. lifts' = lifts + 1 /\ taps' = taps /\ flips' = flips /\ unlocks' = unlocks
      BY <2>16 DEF CallLift, LiftGoes
    <3>3. LockOwes' => LockOwes
      BY <2>16 DEF CallLift, LiftGoes, LockOwes
    <3>4. LiftOwes /\ ~LiftOwes'
      BY <2>16 DEF CallLift, LiftGoes, LiftOwes
    <3> QED
      BY <2>2, <2>3, <2>4, <3>1, <3>2, <3>3, <3>4
  <2>17. CASE SwitchOff
    <3>1. LoopsSeen'
      BY <2>1, <2>17 DEF LoopsSeen, SwitchOff, LiftGoes, tallies
    <3>2. taps' = taps /\ flips' = flips /\ unlocks' = unlocks /\ lifts' = lifts
      BY <2>17 DEF SwitchOff, LiftGoes, tallies
    <3>3. (LockOwes' => LockOwes) /\ (LiftOwes' => LiftOwes)
      BY <2>1, <2>17 DEF LoopsSeen, SwitchOff, LiftGoes, tallies, LockOwes, LiftOwes
    <3> QED
      BY <2>5, <3>1, <3>2, <3>3
  <2>18. CASE UNCHANGED <<lock, lockPc, lockLast, switch, liftPc, liftLast,
                         taps, flips, unlocks, lifts>>
    BY <2>1, <2>18 DEF LoopsInv, LoopsSeen, LoopsServe, LockOwes, LiftOwes
  <2>19. CASE Receive
    BY <2>18, <2>19 DEF Receive, loops
  <2>20. CASE CallsMove /\ UNCHANGED <<homekit, talk>>
    BY <2>18, <2>20 DEF homekit, loops, tallies
  <2>21. CASE TalkMoves /\ UNCHANGED <<calls, homekit>>
    BY <2>18, <2>21 DEF homekit, loops, tallies
  <2>22. CASE UNCHANGED vars
    BY <2>18, <2>22 DEF vars, homekit, loops, tallies
  <2> QED
    BY <2>6, <2>7, <2>8, <2>9, <2>10, <2>11, <2>12, <2>13, <2>14, <2>15, <2>16, <2>17,
       <2>19, <2>20, <2>21, <2>22
       DEF Next, HomeKitMoves, UserMoves, LockMoves, LiftMoves
<1> QED
  BY <1>1, <1>2, PTL DEF Spec

--------------------------------------------------------------------------------
(***************************************************************************)
(* The talk-back slot is taken exactly while one handler is at work, for   *)
(* any number of connections (talk_upload, talk_websocket).                *)
(***************************************************************************)
THEOREM OneTalker == Spec => []SlotIsHeld
<1>1. TalkInv => SlotIsHeld
  BY DEF TalkInv
<1> QED
  BY <1>1, TalkInvariant, PTL

(***************************************************************************)
(* No voice comes after that of a later talker, and no packet after one    *)
(* with a later number for the same destination (Agent::talk).             *)
(***************************************************************************)
THEOREM OneVoice == Spec => []VoicesDoNotMix
<1>1. TalkInv => VoicesDoNotMix
  BY DEF TalkInv
<1> QED
  BY <1>1, TalkInvariant, PTL

(***************************************************************************)
(* HomeKit never shows the lock open more often than the door was opened   *)
(* (the lock's loop of hap.rs, next_id).                                   *)
(***************************************************************************)
THEOREM ShownOnlyOpened == Spec => []ShownWasOpened
<1>1. ShowInv => ShownWasOpened
  BY DEF ShowInv
<1> QED
  BY <1>1, ShowInvariant, PTL

(***************************************************************************)
(* HomeKit opens no door, calls no elevator and rings no bell unasked, for *)
(* any number of taps, rings and results the cache holds (the three loops  *)
(* of hap.rs).                                                             *)
(***************************************************************************)
THEOREM OnlyWhatWasAsked == Spec => []NothingUnasked
<1>1. LoopsInv => unlocks <= taps /\ lifts <= flips
  BY DEF LoopsInv, LoopsServe
<1>2. BellInv => presses <= machine.session
  <2> SUFFICES ASSUME BellInv PROVE presses <= machine.session
    OBVIOUS
  <2>1. Cardinality(Started(updates)) \in Nat
    BY StartedIsFinite DEF BellInv
  <2> QED
    BY <2>1 DEF BellInv, Machines
<1>3. LoopsInv /\ BellInv => NothingUnasked
  BY <1>1, <1>2 DEF NothingUnasked
<1> QED
  BY <1>3, LoopsInvariant, BellInvariant, PTL
================================================================================
