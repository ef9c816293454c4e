---------------------------- MODULE AgentCallProofs ----------------------------
(***************************************************************************)
(* Theorems about AgentCall, for any set of workers and command ids, any   *)
(* capacity, policy, wire and fault set, and any bounds.                   *)
(***************************************************************************)
EXTENDS AgentCall, FiniteSetTheorems, TLAPS

(***************************************************************************)
(* The state machine's methods keep its type (state.rs CallMachine).       *)
(***************************************************************************)
LEMMA MachineMethods ==
    ASSUME NEW m \in Machines, NEW n \in Nat
    PROVE  /\ StartCall(m, n) \in Machines
           /\ PadAnswer(m) \in Machines
           /\ RemoteAnswer(m) \in Machines
           /\ Unlock(m) \in Machines
           /\ CooledDown(m) \in Machines
           /\ Hangup(m) \in Machines
           /\ NewMachine \in Machines
  BY DEF Machines, Phases, Owners, StartCall, PadAnswer, RemoteAnswer, Unlock,
         CooledDown, Hangup, NewMachine

(***************************************************************************)
(* store() keeps the cache well formed, holds the id stored, and loses no  *)
(* other id than the evicted one (CommandCache::store).                    *)
(***************************************************************************)
LEMMA StoreKeeps ==
    ASSUME NEW c, NEW i \in CommandIds, NEW r \in Verdicts,
           c.order \in Seq(CommandIds),
           CachedIds(c) \subseteq CommandIds,
           \A j \in CachedIds(c) : c.results[j] \in Verdicts
    PROVE  /\ Store(c, Capacity, i, r).order \in Seq(CommandIds)
           /\ Evicted(c, Capacity) \subseteq CommandIds
           /\ CachedIds(Store(c, Capacity, i, r))
                 = (CachedIds(c) \ Evicted(c, Capacity)) \cup {i}
           /\ Store(c, Capacity, i, r).results[i] = r
           /\ \A j \in CachedIds(Store(c, Capacity, i, r)) \ {i} :
                 Store(c, Capacity, i, r).results[j] = c.results[j]
           /\ \A j \in CachedIds(Store(c, Capacity, i, r)) :
                 Store(c, Capacity, i, r).results[j] \in Verdicts
  <1> DEFINE gone == Evicted(c, Capacity)
  <1>1. gone = {} \/ (c.order # <<>> /\ gone = {Head(c.order)})
    BY DEF Evicted
  <1>2. c.order # <<>> => Head(c.order) \in CommandIds /\ Tail(c.order) \in Seq(CommandIds)
    OBVIOUS
  <1>3. (IF gone = {} THEN c.order ELSE Tail(c.order)) \in Seq(CommandIds)
    BY <1>1, <1>2
  <1>4. gone \subseteq CommandIds
    BY <1>1, <1>2
  <1> HIDE DEF gone
  <1>5. Store(c, Capacity, i, r).order
          = Append(IF gone = {} THEN c.order ELSE Tail(c.order), i)
    BY DEF Store, gone
  <1>6. Store(c, Capacity, i, r).order \in Seq(CommandIds)
    BY <1>3, <1>5
  <1>7. Store(c, Capacity, i, r).results
          = [j \in (CachedIds(c) \ gone) \cup {i} |-> IF j = i THEN r ELSE c.results[j]]
    BY DEF Store, gone
  <1>8. CachedIds(Store(c, Capacity, i, r)) = (CachedIds(c) \ gone) \cup {i}
    BY <1>7 DEF CachedIds
  <1>9. QED
    BY <1>4, <1>6, <1>7, <1>8 DEF gone

(***************************************************************************)
(* Counting one more occurrence keeps a tally well typed.                  *)
(***************************************************************************)
LEMMA CountOneMore ==
    ASSUME NEW S, NEW f \in [S -> Nat], NEW x
    PROVE  /\ [f EXCEPT ![x] = @ + 1] \in [S -> Nat]
           /\ \A y \in S : [f EXCEPT ![x] = @ + 1][y] = IF y = x THEN f[y] + 1 ELSE f[y]
  <1> DEFINE g == [f EXCEPT ![x] = @ + 1]
  <1>1. g = [y \in S |-> IF y = x THEN f[x] + 1 ELSE f[y]]
    OBVIOUS
  <1>2. \A y \in S : g[y] = IF y = x THEN f[y] + 1 ELSE f[y]
    BY <1>1
  <1>3. \A y \in S : f[y] \in Nat
    OBVIOUS
  <1>4. \A y \in S : g[y] \in Nat
    BY <1>2, <1>3
  <1> HIDE DEF g
  <1>5. g \in [S -> Nat]
    BY <1>1, <1>4
  <1>6. QED
    BY <1>2, <1>5 DEF g

(***************************************************************************)
(* Type correctness of every reachable state.                              *)
(***************************************************************************)
THEOREM TypeCorrect == Spec => []TypeOK
  <1>1. Init => TypeOK
    <2> SUFFICES ASSUME Init PROVE TypeOK
      OBVIOUS
    <2>1. call \in Machines
      BY MachineMethods DEF Init, Machines, Phases, Owners, NewMachine
    <2>2. cache.order \in Seq(CommandIds) /\ CachedIds(cache) = {}
      BY DEF Init, EmptyCache, CachedIds
    <2>3. log \in Seq([kind : EventKinds, session : Nat])
      BY DEF Init
    <2>4. wire \in [pc : WirePcs, kind : EventKinds, session : Nat]
      BY DEF Init, AtRest, WirePcs, EventKinds
    <2>5. nextSession \in 1..(MaxSessions + 1)
      BY BoundsAssumption DEF Init
    <2>6. QED
      BY <2>1, <2>2, <2>3, <2>4, <2>5 DEF Init, TypeOK, WorkerPcs, Actions, Verdicts
  <1>2. TypeOK /\ [Next]_vars => TypeOK'
    <2> SUFFICES ASSUME TypeOK, [Next]_vars PROVE TypeOK'
      OBVIOUS
    <2> USE DEF shared, threads, history, locals
    <2>1. ASSUME NEW w \in Workers, NEW a \in Actions, NEW i \in IdsOf(a), Begin(w, a, i)
          PROVE  TypeOK'
      <3>1. i \in CommandIds
        BY DEF IdsOf, CommandIds, Actions
      <3>2. /\ pc' \in [Workers -> WorkerPcs] /\ action' \in [Workers -> Actions]
            /\ id' \in [Workers -> CommandIds \cup {NoId}]
            /\ \A v \in Workers : pc'[v] # "idle" => id'[v] \in CommandIds
        BY <2>1, <3>1 DEF TypeOK, Begin, Goto, WorkerPcs
      <3>3. excused' \subseteq CommandIds /\ requests' \in Nat
        BY <2>1, <3>1 DEF TypeOK, Begin
      <3>4. QED
        BY <2>1, <3>2, <3>3 DEF TypeOK, Begin
    <2>2. ASSUME NEW w \in Workers, NEW i \in CommandIds, Replay(w, i)
          PROVE  TypeOK'
      BY <2>2 DEF TypeOK, Replay
    <2>3. ASSUME NEW w \in Workers, ReadPeers(w) PROVE TypeOK'
      BY <2>3 DEF TypeOK, ReadPeers, Goto, WorkerPcs
    <2>4. ASSUME NEW w \in Workers, ReadSession(w) PROVE TypeOK'
      BY <2>4 DEF TypeOK, ReadSession, Goto, WorkerPcs, Machines
    <2>5. ASSUME NEW w \in Workers, Reject(w) PROVE TypeOK'
      <3>1. Verdict(w) \in Verdicts
        BY DEF TypeOK, Verdict, Verdicts, Actions, RemoteAnswerVerdict, UnlockVerdict
      <3>2. QED
        BY <2>5, <3>1 DEF TypeOK, Reject, Goto, WorkerPcs
    <2>6. ASSUME NEW w \in Workers, Claim(w) PROVE TypeOK'
      <3>1. RemoteAnswer(call) \in Machines
        BY MachineMethods DEF TypeOK
      <3>2. answers' \in [Sessions -> Nat] /\ acted' \in [CommandIds -> Nat]
        BY <2>6, CountOneMore DEF TypeOK, Claim, Accept
      <3>3. /\ pc' \in [Workers -> WorkerPcs] /\ result' \in [Workers -> Verdicts]
            /\ target' \in [Workers -> Nat]
            /\ \A v \in Workers : pc'[v] # "idle" => id'[v] \in CommandIds
        BY <2>6 DEF TypeOK, Claim, Accept, Goto, WorkerPcs, Verdicts, Machines
      <3>4. QED
        BY <2>6, <3>1, <3>2, <3>3 DEF TypeOK, Claim, Accept
    <2>7. ASSUME NEW w \in Workers, UnlockDoor(w) PROVE TypeOK'
      <3>1. Unlock(call) \in Machines
        BY MachineMethods DEF TypeOK
      <3>2. acted' \in [CommandIds -> Nat]
        BY <2>7, CountOneMore DEF TypeOK, UnlockDoor, Accept
      <3>3. /\ pc' \in [Workers -> WorkerPcs] /\ result' \in [Workers -> Verdicts]
            /\ target' \in [Workers -> Nat]
            /\ \A v \in Workers : pc'[v] # "idle" => id'[v] \in CommandIds
        BY <2>7 DEF TypeOK, UnlockDoor, Accept, Goto, WorkerPcs, Verdicts, Machines
      <3>4. QED
        BY <2>7, <3>1, <3>2, <3>3 DEF TypeOK, UnlockDoor, Accept
    <2>8. ASSUME NEW w \in Workers, HangUp(w) PROVE TypeOK'
      <3>1. Hangup(call) \in Machines
        BY MachineMethods DEF TypeOK
      <3>2. ends' \in [Sessions -> Nat] /\ acted' \in [CommandIds -> Nat]
        BY <2>8, CountOneMore DEF TypeOK, HangUp, Accept
      <3>3. /\ pc' \in [Workers -> WorkerPcs] /\ result' \in [Workers -> Verdicts]
            /\ target' \in [Workers -> Nat]
            /\ \A v \in Workers : pc'[v] # "idle" => id'[v] \in CommandIds
        BY <2>8 DEF TypeOK, HangUp, Accept, Goto, WorkerPcs, Verdicts, Machines
      <3>4. QED
        BY <2>8, <3>1, <3>2, <3>3 DEF TypeOK, HangUp, Accept
    <2>9. ASSUME NEW w \in Workers, Send(w) PROVE TypeOK'
      BY <2>9 DEF TypeOK, Send, Goto, WorkerPcs
    <2>10. ASSUME NEW w \in Workers, SendFails(w) PROVE TypeOK'
      BY <2>10 DEF TypeOK, SendFails, Goto, WorkerPcs, Verdicts
    <2>11. ASSUME NEW w \in Workers, SilencePad(w) PROVE TypeOK'
      BY <2>11 DEF TypeOK, SilencePad, Goto, WorkerPcs, SetSilence
    <2>12. ASSUME NEW w \in Workers, RestorePad(w) PROVE TypeOK'
      BY <2>12 DEF TypeOK, RestorePad, Goto, WorkerPcs, SetSilence
    <2>13. ASSUME NEW w \in Workers, Publish(w) PROVE TypeOK'
      <3>1. Event(EventOf(action[w]), seenSession[w]) \in [kind : EventKinds, session : Nat]
        BY DEF TypeOK, Event, EventOf, EventKinds, Actions
      <3>2. log' \in Seq([kind : EventKinds, session : Nat])
        BY <2>13, <3>1 DEF TypeOK, Publish
      <3>3. QED
        BY <2>13, <3>2 DEF TypeOK, Publish, Goto, WorkerPcs
    <2>14. ASSUME NEW w \in Workers, StoreResult(w) PROVE TypeOK'
      <3> DEFINE new == Store(cache, Capacity, id[w], result[w])
      <3>1. /\ new.order \in Seq(CommandIds)
            /\ Evicted(cache, Capacity) \subseteq CommandIds
            /\ CachedIds(new) \subseteq CommandIds
            /\ \A j \in CachedIds(new) : new.results[j] \in Verdicts
        <4>1. id[w] \in CommandIds /\ result[w] \in Verdicts
          BY <2>14 DEF TypeOK, StoreResult
        <4>2. /\ cache.order \in Seq(CommandIds)
              /\ CachedIds(cache) \subseteq CommandIds
              /\ \A j \in CachedIds(cache) : cache.results[j] \in Verdicts
          BY DEF TypeOK
        <4>3. /\ new.order \in Seq(CommandIds)
              /\ Evicted(cache, Capacity) \subseteq CommandIds
              /\ CachedIds(new) = (CachedIds(cache) \ Evicted(cache, Capacity)) \cup {id[w]}
              /\ \A j \in CachedIds(new) : new.results[j] \in Verdicts
          BY <4>1, <4>2, StoreKeeps
        <4>4. QED
          BY <4>1, <4>2, <4>3
      <3>2. cache' = new
        BY <2>14 DEF StoreResult
      <3> HIDE DEF new
      <3>3. QED
        BY <2>14, <3>1, <3>2
           DEF TypeOK, StoreResult, Return, CachedIds, WorkerPcs, Actions, Verdicts
    <2>15. ASSUME WireIgnored PROVE TypeOK'
      BY <2>15 DEF TypeOK, WireIgnored, Receive
    <2>16. ASSUME WireRequest PROVE TypeOK'
      <3>1. StartCall(call, nextSession) \in Machines
        <4>1. call \in Machines /\ nextSession \in Nat
          BY BoundsAssumption DEF TypeOK
        <4>2. QED
          BY <4>1, MachineMethods
      <3>2. QED
        BY <2>16, <3>1, BoundsAssumption
           DEF TypeOK, WireRequest, Receive, WirePcs, EventKinds
    <2>17. ASSUME WirePadAnswer PROVE TypeOK'
      <3>1. PadAnswer(call) \in Machines
        BY MachineMethods DEF TypeOK
      <3>2. answers' \in [Sessions -> Nat]
        BY <2>17, CountOneMore DEF TypeOK, WirePadAnswer
      <3>3. QED
        BY <2>17, <3>1, <3>2 DEF TypeOK, WirePadAnswer, Receive, WirePcs, EventKinds, Machines
    <2>18. ASSUME WirePadUnlock PROVE TypeOK'
      BY <2>18 DEF TypeOK, WirePadUnlock, Receive, WirePcs, EventKinds, Machines
    <2>19. ASSUME WireHangup PROVE TypeOK'
      <3>1. Hangup(call) \in Machines
        BY MachineMethods DEF TypeOK
      <3>2. ends' \in [Sessions -> Nat]
        <4>1. [ends EXCEPT ![call.session] = @ + 1] \in [Sessions -> Nat]
          BY CountOneMore DEF TypeOK
        <4>2. QED
          BY <2>19, <4>1 DEF TypeOK, WireHangup
      <3>3. QED
        BY <2>19, <3>1, <3>2 DEF TypeOK, WireHangup, Receive, WirePcs, EventKinds, Machines
    <2>20. ASSUME WireRestore PROVE TypeOK'
      BY <2>20 DEF TypeOK, WireRestore, SetSilence, WirePcs
    <2>21. ASSUME WirePublish PROVE TypeOK'
      <3>1. Event(wire.kind, wire.session) \in [kind : EventKinds, session : Nat]
        BY DEF TypeOK, Event
      <3>2. QED
        BY <2>21, <3>1 DEF TypeOK, WirePublish, AtRest, WirePcs, EventKinds
    <2>22. ASSUME CooldownElapses PROVE TypeOK'
      <3>1. CooledDown(call) \in Machines
        BY MachineMethods DEF TypeOK
      <3>2. QED
        BY <2>22, <3>1 DEF TypeOK, CooldownElapses
    <2>23. ASSUME Crash PROVE TypeOK'
      <3>1. /\ NewMachine \in Machines
            /\ EmptyCache.order \in Seq(CommandIds) /\ CachedIds(EmptyCache) = {}
            /\ AtRest \in [pc : WirePcs, kind : EventKinds, session : Nat]
        BY DEF NewMachine, Machines, Phases, Owners, EmptyCache, CachedIds,
               AtRest, WirePcs, EventKinds
      <3>2. cache' = EmptyCache /\ wire' = AtRest /\ call' = NewMachine /\ log' = <<>>
        BY <2>23 DEF Crash
      <3>3. /\ cache'.order \in Seq(CommandIds) /\ CachedIds(cache') = {}
            /\ call' \in Machines /\ log' \in Seq([kind : EventKinds, session : Nat])
            /\ wire' \in [pc : WirePcs, kind : EventKinds, session : Nat]
        BY <3>1, <3>2
      <3>4. /\ excused' \subseteq CommandIds
            /\ crashes' \in Nat /\ nextSession' \in 1..(MaxSessions + 1)
            /\ answers' \in [Sessions -> Nat] /\ ends' \in [Sessions -> Nat]
        BY <2>23, BoundsAssumption DEF TypeOK, Crash
      <3>5. QED
        BY <2>23, <3>3, <3>4
           DEF TypeOK, Crash, CachedIds, WorkerPcs, Actions, Verdicts
    <2>24. ASSUME Restart PROVE TypeOK'
      BY <2>24 DEF TypeOK, Restart, SetSilence
    <2>25. CASE UNCHANGED vars
      BY <2>25 DEF TypeOK, vars, CachedIds
    <2>26. QED
      BY <2>1, <2>2, <2>3, <2>4, <2>5, <2>6, <2>7, <2>8, <2>9, <2>10, <2>11, <2>12,
         <2>13, <2>14, <2>15, <2>16, <2>17, <2>18, <2>19, <2>20, <2>21, <2>22,
         <2>23, <2>24, <2>25
         DEF Next, WorkerStep, WireStep
  <1>3. QED
    BY <1>1, <1>2, PTL DEF Spec

--------------------------------------------------------------------------------
(***************************************************************************)
(* The call: who answers it, and when it ends.                             *)
(***************************************************************************)

(***************************************************************************)
(* The only steps that touch the call or its tallies.                      *)
(***************************************************************************)
LEMMA CallSteps ==
    ASSUME [Next]_vars
    PROVE  \/ UNCHANGED <<call, nextSession, answers, ends>>
           \/ \E w \in Workers : Claim(w) \/ UnlockDoor(w) \/ HangUp(w)
           \/ WireRequest \/ WirePadAnswer \/ WireHangup
           \/ CooldownElapses \/ Crash
  <1> USE DEF shared, threads, history, locals
  <1>1. ASSUME NEW w \in Workers, WorkerStep(w)
        PROVE  \/ UNCHANGED <<call, nextSession, answers, ends>>
               \/ Claim(w) \/ UnlockDoor(w) \/ HangUp(w)
    BY <1>1 DEF WorkerStep, Begin, Replay, ReadPeers, ReadSession, Reject, Send,
                SendFails, SilencePad, RestorePad, Publish, StoreResult
  <1>2. ASSUME WireStep
        PROVE  \/ UNCHANGED <<call, nextSession, answers, ends>>
               \/ WireRequest \/ WirePadAnswer \/ WireHangup
    BY <1>2 DEF WireStep, WireIgnored, WirePadUnlock, WireRestore, WirePublish
  <1>3. ASSUME Restart
        PROVE  UNCHANGED <<call, nextSession, answers, ends>>
    BY <1>3 DEF Restart
  <1>4. QED
    BY <1>1, <1>2, <1>3 DEF Next, vars

(***************************************************************************)
(* CallInv is inductive: only a ringing call is answered, only a call that *)
(* is up is ended, and a new one takes the next number.                    *)
(***************************************************************************)
LEMMA CallInvInductive == TypeOK /\ CallInv /\ [Next]_vars => CallInv'
  <1> SUFFICES ASSUME TypeOK, CallInv, [Next]_vars PROVE CallInv'
    OBVIOUS
  <1> USE DEF CallInv, CallsDoNotOverlap
  <1>0. /\ call.session \in Nat /\ nextSession \in Nat
        /\ call.phase \in Phases /\ call \in Machines
        /\ answers \in [Sessions -> Nat] /\ ends \in [Sessions -> Nat]
        /\ Sessions \subseteq Nat
    BY BoundsAssumption DEF TypeOK, Machines, Sessions
  <1>1. CASE UNCHANGED <<call, nextSession, answers, ends>>
    BY <1>1
  <1>2. ASSUME NEW w \in Workers, Claim(w) PROVE CallInv'
    <2>1. /\ call.phase = "Ringing" /\ call' = RemoteAnswer(call)
          /\ answers' = [answers EXCEPT ![call.session] = @ + 1]
          /\ UNCHANGED <<nextSession, ends>>
      BY <1>2 DEF Claim, Accept, Verdict, RemoteAnswerVerdict
    <2>2. call'.session = call.session /\ call'.phase = "Connected"
      BY <1>0, <2>1 DEF RemoteAnswer, Machines
    <2>3. \A s \in Sessions :
            answers'[s] = IF s = call.session THEN answers[s] + 1 ELSE answers[s]
      BY <1>0, <2>1, CountOneMore
    <2>4. QED
      BY <1>0, <2>1, <2>2, <2>3
  <1>3. ASSUME NEW w \in Workers, UnlockDoor(w) PROVE CallInv'
    <2>1. call' = Unlock(call) /\ UNCHANGED <<nextSession, answers, ends>>
      BY <1>3 DEF UnlockDoor, Accept
    <2>2. call'.session = call.session /\ call'.phase = call.phase
      BY <1>0, <2>1 DEF Unlock, Machines
    <2>3. QED
      BY <1>0, <2>1, <2>2
  <1>4. ASSUME call.phase # "Idle", call' = Hangup(call),
               ends' = [ends EXCEPT ![call.session] = @ + 1],
               UNCHANGED <<nextSession, answers>>
        PROVE  CallInv'
    <2>1. call'.session = call.session /\ call'.phase = "Idle"
      BY <1>0, <1>4 DEF Hangup, Machines
    <2>2. \A s \in Sessions :
            ends'[s] = IF s = call.session THEN ends[s] + 1 ELSE ends[s]
      BY <1>0, <1>4, CountOneMore
    <2>3. QED
      BY <1>0, <1>4, <2>1, <2>2
  <1>5. ASSUME NEW w \in Workers, HangUp(w) PROVE CallInv'
    <2>1. call.phase # "Idle"
      BY <1>5, "Claim" # "Hangup", "Unlock" # "Hangup", "NoCall" # "Ok"
         DEF HangUp, Accept, Verdict
    <2>2. QED
      BY <1>4, <1>5, <2>1 DEF HangUp, Accept
  <1>6. ASSUME WireRequest PROVE CallInv'
    <2>1. /\ call.phase = "Idle" /\ call' = StartCall(call, nextSession)
          /\ nextSession' = nextSession + 1
          /\ UNCHANGED <<answers, ends>>
      BY <1>6 DEF WireRequest
    <2>2. call'.session = nextSession /\ call'.phase = "Ringing"
      BY <2>1 DEF StartCall
    <2>3. QED
      BY <1>0, <2>1, <2>2
  <1>7. ASSUME WirePadAnswer PROVE CallInv'
    <2>1. /\ call.phase = "Ringing" /\ call' = PadAnswer(call)
          /\ answers' = [answers EXCEPT ![call.session] = @ + 1]
          /\ UNCHANGED <<nextSession, ends>>
      BY <1>7 DEF WirePadAnswer, PadAnswerVerdict
    <2>2. call'.session = call.session /\ call'.phase = "Connected"
      BY <1>0, <2>1 DEF PadAnswer, Machines
    <2>3. \A s \in Sessions :
            answers'[s] = IF s = call.session THEN answers[s] + 1 ELSE answers[s]
      BY <1>0, <2>1, CountOneMore
    <2>4. QED
      BY <1>0, <2>1, <2>2, <2>3
  <1>8. ASSUME WireHangup PROVE CallInv'
    <2>1. CASE call.phase = "Idle"
      <3>1. call' = Hangup(call) /\ UNCHANGED <<nextSession, answers, ends>>
        BY <1>8, <2>1 DEF WireHangup
      <3>2. call'.session = call.session /\ call'.phase = "Idle"
        BY <1>0, <3>1 DEF Hangup, Machines
      <3>3. QED
        BY <1>0, <2>1, <3>1, <3>2
    <2>2. CASE call.phase # "Idle"
      BY <1>4, <1>8, <2>2 DEF WireHangup
    <2>3. QED
      BY <2>1, <2>2
  <1>9. ASSUME CooldownElapses PROVE CallInv'
    <2>1. call' = CooledDown(call) /\ UNCHANGED <<nextSession, answers, ends>>
      BY <1>9 DEF CooldownElapses
    <2>2. call'.session = call.session /\ call'.phase = call.phase
      BY <1>0, <2>1 DEF CooledDown, Machines
    <2>3. QED
      BY <1>0, <2>1, <2>2
  <1>10. ASSUME Crash PROVE CallInv'
    <2>1. /\ call'.session = 0 /\ call'.phase = "Idle" /\ nextSession' = 1
          /\ answers' = [s \in Sessions |-> 0] /\ ends' = [s \in Sessions |-> 0]
      BY <1>10 DEF Crash, NewMachine
    <2>2. \A s \in Sessions : s > 0 /\ answers'[s] = 0 /\ ends'[s] = 0
      BY <2>1, BoundsAssumption DEF Sessions
    <2>3. QED
      BY <1>0, <2>1, <2>2
  <1>11. QED
    BY CallSteps, <1>1, <1>2, <1>3, <1>5, <1>6, <1>7, <1>8, <1>9, <1>10

(***************************************************************************)
(* CallInv holds of every reachable state.                                 *)
(***************************************************************************)
LEMMA CallInvariant == Spec => []CallInv
  <1>1. Init => CallInv
    <2> SUFFICES ASSUME Init PROVE CallInv
      OBVIOUS
    <2>1. /\ call.session = 0 /\ call.phase = "Idle" /\ nextSession = 1
          /\ \A s \in Sessions : s \in Nat /\ s > 0 /\ answers[s] = 0 /\ ends[s] = 0
      BY BoundsAssumption DEF Init, NewMachine, Sessions
    <2>2. QED
      BY <2>1 DEF CallInv, CallsDoNotOverlap
  <1>2. QED
    BY <1>1, CallInvInductive, TypeCorrect, PTL DEF Spec

(***************************************************************************)
(* Whatever the interleaving of claims and Pad answers, a call is answered *)
(* at most once.                                                           *)
(***************************************************************************)
THEOREM FirstAnswer == Spec => []FirstAnswerWins
  <1>1. CallInv => FirstAnswerWins
    BY DEF CallInv, FirstAnswerWins
  <1>2. QED
    BY <1>1, CallInvariant, PTL

(***************************************************************************)
(* Every call ends exactly once, before the next one starts.               *)
(***************************************************************************)
THEOREM NoOverlap == Spec => []CallsDoNotOverlap
  <1>1. CallInv => CallsDoNotOverlap
    BY DEF CallInv
  <1>2. QED
    BY <1>1, CallInvariant, PTL

(***************************************************************************)
(* A call that has been answered has an owner (state.rs pad_answer,        *)
(* remote_answer).                                                         *)
(***************************************************************************)
OwnedInv == call.phase = "Connected" => call.owner \in {"Pad", "Remote"}

LEMMA OwnedInvariant == Spec => []OwnedInv
  <1>1. Init => OwnedInv
    BY DEF Init, NewMachine, OwnedInv
  <1>2. TypeOK /\ OwnedInv /\ [Next]_vars => OwnedInv'
    <2> SUFFICES ASSUME TypeOK, OwnedInv, [Next]_vars PROVE OwnedInv'
      OBVIOUS
    <2>1. call \in Machines
      BY DEF TypeOK
    <2>2. CASE call' = call \/ call' = Unlock(call) \/ call' = CooledDown(call)
      BY <2>1, <2>2 DEF OwnedInv, Unlock, CooledDown, Machines
    <2>3. CASE call' = RemoteAnswer(call) \/ call' = PadAnswer(call)
      BY <2>1, <2>3 DEF OwnedInv, RemoteAnswer, PadAnswer, Machines
    <2>4. CASE \/ call' = StartCall(call, nextSession)
               \/ call' = Hangup(call) \/ call' = NewMachine
      <3>1. call' = StartCall(call, nextSession) => call'.phase = "Ringing"
        BY DEF StartCall
      <3>2. call' = Hangup(call) => call'.phase = "Idle"
        BY <2>1 DEF Hangup, Machines
      <3>3. call' = NewMachine => call'.phase = "Idle"
        BY DEF NewMachine
      <3>4. call'.phase # "Connected"
        BY <2>4, <3>1, <3>2, <3>3
      <3>5. QED
        BY <3>4 DEF OwnedInv
    <2>5. QED
      BY <2>2, <2>3, <2>4, CallSteps
         DEF Claim, UnlockDoor, HangUp, Accept, WireRequest, WirePadAnswer, WireHangup,
             CooldownElapses, Crash
  <1>3. QED
    BY <1>1, <1>2, TypeCorrect, PTL DEF Spec

(***************************************************************************)
(* A step that only call s sees moves it alone, and one that no call sees  *)
(* moves none.                                                             *)
(***************************************************************************)
Lived == [s \in Sessions |-> LifeOf(s)]

LEMMA OneMoves ==
    ASSUME NEW s \in Sessions, \A k \in Sessions \ {s} : LifeOf(k)' = LifeOf(k)
    PROVE  Lived' = [Lived EXCEPT ![s] = LifeOf(s)']
  BY DEF Lived

LEMMA NoneMoves ==
    ASSUME \A k \in Sessions : LifeOf(k)' = LifeOf(k)
    PROVE  Lived' = Lived
  BY DEF Lived

(***************************************************************************)
(* The transitions that a step of CallSpec stands for: an answer ...       *)
(***************************************************************************)
LEMMA AnswerMaps ==
    ASSUME TypeOK, CallInv, call.phase = "Ringing", NEW who \in {"Pad", "Remote"},
           call' = [call EXCEPT !.owner = who, !.phase = "Connected"],
           answers' = [answers EXCEPT ![call.session] = @ + 1], UNCHANGED ends
    PROVE  Lives!Next
  <1>1. /\ call.session \in Sessions /\ Sessions \subseteq Nat
        /\ call'.session = call.session /\ call'.phase = "Connected" /\ call'.owner = who
    BY BoundsAssumption DEF TypeOK, CallInv, Machines, Sessions
  <1>2. PICK s \in Sessions : s = call.session
    BY <1>1
  <1>3. \A k \in Sessions \ {s} : LifeOf(k)' = LifeOf(k)
    BY <1>1, <1>2 DEF LifeOf
  <1>4. LifeOf(s) = "ringing" /\ LifeOf(s)' = who
    BY <1>1, <1>2 DEF LifeOf
  <1>5. Lived' = [Lived EXCEPT ![s] = who]
    BY <1>3, <1>4, OneMoves
  <1>6. Lives!Answer(s, who)
    BY <1>2, <1>4, <1>5 DEF Lives!Answer, Lived
  <1>7. QED
    BY <1>6 DEF Lives!Next, Lives!Answerers

\* ... the end of a call that is up ...
LEMMA EndMaps ==
    ASSUME TypeOK, CallInv, OwnedInv, call.phase # "Idle", call' = Hangup(call),
           ends' = [ends EXCEPT ![call.session] = @ + 1], UNCHANGED answers
    PROVE  Lives!Next
  <1>1. /\ call.session \in Sessions /\ Sessions \subseteq Nat
        /\ call'.session = call.session /\ call'.phase = "Idle"
        /\ call.phase \in {"Ringing", "Connected"}
    BY BoundsAssumption DEF TypeOK, CallInv, Machines, Sessions, Hangup, Phases
  <1>2. PICK s \in Sessions : s = call.session
    BY <1>1
  <1>3. \A k \in Sessions \ {s} : LifeOf(k)' = LifeOf(k)
    BY <1>1, <1>2 DEF LifeOf
  <1>4. LifeOf(s) \in {"ringing", "Pad", "Remote"} /\ LifeOf(s)' = "over"
    BY <1>1, <1>2 DEF LifeOf, OwnedInv
  <1>5. Lived' = [Lived EXCEPT ![s] = "over"]
    BY <1>3, <1>4, OneMoves
  <1>6. Lives!End(s)
    BY <1>2, <1>4, <1>5 DEF Lives!End, Lives!Up, Lives!Answerers, Lived
  <1>7. QED
    BY <1>6 DEF Lives!Next

\* ... and a new call.
LEMMA RingMaps ==
    ASSUME TypeOK, CallInv, WireRequest
    PROVE  Lives!Next
  <1>1. /\ nextSession \in Sessions /\ Sessions \subseteq Nat /\ call.session \in Nat
        /\ call.session = nextSession - 1 /\ call.phase = "Idle"
        /\ call'.session = nextSession /\ call'.phase = "Ringing"
        /\ UNCHANGED <<answers, ends>>
    BY BoundsAssumption DEF TypeOK, CallInv, Machines, Sessions, WireRequest, StartCall
  <1>2. PICK s \in Sessions : s = nextSession
    BY <1>1
  <1>3. \A k \in Sessions \ {s} : LifeOf(k)' = LifeOf(k)
    BY <1>1, <1>2 DEF LifeOf
  <1>4. LifeOf(s) = "unborn" /\ LifeOf(s)' = "ringing"
    BY <1>1, <1>2 DEF LifeOf
  <1>5. \A k \in Sessions : k < s => LifeOf(k) = "over"
    BY <1>1, <1>2 DEF LifeOf
  <1>6. Lived' = [Lived EXCEPT ![s] = "ringing"]
    BY <1>3, <1>4, OneMoves
  <1>7. Lives!Ring(s)
    BY <1>1, <1>4, <1>5, <1>6 DEF Lives!Ring, Lived
  <1>8. QED
    BY <1>7 DEF Lives!Next

(***************************************************************************)
(* The calls run as CallSpec says: an answer maps to the answer of the     *)
(* call that rings, a hangup of either side to its end, a session request  *)
(* to the next ring, the end of the process to Forget, and every other     *)
(* step to a stutter.                                                      *)
(***************************************************************************)
THEOREM CallsLive == Spec => CallImplemented
  <1>1. Init => Lives!Init
    <2> SUFFICES ASSUME Init PROVE Lives!Init
      OBVIOUS
    <2>1. call.session = 0 /\ \A s \in Sessions : s \in Nat /\ s > 0
      BY BoundsAssumption DEF Init, NewMachine, Sessions
    <2>2. \A s \in Sessions : LifeOf(s) = "unborn"
      BY <2>1 DEF LifeOf
    <2>3. QED
      BY <2>2 DEF Init, Lives!Init
  <1>2. TypeOK /\ CallInv /\ OwnedInv /\ [Next]_vars => [Lives!Next]_(Lives!vars)
    <2> SUFFICES ASSUME TypeOK, CallInv, OwnedInv, [Next]_vars
                 PROVE  [Lives!Next]_(Lives!vars)
      OBVIOUS
    <2>1. call \in Machines /\ call.session \in Nat
      BY DEF TypeOK, Machines
    <2>2. ASSUME call'.session = call.session, call'.phase = call.phase,
                 call'.owner = call.owner \/ call.phase = "Idle", UNCHANGED <<answers, ends>>
          PROVE  UNCHANGED Lives!vars
      <3>1. \A k \in Sessions : LifeOf(k)' = LifeOf(k)
        BY <2>2 DEF LifeOf
      <3>2. Lived' = Lived
        BY <3>1, NoneMoves
      <3>3. QED
        BY <2>2, <3>2 DEF Lives!vars, Lived
    <2>3. CASE UNCHANGED <<call, nextSession, answers, ends>>
      BY <2>2, <2>3
    <2>4. ASSUME NEW w \in Workers, Claim(w) PROVE Lives!Next
      <3>1. /\ call.phase = "Ringing" /\ UNCHANGED ends
            /\ call' = [call EXCEPT !.owner = "Remote", !.phase = "Connected"]
            /\ answers' = [answers EXCEPT ![call.session] = @ + 1]
        BY <2>4 DEF Claim, Accept, Verdict, RemoteAnswerVerdict, RemoteAnswer
      <3>2. QED
        BY <3>1, AnswerMaps
    <2>5. ASSUME NEW w \in Workers, UnlockDoor(w) PROVE UNCHANGED Lives!vars
      <3>1. call' = Unlock(call) /\ UNCHANGED <<answers, ends>>
        BY <2>5 DEF UnlockDoor, Accept
      <3>2. call'.session = call.session /\ call'.phase = call.phase /\ call'.owner = call.owner
        BY <2>1, <3>1 DEF Unlock, Machines
      <3>3. QED
        BY <2>2, <3>1, <3>2
    <2>6. ASSUME NEW w \in Workers, HangUp(w) PROVE Lives!Next
      <3>1. /\ call.phase # "Idle" /\ call' = Hangup(call) /\ UNCHANGED answers
            /\ ends' = [ends EXCEPT ![call.session] = @ + 1]
        BY <2>6 DEF HangUp, Accept, Verdict
      <3>2. QED
        BY <3>1, EndMaps
    <2>7. ASSUME WirePadAnswer PROVE Lives!Next
      <3>1. /\ call.phase = "Ringing" /\ UNCHANGED ends
            /\ call' = [call EXCEPT !.owner = "Pad", !.phase = "Connected"]
            /\ answers' = [answers EXCEPT ![call.session] = @ + 1]
        BY <2>7 DEF WirePadAnswer, PadAnswerVerdict, PadAnswer
      <3>2. QED
        BY <3>1, AnswerMaps
    <2>8. ASSUME WireHangup PROVE [Lives!Next]_(Lives!vars)
      <3>1. CASE call.phase = "Idle"
        <4>1. call' = Hangup(call) /\ UNCHANGED <<answers, ends>>
          BY <2>8, <3>1 DEF WireHangup
        <4>2. call'.session = call.session /\ call'.phase = call.phase
          BY <2>1, <3>1, <4>1 DEF Hangup, Machines
        <4>3. QED
          BY <2>2, <3>1, <4>1, <4>2
      <3>2. CASE call.phase # "Idle"
        <4>1. /\ call' = Hangup(call) /\ UNCHANGED answers
              /\ ends' = [ends EXCEPT ![call.session] = @ + 1]
          BY <2>8, <3>2 DEF WireHangup
        <4>2. QED
          BY <3>2, <4>1, EndMaps
      <3>3. QED
        BY <3>1, <3>2
    <2>9. ASSUME CooldownElapses PROVE UNCHANGED Lives!vars
      <3>1. call' = CooledDown(call) /\ UNCHANGED <<answers, ends>>
        BY <2>9 DEF CooldownElapses
      <3>2. call'.session = call.session /\ call'.phase = call.phase /\ call'.owner = call.owner
        BY <2>1, <3>1 DEF CooledDown, Machines
      <3>3. QED
        BY <2>2, <3>1, <3>2
    <2>10. ASSUME Crash PROVE Lives!Next
      <3>1. /\ call'.session = 0 /\ \A s \in Sessions : s \in Nat /\ s > 0
            /\ answers' = [s \in Sessions |-> 0] /\ ends' = [s \in Sessions |-> 0]
        BY <2>10, BoundsAssumption DEF Crash, NewMachine, Sessions
      <3>2. \A s \in Sessions : LifeOf(s)' = "unborn"
        BY <3>1 DEF LifeOf
      <3>3. Lives!Forget
        BY <3>1, <3>2 DEF Lives!Forget
      <3>4. QED
        BY <3>3 DEF Lives!Next
    <2>11. WireRequest => Lives!Next
      BY RingMaps
    <2>12. QED
      BY <2>3, <2>4, <2>5, <2>6, <2>7, <2>8, <2>9, <2>10, <2>11, CallSteps
  <1>3. QED
    BY <1>1, <1>2, TypeCorrect, CallInvariant, OwnedInvariant, PTL
       DEF Spec, Lives!Spec, CallImplemented

--------------------------------------------------------------------------------
(***************************************************************************)
(* Commands: each id acts once, and the cache tells the truth.             *)
(***************************************************************************)

(***************************************************************************)
(* The only steps that touch what Once relates.                            *)
(***************************************************************************)
LEMMA CommandSteps ==
    ASSUME [Next]_vars
    PROVE  /\ excused \subseteq excused'
           /\ \/ UNCHANGED <<acted, cache, pc, id, result>>
              \/ \E w \in Workers :
                    \/ \E a \in Actions : \E i \in IdsOf(a) : Begin(w, a, i)
                    \/ ReadPeers(w) \/ ReadSession(w)
                    \/ Reject(w) \/ Claim(w) \/ UnlockDoor(w) \/ HangUp(w)
                    \/ Send(w) \/ SendFails(w)
                    \/ SilencePad(w) \/ RestorePad(w)
                    \/ Publish(w) \/ StoreResult(w)
              \/ Crash
  <1> USE DEF shared, threads, history, locals
  <1>1. ASSUME NEW w \in Workers, WorkerStep(w)
        PROVE  /\ excused \subseteq excused'
               /\ \/ UNCHANGED <<acted, cache, pc, id, result>>
                  \/ \E a \in Actions : \E i \in IdsOf(a) : Begin(w, a, i)
                  \/ ReadPeers(w) \/ ReadSession(w)
                  \/ Reject(w) \/ Claim(w) \/ UnlockDoor(w) \/ HangUp(w)
                  \/ Send(w) \/ SendFails(w)
                  \/ SilencePad(w) \/ RestorePad(w)
                  \/ Publish(w) \/ StoreResult(w)
    <2>1. CASE \E i \in CommandIds : Replay(w, i)
      BY <2>1 DEF Replay
    <2>2. CASE \E a \in Actions : \E i \in IdsOf(a) : Begin(w, a, i)
      BY <2>2 DEF Begin
    <2>3. CASE \/ ReadPeers(w) \/ ReadSession(w) \/ Reject(w)
               \/ Claim(w) \/ UnlockDoor(w) \/ HangUp(w)
               \/ Send(w) \/ SendFails(w) \/ SilencePad(w) \/ RestorePad(w)
               \/ Publish(w) \/ StoreResult(w)
      BY <2>3 DEF ReadPeers, ReadSession, Reject, Claim, UnlockDoor, HangUp, Accept,
                  Send, SendFails, SilencePad, RestorePad, Publish, StoreResult
    <2>4. QED
      BY <1>1, <2>1, <2>2, <2>3 DEF WorkerStep
  <1>2. ASSUME WireStep \/ CooldownElapses \/ Restart \/ UNCHANGED vars
        PROVE  UNCHANGED <<acted, cache, pc, id, result, excused>>
    BY <1>2 DEF WireStep, WireIgnored, WireRequest, WirePadAnswer, WirePadUnlock,
                WireHangup, Receive, WireRestore, WirePublish, CooldownElapses,
                Restart, vars
  <1>3. Crash => excused \subseteq excused'
    BY DEF Crash
  <1>4. QED
    BY <1>1, <1>2, <1>3 DEF Next

(***************************************************************************)
(* A step inside execute() leaves the worker executing the same id.        *)
(***************************************************************************)
LEMMA StillExecuting ==
    ASSUME TypeOK, NEW w \in Workers, pc[w] # "idle",
           NEW q \in WorkerPcs, q # "idle",
           pc' = [pc EXCEPT ![w] = q], id' = id
    PROVE  /\ \A v \in Workers, i \in CommandIds : Executing(v, i)' <=> Executing(v, i)
           /\ pc'[w] = q
           /\ \A v \in Workers \ {w} : pc'[v] = pc[v]
  BY DEF TypeOK, Executing

(***************************************************************************)
(* Once(i) survives every step that does not excuse i.                     *)
(***************************************************************************)
LEMMA OnceInductive == TypeOK /\ OnceInv /\ [Next]_vars => OnceInv'
  <1> SUFFICES ASSUME TypeOK, OnceInv, [Next]_vars,
                      NEW i \in CommandIds, i \notin excused'
               PROVE  Once(i)'
    BY DEF OnceInv
  <1>0. Once(i) /\ acted[i] \in Nat
    BY CommandSteps DEF OnceInv, TypeOK
  <1>t. /\ pc \in [Workers -> WorkerPcs] /\ id \in [Workers -> CommandIds \cup {NoId}]
        /\ result \in [Workers -> Verdicts] /\ acted \in [CommandIds -> Nat]
    BY DEF TypeOK
  <1> USE DEF shared, threads, history, locals
  <1>1. CASE UNCHANGED <<acted, cache, pc, id, result>>
    BY <1>0, <1>1 DEF Once, Executing, Progress, CachedTruth
  \* A worker moves on without acting.
  <1>2. ASSUME NEW w \in Workers, NEW q \in WorkerPcs \ {"idle"}, pc[w] # "idle",
               pc' = [pc EXCEPT ![w] = q], UNCHANGED <<id, cache, acted>>,
               \A v \in Workers \ {w} : result'[v] = result[v],
               id[w] = i => Progress(i, w)'
        PROVE  Once(i)'
    <2>1. \A v \in Workers : Executing(v, i)' <=> Executing(v, i)
      BY <1>2, StillExecuting
    <2>2. \A v \in Workers \ {w} : pc'[v] = pc[v] /\ result'[v] = result[v]
      BY <1>2, StillExecuting
    <2>3. \A v \in Workers : Executing(v, i)' => Progress(i, v)'
      BY <1>0, <1>2, <2>1, <2>2 DEF Once, Executing, Progress
    <2>4. QED
      BY <1>0, <1>2, <2>1, <2>3 DEF Once, CachedTruth
  <1>3. ASSUME NEW w \in Workers, ReadPeers(w) \/ ReadSession(w) PROVE Once(i)'
    <2>1. PICK q \in {"session", "lock"} : pc' = [pc EXCEPT ![w] = q]
      BY <1>3 DEF ReadPeers, ReadSession, Goto
    <2>2. /\ pc[w] \in {"peers", "session"}
          /\ UNCHANGED <<id, cache, acted, result>>
      BY <1>3 DEF ReadPeers, ReadSession, Goto
    <2>3. id[w] = i => acted[i] = 0
      BY <1>0, <2>2 DEF Once, Executing, Progress
    <2>4. QED
      BY <1>2, <1>t, <2>1, <2>2, <2>3 DEF Progress, WorkerPcs
  <1>4. ASSUME NEW w \in Workers, Reject(w) PROVE Once(i)'
    <2>1. /\ pc[w] = "lock" /\ pc' = [pc EXCEPT ![w] = "store"]
          /\ UNCHANGED <<id, cache, acted>>
          /\ result' = [result EXCEPT ![w] = Verdict(w)] /\ Verdict(w) # "Ok"
      BY <1>4 DEF Reject, Goto
    <2>2. id[w] = i => acted[i] = 0
      BY <1>0, <2>1 DEF Once, Executing, Progress
    <2>3. QED
      BY <1>2, <1>t, <2>1, <2>2 DEF Progress, WorkerPcs
  <1>5. ASSUME NEW w \in Workers, Claim(w) \/ UnlockDoor(w) \/ HangUp(w) PROVE Once(i)'
    <2>1. /\ pc[w] = "lock" /\ pc' = [pc EXCEPT ![w] = "send"]
          /\ UNCHANGED <<id, cache>>
          /\ result' = [result EXCEPT ![w] = "Ok"]
          /\ acted' = [acted EXCEPT ![id[w]] = @ + 1]
      BY <1>5 DEF Claim, UnlockDoor, HangUp, Accept, Goto
    <2>2. acted'[i] = IF i = id[w] THEN acted[i] + 1 ELSE acted[i]
      BY <1>t, <2>1, CountOneMore
    <2>3. /\ \A v \in Workers : Executing(v, i)' <=> Executing(v, i)
          /\ pc'[w] = "send" /\ result'[w] = "Ok"
          /\ \A v \in Workers \ {w} : pc'[v] = pc[v] /\ result'[v] = result[v]
      BY <1>t, <2>1, StillExecuting DEF WorkerPcs
    <2>4. CASE id[w] = i
      <3>1. Executing(w, i) /\ acted[i] = 0 /\ i \notin CachedIds(cache)
        BY <1>0, <2>1, <2>4 DEF Once, Executing, Progress
      <3>2. acted'[i] = 1
        BY <2>2, <2>4, <3>1
      <3>3. \A v \in Workers : Executing(v, i)' => v = w
        BY <1>0, <2>3, <3>1 DEF Once
      <3>4. Progress(i, w)'
        BY <2>3, <3>2 DEF Progress
      <3>5. QED
        BY <2>1, <2>3, <3>1, <3>2, <3>3, <3>4 DEF Once, CachedTruth
    <2>5. CASE id[w] # i
      <3>1. ~Executing(w, i) /\ acted'[i] = acted[i]
        BY <2>2, <2>5 DEF Executing
      <3>2. \A v \in Workers : Executing(v, i)' => Progress(i, v)'
        BY <1>0, <2>3, <3>1 DEF Once, Progress
      <3>3. QED
        BY <1>0, <2>1, <2>3, <3>1, <3>2 DEF Once, CachedTruth
    <2>6. QED
      BY <2>4, <2>5
  <1>6. ASSUME NEW w \in Workers,
               Send(w) \/ SilencePad(w) \/ RestorePad(w) \/ Publish(w)
        PROVE  Once(i)'
    <2>1. PICK q \in {"effect", "publish", "store"} : pc' = [pc EXCEPT ![w] = q]
      BY <1>6 DEF Send, SilencePad, RestorePad, Publish, Goto
    <2>2. /\ pc[w] \in {"send", "effect", "publish"}
          /\ UNCHANGED <<id, cache, acted, result>>
      BY <1>6 DEF Send, SilencePad, RestorePad, Publish, Goto
    <2>3. id[w] = i => acted[i] = 1 /\ result[w] = "Ok"
      BY <1>0, <2>2 DEF Once, Executing, Progress
    <2>4. QED
      BY <1>2, <1>t, <2>1, <2>2, <2>3 DEF Progress, WorkerPcs
  <1>7. ASSUME NEW w \in Workers, SendFails(w) PROVE Once(i)'
    <2>1. /\ pc[w] = "send" /\ pc' = [pc EXCEPT ![w] = "store"]
          /\ UNCHANGED <<id, cache, acted>>
          /\ result' = [result EXCEPT ![w] = "AgentOffline"]
      BY <1>7 DEF SendFails, Goto
    <2>2. QED
      BY <1>2, <1>t, <2>1 DEF Progress, WorkerPcs
  <1>8. ASSUME NEW w \in Workers, NEW a \in Actions, NEW j \in IdsOf(a), Begin(w, a, j)
        PROVE  Once(i)'
    <2>1. /\ pc[w] = "idle" /\ pc' = [pc EXCEPT ![w] = "peers"]
          /\ id' = [id EXCEPT ![w] = j] /\ j \notin CachedIds(cache)
          /\ UNCHANGED <<cache, acted, result>>
          /\ excused' = IF \E v \in Workers : Executing(v, j) THEN excused \cup {j} ELSE excused
      BY <1>8 DEF Begin, Goto
    <2>2. /\ pc'[w] = "peers" /\ id'[w] = j /\ ~Executing(w, i)
          /\ \A v \in Workers \ {w} : pc'[v] = pc[v] /\ id'[v] = id[v]
      BY <1>t, <2>1 DEF Executing
    <2>3. \A v \in Workers \ {w} : Executing(v, i)' <=> Executing(v, i)
      BY <2>2 DEF Executing
    <2>4. CASE j = i
      <3>1. \A v \in Workers : ~Executing(v, i)
        BY <2>1, <2>4
      <3>2. acted[i] = 0
        BY <1>0, <2>1, <2>4, <3>1 DEF Once
      <3>3. \A v \in Workers : Executing(v, i)' => v = w
        BY <2>3, <3>1
      <3>4. Progress(i, w)'
        BY <2>1, <2>2, <3>2 DEF Progress
      <3>5. QED
        BY <1>0, <2>1, <2>4, <3>2, <3>3, <3>4 DEF Once, CachedTruth
    <2>5. CASE j # i
      <3>1. ~Executing(w, i)'
        BY <2>2, <2>5 DEF Executing
      <3>2. \A v \in Workers : Executing(v, i)' => Executing(v, i) /\ Progress(i, v)'
        BY <1>0, <2>1, <2>2, <2>3, <3>1 DEF Once, Progress
      <3>3. QED
        BY <1>0, <2>1, <2>2, <2>3, <3>1, <3>2 DEF Once, CachedTruth
    <2>6. QED
      BY <2>4, <2>5
  <1>9. ASSUME NEW w \in Workers, StoreResult(w) PROVE Once(i)'
    <2> DEFINE new == Store(cache, Capacity, id[w], result[w])
               gone == Evicted(cache, Capacity)
    <2>1. /\ pc[w] = "store" /\ cache' = new
          /\ pc' = [pc EXCEPT ![w] = "idle"] /\ acted' = acted
          /\ id' = [id EXCEPT ![w] = NoId] /\ result' = [result EXCEPT ![w] = "Ok"]
          /\ excused' = excused \cup (gone \ {id[w]})
      BY <1>9 DEF StoreResult, Return
    <2>2. id[w] \in CommandIds /\ result[w] \in Verdicts
      BY <2>1 DEF TypeOK
    <2>3. /\ CachedIds(new) = (CachedIds(cache) \ gone) \cup {id[w]}
          /\ new.results[id[w]] = result[w]
          /\ \A j \in CachedIds(new) \ {id[w]} : new.results[j] = cache.results[j]
      <3>1. /\ cache.order \in Seq(CommandIds)
            /\ CachedIds(cache) \subseteq CommandIds
            /\ \A j \in CachedIds(cache) : cache.results[j] \in Verdicts
        BY DEF TypeOK
      <3>2. QED
        BY <2>2, <3>1, StoreKeeps
    <2> HIDE DEF new, gone
    <2>4. /\ ~Executing(w, i)'
          /\ \A v \in Workers \ {w} :
                pc'[v] = pc[v] /\ result'[v] = result[v] /\ (Executing(v, i)' <=> Executing(v, i))
      BY <1>t, <2>1 DEF Executing
    <2>5. CASE id[w] = i
      <3>1. Executing(w, i)
        BY <2>1, <2>5 DEF Executing
      <3>2. /\ result[w] = "Ok" => acted[i] = 1
            /\ result[w] \notin {"Ok", "AgentOffline"} => acted[i] = 0
        BY <1>0, <2>1, <3>1 DEF Once, Progress
      <3>3. \A v \in Workers : ~Executing(v, i)'
        BY <1>0, <2>4, <3>1 DEF Once
      <3>4. i \in CachedIds(cache') /\ cache'.results[i] = result[w]
        BY <2>1, <2>3, <2>5
      <3>5. CachedTruth(i)'
        BY <2>1, <3>2, <3>4 DEF CachedTruth, CachedIds
      <3>6. QED
        BY <1>0, <2>1, <3>3, <3>4, <3>5 DEF Once, CachedIds
    <2>6. CASE id[w] # i
      <3>1. ~Executing(w, i) /\ i \notin gone
        BY <2>1, <2>6 DEF Executing
      <3>2. CachedIds(cache)' = CachedIds(cache') /\ cache'.results = new.results
        BY <2>1 DEF CachedIds
      <3>3. i \in CachedIds(cache)' <=> i \in CachedIds(cache)
        BY <2>1, <2>3, <2>6, <3>1, <3>2
      <3>4. i \in CachedIds(cache)' => cache'.results[i] = cache.results[i]
        BY <2>1, <2>3, <2>6, <3>2
      <3>5. \A v \in Workers : Executing(v, i)' => Executing(v, i) /\ Progress(i, v)'
        BY <1>0, <2>1, <2>4, <3>1 DEF Once, Progress
      <3>6. CachedTruth(i)'
        BY <1>0, <2>1, <3>3, <3>4 DEF Once, CachedTruth
      <3>7. QED
        BY <1>0, <2>1, <2>4, <3>1, <3>3, <3>5, <3>6 DEF Once
    <2>7. QED
      BY <2>5, <2>6
  <1>10. ASSUME Crash PROVE Once(i)'
    <2>1. /\ acted' = acted /\ cache' = EmptyCache
          /\ \A w \in Workers : pc'[w] = "idle"
          /\ i \notin {j \in CommandIds : acted[j] > 0}
      BY <1>10 DEF Crash
    <2>2. acted'[i] = 0 /\ i \notin CachedIds(cache)'
      BY <1>0, <2>1 DEF CachedIds, EmptyCache
    <2>3. QED
      BY <2>1, <2>2 DEF Once, Executing, CachedTruth
  <1>11. QED
    BY CommandSteps, <1>1, <1>3, <1>4, <1>5, <1>6, <1>7, <1>8, <1>9, <1>10

(***************************************************************************)
(* OnceInv holds of every reachable state.                                 *)
(***************************************************************************)
LEMMA OnceInvariant == Spec => []OnceInv
  <1>1. Init => OnceInv
    BY DEF Init, OnceInv, Once, Executing, CachedTruth, CachedIds, EmptyCache
  <1>2. QED
    BY <1>1, OnceInductive, TypeCorrect, PTL DEF Spec

(***************************************************************************)
(* A command id changes the call at most once, for any number of threads,  *)
(* retries and cached results, outside the three named exceptions.         *)
(***************************************************************************)
THEOREM CommandsActOnce == Spec => []AtMostOnce
  <1>1. OnceInv => AtMostOnce
    BY DEF OnceInv, Once, AtMostOnce
  <1>2. QED
    BY <1>1, OnceInvariant, PTL

(***************************************************************************)
(* What the cache replays is what happened, outside the same exceptions.   *)
(***************************************************************************)
THEOREM ReplaysTellTheTruth == Spec => []ResultsAreTrue
  <1>1. TypeOK /\ OnceInv => ResultsAreTrue
    <2> SUFFICES ASSUME TypeOK, OnceInv, NEW i \in CachedIds(cache) \ excused
                 PROVE  /\ cache.results[i] = "Ok" => acted[i] = 1
                        /\ cache.results[i] \notin {"Ok", "AgentOffline"} => acted[i] = 0
      BY DEF ResultsAreTrue
    <2>1. i \in CommandIds \ excused
      BY DEF TypeOK
    <2>2. QED
      BY <2>1 DEF OnceInv, Once, CachedTruth
  <1>2. QED
    BY <1>1, OnceInvariant, TypeCorrect, PTL

--------------------------------------------------------------------------------
(***************************************************************************)
(* The silence table follows the owner of the call.                        *)
(***************************************************************************)

(***************************************************************************)
(* Every step of a running Agent keeps SilenceInv: whoever makes or breaks *)
(* the remote ownership is then between its transition and its effect, and *)
(* an effect out of turn sets slipped.                                     *)
(***************************************************************************)
LEMMA SilenceInductive == TypeOK /\ SilenceInv /\ [Next]_vars => SilenceInv'
  <1> SUFFICES ASSUME TypeOK, SilenceInv, [Next]_vars PROVE SilenceInv'
    OBVIOUS
  <1>t. /\ pc \in [Workers -> WorkerPcs] /\ action \in [Workers -> Actions]
        /\ call \in Machines /\ up \in BOOLEAN /\ silenced \in BOOLEAN /\ slipped \in BOOLEAN
        /\ wire \in [pc : WirePcs, kind : EventKinds, session : Nat]
    BY DEF TypeOK
  <1> USE DEF shared, threads, history, locals
  \* Neither the owner, the table nor a pending effect changes.
  <1>1. ASSUME UNCHANGED <<up, silenced>>, slipped => slipped',
               RemoteOwns' <=> RemoteOwns,
               ~up => call'.phase = call.phase,
               wire.pc = "restore" => wire'.pc = "restore",
               \A v \in Workers, a \in Actions : EffectPending(v, a) => EffectPending(v, a)'
        PROVE  SilenceInv'
    BY <1>1 DEF SilenceInv, Actions
  <1>2. ASSUME NEW w \in Workers, pc[w] \notin {"send", "effect"} \/ action[w] = "Unlock",
               NEW q \in WorkerPcs, pc' = [pc EXCEPT ![w] = q],
               \A v \in Workers \ {w} : action'[v] = action[v],
               UNCHANGED <<up, silenced, slipped, wire>>,
               RemoteOwns' <=> RemoteOwns, ~up => call'.phase = call.phase
        PROVE  SilenceInv'
    <2>1. ASSUME NEW v \in Workers, NEW a \in {"Claim", "Hangup"}, EffectPending(v, a)
          PROVE  EffectPending(v, a)'
      <3>1. v # w
        BY <1>2, <2>1 DEF EffectPending
      <3>2. pc'[v] = pc[v] /\ action'[v] = action[v]
        BY <1>t, <1>2, <3>1
      <3>3. QED
        BY <2>1, <3>2 DEF EffectPending
    <2>2. QED
      BY <1>2, <2>1 DEF SilenceInv
  <1>3. ASSUME NEW w \in Workers,
               \/ \E a \in Actions : \E i \in IdsOf(a) : Begin(w, a, i)
               \/ ReadPeers(w) \/ ReadSession(w) \/ Reject(w) \/ Publish(w)
        PROVE  SilenceInv'
    <2>1. /\ UNCHANGED <<up, call, silenced, slipped, wire>>
          /\ \E q \in WorkerPcs : pc' = [pc EXCEPT ![w] = q]
          /\ pc[w] \notin {"send", "effect"}
          /\ action' = action \/ \E a \in Actions : action' = [action EXCEPT ![w] = a]
      BY <1>3 DEF Begin, ReadPeers, ReadSession, Reject, Publish, Goto, WorkerPcs
    <2>2. \A v \in Workers \ {w} : action'[v] = action[v]
      BY <1>t, <2>1
    <2>3. QED
      BY <1>2, <2>1, <2>2 DEF RemoteOwns
  <1>4. ASSUME NEW w \in Workers, StoreResult(w) PROVE SilenceInv'
    <2>1. /\ UNCHANGED <<up, call, silenced, slipped, wire>>
          /\ pc' = [pc EXCEPT ![w] = "idle"] /\ pc[w] = "store"
          /\ action' = [action EXCEPT ![w] = "Claim"]
      BY <1>4 DEF StoreResult, Return
    <2>2. \A v \in Workers \ {w} : action'[v] = action[v]
      BY <1>t, <2>1
    <2>3. QED
      BY <1>2, <2>1, <2>2 DEF RemoteOwns, WorkerPcs
  <1>5. ASSUME NEW w \in Workers, Claim(w) PROVE SilenceInv'
    <2>1. /\ up /\ up' /\ UNCHANGED <<silenced, slipped, wire, action>>
          /\ pc[w] = "lock" /\ pc' = [pc EXCEPT ![w] = "send"] /\ action[w] = "Claim"
          /\ call' = RemoteAnswer(call)
      BY <1>5 DEF Claim, Accept, Goto
    <2>2. RemoteOwns'
      BY <1>t, <2>1 DEF RemoteOwns, RemoteAnswer, Machines
    <2>3. EffectPending(w, "Claim")'
      BY <1>t, <2>1 DEF EffectPending
    <2>4. QED
      BY <2>1, <2>2, <2>3 DEF SilenceInv
  <1>6. ASSUME NEW w \in Workers, UnlockDoor(w) PROVE SilenceInv'
    <2>1. /\ up /\ UNCHANGED <<up, silenced, slipped, wire, action>>
          /\ pc[w] = "lock" /\ pc' = [pc EXCEPT ![w] = "send"]
          /\ call' = Unlock(call)
      BY <1>6 DEF UnlockDoor, Accept, Goto
    <2>2. RemoteOwns' <=> RemoteOwns
      BY <1>t, <2>1 DEF RemoteOwns, Unlock, Machines
    <2>3. QED
      BY <1>2, <2>1, <2>2 DEF WorkerPcs
  <1>7. ASSUME NEW w \in Workers, HangUp(w) PROVE SilenceInv'
    <2>1. /\ up /\ up' /\ UNCHANGED <<silenced, slipped, wire, action>>
          /\ pc[w] = "lock" /\ pc' = [pc EXCEPT ![w] = "send"] /\ action[w] = "Hangup"
          /\ call' = Hangup(call)
      BY <1>7 DEF HangUp, Accept, Goto
    <2>2. ~RemoteOwns'
      BY <1>t, <2>1 DEF RemoteOwns, Hangup, Machines
    <2>3. EffectPending(w, "Hangup")'
      BY <1>t, <2>1 DEF EffectPending
    <2>4. QED
      BY <2>1, <2>2, <2>3 DEF SilenceInv
  <1>8. ASSUME NEW w \in Workers, Send(w) PROVE SilenceInv'
    <2>1. /\ UNCHANGED <<up, call, silenced, slipped, wire, action>> /\ pc[w] = "send"
          /\ pc' = [pc EXCEPT ![w] = IF action[w] = "Unlock" THEN "publish" ELSE "effect"]
      BY <1>8 DEF Send, Goto
    <2>2. CASE action[w] = "Unlock"
      BY <1>2, <2>1, <2>2 DEF RemoteOwns, WorkerPcs
    <2>3. CASE action[w] # "Unlock"
      <3>1. pc' = [pc EXCEPT ![w] = "effect"]
        BY <2>1, <2>3
      <3>2. \A v \in Workers, a \in Actions : EffectPending(v, a) => EffectPending(v, a)'
        BY <1>t, <2>1, <3>1 DEF EffectPending
      <3>3. QED
        BY <1>1, <2>1, <3>2 DEF RemoteOwns
    <2>4. QED
      BY <2>2, <2>3
  <1>9. ASSUME NEW w \in Workers, SendFails(w) PROVE SilenceInv'
    <2>1. /\ UNCHANGED <<up, call, silenced, wire, action>> /\ up
          /\ slipped' = (slipped \/ action[w] # "Unlock")
          /\ pc[w] = "send" /\ pc' = [pc EXCEPT ![w] = "store"]
      BY <1>9 DEF SendFails, Goto
    <2>2. CASE slipped'
      BY <2>1, <2>2 DEF SilenceInv
    <2>3. CASE ~slipped'
      <3>1. action[w] = "Unlock" /\ slipped' = slipped
        BY <1>t, <2>1, <2>3
      <3>2. QED
        BY <1>2, <2>1, <3>1 DEF RemoteOwns, WorkerPcs
    <2>4. QED
      BY <2>2, <2>3
  <1>10. ASSUME NEW w \in Workers, SilencePad(w) PROVE SilenceInv'
    <2>1. /\ up /\ up' /\ call' = call
          /\ slipped' = \/ slipped \/ ~RemoteOwns \/ call.session # target[w] \/ ~silenced'
      BY <1>10 DEF SilencePad, Goto
    <2>2. RemoteOwns' <=> RemoteOwns
      BY <2>1 DEF RemoteOwns
    <2>3. QED
      BY <2>1, <2>2 DEF SilenceInv
  <1>11. ASSUME (\E w \in Workers : RestorePad(w)) \/ WireRestore PROVE SilenceInv'
    <2>0. up /\ up' /\ call' = call /\ slipped' = (slipped \/ RemoteOwns \/ silenced')
      <3>1. CASE WireRestore
        BY <3>1 DEF WireRestore
      <3>2. CASE \E w \in Workers : RestorePad(w)
        BY <3>2 DEF RestorePad, Goto
      <3>3. QED
        BY <1>11, <3>1, <3>2
    <2>1. RemoteOwns' <=> RemoteOwns
      BY <2>0 DEF RemoteOwns
    <2>2. QED
      BY <2>0, <2>1 DEF SilenceInv
  <1>12. ASSUME WireIgnored \/ WirePadUnlock PROVE SilenceInv'
    <2>1. UNCHANGED <<up, call, silenced, slipped, pc, action>> /\ wire.pc = "recv"
      BY <1>12 DEF WireIgnored, WirePadUnlock, Receive
    <2>2. QED
      BY <1>1, <2>1 DEF EffectPending, RemoteOwns
  <1>13. ASSUME WireRequest \/ WirePadAnswer \/ CooldownElapses PROVE SilenceInv'
    <2>1. UNCHANGED <<up, silenced, slipped, pc, action>> /\ up
      BY <1>13 DEF WireRequest, WirePadAnswer, CooldownElapses, Receive
    <2>2. RemoteOwns' <=> RemoteOwns
      <3>1. CASE WireRequest
        BY <3>1 DEF WireRequest, RemoteOwns, StartCall
      <3>2. CASE WirePadAnswer
        <4>1. call.phase = "Ringing" /\ call' = PadAnswer(call)
          BY <3>2 DEF WirePadAnswer, PadAnswerVerdict
        <4>2. call'.owner = "Pad"
          BY <1>t, <4>1 DEF PadAnswer, Machines
        <4>3. QED
          BY <4>1, <4>2 DEF RemoteOwns
      <3>3. CASE CooldownElapses
        <4>1. call' = CooledDown(call)
          BY <3>3 DEF CooldownElapses
        <4>2. call'.phase = call.phase /\ call'.owner = call.owner
          BY <1>t, <4>1 DEF CooledDown, Machines
        <4>3. QED
          BY <4>2 DEF RemoteOwns
      <3>4. QED
        BY <1>13, <3>1, <3>2, <3>3
    <2>3. wire.pc = "restore" => wire'.pc = "restore"
      BY <1>13 DEF WireRequest, WirePadAnswer, CooldownElapses, Receive
    <2>4. QED
      BY <1>1, <2>1, <2>2, <2>3 DEF EffectPending
  <1>14. ASSUME WireHangup PROVE SilenceInv'
    <2>1. /\ up /\ UNCHANGED <<up, silenced, slipped, pc, action>> /\ wire.pc = "recv"
          /\ call' = Hangup(call)
          /\ call.phase = "Idle" \/ wire'.pc = "restore"
      BY <1>14 DEF WireHangup, Receive
    <2>2. ~RemoteOwns'
      BY <1>t, <2>1 DEF RemoteOwns, Hangup, Machines
    <2>3. CASE call.phase = "Idle"
      <3>1. ~RemoteOwns
        BY <2>3 DEF RemoteOwns
      <3>2. QED
        BY <1>1, <2>1, <2>2, <3>1 DEF EffectPending
    <2>4. CASE wire'.pc = "restore"
      BY <2>1, <2>2, <2>4 DEF SilenceInv
    <2>5. QED
      BY <2>1, <2>3, <2>4
  <1>15. ASSUME WirePublish PROVE SilenceInv'
    <2>1. UNCHANGED <<up, call, silenced, slipped, pc, action>> /\ wire.pc = "publish"
      BY <1>15 DEF WirePublish
    <2>2. QED
      BY <1>1, <2>1 DEF EffectPending, RemoteOwns
  <1>16. ASSUME Crash PROVE SilenceInv'
    BY <1>16 DEF Crash, SilenceInv, NewMachine
  <1>17. ASSUME Restart PROVE SilenceInv'
    <2>1. ~up /\ up' /\ call' = call /\ slipped' = silenced'
      BY <1>17 DEF Restart
    <2>2. ~RemoteOwns'
      BY <2>1 DEF SilenceInv, RemoteOwns
    <2>3. QED
      BY <2>1, <2>2 DEF SilenceInv
  <1>18. ASSUME UNCHANGED vars \/ \E w \in Workers : \E i \in CommandIds : Replay(w, i)
         PROVE  SilenceInv'
    <2>1. UNCHANGED <<up, call, silenced, slipped, wire, pc, action>>
      BY <1>18 DEF vars, Replay
    <2>2. QED
      BY <1>1, <2>1 DEF EffectPending, RemoteOwns
  <1>19. QED
    BY <1>3, <1>4, <1>5, <1>6, <1>7, <1>8, <1>9, <1>10, <1>11, <1>12, <1>13, <1>14,
       <1>15, <1>16, <1>17, <1>18 DEF Next, WorkerStep, WireStep

(***************************************************************************)
(* In tap mode, with no handler between its transition and its effect and  *)
(* no effect having run out of turn or failed, the physical Pad is         *)
(* silenced exactly while a remote client owns the call.                   *)
(***************************************************************************)
THEOREM SilenceFollowsOwner == Spec => []SilenceTracksCall
  <1>1. Init => SilenceInv
    BY DEF Init, SilenceInv, NewMachine, RemoteOwns
  <1>2. TypeOK /\ SilenceInv => SilenceTracksCall
    BY DEF TypeOK, SilenceInv, SilenceTracksCall, EffectsDone
  <1>3. QED
    BY <1>1, <1>2, SilenceInductive, TypeCorrect, PTL DEF Spec

--------------------------------------------------------------------------------
(***************************************************************************)
(* The feed: what the log tells of the calls, in order and in number.      *)
(***************************************************************************)

\* The wire task is on its way to an event of this kind; the workers that
\* have changed the call and not yet told (on_wire, execute).
WireOwes(kind) == IF wire.pc # "recv" /\ wire.kind = kind THEN 1 ELSE 0
Untold(a) == {w \in Workers : pc[w] \in {"send", "effect", "publish"} /\ action[w] = a}

Started(s) == \E m \in DOMAIN log : log[m] = Event("CallStarted", s)

\* A number handed out is announced, or about to be, and the wire task tells
\* only of calls that are.
AnnounceInv ==
    /\ wire.pc # "recv" =>
          /\ wire.kind \in {"CallStarted", "PadAnswered", "Unlocked", "CallEnded"}
          /\ wire.kind = "CallStarted" => wire.session = nextSession - 1
          /\ wire.kind = "PadAnswered" => Started(wire.session)
    /\ \A s \in 1..(nextSession - 1) :
          Started(s) \/ (s = nextSession - 1 /\ wire.pc # "recv" /\ wire.kind = "CallStarted")
    /\ EventCount("CallStarted") + WireOwes("CallStarted") = nextSession - 1
    /\ CallsAreAnnounced

Answered == {s \in Sessions : answers[s] > 0}
Over     == {s \in Sessions : ends[s] > 0}

\* Answers and ends are told, or about to be, if no packet fails on its way.
AnswersTold ==
    EventCount("PadAnswered") + EventCount("RemoteAnswered") + WireOwes("PadAnswered")
        + Cardinality(Untold("Claim")) = Cardinality(Answered)

EndsTold ==
    EventCount("CallEnded") + WireOwes("CallEnded")
        + Cardinality(Untold("Hangup")) = Cardinality(Over)

TallyInv ==
    /\ IsFiniteSet(Untold("Claim")) /\ IsFiniteSet(Untold("Hangup"))
    /\ "send" \notin Faults => AnswersTold /\ EndsTold

(***************************************************************************)
(* An event pushed is one more of its kind, and takes nothing from what    *)
(* was told (EventLog::push).                                              *)
(***************************************************************************)
LEMMA CountIsNat ==
    ASSUME NEW l \in Seq([kind : EventKinds, session : Nat]), NEW kind
    PROVE  /\ IsFiniteSet({n \in DOMAIN l : l[n].kind = kind})
           /\ Cardinality({n \in DOMAIN l : l[n].kind = kind}) \in Nat
  <1> DEFINE S == {n \in DOMAIN l : l[n].kind = kind}
  <1>1. Len(l) \in Nat /\ DOMAIN l = 1..Len(l)
    OBVIOUS
  <1>2. IsFiniteSet(1..Len(l))
    BY <1>1, FS_Interval
  <1>3. S \in SUBSET (1..Len(l))
    BY <1>1
  <1> HIDE DEF S
  <1>4. IsFiniteSet(S)
    BY <1>2, <1>3, FS_Subset
  <1>5. Cardinality(S) \in Nat
    BY <1>4, FS_CardinalityType
  <1>6. QED
    BY <1>4, <1>5 DEF S

LEMMA AppendCounts ==
    ASSUME TypeOK, NEW e \in [kind : EventKinds, session : Nat], log' = Append(log, e),
           NEW kind
    PROVE  /\ EventCount(kind) \in Nat
           /\ EventCount(kind)' = EventCount(kind) + (IF e.kind = kind THEN 1 ELSE 0)
  <1> DEFINE S == {n \in DOMAIN log : log[n].kind = kind}
             T == {n \in DOMAIN log' : log'[n].kind = kind}
             m == Len(log) + 1
  <1>1. log \in Seq([kind : EventKinds, session : Nat])
    BY DEF TypeOK
  <1>2. /\ Len(log) \in Nat /\ DOMAIN log = 1..Len(log) /\ DOMAIN log' = 1..m
        /\ log'[m] = e /\ \A n \in 1..Len(log) : log'[n] = log[n]
    BY <1>1
  <1>3. IsFiniteSet(S) /\ Cardinality(S) \in Nat
    BY <1>1, CountIsNat
  <1>4. EventCount(kind) = Cardinality(S) /\ EventCount(kind)' = Cardinality(T)
    BY DEF EventCount
  <1>5. T = IF e.kind = kind THEN S \cup {m} ELSE S
    <2>1. ASSUME NEW n \in 1..m PROVE n \in T <=> n \in S \/ (n = m /\ e.kind = kind)
      BY <1>2
    <2>2. T \subseteq 1..m /\ S \subseteq 1..m /\ m \in 1..m
      BY <1>2
    <2> HIDE DEF S, T, m
    <2>3. QED
      BY <2>1, <2>2
  <1>6. m \notin S
    BY <1>2
  <1> HIDE DEF S, T, m
  <1>7. Cardinality(S \cup {m}) = Cardinality(S) + 1
    BY <1>3, <1>6, FS_AddElement
  <1>8. CASE e.kind = kind
    BY <1>3, <1>4, <1>5, <1>7, <1>8
  <1>9. CASE e.kind # kind
    BY <1>3, <1>4, <1>5, <1>9
  <1>10. QED
    BY <1>8, <1>9

LEMMA AppendTells ==
    ASSUME TypeOK, NEW e \in [kind : EventKinds, session : Nat], log' = Append(log, e)
    PROVE  /\ \A s : Started(s) => Started(s)'
           /\ \A s : e = Event("CallStarted", s) => Started(s)'
           /\ Len(log) \in Nat /\ DOMAIN log = 1..Len(log) /\ DOMAIN log' = 1..(Len(log) + 1)
           /\ log'[Len(log) + 1] = e /\ \A n \in DOMAIN log : log'[n] = log[n]
  <1>1. /\ Len(log) \in Nat /\ DOMAIN log = 1..Len(log) /\ DOMAIN log' = 1..(Len(log) + 1)
        /\ log'[Len(log) + 1] = e /\ \A n \in DOMAIN log : log'[n] = log[n]
    BY DEF TypeOK
  <1>2. DOMAIN log \subseteq DOMAIN log' /\ Len(log) + 1 \in DOMAIN log'
    BY <1>1
  <1>3. QED
    BY <1>1, <1>2 DEF Started

(***************************************************************************)
(* CallsAreAnnounced goes on with another event, if a start is numbered    *)
(* with the starts so far and the Pad's answer comes after its start.      *)
(***************************************************************************)
LEMMA AppendAnnounces ==
    ASSUME TypeOK, CallsAreAnnounced,
           NEW e \in [kind : EventKinds, session : Nat], log' = Append(log, e),
           e.kind = "CallStarted" => e.session = EventCount("CallStarted") + 1,
           e.kind = "PadAnswered" => Started(e.session)
    PROVE  CallsAreAnnounced'
  <1> DEFINE Upto(l, n) == {m \in 1..n : l[m].kind = "CallStarted"}
  <1>1. /\ Len(log) \in Nat /\ DOMAIN log = 1..Len(log) /\ DOMAIN log' = 1..(Len(log) + 1)
        /\ log'[Len(log) + 1] = e /\ \A n \in DOMAIN log : log'[n] = log[n]
    BY AppendTells
  <1>2. ASSUME NEW n \in 1..Len(log)
        PROVE  /\ log'[n].kind = "CallStarted" => log'[n].session = Cardinality(Upto(log', n))
               /\ log'[n].kind = "PadAnswered" =>
                     \E m \in 1..(n - 1) : log'[m] = Event("CallStarted", log'[n].session)
    <2>1. 1..n \subseteq 1..Len(log) /\ 1..(n - 1) \subseteq 1..Len(log) /\ log'[n] = log[n]
      BY <1>1
    <2>2. Upto(log', n) = Upto(log, n)
      BY <1>1, <2>1
    <2>3. /\ log[n].kind = "CallStarted" => log[n].session = Cardinality(Upto(log, n))
          /\ log[n].kind = "PadAnswered" =>
                \E m \in 1..(n - 1) : log[m] = Event("CallStarted", log[n].session)
      BY <1>1 DEF CallsAreAnnounced
    <2> HIDE DEF Upto
    <2>4. QED
      BY <1>1, <2>1, <2>2, <2>3
  <1>3. e.kind = "CallStarted" => e.session = Cardinality(Upto(log', Len(log) + 1))
    <2> SUFFICES ASSUME e.kind = "CallStarted"
                 PROVE  e.session = Cardinality(Upto(log', Len(log) + 1))
      OBVIOUS
    <2>1. /\ EventCount("CallStarted") \in Nat
          /\ EventCount("CallStarted")' = EventCount("CallStarted") + 1
      BY AppendCounts
    <2>2. EventCount("CallStarted")' = Cardinality(Upto(log', Len(log) + 1))
      BY <1>1 DEF EventCount
    <2>3. QED
      BY <2>1, <2>2
  <1>4. e.kind = "PadAnswered" =>
          \E m \in 1..Len(log) : log'[m] = Event("CallStarted", e.session)
    BY <1>1 DEF Started
  <1> HIDE DEF Upto
  <1>5. ASSUME NEW n \in DOMAIN log'
        PROVE  /\ log'[n].kind = "CallStarted" => log'[n].session = Cardinality(Upto(log', n))
               /\ log'[n].kind = "PadAnswered" =>
                     \E m \in 1..(n - 1) : log'[m] = Event("CallStarted", log'[n].session)
    <2>1. CASE n \in 1..Len(log)
      BY <1>2, <2>1
    <2>2. CASE n = Len(log) + 1
      <3>1. log'[n] = e /\ n - 1 = Len(log)
        BY <1>1, <2>2
      <3>2. QED
        BY <1>3, <1>4, <2>2, <3>1
    <2>3. QED
      BY <1>1, <2>1, <2>2
  <1>6. QED
    BY <1>5 DEF CallsAreAnnounced, Upto

(***************************************************************************)
(* The only steps that touch the log, the numbers or the wire task.        *)
(***************************************************************************)
LEMMA FeedSteps ==
    ASSUME [Next]_vars
    PROVE  \/ UNCHANGED <<log, nextSession, wire>>
           \/ UNCHANGED nextSession /\ \E w \in Workers : Publish(w)
           \/ WireRequest \/ WirePadAnswer \/ WirePadUnlock \/ WireHangup
           \/ WireRestore \/ WirePublish \/ Crash
  <1> USE DEF shared, threads, history, locals
  <1>1. ASSUME NEW w \in Workers, WorkerStep(w)
        PROVE  \/ UNCHANGED <<log, nextSession, wire>>
               \/ UNCHANGED nextSession /\ Publish(w)
    BY <1>1 DEF WorkerStep, Begin, Replay, ReadPeers, ReadSession, Reject, Claim, UnlockDoor,
                HangUp, Accept, Send, SendFails, SilencePad, RestorePad, Publish, StoreResult
  <1>2. ASSUME WireIgnored \/ CooldownElapses \/ Restart \/ UNCHANGED vars
        PROVE  UNCHANGED <<log, nextSession, wire>>
    BY <1>2 DEF WireIgnored, Receive, CooldownElapses, Restart, vars
  <1>3. QED
    BY <1>1, <1>2 DEF Next, WireStep

(***************************************************************************)
(* AnnounceInv is inductive: only the wire task hands out numbers, and it  *)
(* publishes one before it receives the next message.                      *)
(***************************************************************************)
LEMMA AnnounceInductive ==
    TypeOK /\ CallInv /\ AnnounceInv /\ [Next]_vars => AnnounceInv'
  <1> SUFFICES ASSUME TypeOK, CallInv, AnnounceInv, [Next]_vars PROVE AnnounceInv'
    OBVIOUS
  <1>0. /\ nextSession \in Nat /\ nextSession >= 1 /\ call.session \in Nat
        /\ wire \in [pc : WirePcs, kind : EventKinds, session : Nat]
        /\ call.session = nextSession - 1
        /\ log \in Seq([kind : EventKinds, session : Nat])
    BY BoundsAssumption DEF TypeOK, Machines, CallInv
  <1>n. EventCount("CallStarted") \in Nat
    BY <1>0, CountIsNat DEF EventCount
  <1>1. CASE UNCHANGED <<log, nextSession, wire>>
    BY <1>1 DEF AnnounceInv, WireOwes, Started, EventCount, CallsAreAnnounced
  \* The wire task takes up an event that is no start.
  <1>2. ASSUME UNCHANGED <<log, nextSession>>, wire.pc = "recv", wire'.pc # "recv",
               wire'.kind \in {"PadAnswered", "Unlocked", "CallEnded"},
               wire'.kind = "PadAnswered" => Started(wire'.session)
        PROVE  AnnounceInv'
    BY <1>2 DEF AnnounceInv, WireOwes, Started, EventCount, CallsAreAnnounced
  <1>3. CASE WireRequest
    <2>1. /\ UNCHANGED log /\ nextSession' = nextSession + 1 /\ wire.pc = "recv"
          /\ wire' = [pc |-> "publish", kind |-> "CallStarted", session |-> nextSession]
      BY <1>3 DEF WireRequest, Receive
    <2>2. /\ \A s : Started(s)' <=> Started(s)
          /\ EventCount("CallStarted")' = EventCount("CallStarted")
          /\ CallsAreAnnounced'
      BY <2>1 DEF Started, EventCount, AnnounceInv, CallsAreAnnounced
    <2>3. nextSession' - 1 = nextSession /\ nextSession' - 1 \in Nat
      BY <1>0, <2>1
    <2>4. \A s \in 1..(nextSession' - 1) : s = nextSession \/ s \in 1..(nextSession - 1)
      BY <1>0, <2>3
    <2>5. /\ \A s \in 1..(nextSession - 1) : Started(s)
          /\ EventCount("CallStarted") + 0 = nextSession - 1
      BY <2>1 DEF AnnounceInv, WireOwes
    <2>6. /\ wire'.pc = "publish" /\ wire'.kind = "CallStarted" /\ wire'.session = nextSession
          /\ WireOwes("CallStarted")' = 1
      BY <2>1 DEF WireOwes
    <2>7. EventCount("CallStarted")' + WireOwes("CallStarted")' = nextSession' - 1
      BY <1>0, <1>n, <2>2, <2>3, <2>5, <2>6
    <2>8. \A s \in 1..(nextSession' - 1) :
             \/ Started(s)'
             \/ s = nextSession' - 1 /\ wire'.pc # "recv" /\ wire'.kind = "CallStarted"
      BY <2>2, <2>3, <2>4, <2>5, <2>6
    <2>9. QED
      BY <2>2, <2>3, <2>6, <2>7, <2>8 DEF AnnounceInv
  <1>4. CASE WirePadAnswer
    <2>1. /\ UNCHANGED <<log, nextSession>> /\ wire.pc = "recv" /\ call.phase = "Ringing"
          /\ wire' = [pc |-> "publish", kind |-> "PadAnswered", session |-> call.session]
      BY <1>4 DEF WirePadAnswer, Receive, PadAnswerVerdict
    <2>2. call.session # 0
      BY <2>1 DEF CallInv
    <2>3. call.session \in 1..(nextSession - 1)
      BY <1>0, <2>2
    <2>4. Started(call.session)
      BY <2>1, <2>3 DEF AnnounceInv
    <2>5. QED
      BY <1>2, <2>1, <2>4
  <1>5. CASE WirePadUnlock
    BY <1>2, <1>5 DEF WirePadUnlock, Receive
  <1>6. CASE WireHangup
    <2>1. CASE call.phase = "Idle"
      BY <1>1, <1>6, <2>1 DEF WireHangup, Receive
    <2>2. CASE call.phase # "Idle"
      BY <1>2, <1>6, <2>2 DEF WireHangup, Receive
    <2>3. QED
      BY <2>1, <2>2
  <1>7. CASE WireRestore
    <2>1. /\ UNCHANGED <<log, nextSession>> /\ wire.pc # "recv" /\ wire'.pc # "recv"
          /\ wire'.kind = wire.kind /\ wire'.session = wire.session
      BY <1>0, <1>7 DEF WireRestore
    <2>2. QED
      BY <2>1 DEF AnnounceInv, WireOwes, Started, EventCount, CallsAreAnnounced
  \* An event is pushed.
  <1>8. ASSUME NEW w \in Workers, Publish(w), nextSession' = nextSession PROVE AnnounceInv'
    <2> DEFINE e == Event(EventOf(action[w]), seenSession[w])
    <2>1. e \in [kind : EventKinds, session : Nat]
      BY DEF TypeOK, Event, EventOf, EventKinds, Actions
    <2>2. e.kind \notin {"CallStarted", "PadAnswered"}
      BY DEF Event, EventOf
    <2>3. log' = Append(log, e) /\ UNCHANGED wire
      BY <1>8 DEF Publish
    <2> HIDE DEF e
    <2>4. /\ \A s : Started(s) => Started(s)'
          /\ EventCount("CallStarted")' = EventCount("CallStarted") + 0
      BY <2>1, <2>2, <2>3, AppendTells, AppendCounts
    <2>5. CallsAreAnnounced'
      BY <2>1, <2>2, <2>3, AppendAnnounces DEF AnnounceInv
    <2>6. EventCount("CallStarted")' = EventCount("CallStarted")
      BY <1>n, <2>4
    <2>7. QED
      BY <1>8, <2>3, <2>4, <2>5, <2>6 DEF AnnounceInv, WireOwes
  <1>9. CASE WirePublish
    <2> DEFINE e == Event(wire.kind, wire.session)
    <2>1. /\ e \in [kind : EventKinds, session : Nat]
          /\ e.kind = wire.kind /\ e.session = wire.session
      BY <1>0 DEF Event
    <2>2. /\ log' = Append(log, e) /\ nextSession' = nextSession
          /\ wire.pc # "recv" /\ wire'.pc = "recv"
      BY <1>9 DEF WirePublish, AtRest
    <2>3. EventCount("CallStarted") + WireOwes("CallStarted") = nextSession - 1
      BY DEF AnnounceInv
    <2>4. WireOwes("CallStarted") = IF wire.kind = "CallStarted" THEN 1 ELSE 0
      BY <2>2 DEF WireOwes
    <2>5. e = Event(e.kind, e.session)
      BY DEF Event
    <2> HIDE DEF e
    <2>6. /\ \A s : Started(s) => Started(s)'
          /\ \A s : e = Event("CallStarted", s) => Started(s)'
          /\ EventCount("CallStarted")' =
               EventCount("CallStarted") + (IF e.kind = "CallStarted" THEN 1 ELSE 0)
      BY <2>1, <2>2, AppendTells, AppendCounts
    <2>7. CallsAreAnnounced'
      <3>1. e.kind = "CallStarted" => e.session = EventCount("CallStarted") + 1
        <4> SUFFICES ASSUME e.kind = "CallStarted"
                     PROVE  e.session = EventCount("CallStarted") + 1
          OBVIOUS
        <4>1. e.session = nextSession - 1 /\ WireOwes("CallStarted") = 1
          BY <2>1, <2>2, <2>4 DEF AnnounceInv
        <4>2. QED
          BY <1>0, <1>n, <2>3, <4>1
      <3>2. e.kind = "PadAnswered" => Started(e.session)
        BY <2>1, <2>2 DEF AnnounceInv
      <3>3. QED
        BY <2>1, <2>2, <3>1, <3>2, AppendAnnounces DEF AnnounceInv
    <2>8. \A s \in 1..(nextSession - 1) : Started(s)'
      <3>1. TAKE s \in 1..(nextSession - 1)
      <3>2. CASE Started(s)
        BY <2>6, <3>2
      <3>3. CASE s = nextSession - 1 /\ wire.kind = "CallStarted"
        <4>1. e.kind = "CallStarted" /\ e.session = s
          BY <2>1, <2>2, <3>3 DEF AnnounceInv
        <4>2. QED
          BY <2>5, <2>6, <4>1
      <3>4. QED
        BY <3>2, <3>3 DEF AnnounceInv
    <2>9. EventCount("CallStarted")' = nextSession - 1 /\ WireOwes("CallStarted")' = 0
      <3>1. EventCount("CallStarted")' = EventCount("CallStarted") + WireOwes("CallStarted")
        BY <2>1, <2>4, <2>6
      <3>2. QED
        BY <2>2, <2>3, <3>1 DEF WireOwes
    <2>10. EventCount("CallStarted")' + WireOwes("CallStarted")' = nextSession - 1
      BY <1>0, <2>9
    <2>11. QED
      BY <2>2, <2>7, <2>8, <2>10 DEF AnnounceInv
  <1>10. CASE Crash
    <2>1. log' = <<>> /\ nextSession' = 1 /\ wire'.pc = "recv"
      BY <1>10 DEF Crash, AtRest
    <2>2. DOMAIN log' = {} /\ CallsAreAnnounced'
      BY <2>1 DEF CallsAreAnnounced
    <2>3. EventCount("CallStarted")' = 0 /\ WireOwes("CallStarted")' = 0
      <3>1. {n \in DOMAIN log' : log'[n].kind = "CallStarted"} = {}
        BY <2>2
      <3>2. QED
        BY <2>1, <3>1, FS_EmptySet DEF EventCount, WireOwes
    <2>4. EventCount("CallStarted")' + WireOwes("CallStarted")' = nextSession' - 1
      BY <2>1, <2>3
    <2>5. \A s \in 1..(nextSession' - 1) : FALSE
      BY <2>1
    <2>6. QED
      BY <2>1, <2>2, <2>4, <2>5 DEF AnnounceInv
  <1>11. QED
    BY FeedSteps, <1>1, <1>3, <1>4, <1>5, <1>6, <1>7, <1>8, <1>9, <1>10

LEMMA AnnounceInvariant == Spec => []AnnounceInv
  <1>1. Init => AnnounceInv
    <2> SUFFICES ASSUME Init PROVE AnnounceInv
      OBVIOUS
    <2>1. log = <<>> /\ nextSession = 1 /\ wire.pc = "recv"
      BY DEF Init, AtRest
    <2>2. {n \in DOMAIN log : log[n].kind = "CallStarted"} = {} /\ CallsAreAnnounced
      BY <2>1 DEF CallsAreAnnounced
    <2>3. EventCount("CallStarted") = 0 /\ WireOwes("CallStarted") = 0
      BY <2>1, <2>2, FS_EmptySet DEF EventCount, WireOwes
    <2>4. QED
      BY <2>1, <2>2, <2>3 DEF AnnounceInv
  <1>2. QED
    BY <1>1, AnnounceInductive, TypeCorrect, CallInvariant, PTL DEF Spec

(***************************************************************************)
(* In the feed calls start in the order of their sessions, and the Pad's   *)
(* answer comes after the start of its call, in every run of the Agent.    *)
(***************************************************************************)
THEOREM FeedAnnouncesCalls == Spec => []CallsAreAnnounced
  <1>1. AnnounceInv => CallsAreAnnounced
    BY DEF AnnounceInv
  <1>2. QED
    BY <1>1, AnnounceInvariant, PTL

(***************************************************************************)
(* How one worker's step changes the set of those who have yet to tell.    *)
(***************************************************************************)
LEMMA UntoldSteps ==
    ASSUME NEW w \in Workers, NEW a,
           \A v \in Workers \ {w} : pc'[v] = pc[v] /\ action'[v] = action[v]
    PROVE  /\ (w \in Untold(a)' <=> w \in Untold(a)) => Untold(a)' = Untold(a)
           /\ w \in Untold(a)' => Untold(a)' = Untold(a) \cup {w}
           /\ w \notin Untold(a)' => Untold(a)' = Untold(a) \ {w}
  <1>1. \A v \in Workers \ {w} : v \in Untold(a)' <=> v \in Untold(a)
    BY DEF Untold
  <1>2. Untold(a) \subseteq Workers /\ Untold(a)' \subseteq Workers
    BY DEF Untold
  <1>3. QED
    BY <1>1, <1>2

(***************************************************************************)
(* The call that is answered was not answered before, and the one that is  *)
(* ended not ended: each is one more of its tally.                         *)
(***************************************************************************)
LEMMA OneMoreCounted ==
    ASSUME NEW f \in [Sessions -> Nat], NEW g \in [Sessions -> Nat],
           NEW s \in Sessions, f[s] = 0, g = [f EXCEPT ![s] = @ + 1]
    PROVE  /\ Cardinality({x \in Sessions : f[x] > 0}) \in Nat
           /\ Cardinality({x \in Sessions : g[x] > 0})
                = Cardinality({x \in Sessions : f[x] > 0}) + 1
  <1> DEFINE F == {x \in Sessions : f[x] > 0}
             G == {x \in Sessions : g[x] > 0}
  <1>1. \A x \in Sessions : g[x] = IF x = s THEN f[x] + 1 ELSE f[x]
    BY CountOneMore
  <1>2. \A x \in Sessions : f[x] \in Nat
    OBVIOUS
  <1>3. s \notin F /\ G = F \cup {s}
    BY <1>1, <1>2
  <1>4. IsFiniteSet(Sessions)
    BY BoundsAssumption, FS_Interval DEF Sessions
  <1>5. F \in SUBSET Sessions
    OBVIOUS
  <1> HIDE DEF F, G
  <1>6. IsFiniteSet(F)
    BY <1>4, <1>5, FS_Subset
  <1>7. Cardinality(F) \in Nat /\ Cardinality(F \cup {s}) = Cardinality(F) + 1
    BY <1>3, <1>6, FS_CardinalityType, FS_AddElement
  <1>8. QED
    BY <1>3, <1>7 DEF F, G

LEMMA AnsweredGrows ==
    ASSUME TypeOK, CallInv, call.phase = "Ringing",
           answers' = [answers EXCEPT ![call.session] = @ + 1]
    PROVE  Cardinality(Answered) \in Nat /\ Cardinality(Answered)' = Cardinality(Answered) + 1
  <1>1. call.session \in Sessions
    BY BoundsAssumption DEF TypeOK, CallInv, Machines, Sessions
  <1>2. answers[call.session] = 0 /\ answers \in [Sessions -> Nat]
    BY <1>1 DEF CallInv, TypeOK
  <1>3. answers' \in [Sessions -> Nat]
    BY <1>2, CountOneMore
  <1>4. QED
    BY <1>1, <1>2, <1>3, OneMoreCounted DEF Answered

LEMMA OverGrows ==
    ASSUME TypeOK, CallInv, call.phase # "Idle",
           ends' = [ends EXCEPT ![call.session] = @ + 1]
    PROVE  Cardinality(Over) \in Nat /\ Cardinality(Over)' = Cardinality(Over) + 1
  <1>1. call.session \in Sessions
    BY BoundsAssumption DEF TypeOK, CallInv, Machines, Sessions
  <1>2. ends[call.session] = 0 /\ ends \in [Sessions -> Nat]
    BY <1>1, BoundsAssumption DEF CallInv, CallsDoNotOverlap, TypeOK, Machines, Sessions
  <1>3. ends' \in [Sessions -> Nat]
    BY <1>2, CountOneMore
  <1>4. QED
    BY <1>1, <1>2, <1>3, OneMoreCounted DEF Over

(***************************************************************************)
(* TallyInv is inductive: a handler that answers or ends the call owes its *)
(* event from then on, and pays with the event.                            *)
(***************************************************************************)
LEMMA TallyInductive ==
    TypeOK /\ CallInv /\ AnnounceInv /\ TallyInv /\ [Next]_vars => TallyInv'
  <1> SUFFICES ASSUME TypeOK, CallInv, AnnounceInv, TallyInv, [Next]_vars PROVE TallyInv'
    OBVIOUS
  <1>t. /\ pc \in [Workers -> WorkerPcs] /\ action \in [Workers -> Actions]
        /\ wire \in [pc : WirePcs, kind : EventKinds, session : Nat]
        /\ log \in Seq([kind : EventKinds, session : Nat])
    BY DEF TypeOK
  <1>f. /\ IsFiniteSet(Untold("Claim")) /\ IsFiniteSet(Untold("Hangup"))
        /\ Cardinality(Untold("Claim")) \in Nat /\ Cardinality(Untold("Hangup")) \in Nat
    BY FS_CardinalityType DEF TallyInv
  <1>n. \A k : EventCount(k) \in Nat /\ WireOwes(k) \in Nat
    BY <1>t, CountIsNat DEF EventCount, WireOwes
  <1> USE DEF shared, threads, history, locals
  <1>1. ASSUME UNCHANGED <<log, answers, ends>>,
               WireOwes("PadAnswered")' = WireOwes("PadAnswered"),
               WireOwes("CallEnded")' = WireOwes("CallEnded"),
               \A a \in {"Claim", "Hangup"} : Untold(a)' = Untold(a)
        PROVE  TallyInv'
    BY <1>1 DEF TallyInv, AnswersTold, EndsTold, EventCount, Answered, Over
  <1>2. ASSUME NEW w \in Workers, UNCHANGED <<log, answers, ends, wire>>,
               \A v \in Workers \ {w} : pc'[v] = pc[v] /\ action'[v] = action[v],
               \A a \in {"Claim", "Hangup"} : w \in Untold(a)' <=> w \in Untold(a)
        PROVE  TallyInv'
    <2>1. \A a \in {"Claim", "Hangup"} : Untold(a)' = Untold(a)
      BY <1>2, UntoldSteps
    <2>2. QED
      BY <1>1, <1>2, <2>1 DEF WireOwes
  <1>3. ASSUME NEW w \in Workers,
               \/ \E a \in Actions : \E i \in IdsOf(a) : Begin(w, a, i)
               \/ ReadPeers(w) \/ ReadSession(w) \/ Reject(w) \/ StoreResult(w)
        PROVE  TallyInv'
    <2>1. /\ UNCHANGED <<log, answers, ends, wire>>
          /\ \E q \in {"peers", "session", "lock", "store", "idle"} : pc' = [pc EXCEPT ![w] = q]
          /\ pc[w] \notin {"send", "effect", "publish"}
          /\ action' = action \/ \E a \in Actions : action' = [action EXCEPT ![w] = a]
      BY <1>3 DEF Begin, ReadPeers, ReadSession, Reject, StoreResult, Return, Goto, Actions
    <2>2. /\ \A v \in Workers \ {w} : pc'[v] = pc[v] /\ action'[v] = action[v]
          /\ pc'[w] \notin {"send", "effect", "publish"}
      BY <1>t, <2>1
    <2>3. QED
      BY <1>2, <2>1, <2>2 DEF Untold
  <1>4. ASSUME NEW w \in Workers,
               UnlockDoor(w) \/ Send(w) \/ SilencePad(w) \/ RestorePad(w)
        PROVE  TallyInv'
    <2>1. /\ UNCHANGED <<log, answers, ends, wire, action>>
          /\ \E q \in {"send", "effect", "publish"} : pc' = [pc EXCEPT ![w] = q]
          /\ pc[w] \in {"send", "effect", "publish"} \/ action[w] = "Unlock"
      BY <1>4 DEF UnlockDoor, Accept, Send, SilencePad, RestorePad, Goto
    <2>2. /\ \A v \in Workers \ {w} : pc'[v] = pc[v] /\ action'[v] = action[v]
          /\ pc'[w] \in {"send", "effect", "publish"} /\ action'[w] = action[w]
      BY <1>t, <2>1
    <2>3. QED
      BY <1>2, <2>1, <2>2 DEF Untold
  <1>5. ASSUME NEW w \in Workers, Claim(w) PROVE TallyInv'
    <2>1. /\ UNCHANGED <<log, ends, wire, action>>
          /\ pc[w] = "lock" /\ pc' = [pc EXCEPT ![w] = "send"] /\ action[w] = "Claim"
          /\ call.phase = "Ringing"
          /\ answers' = [answers EXCEPT ![call.session] = @ + 1]
      BY <1>5 DEF Claim, Accept, Goto, Verdict, RemoteAnswerVerdict
    <2>2. /\ \A v \in Workers \ {w} : pc'[v] = pc[v] /\ action'[v] = action[v]
          /\ pc'[w] = "send"
      BY <1>t, <2>1
    <2>3. /\ w \in Untold("Claim")' /\ w \notin Untold("Claim")
          /\ w \notin Untold("Hangup")' /\ w \notin Untold("Hangup")
      BY <2>1, <2>2 DEF Untold
    <2>4. Untold("Claim")' = Untold("Claim") \cup {w} /\ Untold("Hangup")' = Untold("Hangup")
      BY <2>2, <2>3, UntoldSteps
    <2>5. /\ IsFiniteSet(Untold("Claim")') /\ IsFiniteSet(Untold("Hangup")')
          /\ Cardinality(Untold("Claim")') = Cardinality(Untold("Claim")) + 1
      BY <1>f, <2>3, <2>4, FS_AddElement
    <2>6. Cardinality(Answered) \in Nat /\ Cardinality(Answered)' = Cardinality(Answered) + 1
      BY <2>1, AnsweredGrows
    <2>7. AnswersTold => AnswersTold'
      <3>1. /\ EventCount("PadAnswered")' = EventCount("PadAnswered")
            /\ EventCount("RemoteAnswered")' = EventCount("RemoteAnswered")
            /\ WireOwes("PadAnswered")' = WireOwes("PadAnswered")
        BY <2>1 DEF EventCount, WireOwes
      <3>2. QED
        BY <1>f, <1>n, <2>5, <2>6, <3>1 DEF AnswersTold
    <2>8. EndsTold => EndsTold'
      BY <2>1, <2>4 DEF EndsTold, EventCount, WireOwes, Over
    <2>9. QED
      BY <2>5, <2>7, <2>8 DEF TallyInv
  <1>6. ASSUME NEW w \in Workers, HangUp(w) PROVE TallyInv'
    <2>1. /\ UNCHANGED <<log, answers, wire, action>>
          /\ pc[w] = "lock" /\ pc' = [pc EXCEPT ![w] = "send"] /\ action[w] = "Hangup"
          /\ call.phase # "Idle"
          /\ ends' = [ends EXCEPT ![call.session] = @ + 1]
      BY <1>6 DEF HangUp, Accept, Goto, Verdict
    <2>2. /\ \A v \in Workers \ {w} : pc'[v] = pc[v] /\ action'[v] = action[v]
          /\ pc'[w] = "send"
      BY <1>t, <2>1
    <2>3. /\ w \in Untold("Hangup")' /\ w \notin Untold("Hangup")
          /\ w \notin Untold("Claim")' /\ w \notin Untold("Claim")
      BY <2>1, <2>2 DEF Untold
    <2>4. Untold("Hangup")' = Untold("Hangup") \cup {w} /\ Untold("Claim")' = Untold("Claim")
      BY <2>2, <2>3, UntoldSteps
    <2>5. /\ IsFiniteSet(Untold("Claim")') /\ IsFiniteSet(Untold("Hangup")')
          /\ Cardinality(Untold("Hangup")') = Cardinality(Untold("Hangup")) + 1
      BY <1>f, <2>3, <2>4, FS_AddElement
    <2>6. Cardinality(Over) \in Nat /\ Cardinality(Over)' = Cardinality(Over) + 1
      BY <2>1, OverGrows
    <2>7. EndsTold => EndsTold'
      <3>1. /\ EventCount("CallEnded")' = EventCount("CallEnded")
            /\ WireOwes("CallEnded")' = WireOwes("CallEnded")
        BY <2>1 DEF EventCount, WireOwes
      <3>2. QED
        BY <1>f, <1>n, <2>5, <2>6, <3>1 DEF EndsTold
    <2>8. AnswersTold => AnswersTold'
      BY <2>1, <2>4 DEF AnswersTold, EventCount, WireOwes, Answered
    <2>9. QED
      BY <2>5, <2>7, <2>8 DEF TallyInv
  <1>7. ASSUME NEW w \in Workers, SendFails(w) PROVE TallyInv'
    <2>1. /\ "send" \in Faults /\ UNCHANGED action /\ pc' = [pc EXCEPT ![w] = "store"]
      BY <1>7 DEF SendFails, Goto
    <2>2. /\ \A v \in Workers \ {w} : pc'[v] = pc[v] /\ action'[v] = action[v]
          /\ pc'[w] = "store"
      BY <1>t, <2>1
    <2>3. \A a \in {"Claim", "Hangup"} : Untold(a)' = Untold(a) \ {w}
      <3>1. \A a \in {"Claim", "Hangup"} : w \notin Untold(a)'
        BY <2>2 DEF Untold
      <3>2. QED
        BY <2>2, <3>1, UntoldSteps
    <2>4. IsFiniteSet(Untold("Claim")') /\ IsFiniteSet(Untold("Hangup")')
      BY <1>f, <2>3, FS_RemoveElement
    <2>5. QED
      BY <2>1, <2>4 DEF TallyInv
  <1>8. ASSUME NEW w \in Workers, Publish(w) PROVE TallyInv'
    <2> DEFINE e == Event(EventOf(action[w]), seenSession[w])
    <2>1. /\ UNCHANGED <<answers, ends, wire, action>> /\ log' = Append(log, e)
          /\ pc[w] = "publish" /\ pc' = [pc EXCEPT ![w] = "store"]
      BY <1>8 DEF Publish, Goto
    <2>2. /\ e \in [kind : EventKinds, session : Nat]
          /\ e.kind # "PadAnswered"
          /\ e.kind = "RemoteAnswered" <=> action[w] = "Claim"
          /\ e.kind = "CallEnded" <=> action[w] = "Hangup"
      BY <1>t DEF TypeOK, Event, EventOf, EventKinds, Actions
    <2> HIDE DEF e
    <2>3. /\ \A v \in Workers \ {w} : pc'[v] = pc[v] /\ action'[v] = action[v]
          /\ pc'[w] = "store"
      BY <1>t, <2>1
    <2>4. \A a \in {"Claim", "Hangup"} : w \in Untold(a) <=> action[w] = a
      BY <2>1 DEF Untold
    <2>5. \A a \in {"Claim", "Hangup"} : Untold(a)' = Untold(a) \ {w}
      <3>1. \A a \in {"Claim", "Hangup"} : w \notin Untold(a)'
        BY <2>3 DEF Untold
      <3>2. QED
        BY <2>3, <3>1, UntoldSteps
    <2>6. ASSUME NEW a \in {"Claim", "Hangup"}
          PROVE  /\ IsFiniteSet(Untold(a)') /\ Cardinality(Untold(a)) \in Nat
                 /\ Cardinality(Untold(a)') =
                      Cardinality(Untold(a)) - (IF action[w] = a THEN 1 ELSE 0)
      <3>1. IsFiniteSet(Untold(a)) /\ Cardinality(Untold(a)) \in Nat
        BY <1>f
      <3>2. /\ IsFiniteSet(Untold(a) \ {w})
            /\ Cardinality(Untold(a) \ {w}) =
                 IF w \in Untold(a) THEN Cardinality(Untold(a)) - 1 ELSE Cardinality(Untold(a))
        BY <3>1, FS_RemoveElement
      <3>3. QED
        BY <2>4, <2>5, <3>1, <3>2
    <2>7. \A k : EventCount(k)' = EventCount(k) + (IF e.kind = k THEN 1 ELSE 0)
      BY <2>1, <2>2, AppendCounts
    <2>8. \A k : WireOwes(k)' = WireOwes(k)
      BY <2>1 DEF WireOwes
    <2>9. AnswersTold => AnswersTold'
      <3>1. /\ EventCount("PadAnswered")' = EventCount("PadAnswered") + 0
            /\ EventCount("RemoteAnswered")' =
                 EventCount("RemoteAnswered") + (IF action[w] = "Claim" THEN 1 ELSE 0)
        BY <2>2, <2>7
      <3>2. Cardinality(Untold("Claim")') =
              Cardinality(Untold("Claim")) - (IF action[w] = "Claim" THEN 1 ELSE 0)
        BY <2>6
      <3>3. Answered' = Answered
        BY <2>1 DEF Answered
      <3>4. QED
        BY <1>f, <1>n, <2>8, <3>1, <3>2, <3>3 DEF AnswersTold
    <2>10. EndsTold => EndsTold'
      <3>1. EventCount("CallEnded")' =
              EventCount("CallEnded") + (IF action[w] = "Hangup" THEN 1 ELSE 0)
        BY <2>2, <2>7
      <3>2. Cardinality(Untold("Hangup")') =
              Cardinality(Untold("Hangup")) - (IF action[w] = "Hangup" THEN 1 ELSE 0)
        BY <2>6
      <3>3. Over' = Over
        BY <2>1 DEF Over
      <3>4. QED
        BY <1>f, <1>n, <2>8, <3>1, <3>2, <3>3 DEF EndsTold
    <2>11. QED
      BY <2>6, <2>9, <2>10 DEF TallyInv
  <1>9. CASE WireIgnored \/ WireRequest \/ WirePadUnlock \/ WireRestore
    <2>1. UNCHANGED <<log, answers, ends, pc, action>>
      BY <1>9 DEF WireIgnored, WireRequest, WirePadUnlock, WireRestore, Receive
    <2>2. \A k \in {"PadAnswered", "CallEnded"} : WireOwes(k)' = WireOwes(k)
      <3>1. CASE WireIgnored
        BY <3>1 DEF WireIgnored, WireOwes
      <3>2. CASE WireRequest
        BY <3>2 DEF WireRequest, Receive, WireOwes
      <3>3. CASE WirePadUnlock
        BY <3>3 DEF WirePadUnlock, Receive, WireOwes
      <3>4. CASE WireRestore
        <4>1. wire.pc # "recv" /\ wire'.pc # "recv" /\ wire'.kind = wire.kind
          BY <1>t, <3>4 DEF WireRestore
        <4>2. QED
          BY <4>1 DEF WireOwes
      <3>5. QED
        BY <1>9, <3>1, <3>2, <3>3, <3>4
    <2>3. QED
      BY <1>1, <2>1, <2>2 DEF Untold
  <1>10. CASE WirePadAnswer
    <2>1. /\ UNCHANGED <<log, ends, pc, action>> /\ wire.pc = "recv" /\ call.phase = "Ringing"
          /\ wire' = [pc |-> "publish", kind |-> "PadAnswered", session |-> call.session]
          /\ answers' = [answers EXCEPT ![call.session] = @ + 1]
      BY <1>10 DEF WirePadAnswer, Receive, PadAnswerVerdict
    <2>2. Cardinality(Answered) \in Nat /\ Cardinality(Answered)' = Cardinality(Answered) + 1
      BY <2>1, AnsweredGrows
    <2>3. \A a : Untold(a)' = Untold(a)
      BY <2>1 DEF Untold
    <2>4. /\ WireOwes("PadAnswered")' = 1 /\ WireOwes("PadAnswered") = 0
          /\ WireOwes("CallEnded")' = WireOwes("CallEnded")
          /\ \A k : EventCount(k)' = EventCount(k)
      BY <2>1 DEF WireOwes, EventCount
    <2>5. AnswersTold => AnswersTold'
      BY <1>f, <1>n, <2>2, <2>3, <2>4 DEF AnswersTold
    <2>6. EndsTold => EndsTold'
      BY <2>1, <2>3, <2>4 DEF EndsTold, Over
    <2>7. QED
      BY <1>f, <2>3, <2>5, <2>6 DEF TallyInv
  <1>11. CASE WireHangup
    <2>1. UNCHANGED <<log, answers, pc, action>> /\ wire.pc = "recv"
      BY <1>11 DEF WireHangup, Receive
    <2>2. CASE call.phase = "Idle"
      <3>1. UNCHANGED <<wire, ends>>
        BY <1>11, <2>2 DEF WireHangup
      <3>2. QED
        BY <1>1, <2>1, <3>1 DEF Untold, WireOwes
    <2>3. CASE call.phase # "Idle"
      <3>1. /\ wire' = [pc |-> "restore", kind |-> "CallEnded", session |-> call.session]
            /\ ends' = [ends EXCEPT ![call.session] = @ + 1]
        BY <1>11, <2>3 DEF WireHangup
      <3>2. Cardinality(Over) \in Nat /\ Cardinality(Over)' = Cardinality(Over) + 1
        BY <2>3, <3>1, OverGrows
      <3>3. \A a : Untold(a)' = Untold(a)
        BY <2>1 DEF Untold
      <3>4. /\ WireOwes("CallEnded")' = 1 /\ WireOwes("CallEnded") = 0
            /\ WireOwes("PadAnswered")' = WireOwes("PadAnswered")
            /\ \A k : EventCount(k)' = EventCount(k)
        BY <2>1, <3>1 DEF WireOwes, EventCount
      <3>5. EndsTold => EndsTold'
        BY <1>f, <1>n, <3>2, <3>3, <3>4 DEF EndsTold
      <3>6. AnswersTold => AnswersTold'
        BY <2>1, <3>3, <3>4 DEF AnswersTold, Answered
      <3>7. QED
        BY <1>f, <3>3, <3>5, <3>6 DEF TallyInv
    <2>4. QED
      BY <2>2, <2>3
  <1>12. CASE WirePublish
    <2> DEFINE e == Event(wire.kind, wire.session)
    <2>1. /\ UNCHANGED <<answers, ends, pc, action>> /\ log' = Append(log, e)
          /\ wire.pc # "recv" /\ wire'.pc = "recv"
      BY <1>12 DEF WirePublish, AtRest
    <2>2. /\ e \in [kind : EventKinds, session : Nat]
          /\ e.kind = wire.kind /\ e.kind # "RemoteAnswered"
      BY <1>t, <2>1 DEF AnnounceInv, Event
    <2> HIDE DEF e
    <2>3. \A k : EventCount(k)' = EventCount(k) + (IF e.kind = k THEN 1 ELSE 0)
      BY <2>1, <2>2, AppendCounts
    <2>4. \A k : WireOwes(k)' = 0 /\ WireOwes(k) = IF e.kind = k THEN 1 ELSE 0
      BY <2>1, <2>2 DEF WireOwes
    <2>5. \A a : Untold(a)' = Untold(a)
      BY <2>1 DEF Untold
    <2>6. /\ EventCount("PadAnswered")' = EventCount("PadAnswered") + WireOwes("PadAnswered")
          /\ EventCount("CallEnded")' = EventCount("CallEnded") + WireOwes("CallEnded")
          /\ EventCount("RemoteAnswered")' = EventCount("RemoteAnswered")
      BY <1>n, <2>2, <2>3, <2>4
    <2>7. AnswersTold => AnswersTold'
      <3>1. Answered' = Answered
        BY <2>1 DEF Answered
      <3>2. QED
        BY <1>f, <1>n, <2>4, <2>5, <2>6, <3>1 DEF AnswersTold
    <2>8. EndsTold => EndsTold'
      <3>1. Over' = Over
        BY <2>1 DEF Over
      <3>2. QED
        BY <1>f, <1>n, <2>4, <2>5, <2>6, <3>1 DEF EndsTold
    <2>9. QED
      BY <1>f, <2>5, <2>7, <2>8 DEF TallyInv
  <1>13. CASE Crash
    <2>1. /\ log' = <<>> /\ wire'.pc = "recv"
          /\ \A w \in Workers : pc'[w] = "idle"
          /\ \A s \in Sessions : answers'[s] = 0 /\ ends'[s] = 0
      BY <1>13 DEF Crash, AtRest
    <2>2. /\ \A a : Untold(a)' = {}
          /\ Answered' = {} /\ Over' = {}
      BY <2>1 DEF Untold, Answered, Over
    <2>3. \A k : EventCount(k)' = 0 /\ WireOwes(k)' = 0
      BY <2>1, FS_EmptySet DEF EventCount, WireOwes
    <2>4. QED
      BY <2>2, <2>3, FS_EmptySet DEF TallyInv, AnswersTold, EndsTold
  <1>14. CASE CooldownElapses \/ Restart \/ UNCHANGED vars \/ \E w \in Workers :
                 \E i \in CommandIds : Replay(w, i)
    <2>1. UNCHANGED <<log, answers, ends, wire, pc, action>>
      BY <1>14 DEF CooldownElapses, Restart, vars, Replay
    <2>2. QED
      BY <1>1, <2>1 DEF Untold, WireOwes
  <1>15. QED
    BY <1>3, <1>4, <1>5, <1>6, <1>7, <1>8, <1>9, <1>10, <1>11, <1>12, <1>13, <1>14
       DEF Next, WorkerStep, WireStep

LEMMA TallyInvariant == Spec => []TallyInv
  <1>1. Init => TallyInv
    <2> SUFFICES ASSUME Init PROVE TallyInv
      OBVIOUS
    <2>1. /\ log = <<>> /\ wire.pc = "recv"
          /\ \A w \in Workers : pc[w] = "idle"
          /\ \A s \in Sessions : answers[s] = 0 /\ ends[s] = 0
      BY DEF Init, AtRest
    <2>2. /\ \A a : Untold(a) = {}
          /\ Answered = {} /\ Over = {}
      BY <2>1 DEF Untold, Answered, Over
    <2>3. \A k : EventCount(k) = 0 /\ WireOwes(k) = 0
      BY <2>1, FS_EmptySet DEF EventCount, WireOwes
    <2>4. QED
      BY <2>2, <2>3, FS_EmptySet DEF TallyInv, AnswersTold, EndsTold
  <1>2. QED
    BY <1>1, TallyInductive, TypeCorrect, CallInvariant, AnnounceInvariant, PTL DEF Spec

(***************************************************************************)
(* Once the handlers are done the feed has as many starts, answers and     *)
(* ends as calls started, were answered and ended, for any number of       *)
(* workers, unless packets fail.                                           *)
(***************************************************************************)
THEOREM FeedAccountsForCalls == Spec => []EventsAccountForCalls
  <1>1. TypeOK /\ AnnounceInv /\ TallyInv => EventsAccountForCalls
    <2> SUFFICES ASSUME TypeOK, AnnounceInv, TallyInv, Quiet, "send" \notin Faults
                 PROVE  /\ EventCount("CallStarted") = nextSession - 1
                        /\ EventCount("PadAnswered") + EventCount("RemoteAnswered")
                              = Cardinality(Answered)
                        /\ EventCount("CallEnded") = Cardinality(Over)
      BY DEF EventsAccountForCalls, Answered, Over
    <2>1. \A k : EventCount(k) \in Nat /\ WireOwes(k) = 0
      <3>1. log \in Seq([kind : EventKinds, session : Nat])
        BY DEF TypeOK
      <3>2. \A k : EventCount(k) \in Nat
        BY <3>1, CountIsNat DEF EventCount
      <3>3. \A k : WireOwes(k) = 0
        BY DEF WireOwes, Quiet
      <3>4. QED
        BY <3>2, <3>3
    <2>2. \A a : Untold(a) = {}
      BY DEF Untold, Quiet
    <2>3. Cardinality(Untold("Claim")) = 0 /\ Cardinality(Untold("Hangup")) = 0
      BY <2>2, FS_EmptySet
    <2>4. EventCount("CallStarted") = nextSession - 1
      BY <2>1 DEF AnnounceInv
    <2>5. EventCount("PadAnswered") + EventCount("RemoteAnswered") = Cardinality(Answered)
      BY <2>1, <2>3 DEF TallyInv, AnswersTold
    <2>6. EventCount("CallEnded") = Cardinality(Over)
      BY <2>1, <2>3 DEF TallyInv, EndsTold
    <2>7. QED
      BY <2>4, <2>5, <2>6
  <1>2. QED
    BY <1>1, TypeCorrect, AnnounceInvariant, TallyInvariant, PTL
================================================================================
