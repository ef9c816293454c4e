----------------------------- MODULE OutboundProofs ----------------------------
(***************************************************************************)
(* Theorems about Outbound, for any number of clients, monitors and        *)
(* dialled calls.                                                          *)
(***************************************************************************)
EXTENDS Outbound, TLAPS

--------------------------------------------------------------------------------
(***************************************************************************)
(* The inductive invariant, in three parts.                                *)
(***************************************************************************)
Starting == {"find", "install", "spawn"}       \* start_monitor_now, before the task runs
Dialling == {"lines", "look", "dialling"}      \* dial_now, before the task runs

\* A monitor's request has its handle to itself until the task runs, and the
\* task has not run before; the slot never has the handle of a task that has
\* cleaned up.
MonitorInv ==
    /\ \A m \in Monitors : m > monitors => watch[m] = "none"
    /\ \A r \in Requests : pc[r] \in Starting =>
         mine[r] \in 1..monitors /\ watch[mine[r]] = "none"
    /\ \A r, s \in Requests :
         pc[r] \in Starting /\ pc[s] \in Starting /\ mine[r] = mine[s] => r = s
    /\ monitor # 0 => watch[monitor] \notin {"cleaned", "over"}

\* The same of the line, whose handle moreover has never been cut.
LineInv ==
    /\ \A d \in Dials : d > dials => keep[d] = "none" /\ d \notin cut
    /\ line <= dials
    /\ \A r \in Requests : pc[r] \in Dialling => mine[r] \in 1..dials
    /\ \A r \in Requests : pc[r] \in {"lines", "look"} =>
         keep[mine[r]] = "none" /\ mine[r] \notin cut /\ mine[r] # line
    /\ \A r, s \in Requests :
         pc[r] \in Dialling /\ pc[s] \in Dialling /\ mine[r] = mine[s] => r = s
    /\ line # 0 => line \notin cut /\ keep[line] # "over"

\* A call is hung up by whoever took its handle, and by nobody else.
ReportInv ==
    /\ \A d \in Dials : connected[d] = IF answered[d] THEN 1 ELSE 0
    /\ \A d \in Dials : hungUp[d] \in {0, 1}
    /\ \A d \in Dials : hungUp[d] = 1 => d \in cut
    /\ \A r \in Requests : pc[r] = "hungup" =>
         /\ mine[r] \in cut /\ hungUp[mine[r]] = 0
         /\ ~(wire.pc = "hungup" /\ wire.handle = mine[r])
    /\ wire.pc = "hungup" => wire.handle \in cut /\ hungUp[wire.handle] = 0
    /\ \A r, s \in Requests :
         pc[r] = "hungup" /\ pc[s] = "hungup" /\ mine[r] = mine[s] => r = s

IInv == TypeOK /\ MonitorInv /\ LineInv /\ ReportInv

\* Where on_wire can be.
WireType == [pc : {"recv", "monitor", "line", "dialled", "hungup", "call"},
             msg : Messages, handle : 0..MaxDials]

--------------------------------------------------------------------------------
(***************************************************************************)
(* on_wire rests in a state of its type.                                   *)
(***************************************************************************)
LEMMA WireTyped ==
    Listening \in WireType /\ Listening.pc = "recv"
  BY BoundsAssumption DEF Listening, Messages, WireType

(***************************************************************************)
(* A tally that is raised stays a tally.                                   *)
(***************************************************************************)
LEMMA CountOneMore ==
    ASSUME NEW tally \in [Dials -> Nat], NEW d
    PROVE  [tally EXCEPT ![d] = @ + 1] \in [Dials -> Nat]
  <1> DEFINE more == [tally EXCEPT ![d] = @ + 1]
  <1>1. more = [e \in Dials |-> IF e = d THEN tally[d] + 1 ELSE tally[e]]
    OBVIOUS
  <1>2. \A e \in Dials : more[e] \in Nat
    BY <1>1
  <1>3. QED
    BY <1>1, <1>2

(***************************************************************************)
(* Every step keeps the types; that a request installs a handle of its kind *)
(* is why the whole invariant is needed.                                   *)
(***************************************************************************)
LEMMA TypeStep == IInv /\ [Next]_vars => TypeOK'
  <1> SUFFICES ASSUME IInv, [Next]_vars PROVE TypeOK'
    OBVIOUS
  <1> USE BoundsAssumption DEF IInv, slots, tasks, tallies, counts, Monitors, Dials
  <1>1. ASSUME NEW r \in Requests, AskMonitor(r) PROVE TypeOK'
    BY <1>1
       DEF TypeOK, MonitorInv, LineInv, AskMonitor, Goto, Reasons, WatchStates,
           Messages, Starting, Dialling
  <1>2. ASSUME NEW r \in Requests, StopMonitor(r) PROVE TypeOK'
    BY <1>2
       DEF TypeOK, MonitorInv, LineInv, StopMonitor, SetMonitor, Reasons,
           WatchStates, Messages, Starting, Dialling
  <1>3. ASSUME NEW r \in Requests, AskDial(r) PROVE TypeOK'
    BY <1>3, SMTT(60)
       DEF TypeOK, MonitorInv, LineInv, AskDial, Goto, Reasons, WatchStates,
           Messages, Starting, Dialling
  <1>4. ASSUME NEW r \in Requests, HangUpDial(r) PROVE TypeOK'
    BY <1>4
       DEF TypeOK, MonitorInv, LineInv, HangUpDial, Goto, SetLine, Reasons,
           WatchStates, Messages, Starting, Dialling
  <1>5. ASSUME NEW r \in Requests, Replace(r) PROVE TypeOK'
    <2>1. /\ pc' = [pc EXCEPT ![r] = "install"] /\ monitor' = 0
          /\ dropped' = IF monitor = 0 THEN dropped ELSE [dropped EXCEPT ![monitor] = "replaced"]
          /\ UNCHANGED <<callUp, line, watch, keep, answered, mine, wire, monitors, dials, cut,
                         connected, hungUp>>
      BY <1>5 DEF Replace, Goto, SetMonitor
    <2>2. monitor' \in 0..MaxMonitors /\ dropped' \in [Monitors -> Reasons]
      BY <2>1 DEF TypeOK, Reasons
    <2>3. QED
      BY <2>1, <2>2 DEF TypeOK
  <1>6. ASSUME NEW r \in Requests, Install(r) PROVE TypeOK'
    BY <1>6
       DEF TypeOK, MonitorInv, LineInv, Install, Goto, SetMonitor, Reasons,
           WatchStates, Messages, Starting, Dialling
  <1>7. ASSUME NEW r \in Requests, Spawn(r) PROVE TypeOK'
    BY <1>7
       DEF TypeOK, MonitorInv, LineInv, Spawn, Return, Reasons, WatchStates,
           Messages, Starting, Dialling
  <1>8. ASSUME NEW r \in Requests, NotFound(r) PROVE TypeOK'
    BY <1>8
       DEF TypeOK, MonitorInv, LineInv, NotFound, Return, Reasons, WatchStates,
           Messages, Starting, Dialling
  <1>9. ASSUME NEW r \in Requests, CheckLines(r) PROVE TypeOK'
    <2>1. CASE monitor = 0 /\ line = 0
      <3>1. /\ pc' = [pc EXCEPT ![r] = "look"]
            /\ UNCHANGED <<callUp, slots, tasks, tallies, counts, mine, wire>>
        BY <1>9, <2>1 DEF CheckLines, Goto
      <3>2. QED
        BY <3>1 DEF TypeOK
    <2>2. CASE ~(monitor = 0 /\ line = 0)
      <3>1. /\ Return(r)
            /\ UNCHANGED <<callUp, slots, tasks, tallies, counts, wire>>
        BY <1>9, <2>2 DEF CheckLines
      <3>2. QED
        BY <3>1
           DEF TypeOK, MonitorInv, LineInv, CheckLines, Goto, Return, Reasons,
               WatchStates, Messages, Starting, Dialling
    <2>3. QED
      BY <2>1, <2>2
  <1>10. ASSUME NEW r \in Requests, Dial(r) PROVE TypeOK'
    BY <1>10
       DEF TypeOK, MonitorInv, LineInv, Dial, Goto, SetLine, Reasons, WatchStates,
           Messages, Starting, Dialling
  <1>11. ASSUME NEW r \in Requests, SpawnKeep(r) PROVE TypeOK'
    BY <1>11
       DEF TypeOK, MonitorInv, LineInv, SpawnKeep, Return, Reasons, WatchStates,
           Messages, Starting, Dialling
  <1>12. ASSUME NEW r \in Requests, ReportHangUp(r) PROVE TypeOK'
    <2>1. hungUp' \in [Dials -> Nat]
      BY <1>12, CountOneMore DEF ReportHangUp, TypeOK
    <2>2. QED
      BY <1>12, <2>1 DEF TypeOK, ReportHangUp, Return
  <1>13. ASSUME NEW m \in Monitors, WatchEnds(m) PROVE TypeOK'
    BY <1>13
       DEF TypeOK, MonitorInv, LineInv, WatchEnds, Reasons, WatchStates, Messages,
           Starting, Dialling
  <1>14. ASSUME NEW m \in Monitors, CleanUp(m) PROVE TypeOK'
    BY <1>14
       DEF TypeOK, MonitorInv, LineInv, CleanUp, SetMonitor, Reasons, WatchStates,
           Messages, Starting, Dialling
  <1>15. ASSUME NEW m \in Monitors, ReportStop(m) PROVE TypeOK'
    BY <1>15
       DEF TypeOK, MonitorInv, LineInv, ReportStop, Reasons, WatchStates, Messages,
           Starting, Dialling
  <1>16. ASSUME NEW m \in Monitors, WatchFails(m) PROVE TypeOK'
    BY <1>16
       DEF TypeOK, MonitorInv, LineInv, WatchFails, Reasons, WatchStates, Messages,
           Starting, Dialling
  <1>17. ASSUME NEW d \in Dials, KeepEnds(d) PROVE TypeOK'
    BY <1>17
       DEF TypeOK, MonitorInv, LineInv, KeepEnds, Reasons, WatchStates, Messages,
           Starting, Dialling
  <1>18. ASSUME NEW msg \in Messages, WireMessage(msg) PROVE TypeOK'
    BY <1>18
       DEF TypeOK, MonitorInv, LineInv, WireMessage, Reasons, WatchStates, Messages,
           Starting, Dialling
  <1>19. CASE WireMonitor
    <2>1. wire' \in WireType
      BY <1>19, WireTyped DEF WireMonitor, WireDone
    <2>2. monitor' \in 0..MaxMonitors /\ dropped' \in [Monitors -> Reasons]
      BY <1>19 DEF WireMonitor, SetMonitor, TypeOK, Reasons
    <2>3. UNCHANGED <<callUp, line, watch, keep, answered, pc, mine, monitors, dials, cut,
                     connected, hungUp>>
      BY <1>19 DEF WireMonitor, SetMonitor
    <2>4. QED
      BY <2>1, <2>2, <2>3 DEF TypeOK, WireType
  <1>20. CASE WireLine
    BY <1>20
       DEF TypeOK, MonitorInv, LineInv, WireLine, WireTo, Reasons, WatchStates,
           Messages, Starting, Dialling
  <1>21. CASE WireAnswered
    <2>1. wire' \in WireType
      BY <1>21, WireTyped DEF WireAnswered, WireDone
    <2>2. /\ answered' \in [Dials -> BOOLEAN]
          /\ connected' \in [Dials -> Nat] /\ hungUp' \in [Dials -> Nat]
      <3>1. CASE line # 0 /\ ~answered[line]
        <4>1. /\ answered' = [answered EXCEPT ![line] = TRUE]
              /\ connected' = [connected EXCEPT ![line] = @ + 1]
              /\ hungUp' = hungUp
          BY <1>21, <3>1 DEF WireAnswered
        <4>2. connected' \in [Dials -> Nat]
          BY <4>1, CountOneMore DEF TypeOK
        <4>3. QED
          BY <4>1, <4>2 DEF TypeOK
      <3>2. CASE ~(line # 0 /\ ~answered[line])
        BY <1>21, <3>2 DEF WireAnswered, TypeOK
      <3>3. QED
        BY <3>1, <3>2
    <2>3. UNCHANGED <<callUp, monitor, line, watch, keep, pc, mine, monitors, dials,
                     dropped, cut>>
      BY <1>21 DEF WireAnswered
    <2>4. QED
      BY <2>1, <2>2, <2>3 DEF TypeOK, WireType
  <1>22. CASE WireHungUp
    <2>1. wire' \in WireType
      BY <1>22, WireTyped DEF WireHungUp, WireDone, TypeOK, WireType
    <2>2. line' \in 0..MaxDials /\ cut' \subseteq Dials
      BY <1>22 DEF WireHungUp, SetLine, TypeOK
    <2>3. UNCHANGED <<callUp, monitor, watch, keep, answered, pc, mine, monitors, dials,
                     dropped, connected, hungUp>>
      BY <1>22 DEF WireHungUp, SetLine
    <2>4. QED
      BY <2>1, <2>2, <2>3 DEF TypeOK, WireType
  <1>23. CASE WireReport
    <2>1. wire' \in WireType
      BY <1>23, WireTyped DEF WireReport, WireDone
    <2>2. wire.handle \in Nat
      BY DEF TypeOK
    <2>3. hungUp' \in [Dials -> Nat]
      BY <1>23, <2>2, CountOneMore DEF WireReport, TypeOK
    <2>4. UNCHANGED <<callUp, monitor, line, watch, keep, answered, pc, mine, monitors, dials,
                     dropped, cut, connected>>
      BY <1>23 DEF WireReport
    <2>5. QED
      BY <2>1, <2>2, <2>3, <2>4 DEF TypeOK, WireType
  <1>24. CASE WireSwallow
    BY <1>24
       DEF TypeOK, MonitorInv, LineInv, WireSwallow, WireDone, Listening, Reasons,
           WatchStates, Messages, Starting, Dialling
  <1>25. CASE WireCall
    <2>1. wire' \in WireType
      BY <1>25, WireTyped DEF WireCall, WireDone
    <2>2. callUp' \in BOOLEAN
      BY <1>25 DEF WireCall, TypeOK
    <2>3. UNCHANGED <<monitor, line, watch, keep, answered, pc, mine, monitors, dials,
                     dropped, cut, connected, hungUp>>
      BY <1>25 DEF WireCall
    <2>4. QED
      BY <2>1, <2>2, <2>3 DEF TypeOK, WireType
  <1>26. CASE EndCall
    BY <1>26
       DEF TypeOK, MonitorInv, LineInv, EndCall, Reasons, WatchStates, Messages,
           Starting, Dialling
  <1>27. CASE UNCHANGED vars
    BY <1>27
       DEF TypeOK, MonitorInv, LineInv, vars, Reasons, WatchStates, Messages,
           Starting, Dialling
  <1>28. QED
    BY <1>1, <1>2, <1>3, <1>4, <1>5, <1>6, <1>7, <1>8, <1>9, <1>10, <1>11, <1>12,
       <1>13, <1>14, <1>15, <1>16, <1>17, <1>18, <1>19, <1>20, <1>21, <1>22, <1>23,
       <1>24, <1>25, <1>26, <1>27
       DEF Next, RequestStep, RequestGoesOn, WatchGoesOn, WireGoesOn

(***************************************************************************)
(* No step brings a dead task's handle into the monitor's slot             *)
(* (start_monitor_now).                                                    *)
(***************************************************************************)
LEMMA MonitorStep == IInv /\ [Next]_vars => MonitorInv'
  <1> SUFFICES ASSUME IInv, [Next]_vars PROVE MonitorInv'
    OBVIOUS
  <1> USE BoundsAssumption DEF IInv, slots, tasks, tallies, counts, Monitors, Dials
  <1>1. ASSUME NEW r \in Requests, AskMonitor(r) PROVE MonitorInv'
    BY <1>1 DEF MonitorInv, TypeOK, AskMonitor, Goto, Starting, WatchStates
  <1>2. ASSUME NEW r \in Requests, StopMonitor(r) PROVE MonitorInv'
    BY <1>2 DEF MonitorInv, TypeOK, StopMonitor, SetMonitor, Starting, WatchStates
  <1>3. ASSUME NEW r \in Requests, AskDial(r) PROVE MonitorInv'
    BY <1>3 DEF MonitorInv, TypeOK, AskDial, Goto, Starting, WatchStates
  <1>4. ASSUME NEW r \in Requests, HangUpDial(r) PROVE MonitorInv'
    BY <1>4 DEF MonitorInv, TypeOK, HangUpDial, Goto, SetLine, Starting, WatchStates
  <1>5. ASSUME NEW r \in Requests, Replace(r) PROVE MonitorInv'
    BY <1>5 DEF MonitorInv, TypeOK, Replace, Goto, SetMonitor, Starting, WatchStates
  <1>6. ASSUME NEW r \in Requests, Install(r) PROVE MonitorInv'
    BY <1>6 DEF MonitorInv, TypeOK, Install, Goto, SetMonitor, Starting, WatchStates
  <1>7. ASSUME NEW r \in Requests, Spawn(r) PROVE MonitorInv'
    BY <1>7 DEF MonitorInv, TypeOK, Spawn, Return, Starting, WatchStates
  <1>8. ASSUME NEW r \in Requests, NotFound(r) PROVE MonitorInv'
    BY <1>8 DEF MonitorInv, TypeOK, NotFound, Return, Starting, WatchStates
  <1>9. ASSUME NEW r \in Requests, CheckLines(r) PROVE MonitorInv'
    <2>1. CASE monitor = 0 /\ line = 0
      BY <1>9, <2>1, SMTT(60)
         DEF MonitorInv, TypeOK, CheckLines, Goto, Return, Starting, WatchStates
    <2>2. CASE ~(monitor = 0 /\ line = 0)
      <3>1. /\ Return(r)
            /\ UNCHANGED <<callUp, slots, tasks, tallies, counts, wire>>
        BY <1>9, <2>2 DEF CheckLines
      <3>2. QED
        BY <3>1 DEF MonitorInv, TypeOK, CheckLines, Goto, Return, Starting, WatchStates
    <2>3. QED
      BY <2>1, <2>2
  <1>10. ASSUME NEW r \in Requests, Dial(r) PROVE MonitorInv'
    BY <1>10 DEF MonitorInv, TypeOK, Dial, Goto, SetLine, Starting, WatchStates
  <1>11. ASSUME NEW r \in Requests, SpawnKeep(r) PROVE MonitorInv'
    BY <1>11 DEF MonitorInv, TypeOK, SpawnKeep, Return, Starting, WatchStates
  <1>12. ASSUME NEW r \in Requests, ReportHangUp(r) PROVE MonitorInv'
    BY <1>12 DEF MonitorInv, TypeOK, ReportHangUp, Return, Starting, WatchStates
  <1>13. ASSUME NEW m \in Monitors, WatchEnds(m) PROVE MonitorInv'
    BY <1>13 DEF MonitorInv, TypeOK, WatchEnds, Starting, WatchStates
  <1>14. ASSUME NEW m \in Monitors, CleanUp(m) PROVE MonitorInv'
    BY <1>14 DEF MonitorInv, TypeOK, CleanUp, SetMonitor, Starting, WatchStates
  <1>15. ASSUME NEW m \in Monitors, ReportStop(m) PROVE MonitorInv'
    BY <1>15 DEF MonitorInv, TypeOK, ReportStop, Starting, WatchStates
  <1>16. ASSUME NEW m \in Monitors, WatchFails(m) PROVE MonitorInv'
    BY <1>16 DEF MonitorInv, TypeOK, WatchFails, Starting, WatchStates
  <1>17. ASSUME NEW d \in Dials, KeepEnds(d) PROVE MonitorInv'
    BY <1>17 DEF MonitorInv, TypeOK, KeepEnds, Starting, WatchStates
  <1>18. ASSUME NEW msg \in Messages, WireMessage(msg) PROVE MonitorInv'
    BY <1>18 DEF MonitorInv, TypeOK, WireMessage, Starting, WatchStates
  <1>19. CASE WireMonitor
    BY <1>19
       DEF MonitorInv, TypeOK, WireMonitor, SetMonitor, WireDone, Listening,
           Starting, WatchStates
  <1>20. CASE WireLine
    BY <1>20 DEF MonitorInv, TypeOK, WireLine, WireTo, Starting, WatchStates
  <1>21. CASE WireAnswered
    BY <1>21
       DEF MonitorInv, TypeOK, WireAnswered, WireDone, Listening, Starting,
           WatchStates
  <1>22. CASE WireHungUp
    BY <1>22
       DEF MonitorInv, TypeOK, WireHungUp, WireDone, Listening, SetLine, Starting,
           WatchStates
  <1>23. CASE WireReport
    BY <1>23
       DEF MonitorInv, TypeOK, WireReport, WireDone, Listening, Starting,
           WatchStates
  <1>24. CASE WireSwallow
    BY <1>24
       DEF MonitorInv, TypeOK, WireSwallow, WireDone, Listening, Starting,
           WatchStates
  <1>25. CASE WireCall
    BY <1>25
       DEF MonitorInv, TypeOK, WireCall, WireDone, Listening, Starting, WatchStates
  <1>26. CASE EndCall
    BY <1>26 DEF MonitorInv, TypeOK, EndCall, Starting, WatchStates
  <1>27. CASE UNCHANGED vars
    BY <1>27 DEF MonitorInv, TypeOK, vars, Starting, WatchStates
  <1>28. QED
    BY <1>1, <1>2, <1>3, <1>4, <1>5, <1>6, <1>7, <1>8, <1>9, <1>10, <1>11, <1>12,
       <1>13, <1>14, <1>15, <1>16, <1>17, <1>18, <1>19, <1>20, <1>21, <1>22, <1>23,
       <1>24, <1>25, <1>26, <1>27
       DEF Next, RequestStep, RequestGoesOn, WatchGoesOn, WireGoesOn

(***************************************************************************)
(* No step brings a cut call's handle into the line (dial_now,             *)
(* hangup_call_now).                                                       *)
(***************************************************************************)
LEMMA LineStep == IInv /\ [Next]_vars => LineInv'
  <1> SUFFICES ASSUME IInv, [Next]_vars PROVE LineInv'
    OBVIOUS
  <1> USE BoundsAssumption DEF IInv, slots, tasks, tallies, counts, Monitors, Dials
  <1>1. ASSUME NEW r \in Requests, AskMonitor(r) PROVE LineInv'
    BY <1>1 DEF LineInv, TypeOK, AskMonitor, Goto, Dialling
  <1>2. ASSUME NEW r \in Requests, StopMonitor(r) PROVE LineInv'
    BY <1>2 DEF LineInv, TypeOK, StopMonitor, SetMonitor, Dialling
  <1>3. ASSUME NEW r \in Requests, AskDial(r) PROVE LineInv'
    BY <1>3, SMTT(60) DEF LineInv, TypeOK, AskDial, Goto, Dialling
  <1>4. ASSUME NEW r \in Requests, HangUpDial(r) PROVE LineInv'
    BY <1>4 DEF LineInv, TypeOK, HangUpDial, Goto, SetLine, Dialling
  <1>5. ASSUME NEW r \in Requests, Replace(r) PROVE LineInv'
    <2>1. /\ pc' = [pc EXCEPT ![r] = "install"] /\ UNCHANGED <<line, dials, keep, cut, mine>>
      BY <1>5 DEF Replace, Goto, SetMonitor
    <2>2. QED
      BY <2>1 DEF LineInv, TypeOK, Dialling
  <1>6. ASSUME NEW r \in Requests, Install(r) PROVE LineInv'
    BY <1>6 DEF LineInv, TypeOK, Install, Goto, SetMonitor, Dialling
  <1>7. ASSUME NEW r \in Requests, Spawn(r) PROVE LineInv'
    BY <1>7 DEF LineInv, TypeOK, Spawn, Return, Dialling
  <1>8. ASSUME NEW r \in Requests, NotFound(r) PROVE LineInv'
    BY <1>8 DEF LineInv, TypeOK, NotFound, Return, Dialling
  <1>9. ASSUME NEW r \in Requests, CheckLines(r) PROVE LineInv'
    <2>1. CASE monitor = 0 /\ line = 0
      BY <1>9, <2>1, SMTT(60) DEF LineInv, TypeOK, CheckLines, Goto, Return, Dialling
    <2>2. CASE ~(monitor = 0 /\ line = 0)
      <3>1. /\ Return(r)
            /\ UNCHANGED <<callUp, slots, tasks, tallies, counts, wire>>
        BY <1>9, <2>2 DEF CheckLines
      <3>2. QED
        BY <3>1 DEF LineInv, TypeOK, CheckLines, Goto, Return, Dialling
    <2>3. QED
      BY <2>1, <2>2
  <1>10. ASSUME NEW r \in Requests, Dial(r) PROVE LineInv'
    BY <1>10 DEF LineInv, TypeOK, Dial, Goto, SetLine, Dialling
  <1>11. ASSUME NEW r \in Requests, SpawnKeep(r) PROVE LineInv'
    BY <1>11 DEF LineInv, TypeOK, SpawnKeep, Return, Dialling
  <1>12. ASSUME NEW r \in Requests, ReportHangUp(r) PROVE LineInv'
    BY <1>12 DEF LineInv, TypeOK, ReportHangUp, Return, Dialling
  <1>13. ASSUME NEW m \in Monitors, WatchEnds(m) PROVE LineInv'
    BY <1>13 DEF LineInv, TypeOK, WatchEnds, Dialling
  <1>14. ASSUME NEW m \in Monitors, CleanUp(m) PROVE LineInv'
    BY <1>14 DEF LineInv, TypeOK, CleanUp, SetMonitor, Dialling
  <1>15. ASSUME NEW m \in Monitors, ReportStop(m) PROVE LineInv'
    BY <1>15 DEF LineInv, TypeOK, ReportStop, Dialling
  <1>16. ASSUME NEW m \in Monitors, WatchFails(m) PROVE LineInv'
    BY <1>16 DEF LineInv, TypeOK, WatchFails, Dialling
  <1>17. ASSUME NEW d \in Dials, KeepEnds(d) PROVE LineInv'
    BY <1>17 DEF LineInv, TypeOK, KeepEnds, Dialling
  <1>18. ASSUME NEW msg \in Messages, WireMessage(msg) PROVE LineInv'
    BY <1>18 DEF LineInv, TypeOK, WireMessage, Dialling
  <1>19. CASE WireMonitor
    <2>1. UNCHANGED <<line, dials, keep, cut, pc, mine>>
      BY <1>19 DEF WireMonitor, SetMonitor
    <2>2. QED
      BY <2>1 DEF LineInv
  <1>20. CASE WireLine
    BY <1>20 DEF LineInv, TypeOK, WireLine, WireTo, Dialling
  <1>21. CASE WireAnswered
    BY <1>21 DEF LineInv, TypeOK, WireAnswered, WireDone, Listening, Dialling
  <1>22. CASE WireHungUp
    BY <1>22 DEF LineInv, TypeOK, WireHungUp, WireDone, Listening, SetLine, Dialling
  <1>23. CASE WireReport
    BY <1>23 DEF LineInv, TypeOK, WireReport, WireDone, Listening, Dialling
  <1>24. CASE WireSwallow
    BY <1>24 DEF LineInv, TypeOK, WireSwallow, WireDone, Listening, Dialling
  <1>25. CASE WireCall
    BY <1>25 DEF LineInv, TypeOK, WireCall, WireDone, Listening, Dialling
  <1>26. CASE EndCall
    BY <1>26 DEF LineInv, TypeOK, EndCall, Dialling
  <1>27. CASE UNCHANGED vars
    BY <1>27 DEF LineInv, TypeOK, vars, Dialling
  <1>28. QED
    BY <1>1, <1>2, <1>3, <1>4, <1>5, <1>6, <1>7, <1>8, <1>9, <1>10, <1>11, <1>12,
       <1>13, <1>14, <1>15, <1>16, <1>17, <1>18, <1>19, <1>20, <1>21, <1>22, <1>23,
       <1>24, <1>25, <1>26, <1>27
       DEF Next, RequestStep, RequestGoesOn, WatchGoesOn, WireGoesOn

(***************************************************************************)
(* No step lets two report the end of one call (hangup_call_now).          *)
(***************************************************************************)
LEMMA ReportStep == IInv /\ [Next]_vars => ReportInv'
  <1> SUFFICES ASSUME IInv, [Next]_vars PROVE ReportInv'
    OBVIOUS
  <1> USE BoundsAssumption DEF IInv, slots, tasks, tallies, counts, Monitors, Dials
  <1>1. ASSUME NEW r \in Requests, AskMonitor(r) PROVE ReportInv'
    <2>1. /\ pc[r] = "idle" /\ pc' = [pc EXCEPT ![r] = "find"]
          /\ mine' = [mine EXCEPT ![r] = monitors']
          /\ UNCHANGED <<answered, connected, hungUp, cut, wire>>
      BY <1>1 DEF AskMonitor, Goto
    <2>2. QED
      BY <2>1 DEF ReportInv, TypeOK
  <1>2. ASSUME NEW r \in Requests, StopMonitor(r) PROVE ReportInv'
    BY <1>2 DEF ReportInv, TypeOK, LineInv, StopMonitor, SetMonitor
  <1>3. ASSUME NEW r \in Requests, AskDial(r) PROVE ReportInv'
    BY <1>3 DEF ReportInv, TypeOK, LineInv, AskDial, Goto
  <1>4. ASSUME NEW r \in Requests, HangUpDial(r) PROVE ReportInv'
    BY <1>4 DEF ReportInv, TypeOK, LineInv, HangUpDial, Goto, SetLine
  <1>5. ASSUME NEW r \in Requests, Replace(r) PROVE ReportInv'
    <2>1. /\ pc' = [pc EXCEPT ![r] = "install"]
          /\ UNCHANGED <<answered, connected, hungUp, cut, mine, wire>>
      BY <1>5 DEF Replace, Goto, SetMonitor
    <2>2. QED
      BY <2>1 DEF ReportInv, TypeOK
  <1>6. ASSUME NEW r \in Requests, Install(r) PROVE ReportInv'
    BY <1>6 DEF ReportInv, TypeOK, LineInv, Install, Goto, SetMonitor
  <1>7. ASSUME NEW r \in Requests, Spawn(r) PROVE ReportInv'
    BY <1>7 DEF ReportInv, TypeOK, LineInv, Spawn, Return
  <1>8. ASSUME NEW r \in Requests, NotFound(r) PROVE ReportInv'
    BY <1>8 DEF ReportInv, TypeOK, LineInv, NotFound, Return
  <1>9. ASSUME NEW r \in Requests, CheckLines(r) PROVE ReportInv'
    <2>1. CASE monitor = 0 /\ line = 0
      BY <1>9, <2>1 DEF ReportInv, TypeOK, LineInv, CheckLines, Goto, Return
    <2>2. CASE ~(monitor = 0 /\ line = 0)
      <3>1. /\ Return(r)
            /\ UNCHANGED <<callUp, slots, tasks, tallies, counts, wire>>
        BY <1>9, <2>2 DEF CheckLines
      <3>2. QED
        BY <3>1 DEF ReportInv, TypeOK, LineInv, CheckLines, Goto, Return
    <2>3. QED
      BY <2>1, <2>2
  <1>10. ASSUME NEW r \in Requests, Dial(r) PROVE ReportInv'
    BY <1>10 DEF ReportInv, TypeOK, LineInv, Dial, Goto, SetLine
  <1>11. ASSUME NEW r \in Requests, SpawnKeep(r) PROVE ReportInv'
    BY <1>11 DEF ReportInv, TypeOK, LineInv, SpawnKeep, Return
  <1>12. ASSUME NEW r \in Requests, ReportHangUp(r) PROVE ReportInv'
    BY <1>12 DEF ReportInv, TypeOK, LineInv, ReportHangUp, Return
  <1>13. ASSUME NEW m \in Monitors, WatchEnds(m) PROVE ReportInv'
    BY <1>13 DEF ReportInv, TypeOK, LineInv, WatchEnds
  <1>14. ASSUME NEW m \in Monitors, CleanUp(m) PROVE ReportInv'
    BY <1>14 DEF ReportInv, TypeOK, LineInv, CleanUp, SetMonitor
  <1>15. ASSUME NEW m \in Monitors, ReportStop(m) PROVE ReportInv'
    BY <1>15 DEF ReportInv, TypeOK, LineInv, ReportStop
  <1>16. ASSUME NEW m \in Monitors, WatchFails(m) PROVE ReportInv'
    BY <1>16 DEF ReportInv, TypeOK, LineInv, WatchFails
  <1>17. ASSUME NEW d \in Dials, KeepEnds(d) PROVE ReportInv'
    BY <1>17 DEF ReportInv, TypeOK, LineInv, KeepEnds
  <1>18. ASSUME NEW msg \in Messages, WireMessage(msg) PROVE ReportInv'
    BY <1>18 DEF ReportInv, TypeOK, LineInv, WireMessage
  <1>19. CASE WireMonitor
    BY <1>19
       DEF ReportInv, TypeOK, LineInv, WireMonitor, SetMonitor, WireDone, Listening
  <1>20. CASE WireLine
    BY <1>20 DEF ReportInv, TypeOK, LineInv, WireLine, WireTo
  <1>21. CASE WireAnswered
    <2>1. CASE line # 0 /\ ~answered[line]
      BY <1>21, <2>1 DEF ReportInv, TypeOK, LineInv, WireAnswered, WireDone, Listening
    <2>2. CASE ~(line # 0 /\ ~answered[line])
      <3>1. /\ UNCHANGED <<answered, connected, hungUp, cut, pc, mine>>
            /\ wire'.pc = "recv"
        BY <1>21, <2>2, WireTyped DEF WireAnswered, WireDone
      <3>2. QED
        BY <3>1 DEF ReportInv
    <2>3. QED
      BY <2>1, <2>2
  <1>22. CASE WireHungUp
    <2>1. CASE line # 0
      <3>1. wire'.pc = "hungup" /\ wire'.handle = line
        BY <1>22, <2>1 DEF WireHungUp, TypeOK
      <3>2. /\ line' = 0 /\ cut' = cut \cup {line}
            /\ UNCHANGED <<answered, connected, hungUp, pc, mine>>
        BY <1>22, <2>1 DEF WireHungUp, SetLine
      <3>3. line \in Dials /\ line \notin cut /\ hungUp[line] = 0
        BY <2>1 DEF TypeOK, LineInv, ReportInv
      <3>4. QED
        BY <3>1, <3>2, <3>3 DEF ReportInv, TypeOK
    <2>2. CASE ~(line # 0)
      BY <1>22, <2>2
         DEF ReportInv, TypeOK, LineInv, WireHungUp, WireDone, Listening, SetLine
    <2>3. QED
      BY <2>1, <2>2
  <1>23. CASE WireReport
    BY <1>23 DEF ReportInv, TypeOK, LineInv, WireReport, WireDone, Listening
  <1>24. CASE WireSwallow
    BY <1>24 DEF ReportInv, TypeOK, LineInv, WireSwallow, WireDone, Listening
  <1>25. CASE WireCall
    BY <1>25 DEF ReportInv, TypeOK, LineInv, WireCall, WireDone, Listening
  <1>26. CASE EndCall
    BY <1>26 DEF ReportInv, TypeOK, LineInv, EndCall
  <1>27. CASE UNCHANGED vars
    BY <1>27 DEF ReportInv, TypeOK, LineInv, vars
  <1>28. QED
    BY <1>1, <1>2, <1>3, <1>4, <1>5, <1>6, <1>7, <1>8, <1>9, <1>10, <1>11, <1>12,
       <1>13, <1>14, <1>15, <1>16, <1>17, <1>18, <1>19, <1>20, <1>21, <1>22, <1>23,
       <1>24, <1>25, <1>26, <1>27
       DEF Next, RequestStep, RequestGoesOn, WatchGoesOn, WireGoesOn

(***************************************************************************)
(* The invariant holds initially and is kept.                              *)
(***************************************************************************)
LEMMA Invariant == Spec => []IInv
  <1>1. Init => IInv
    <2> SUFFICES ASSUME Init PROVE IInv
      OBVIOUS
    <2>1. TypeOK
      <3>1. wire \in WireType
        BY WireTyped DEF Init
      <3>2. /\ monitor \in 0..MaxMonitors /\ line \in 0..MaxDials
            /\ monitors \in 0..MaxMonitors /\ dials \in 0..MaxDials
            /\ cut \subseteq Dials
        BY BoundsAssumption DEF Init
      <3>3. /\ callUp \in BOOLEAN
            /\ watch \in [Monitors -> WatchStates]
            /\ keep \in [Dials -> {"none", "running", "over"}]
            /\ answered \in [Dials -> BOOLEAN]
            /\ mine \in [Requests -> Nat]
            /\ dropped \in [Monitors -> Reasons]
            /\ connected \in [Dials -> Nat] /\ hungUp \in [Dials -> Nat]
        BY DEF Init, WatchStates, Reasons
      <3>4. pc \in [Requests -> {"idle", "find", "install", "spawn", "lines", "look",
                                "dialling", "hungup"}]
        BY DEF Init
      <3>5. QED
        BY <3>1, <3>2, <3>3, <3>4 DEF TypeOK, WireType
    <2>2. MonitorInv /\ LineInv /\ ReportInv
      BY BoundsAssumption, WireTyped
         DEF Init, MonitorInv, LineInv, ReportInv, Starting, Dialling, Monitors, Dials
    <2>3. QED
      BY <2>1, <2>2 DEF IInv
  <1>2. IInv /\ [Next]_vars => IInv'
    BY TypeStep, MonitorStep, LineStep, ReportStep DEF IInv
  <1>3. QED
    BY <1>1, <1>2, PTL DEF Spec

(***************************************************************************)
(* Type correctness of every reachable state of the outbound sessions.     *)
(***************************************************************************)
THEOREM TypeCorrect == Spec => []TypeOK
  <1>1. IInv => TypeOK
    BY DEF IInv
  <1>2. QED
    BY <1>1, Invariant, PTL

(***************************************************************************)
(* No slot keeps the handle of a session nobody runs any more, for any number *)
(* of clients (the cleanups of start_monitor_now, hangup_call_now).        *)
(***************************************************************************)
THEOREM NoZombies == Spec => []NoZombieSession
  <1>1. IInv => NoZombieSession
    BY DEF IInv, MonitorInv, LineInv, NoZombieSession
  <1>2. QED
    BY <1>1, Invariant, PTL

(***************************************************************************)
(* Every dialled call is reported connected and hung up at most once, for any *)
(* number of clients that hang up (on_wire, hangup_call_now).              *)
(***************************************************************************)
THEOREM ReportsOnce == Spec => []ReportedOnce
  <1>1. IInv => ReportedOnce
    BY DEF IInv, ReportInv, ReportedOnce
  <1>2. QED
    BY <1>1, Invariant, PTL

--------------------------------------------------------------------------------
(***************************************************************************)
(* Who loses the report of a call.                                         *)
(***************************************************************************)

\* A dial finds a call on the line that began while it looked its callee up.
Overwrites == line # 0 /\ \E r \in Requests : Dial(r)

\* The three ways in which a call that was cut is accounted for.
Accounted(d) ==
    \/ hungUp[d] > 0
    \/ wire.pc = "hungup" /\ wire.handle = d
    \/ \E r \in Requests : pc[r] = "hungup" /\ mine[r] = d

(***************************************************************************)
(* Whatever clients and callee do, a call that is accounted for stays so,  *)
(* until its report is pushed and after (hangup_call_now).                 *)
(***************************************************************************)
LEMMA StaysAccounted ==
    ASSUME IInv, [Next]_vars, NEW d \in cut, Accounted(d)
    PROVE  Accounted(d)'
  <1> USE DEF slots, tasks, tallies, counts
  <1>t. /\ pc \in [Requests -> {"idle", "find", "install", "spawn", "lines", "look",
                                "dialling", "hungup"}]
        /\ mine \in [Requests -> Nat] /\ hungUp \in [Dials -> Nat] /\ d \in Dials
        /\ wire \in WireType
    BY DEF IInv, TypeOK, WireType
  <1>n. hungUp[d] \in Nat
    BY <1>t
  \* Nothing that accounts for a call is given up.
  <1>1. ASSUME UNCHANGED hungUp, wire.pc = "hungup" => UNCHANGED wire,
               \A r \in Requests : pc[r] = "hungup" => pc'[r] = "hungup" /\ mine'[r] = mine[r]
        PROVE  Accounted(d)'
    BY <1>1 DEF Accounted
  \* A thread moves that is not about to report.
  <1>2. ASSUME NEW r \in Requests, pc[r] # "hungup", UNCHANGED <<hungUp, wire>>,
               \/ UNCHANGED <<pc, mine>>
               \/ \E q : pc' = [pc EXCEPT ![r] = q]
                         /\ (mine' = mine \/ \E h : mine' = [mine EXCEPT ![r] = h])
        PROVE  Accounted(d)'
    <2>1. \A s \in Requests : pc[s] = "hungup" => pc'[s] = "hungup" /\ mine'[s] = mine[s]
      BY <1>t, <1>2
    <2>2. QED
      BY <1>1, <1>2, <2>1
  <1>3. ASSUME NEW r \in Requests,
               AskMonitor(r) \/ StopMonitor(r) \/ AskDial(r) \/ HangUpDial(r)
        PROVE  Accounted(d)'
    BY <1>2, <1>3 DEF AskMonitor, StopMonitor, AskDial, HangUpDial, Goto
  <1>4. ASSUME NEW r \in Requests,
               \/ Replace(r) \/ Install(r) \/ Spawn(r) \/ NotFound(r)
               \/ CheckLines(r) \/ Dial(r) \/ SpawnKeep(r)
        PROVE  Accounted(d)'
    BY <1>2, <1>4 DEF Replace, Install, Spawn, NotFound, CheckLines, Dial, SpawnKeep,
                      Goto, Return
  <1>5. ASSUME NEW r \in Requests, ReportHangUp(r) PROVE Accounted(d)'
    <2>1. /\ pc' = [pc EXCEPT ![r] = "idle"] /\ mine' = [mine EXCEPT ![r] = 0]
          /\ hungUp' = [hungUp EXCEPT ![mine[r]] = @ + 1] /\ UNCHANGED wire
      BY <1>5 DEF ReportHangUp, Return
    <2>2. CASE mine[r] = d
      <3>1. hungUp'[d] = hungUp[d] + 1
        BY <1>t, <2>1, <2>2
      <3>2. QED
        BY <1>n, <3>1 DEF Accounted
    <2>3. CASE mine[r] # d
      <3>1. hungUp'[d] = hungUp[d]
        BY <1>t, <2>1, <2>3
      <3>2. \A s \in Requests :
              pc[s] = "hungup" /\ mine[s] = d => pc'[s] = "hungup" /\ mine'[s] = d
        BY <1>t, <2>1, <2>3
      <3>3. QED
        BY <2>1, <3>1, <3>2 DEF Accounted
    <2>4. QED
      BY <2>2, <2>3
  <1>6. CASE WireReport
    <2>1. /\ wire.pc = "hungup" /\ UNCHANGED <<pc, mine>>
          /\ hungUp' = [hungUp EXCEPT ![wire.handle] = @ + 1]
      BY <1>6 DEF WireReport
    <2>2. CASE wire.handle = d
      <3>1. hungUp'[d] = hungUp[d] + 1
        BY <1>t, <2>1, <2>2
      <3>2. QED
        BY <1>n, <3>1 DEF Accounted
    <2>3. CASE wire.handle # d
      <3>1. hungUp'[d] = hungUp[d]
        BY <1>t, <2>1, <2>3
      <3>2. QED
        BY <2>1, <2>3, <3>1 DEF Accounted
    <2>4. QED
      BY <2>2, <2>3
  <1>7. CASE \/ \E msg \in Messages : WireMessage(msg)
             \/ WireMonitor \/ WireLine \/ WireAnswered \/ WireHungUp
             \/ WireSwallow \/ WireCall
    <2>1. UNCHANGED <<hungUp, pc, mine>> /\ wire.pc # "hungup"
      BY <1>7 DEF WireMessage, WireMonitor, WireLine, WireAnswered, WireHungUp,
                  WireSwallow, WireCall
    <2>2. QED
      BY <1>1, <2>1
  <1>8. CASE \/ \E m \in Monitors : WatchGoesOn(m) \/ WatchFails(m)
             \/ \E e \in Dials : KeepEnds(e)
             \/ EndCall \/ UNCHANGED vars
    <2>1. UNCHANGED <<hungUp, pc, mine, wire>>
      BY <1>8 DEF WatchGoesOn, WatchEnds, CleanUp, ReportStop, WatchFails, KeepEnds,
                  EndCall, vars
    <2>2. QED
      BY <1>1, <2>1
  <1>9. QED
    BY <1>3, <1>4, <1>5, <1>6, <1>7, <1>8
       DEF Next, RequestStep, RequestGoesOn, WireGoesOn

(***************************************************************************)
(* A call that leaves the line is accounted for by whoever took it, but    *)
(* for a dial that overwrites it (hangup_call_now, dial_now).              *)
(***************************************************************************)
LEMMA CutIsAccounted ==
    ASSUME IInv, [Next]_vars, ~Overwrites, NEW d \in cut', d \notin cut
    PROVE  Accounted(d)'
  <1> USE DEF slots, tasks, tallies, counts
  <1>t. /\ pc \in [Requests -> {"idle", "find", "install", "spawn", "lines", "look",
                                "dialling", "hungup"}]
        /\ mine \in [Requests -> Nat] /\ wire \in WireType
    BY DEF IInv, TypeOK, WireType
  <1>1. ASSUME NEW r \in Requests, HangUpDial(r) PROVE Accounted(d)'
    <2>1. /\ pc' = [pc EXCEPT ![r] = "hungup"] /\ mine' = [mine EXCEPT ![r] = line]
          /\ cut' = cut \cup {line}
      BY <1>1 DEF HangUpDial, Goto, SetLine
    <2>2. pc'[r] = "hungup" /\ mine'[r] = d
      BY <1>t, <2>1
    <2>3. QED
      BY <2>2 DEF Accounted
  <1>2. ASSUME NEW r \in Requests, Dial(r) PROVE FALSE
    <2>1. line = 0
      BY <1>2 DEF Overwrites
    <2>2. cut' = cut
      BY <1>2, <2>1 DEF Dial, SetLine
    <2>3. QED
      BY <2>2
  <1>3. CASE WireHungUp
    <2>1. CASE line # 0
      <3>1. /\ wire' = [wire EXCEPT !.pc = "hungup", !.handle = line]
            /\ cut' = cut \cup {line}
        BY <1>3, <2>1 DEF WireHungUp, SetLine
      <3>2. wire'.pc = "hungup" /\ wire'.handle = d
        BY <1>t, <3>1 DEF WireType
      <3>3. QED
        BY <3>2 DEF Accounted
    <2>2. CASE line = 0
      BY <1>3, <2>2 DEF WireHungUp
    <2>3. QED
      BY <2>1, <2>2
  <1>4. ASSUME NEW r \in Requests,
               \/ AskMonitor(r) \/ StopMonitor(r) \/ AskDial(r)
               \/ Replace(r) \/ Install(r) \/ Spawn(r) \/ NotFound(r)
               \/ CheckLines(r) \/ SpawnKeep(r) \/ ReportHangUp(r)
        PROVE  cut' = cut
    BY <1>4 DEF AskMonitor, StopMonitor, AskDial, Replace, Install, Spawn, NotFound,
                CheckLines, SpawnKeep, ReportHangUp, SetMonitor
  <1>5. ASSUME \/ \E msg \in Messages : WireMessage(msg)
               \/ WireMonitor \/ WireLine \/ WireAnswered \/ WireReport
               \/ WireSwallow \/ WireCall
        PROVE  cut' = cut
    BY <1>5 DEF WireMessage, WireMonitor, WireLine, WireAnswered, WireReport,
                WireSwallow, WireCall, SetMonitor
  <1>6. ASSUME \/ \E m \in Monitors : WatchGoesOn(m) \/ WatchFails(m)
               \/ \E e \in Dials : KeepEnds(e)
               \/ EndCall \/ UNCHANGED vars
        PROVE  cut' = cut
    BY <1>6 DEF WatchGoesOn, WatchEnds, CleanUp, ReportStop, WatchFails, KeepEnds,
                EndCall, SetMonitor, vars
  <1>7. QED
    BY <1>1, <1>2, <1>3, <1>4, <1>5, <1>6
       DEF Next, RequestStep, RequestGoesOn, WireGoesOn

(***************************************************************************)
(* For any number of clients only a dial that overwrites a call loses its  *)
(* report (dial_now fills the slot it checked before it awaited).          *)
(***************************************************************************)
THEOREM OnlyOverwritingLoses ==
    Spec => [][DialsAreHungUp /\ ~Overwrites => DialsAreHungUp']_vars
  <1>1. IInv /\ [Next]_vars => [DialsAreHungUp /\ ~Overwrites => DialsAreHungUp']_vars
    <2> SUFFICES ASSUME IInv, [Next]_vars, DialsAreHungUp, ~Overwrites
                 PROVE  DialsAreHungUp'
      OBVIOUS
    <2>1. \A d \in cut : Accounted(d)
      BY DEF DialsAreHungUp, Accounted
    <2>2. \A d \in cut' : Accounted(d)'
      BY <2>1, StaysAccounted, CutIsAccounted
    <2>3. QED
      BY <2>2 DEF DialsAreHungUp, Accounted
  <1>2. QED
    BY <1>1, Invariant, PTL DEF Spec

\* A callee is looked up only while the line is free, if there is one client.
LookInv == \A r \in Requests : pc[r] = "look" => line = 0

(***************************************************************************)
(* One client at a time looks a callee up only while the line is free, so  *)
(* every call of its own is reported hung up (dial_now, hangup_call_now).  *)
(***************************************************************************)
THEOREM EveryDialIsReported ==
    ASSUME \A r, s \in Requests : r = s
    PROVE  Spec => []DialsAreHungUp
  <1>1. Init => LookInv /\ DialsAreHungUp
    BY DEF Init, LookInv, DialsAreHungUp
  <1>2. IInv /\ LookInv /\ DialsAreHungUp /\ [Next]_vars => LookInv' /\ DialsAreHungUp'
    <2> SUFFICES ASSUME IInv, LookInv, DialsAreHungUp, [Next]_vars
                 PROVE  LookInv' /\ DialsAreHungUp'
      OBVIOUS
    <2> USE DEF slots, tasks, tallies, counts
    <2>t. pc \in [Requests -> {"idle", "find", "install", "spawn", "lines", "look",
                               "dialling", "hungup"}]
      BY DEF IInv, TypeOK
    <2>1. ~Overwrites
      BY DEF Overwrites, LookInv, Dial, Goto
    <2>2. DialsAreHungUp'
      <3>1. \A d \in cut : Accounted(d)
        BY DEF DialsAreHungUp, Accounted
      <3>2. \A d \in cut' : Accounted(d)'
        BY <2>1, <3>1, StaysAccounted, CutIsAccounted
      <3>3. QED
        BY <3>2 DEF DialsAreHungUp, Accounted
    <2>3. LookInv'
      <3>1. ASSUME NEW r \in Requests, RequestStep(r) PROVE LookInv'
        <4>1. CASE CheckLines(r)
          <5>1. pc' = [pc EXCEPT ![r] = "idle"] \/ (line = 0 /\ UNCHANGED line)
            BY <4>1 DEF CheckLines, Goto, Return
          <5>2. CASE pc' = [pc EXCEPT ![r] = "idle"]
            <6>1. \A s \in Requests : pc'[s] = "idle"
              BY <2>t, <5>2
            <6>2. QED
              BY <6>1 DEF LookInv
          <5>3. QED
            BY <5>1, <5>2 DEF LookInv
        <4>2. CASE ~CheckLines(r)
          <5>1. \/ UNCHANGED <<pc, line>>
                \/ \E q : q # "look" /\ pc' = [pc EXCEPT ![r] = q]
            BY <3>1, <4>2
               DEF RequestStep, RequestGoesOn, AskMonitor, StopMonitor, AskDial, HangUpDial,
                   Replace, Install, Spawn, NotFound, Dial, SpawnKeep, ReportHangUp,
                   Goto, Return, SetMonitor
          <5>2. CASE UNCHANGED <<pc, line>>
            BY <5>2 DEF LookInv
          <5>3. CASE \E q : q # "look" /\ pc' = [pc EXCEPT ![r] = q]
            <6>1. \A s \in Requests : pc'[s] # "look"
              BY <2>t, <5>3
            <6>2. QED
              BY <6>1 DEF LookInv
          <5>4. QED
            BY <5>1, <5>2, <5>3
        <4>3. QED
          BY <4>1, <4>2
      <3>2. CASE \/ \E msg \in Messages : WireMessage(msg)
                 \/ WireGoesOn
                 \/ \E m \in Monitors : WatchGoesOn(m) \/ WatchFails(m)
                 \/ \E e \in Dials : KeepEnds(e)
                 \/ EndCall \/ UNCHANGED vars
        <4>1. UNCHANGED pc /\ (line' = line \/ line' = 0)
          <5>1. CASE (\E msg \in Messages : WireMessage(msg)) \/ WireGoesOn
            BY <5>1 DEF WireMessage, WireGoesOn, WireMonitor, WireLine, WireAnswered,
                        WireHungUp, WireReport, WireSwallow, WireCall, SetMonitor, SetLine
          <5>2. CASE \/ \E m \in Monitors : WatchGoesOn(m) \/ WatchFails(m)
                     \/ \E e \in Dials : KeepEnds(e)
                     \/ EndCall \/ UNCHANGED vars
            BY <5>2 DEF WatchGoesOn, WatchEnds, CleanUp, ReportStop, WatchFails, KeepEnds,
                        EndCall, SetMonitor, vars
          <5>3. QED
            BY <3>2, <5>1, <5>2
        <4>2. QED
          BY <4>1 DEF LookInv
      <3>3. QED
        BY <3>1, <3>2 DEF Next
    <2>4. QED
      BY <2>2, <2>3
  <1>3. QED
    BY <1>1, <1>2, Invariant, PTL DEF Spec
================================================================================
