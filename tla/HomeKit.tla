-------------------------------- MODULE HomeKit --------------------------------
(***************************************************************************)
(* The HomeKit bridge (hap.rs): a lock, a momentary switch that calls the  *)
(* elevator, and a doorbell.  The HAP library calls nobody when a user     *)
(* writes a characteristic, so two loops poll the accessory every 100 ms   *)
(* and remember what they saw last, and each resets what it has served.    *)
(* The accessory's lock covers one look or one update, never what is       *)
(* between them: a user may write while the Agent is at work.              *)
(*                                                                         *)
(* A command is one step here (AgentCall has its steps): the ids are fresh *)
(* for each, so that the command cache never replays one to this client.   *)
(***************************************************************************)
EXTENDS Calls, CommandCache

CONSTANTS
    RequiresAnswer,  \* security.unlock_requires_answer
    Capacity,        \* results the command cache holds
    MaxTaps          \* bound: writes of the user, to the lock and to the switch

ASSUME HomeKitAssumption ==
    RequiresAnswer \in BOOLEAN /\ Capacity \in Nat \ {0} /\ MaxTaps \in Nat

VARIABLES
    lock,      \* LockCurrentState and LockTargetState
    lockPc,    \* where the lock's loop is,
    lockLast,  \* its `last`
    granted,   \* ... and result.ok of its unlock
    switch,    \* PowerState
    liftPc,    \* the same of the elevator's loop
    liftLast,
    cmdSeq,    \* cmd_seq, which both loops take ids from
    cache      \* the Agent's CommandCache

\* History variables.
VARIABLES
    taps,      \* times the user asked to unlock ...
    flips,     \* ... and to call the elevator
    unlocks,   \* unlock commands issued ...
    lifts,     \* ... and elevator calls
    opened,    \* times an unlock packet left for the door
    shown,     \* times the lock was shown open
    presses    \* presses of the doorbell

loops   == <<lock, lockPc, lockLast, granted, switch, liftPc, liftLast>>
tallies == <<taps, flips, unlocks, lifts, opened, shown, presses>>
homekit == <<loops, cmdSeq, cache, tallies>>

Lock(current, target) == [current |-> current, target |-> target]
States == {"SECURED", "UNSECURED"}

HomeKitTypeOK ==
    /\ lock \in [current : States, target : States]
    /\ lockPc \in {"poll", "claim", "unlock", "show", "relock"}
    /\ lockLast \in States /\ granted \in BOOLEAN
    /\ switch \in BOOLEAN /\ liftLast \in BOOLEAN
    /\ liftPc \in {"poll", "call", "off"}
    /\ cmdSeq \in Nat
    /\ \A i \in CachedIds(cache) : cache.results[i] \in BOOLEAN
    /\ \A n \in {taps, flips, unlocks, lifts, opened, shown, presses} : n \in Nat

HomeKitInit ==
    /\ lock = Lock("SECURED", "SECURED")
    /\ lockPc = "poll" /\ lockLast = "SECURED" /\ granted = FALSE
    /\ switch = FALSE /\ liftPc = "poll" /\ liftLast = FALSE
    /\ cmdSeq = 1 /\ cache = EmptyCache
    /\ taps = 0 /\ flips = 0 /\ unlocks = 0 /\ lifts = 0
    /\ opened = 0 /\ shown = 0 /\ presses = 0

LockGoes(from, to) == lockPc = from /\ lockPc' = to
LiftGoes(from, to) == liftPc = from /\ liftPc' = to

--------------------------------------------------------------------------------
(* The user, in the Home app.                                               *)

UserUnlocks ==
    /\ taps + flips < MaxTaps /\ taps' = taps + 1
    /\ lock' = [lock EXCEPT !.target = "UNSECURED"]
    /\ UNCHANGED <<calls, lockPc, lockLast, granted, switch, liftPc, liftLast,
                   cmdSeq, cache, flips, unlocks, lifts, opened, shown, presses>>

UserLocks ==
    /\ lock.target = "UNSECURED"
    /\ lock' = [lock EXCEPT !.target = "SECURED"]
    /\ UNCHANGED <<calls, lockPc, lockLast, granted, switch, liftPc, liftLast,
                   cmdSeq, cache, tallies>>

UserCallsLift ==
    /\ taps + flips < MaxTaps /\ flips' = flips + 1
    /\ switch' = TRUE
    /\ UNCHANGED <<calls, lock, lockPc, lockLast, granted, liftPc, liftLast,
                   cmdSeq, cache, taps, unlocks, lifts, opened, shown, presses>>

UserLeavesLift ==
    /\ switch /\ switch' = FALSE
    /\ UNCHANGED <<calls, lock, lockPc, lockLast, granted, liftPc, liftLast,
                   cmdSeq, cache, tallies>>

--------------------------------------------------------------------------------
(* The lock's loop.                                                         *)

\* Mutant: every command of a kind has the same id.
NextIdIsFixed(kind) == <<kind, 1>>

NextId(kind) == <<kind, cmdSeq>>

\* execute(), for this client: a result that is cached is replayed; a verdict
\* that is not Ok is stored as it is; otherwise the machine moves, the packet
\* is sent or not, and the result says which.  Without a known door there is
\* nobody to send to.
Execute(kind, verdict, next, event) ==
    LET id == NextId(kind)
    IN  /\ cmdSeq' = cmdSeq + 1
        /\ IF id \in CachedIds(cache)
             THEN /\ granted' = cache.results[id]
                  /\ UNCHANGED <<calls, cache, opened>>
             ELSE /\ \/ /\ verdict = "Ok"
                        /\ machine' = next
                        /\ \/ granted' = TRUE /\ Push(event)
                           \/ granted' = FALSE /\ UNCHANGED <<updates, lagged>>
                     \/ /\ verdict # "Ok" \/ machine.session = 0
                        /\ granted' = FALSE
                        /\ UNCHANGED <<machine, updates, lagged>>
                  /\ cache' = Store(cache, Capacity, id, granted')
                  /\ opened' = IF kind = "unlock" /\ granted' THEN opened + 1 ELSE opened
                  /\ UNCHANGED <<line, dialled>>

PollLock ==
    /\ lockPc = "poll" /\ lock.target # lockLast
    /\ lockLast' = lock.target
    /\ lockPc' = IF lock.target = "UNSECURED" THEN "claim" ELSE "poll"
    /\ UNCHANGED <<calls, lock, granted, switch, liftPc, liftLast, cmdSeq, cache, tallies>>

\* The claim may be refused; the unlock is tried all the same.
ClaimCall ==
    /\ LockGoes("claim", "unlock")
    /\ Execute("claim", RemoteAnswerVerdict(machine), RemoteAnswer(machine), "other")
    /\ UNCHANGED <<lock, lockLast, switch, liftPc, liftLast,
                   taps, flips, unlocks, lifts, shown, presses>>

UnlockDoor ==
    /\ LockGoes("unlock", "show")
    /\ unlocks' = unlocks + 1
    /\ Execute("unlock", UnlockVerdict(machine, RequiresAnswer), Unlock(machine), "other")
    /\ UNCHANGED <<lock, lockLast, switch, liftPc, liftLast, taps, flips, lifts, shown, presses>>

\* set_lock_states(shown, LOCK_UNSECURED), over what the user wrote since.
ShowResult ==
    /\ LockGoes("show", "relock")
    /\ lock' = Lock(IF granted THEN "UNSECURED" ELSE "SECURED", "UNSECURED")
    /\ shown' = IF granted THEN shown + 1 ELSE shown
    /\ UNCHANGED <<calls, lockLast, granted, switch, liftPc, liftLast, cmdSeq, cache,
                   taps, flips, unlocks, lifts, opened, presses>>

\* Mutant: the target stays where the user had put it.
RelockShownOnly ==
    /\ LockGoes("relock", "poll")
    /\ lock' = [lock EXCEPT !.current = "SECURED"]
    /\ lockLast' = "SECURED"
    /\ UNCHANGED <<calls, granted, switch, liftPc, liftLast, cmdSeq, cache, tallies>>

\* Mutant: the loop takes its own reset for something it has seen.
RelockUnseen ==
    /\ LockGoes("relock", "poll")
    /\ lock' = Lock("SECURED", "SECURED")
    /\ UNCHANGED <<calls, lockLast, granted, switch, liftPc, liftLast, cmdSeq, cache, tallies>>

\* After RELOCK_MS, or at once if the door did not open.
Relock ==
    /\ LockGoes("relock", "poll")
    /\ lock' = Lock("SECURED", "SECURED")
    /\ lockLast' = "SECURED"
    /\ UNCHANGED <<calls, granted, switch, liftPc, liftLast, cmdSeq, cache, tallies>>

--------------------------------------------------------------------------------
(* The elevator's loop, and the doorbell's.                                 *)

PollSwitch ==
    /\ liftPc = "poll" /\ switch # liftLast
    /\ IF switch THEN LiftGoes("poll", "call") /\ UNCHANGED liftLast
       ELSE liftLast' = switch /\ UNCHANGED liftPc
    /\ UNCHANGED <<calls, lock, lockPc, lockLast, granted, switch, cmdSeq, cache, tallies>>

\* call_elevator is awaited (Elevator has it), whatever it says.
CallLift ==
    /\ LiftGoes("call", "off")
    /\ cmdSeq' = cmdSeq + 1 /\ lifts' = lifts + 1
    /\ UNCHANGED <<calls, lock, lockPc, lockLast, granted, switch, liftLast, cache,
                   taps, flips, unlocks, opened, shown, presses>>

SwitchOff ==
    /\ LiftGoes("off", "poll")
    /\ switch' = FALSE /\ liftLast' = FALSE
    /\ UNCHANGED <<calls, lock, lockPc, lockLast, granted, cmdSeq, cache, tallies>>

\* recv(): a lag is told first and costs the events it is about; a call's
\* start presses the button.
Receive ==
    /\ \/ lagged /\ lagged' = FALSE /\ UNCHANGED <<updates, presses>>
       \/ /\ ~lagged /\ updates # <<>>
          /\ updates' = Tail(updates)
          /\ presses' = IF Head(updates) = "started" THEN presses + 1 ELSE presses
          /\ UNCHANGED lagged
    /\ UNCHANGED <<machine, line, dialled, loops, cmdSeq, cache,
                   taps, flips, unlocks, lifts, opened, shown>>

LockMoves == PollLock \/ ClaimCall \/ UnlockDoor \/ ShowResult \/ Relock
LiftMoves == PollSwitch \/ CallLift \/ SwitchOff
UserMoves == UserUnlocks \/ UserLocks \/ UserCallsLift \/ UserLeavesLift

HomeKitMoves == UserMoves \/ LockMoves \/ LiftMoves \/ Receive

--------------------------------------------------------------------------------
(***************************************************************************)
(* Nothing happens unasked: no unlock and no call of the elevator that     *)
(* nobody tapped for, though the loops write the very characteristics they *)
(* poll, and no press of the doorbell without a call (set_lock_states,     *)
(* set_switch, last).                                                      *)
(***************************************************************************)
NothingUnasked ==
    unlocks <= taps /\ lifts <= flips /\ presses <= machine.session

(***************************************************************************)
(* The lock is shown open only if the door was opened for this request: a  *)
(* result the cache replays would show an opening that never was           *)
(* (next_id, CommandResult).                                               *)
(***************************************************************************)
ShownWasOpened ==
    shown + (IF lockPc = "show" /\ granted THEN 1 ELSE 0) <= opened

(***************************************************************************)
(* What the user sees comes back to rest, whatever the Agent answered and  *)
(* whenever it was written: the lock is locked again, the switch is off,   *)
(* and the doorbell takes its events, lagged or not (the three loops).     *)
(***************************************************************************)
ComesToRest ==
    /\ (lock # Lock("SECURED", "SECURED")) ~> (lock = Lock("SECURED", "SECURED"))
    /\ switch ~> ~switch
    /\ (lagged \/ updates # <<>>) ~> (updates = <<>> /\ ~lagged)
================================================================================
