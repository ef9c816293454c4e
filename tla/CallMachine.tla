------------------------------ MODULE CallMachine ------------------------------
(***************************************************************************)
(* The first-answer state machine of src/state.rs, shared by the Agent     *)
(* (agent.rs), the replay Agent (replay_agent.rs) and the software door    *)
(* station (door_station.rs).  A machine is a record; every operator below *)
(* is one method of CallMachine, split into the verdict the method returns *)
(* and the machine it leaves when the verdict is "Ok".                     *)
(*                                                                         *)
(* Time is abstracted to what unlock() tells apart: `cooling` is TRUE when *)
(* last_unlock is set and less than unlock_cooldown ago.  The media and    *)
(* unlock counters are statistics nothing branches on, and are left out.   *)
(***************************************************************************)
EXTENDS Naturals

\* CallPhase; the Ending phase of the code is never assigned by any method.
Phases == {"Idle", "Ringing", "Connected"}
Owners == {"None", "Pad", "Remote"}

Machines == [session : Nat, phase : Phases, owner : Owners, cooling : BOOLEAN]

NewMachine == [session |-> 0, phase |-> "Idle", owner |-> "None", cooling |-> FALSE]

\* start_call resets the whole state, the cooldown included.
StartCall(m, id) ==
    [session |-> id, phase |-> "Ringing", owner |-> "None", cooling |-> FALSE]

PadAnswerVerdict(m) ==
    IF m.phase # "Ringing" \/ m.owner = "Remote" THEN "NotRinging" ELSE "Ok"

PadAnswer(m) == [m EXCEPT !.owner = "Pad", !.phase = "Connected"]

\* Mutant: a client may also answer a call that the Pad has taken.
RemoteTakesOver(m) == IF m.phase = "Idle" THEN "NotRinging" ELSE "Ok"

RemoteAnswerVerdict(m) ==
    IF m.phase # "Ringing" THEN "NotRinging"
    ELSE IF m.owner = "Pad" THEN "PadOwnsCall"
    ELSE "Ok"

RemoteAnswer(m) == [m EXCEPT !.owner = "Remote", !.phase = "Connected"]

\* strict is unlock_requires_answer.
UnlockVerdict(m, strict) ==
    IF strict /\ ~(m.phase = "Connected" /\ m.owner = "Remote") THEN "UnlockNotAllowed"
    ELSE IF m.cooling THEN "UnlockCooldown"
    ELSE "Ok"

Unlock(m) == [m EXCEPT !.cooling = TRUE]

\* The cooldown elapses: now - last_unlock reaches unlock_cooldown.
CooledDown(m) == [m EXCEPT !.cooling = FALSE]

\* hangup() keeps the session id and forgets the last unlock.
Hangup(m) == [m EXCEPT !.phase = "Idle", !.owner = "None", !.cooling = FALSE]

RemoteMediaAllowed(m, id) ==
    m.session = id /\ m.phase = "Connected" /\ m.owner = "Remote"
================================================================================
