------------------------------ MODULE DoorStation ------------------------------
(***************************************************************************)
(* The software door station (door_station.rs): an operator at the console *)
(* rings and hangs up, clients answer, unlock and hang up over HTTP, and a *)
(* media loop plays the saved camera while `streaming` is set.             *)
(*                                                                         *)
(* The call and the flag are two pieces of state without a common lock:    *)
(* ring() starts the call, then announces it, then sets the flag; whoever  *)
(* ends the call clears the flag some steps later.  A loop looks at the    *)
(* flag once a tick only, so that it can miss a call's end and go on with  *)
(* the next call, beside the loop that call has started.                   *)
(***************************************************************************)
EXTENDS SimulatedAgent

VARIABLES
    console,    \* where the console thread is in ring() or hangup_local()
    streaming,  \* the flag
    loops,      \* media loops that run
    speaker     \* "open", or "gone" once a write to it has failed

\* History variables.
VARIABLES
    ostamp,     \* the number of the console's transition
    strayed     \* the flag was last set when there was no call, or cleared
                \* when there was one

station == <<console, streaming, loops, speaker, ostamp, strayed>>

StationTypeOK ==
    /\ console \in {"prompt", "announce", "stream", "stop", "ended", "stopIdle"}
    /\ streaming \in BOOLEAN /\ strayed \in BOOLEAN
    /\ loops \in Nat /\ ostamp \in 0..clock
    /\ speaker \in {"open", "gone"}

StationInit ==
    /\ console = "prompt" /\ streaming = FALSE /\ loops = 0
    /\ speaker = "open"
    /\ ostamp = 0 /\ strayed = FALSE

ConsoleGoto(from, to) == console = from /\ console' = to

\* The flag is written, whatever the call does by now.
SetStreaming(on) ==
    /\ streaming' = on
    /\ strayed' = (on # (machine.phase # "Idle"))

--------------------------------------------------------------------------------
(***************************************************************************)
(* The console (ring, hangup_local).                                       *)
(***************************************************************************)

\* Sessions are the milliseconds of the clock: a new one for every ring.
Ring ==
    /\ ConsoleGoto("prompt", "announce")
    /\ machine.phase = "Idle" /\ machine.session < MaxCalls
    /\ Transition(StartCall(machine, machine.session + 1))
    /\ ostamp' = clock'
    /\ UNCHANGED <<kind, cache, local, requests, feed,
                   streaming, loops, speaker, strayed>>

AnnounceRing ==
    /\ ConsoleGoto("announce", "stream")
    /\ Push("CallStarted", machine.session, ostamp, TRUE)
    /\ ostamp' = 0
    /\ UNCHANGED <<kind, machine, cache, local, requests, clock,
                   streaming, loops, speaker, strayed>>

\* streaming.swap(true): the first to set the flag starts a loop.
StartMedia ==
    /\ ConsoleGoto("stream", "prompt")
    /\ SetStreaming(TRUE)
    /\ loops' = IF streaming THEN loops ELSE loops + 1
    /\ UNCHANGED <<shared, speaker, ostamp>>

\* Mutant: whether there is a call is looked at after it has been ended.
HangUpLocalUnsaid ==
    /\ ConsoleGoto("prompt", "stopIdle")
    /\ Transition(Hangup(machine))
    /\ UNCHANGED <<kind, cache, local, requests, feed,
                   streaming, loops, speaker, ostamp, strayed>>

\* The machine is reset even when there is no call.
HangUpLocal ==
    /\ \/ /\ machine.phase # "Idle" /\ ConsoleGoto("prompt", "stop")
          /\ Transition(Hangup(machine)) /\ ostamp' = clock'
       \/ /\ machine.phase = "Idle" /\ ConsoleGoto("prompt", "stopIdle")
          /\ machine' = Hangup(machine) /\ UNCHANGED <<clock, ostamp>>
    /\ UNCHANGED <<kind, cache, local, requests, feed,
                   streaming, loops, speaker, strayed>>

StopMedia ==
    /\ ConsoleGoto("stop", "ended") \/ ConsoleGoto("stopIdle", "prompt")
    /\ SetStreaming(FALSE)
    /\ UNCHANGED <<shared, loops, speaker, ostamp>>

AnnounceEnd ==
    /\ ConsoleGoto("ended", "prompt")
    /\ Push("CallEnded", machine.session, ostamp, TRUE)
    /\ ostamp' = 0
    /\ UNCHANGED <<kind, machine, cache, local, requests, clock,
                   streaming, loops, speaker, strayed>>

Console == Ring \/ AnnounceRing \/ StartMedia \/ HangUpLocal \/ StopMedia \/ AnnounceEnd

--------------------------------------------------------------------------------
(***************************************************************************)
(* Clients and media.                                                      *)
(***************************************************************************)

\* The end of command() for an accepted hangup.
CommandStopsMedia(w) ==
    /\ Goto(w, "stop", "store")
    /\ SetStreaming(FALSE)
    /\ UNCHANGED <<kind, machine, cache, action, id, session, result, stamp, stale,
                   requests, clock, feed, console, loops, speaker, ostamp>>

\* Mutant: a loop stops only together with the last one.
LoopsEndTogether ==
    /\ loops = 1 /\ ~streaming
    /\ loops' = 0
    /\ UNCHANGED <<shared, console, streaming, speaker, ostamp, strayed>>

\* A loop finds the flag cleared when it next looks.
LoopEnds ==
    /\ loops > 0 /\ ~streaming
    /\ loops' = loops - 1
    /\ UNCHANGED <<shared, console, streaming, speaker, ostamp, strayed>>

\* play_talk: a write fails, and the sink is dropped for good; talk itself
\* goes on to report success.
SpeakerFails ==
    /\ speaker = "open" /\ speaker' = "gone"
    /\ UNCHANGED <<shared, console, streaming, loops, ostamp, strayed>>

StationNext ==
    \/ Console \/ LoopEnds \/ SpeakerFails
    \/ \E w \in Workers : CommandStopsMedia(w)
    \/ (CooldownElapses \/ \E w \in Workers : Command(w)) /\ UNCHANGED station

--------------------------------------------------------------------------------
\* Nobody is between a transition and what follows from it.
StationQuiet == kind = "station" /\ WorkersIdle /\ console = "prompt"

(***************************************************************************)
(* Every ring and every hangup reaches the media: when nobody is under     *)
(* way, the flag is set exactly while there is a call, unless it was       *)
(* written out of turn - a ring's set after a client had already hung up,  *)
(* or a hangup's clear after the next ring (ring, hangup_local, command).  *)
(***************************************************************************)
MediaTracksCall ==
    StationQuiet /\ ~strayed => /\ streaming = (machine.phase # "Idle")
                                /\ streaming => loops > 0

(***************************************************************************)
(* The media of a call that is over stops: once nobody is under way, every *)
(* loop there is looks at the flag and ends, unless the operator rings     *)
(* again (media_loop), with the same exception.                            *)
(***************************************************************************)
StationFallsSilent ==
    StationQuiet /\ machine.phase = "Idle" /\ ~strayed ~> loops = 0 \/ machine.phase # "Idle"
================================================================================
