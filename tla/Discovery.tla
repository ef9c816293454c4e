------------------------------- MODULE Discovery -------------------------------
(***************************************************************************)
(* The discovery service (discovery.rs): one socket on UDP 10008 through   *)
(* which every part of the Agent looks stations up.                        *)
(*                                                                         *)
(* resolve() leaves the sending half of a channel in a map, under the id   *)
(* of the station, broadcasts a query, and waits for its channel with a    *)
(* timeout.  run() takes all senders of an id out of the map when a reply  *)
(* for the id comes, and then serves them one by one.  A resolve that gets *)
(* no answer empties the id's entry of the map, other resolves' senders    *)
(* included; a sender that is dropped wakes its receiver empty-handed.     *)
(*                                                                         *)
(* A lookup, and its channel, is the number of the call of resolve().      *)
(* Addresses are left out: a lookup ends with one or without.  Answering   *)
(* the queries of others changes no state and is left out too.             *)
(***************************************************************************)
EXTENDS Naturals, FiniteSets

CONSTANTS
    Seekers,     \* threads that call resolve()
    Stations,    \* the station ids they look up
    Faults,      \* what may fail: "query" and "socket" here, "call" in Elevator
    MaxLookups   \* bound: calls of resolve()

ASSUME LookupsAssumption == MaxLookups \in Nat /\ Faults \subseteq {"query", "socket", "call"}

Lookups == 1..MaxLookups

VARIABLES
    serving,     \* run() has not returned
    pending,     \* DiscoveryService.pending: the lookups whose sender is in the map
    delivering,  \* the senders run() has taken out and not used yet
    channel,     \* each lookup's channel
    station,     \* the station each lookup is after
    stage,       \* where each seeker is in resolve()
    mine,        \* its present, or last, lookup
    lookups,     \* lookups so far
    ended        \* history: how each lookup ended

DiscoveryTypeOK ==
    /\ serving \in BOOLEAN
    /\ pending \in [Stations -> SUBSET Lookups]
    /\ delivering \in SUBSET Lookups
    /\ channel \in [Lookups -> {"open", "answered", "dropped"}]
    /\ station \in [Lookups -> Stations]
    /\ stage \in [Seekers -> {"idle", "query", "wait", "clear"}]
    /\ mine \in [Seekers -> 0..MaxLookups]
    /\ lookups \in 0..MaxLookups
    /\ ended \in [Lookups -> {"no", "found", "unsent", "timeout", "dropped"}]

service  == <<serving, pending, delivering, channel>>
progress == <<station, stage, mine, lookups, ended>>
discovery == <<service, progress>>

DiscoveryInit ==
    /\ serving = TRUE
    /\ pending = [st \in Stations |-> {}]
    /\ delivering = {}
    /\ channel = [n \in Lookups |-> "open"]
    /\ station = [n \in Lookups |-> CHOOSE st \in Stations : TRUE]
    /\ stage = [s \in Seekers |-> "idle"]
    /\ mine = [s \in Seekers |-> 0]
    /\ lookups = 0
    /\ ended = [n \in Lookups |-> "no"]

\* The senders in set are used, or dropped; a receiver that has gone never
\* learns of it.
Woken(set, how) ==
    [n \in Lookups |-> IF n \in set /\ ended[n] = "no" THEN how ELSE channel[n]]

Advance(s, from, to) == stage[s] = from /\ stage' = [stage EXCEPT ![s] = to]

--------------------------------------------------------------------------------
(***************************************************************************)
(* DiscoveryService::resolve.                                              *)
(***************************************************************************)

\* What a new lookup of st changes besides the map.
NewLookup(s, st) ==
    /\ Advance(s, "idle", "query")
    /\ lookups < MaxLookups
    /\ lookups' = lookups + 1
    /\ mine' = [mine EXCEPT ![s] = lookups']
    /\ station' = [station EXCEPT ![lookups'] = st]
    /\ UNCHANGED <<serving, delivering, ended>>

\* Mutant: the map keeps one waiter for an id, and a new one replaces it.
RegisterAlone(s, st) ==
    /\ NewLookup(s, st)
    /\ pending' = [pending EXCEPT ![st] = {lookups'}]
    /\ channel' = Woken(pending[st], "dropped")

\* The sender joins the others of the id.
Register(s, st) ==
    /\ NewLookup(s, st)
    /\ pending' = [pending EXCEPT ![st] = @ \cup {lookups'}]
    /\ UNCHANGED channel

Query(s) ==
    /\ Advance(s, "query", "wait")
    /\ UNCHANGED <<service, station, mine, lookups, ended>>

\* The query cannot be sent: the sender stays in the map.
QueryFails(s) ==
    /\ "query" \in Faults
    /\ Advance(s, "query", "idle")
    /\ ended' = [ended EXCEPT ![mine[s]] = "unsent"]
    /\ UNCHANGED <<service, station, mine, lookups>>

Find(s) ==
    /\ Advance(s, "wait", "idle")
    /\ channel[mine[s]] = "answered"
    /\ ended' = [ended EXCEPT ![mine[s]] = "found"]
    /\ UNCHANGED <<service, station, mine, lookups>>

\* The time is up, or the sender was dropped.
GiveUp(s) ==
    /\ Advance(s, "wait", "clear")
    /\ channel[mine[s]] # "answered"
    /\ ended' = [ended EXCEPT ![mine[s]] =
                    IF channel[mine[s]] = "dropped" THEN "dropped" ELSE "timeout"]
    /\ UNCHANGED <<service, station, mine, lookups>>

\* Mutant: a lookup whose sender was dropped thinks there is nothing to clear,
\* and so does one that timed out.
ClearNothing(s) ==
    /\ Advance(s, "clear", "idle")
    /\ UNCHANGED <<service, station, mine, lookups, ended>>

\* "Drop our waiter": every sender of the id goes.
Clear(s) ==
    LET st == station[mine[s]]
    IN  /\ Advance(s, "clear", "idle")
        /\ pending' = [pending EXCEPT ![st] = {}]
        /\ channel' = Woken(pending[st], "dropped")
        /\ UNCHANGED <<serving, delivering, station, mine, lookups, ended>>

Lookup(s) == Query(s) \/ QueryFails(s) \/ Find(s) \/ GiveUp(s) \/ Clear(s)

--------------------------------------------------------------------------------
(***************************************************************************)
(* DiscoveryService::run.                                                  *)
(***************************************************************************)

\* A reply for st that somebody waits for; any other changes nothing.
Reply(st) ==
    /\ serving /\ delivering = {} /\ pending[st] # {}
    /\ delivering' = pending[st]
    /\ pending' = [pending EXCEPT ![st] = {}]
    /\ UNCHANGED <<serving, channel, progress>>

\* The next of the senders is used, in the order they came; its receiver may
\* have gone.
Deliver ==
    \E n \in delivering :
        /\ \A m \in delivering : n <= m
        /\ delivering' = delivering \ {n}
        /\ channel' = Woken({n}, "answered")
        /\ UNCHANGED <<serving, pending, progress>>

\* recv_from() fails once: the service is over, and nobody is told.
SocketFails ==
    /\ "socket" \in Faults
    /\ serving /\ delivering = {}
    /\ serving' = FALSE
    /\ UNCHANGED <<pending, delivering, channel, progress>>

Serve == (\E st \in Stations : Reply(st)) \/ Deliver \/ SocketFails

--------------------------------------------------------------------------------
(***************************************************************************)
(* A lookup comes back empty-handed before its time only because another   *)
(* lookup of the same station ran out of time: dropped senders wake the    *)
(* next, and so on, but one timeout is always at the root (resolve,        *)
(* which clears the entry of the id).                                      *)
(***************************************************************************)
OnlyTimeoutsCostAnswers ==
    \A n \in Lookups : ended[n] = "dropped" =>
        \E m \in Lookups \ {n} : ended[m] = "timeout" /\ station[m] = station[n]

(***************************************************************************)
(* The map does not fill up with the senders of lookups that are over,     *)
(* except of those whose query could not be sent (resolve).                *)
(***************************************************************************)
WaitersHaveOwners ==
    \A st \in Stations : \A n \in pending[st] :
        \/ ended[n] \in {"no", "unsent"}
        \/ \E s \in Seekers : stage[s] = "clear" /\ mine[s] = n
================================================================================
