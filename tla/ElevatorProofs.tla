----------------------------- MODULE ElevatorProofs ----------------------------
(***************************************************************************)
(* Theorems about Elevator and the discovery service in it, for any number *)
(* of requests, other seekers, stations, command ids and lookups, and any  *)
(* capacity of the cache.                                                  *)
(***************************************************************************)
EXTENDS Elevator, TLAPS

--------------------------------------------------------------------------------
(***************************************************************************)
(* Lookups: numbers are used once, a lookup ends once, the map holds the   *)
(* lookups of its station that nobody has answered, and a sender that was  *)
(* dropped goes back to a timeout.                                         *)
(***************************************************************************)
Root(n) == \E m \in Lookups \ {n} : ended[m] = "timeout" /\ station[m] = station[n]

SeekInv ==
    /\ \A s \in Seekers : stage[s] # "idle" => mine[s] \in Lookups /\ mine[s] <= lookups
    /\ \A s \in Seekers : stage[s] \in {"query", "wait"} => ended[mine[s]] = "no"
    /\ \A s \in Seekers : stage[s] = "clear" => ended[mine[s]] \in {"timeout", "dropped"}
    /\ \A s, t \in Seekers :
         stage[s] # "idle" /\ stage[t] # "idle" /\ mine[s] = mine[t] => s = t

NumbersInv ==
    /\ \A n \in Lookups : n > lookups => ended[n] = "no" /\ channel[n] = "open"
    /\ \A n \in delivering : n <= lookups

PendingInv ==
    \A st \in Stations : \A n \in pending[st] :
        /\ n <= lookups /\ station[n] = st
        /\ channel[n] # "answered" /\ n \notin delivering

RootInv == \A n \in Lookups : channel[n] = "dropped" \/ ended[n] = "dropped" => Root(n)

DiscInv ==
    /\ DiscoveryTypeOK /\ SeekInv /\ NumbersInv /\ PendingInv /\ RootInv
    /\ WaitersHaveOwners

(***************************************************************************)
(* Requests: a call number is one request's, an id that may not excuse     *)
(* itself is one request's and calls the car on its way at most once, and  *)
(* whoever has sent a call still waits for its acknowledgement or has it.  *)
(***************************************************************************)
LocalOK ==
    /\ pc \in [Requests -> {"idle", "door", "resolve", "listen", "send", "wait", "store"}]
    /\ id \in [Requests -> ElevatorIds \cup {NoId}]
    /\ call \in [Requests -> Nat]
    /\ result \in [Requests -> Verdicts]
    /\ requests \in Nat
    /\ sent \in [ElevatorIds -> Nat]
    /\ \A r \in Requests : pc[r] # "idle" => id[r] \in ElevatorIds

Early == {"door", "resolve", "listen", "send"}

AckInv ==
    /\ \A r \in Requests : pc[r] # "idle" => call[r] <= requests
    /\ \A r, q \in Requests :
         pc[r] # "idle" /\ pc[q] # "idle" /\ call[r] = call[q] => r = q
    /\ \A n \in heard \cup acked : n \in Nat /\ n <= requests
    /\ \A r \in Requests : pc[r] \in Early => call[r] \notin heard
    /\ \A r \in Requests : pc[r] \in {"send", "wait"} => call[r] \in waiters \cup acked
    /\ \A r \in Requests : pc[r] = "wait" /\ call[r] \in heard => call[r] \in acked
    /\ NoAckIsMissed

Runs(r, i) == pc[r] # "idle" /\ id[r] = i

OnceInv ==
    \A i \in ElevatorIds \ excused :
        /\ sent[i] <= 1
        /\ \A r, q \in Requests : Runs(r, i) /\ Runs(q, i) => r = q
        /\ \A r \in Requests : Runs(r, i) => i \notin CachedIds(cache)
        /\ \A r \in Requests :
             Runs(r, i) /\ pc[r] \in Early => sent[i] = 0
        /\ i \notin CachedIds(cache) /\ (\A r \in Requests : ~Runs(r, i)) => sent[i] = 0

RequestInv == LocalOK /\ AckInv /\ OnceInv

--------------------------------------------------------------------------------
(***************************************************************************)
(* A timeout at the root of a lookup stays there.                          *)
(***************************************************************************)
LEMMA RootStays ==
  ASSUME NEW n \in Lookups, Root(n), station'[n] = station[n],
         \A m \in Lookups : ended[m] = "timeout" =>
            ended'[m] = "timeout" /\ station'[m] = station[m]
  PROVE  Root(n)'
  BY DEF Root, Lookups

(***************************************************************************)
(* A new lookup has a new number (resolve).                                *)
(***************************************************************************)
LEMMA RegisterKeeps ==
  ASSUME DiscInv, NEW s \in Seekers, NEW st \in Stations, Register(s, st)
  PROVE  DiscInv'
<1> USE LookupsAssumption DEF DiscInv, Lookups
<1> DEFINE new == lookups + 1
<1>1. /\ lookups \in Nat /\ new \in Lookups /\ lookups' = new
      /\ stage[s] = "idle"
      /\ \A t \in Seekers : stage'[t] = IF t = s THEN "query" ELSE stage[t]
      /\ \A t \in Seekers : mine'[t] = IF t = s THEN new ELSE mine[t]
      /\ \A n \in Lookups : station'[n] = IF n = new THEN st ELSE station[n]
      /\ \A x \in Stations : pending'[x] = IF x = st THEN pending[x] \cup {new} ELSE pending[x]
      /\ UNCHANGED <<serving, delivering, channel, ended>>
  <2>1. lookups \in Nat /\ new \in Lookups /\ lookups' = new
    BY DEF Register, NewLookup, DiscoveryTypeOK
  <2>2. /\ stage[s] = "idle"
        /\ \A t \in Seekers : stage'[t] = IF t = s THEN "query" ELSE stage[t]
    BY DEF Register, NewLookup, Advance, DiscoveryTypeOK
  <2>3. \A t \in Seekers : mine'[t] = IF t = s THEN new ELSE mine[t]
    BY DEF Register, NewLookup, DiscoveryTypeOK
  <2>4. \A n \in Lookups : station'[n] = IF n = new THEN st ELSE station[n]
    BY DEF Register, NewLookup, DiscoveryTypeOK
  <2>5. \A x \in Stations : pending'[x] = IF x = st THEN pending[x] \cup {new} ELSE pending[x]
    BY DEF Register, NewLookup, DiscoveryTypeOK
  <2> QED
    BY <2>1, <2>2, <2>3, <2>4, <2>5 DEF Register, NewLookup
<1>p. /\ pending'[st] = pending[st] \cup {new}
      /\ \A x \in Stations \ {st} : pending'[x] = pending[x]
  BY <1>1
<1>2. /\ ended[new] = "no" /\ channel[new] = "open"
      /\ new \notin delivering
  BY <1>1 DEF NumbersInv
<1>3. /\ \A t \in Seekers : mine[t] \in 0..MaxLookups
      /\ \A x \in Stations : \A n \in pending[x] : n \in Lookups
  BY DEF DiscoveryTypeOK
<1>4. DiscoveryTypeOK'
  BY DEF Register, NewLookup, Advance, DiscoveryTypeOK
<1> HIDE DEF new
<1>5. SeekInv'
  <2>1. \A t \in Seekers : stage'[t] # "idle" => mine'[t] \in Lookups /\ mine'[t] <= lookups'
    BY <1>1, <1>3 DEF SeekInv, new
  <2>2. \A t \in Seekers : t # s /\ stage[t] # "idle" => mine[t] # new
    BY <1>1, <1>3 DEF SeekInv, new
  <2>3. \A t \in Seekers : stage'[t] \in {"query", "wait"} => ended'[mine'[t]] = "no"
    BY <1>1, <1>2 DEF SeekInv
  <2>4. \A t \in Seekers : stage'[t] = "clear" => ended'[mine'[t]] \in {"timeout", "dropped"}
    BY <1>1 DEF SeekInv
  <2>5. \A t, u \in Seekers :
          stage'[t] # "idle" /\ stage'[u] # "idle" /\ mine'[t] = mine'[u] => t = u
    BY <1>1, <2>2 DEF SeekInv
  <2> QED
    BY <2>1, <2>3, <2>4, <2>5 DEF SeekInv
<1>6. NumbersInv'
  BY <1>1, <1>4 DEF NumbersInv, new, DiscoveryTypeOK
<1>7. PendingInv'
  <2> SUFFICES ASSUME NEW x \in Stations, NEW n \in pending'[x]
               PROVE  /\ n <= lookups' /\ station'[n] = x
                      /\ channel'[n] # "answered" /\ n \notin delivering'
    BY DEF PendingInv
  <2>0. n \in pending[x] \/ (x = st /\ n = new)
    <3>1. CASE x = st
      BY <1>p, <3>1
    <3>2. CASE x # st
      BY <1>p, <3>2
    <3> QED
      BY <3>1, <3>2
  <2>1. CASE x = st /\ n = new
    BY <1>1, <1>2, <2>1
  <2>2. CASE n \in pending[x]
    <3>1. /\ n <= lookups /\ station[n] = x
          /\ channel[n] # "answered" /\ n \notin delivering /\ n \in Lookups
      BY <1>3, <2>2 DEF PendingInv
    <3>2. n # new /\ n <= new
      BY <1>1, <3>1 DEF new
    <3> QED
      BY <1>1, <3>1, <3>2
  <2> QED
    BY <2>0, <2>1, <2>2
<1>8. RootInv'
  <2> SUFFICES ASSUME NEW n \in Lookups, channel[n] = "dropped" \/ ended[n] = "dropped"
               PROVE  Root(n)'
    BY <1>1 DEF RootInv
  <2>1. n # new /\ Root(n)
    BY <1>2 DEF RootInv
  <2>2. \A m \in Lookups : ended[m] = "timeout" => m # new
    BY <1>2
  <2> QED
    BY <1>1, <2>1, <2>2, RootStays
<1>9. WaitersHaveOwners'
  <2> SUFFICES ASSUME NEW x \in Stations, NEW n \in pending'[x]
               PROVE  \/ ended[n] \in {"no", "unsent"}
                      \/ \E t \in Seekers : stage'[t] = "clear" /\ mine'[t] = n
    BY <1>1 DEF WaitersHaveOwners
  <2>0. n \in pending[x] \/ n = new
    <3>1. CASE x = st
      BY <1>p, <3>1
    <3>2. CASE x # st
      BY <1>p, <3>2
    <3> QED
      BY <3>1, <3>2
  <2>1. CASE n = new
    BY <1>2, <2>1
  <2>2. CASE n \in pending[x]
    BY <1>1, <2>2 DEF WaitersHaveOwners
  <2> QED
    BY <2>0, <2>1, <2>2
<1> QED
  BY <1>4, <1>5, <1>6, <1>7, <1>8, <1>9

(***************************************************************************)
(* A step of a seeker that leaves the map and the channels alone: its      *)
(* lookup may end, but for a sender in the map only unsent, or with the    *)
(* map to clear.                                                           *)
(***************************************************************************)
LEMMA SeekerKeeps ==
  ASSUME DiscInv, NEW s \in Seekers,
         NEW from \in {"query", "wait"}, NEW to \in {"idle", "wait", "clear"},
         NEW how \in {"no", "found", "unsent", "timeout", "dropped"},
         Advance(s, from, to), ended' = [ended EXCEPT ![mine[s]] = how],
         UNCHANGED <<service, station, mine, lookups>>,
         to = "wait" => how = "no",
         to = "clear" <=> how \in {"timeout", "dropped"},
         how = "dropped" => channel[mine[s]] = "dropped",
         how = "found" => channel[mine[s]] = "answered"
  PROVE  DiscInv'
<1> USE LookupsAssumption DEF DiscInv, Lookups, service
<1> DEFINE k == mine[s]
<1>1. /\ k \in Lookups /\ k <= lookups /\ ended[k] = "no" /\ stage[s] = from
      /\ \A t \in Seekers : stage'[t] = IF t = s THEN to ELSE stage[t]
      /\ \A n \in Lookups : ended'[n] = IF n = k THEN how ELSE ended[n]
      /\ \A t \in Seekers \ {s} : stage[t] # "idle" => mine[t] # k
      /\ UNCHANGED <<serving, pending, delivering, channel, station, mine, lookups>>
  BY DEF Advance, SeekInv, DiscoveryTypeOK
<1>2. DiscoveryTypeOK'
  BY DEF Advance, DiscoveryTypeOK
<1> HIDE DEF k
<1>3. SeekInv'
  <2>1. \A t \in Seekers : stage'[t] # "idle" =>
          stage[t] # "idle" /\ mine[t] \in Lookups /\ mine[t] <= lookups
    BY <1>1 DEF SeekInv
  <2>2. \A t \in Seekers \ {s} : stage[t] # "idle" => ended'[mine[t]] = ended[mine[t]]
    BY <1>1 DEF SeekInv
  <2>3. ended'[mine[s]] = how
    BY <1>1 DEF k
  <2>4. \A t \in Seekers : stage'[t] \in {"query", "wait"} => ended'[mine[t]] = "no"
    BY <1>1, <2>2, <2>3 DEF SeekInv
  <2>5. \A t \in Seekers : stage'[t] = "clear" => ended'[mine[t]] \in {"timeout", "dropped"}
    BY <1>1, <2>2, <2>3 DEF SeekInv
  <2> QED
    BY <1>1, <2>1, <2>4, <2>5 DEF SeekInv
<1>4. NumbersInv'
  BY <1>1 DEF NumbersInv, DiscoveryTypeOK
<1>5. PendingInv'
  BY <1>1 DEF PendingInv
<1>6. RootInv'
  <2> SUFFICES ASSUME NEW n \in Lookups, channel[n] = "dropped" \/ ended'[n] = "dropped"
               PROVE  Root(n)'
    BY <1>1 DEF RootInv
  <2>1. channel[n] = "dropped" \/ ended[n] = "dropped"
    BY <1>1 DEF k
  <2>2. Root(n)
    BY <2>1 DEF RootInv
  <2>3. \A m \in Lookups : ended[m] = "timeout" => ended'[m] = "timeout"
    BY <1>1
  <2> QED
    BY <1>1, <2>2, <2>3, RootStays
<1>7. WaitersHaveOwners'
  <2> SUFFICES ASSUME NEW x \in Stations, NEW n \in pending[x]
               PROVE  \/ ended'[n] \in {"no", "unsent"}
                      \/ \E t \in Seekers : stage'[t] = "clear" /\ mine[t] = n
    BY <1>1 DEF WaitersHaveOwners
  <2>1. n \in Lookups /\ channel[n] # "answered"
    BY DEF PendingInv, DiscoveryTypeOK
  <2>2. CASE n = k
    BY <1>1, <2>1, <2>2 DEF k
  <2>3. CASE n # k
    <3>1. ended'[n] = ended[n]
      BY <1>1, <2>1, <2>3
    <3>2. \A t \in Seekers : stage[t] = "clear" => stage'[t] = "clear"
      BY <1>1
    <3> QED
      BY <3>1, <3>2 DEF WaitersHaveOwners
  <2> QED
    BY <2>2, <2>3
<1> QED
  BY <1>2, <1>3, <1>4, <1>5, <1>6, <1>7

(***************************************************************************)
(* Senders of the same station are dropped, on behalf of a lookup that     *)
(* timed out, or goes back to one that did (resolve).                      *)
(***************************************************************************)
LEMMA ClearKeeps ==
  ASSUME DiscInv, NEW s \in Seekers, Clear(s)
  PROVE  DiscInv'
<1> USE LookupsAssumption DEF DiscInv, Lookups
<1> DEFINE k == mine[s]
           st == station[k]
<1>1. /\ stage[s] = "clear" /\ k \in Lookups /\ st \in Stations
      /\ ended[k] \in {"timeout", "dropped"}
  BY DEF Clear, Advance, SeekInv, DiscoveryTypeOK
<1>2. /\ \A t \in Seekers : stage'[t] = IF t = s THEN "idle" ELSE stage[t]
      /\ \A x \in Stations : pending'[x] = IF x = st THEN {} ELSE pending[x]
      /\ channel' = Woken(pending[st], "dropped")
      /\ UNCHANGED <<serving, delivering, station, mine, lookups, ended>>
  BY DEF Clear, Advance, DiscoveryTypeOK
<1>3. \A n \in Lookups : channel'[n] =
          IF n \in pending[st] /\ ended[n] = "no" THEN "dropped" ELSE channel[n]
  BY <1>2 DEF Woken
<1>4. DiscoveryTypeOK'
  <2>1. channel' \in [Lookups -> {"open", "answered", "dropped"}]
    BY <1>2 DEF Woken, DiscoveryTypeOK
  <2> QED
    BY <2>1 DEF Clear, Advance, DiscoveryTypeOK
<1>5. \A n \in pending[st] : n \in Lookups /\ n <= lookups /\ station[n] = st
  BY <1>1 DEF PendingInv, DiscoveryTypeOK
<1> HIDE DEF k, st
<1>6. SeekInv'
  BY <1>2 DEF SeekInv
<1>7. NumbersInv'
  <2>1. \A n \in Lookups : n > lookups => n \notin pending[st]
    BY <1>5 DEF DiscoveryTypeOK
  <2> QED
    BY <1>2, <1>3, <2>1 DEF NumbersInv
<1>8. PendingInv'
  <2> SUFFICES ASSUME NEW x \in Stations, NEW n \in pending'[x]
               PROVE  /\ n <= lookups /\ station[n] = x
                      /\ channel'[n] # "answered" /\ n \notin delivering
    BY <1>2 DEF PendingInv
  <2>1. n \in pending[x] /\ n \in Lookups
    BY <1>2 DEF DiscoveryTypeOK
  <2> QED
    BY <1>3, <2>1 DEF PendingInv
<1>9. RootInv'
  <2> SUFFICES ASSUME NEW n \in Lookups, channel'[n] = "dropped" \/ ended[n] = "dropped"
               PROVE  Root(n)'
    BY <1>2 DEF RootInv
  <2>1. Root(n)
    <3>1. CASE channel[n] = "dropped" \/ ended[n] = "dropped"
      BY <3>1 DEF RootInv
    <3>2. CASE n \in pending[st] /\ ended[n] = "no"
      <4>1. station[n] = station[k] /\ n # k
        BY <1>1, <1>5, <3>2 DEF st
      <4>2. CASE ended[k] = "timeout"
        BY <1>1, <4>1, <4>2 DEF Root
      <4>3. CASE ended[k] = "dropped"
        <5>1. PICK m \in Lookups \ {k} : ended[m] = "timeout" /\ station[m] = station[k]
          BY <1>1, <4>3 DEF RootInv, Root
        <5> QED
          BY <3>2, <4>1, <5>1 DEF Root
      <4> QED
        BY <1>1, <4>2, <4>3
    <3> QED
      BY <1>3, <3>1, <3>2
  <2> QED
    BY <1>2, <2>1, RootStays
<1>10. WaitersHaveOwners'
  <2> SUFFICES ASSUME NEW x \in Stations, NEW n \in pending'[x]
               PROVE  \/ ended[n] \in {"no", "unsent"}
                      \/ \E t \in Seekers : stage'[t] = "clear" /\ mine[t] = n
    BY <1>2 DEF WaitersHaveOwners
  <2>1. n \in pending[x] /\ x # st
    BY <1>2
  <2>2. n # k
    BY <2>1 DEF PendingInv, st
  <2>3. \A t \in Seekers : stage[t] = "clear" /\ mine[t] = n => stage'[t] = "clear"
    BY <1>2, <2>2 DEF k
  <2> QED
    BY <2>1, <2>3 DEF WaitersHaveOwners
<1> QED
  BY <1>4, <1>6, <1>7, <1>8, <1>9, <1>10

(***************************************************************************)
(* Senders leave the map before they are used (run).                       *)
(***************************************************************************)
LEMMA ReplyKeeps ==
  ASSUME DiscInv, NEW st \in Stations, Reply(st)
  PROVE  DiscInv'
<1> USE DEF DiscInv
<1>1. /\ \A x \in Stations : pending'[x] = IF x = st THEN {} ELSE pending[x]
      /\ delivering' = pending[st]
      /\ UNCHANGED <<channel, progress>>
  BY DEF Reply, DiscoveryTypeOK
<1>2. DiscoveryTypeOK'
  BY DEF Reply, progress, DiscoveryTypeOK
<1>3. SeekInv'
  BY <1>1 DEF SeekInv, progress
<1>4. NumbersInv'
  BY <1>1 DEF NumbersInv, PendingInv, progress
<1>5. PendingInv'
  <2> SUFFICES ASSUME NEW x \in Stations, NEW n \in pending'[x]
               PROVE  /\ n <= lookups /\ station[n] = x
                      /\ channel[n] # "answered" /\ n \notin pending[st]
    BY <1>1 DEF PendingInv, progress
  <2>1. n \in pending[x] /\ x # st
    BY <1>1
  <2> QED
    BY <2>1 DEF PendingInv
<1>6. RootInv'
  BY <1>1 DEF RootInv, Root, progress
<1>7. WaitersHaveOwners'
  BY <1>1 DEF WaitersHaveOwners, progress
<1> QED
  BY <1>2, <1>3, <1>4, <1>5, <1>6, <1>7

(***************************************************************************)
(* Only senders outside the map are used (run).                            *)
(***************************************************************************)
LEMMA DeliverKeeps ==
  ASSUME DiscInv, Deliver
  PROVE  DiscInv'
<1> USE DEF DiscInv
<1>1. PICK k \in delivering : /\ delivering' = delivering \ {k}
                              /\ channel' = Woken({k}, "answered")
                              /\ UNCHANGED <<serving, pending, progress>>
  BY DEF Deliver
<1>2. /\ k \in Lookups /\ k <= lookups
      /\ \A n \in Lookups : channel'[n] =
           IF n = k /\ ended[n] = "no" THEN "answered" ELSE channel[n]
  BY <1>1 DEF Woken, DiscoveryTypeOK, NumbersInv
<1>3. DiscoveryTypeOK'
  <2>1. channel' \in [Lookups -> {"open", "answered", "dropped"}]
    BY <1>1 DEF Woken, DiscoveryTypeOK
  <2> QED
    BY <1>1, <2>1 DEF progress, DiscoveryTypeOK
<1>4. SeekInv'
  BY <1>1 DEF SeekInv, progress
<1>5. NumbersInv'
  <2>1. \A n \in Lookups : n > lookups => n # k
    BY <1>2, LookupsAssumption DEF Lookups, DiscoveryTypeOK
  <2> QED
    BY <1>1, <1>2, <2>1 DEF NumbersInv, progress
<1>6. PendingInv'
  <2> SUFFICES ASSUME NEW x \in Stations, NEW n \in pending[x]
               PROVE  /\ n <= lookups /\ station[n] = x
                      /\ channel'[n] # "answered" /\ n \notin delivering'
    BY <1>1 DEF PendingInv, progress
  <2>1. n \in Lookups
    BY DEF DiscoveryTypeOK
  <2> QED
    BY <1>1, <1>2, <2>1 DEF PendingInv
<1>7. RootInv'
  <2> SUFFICES ASSUME NEW n \in Lookups, channel'[n] = "dropped" \/ ended[n] = "dropped"
               PROVE  Root(n)'
    BY <1>1 DEF RootInv, progress
  <2>1. Root(n)
    BY <1>2 DEF RootInv
  <2> QED
    BY <1>1, <2>1, RootStays DEF progress
<1>8. WaitersHaveOwners'
  BY <1>1 DEF WaitersHaveOwners, progress
<1> QED
  BY <1>3, <1>4, <1>5, <1>6, <1>7, <1>8

(***************************************************************************)
(* The steps of resolve after the waiter is in the map.                    *)
(***************************************************************************)
LEMMA LookupKeeps ==
  ASSUME DiscInv, NEW s \in Seekers, Lookup(s)
  PROVE  DiscInv'
<1>1. CASE Query(s)
  <2>1. ended[mine[s]] = "no"
    BY <1>1 DEF Query, Advance, DiscInv, SeekInv
  <2>2. ended' = [ended EXCEPT ![mine[s]] = "no"]
    BY <1>1, <2>1 DEF Query, DiscInv, DiscoveryTypeOK
  <2> QED
    BY <1>1, <2>2, SeekerKeeps DEF Query
<1>2. CASE QueryFails(s)
  BY <1>2, SeekerKeeps DEF QueryFails
<1>3. CASE Find(s)
  BY <1>3, SeekerKeeps DEF Find
<1>4. CASE GiveUp(s)
  <2>1. CASE channel[mine[s]] = "dropped"
    BY <1>4, <2>1, SeekerKeeps DEF GiveUp
  <2>2. CASE channel[mine[s]] # "dropped"
    BY <1>4, <2>2, SeekerKeeps DEF GiveUp
  <2> QED
    BY <2>1, <2>2
<1>5. CASE Clear(s)
  BY <1>5, ClearKeeps
<1> QED
  BY <1>1, <1>2, <1>3, <1>4, <1>5 DEF Lookup

(***************************************************************************)
(* A step that changes neither the map nor a lookup keeps what is said of  *)
(* them: the end of run(), and whatever does not touch the service.        *)
(***************************************************************************)
LEMMA NothingLost ==
  ASSUME DiscInv, serving' \in BOOLEAN, UNCHANGED <<pending, delivering, channel, progress>>
  PROVE  DiscInv'
<1> USE DEF DiscInv, progress
<1>1. DiscoveryTypeOK'
  BY DEF DiscoveryTypeOK
<1>2. SeekInv'
  BY DEF SeekInv
<1>3. NumbersInv' /\ PendingInv'
  BY DEF NumbersInv, PendingInv
<1>4. RootInv'
  BY DEF RootInv, Root
<1>5. WaitersHaveOwners'
  BY DEF WaitersHaveOwners
<1> QED
  BY <1>1, <1>2, <1>3, <1>4, <1>5

(***************************************************************************)
(* What a step of Elevator does to the discovery service.                  *)
(***************************************************************************)
LEMMA DiscoverySteps ==
  ASSUME [Next]_vars
  PROVE  \/ \E s \in Seekers, st \in Stations : Register(s, st)
         \/ \E s \in Seekers : Lookup(s)
         \/ Serve
         \/ UNCHANGED discovery
<1>1. CASE \E r \in Requests : Request(r)
  <2>1. PICK r \in Requests : Request(r)
    BY <1>1
  <2>2. ResolveDoor(r) \/ UNCHANGED discovery
    BY <2>1 DEF Request, Replay, Begin, DoorResolved, UseLearnedDoor, NoDoor, Listen,
                CallCar, CallFails, Acknowledged, Unanswered, StoreResult
  <2> QED
    BY <2>2, RequestsAssumption DEF ResolveDoor
<1>2. CASE DoorAcks \/ LearnDoor \/ UNCHANGED vars
  BY <1>2 DEF DoorAcks, LearnDoor, vars
<1>3. CASE LookElsewhere
  BY <1>3, RequestsAssumption DEF LookElsewhere
<1>4. CASE Discover
  BY <1>4 DEF Discover
<1> QED
  BY <1>1, <1>2, <1>3, <1>4 DEF Next

THEOREM DiscInvariant == Spec => []DiscInv
<1>1. Init => DiscInv
  <2> SUFFICES ASSUME Init PROVE DiscInv
    OBVIOUS
  <2>1. (CHOOSE st \in Stations : TRUE) \in Stations
    BY RequestsAssumption
  <2>2. DiscoveryTypeOK
    BY <2>1, LookupsAssumption DEF Init, DiscoveryInit, DiscoveryTypeOK, Lookups
  <2> QED
    BY <2>2 DEF Init, DiscoveryInit, DiscInv, SeekInv, NumbersInv, PendingInv,
                RootInv, WaitersHaveOwners
<1>2. DiscInv /\ [Next]_vars => DiscInv'
  <2> SUFFICES ASSUME DiscInv, [Next]_vars PROVE DiscInv'
    OBVIOUS
  <2>1. CASE \E s \in Seekers, st \in Stations : Register(s, st)
    BY <2>1, RegisterKeeps
  <2>2. CASE \E s \in Seekers : Lookup(s)
    BY <2>2, LookupKeeps
  <2>3. CASE (\E st \in Stations : Reply(st)) \/ Deliver
    BY <2>3, ReplyKeeps, DeliverKeeps
  <2>4. CASE SocketFails \/ UNCHANGED discovery
    <3>1. serving' \in BOOLEAN /\ UNCHANGED <<pending, delivering, channel, progress>>
      BY <2>4 DEF SocketFails, discovery, service, DiscInv, DiscoveryTypeOK
    <3> QED
      BY <3>1, NothingLost
  <2> QED
    BY <2>1, <2>2, <2>3, <2>4, DiscoverySteps DEF Serve
<1> QED
  BY <1>1, <1>2, PTL DEF Spec

(***************************************************************************)
(* Whoever loses an answer before time loses it to a timeout: at the root  *)
(* of every dropped sender there is a lookup of the same station that ran  *)
(* out of time (resolve, which clears the entry of the id), whatever the   *)
(* lookups, their order and the faults.                                    *)
(***************************************************************************)
THEOREM OnlyTimeouts == Spec => []OnlyTimeoutsCostAnswers
<1>1. DiscInv => OnlyTimeoutsCostAnswers
  BY DEF DiscInv, RootInv, Root, OnlyTimeoutsCostAnswers
<1> QED
  BY <1>1, DiscInvariant, PTL

(***************************************************************************)
(* The map of the service holds nobody who is through with resolve, but    *)
(* for those whose query could not be sent.                                *)
(***************************************************************************)
THEOREM WaitersOwned == Spec => []WaitersHaveOwners
<1>1. DiscInv => WaitersHaveOwners
  BY DEF DiscInv
<1> QED
  BY <1>1, DiscInvariant, PTL

--------------------------------------------------------------------------------
(***************************************************************************)
(* A request that goes on, to call or to conclude, without leaving a       *)
(* waiter or calling the car (call_elevator_now).                          *)
(***************************************************************************)
LEMMA MoveKeeps ==
  ASSUME RequestInv, NEW r \in Requests, pc[r] # "idle",
         NEW to \in {"resolve", "listen", "store"}, NEW v \in Verdicts,
         pc' = [pc EXCEPT ![r] = to], result' = [result EXCEPT ![r] = v],
         UNCHANGED <<cache, waiters, acked, id, call, requests, sent, heard, excused>>,
         to # "store" => pc[r] \in Early,
         to = "store" /\ call[r] \in heard => v = "Ok"
  PROVE  RequestInv'
<1> USE DEF RequestInv
<1>1. /\ \A q \in Requests : pc'[q] = IF q = r THEN to ELSE pc[q]
      /\ \A q \in Requests : result'[q] = IF q = r THEN v ELSE result[q]
  BY DEF LocalOK
<1>2. LocalOK'
  BY DEF LocalOK
<1>3. AckInv'
  BY <1>1 DEF AckInv, NoAckIsMissed, Early
<1>4. \A q \in Requests, i \in ElevatorIds : Runs(q, i)' <=> Runs(q, i)
  BY <1>1 DEF Runs
<1>5. \A q \in Requests : pc'[q] \in Early => pc[q] \in Early
  BY <1>1 DEF Early
<1>6. OnceInv'
  BY <1>4, <1>5 DEF OnceInv
<1> QED
  BY <1>2, <1>3, <1>6

(***************************************************************************)
(* A request takes a new number, and an id nobody has at work or in the    *)
(* cache, or one that is excused.                                          *)
(***************************************************************************)
LEMMA BeginKeeps ==
  ASSUME RequestInv, NEW r \in Requests, NEW i \in ElevatorIds, Begin(r, i)
  PROVE  RequestInv'
<1> USE DEF RequestInv
<1>1. /\ pc[r] = "idle" /\ requests \in Nat /\ requests' = requests + 1
      /\ i \notin CachedIds(cache)
      /\ \A q \in Requests : pc'[q] = IF q = r THEN "door" ELSE pc[q]
      /\ \A q \in Requests : id'[q] = IF q = r THEN i ELSE id[q]
      /\ \A q \in Requests : call'[q] = IF q = r THEN requests' ELSE call[q]
      /\ UNCHANGED <<cache, waiters, acked, result, sent, heard>>
  BY DEF Begin, Goto, LocalOK
<1>2. LocalOK'
  BY <1>1 DEF Begin, Goto, LocalOK
<1>3. AckInv'
  <2>1. \A q \in Requests : pc[q] # "idle" =>
          q # r /\ call'[q] = call[q] /\ call[q] \in Nat /\ call[q] # requests'
    BY <1>1 DEF AckInv, LocalOK
  <2>2. requests' \notin heard \cup acked
    BY <1>1 DEF AckInv
  <2>3. \A q \in Requests : pc'[q] # "idle" => call'[q] <= requests'
    BY <1>1, <2>1 DEF AckInv
  <2>4. \A n \in heard \cup acked : n \in Nat /\ n <= requests'
    BY <1>1 DEF AckInv
  <2>5. \A q, t \in Requests :
          pc'[q] # "idle" /\ pc'[t] # "idle" /\ call'[q] = call'[t] => q = t
    BY <1>1, <2>1 DEF AckInv
  <2>6. \A q \in Requests : pc'[q] \in Early => call'[q] \notin heard
    BY <1>1, <2>1, <2>2 DEF AckInv, Early
  <2>7. /\ \A q \in Requests : pc'[q] \in {"send", "wait"} => call'[q] \in waiters \cup acked
        /\ \A q \in Requests : pc'[q] = "wait" /\ call'[q] \in heard => call'[q] \in acked
        /\ NoAckIsMissed'
    BY <1>1, <2>1 DEF AckInv, NoAckIsMissed
  <2> QED
    BY <1>1, <2>3, <2>4, <2>5, <2>6, <2>7 DEF AckInv
<1>4. OnceInv'
  <2> SUFFICES ASSUME NEW j \in ElevatorIds, j \notin excused'
               PROVE  /\ sent[j] <= 1
                      /\ \A q, t \in Requests : Runs(q, j)' /\ Runs(t, j)' => q = t
                      /\ \A q \in Requests : Runs(q, j)' => j \notin CachedIds(cache)
                      /\ \A q \in Requests : Runs(q, j)' /\ pc'[q] \in Early => sent[j] = 0
                      /\ j \notin CachedIds(cache) /\ (\A q \in Requests : ~Runs(q, j)')
                           => sent[j] = 0
    BY <1>1 DEF OnceInv
  <2>1. j \notin excused
    BY DEF Begin
  <2>2. CASE j = i
    <3>1. \A q \in Requests : ~Runs(q, j)
      BY <2>2 DEF Begin, Runs
    <3>2. \A q \in Requests : Runs(q, j)' => q = r
      BY <1>1, <3>1 DEF Runs
    <3>3. sent[j] = 0
      BY <1>1, <2>1, <2>2, <3>1 DEF OnceInv
    <3> QED
      BY <1>1, <2>2, <3>2, <3>3
  <2>3. CASE j # i
    <3>1. \A q \in Requests : Runs(q, j)' <=> Runs(q, j)
      BY <1>1, <2>3 DEF Runs
    <3>2. \A q \in Requests : Runs(q, j) => pc'[q] = pc[q]
      BY <1>1 DEF Runs
    <3> QED
      BY <2>1, <3>1, <3>2 DEF OnceInv
  <2> QED
    BY <2>2, <2>3
<1> QED
  BY <1>2, <1>3, <1>4

(***************************************************************************)
(* The waiter is in the list before the call is sent.                      *)
(***************************************************************************)
LEMMA ListenKeeps ==
  ASSUME RequestInv, NEW r \in Requests, Listen(r)
  PROVE  RequestInv'
<1> USE DEF RequestInv
<1>1. /\ pc[r] = "listen" /\ waiters' = waiters \cup {call[r]}
      /\ \A q \in Requests : pc'[q] = IF q = r THEN "send" ELSE pc[q]
      /\ UNCHANGED <<cache, acked, id, call, result, requests, sent, heard, excused>>
  BY DEF Listen, Goto, LocalOK
<1>2. LocalOK'
  BY DEF Listen, Goto, LocalOK
<1>3. AckInv'
  BY <1>1 DEF AckInv, NoAckIsMissed, Early
<1>4. \A q \in Requests, i \in ElevatorIds : Runs(q, i)' <=> Runs(q, i)
  BY <1>1 DEF Runs
<1>5. \A q \in Requests : pc'[q] \in Early => pc[q] \in Early
  BY <1>1 DEF Early
<1>6. OnceInv'
  BY <1>1, <1>4, <1>5 DEF OnceInv
<1> QED
  BY <1>2, <1>3, <1>6

(***************************************************************************)
(* The car is called for an id that has not called it.                     *)
(***************************************************************************)
LEMMA CallCarKeeps ==
  ASSUME RequestInv, NEW r \in Requests, CallCar(r)
  PROVE  RequestInv'
<1> USE DEF RequestInv
<1>1. /\ pc[r] = "send" /\ id[r] \in ElevatorIds
      /\ \A q \in Requests : pc'[q] = IF q = r THEN "wait" ELSE pc[q]
      /\ \A i \in ElevatorIds : sent'[i] = IF i = id[r] THEN sent[i] + 1 ELSE sent[i]
      /\ UNCHANGED <<cache, waiters, acked, id, call, result, requests, heard, excused>>
  BY DEF CallCar, Goto, LocalOK
<1>2. LocalOK'
  BY DEF CallCar, Goto, LocalOK
<1>3. AckInv'
  BY <1>1 DEF AckInv, NoAckIsMissed, Early
<1>4. \A q \in Requests, i \in ElevatorIds : Runs(q, i)' <=> Runs(q, i)
  BY <1>1 DEF Runs
<1>5. OnceInv'
  <2> SUFFICES ASSUME NEW j \in ElevatorIds \ excused
               PROVE  /\ sent'[j] <= 1
                      /\ \A q \in Requests : Runs(q, j) /\ pc'[q] \in Early => sent'[j] = 0
                      /\ j \notin CachedIds(cache) /\ (\A q \in Requests : ~Runs(q, j))
                           => sent'[j] = 0
    BY <1>1, <1>4 DEF OnceInv
  <2>1. CASE j = id[r]
    <3>1. Runs(r, j)
      BY <1>1, <2>1 DEF Runs
    <3>2. sent[j] = 0 /\ \A q \in Requests : Runs(q, j) => q = r
      BY <1>1, <3>1 DEF OnceInv, Early
    <3> QED
      BY <1>1, <3>1, <3>2 DEF Early
  <2>2. CASE j # id[r]
    BY <1>1, <2>2 DEF OnceInv, Early
  <2> QED
    BY <2>1, <2>2
<1> QED
  BY <1>2, <1>3, <1>5

(***************************************************************************)
(* Results enter the cache when the request is over; what leaves it is     *)
(* excused (store).                                                        *)
(***************************************************************************)
LEMMA StoreKeeps ==
  ASSUME RequestInv, NEW r \in Requests, StoreResult(r)
  PROVE  RequestInv'
<1> USE DEF RequestInv
<1> DEFINE gone == Evicted(cache, Capacity)
<1>1. /\ pc[r] = "store" /\ id[r] \in ElevatorIds
      /\ \A q \in Requests : pc'[q] = IF q = r THEN "idle" ELSE pc[q]
      /\ \A q \in Requests \ {r} : /\ id'[q] = id[q] /\ call'[q] = call[q]
                                   /\ result'[q] = result[q]
      /\ excused' = excused \cup (gone \ {id[r]})
      /\ acked' = acked \ {call[r]} /\ heard' = heard \ {call[r]}
      /\ UNCHANGED <<waiters, requests, sent>>
  BY DEF StoreResult, Goto, LocalOK
<1>2. CachedIds(cache') = (CachedIds(cache) \ gone) \cup {id[r]}
  BY DEF StoreResult, Store, CachedIds
<1> HIDE DEF gone
<1>3. LocalOK'
  BY DEF StoreResult, Goto, LocalOK, Verdicts
<1>4. AckInv'
  <2>1. \A q \in Requests : pc'[q] # "idle" =>
          /\ q # r /\ pc'[q] = pc[q] /\ call'[q] = call[q] /\ result'[q] = result[q]
          /\ call[q] # call[r]
    BY <1>1 DEF AckInv
  <2> QED
    BY <1>1, <2>1 DEF AckInv, NoAckIsMissed, Early
<1>5. OnceInv'
  <2> SUFFICES ASSUME NEW j \in ElevatorIds, j \notin excused'
               PROVE  /\ sent[j] <= 1
                      /\ \A q, t \in Requests : Runs(q, j)' /\ Runs(t, j)' => q = t
                      /\ \A q \in Requests : Runs(q, j)' => j \notin CachedIds(cache')
                      /\ \A q \in Requests : Runs(q, j)' /\ pc'[q] \in Early => sent[j] = 0
                      /\ j \notin CachedIds(cache') /\ (\A q \in Requests : ~Runs(q, j)')
                           => sent[j] = 0
    BY <1>1 DEF OnceInv
  <2>1. j \notin excused /\ \A q \in Requests : Runs(q, j)' => q # r /\ Runs(q, j)
    BY <1>1 DEF Runs
  <2>2. CASE j = id[r]
    <3>1. \A q \in Requests : ~Runs(q, j)'
      BY <1>1, <2>1, <2>2 DEF OnceInv, Runs
    <3> QED
      BY <1>2, <2>1, <2>2, <3>1 DEF OnceInv
  <2>3. CASE j # id[r]
    <3>1. j \in CachedIds(cache') <=> j \in CachedIds(cache)
      BY <1>1, <1>2, <2>3
    <3>2. \A q \in Requests : /\ Runs(q, j)' <=> Runs(q, j)
                              /\ Runs(q, j) => pc'[q] = pc[q]
      BY <1>1, <2>3 DEF Runs
    <3> QED
      BY <2>1, <3>1, <3>2 DEF OnceInv
  <2> QED
    BY <2>2, <2>3
<1> QED
  BY <1>3, <1>4, <1>5

(***************************************************************************)
(* An acknowledgement empties the list: it reaches everybody in it whose   *)
(* request still listens (on_wire).                                        *)
(***************************************************************************)
LEMMA AcksKeep ==
  ASSUME RequestInv, DoorAcks
  PROVE  RequestInv'
<1> USE DEF RequestInv
<1>1. /\ waiters' = {} /\ acked' = acked \cup (waiters \cap Listening)
      /\ heard' = heard \cup Waiting
      /\ UNCHANGED <<cache, pc, id, call, result, requests, sent, excused>>
  BY DEF DoorAcks, local
<1>2. /\ \A q \in Requests : pc[q] \in {"send", "wait"} => call[q] \in Listening
      /\ \A q \in Requests : pc[q] = "wait" <=> pc[q] # "idle" /\ call[q] \in Waiting
      /\ \A n \in Waiting \cup Listening : n \in Nat /\ n <= requests
  <2>1. \A q \in Requests : pc[q] \in {"send", "wait"} => call[q] \in Listening
    BY DEF Listening
  <2>2. \A q \in Requests : pc[q] = "wait" => call[q] \in Waiting
    BY DEF Waiting
  <2>3. ASSUME NEW q \in Requests, pc[q] # "idle", call[q] \in Waiting
        PROVE  pc[q] = "wait"
    <3>1. PICK t \in Requests : pc[t] = "wait" /\ call[q] = call[t]
      BY <2>3 DEF Waiting
    <3> QED
      BY <2>3, <3>1 DEF AckInv
  <2>4. \A n \in Waiting \cup Listening : n \in Nat /\ n <= requests
    BY DEF Waiting, Listening, AckInv, LocalOK
  <2> QED
    BY <2>1, <2>2, <2>3, <2>4
<1>3. LocalOK'
  BY <1>1 DEF LocalOK
<1>4. AckInv'
  <2>1. \A q \in Requests : pc[q] \in {"send", "wait"} => call[q] \in acked'
    BY <1>1, <1>2 DEF AckInv
  <2>2. \A q \in Requests : pc[q] \in Early => call[q] \notin heard'
    BY <1>1, <1>2 DEF AckInv, Early
  <2>3. \A n \in heard' \cup acked' : n \in Nat /\ n <= requests
    BY <1>1, <1>2 DEF AckInv
  <2>4. NoAckIsMissed'
    BY <1>1, <1>2 DEF AckInv, NoAckIsMissed
  <2> QED
    BY <1>1, <2>1, <2>2, <2>3, <2>4 DEF AckInv
<1>5. OnceInv'
  BY <1>1 DEF OnceInv, Runs
<1> QED
  BY <1>3, <1>4, <1>5

(***************************************************************************)
(* RequestInv holds in every state.                                        *)
(***************************************************************************)
LEMMA RequestInvariant == Spec => []RequestInv
<1>1. Init => RequestInv
  <2> SUFFICES ASSUME Init PROVE RequestInv
    OBVIOUS
  <2>1. LocalOK
    BY DEF Init, LocalOK, Verdicts
  <2>2. AckInv
    BY DEF Init, AckInv, NoAckIsMissed, Early
  <2>3. OnceInv
    BY DEF Init, OnceInv, Runs
  <2> QED
    BY <2>1, <2>2, <2>3 DEF RequestInv
<1>2. RequestInv /\ [Next]_vars => RequestInv'
  <2> SUFFICES ASSUME RequestInv, [Next]_vars PROVE RequestInv'
    OBVIOUS
  <2>1. ASSUME UNCHANGED <<cache, waiters, acked, local, sent, heard, excused>>,
               requests' \in Nat, requests' >= requests
        PROVE  RequestInv'
    <3>1. LocalOK'
      BY <2>1 DEF RequestInv, LocalOK, local
    <3>2. AckInv'
      BY <2>1 DEF RequestInv, AckInv, NoAckIsMissed, LocalOK, local
    <3>3. OnceInv'
      BY <2>1 DEF RequestInv, OnceInv, Runs, local
    <3> QED
      BY <3>1, <3>2, <3>3 DEF RequestInv
  <2>2. requests \in Nat
    BY DEF RequestInv, LocalOK
  <2>3. ASSUME NEW r \in Requests, Request(r)
        PROVE  RequestInv'
    <3>1. CASE \E i \in ElevatorIds : Replay(r, i)
      BY <2>1, <2>2, <3>1 DEF Replay
    <3>2. CASE \E i \in ElevatorIds : Begin(r, i)
      BY <3>2, BeginKeeps
    <3>3. CASE ResolveDoor(r) \/ DoorResolved(r) \/ UseLearnedDoor(r)
      <4>1. result[r] \in Verdicts /\ result' = [result EXCEPT ![r] = result[r]]
        BY <3>3 DEF ResolveDoor, DoorResolved, UseLearnedDoor, RequestInv, LocalOK
      <4>2. PICK to \in {"resolve", "listen"} : pc' = [pc EXCEPT ![r] = to]
        BY <3>3 DEF ResolveDoor, DoorResolved, UseLearnedDoor, Goto
      <4>3. /\ pc[r] \in {"door", "resolve"}
            /\ UNCHANGED <<cache, waiters, acked, id, call, requests, sent, heard, excused>>
        BY <3>3 DEF ResolveDoor, DoorResolved, UseLearnedDoor, Goto
      <4> QED
        BY <4>1, <4>2, <4>3, MoveKeeps DEF Early
    <3>4. CASE NoDoor(r) \/ CallFails(r) \/ Acknowledged(r) \/ Unanswered(r)
      <4>0. {"NoCall", "AgentOffline", "Ok"} \subseteq Verdicts
        BY DEF Verdicts
      <4>1. PICK v \in Verdicts :
              /\ result' = [result EXCEPT ![r] = v]
              /\ pc[r] = "wait" /\ call[r] \in acked => v = "Ok"
        <5>1. CASE NoDoor(r)
          BY <5>1, <4>0 DEF NoDoor, Conclude
        <5>2. CASE CallFails(r)
          BY <5>2, <4>0 DEF CallFails, Conclude, Goto
        <5>3. CASE Acknowledged(r)
          BY <5>3, <4>0 DEF Acknowledged, Conclude
        <5>4. CASE Unanswered(r)
          BY <5>4, <4>0 DEF Unanswered, Conclude
        <5> QED
          BY <3>4, <5>1, <5>2, <5>3, <5>4
      <4>2. /\ pc' = [pc EXCEPT ![r] = "store"]
            /\ pc[r] \in Early \cup {"wait"}
            /\ UNCHANGED <<cache, waiters, acked, id, call, requests, sent, heard, excused>>
        BY <3>4 DEF NoDoor, CallFails, Acknowledged, Unanswered, Conclude, Goto, Early
      <4>3. call[r] \in heard => v = "Ok"
        BY <4>1, <4>2 DEF RequestInv, AckInv
      <4> QED
        BY <4>1, <4>2, <4>3, MoveKeeps DEF Early
    <3>5. CASE Listen(r) \/ CallCar(r) \/ StoreResult(r)
      BY <3>5, ListenKeeps, CallCarKeeps, StoreKeeps
    <3>6. \/ \E i \in ElevatorIds : Replay(r, i)
          \/ \E i \in ElevatorIds : Begin(r, i)
          \/ ResolveDoor(r) \/ DoorResolved(r) \/ UseLearnedDoor(r)
          \/ NoDoor(r) \/ CallFails(r) \/ Acknowledged(r) \/ Unanswered(r)
          \/ Listen(r) \/ CallCar(r) \/ StoreResult(r)
      BY <2>3 DEF Request
    <3> QED
      BY <3>1, <3>2, <3>3, <3>4, <3>5, <3>6
  <2>4. CASE DoorAcks
    BY <2>4, AcksKeep
  <2>5. CASE LearnDoor \/ LookElsewhere \/ Discover \/ UNCHANGED vars
    BY <2>1, <2>2, <2>5 DEF LearnDoor, LookElsewhere, Discover, vars
  <2> QED
    BY <2>3, <2>4, <2>5 DEF Next
<1> QED
  BY <1>1, <1>2, PTL DEF Spec

(***************************************************************************)
(* A command id calls the car at most once, whatever the capacity of the   *)
(* cache, unless two requests with it overlap or it was evicted            *)
(* (call_elevator_now, CommandCache).                                      *)
(***************************************************************************)
THEOREM CarCalledOnce == Spec => []CalledOnce
<1>1. RequestInv => CalledOnce
  BY DEF RequestInv, OnceInv, CalledOnce
<1> QED
  BY <1>1, RequestInvariant, PTL

(***************************************************************************)
(* No request that waits when an acknowledgement comes reports the Agent   *)
(* offline (call_elevator_now, on_wire).                                   *)
(***************************************************************************)
THEOREM AcksHeard == Spec => []NoAckIsMissed
<1>1. RequestInv => NoAckIsMissed
  BY DEF RequestInv, AckInv
<1> QED
  BY <1>1, RequestInvariant, PTL
================================================================================
