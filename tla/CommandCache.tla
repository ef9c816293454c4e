----------------------------- MODULE CommandCache ------------------------------
(***************************************************************************)
(* The bounded idempotency cache of command results (CommandCache in       *)
(* agent_api.rs): a map from command id to result and a queue of ids in    *)
(* the order they were stored, which decides whom to evict.                *)
(*                                                                         *)
(* As in the code, store() never looks whether the id is there already:    *)
(* a second store of an id queues it a second time, and the map's size,    *)
(* not the queue's, decides whether to evict.                              *)
(***************************************************************************)
EXTENDS Naturals, Sequences, FiniteSets

EmptyCache == [results |-> <<>>, order |-> <<>>]

CachedIds(cache) == DOMAIN cache.results

\* The id store() removes for room, as a set of at most one element: the
\* front of the queue, which the map need not hold any more.
Evicted(cache, capacity) ==
    IF Cardinality(CachedIds(cache)) >= capacity /\ cache.order # <<>>
      THEN {Head(cache.order)}
      ELSE {}

\* store(): evict when the map is full, then queue and insert.
Store(cache, capacity, id, result) ==
    LET gone == Evicted(cache, capacity)
    IN  [results |-> [i \in (CachedIds(cache) \ gone) \cup {id} |->
                         IF i = id THEN result ELSE cache.results[i]],
         order   |-> Append(IF gone = {} THEN cache.order ELSE Tail(cache.order), id)]
================================================================================
