------------------------------ MODULE LruCache ------------------------------
(***************************************************************************)
(* hw04, cache.go: a map from keys to items of a linked list, which keeps  *)
(* them in the order of their last use, and which tells the least recently *)
(* used one when the cache is full.  Beside the cache there is a List that *)
(* a caller uses directly; the two share nothing.                          *)
(***************************************************************************)
EXTENDS LinkedList

CONSTANTS
  Keys,
  Capacities   \* the capacities a caller asks for

ASSUME CapacitiesAssumption == Capacities \subseteq Nat

VARIABLES
  capacity,
  queue,    \* the list of the cache
  items,    \* the map, Nil for a key that is not in it
  answer    \* what the last call returned

cacheVars == <<capacity, queue, items, answer>>
vars == <<cacheVars, list>>

CacheItemValue == [k : Keys, v : Values]

TypeOK ==
  /\ capacity \in Capacities
  /\ queue \in Lists(CacheItemValue)
  /\ items \in [Keys -> Items \cup {Nil}]
  /\ answer \in [ok : BOOLEAN, value : Values \cup {NoValue}]
  /\ list \in Lists(Values)

Init ==
  /\ capacity \in Capacities
  /\ queue = NewList
  /\ items = [key \in Keys |-> Nil]
  /\ answer = [ok |-> FALSE, value |-> NoValue]
  /\ ListInit

Found(key) == items[key] # Nil

SetPresent(key, value) ==
  /\ Found(key)
  /\ queue' = MoveToFront(WithItem(queue, items[key], [k |-> key, v |-> value]), items[key])
  /\ answer' = [ok |-> TRUE, value |-> NoValue]
  /\ UNCHANGED <<capacity, items>>

\* Mutant: the map keeps what was evicted from the queue.
SetAbsentKeepsMap(key, value) ==
  /\ ~Found(key)
  /\ \E i \in Items \ InList(queue) :
       LET pushed == PushFront(WithItem(queue, i, [k |-> key, v |-> value]), i) IN
       /\ queue' = IF pushed.length > capacity THEN Remove(pushed, pushed.last) ELSE pushed
       /\ items' = [items EXCEPT ![key] = i]
  /\ answer' = [ok |-> FALSE, value |-> NoValue]
  /\ UNCHANGED capacity

\* A new item is pushed, and if that is one too many the last one is evicted from
\* the queue and from the map: with a capacity of 0 the new one itself.
SetAbsent(key, value) ==
  /\ ~Found(key)
  /\ \E i \in Items \ InList(queue) :
       LET pushed == PushFront(WithItem(queue, i, [k |-> key, v |-> value]), i)
           added == [items EXCEPT ![key] = i]
           toDelete == pushed.last
       IN  IF pushed.length > capacity
           THEN /\ queue' = Remove(pushed, toDelete)
                /\ items' = [added EXCEPT ![pushed.value[toDelete].k] = Nil]
           ELSE /\ queue' = pushed
                /\ items' = added
  /\ answer' = [ok |-> FALSE, value |-> NoValue]
  /\ UNCHANGED capacity

Set(key, value) == SetPresent(key, value) \/ SetAbsent(key, value)

GetAbsent(key) ==
  /\ ~Found(key)
  /\ answer' = [ok |-> FALSE, value |-> NoValue]
  /\ UNCHANGED <<capacity, queue, items>>

\* Mutant: the use of an item is not noted.
GetPresentOnly(key) ==
  /\ Found(key)
  /\ answer' = [ok |-> TRUE, value |-> queue.value[items[key]].v]
  /\ UNCHANGED <<capacity, queue, items>>

\* Mutant: the whole pair is returned.
GetPresentPair(key) ==
  /\ Found(key)
  /\ answer' = [ok |-> TRUE, value |-> queue.value[items[key]]]
  /\ queue' = MoveToFront(queue, items[key])
  /\ UNCHANGED <<capacity, items>>

GetPresent(key) ==
  /\ Found(key)
  /\ answer' = [ok |-> TRUE, value |-> queue.value[items[key]].v]
  /\ queue' = MoveToFront(queue, items[key])
  /\ UNCHANGED <<capacity, items>>

Get(key) == GetPresent(key) \/ GetAbsent(key)

Clear ==
  /\ queue' = NewList
  /\ items' = [key \in Keys |-> Nil]
  /\ UNCHANGED <<capacity, answer>>

CacheNext ==
  \/ \E key \in Keys, value \in Values : Set(key, value)
  \/ \E key \in Keys : Get(key)
  \/ Clear

Next ==
  \/ CacheNext /\ UNCHANGED list
  \/ ListNext /\ UNCHANGED cacheVars

Spec == Init /\ [][Next]_vars

(***************************************************************************)
(* Properties.                                                             *)
(***************************************************************************)

\* After any sequence of pushes, removals and moves both lists hang together, in
\* both directions, and no link leads out of them or into them.
WellLinked == Linked(queue) /\ Linked(list)

\* The map and the queue hold the same pairs: each key leads to its own item, no
\* item is left without its key, and there are never more of them than capacity.
MapMatchesQueue ==
  /\ {items[key] : key \in Keys} \ {Nil} = InList(queue)
  /\ \A key \in Keys : Found(key) => queue.value[items[key]].k = key
  /\ queue.length <= capacity

\* The pointers, the length and the map are those of a list and a cache after every
\* sequence of calls.
RepresentationOK == TypeOK /\ WellLinked /\ MapMatchesQueue

\* What a key leads to is a pair; no item of the queue is one without a value.
Stored == \A key \in Keys : Found(key) => queue.value[items[key]] \in CacheItemValue

CacheInv == RepresentationOK /\ Stored

\* The values of a list in their order.
Content(l) == [p \in 1..l.length |-> l.value[Order(l)[p]]]

\* The cache answers and evicts as a sequence of pairs in the order of their last
\* use does: whatever the pointers and the map do, Set, Get and Clear are those of
\* LruSpec.
Lru == INSTANCE LruSpec WITH recent <- Content(queue)
CacheImplementsLru == Lru!Spec

\* A caller's list is a sequence of values.
AbstractList == INSTANCE ListSpec WITH content <- Content(list)
ListImplementsSequence == AbstractList!Spec
=============================================================================
