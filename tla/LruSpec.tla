------------------------------- MODULE LruSpec -------------------------------
(***************************************************************************)
(* What the cache of hw04 promises: the pairs in the order of their last   *)
(* use, the most recent first, of which no more than capacity are kept.    *)
(***************************************************************************)
EXTENDS Integers, Sequences, SequencesExt

CONSTANTS Keys, Values, NoValue, Capacities

VARIABLES
  capacity,
  recent,   \* the pairs of the cache, the one used last first
  answer    \* what the last call returned

vars == <<capacity, recent, answer>>

Init ==
  /\ capacity \in Capacities
  /\ recent = <<>>
  /\ answer = [ok |-> FALSE, value |-> NoValue]

Position(key) == {p \in DOMAIN recent : recent[p].k = key}
Kept(s) == SubSeq(s, 1, IF Len(s) > capacity THEN capacity ELSE Len(s))

\* A new pair may push out the one used least recently, a known key has its pair
\* replaced.
Set(key, value) ==
  /\ \/ /\ Position(key) = {}
        /\ recent' = Kept(<<[k |-> key, v |-> value]>> \o recent)
        /\ answer' = [ok |-> FALSE, value |-> NoValue]
     \/ \E p \in Position(key) :
          /\ recent' = <<[k |-> key, v |-> value]>> \o RemoveAt(recent, p)
          /\ answer' = [ok |-> TRUE, value |-> NoValue]
  /\ UNCHANGED capacity

Get(key) ==
  /\ \/ /\ Position(key) = {}
        /\ answer' = [ok |-> FALSE, value |-> NoValue]
        /\ UNCHANGED recent
     \/ \E p \in Position(key) :
          /\ answer' = [ok |-> TRUE, value |-> recent[p].v]
          /\ recent' = <<recent[p]>> \o RemoveAt(recent, p)
  /\ UNCHANGED capacity

Clear ==
  /\ recent' = <<>>
  /\ UNCHANGED <<capacity, answer>>

Next ==
  \/ \E key \in Keys, value \in Values : Set(key, value)
  \/ \E key \in Keys : Get(key)
  \/ Clear

Spec == Init /\ [][Next]_vars
==============================================================================
