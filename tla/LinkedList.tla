----------------------------- MODULE LinkedList -----------------------------
(***************************************************************************)
(* hw04, list.go: the doubly linked list with its pointers.  A list is the *)
(* struct together with the fields of the ListItems it may point to.  The  *)
(* operators are what its methods make of it; the actions are those of a   *)
(* caller that holds a List of his own and, as the README of hw04 asks,    *)
(* gives Remove and MoveToFront only items that are in it.                 *)
(***************************************************************************)
EXTENDS Integers, Sequences

CONSTANTS
  Items,    \* the addresses of ListItems
  Values,   \* the values a caller puts into his list
  NoValue,  \* the nil interface
  Nil,      \* the nil pointer
  MaxLen    \* bound of the length of the caller's list

ASSUME NilAssumption == Nil \notin Items
ASSUME MaxLenAssumption == MaxLen \in Nat

VARIABLE list   \* the caller's List

NewList ==
  [length |-> 0, first |-> Nil, last |-> Nil,
   next |-> [i \in Items |-> Nil], prev |-> [i \in Items |-> Nil],
   value |-> [i \in Items |-> NoValue]]

Lists(V) ==
  [length : Nat, first : Items \cup {Nil}, last : Items \cup {Nil},
   next : [Items -> Items \cup {Nil}], prev : [Items -> Items \cup {Nil}],
   value : [Items -> V \cup {NoValue}]]

PushedToEmpty(l, i) ==
  [l EXCEPT !.prev[i] = Nil, !.next[i] = Nil, !.first = i, !.last = i, !.length = 1]

\* Mutant: the old first item is not told of the new one.
PushFrontForward(l, i) ==
  IF l.length = 0 THEN PushedToEmpty(l, i)
  ELSE [l EXCEPT !.prev[i] = Nil, !.next[i] = l.first, !.first = i, !.length = @ + 1]

PushFront(l, i) ==
  IF l.length = 0 THEN PushedToEmpty(l, i)
  ELSE [l EXCEPT !.prev[l.first] = i, !.prev[i] = Nil, !.next[i] = l.first,
                 !.first = i, !.length = @ + 1]

PushBack(l, i) ==
  IF l.length = 0 THEN PushedToEmpty(l, i)
  ELSE [l EXCEPT !.next[l.last] = i, !.prev[i] = l.last, !.next[i] = Nil,
                 !.last = i, !.length = @ + 1]

\* A neighbour that is nil is a pointer of the list itself.
Remove(l, i) ==
  LET before == l.prev[i] after == l.next[i] IN
  [l EXCEPT
     !.next = [j \in Items |-> IF j = i THEN Nil ELSE IF j = before THEN after ELSE @[j]],
     !.prev = [j \in Items |-> IF j = i THEN Nil ELSE IF j = after THEN before ELSE @[j]],
     !.first = IF before = Nil THEN after ELSE @,
     !.last = IF after = Nil THEN before ELSE @,
     !.length = @ - 1]

\* Mutant: the item is pushed without having been removed.
MoveTwice(l, i) == IF l.first = i THEN l ELSE PushFront(l, i)

MoveToFront(l, i) == IF l.first = i THEN l ELSE PushFront(Remove(l, i), i)

\* &ListItem{Value: v}
WithItem(l, i, v) == [l EXCEPT !.value[i] = v]

(***************************************************************************)
(* What a list stands for: the items met on the way from its first one.    *)
(***************************************************************************)
Order(l) ==
  LET at[k \in 1..l.length] ==
        IF k = 1 THEN l.first ELSE IF at[k - 1] = Nil THEN Nil ELSE l.next[at[k - 1]]
  IN  at

\* A list is linked as "nil <- front <-> ... <-> back -> nil": both directions pass
\* the same items once, and what is outside points to nothing.
Represents(l, s) ==
  /\ l.length = Len(s)
  /\ \A j, k \in 1..Len(s) : s[j] = s[k] => j = k
  /\ s = <<>> => l.first = Nil /\ l.last = Nil
  /\ s # <<>> => l.first = s[1] /\ l.last = s[Len(s)]
  /\ \A k \in 1..Len(s) :
       /\ l.prev[s[k]] = (IF k = 1 THEN Nil ELSE s[k - 1])
       /\ l.next[s[k]] = (IF k = Len(s) THEN Nil ELSE s[k + 1])
  /\ \A i \in Items :
       (\A k \in 1..Len(s) : s[k] # i) => l.prev[i] = Nil /\ l.next[i] = Nil

Linked(l) == Order(l) \in Seq(Items) /\ Represents(l, Order(l))

(***************************************************************************)
(* A caller with a list.                                                   *)
(***************************************************************************)
ListInit == list = NewList

InList(l) == {Order(l)[k] : k \in 1..l.length}

CallPushFront(i, v) ==
  /\ list.length < MaxLen /\ i \in Items \ InList(list)
  /\ list' = PushFront(WithItem(list, i, v), i)

CallPushBack(i, v) ==
  /\ list.length < MaxLen /\ i \in Items \ InList(list)
  /\ list' = PushBack(WithItem(list, i, v), i)

CallRemove(i) ==
  /\ i \in InList(list)
  /\ list' = Remove(list, i)

CallMoveToFront(i) ==
  /\ i \in InList(list)
  /\ list' = MoveToFront(list, i)

ListNext ==
  \/ \E i \in Items, v \in Values : CallPushFront(i, v)
  \/ \E i \in Items, v \in Values : CallPushBack(i, v)
  \/ \E i \in Items : CallRemove(i)
  \/ \E i \in Items : CallMoveToFront(i)
=============================================================================
