---------------------------- MODULE LruCache_proof ----------------------------
(***************************************************************************)
(* The pointers of the list stand for a sequence, and its methods do to    *)
(* the pointers what an insertion, a removal and a move do to a sequence.  *)
(* From that follow the invariants of the list and of the cache, and that  *)
(* both implement their abstract specifications, however long they are.    *)
(***************************************************************************)
EXTENDS LruCache, SequenceTheorems, WellFoundedInduction, TLAPS

\* A set of natural numbers with an element has a least one.
LEMMA LeastOf ==
  ASSUME NEW T, T \subseteq Nat, T # {}
  PROVE  \E m \in T : \A k \in T : m <= k
<1>1. \E x \in T : \A y \in T : ~(<<y, x>> \in OpToRel(<, Nat))
  <2> DEFINE R == OpToRel(<, Nat)
  <2>1. IsWellFoundedOn(R, Nat)
    BY NatLessThanWellFounded
  <2> HIDE DEF R
  <2>2. \E x \in T : \A y \in T : ~(<<y, x>> \in R)
    BY <2>1, WFMin
  <2> QED
    BY <2>2 DEF R
<1>2. PICK x \in T : \A y \in T : ~(<<y, x>> \in OpToRel(<, Nat))
  BY <1>1
<1>3. \A y \in T : ~(y < x)
  BY <1>2 DEF OpToRel
<1> QED
  BY <1>3

\* A list stands for one sequence only: the one met on the way from its first item.
LEMMA OrderUnique ==
  ASSUME NEW l, NEW s \in Seq(Items), Represents(l, s)
  PROVE  Order(l) = s
<1> DEFINE F(f) == [k \in 1..l.length |->
             IF k = 1 THEN l.first ELSE IF f[k - 1] = Nil THEN Nil ELSE l.next[f[k - 1]]]
<1>1. /\ Len(s) \in Nat /\ l.length = Len(s) /\ s \in [1..Len(s) -> Items]
      /\ \A k \in 1..Len(s) : s[k] \in Items /\ s[k] # Nil
  BY NilAssumption DEF Represents
<1>2. 1 \in 1..Len(s) => l.first = s[1]
  BY DEF Represents
<1>3. \A k \in 1..Len(s) : k # 1 => k - 1 \in 1..Len(s) /\ l.next[s[k - 1]] = s[k]
  <2> SUFFICES ASSUME NEW k \in 1..Len(s), k # 1
               PROVE  k - 1 \in 1..Len(s) /\ l.next[s[k - 1]] = s[k]
    OBVIOUS
  <2>1. k - 1 \in 1..Len(s) /\ k - 1 # Len(s) /\ (k - 1) + 1 = k
    BY <1>1
  <2> QED
    BY <2>1 DEF Represents
<1>4. s = F(s)
  <2>1. \A k \in 1..l.length : s[k] = F(s)[k]
    BY <1>1, <1>2, <1>3
  <2> QED
    BY <1>1, <2>1
<1>5. Order(l) = F(Order(l))
  BY <1>4, Zenon DEF Order
<1> DEFINE g == Order(l)
           T == {k \in 1..Len(s) : g[k] # s[k]}
<1>6. /\ g = [k \in 1..Len(s) |-> g[k]]
      /\ 1 \in 1..Len(s) => g[1] = l.first
      /\ \A k \in 1..Len(s) : k # 1 =>
           g[k] = (IF g[k - 1] = Nil THEN Nil ELSE l.next[g[k - 1]])
  <2> HIDE DEF g
  <2>1. g = F(g)
    BY <1>5 DEF g
  <2> QED
    BY <1>1, <2>1
<1> HIDE DEF g
<1>7. T = {}
  <2> SUFFICES ASSUME T # {} PROVE FALSE
    OBVIOUS
  <2>1. T \subseteq Nat
    OBVIOUS
  <2> HIDE DEF T
  <2>2. PICK m \in T : \A k \in T : m <= k
    BY <2>1, LeastOf
  <2>3. m \in 1..Len(s) /\ g[m] # s[m]
    BY DEF T
  <2>4. CASE m = 1
    BY <2>3, <2>4, <1>2, <1>6
  <2>5. CASE m # 1
    <3>1. m - 1 \in 1..Len(s) /\ l.next[s[m - 1]] = s[m]
      BY <1>3, <2>3, <2>5
    <3>2. g[m - 1] = s[m - 1]
      <4>1. ~(m <= m - 1)
        BY <2>3, <1>1
      <4> QED
        BY <4>1, <2>2, <3>1 DEF T
    <3> QED
      BY <2>3, <2>5, <3>1, <3>2, <1>1, <1>6
  <2> QED
    BY <2>4, <2>5
<1>8. \A k \in 1..Len(s) : g[k] = s[k]
  BY <1>7
<1>9. g = s
  BY <1>1, <1>6, <1>8
<1> QED
  BY <1>9 DEF g

(***************************************************************************)
(* Sequences.                                                              *)
(***************************************************************************)

\* The sequence without its k-th element: RemoveAt, as the specifications write it.
Without(s, k) == SubSeq(s, 1, k - 1) \o SubSeq(s, k + 1, Len(s))

Distinct(s) == \A j, k \in 1..Len(s) : s[j] = s[k] => j = k

\* One more in front.
LEMMA InFront ==
  ASSUME NEW S, NEW s \in Seq(S), NEW i \in S
  PROVE  /\ <<i>> \o s \in Seq(S)
         /\ Len(<<i>> \o s) = Len(s) + 1
         /\ (<<i>> \o s)[1] = i
         /\ \A k \in 1..(Len(s) + 1) : k # 1 =>
              k - 1 \in 1..Len(s) /\ (<<i>> \o s)[k] = s[k - 1]
OBVIOUS

\* One more at the back.
LEMMA AtBack ==
  ASSUME NEW S, NEW s \in Seq(S), NEW i \in S
  PROVE  /\ Append(s, i) \in Seq(S)
         /\ Len(Append(s, i)) = Len(s) + 1
         /\ Append(s, i)[Len(s) + 1] = i
         /\ \A k \in 1..Len(s) : Append(s, i)[k] = s[k]
OBVIOUS

\* One less.
LEMMA WithoutOne ==
  ASSUME NEW S, NEW s \in Seq(S), NEW k \in 1..Len(s)
  PROVE  /\ Without(s, k) \in Seq(S)
         /\ Len(Without(s, k)) = Len(s) - 1
         /\ \A j \in 1..(Len(s) - 1) :
              Without(s, k)[j] = (IF j < k THEN s[j] ELSE s[j + 1])
<1> DEFINE head == SubSeq(s, 1, k - 1)
           rest == SubSeq(s, k + 1, Len(s))
<1>1. /\ Len(s) \in Nat /\ k \in Nat /\ \A j \in 1..Len(s) : s[j] \in S
  OBVIOUS
<1>2. /\ head \in Seq(S) /\ Len(head) = k - 1
      /\ \A j \in 1..(k - 1) : head[j] = s[j]
  BY <1>1
<1>3. /\ rest \in Seq(S) /\ Len(rest) = Len(s) - k
      /\ \A j \in 1..(Len(s) - k) : rest[j] = s[j + k]
  BY <1>1
<1> HIDE DEF head, rest
<1>4. /\ head \o rest \in Seq(S) /\ Len(head \o rest) = Len(s) - 1
      /\ \A j \in 1..(Len(s) - 1) :
           (head \o rest)[j] = (IF j < k THEN head[j] ELSE rest[j - (k - 1)])
  <2> DEFINE both == head \o rest
  <2>1. both \in Seq(S) /\ Len(both) = Len(s) - 1
    BY <1>1, <1>2, <1>3
  <2>2. ASSUME NEW j \in 1..(Len(s) - 1)
        PROVE  both[j] = (IF j < k THEN head[j] ELSE rest[j - (k - 1)])
    BY <1>1, <1>2, <1>3, <2>1
  <2> QED
    BY <2>1, <2>2
<1>5. ASSUME NEW j \in 1..(Len(s) - 1)
      PROVE  (head \o rest)[j] = (IF j < k THEN s[j] ELSE s[j + 1])
  <2>1. CASE j < k
    BY <2>1, <1>1, <1>2, <1>4
  <2>2. CASE ~(j < k)
    <3>1. j - (k - 1) \in 1..(Len(s) - k) /\ (j - (k - 1)) + k = j + 1
      BY <2>2, <1>1
    <3> QED
      BY <3>1, <2>2, <1>3, <1>4
  <2> QED
    BY <2>1, <2>2
<1> QED
  BY <1>4, <1>5 DEF Without, head, rest

(***************************************************************************)
(* The methods of the list.                                                *)
(***************************************************************************)

\* A new list stands for the empty sequence.
LEMMA NewListTyped ==
  ASSUME NEW V
  PROVE  NewList \in Lists(V) /\ Represents(NewList, <<>>)
BY DEF NewList, Lists, Represents

\* What a list stands for does not depend on the values of its items.
LEMMA WithItemTyped ==
  ASSUME NEW V, NEW l \in Lists(V), NEW i \in Items, NEW v \in V, NEW s \in Seq(Items),
         Represents(l, s)
  PROVE  /\ WithItem(l, i, v) \in Lists(V) /\ Represents(WithItem(l, i, v), s)
         /\ WithItem(l, i, v).value = [l.value EXCEPT ![i] = v]
         /\ WithItem(l, i, v).first = l.first /\ WithItem(l, i, v).last = l.last
         /\ WithItem(l, i, v).length = l.length
<1> DEFINE r == WithItem(l, i, v)
<1>1. /\ r.length = l.length /\ r.first = l.first /\ r.last = l.last
      /\ r.next = l.next /\ r.prev = l.prev /\ r.value = [l.value EXCEPT ![i] = v]
      /\ r \in Lists(V)
  BY DEF WithItem, Lists
<1> HIDE DEF r
<1>2. Represents(r, s)
  BY <1>1 DEF Represents
<1> QED
  BY <1>1, <1>2 DEF r

\* An item that is not in the list, pushed to its front, is the first one.
LEMMA PushFrontRepresents ==
  ASSUME NEW V, NEW l \in Lists(V), NEW s \in Seq(Items), Represents(l, s),
         NEW i \in Items, \A k \in 1..Len(s) : s[k] # i
  PROVE  /\ PushFront(l, i) \in Lists(V)
         /\ Represents(PushFront(l, i), <<i>> \o s)
         /\ PushFront(l, i).value = l.value
<1> DEFINE r == PushFront(l, i)
           t == <<i>> \o s
<1>1. /\ Len(s) \in Nat /\ l.length = Len(s) /\ \A k \in 1..Len(s) : s[k] \in Items /\ s[k] # Nil
      /\ l.next \in [Items -> Items \cup {Nil}] /\ l.prev \in [Items -> Items \cup {Nil}]
      /\ i # Nil
  BY NilAssumption DEF Represents, Lists
<1>2. /\ t \in Seq(Items) /\ Len(t) = Len(s) + 1 /\ t[1] = i
      /\ \A k \in 1..(Len(s) + 1) : k # 1 => k - 1 \in 1..Len(s) /\ t[k] = s[k - 1]
  BY InFront
<1>3. \A j, k \in 1..Len(t) : t[j] = t[k] => j = k
  <2> HIDE DEF t
  <2> SUFFICES ASSUME NEW j \in 1..Len(t), NEW k \in 1..Len(t), t[j] = t[k]
               PROVE  j = k
    OBVIOUS
  <2>1. \A a, b \in 1..Len(s) : s[a] = s[b] => a = b
    BY DEF Represents
  <2>2. CASE j = 1 \/ k = 1
    BY <1>1, <1>2, <2>2
  <2>3. CASE j # 1 /\ k # 1
    <3>1. j - 1 = k - 1
      BY <1>1, <1>2, <2>1, <2>3
    <3> QED
      BY <3>1, <1>1, <1>2
  <2> QED
    BY <2>2, <2>3
<1>4. CASE Len(s) = 0
  <2>1. /\ r.length = 1 /\ r.first = i /\ r.last = i /\ r.value = l.value
        /\ r.next = [l.next EXCEPT ![i] = Nil] /\ r.prev = [l.prev EXCEPT ![i] = Nil]
        /\ r \in Lists(V)
    BY <1>1, <1>4 DEF PushFront, PushedToEmpty, Lists
  <2>2. \A j \in Items : l.next[j] = Nil /\ l.prev[j] = Nil
    BY <1>1, <1>4 DEF Represents
  <2>3. \A j \in Items : r.next[j] = Nil /\ r.prev[j] = Nil
    BY <2>1, <2>2, <1>1
  <2> HIDE DEF r, t
  <2>4. Len(t) = 1 /\ t # <<>> /\ \A k \in 1..Len(t) : k = 1 /\ t[k] = i
    <3>1. Len(t) = 1
      BY <1>2, <1>4
    <3> QED
      BY <3>1, <1>2
  <2>5. \A k \in 1..Len(t) : r.prev[t[k]] = Nil /\ r.next[t[k]] = Nil
    BY <2>3, <2>4
  <2>6. Represents(r, t)
    BY <2>1, <2>3, <2>4, <2>5, <1>3 DEF Represents
  <2> QED
    BY <2>1, <2>6 DEF r, t
<1>5. CASE Len(s) # 0
  <2>0. 1 \in 1..Len(s) /\ Len(s) \in 1..Len(s) /\ l.first = s[1] /\ l.last = s[Len(s)] /\ s # <<>>
    BY <1>1, <1>5 DEF Represents
  <2>1. /\ r.length = Len(s) + 1 /\ r.first = i /\ r.last = s[Len(s)] /\ r.value = l.value
        /\ r.next = [l.next EXCEPT ![i] = s[1]]
        /\ r.prev = [l.prev EXCEPT ![s[1]] = i, ![i] = Nil]
        /\ r \in Lists(V)
    <3>1. l.length # 0
      BY <1>1, <1>5
    <3>2. r = [l EXCEPT !.prev[l.first] = i, !.prev[i] = Nil, !.next[i] = l.first,
                        !.first = i, !.length = @ + 1]
      BY <3>1, Zenon DEF PushFront
    <3>3. /\ r.length = l.length + 1 /\ r.first = i /\ r.last = l.last /\ r.value = l.value
      BY <3>2 DEF Lists
    <3>4. r.next = [l.next EXCEPT ![i] = l.first]
      BY <3>2 DEF Lists
    <3>5. r.prev = [l.prev EXCEPT ![l.first] = i, ![i] = Nil]
      BY <3>2 DEF Lists
    <3>6. r \in Lists(V)
      <4>1. r = [length |-> l.length + 1, first |-> i, last |-> l.last, next |-> r.next,
                 prev |-> r.prev, value |-> l.value]
        BY <3>2, <3>3 DEF Lists
      <4>2. r.next \in [Items -> Items \cup {Nil}] /\ r.prev \in [Items -> Items \cup {Nil}]
        <5> HIDE DEF r
        <5> QED
          BY <3>4, <3>5, <2>0, <1>1
      <4>3. l.length + 1 \in Nat /\ l.last \in Items \cup {Nil} /\ l.value \in [Items -> V \cup {NoValue}]
        BY DEF Lists
      <4> HIDE DEF r
      <4> QED
        BY <4>1, <4>2, <4>3 DEF Lists
    <3> QED
      BY <3>3, <3>4, <3>5, <3>6, <2>0, <1>1
  <2>2. \A j \in Items :
          /\ r.next[j] = (IF j = i THEN s[1] ELSE l.next[j])
          /\ r.prev[j] = (IF j = i THEN Nil ELSE IF j = s[1] THEN i ELSE l.prev[j])
    BY <2>1, <2>0, <1>1
  <2>3. \A k \in 1..Len(s) :
          /\ l.prev[s[k]] = (IF k = 1 THEN Nil ELSE s[k - 1])
          /\ l.next[s[k]] = (IF k = Len(s) THEN Nil ELSE s[k + 1])
          /\ s[k] = s[1] => k = 1
    BY <2>0 DEF Represents
  <2>4. \A j \in Items : (\A k \in 1..Len(s) : s[k] # j) => l.prev[j] = Nil /\ l.next[j] = Nil
    BY DEF Represents
  <2> HIDE DEF r, t
  <2>5. ASSUME NEW k \in 1..Len(t)
        PROVE  /\ r.prev[t[k]] = (IF k = 1 THEN Nil ELSE t[k - 1])
               /\ r.next[t[k]] = (IF k = Len(t) THEN Nil ELSE t[k + 1])
    <3>1. CASE k = 1
      <4>1. t[2] = s[1] /\ 1 # Len(t)
        BY <1>1, <1>2, <1>5
      <4> QED
        BY <3>1, <4>1, <1>2, <2>2
    <3>2. CASE k # 1
      <4>1. k - 1 \in 1..Len(s) /\ t[k] = s[k - 1] /\ k \in Nat
        BY <3>2, <1>1, <1>2
      <4>2. r.prev[t[k]] = t[k - 1]
        <5>1. CASE k = 2
          BY <5>1, <4>1, <1>1, <1>2, <2>2
        <5>2. CASE k # 2
          <6>1. /\ k - 1 # 1 /\ s[k - 1] # s[1] /\ (k - 1) - 1 \in 1..Len(s)
                /\ k - 1 \in 1..Len(t) /\ t[k - 1] = s[(k - 1) - 1]
            BY <5>2, <4>1, <1>1, <1>2, <2>3, <3>2
          <6> QED
            BY <6>1, <4>1, <1>1, <2>2, <2>3
        <5> QED
          BY <5>1, <5>2
      <4>3. r.next[t[k]] = (IF k = Len(t) THEN Nil ELSE t[k + 1])
        <5>1. r.next[t[k]] = (IF k - 1 = Len(s) THEN Nil ELSE s[(k - 1) + 1])
          BY <4>1, <1>1, <2>2, <2>3
        <5>2. k # Len(t) => t[k + 1] = s[k]
          <6> HAVE k # Len(t)
          <6>1. k + 1 \in 1..(Len(s) + 1) /\ k + 1 # 1 /\ (k + 1) - 1 = k
            BY <4>1, <1>1, <1>2
          <6> QED
            BY <6>1, <1>2
        <5> QED
          BY <5>1, <5>2, <4>1, <1>1, <1>2
      <4> QED
        BY <4>2, <4>3, <3>2
    <3> QED
      BY <3>1, <3>2
  <2>6. ASSUME NEW j \in Items, \A k \in 1..Len(t) : t[k] # j
        PROVE  r.prev[j] = Nil /\ r.next[j] = Nil
    <3>1. j # i
      BY <2>6, <1>1, <1>2
    <3>2. \A k \in 1..Len(s) : s[k] # j
      <4> SUFFICES ASSUME NEW k \in 1..Len(s) PROVE s[k] # j
        OBVIOUS
      <4>1. k + 1 \in 1..Len(t) /\ t[k + 1] = s[k]
        BY <1>1, <1>2
      <4> QED
        BY <4>1, <2>6
    <3> QED
      BY <3>1, <3>2, <2>0, <2>2, <2>4
  <2>7. t # <<>> /\ t[Len(t)] = s[Len(s)]
    BY <1>1, <1>2, <1>5
  <2>8. Represents(r, t)
    BY <2>1, <2>5, <2>6, <2>7, <1>1, <1>2, <1>3 DEF Represents
  <2> QED
    BY <2>1, <2>8 DEF r, t
<1> QED
  BY <1>4, <1>5

\* One that is pushed to its back is the last one.
LEMMA PushBackRepresents ==
  ASSUME NEW V, NEW l \in Lists(V), NEW s \in Seq(Items), Represents(l, s),
         NEW i \in Items, \A k \in 1..Len(s) : s[k] # i
  PROVE  /\ PushBack(l, i) \in Lists(V)
         /\ Represents(PushBack(l, i), Append(s, i))
         /\ PushBack(l, i).value = l.value
<1> DEFINE r == PushBack(l, i)
           t == Append(s, i)
<1>1. /\ Len(s) \in Nat /\ l.length = Len(s) /\ \A k \in 1..Len(s) : s[k] \in Items /\ s[k] # Nil
      /\ l.next \in [Items -> Items \cup {Nil}] /\ l.prev \in [Items -> Items \cup {Nil}]
      /\ i # Nil
  BY NilAssumption DEF Represents, Lists
<1>2. /\ t \in Seq(Items) /\ Len(t) = Len(s) + 1 /\ t[Len(s) + 1] = i
      /\ \A k \in 1..Len(s) : t[k] = s[k]
  BY AtBack
<1>3. \A j, k \in 1..Len(t) : t[j] = t[k] => j = k
  <2> HIDE DEF t
  <2> SUFFICES ASSUME NEW j \in 1..Len(t), NEW k \in 1..Len(t), t[j] = t[k]
               PROVE  j = k
    OBVIOUS
  <2>1. \A a, b \in 1..Len(s) : s[a] = s[b] => a = b
    BY DEF Represents
  <2>2. CASE j = Len(s) + 1 \/ k = Len(s) + 1
    BY <1>1, <1>2, <2>2
  <2>3. CASE j # Len(s) + 1 /\ k # Len(s) + 1
    BY <1>1, <1>2, <2>1, <2>3
  <2> QED
    BY <2>2, <2>3
<1>4. CASE Len(s) = 0
  <2>1. /\ r.length = 1 /\ r.first = i /\ r.last = i /\ r.value = l.value
        /\ r.next = [l.next EXCEPT ![i] = Nil] /\ r.prev = [l.prev EXCEPT ![i] = Nil]
        /\ r \in Lists(V)
    BY <1>1, <1>4 DEF PushBack, PushedToEmpty, Lists
  <2>2. \A j \in Items : l.next[j] = Nil /\ l.prev[j] = Nil
    BY <1>1, <1>4 DEF Represents
  <2>3. \A j \in Items : r.next[j] = Nil /\ r.prev[j] = Nil
    BY <2>1, <2>2, <1>1
  <2> HIDE DEF r, t
  <2>4. Len(t) = 1 /\ t # <<>> /\ \A k \in 1..Len(t) : k = 1 /\ t[k] = i
    <3>1. Len(t) = 1
      BY <1>2, <1>4
    <3> QED
      BY <3>1, <1>2, <1>4
  <2>5. \A k \in 1..Len(t) : r.prev[t[k]] = Nil /\ r.next[t[k]] = Nil
    BY <2>3, <2>4
  <2>6. Represents(r, t)
    BY <2>1, <2>3, <2>4, <2>5, <1>3 DEF Represents
  <2> QED
    BY <2>1, <2>6 DEF r, t
<1>5. CASE Len(s) # 0
  <2> DEFINE b == s[Len(s)]
  <2>0. 1 \in 1..Len(s) /\ Len(s) \in 1..Len(s) /\ l.first = s[1] /\ l.last = b /\ s # <<>>
        /\ b \in Items
    BY <1>1, <1>5 DEF Represents
  <2> HIDE DEF b
  <2>1. /\ r.length = Len(s) + 1 /\ r.first = s[1] /\ r.last = i /\ r.value = l.value
        /\ r.prev = [l.prev EXCEPT ![i] = b]
        /\ r.next = [l.next EXCEPT ![b] = i, ![i] = Nil]
        /\ r \in Lists(V)
    <3>1. l.length # 0
      BY <1>1, <1>5
    <3>2. r = [l EXCEPT !.next[l.last] = i, !.prev[i] = l.last, !.next[i] = Nil,
                        !.last = i, !.length = @ + 1]
      BY <3>1, Zenon DEF PushBack
    <3>3. /\ r.length = l.length + 1 /\ r.first = l.first /\ r.last = i /\ r.value = l.value
      BY <3>2 DEF Lists
    <3>4. r.prev = [l.prev EXCEPT ![i] = l.last]
      BY <3>2 DEF Lists
    <3>5. r.next = [l.next EXCEPT ![l.last] = i, ![i] = Nil]
      BY <3>2 DEF Lists
    <3>6. r \in Lists(V)
      <4>1. r = [length |-> l.length + 1, first |-> l.first, last |-> i, next |-> r.next,
                 prev |-> r.prev, value |-> l.value]
        BY <3>2, <3>3 DEF Lists
      <4>2. r.next \in [Items -> Items \cup {Nil}] /\ r.prev \in [Items -> Items \cup {Nil}]
        <5> HIDE DEF r
        <5> QED
          BY <3>4, <3>5, <2>0, <1>1
      <4>3. l.length + 1 \in Nat /\ l.first \in Items \cup {Nil} /\ l.value \in [Items -> V \cup {NoValue}]
        BY DEF Lists
      <4> HIDE DEF r
      <4> QED
        BY <4>1, <4>2, <4>3 DEF Lists
    <3> QED
      BY <3>3, <3>4, <3>5, <3>6, <2>0, <1>1
  <2>2. \A j \in Items :
          /\ r.prev[j] = (IF j = i THEN b ELSE l.prev[j])
          /\ r.next[j] = (IF j = i THEN Nil ELSE IF j = b THEN i ELSE l.next[j])
    BY <2>1, <2>0, <1>1
  <2>3. \A k \in 1..Len(s) :
          /\ l.prev[s[k]] = (IF k = 1 THEN Nil ELSE s[k - 1])
          /\ l.next[s[k]] = (IF k = Len(s) THEN Nil ELSE s[k + 1])
          /\ s[k] = b => k = Len(s)
    BY <2>0 DEF Represents, b
  <2>4. \A j \in Items : (\A k \in 1..Len(s) : s[k] # j) => l.prev[j] = Nil /\ l.next[j] = Nil
    BY DEF Represents
  <2> HIDE DEF r, t
  <2>5. ASSUME NEW k \in 1..Len(t)
        PROVE  /\ r.prev[t[k]] = (IF k = 1 THEN Nil ELSE t[k - 1])
               /\ r.next[t[k]] = (IF k = Len(t) THEN Nil ELSE t[k + 1])
    <3>1. CASE k = Len(t)
      <4>1. t[k] = i /\ t[k - 1] = b /\ k # 1
        BY <3>1, <1>1, <1>2, <1>5, <2>0 DEF b
      <4> QED
        BY <3>1, <4>1, <2>2
    <3>2. CASE k # Len(t)
      <4>1. k \in 1..Len(s) /\ t[k] = s[k] /\ s[k] \in Items /\ s[k] # i
        BY <3>2, <1>1, <1>2
      <4>2. r.prev[t[k]] = (IF k = 1 THEN Nil ELSE t[k - 1])
        <5>1. r.prev[t[k]] = (IF k = 1 THEN Nil ELSE s[k - 1])
          BY <4>1, <2>2, <2>3
        <5>2. k # 1 => k - 1 \in 1..Len(s)
          BY <1>1, <4>1
        <5> QED
          BY <5>1, <5>2, <1>2
      <4>3. r.next[t[k]] = t[k + 1]
        <5>1. CASE k = Len(s)
          BY <5>1, <4>1, <1>2, <2>2 DEF b
        <5>2. CASE k # Len(s)
          <6>1. s[k] # b /\ k + 1 \in 1..Len(s)
            BY <5>2, <4>1, <1>1, <2>3
          <6>2. r.next[t[k]] = l.next[s[k]]
            BY <6>1, <4>1, <2>2
          <6>3. l.next[s[k]] = s[k + 1]
            BY <5>2, <4>1, <2>3
          <6>4. t[k + 1] = s[k + 1]
            BY <6>1, <1>2
          <6> QED
            BY <6>2, <6>3, <6>4
        <5> QED
          BY <5>1, <5>2
      <4> QED
        BY <4>2, <4>3, <3>2
    <3> QED
      BY <3>1, <3>2
  <2>6. ASSUME NEW j \in Items, \A k \in 1..Len(t) : t[k] # j
        PROVE  r.prev[j] = Nil /\ r.next[j] = Nil
    <3>1. j # i
      BY <2>6, <1>1, <1>2
    <3>2. \A k \in 1..Len(s) : s[k] # j
      BY <2>6, <1>1, <1>2
    <3> QED
      BY <3>1, <3>2, <2>0, <2>2, <2>4 DEF b
  <2>7. t # <<>> /\ t[1] = s[1] /\ t[Len(t)] = i
    BY <1>1, <1>2, <1>5
  <2>8. Represents(r, t)
    BY <2>1, <2>5, <2>6, <2>7, <1>1, <1>2, <1>3 DEF Represents
  <2> QED
    BY <2>1, <2>8 DEF r, t
<1> QED
  BY <1>4, <1>5

\* Of the items of a list, all but the removed one are left in their order, and the
\* removed one points to nothing.
LEMMA RemoveRepresents ==
  ASSUME NEW V, NEW l \in Lists(V), NEW s \in Seq(Items), Represents(l, s),
         NEW p \in 1..Len(s)
  PROVE  /\ Remove(l, s[p]) \in Lists(V)
         /\ Represents(Remove(l, s[p]), Without(s, p))
         /\ Remove(l, s[p]).value = l.value
<1> DEFINE i == s[p]
           before == l.prev[i]
           after == l.next[i]
           r == Remove(l, i)
           t == Without(s, p)
           n == Len(s)
<1>1. /\ n \in Nat /\ l.length = n /\ \A k \in 1..n : s[k] \in Items /\ s[k] # Nil
      /\ l.next \in [Items -> Items \cup {Nil}] /\ l.prev \in [Items -> Items \cup {Nil}]
      /\ i \in Items /\ n # 0 /\ 1 \in 1..n /\ n \in 1..n
  BY NilAssumption DEF Represents, Lists
<1>2. /\ t \in Seq(Items) /\ Len(t) = n - 1
      /\ \A k \in 1..(n - 1) : t[k] = (IF k < p THEN s[k] ELSE s[k + 1])
  BY WithoutOne
<1>3. /\ \A j, k \in 1..n : s[j] = s[k] => j = k
      /\ l.first = s[1] /\ l.last = s[n]
      /\ \A k \in 1..n : /\ l.prev[s[k]] = (IF k = 1 THEN Nil ELSE s[k - 1])
                         /\ l.next[s[k]] = (IF k = n THEN Nil ELSE s[k + 1])
      /\ \A j \in Items : (\A k \in 1..n : s[k] # j) => l.prev[j] = Nil /\ l.next[j] = Nil
  BY <1>1 DEF Represents
<1>4. /\ before = (IF p = 1 THEN Nil ELSE s[p - 1])
      /\ after = (IF p = n THEN Nil ELSE s[p + 1])
      /\ before \in Items \cup {Nil} /\ after \in Items \cup {Nil}
  BY <1>1, <1>3
<1>5. /\ r.length = n - 1 /\ r.value = l.value
      /\ r.first = (IF before = Nil THEN after ELSE l.first)
      /\ r.last = (IF after = Nil THEN before ELSE l.last)
      /\ r.next = [j \in Items |-> IF j = i THEN Nil ELSE IF j = before THEN after ELSE l.next[j]]
      /\ r.prev = [j \in Items |-> IF j = i THEN Nil ELSE IF j = after THEN before ELSE l.prev[j]]
      /\ r = [length |-> r.length, first |-> r.first, last |-> r.last, next |-> r.next,
              prev |-> r.prev, value |-> r.value]
  <2>1. r = [l EXCEPT
              !.next = [j \in Items |-> IF j = i THEN Nil ELSE IF j = before THEN after ELSE @[j]],
              !.prev = [j \in Items |-> IF j = i THEN Nil ELSE IF j = after THEN before ELSE @[j]],
              !.first = IF before = Nil THEN after ELSE @,
              !.last = IF after = Nil THEN before ELSE @,
              !.length = @ - 1]
    BY Zenon DEF Remove
  <2> HIDE DEF r, t, before, after, i
  <2>2. /\ r.length = n - 1 /\ r.value = l.value
        /\ r.first = (IF before = Nil THEN after ELSE l.first)
        /\ r.last = (IF after = Nil THEN before ELSE l.last)
    BY <1>1, <2>1 DEF Lists
  <2>3. r.next = [j \in Items |-> IF j = i THEN Nil ELSE IF j = before THEN after ELSE l.next[j]]
    BY <2>1 DEF Lists
  <2>4. r.prev = [j \in Items |-> IF j = i THEN Nil ELSE IF j = after THEN before ELSE l.prev[j]]
    BY <2>1 DEF Lists
  <2>5. r = [length |-> r.length, first |-> r.first, last |-> r.last, next |-> r.next,
             prev |-> r.prev, value |-> r.value]
    BY <2>1 DEF Lists
  <2> QED
    BY <2>2, <2>3, <2>4, <2>5
<1>6. /\ l.first \in Items \cup {Nil} /\ l.last \in Items \cup {Nil}
      /\ l.value \in [Items -> V \cup {NoValue}]
  BY DEF Lists
<1> HIDE DEF r, t, before, after, i, n
<1>7. r \in Lists(V)
  <2>1. r.next \in [Items -> Items \cup {Nil}] /\ r.prev \in [Items -> Items \cup {Nil}]
    BY <1>1, <1>4, <1>5
  <2>2. r.first \in Items \cup {Nil} /\ r.last \in Items \cup {Nil}
    BY <1>4, <1>5, <1>6
  <2>3. r.length \in Nat /\ r.value \in [Items -> V \cup {NoValue}]
    BY <1>1, <1>5, <1>6
  <2> QED
    BY <2>1, <2>2, <2>3, <1>5 DEF Lists
<1>8. /\ \A j \in Items : r.next[j] = (IF j = i THEN Nil ELSE IF j = before THEN after ELSE l.next[j])
      /\ \A j \in Items : r.prev[j] = (IF j = i THEN Nil ELSE IF j = after THEN before ELSE l.prev[j])
  BY <1>5
<1>9. p \in 1..n /\ s[p] = i
  BY DEF n, i
<1> DEFINE up(k) == IF k < p THEN k ELSE k + 1
<1>10. \A k \in 1..(n - 1) :
         up(k) \in 1..n /\ up(k) # p /\ t[k] = s[up(k)] /\ s[up(k)] \in Items /\ s[up(k)] # i
  <2> SUFFICES ASSUME NEW k \in 1..(n - 1)
               PROVE  up(k) \in 1..n /\ up(k) # p /\ t[k] = s[up(k)] /\ s[up(k)] \in Items /\ s[up(k)] # i
    OBVIOUS
  <2>1. up(k) \in 1..n /\ up(k) # p
    BY <1>1, <1>9
  <2>2. t[k] = s[up(k)]
    BY <1>2
  <2> HIDE DEF up
  <2> QED
    BY <2>1, <2>2, <1>1, <1>3, <1>9
<1>11. \A j, k \in 1..(n - 1) : t[j] = t[k] => j = k
  <2> SUFFICES ASSUME NEW j \in 1..(n - 1), NEW k \in 1..(n - 1), t[j] = t[k]
               PROVE  j = k
    OBVIOUS
  <2>1. up(j) = up(k)
    <3> HIDE DEF up
    <3> QED
      BY <1>3, <1>10
  <2> QED
    BY <2>1, <1>1, <1>9
<1>12. ASSUME NEW k \in 1..(n - 1)
       PROVE  /\ r.prev[t[k]] = (IF k = 1 THEN Nil ELSE t[k - 1])
              /\ r.next[t[k]] = (IF k = n - 1 THEN Nil ELSE t[k + 1])
  <2>0. k \in Nat /\ p \in Nat /\ n \in Nat
    BY <1>1, <1>9
  <2>1. r.prev[t[k]] = (IF k = 1 THEN Nil ELSE t[k - 1])
    <3>1. CASE k = p
      <4>1. /\ up(k) = p + 1 /\ p # n /\ t[k] = s[p + 1] /\ s[p + 1] \in Items /\ s[p + 1] # i
            /\ after = s[p + 1]
        BY <3>1, <2>0, <1>4, <1>10
      <4>2. r.prev[t[k]] = before
        BY <4>1, <1>8
      <4>3. k # 1 => k - 1 \in 1..(n - 1) /\ k - 1 < p
        BY <3>1, <2>0
      <4>4. k # 1 => t[k - 1] = s[p - 1]
        BY <4>3, <3>1, <1>2
      <4> QED
        BY <3>1, <4>2, <4>4, <1>4
    <3>2. CASE k # p
      <4>1. t[k] # after
        <5>1. CASE p = n
          BY <5>1, <1>4, <1>10, <1>1
        <5>2. CASE p # n
          <6>1. after = s[p + 1] /\ p + 1 \in 1..n /\ up(k) # p + 1
            BY <5>2, <3>2, <2>0, <1>4, <1>9
          <6> HIDE DEF up
          <6> QED
            BY <6>1, <1>3, <1>10
        <5> QED
          BY <5>1, <5>2
      <4>2. r.prev[t[k]] = l.prev[s[up(k)]]
        <5> HIDE DEF up
        <5> QED
          BY <4>1, <1>8, <1>10
      <4>3. l.prev[s[up(k)]] = (IF up(k) = 1 THEN Nil ELSE s[up(k) - 1])
        <5> HIDE DEF up
        <5> QED
          BY <1>3, <1>10
      <4>4. (up(k) = 1) = (k = 1)
        BY <2>0, <1>9, <3>2
      <4>5. k # 1 => t[k - 1] = s[up(k) - 1]
        <5> HAVE k # 1
        <5>1. k - 1 \in 1..(n - 1) /\ up(k - 1) = up(k) - 1
          BY <2>0, <3>2
        <5> HIDE DEF up
        <5> QED
          BY <5>1, <1>10
      <4> HIDE DEF up
      <4> QED
        BY <4>2, <4>3, <4>4, <4>5
    <3> QED
      BY <3>1, <3>2
  <2>2. r.next[t[k]] = (IF k = n - 1 THEN Nil ELSE t[k + 1])
    <3>1. CASE k = p - 1
      <4>1. /\ up(k) = p - 1 /\ p # 1 /\ t[k] = s[p - 1] /\ s[p - 1] \in Items /\ s[p - 1] # i
            /\ before = s[p - 1]
        BY <3>1, <2>0, <1>4, <1>10
      <4>2. r.next[t[k]] = after
        BY <4>1, <1>8
      <4>3. k # n - 1 => k + 1 \in 1..(n - 1) /\ ~(k + 1 < p) /\ p # n
        BY <3>1, <2>0
      <4>4. k # n - 1 => t[k + 1] = s[p + 1]
        BY <4>3, <3>1, <2>0, <1>2
      <4>5. k = n - 1 => p = n
        BY <3>1, <2>0
      <4> QED
        BY <4>2, <4>3, <4>4, <4>5, <1>4
    <3>2. CASE k # p - 1
      <4>1. t[k] # before
        <5>1. CASE p = 1
          BY <5>1, <1>4, <1>10, <1>1
        <5>2. CASE p # 1
          <6>1. before = s[p - 1] /\ p - 1 \in 1..n /\ up(k) # p - 1
            BY <5>2, <3>2, <2>0, <1>4, <1>9
          <6> HIDE DEF up
          <6> QED
            BY <6>1, <1>3, <1>10
        <5> QED
          BY <5>1, <5>2
      <4>2. r.next[t[k]] = l.next[s[up(k)]]
        <5> HIDE DEF up
        <5> QED
          BY <4>1, <1>8, <1>10
      <4>3. l.next[s[up(k)]] = (IF up(k) = n THEN Nil ELSE s[up(k) + 1])
        <5> HIDE DEF up
        <5> QED
          BY <1>3, <1>10
      <4>4. (up(k) = n) = (k = n - 1)
        BY <2>0, <1>9, <3>2
      <4>5. k # n - 1 => t[k + 1] = s[up(k) + 1]
        <5> HAVE k # n - 1
        <5>1. k + 1 \in 1..(n - 1) /\ up(k + 1) = up(k) + 1
          BY <2>0, <3>2
        <5> HIDE DEF up
        <5> QED
          BY <5>1, <1>10
      <4> HIDE DEF up
      <4> QED
        BY <4>2, <4>3, <4>4, <4>5
    <3> QED
      BY <3>1, <3>2
  <2> QED
    BY <2>1, <2>2
<1>13. ASSUME NEW j \in Items, \A k \in 1..(n - 1) : t[k] # j
       PROVE  r.prev[j] = Nil /\ r.next[j] = Nil
  <2>1. CASE j = i
    BY <2>1, <1>8
  <2>2. CASE j # i
    <3>1. \A k \in 1..n : s[k] # j
      <4> SUFFICES ASSUME NEW k \in 1..n, s[k] = j PROVE FALSE
        OBVIOUS
      <4>1. k # p
        BY <2>2, <1>9
      <4>2. CASE k < p
        <5>1. k \in 1..(n - 1) /\ t[k] = s[k]
          BY <4>2, <1>1, <1>2, <1>9
        <5> QED
          BY <5>1, <1>13
      <4>3. CASE ~(k < p)
        <5>1. k - 1 \in 1..(n - 1) /\ ~(k - 1 < p) /\ (k - 1) + 1 = k
          BY <4>1, <4>3, <1>1, <1>9
        <5>2. t[k - 1] = s[k]
          BY <5>1, <1>2
        <5> QED
          BY <5>1, <5>2, <1>13
      <4> QED
        BY <4>2, <4>3
    <3>2. j # Nil
      BY NilAssumption
    <3>3. j # before /\ j # after
      <4>1. p # 1 => p - 1 \in 1..n
        BY <1>1, <1>9
      <4>2. p # n => p + 1 \in 1..n
        BY <1>1, <1>9
      <4> QED
        BY <4>1, <4>2, <3>1, <3>2, <1>4
    <3> QED
      BY <2>2, <3>1, <3>3, <1>3, <1>8
  <2> QED
    BY <2>1, <2>2
<1>14. n - 1 = 0 => r.first = Nil /\ r.last = Nil
  <2> HAVE n - 1 = 0
  <2>1. p = 1 /\ p = n
    BY <1>1, <1>9
  <2> QED
    BY <2>1, <1>4, <1>5
<1>15. n - 1 # 0 => r.first = t[1] /\ r.last = t[n - 1]
  <2> HAVE n - 1 # 0
  <2>0. 1 \in 1..(n - 1) /\ n - 1 \in 1..(n - 1) /\ p \in Nat /\ n \in Nat
    BY <1>1, <1>9
  <2>1. CASE p = 1
    <3>1. r.first = s[2] /\ p # n
      BY <2>1, <2>0, <1>4, <1>5
    <3>2. t[1] = s[2] /\ t[n - 1] = s[n]
      BY <2>1, <2>0, <1>2
    <3>3. after # Nil
      BY <3>1, <2>0, <2>1, <1>1, <1>4
    <3> QED
      BY <3>1, <3>2, <3>3, <1>3, <1>5
  <2>2. CASE p = n /\ p # 1
    <3>1. r.last = s[n - 1] /\ after = Nil /\ before = s[n - 1] /\ n - 1 \in 1..n
      BY <2>2, <2>0, <1>4, <1>5
    <3>2. before # Nil
      BY <3>1, <1>1
    <3>3. t[1] = s[1] /\ t[n - 1] = s[n - 1]
      BY <2>2, <2>0, <1>2, <1>9
    <3> QED
      BY <3>1, <3>2, <3>3, <1>3, <1>5
  <2>3. CASE p # n /\ p # 1
    <3>1. /\ p - 1 \in 1..n /\ p + 1 \in 1..n
          /\ before = s[p - 1] /\ after = s[p + 1]
      BY <2>3, <2>0, <1>4, <1>9
    <3>2. before # Nil /\ after # Nil
      BY <3>1, <1>1
    <3>3. t[1] = s[1] /\ t[n - 1] = s[n]
      BY <2>3, <2>0, <1>2, <1>9
    <3> QED
      BY <3>2, <3>3, <1>3, <1>5
  <2> QED
    BY <2>1, <2>2, <2>3
<1>16. Represents(r, t)
  <2>1. (t = <<>>) = (n - 1 = 0)
    BY <1>1, <1>2
  <2>2. r.length = Len(t)
    BY <1>2, <1>5
  <2>3. /\ t = <<>> => r.first = Nil /\ r.last = Nil
        /\ t # <<>> => r.first = t[1] /\ r.last = t[Len(t)]
    BY <2>1, <1>2, <1>14, <1>15
  <2>4. \A j, k \in 1..Len(t) : t[j] = t[k] => j = k
    BY <1>2, <1>11
  <2>5. \A k \in 1..Len(t) :
          /\ r.prev[t[k]] = (IF k = 1 THEN Nil ELSE t[k - 1])
          /\ r.next[t[k]] = (IF k = Len(t) THEN Nil ELSE t[k + 1])
    BY <1>2, <1>12
  <2>6. \A j \in Items : (\A k \in 1..Len(t) : t[k] # j) => r.prev[j] = Nil /\ r.next[j] = Nil
    BY <1>2, <1>13
  <2> QED
    BY <2>2, <2>3, <2>4, <2>5, <2>6, Zenon DEF Represents
<1> QED
  BY <1>5, <1>7, <1>16 DEF r, t, i

\* An element that was taken out occurs no more.
LEMMA WithoutIt ==
  ASSUME NEW S, NEW s \in Seq(S), NEW p \in 1..Len(s), Distinct(s)
  PROVE  \A k \in 1..Len(Without(s, p)) : Without(s, p)[k] # s[p]
<1> SUFFICES ASSUME NEW k \in 1..Len(Without(s, p))
             PROVE  Without(s, p)[k] # s[p]
  OBVIOUS
<1>1. k \in 1..(Len(s) - 1) /\ Without(s, p)[k] = (IF k < p THEN s[k] ELSE s[k + 1])
  BY WithoutOne
<1>2. (k < p => k \in 1..Len(s) /\ k # p) /\ (~(k < p) => k + 1 \in 1..Len(s) /\ k + 1 # p)
  BY <1>1
<1> QED
  BY <1>1, <1>2 DEF Distinct

\* No item is twice in a list.
LEMMA RepresentsDistinct ==
  ASSUME NEW l, NEW s, Represents(l, s)
  PROVE  Distinct(s)
BY DEF Represents, Distinct

\* Brought to the front, an item is the first one.
LEMMA MoveToFrontRepresents ==
  ASSUME NEW V, NEW l \in Lists(V), NEW s \in Seq(Items), Represents(l, s),
         NEW p \in 1..Len(s)
  PROVE  /\ MoveToFront(l, s[p]) \in Lists(V)
         /\ Represents(MoveToFront(l, s[p]), <<s[p]>> \o Without(s, p))
         /\ MoveToFront(l, s[p]).value = l.value
<1> DEFINE i == s[p]
           t == Without(s, p)
<1>1. i \in Items /\ t \in Seq(Items)
  BY WithoutOne
<1>2. CASE l.first = i
  <2>1. s # <<>> /\ l.first = s[1] /\ Len(s) \in Nat /\ 1 \in 1..Len(s)
    BY DEF Represents
  <2>2. p = 1
    BY <1>2, <2>1 DEF Represents
  <2>3. /\ Len(t) = Len(s) - 1
        /\ \A j \in 1..(Len(s) - 1) : t[j] = s[j + 1]
    BY <2>2, WithoutOne
  <2>4. /\ <<i>> \o t \in Seq(Items) /\ Len(<<i>> \o t) = Len(t) + 1 /\ (<<i>> \o t)[1] = i
        /\ \A k \in 1..(Len(t) + 1) : k # 1 => k - 1 \in 1..Len(t) /\ (<<i>> \o t)[k] = t[k - 1]
    BY <1>1, InFront
  <2>5. <<i>> \o t = s
    <3> DEFINE u == <<i>> \o t
    <3>1. u \in Seq(Items) /\ Len(u) = Len(s)
      BY <2>1, <2>3, <2>4
    <3>2. \A k \in 1..Len(u) : u[k] = s[k]
      <4> SUFFICES ASSUME NEW k \in 1..Len(u) PROVE u[k] = s[k]
        OBVIOUS
      <4>1. CASE k = 1
        BY <4>1, <2>2, <2>4
      <4>2. CASE k # 1
        <5>1. k - 1 \in 1..(Len(s) - 1) /\ (k - 1) + 1 = k /\ u[k] = t[k - 1]
          BY <4>2, <3>1, <2>1, <2>3, <2>4
        <5> QED
          BY <5>1, <2>3
      <4> QED
        BY <4>1, <4>2
    <3> HIDE DEF u
    <3>3. u = s
      BY <3>1, <3>2, SeqEqual
    <3> QED
      BY <3>3 DEF u
  <2>6. MoveToFront(l, i) = l
    BY <1>2 DEF MoveToFront
  <2> QED
    BY <2>5, <2>6
<1>3. CASE l.first # i
  <2> DEFINE rest == Remove(l, i)
  <2>1. rest \in Lists(V) /\ Represents(rest, t) /\ rest.value = l.value
    BY RemoveRepresents
  <2>2. \A k \in 1..Len(t) : t[k] # i
    BY RepresentsDistinct, WithoutIt
  <2>3. MoveToFront(l, i) = PushFront(rest, i)
    BY <1>3 DEF MoveToFront
  <2> HIDE DEF rest, t, i
  <2>4. /\ PushFront(rest, i) \in Lists(V) /\ Represents(PushFront(rest, i), <<i>> \o t)
        /\ PushFront(rest, i).value = rest.value
    BY <1>1, <2>1, <2>2, PushFrontRepresents
  <2> QED
    BY <2>1, <2>3, <2>4 DEF t, i
<1> QED
  BY <1>2, <1>3

(***************************************************************************)
(* The values along a sequence of items.                                   *)
(***************************************************************************)

\* The value of each item in its place.
Along(f, s) == [p \in 1..Len(s) |-> f[s[p]]]

\* They are as many.
LEMMA AlongSeq ==
  ASSUME NEW S, NEW f \in [Items -> S], NEW s \in Seq(Items)
  PROVE  /\ Along(f, s) \in Seq(S) /\ Len(Along(f, s)) = Len(s)
         /\ \A p \in 1..Len(s) : Along(f, s)[p] = f[s[p]]
BY DEF Along

\* The value of an item that does not occur does not matter.
LEMMA AlongSame ==
  ASSUME NEW S, NEW f \in [Items -> S], NEW s \in Seq(Items), NEW i \in Items, NEW v,
         \A k \in 1..Len(s) : s[k] # i
  PROVE  Along([f EXCEPT ![i] = v], s) = Along(f, s)
BY DEF Along

\* Of one more in front.
LEMMA AlongFront ==
  ASSUME NEW S, NEW f \in [Items -> S], NEW s \in Seq(Items), NEW i \in Items
  PROVE  Along(f, <<i>> \o s) = <<f[i]>> \o Along(f, s)
<1> DEFINE t == <<i>> \o s
           a == Along(f, s)
           b == Along(f, t)
           c == <<f[i]>> \o a
<1>1. /\ t \in Seq(Items) /\ Len(t) = Len(s) + 1 /\ t[1] = i
      /\ \A k \in 1..(Len(s) + 1) : k # 1 => k - 1 \in 1..Len(s) /\ t[k] = s[k - 1]
  BY InFront
<1>2. a \in Seq(S) /\ Len(a) = Len(s) /\ \A k \in 1..Len(s) : a[k] = f[s[k]]
  BY AlongSeq
<1> HIDE DEF t, a
<1>3. b \in Seq(S) /\ Len(b) = Len(t) /\ \A k \in 1..Len(t) : b[k] = f[t[k]]
  BY <1>1, AlongSeq
<1>4. f[i] \in S
  OBVIOUS
<1>5. /\ c \in Seq(S) /\ Len(c) = Len(a) + 1 /\ c[1] = f[i]
      /\ \A k \in 1..(Len(a) + 1) : k # 1 => k - 1 \in 1..Len(a) /\ c[k] = a[k - 1]
  BY <1>2, <1>4, InFront
<1> HIDE DEF b, c
<1>6. Len(b) = Len(c)
  BY <1>1, <1>2, <1>3, <1>5
<1>7. \A k \in 1..Len(b) : b[k] = c[k]
  <2> SUFFICES ASSUME NEW k \in 1..Len(b) PROVE b[k] = c[k]
    OBVIOUS
  <2>1. CASE k = 1
    BY <2>1, <1>1, <1>3, <1>5
  <2>2. CASE k # 1
    <3>1. k - 1 \in 1..Len(s) /\ t[k] = s[k - 1] /\ c[k] = a[k - 1]
      BY <2>2, <1>1, <1>2, <1>3, <1>5
    <3> QED
      BY <3>1, <1>2, <1>3
  <2> QED
    BY <2>1, <2>2
<1>8. b = c
  BY <1>3, <1>5, <1>6, <1>7, SeqEqual
<1> QED
  BY <1>8 DEF a, b, c, t

\* Of one more at the back.
LEMMA AlongBack ==
  ASSUME NEW S, NEW f \in [Items -> S], NEW s \in Seq(Items), NEW i \in Items
  PROVE  Along(f, Append(s, i)) = Append(Along(f, s), f[i])
<1> DEFINE t == Append(s, i)
           a == Along(f, s)
           b == Along(f, t)
           c == Append(a, f[i])
<1>1. /\ t \in Seq(Items) /\ Len(t) = Len(s) + 1 /\ t[Len(s) + 1] = i
      /\ \A k \in 1..Len(s) : t[k] = s[k]
  BY AtBack
<1>2. a \in Seq(S) /\ Len(a) = Len(s) /\ \A k \in 1..Len(s) : a[k] = f[s[k]]
  BY AlongSeq
<1> HIDE DEF t, a
<1>3. b \in Seq(S) /\ Len(b) = Len(t) /\ \A k \in 1..Len(t) : b[k] = f[t[k]]
  BY <1>1, AlongSeq
<1>4. f[i] \in S
  OBVIOUS
<1>5. /\ c \in Seq(S) /\ Len(c) = Len(a) + 1 /\ c[Len(a) + 1] = f[i]
      /\ \A k \in 1..Len(a) : c[k] = a[k]
  BY <1>2, <1>4, AtBack
<1> HIDE DEF b, c
<1>6. Len(b) = Len(c)
  BY <1>1, <1>2, <1>3, <1>5
<1>7. \A k \in 1..Len(b) : b[k] = c[k]
  <2> SUFFICES ASSUME NEW k \in 1..Len(b) PROVE b[k] = c[k]
    OBVIOUS
  <2>1. CASE k = Len(s) + 1
    BY <2>1, <1>1, <1>2, <1>3, <1>5
  <2>2. CASE k # Len(s) + 1
    <3>1. k \in 1..Len(s)
      BY <2>2, <1>1, <1>3
    <3> QED
      BY <3>1, <1>1, <1>2, <1>3, <1>5
  <2> QED
    BY <2>1, <2>2
<1>8. b = c
  BY <1>3, <1>5, <1>6, <1>7, SeqEqual
<1> QED
  BY <1>8 DEF a, b, c, t

\* Of one less.
LEMMA AlongWithout ==
  ASSUME NEW S, NEW f \in [Items -> S], NEW s \in Seq(Items), NEW p \in 1..Len(s)
  PROVE  Along(f, Without(s, p)) = Without(Along(f, s), p)
<1> DEFINE t == Without(s, p)
           a == Along(f, s)
           b == Along(f, t)
           c == Without(a, p)
<1>1. /\ t \in Seq(Items) /\ Len(t) = Len(s) - 1
      /\ \A k \in 1..(Len(s) - 1) : t[k] = (IF k < p THEN s[k] ELSE s[k + 1])
  BY WithoutOne
<1>2. a \in Seq(S) /\ Len(a) = Len(s) /\ \A k \in 1..Len(s) : a[k] = f[s[k]]
  BY AlongSeq
<1> HIDE DEF t, a
<1>3. b \in Seq(S) /\ Len(b) = Len(t) /\ \A k \in 1..Len(t) : b[k] = f[t[k]]
  BY <1>1, AlongSeq
<1>4. /\ c \in Seq(S) /\ Len(c) = Len(a) - 1
      /\ \A k \in 1..(Len(a) - 1) : c[k] = (IF k < p THEN a[k] ELSE a[k + 1])
  BY <1>2, WithoutOne
<1> HIDE DEF b, c
<1>5. Len(b) = Len(c)
  BY <1>1, <1>2, <1>3, <1>4
<1>6. \A k \in 1..Len(b) : b[k] = c[k]
  <2> SUFFICES ASSUME NEW k \in 1..Len(b) PROVE b[k] = c[k]
    OBVIOUS
  <2>1. k \in 1..(Len(s) - 1) /\ k \in 1..Len(s) /\ k + 1 \in 1..Len(s)
    BY <1>1, <1>3
  <2>2. b[k] = f[t[k]]
    BY <2>1, <1>1, <1>3
  <2>3. t[k] = (IF k < p THEN s[k] ELSE s[k + 1]) /\ c[k] = (IF k < p THEN a[k] ELSE a[k + 1])
    BY <2>1, <1>1, <1>2, <1>4
  <2>4. a[k] = f[s[k]] /\ a[k + 1] = f[s[k + 1]]
    BY <2>1, <1>2
  <2>5. CASE k < p
    BY <2>2, <2>3, <2>4, <2>5
  <2>6. CASE ~(k < p)
    BY <2>2, <2>3, <2>4, <2>6
  <2> QED
    BY <2>5, <2>6
<1>7. b = c
  BY <1>3, <1>4, <1>5, <1>6, SeqEqual
<1> QED
  BY <1>7 DEF a, b, c, t

\* What a list contains, by the sequence it stands for.
LEMMA ContentIs ==
  ASSUME NEW l, NEW s \in Seq(Items), Represents(l, s)
  PROVE  /\ Content(l) = Along(l.value, s)
         /\ Linked(l)
         /\ InList(l) = {s[k] : k \in 1..Len(s)}
<1>1. Order(l) = s
  BY OrderUnique
<1>2. l.length = Len(s)
  BY DEF Represents
<1> QED
  BY <1>1, <1>2 DEF Content, Along, Linked, InList

(***************************************************************************)
(* A caller's list implements a sequence of values.                        *)
(***************************************************************************)

ListInv == list \in Lists(Values) /\ Linked(list)

\* A new list is an empty sequence.
LEMMA ListStart == ListInit => ListInv /\ AbstractList!Init
<1> SUFFICES ASSUME ListInit PROVE ListInv /\ AbstractList!Init
  OBVIOUS
<1>1. list \in Lists(Values) /\ Represents(list, <<>>) /\ <<>> \in Seq(Items)
  BY NewListTyped DEF ListInit
<1>2. Content(list) = <<>>
  <2>1. Content(list) = Along(list.value, <<>>) /\ list.value \in [Items -> Values \cup {NoValue}]
    BY <1>1, ContentIs DEF Lists
  <2>2. Along(list.value, <<>>) \in Seq(Values \cup {NoValue}) /\ Len(Along(list.value, <<>>)) = 0
    BY <1>1, <2>1, AlongSeq
  <2> QED
    BY <2>1, <2>2
<1> QED
  BY <1>1, <1>2, ContentIs DEF ListInv, AbstractList!Init

\* A call on a list makes of its content what the specification says.
LEMMA ListCalls ==
  ASSUME ListInv, ListNext
  PROVE  ListInv' /\ AbstractList!Next
<1> DEFINE s == Order(list)
           f == list.value
<1>1. s \in Seq(Items) /\ Represents(list, s) /\ list \in Lists(Values)
  BY DEF ListInv, Linked
<1>2. /\ InList(list) = {s[k] : k \in 1..Len(s)} /\ Content(list) = Along(f, s)
      /\ f \in [Items -> Values \cup {NoValue}]
  BY <1>1, ContentIs DEF Lists
<1>3. DOMAIN Content(list) = 1..Len(s)
  BY <1>2 DEF Along
<1>4. \A t \in Seq(Items) :
        (list' \in Lists(Values) /\ Represents(list', t)) =>
          ListInv' /\ Content(list)' = Along(list'.value, t)
  BY ContentIs DEF ListInv, Content
<1> HIDE DEF s, f
<1>5. ASSUME NEW i \in Items, NEW v \in Values, CallPushFront(i, v)
      PROVE  ListInv' /\ AbstractList!Next
  <2> DEFINE l == WithItem(list, i, v)
  <2>1. \A k \in 1..Len(s) : s[k] # i
    BY <1>2, <1>5 DEF CallPushFront
  <2>2. l \in Lists(Values) /\ Represents(l, s) /\ l.value = [f EXCEPT ![i] = v]
    BY <1>1, WithItemTyped DEF f
  <2>3. list' = PushFront(l, i)
    BY <1>5 DEF CallPushFront
  <2> HIDE DEF l
  <2>4. /\ list' \in Lists(Values) /\ Represents(list', <<i>> \o s)
        /\ list'.value = [f EXCEPT ![i] = v]
    BY <1>1, <2>1, <2>2, <2>3, PushFrontRepresents
  <2>5. <<i>> \o s \in Seq(Items) /\ [f EXCEPT ![i] = v] \in [Items -> Values \cup {NoValue}]
    BY <1>1, <1>2
  <2>6. Along([f EXCEPT ![i] = v], <<i>> \o s) = <<v>> \o Along(f, s)
    <3>1. [f EXCEPT ![i] = v][i] = v
      BY <1>2
    <3>2. Along([f EXCEPT ![i] = v], s) = Along(f, s)
      BY <1>1, <1>2, <2>1, AlongSame
    <3> QED
      BY <1>1, <2>5, <3>1, <3>2, AlongFront
  <2> QED
    BY <1>2, <1>4, <2>4, <2>5, <2>6 DEF AbstractList!Next
<1>6. ASSUME NEW i \in Items, NEW v \in Values, CallPushBack(i, v)
      PROVE  ListInv' /\ AbstractList!Next
  <2> DEFINE l == WithItem(list, i, v)
  <2>1. \A k \in 1..Len(s) : s[k] # i
    BY <1>2, <1>6 DEF CallPushBack
  <2>2. l \in Lists(Values) /\ Represents(l, s) /\ l.value = [f EXCEPT ![i] = v]
    BY <1>1, WithItemTyped DEF f
  <2>3. list' = PushBack(l, i)
    BY <1>6 DEF CallPushBack
  <2> HIDE DEF l
  <2>4. /\ list' \in Lists(Values) /\ Represents(list', Append(s, i))
        /\ list'.value = [f EXCEPT ![i] = v]
    BY <1>1, <2>1, <2>2, <2>3, PushBackRepresents
  <2>5. Append(s, i) \in Seq(Items) /\ [f EXCEPT ![i] = v] \in [Items -> Values \cup {NoValue}]
    BY <1>1, <1>2
  <2>6. Along([f EXCEPT ![i] = v], Append(s, i)) = Append(Along(f, s), v)
    <3>1. [f EXCEPT ![i] = v][i] = v
      BY <1>2
    <3>2. Along([f EXCEPT ![i] = v], s) = Along(f, s)
      BY <1>1, <1>2, <2>1, AlongSame
    <3> QED
      BY <1>1, <2>5, <3>1, <3>2, AlongBack
  <2> QED
    BY <1>2, <1>4, <2>4, <2>5, <2>6 DEF AbstractList!Next
<1>7. ASSUME NEW p \in 1..Len(s), CallRemove(s[p])
      PROVE  ListInv' /\ AbstractList!Next
  <2>1. /\ list' \in Lists(Values) /\ Represents(list', Without(s, p)) /\ list'.value = f
    BY <1>1, <1>7, RemoveRepresents DEF CallRemove, f
  <2>2. Without(s, p) \in Seq(Items)
    BY <1>1, WithoutOne
  <2>3. Content(list)' = Without(Content(list), p)
    BY <1>1, <1>2, <1>4, <2>1, <2>2, AlongWithout
  <2> QED
    BY <1>3, <1>4, <2>1, <2>2, <2>3 DEF AbstractList!Next, Without, AbstractList!RemoveAt
<1>8. ASSUME NEW p \in 1..Len(s), CallMoveToFront(s[p])
      PROVE  ListInv' /\ AbstractList!Next
  <2> DEFINE t == Without(s, p)
  <2>1. /\ list' \in Lists(Values) /\ Represents(list', <<s[p]>> \o t) /\ list'.value = f
    BY <1>1, <1>8, MoveToFrontRepresents DEF CallMoveToFront, f
  <2>2. t \in Seq(Items) /\ s[p] \in Items
    BY <1>1, WithoutOne
  <2>3. <<s[p]>> \o t \in Seq(Items)
    BY <2>2
  <2>4. Along(f, <<s[p]>> \o t) = <<f[s[p]]>> \o Along(f, t)
    BY <1>2, <2>2, AlongFront
  <2>5. Along(f, t) = Without(Along(f, s), p) /\ Along(f, s)[p] = f[s[p]]
    BY <1>1, <1>2, AlongWithout, AlongSeq
  <2>6. Content(list)' = <<Content(list)[p]>> \o Without(Content(list), p)
    BY <1>2, <1>4, <2>1, <2>3, <2>4, <2>5
  <2> QED
    BY <1>3, <1>4, <2>1, <2>3, <2>6 DEF AbstractList!Next, Without, AbstractList!RemoveAt
<1>9. ASSUME NEW i \in Items, CallRemove(i)
      PROVE  ListInv' /\ AbstractList!Next
  BY <1>2, <1>7, <1>9 DEF CallRemove
<1>10. ASSUME NEW i \in Items, CallMoveToFront(i)
       PROVE  ListInv' /\ AbstractList!Next
  BY <1>2, <1>8, <1>10 DEF CallMoveToFront
<1> QED
  BY <1>5, <1>6, <1>9, <1>10 DEF ListNext

\* Any other step leaves the list as it is.
LEMMA ListStep == ListInv /\ [Next]_vars => ListInv' /\ [AbstractList!Next]_(Content(list))
<1> SUFFICES ASSUME ListInv, [Next]_vars
             PROVE  ListInv' /\ [AbstractList!Next]_(Content(list))
  OBVIOUS
<1>1. CASE ListNext
  BY <1>1, ListCalls
<1>2. CASE UNCHANGED list
  BY <1>2 DEF ListInv, Content
<1> QED
  BY <1>1, <1>2 DEF Next, vars

\* A caller's list is a sequence of values: whatever the calls, the pointers of the items
\* and of the list behave as pushing at either end, removing and bringing to the front do
\* on a sequence, for lists of any length.
THEOREM ListImplementsSequenceHolds == Spec => ListImplementsSequence
<1>1. Init => ListInv /\ AbstractList!Init
  BY ListStart DEF Init
<1> QED
  BY <1>1, ListStep, PTL DEF Spec, ListImplementsSequence, AbstractList!Spec

(***************************************************************************)
(* The cache implements a sequence of pairs in the order of their last     *)
(* use.                                                                    *)
(***************************************************************************)

\* What is invariant of the cache, the caller's list apart.
CachePart ==
  /\ capacity \in Capacities
  /\ queue \in Lists(CacheItemValue)
  /\ items \in [Keys -> Items \cup {Nil}]
  /\ answer \in [ok : BOOLEAN, value : Values \cup {NoValue}]
  /\ Linked(queue) /\ MapMatchesQueue /\ Stored

\* A queue q that stands for the items s, of which the map m leads to each by its key.
Keeps(q, m, c, s) ==
  /\ q \in Lists(CacheItemValue) /\ s \in Seq(Items) /\ Represents(q, s) /\ Len(s) <= c
  /\ \A key \in Keys : m[key] # Nil =>
       /\ \E p \in 1..Len(s) : m[key] = s[p]
       /\ q.value[m[key]] \in CacheItemValue /\ q.value[m[key]].k = key
  /\ \A p \in 1..Len(s) : \E key \in Keys : m[key] = s[p]

\* The queue of a cache, by its items.
LEMMA CacheKeeps ==
  ASSUME CachePart
  PROVE  /\ Keeps(queue, items, capacity, Order(queue))
         /\ InList(queue) = {Order(queue)[p] : p \in 1..Len(Order(queue))}
         /\ Content(queue) = Along(queue.value, Order(queue))
         /\ queue.length = Len(Order(queue))
<1> DEFINE s == Order(queue)
<1>1. s \in Seq(Items) /\ Represents(queue, s) /\ queue.length = Len(s)
  BY DEF CachePart, Linked, Represents
<1>2. InList(queue) = {s[p] : p \in 1..Len(s)} /\ Content(queue) = Along(queue.value, s)
  BY <1>1, ContentIs
<1>3. {items[key] : key \in Keys} \ {Nil} = {s[p] : p \in 1..Len(s)}
  BY <1>2 DEF CachePart, MapMatchesQueue
<1> HIDE DEF s
<1>4. \A key \in Keys : items[key] # Nil => \E p \in 1..Len(s) : items[key] = s[p]
  BY <1>3
<1>5. \A p \in 1..Len(s) : \E key \in Keys : items[key] = s[p]
  BY <1>3
<1> QED
  BY <1>1, <1>2, <1>4, <1>5 DEF Keeps, s, CachePart, MapMatchesQueue, Stored, Found

\* And the other way round, after a step.
LEMMA KeepsCache ==
  ASSUME NEW t, Keeps(queue', items', capacity', t), capacity' \in Capacities,
         items' \in [Keys -> Items \cup {Nil}],
         answer' \in [ok : BOOLEAN, value : Values \cup {NoValue}]
  PROVE  CachePart' /\ Content(queue)' = Along(queue'.value, t)
<1>1. t \in Seq(Items) /\ Represents(queue', t) /\ queue'.length = Len(t)
  BY DEF Keeps, Represents
<1>2. /\ Content(queue)' = Along(queue'.value, t) /\ Linked(queue)'
      /\ InList(queue)' = {t[k] : k \in 1..Len(t)}
  BY <1>1, ContentIs DEF Content, Linked, InList
<1>3. {items'[key] : key \in Keys} \ {Nil} = {t[k] : k \in 1..Len(t)}
  <2>1. \A key \in Keys : items'[key] # Nil => \E p \in 1..Len(t) : items'[key] = t[p]
    BY DEF Keeps
  <2>2. \A p \in 1..Len(t) : \E key \in Keys : items'[key] = t[p]
    BY DEF Keeps
  <2>3. \A p \in 1..Len(t) : t[p] # Nil
    BY <1>1, NilAssumption
  <2> QED
    BY <2>1, <2>2, <2>3
<1>4. MapMatchesQueue'
  BY <1>1, <1>2, <1>3 DEF MapMatchesQueue, Keeps, Found
<1>5. Stored'
  BY DEF Stored, Keeps, Found
<1> QED
  BY <1>2, <1>4, <1>5 DEF CachePart, Keeps

\* The positions of a key in the sequence of pairs.
LEMMA Positions ==
  ASSUME CachePart, NEW key \in Keys
  PROVE  /\ ~Found(key) => Lru!Position(key) = {}
         /\ \A p \in 1..Len(Order(queue)) : items[key] = Order(queue)[p] => p \in Lru!Position(key)
<1> DEFINE s == Order(queue)
           f == queue.value
<1>1. Keeps(queue, items, capacity, s) /\ Content(queue) = Along(f, s)
  BY CacheKeeps
<1>2. /\ s \in Seq(Items) /\ f \in [Items -> CacheItemValue \cup {NoValue}]
      /\ \A p \in 1..Len(s) : s[p] # Nil
  BY <1>1, NilAssumption DEF Keeps, Lists
<1> HIDE DEF s, f
<1>3. DOMAIN Content(queue) = 1..Len(s) /\ \A p \in 1..Len(s) : Content(queue)[p] = f[s[p]]
  BY <1>1 DEF Along
<1>4. ASSUME ~Found(key), NEW p \in 1..Len(s), f[s[p]].k = key PROVE FALSE
  <2>1. PICK other \in Keys : items[other] = s[p]
    BY <1>1 DEF Keeps
  <2>2. f[s[p]].k = other
    BY <1>1, <1>2, <2>1 DEF Keeps, f
  <2> QED
    BY <1>2, <1>4, <2>1, <2>2 DEF Found
<1>5. ASSUME NEW p \in 1..Len(s), items[key] = s[p]
      PROVE  f[s[p]].k = key
  BY <1>1, <1>2, <1>5 DEF Keeps, f
<1> QED
  BY <1>3, <1>4, <1>5 DEF Lru!Position, s

\* The first of a queue after a move, its pair and the others.
LEMMA MovedKeeps ==
  ASSUME NEW q \in Lists(CacheItemValue), NEW m, NEW c, NEW s, Keeps(q, m, c, s),
         NEW p \in 1..Len(s)
  PROVE  /\ Keeps(MoveToFront(q, s[p]), m, c, <<s[p]>> \o Without(s, p))
         /\ MoveToFront(q, s[p]).value = q.value
         /\ Along(q.value, <<s[p]>> \o Without(s, p)) =
              <<Along(q.value, s)[p]>> \o Without(Along(q.value, s), p)
<1> DEFINE i == s[p]
           w == Without(s, p)
           t == <<i>> \o w
           f == q.value
           r == MoveToFront(q, i)
<1>1. /\ s \in Seq(Items) /\ Represents(q, s) /\ i \in Items /\ Len(s) \in Nat
      /\ f \in [Items -> CacheItemValue \cup {NoValue}]
  BY DEF Keeps, Lists
<1>2. r \in Lists(CacheItemValue) /\ Represents(r, t) /\ r.value = f
  BY <1>1, MoveToFrontRepresents
<1>3. /\ w \in Seq(Items) /\ Len(w) = Len(s) - 1
      /\ \A j \in 1..(Len(s) - 1) : w[j] = (IF j < p THEN s[j] ELSE s[j + 1])
  BY <1>1, WithoutOne
<1>4. Along(f, w) = Without(Along(f, s), p) /\ Along(f, s)[p] = f[i]
  BY <1>1, AlongWithout, AlongSeq
<1> HIDE DEF w, i, f, r
<1>5. /\ t \in Seq(Items) /\ Len(t) = Len(w) + 1 /\ t[1] = i
      /\ \A k \in 1..(Len(w) + 1) : k # 1 => k - 1 \in 1..Len(w) /\ t[k] = w[k - 1]
  BY <1>1, <1>3, InFront
<1>6. Along(f, t) = <<f[i]>> \o Along(f, w)
  BY <1>1, <1>3, AlongFront
<1> HIDE DEF t
<1>7. \A j \in 1..Len(s) : \E k \in 1..Len(t) : t[k] = s[j]
  <2> SUFFICES ASSUME NEW j \in 1..Len(s) PROVE \E k \in 1..Len(t) : t[k] = s[j]
    OBVIOUS
  <2>0. Len(t) = Len(s) /\ 1 \in 1..Len(t)
    BY <1>1, <1>3, <1>5
  <2>1. CASE j = p
    BY <2>0, <2>1, <1>5 DEF i
  <2>2. CASE j < p
    <3>1. j \in 1..(Len(s) - 1) /\ j + 1 \in 1..Len(t) /\ j + 1 # 1 /\ (j + 1) - 1 = j
      BY <2>0, <2>2, <1>1
    <3>2. w[j] = s[j] /\ t[j + 1] = w[j]
      BY <2>0, <2>2, <3>1, <1>3, <1>5
    <3> QED
      BY <3>1, <3>2
  <2>3. CASE j > p
    <3>1. j - 1 \in 1..(Len(s) - 1) /\ ~(j - 1 < p) /\ (j - 1) + 1 = j /\ j \in 1..Len(t) /\ j # 1
      BY <2>0, <2>3, <1>1
    <3>2. w[j - 1] = s[j] /\ t[j] = w[j - 1]
      BY <2>0, <3>1, <1>3, <1>5
    <3> QED
      BY <3>1, <3>2
  <2> QED
    BY <2>1, <2>2, <2>3, <1>1
<1>8. \A k \in 1..Len(t) : \E j \in 1..Len(s) : t[k] = s[j]
  <2> SUFFICES ASSUME NEW k \in 1..Len(t) PROVE \E j \in 1..Len(s) : t[k] = s[j]
    OBVIOUS
  <2>1. CASE k = 1
    BY <2>1, <1>5 DEF i
  <2>2. CASE k # 1
    <3>1. k - 1 \in 1..(Len(s) - 1) /\ t[k] = w[k - 1] /\ (k - 1) + 1 = k
      BY <2>2, <1>1, <1>3, <1>5
    <3>2. k - 1 \in 1..Len(s) /\ k \in 1..Len(s)
      BY <3>1, <1>1
    <3>3. t[k] = s[k - 1] \/ t[k] = s[k]
      BY <3>1, <1>3
    <3> QED
      BY <3>2, <3>3
  <2> QED
    BY <2>1, <2>2
<1>9. Len(t) <= c
  BY <1>1, <1>3, <1>5 DEF Keeps
<1>10. ASSUME NEW key \in Keys, m[key] # Nil
       PROVE  /\ \E k \in 1..Len(t) : m[key] = t[k]
              /\ r.value[m[key]] \in CacheItemValue /\ r.value[m[key]].k = key
  <2>1. PICK j \in 1..Len(s) : m[key] = s[j]
    BY <1>10 DEF Keeps
  <2>2. PICK k \in 1..Len(t) : t[k] = s[j]
    BY <1>7
  <2> QED
    BY <1>2, <1>10, <2>1, <2>2 DEF Keeps, f
<1>11. \A k \in 1..Len(t) : \E key \in Keys : m[key] = t[k]
  BY <1>8 DEF Keeps
<1>12. Keeps(r, m, c, t)
  BY <1>2, <1>5, <1>9, <1>10, <1>11 DEF Keeps
<1> QED
  BY <1>2, <1>4, <1>6, <1>12 DEF t, i, w, f, r

\* Get of a key that is there: its pair is the first from now on.
LEMMA GetPresentStep ==
  ASSUME CachePart, NEW key \in Keys, GetPresent(key)
  PROVE  CachePart' /\ Lru!Get(key)
<1> DEFINE s == Order(queue)
           f == queue.value
<1>1. Keeps(queue, items, capacity, s) /\ Content(queue) = Along(f, s)
  BY CacheKeeps
<1>2. PICK p \in 1..Len(s) : items[key] = s[p]
  BY <1>1 DEF Keeps, GetPresent, Found
<1>3. p \in Lru!Position(key)
  BY <1>2, Positions
<1>4. /\ queue \in Lists(CacheItemValue) /\ s \in Seq(Items)
      /\ f \in [Items -> CacheItemValue \cup {NoValue}]
  BY <1>1 DEF Keeps, Lists
<1> HIDE DEF s, f
<1> DEFINE t == <<s[p]>> \o Without(s, p)
<1>5. /\ Keeps(queue', items, capacity, t) /\ queue'.value = f
      /\ Along(f, t) = <<Along(f, s)[p]>> \o Without(Along(f, s), p)
  <2>1. queue' = MoveToFront(queue, s[p])
    BY <1>2 DEF GetPresent
  <2>2. /\ Keeps(queue', items, capacity, <<s[p]>> \o Without(s, p))
        /\ queue'.value = queue.value
        /\ Along(queue.value, <<s[p]>> \o Without(s, p)) =
             <<Along(queue.value, s)[p]>> \o Without(Along(queue.value, s), p)
    <3>1. queue \in Lists(CacheItemValue) /\ Keeps(queue, items, capacity, s) /\ p \in 1..Len(s)
      BY <1>1, <1>2, <1>4
    <3> QED
      BY <2>1, <3>1, MovedKeeps
  <2> QED
    BY <2>2 DEF f
<1> HIDE DEF t
<1>6. items' = items /\ capacity' = capacity
  BY DEF GetPresent
<1>7. answer' = [ok |-> TRUE, value |-> Content(queue)[p].v]
  <2>1. Content(queue)[p] = f[items[key]]
    BY <1>1, <1>2 DEF Along
  <2> QED
    BY <2>1 DEF GetPresent, f
<1>8. Content(queue)[p].v \in Values
  <2>1. Content(queue)[p] = f[items[key]] /\ f[items[key]] \in CacheItemValue
    BY <1>1, <1>2 DEF Along, Keeps, GetPresent, Found, f
  <2> QED
    BY <2>1 DEF CacheItemValue
<1>9. CachePart' /\ Content(queue)' = Along(f, t)
  <2>1. answer' \in [ok : BOOLEAN, value : Values \cup {NoValue}]
    BY <1>7, <1>8
  <2> QED
    BY <1>5, <1>6, <2>1, KeepsCache DEF CachePart
<1>10. Content(queue)' = <<Content(queue)[p]>> \o Without(Content(queue), p)
  BY <1>1, <1>5, <1>9
<1> QED
  BY <1>3, <1>6, <1>7, <1>9, <1>10 DEF Lru!Get, Lru!RemoveAt, Without

\* Set of a key that is there: the new pair takes the place of the old one, in front.
LEMMA SetPresentStep ==
  ASSUME CachePart, NEW key \in Keys, NEW value \in Values, SetPresent(key, value)
  PROVE  CachePart' /\ Lru!Set(key, value)
<1> DEFINE s == Order(queue)
           f == queue.value
           pair == [k |-> key, v |-> value]
<1>1. Keeps(queue, items, capacity, s) /\ Content(queue) = Along(f, s)
  BY CacheKeeps
<1>2. PICK p \in 1..Len(s) : items[key] = s[p]
  BY <1>1 DEF Keeps, SetPresent, Found
<1>3. p \in Lru!Position(key)
  BY <1>2, Positions
<1>4. /\ queue \in Lists(CacheItemValue) /\ s \in Seq(Items) /\ Represents(queue, s)
      /\ f \in [Items -> CacheItemValue \cup {NoValue}] /\ s[p] \in Items
      /\ pair \in CacheItemValue /\ pair.k = key
  BY <1>1 DEF Keeps, Lists, CacheItemValue
<1> DEFINE q == WithItem(queue, s[p], pair)
           g == [f EXCEPT ![s[p]] = pair]
           w == Without(s, p)
<1> HIDE DEF s, pair
<1>5. q \in Lists(CacheItemValue) /\ Represents(q, s) /\ q.value = g
  BY <1>4, WithItemTyped
<1>6. queue' = MoveToFront(q, s[p]) /\ items' = items /\ capacity' = capacity
  BY <1>2 DEF SetPresent, pair
<1> HIDE DEF q, f
<1>7. /\ \A i \in Items : g[i] = (IF i = s[p] THEN pair ELSE f[i])
      /\ g \in [Items -> CacheItemValue \cup {NoValue}]
  BY <1>4
<1> HIDE DEF g
<1>8. Keeps(q, items, capacity, s)
  <2>1. ASSUME NEW other \in Keys, items[other] # Nil
        PROVE  /\ \E k \in 1..Len(s) : items[other] = s[k]
               /\ g[items[other]] \in CacheItemValue /\ g[items[other]].k = other
    <3>1. /\ \E k \in 1..Len(s) : items[other] = s[k]
          /\ f[items[other]] \in CacheItemValue /\ f[items[other]].k = other
      BY <1>1, <2>1 DEF Keeps, f
    <3>2. items[other] \in Items
      BY <1>4, <3>1
    <3>3. CASE items[other] = s[p]
      <4>1. f[s[p]].k = other /\ f[s[p]].k = key
        BY <1>1, <1>2, <2>1, <3>1, <3>3 DEF Keeps, f
      <4> QED
        BY <1>4, <1>7, <3>1, <3>2, <3>3, <4>1
    <3>4. CASE items[other] # s[p]
      BY <1>7, <3>1, <3>2, <3>4
    <3> QED
      BY <3>3, <3>4
  <2> QED
    BY <1>1, <1>4, <1>5, <2>1 DEF Keeps
<1>9. /\ Keeps(queue', items, capacity, <<s[p]>> \o w) /\ queue'.value = g
      /\ Along(g, <<s[p]>> \o w) = <<Along(g, s)[p]>> \o Without(Along(g, s), p)
  <2>1. /\ Keeps(queue', items, capacity, <<s[p]>> \o Without(s, p))
        /\ queue'.value = q.value
        /\ Along(q.value, <<s[p]>> \o Without(s, p)) =
             <<Along(q.value, s)[p]>> \o Without(Along(q.value, s), p)
    <3>1. q \in Lists(CacheItemValue) /\ Keeps(q, items, capacity, s) /\ p \in 1..Len(s)
      BY <1>2, <1>5, <1>8
    <3>2. queue' = MoveToFront(q, s[p])
      BY <1>6
    <3> QED
      BY <3>1, <3>2, MovedKeeps
  <2> QED
    BY <1>5, <2>1
<1>10. Along(g, <<s[p]>> \o w) = <<pair>> \o Without(Along(f, s), p)
  <2>1. w \in Seq(Items) /\ \A k \in 1..Len(w) : w[k] # s[p]
    BY <1>4, WithoutOne, WithoutIt, RepresentsDistinct
  <2>2. Along(g, w) = Along(f, w)
    BY <1>4, <2>1, AlongSame DEF g
  <2>3. Along(f, w) = Without(Along(f, s), p)
    BY <1>4, AlongWithout
  <2>4. Along(g, <<s[p]>> \o w) = <<g[s[p]]>> \o Along(g, w)
    BY <1>4, <1>7, <2>1, AlongFront
  <2>5. g[s[p]] = pair
    BY <1>4, <1>7
  <2> QED
    BY <2>2, <2>3, <2>4, <2>5
<1>11. answer' = [ok |-> TRUE, value |-> NoValue]
  BY DEF SetPresent
<1>12. CachePart' /\ Content(queue)' = Along(g, <<s[p]>> \o w)
  <2>1. answer' \in [ok : BOOLEAN, value : Values \cup {NoValue}]
    BY <1>11
  <2> QED
    BY <1>6, <1>9, <2>1, KeepsCache DEF CachePart
<1>13. Content(queue)' = <<pair>> \o Without(Content(queue), p)
  BY <1>1, <1>10, <1>12
<1> QED
  BY <1>3, <1>6, <1>11, <1>12, <1>13 DEF Lru!Set, Lru!RemoveAt, Without, pair

\* The sequence without its last element.
LEMMA WithoutLast ==
  ASSUME NEW S, NEW s \in Seq(S), Len(s) # 0
  PROVE  /\ Without(s, Len(s)) = SubSeq(s, 1, Len(s) - 1)
         /\ SubSeq(s, 1, Len(s) - 1) \in Seq(S) /\ Len(SubSeq(s, 1, Len(s) - 1)) = Len(s) - 1
<1> DEFINE n == Len(s) - 1
           a == Without(s, Len(s))
           b == SubSeq(s, 1, n)
<1>1. n \in Nat /\ Len(s) \in 1..Len(s) /\ Len(s) = n + 1
  OBVIOUS
<1>2. /\ a \in Seq(S) /\ Len(a) = n
      /\ \A k \in 1..n : a[k] = s[k]
  <2>1. /\ a \in Seq(S) /\ Len(a) = n
        /\ \A k \in 1..n : a[k] = (IF k < Len(s) THEN s[k] ELSE s[k + 1])
    BY <1>1, WithoutOne
  <2>2. \A k \in 1..n : k < Len(s)
    BY <1>1
  <2> QED
    BY <2>1, <2>2
<1>3. b \in Seq(S) /\ Len(b) = n /\ \A k \in 1..n : b[k] = s[k]
  BY <1>1
<1> HIDE DEF a, b
<1>4. a = b
  BY <1>2, <1>3, SeqEqual
<1> QED
  BY <1>3, <1>4 DEF a, b, n

\* Set of a new key: its pair comes first, and what is one too many goes, from the queue
\* and from the map.
LEMMA SetAbsentStep ==
  ASSUME CachePart, NEW key \in Keys, NEW value \in Values, SetAbsent(key, value)
  PROVE  CachePart' /\ Lru!Set(key, value)
<1> DEFINE s == Order(queue)
           f == queue.value
           pair == [k |-> key, v |-> value]
<1>1. /\ Keeps(queue, items, capacity, s) /\ Content(queue) = Along(f, s)
      /\ InList(queue) = {s[p] : p \in 1..Len(s)}
  BY CacheKeeps
<1>2. PICK i \in Items \ InList(queue) :
        LET pushed == PushFront(WithItem(queue, i, pair), i)
            added == [items EXCEPT ![key] = i]
            toDelete == pushed.last
        IN  IF pushed.length > capacity
            THEN /\ queue' = Remove(pushed, toDelete)
                 /\ items' = [added EXCEPT ![pushed.value[toDelete].k] = Nil]
            ELSE /\ queue' = pushed
                 /\ items' = added
  BY DEF SetAbsent
<1>3. Lru!Position(key) = {} /\ items[key] = Nil
  BY Positions DEF SetAbsent, Found
<1>4. /\ queue \in Lists(CacheItemValue) /\ s \in Seq(Items) /\ Represents(queue, s)
      /\ f \in [Items -> CacheItemValue \cup {NoValue}] /\ Len(s) <= capacity
      /\ pair \in CacheItemValue /\ pair.k = key
      /\ i \in Items /\ \A k \in 1..Len(s) : s[k] # i
      /\ items \in [Keys -> Items \cup {Nil}] /\ capacity \in Nat /\ i # Nil /\ Len(s) \in Nat
  BY <1>1, NilAssumption, CapacitiesAssumption DEF Keeps, Lists, CacheItemValue, CachePart
<1> DEFINE q == WithItem(queue, i, pair)
           pushed == PushFront(q, i)
           g == [f EXCEPT ![i] = pair]
           t == <<i>> \o s
           added == [items EXCEPT ![key] = i]
<1>5. q \in Lists(CacheItemValue) /\ Represents(q, s) /\ q.value = g
  BY <1>4, WithItemTyped
<1>6. IF pushed.length > capacity
      THEN /\ queue' = Remove(pushed, pushed.last)
           /\ items' = [added EXCEPT ![pushed.value[pushed.last].k] = Nil]
      ELSE /\ queue' = pushed
           /\ items' = added
  BY <1>2
<1> HIDE DEF s, pair, q, f
<1>7. pushed \in Lists(CacheItemValue) /\ Represents(pushed, t) /\ pushed.value = g
  BY <1>4, <1>5, PushFrontRepresents
<1>8. /\ \A j \in Items : g[j] = (IF j = i THEN pair ELSE f[j])
      /\ g \in [Items -> CacheItemValue \cup {NoValue}]
      /\ \A other \in Keys : added[other] = (IF other = key THEN i ELSE items[other])
      /\ added \in [Keys -> Items \cup {Nil}]
  BY <1>4
<1>9. /\ t \in Seq(Items) /\ Len(t) = Len(s) + 1 /\ t[1] = i
      /\ \A k \in 1..(Len(s) + 1) : k # 1 => k - 1 \in 1..Len(s) /\ t[k] = s[k - 1]
  BY <1>4, InFront
<1>10. Along(g, t) = <<pair>> \o Along(f, s)
  <2>1. Along(g, s) = Along(f, s)
    BY <1>4, AlongSame DEF g
  <2>2. Along(g, t) = <<g[i]>> \o Along(g, s)
    <3> HIDE DEF g
    <3> QED
      BY <1>4, <1>8, AlongFront
  <2>3. g[i] = pair
    <3> HIDE DEF g
    <3> QED
      BY <1>4, <1>8
  <2> HIDE DEF g, t
  <2> QED
    BY <2>1, <2>2, <2>3
<1> HIDE DEF g, t, added, pushed
<1>11. Keeps(pushed, added, Len(t), t)
  <2>1. \A k \in 1..Len(s) : k + 1 \in 1..Len(t) /\ t[k + 1] = s[k]
    <3> TAKE k \in 1..Len(s)
    <3>1. k + 1 \in 1..(Len(s) + 1) /\ k + 1 # 1 /\ (k + 1) - 1 = k
      BY <1>4
    <3> QED
      BY <3>1, <1>9
  <2>2. ASSUME NEW other \in Keys, added[other] # Nil
        PROVE  /\ \E k \in 1..Len(t) : added[other] = t[k]
               /\ g[added[other]] \in CacheItemValue /\ g[added[other]].k = other
    <3>1. CASE other = key
      <4>1. added[other] = i /\ 1 \in 1..Len(t)
        BY <3>1, <1>4, <1>8, <1>9
      <4> QED
        BY <3>1, <4>1, <1>4, <1>8, <1>9
    <3>2. CASE other # key
      <4>1. added[other] = items[other] /\ items[other] # Nil
        BY <2>2, <3>2, <1>8
      <4>2. PICK k \in 1..Len(s) : items[other] = s[k]
        BY <1>1, <4>1 DEF Keeps
      <4>3. f[s[k]] \in CacheItemValue /\ f[s[k]].k = other
        BY <1>1, <4>1, <4>2 DEF Keeps, f
      <4>4. s[k] # i /\ s[k] \in Items
        BY <1>4
      <4> QED
        BY <2>1, <4>1, <4>2, <4>3, <4>4, <1>8
    <3> QED
      BY <3>1, <3>2
  <2>3. ASSUME NEW k \in 1..Len(t)
        PROVE  \E other \in Keys : added[other] = t[k]
    <3>1. CASE k = 1
      BY <3>1, <1>8, <1>9
    <3>2. CASE k # 1
      <4>1. k - 1 \in 1..Len(s) /\ t[k] = s[k - 1]
        BY <3>2, <1>9
      <4>2. PICK other \in Keys : items[other] = s[k - 1]
        BY <4>1, <1>1 DEF Keeps
      <4>3. other # key
        BY <4>1, <4>2, <1>3, <1>4, NilAssumption
      <4> QED
        BY <4>1, <4>2, <4>3, <1>8
    <3> QED
      BY <3>1, <3>2
  <2> QED
    BY <1>4, <1>7, <1>9, <2>2, <2>3 DEF Keeps
<1>12. pushed.length = Len(t) /\ pushed.last = t[Len(t)] /\ Len(t) \in 1..Len(t)
  <2>1. Len(t) # 0 /\ t # <<>> /\ Len(t) \in Nat
    BY <1>4, <1>9
  <2> QED
    BY <2>1, <1>7, <1>9 DEF Represents
<1>13. answer' = [ok |-> FALSE, value |-> NoValue] /\ capacity' = capacity
  BY DEF SetAbsent
<1>14. answer' \in [ok : BOOLEAN, value : Values \cup {NoValue}] /\ capacity' \in Capacities
  BY <1>13 DEF CachePart
<1>15. /\ Along(g, t) \in Seq(CacheItemValue \cup {NoValue}) /\ Len(Along(g, t)) = Len(t)
  BY <1>8, <1>9, AlongSeq
<1>16. CASE Len(t) > capacity
  <2> DEFINE n == Len(t)
             d == t[n]
             u == Without(t, n)
  <2>1. queue' = Remove(pushed, d) /\ items' = [added EXCEPT ![g[d].k] = Nil]
    BY <1>6, <1>7, <1>12, <1>16
  <2>2. Len(s) = capacity /\ n = capacity + 1
    BY <1>4, <1>9, <1>16
  <2>3. /\ queue' \in Lists(CacheItemValue) /\ Represents(queue', u) /\ queue'.value = g
    BY <1>7, <1>9, <1>12, <2>1, RemoveRepresents
  <2>4. /\ u \in Seq(Items) /\ Len(u) = n - 1 /\ \A k \in 1..(n - 1) : u[k] = t[k]
    BY <1>9, <1>12, WithoutOne
  <2>5. \A j, k \in 1..n : t[j] = t[k] => j = k
    BY <1>7 DEF Represents
  <2>6. PICK old \in Keys : added[old] = d
    BY <1>11, <1>12 DEF Keeps
  <2>7. d \in Items /\ d # Nil
    BY <1>9, <1>12, NilAssumption
  <2>8. g[d].k = old
    BY <1>7, <1>11, <2>6, <2>7 DEF Keeps
  <2>9. /\ \A other \in Keys : items'[other] = (IF other = old THEN Nil ELSE added[other])
        /\ items' \in [Keys -> Items \cup {Nil}]
    BY <1>8, <2>1, <2>8
  <2> HIDE DEF u, d, n
  <2>10. ASSUME NEW other \in Keys, items'[other] # Nil
         PROVE  /\ \E k \in 1..Len(u) : items'[other] = u[k]
                /\ g[items'[other]] \in CacheItemValue /\ g[items'[other]].k = other
    <3>1. other # old /\ items'[other] = added[other]
      BY <2>9, <2>10
    <3>2. /\ g[added[other]] \in CacheItemValue /\ g[added[other]].k = other
          /\ \E k \in 1..Len(t) : added[other] = t[k]
      BY <1>7, <1>11, <2>10, <3>1 DEF Keeps
    <3>3. PICK k \in 1..Len(t) : added[other] = t[k]
      BY <3>2
    <3>4. k # n
      BY <3>1, <3>2, <3>3, <2>8 DEF d
    <3>5. k \in 1..(n - 1)
      BY <3>4, <1>12 DEF n
    <3> QED
      BY <3>1, <3>2, <3>3, <3>5, <2>4
  <2>11. ASSUME NEW k \in 1..Len(u)
         PROVE  \E other \in Keys : items'[other] = u[k]
    <3>1. k \in 1..(n - 1) /\ k \in 1..n /\ n \in 1..n /\ k # n /\ u[k] = t[k]
      BY <2>4, <1>12 DEF n
    <3>2. PICK other \in Keys : added[other] = t[k]
      BY <3>1, <1>11 DEF Keeps, n
    <3>3. other # old
      BY <3>1, <3>2, <2>5, <2>6 DEF d
    <3> QED
      BY <3>1, <3>2, <3>3, <2>9
  <2>12. Keeps(queue', items', capacity', u)
    <3>1. Len(u) <= capacity'
      BY <1>4, <1>13, <2>2, <2>4
    <3> QED
      BY <3>1, <2>3, <2>4, <2>10, <2>11 DEF Keeps
  <2>13. CachePart' /\ Content(queue)' = Along(g, u)
    BY <1>14, <2>3, <2>9, <2>12, KeepsCache
  <2>14. Along(g, u) = Without(Along(g, t), n)
    <3>1. n \in 1..Len(t)
      BY <1>12 DEF n
    <3>2. g \in [Items -> CacheItemValue \cup {NoValue}]
      BY <1>8
    <3>3. t \in Seq(Items)
      BY <1>9
    <3> QED
      BY <3>1, <3>2, <3>3, AlongWithout DEF u
  <2>15. Without(Along(g, t), n) = SubSeq(Along(g, t), 1, n - 1)
    <3>1. Len(Along(g, t)) = n /\ Len(Along(g, t)) # 0
      BY <1>12, <1>15 DEF n
    <3> QED
      BY <3>1, <1>15, WithoutLast
  <2>16. n - 1 = capacity
    BY <2>2, <1>4
  <2>17. Content(queue)' = Lru!Kept(<<pair>> \o Content(queue))
    <3>1. Content(queue)' = SubSeq(Along(g, t), 1, capacity)
      BY <2>13, <2>14, <2>15, <2>16
    <3>2. <<pair>> \o Content(queue) = Along(g, t)
      BY <1>1, <1>10
    <3>3. Len(Along(g, t)) > capacity
      BY <1>15, <1>16
    <3> QED
      BY <3>1, <3>2, <3>3 DEF Lru!Kept
  <2> QED
    BY <1>3, <1>13, <2>13, <2>17 DEF Lru!Set, pair
<1>17. CASE ~(Len(t) > capacity)
  <2>1. queue' = pushed /\ items' = added
    BY <1>6, <1>12, <1>17
  <2>2. Keeps(queue', items', capacity', t)
    <3>1. Len(t) <= capacity
      BY <1>4, <1>9, <1>17
    <3> QED
      BY <1>11, <1>13, <2>1, <3>1 DEF Keeps
  <2>3. CachePart' /\ Content(queue)' = Along(g, t)
    BY <1>7, <1>8, <1>14, <2>1, <2>2, KeepsCache
  <2>4. SubSeq(Along(g, t), 1, Len(Along(g, t))) = Along(g, t)
    BY <1>15
  <2>5. Content(queue)' = Lru!Kept(<<pair>> \o Content(queue))
    <3>1. <<pair>> \o Content(queue) = Along(g, t)
      BY <1>1, <1>10
    <3>2. ~(Len(Along(g, t)) > capacity)
      BY <1>15, <1>17
    <3> QED
      BY <2>3, <2>4, <3>1, <3>2 DEF Lru!Kept
  <2> QED
    BY <1>3, <1>13, <2>3, <2>5 DEF Lru!Set, pair
<1> QED
  BY <1>16, <1>17

\* Get of a key that is not there changes nothing but the answer.
LEMMA GetAbsentStep ==
  ASSUME CachePart, NEW key \in Keys, GetAbsent(key)
  PROVE  CachePart' /\ Lru!Get(key)
<1>1. Lru!Position(key) = {}
  BY Positions DEF GetAbsent
<1>2. /\ answer' = [ok |-> FALSE, value |-> NoValue] /\ capacity' = capacity
      /\ queue' = queue /\ items' = items
  BY DEF GetAbsent
<1>3. CachePart'
  BY <1>2 DEF CachePart, MapMatchesQueue, Stored, Found
<1>4. Content(queue)' = Content(queue)
  BY <1>2
<1> QED
  BY <1>1, <1>2, <1>3, <1>4 DEF Lru!Get

\* A new queue and a new map hold nothing.
LEMMA EmptyKeeps ==
  ASSUME NEW c \in Nat
  PROVE  Keeps(NewList, [key \in Keys |-> Nil], c, <<>>)
<1>1. NewList \in Lists(CacheItemValue) /\ Represents(NewList, <<>>)
  BY NewListTyped
<1> QED
  BY <1>1 DEF Keeps

\* No item has no value.
LEMMA AlongEmpty ==
  ASSUME NEW f
  PROVE  Along(f, <<>>) = <<>>
BY DEF Along

\* Clear leaves an empty sequence.
LEMMA ClearStep ==
  ASSUME CachePart, Clear
  PROVE  CachePart' /\ Lru!Clear
<1>1. /\ queue' = NewList /\ items' = [key \in Keys |-> Nil]
      /\ capacity' = capacity /\ answer' = answer
  BY DEF Clear
<1>2. capacity' \in Nat
  BY <1>1, CapacitiesAssumption DEF CachePart
<1>3. Keeps(queue', items', capacity', <<>>)
  BY <1>1, <1>2, EmptyKeeps
<1>4. /\ capacity' \in Capacities /\ items' \in [Keys -> Items \cup {Nil}]
      /\ answer' \in [ok : BOOLEAN, value : Values \cup {NoValue}]
  BY <1>1 DEF CachePart
<1>5. CachePart' /\ Content(queue)' = Along(queue'.value, <<>>)
  BY <1>3, <1>4, KeepsCache
<1>6. Content(queue)' = <<>>
  BY <1>5, AlongEmpty
<1> QED
  BY <1>1, <1>5, <1>6 DEF Lru!Clear

\* So does the start.
LEMMA CacheStart == Init => CachePart /\ Lru!Init
<1> SUFFICES ASSUME Init PROVE CachePart /\ Lru!Init
  OBVIOUS
<1>1. /\ queue \in Lists(CacheItemValue) /\ Represents(queue, <<>>) /\ <<>> \in Seq(Items)
      /\ queue.length = 0
  BY NewListTyped DEF Init, NewList
<1>2. /\ Content(queue) = Along(queue.value, <<>>) /\ Linked(queue) /\ InList(queue) = {}
  <2>1. InList(queue) = {<<>>[k] : k \in 1..Len(<<>>)}
    BY <1>1, ContentIs
  <2>2. 1..Len(<<>>) = {}
    OBVIOUS
  <2> QED
    BY <1>1, <2>1, <2>2, ContentIs
<1>3. \A key \in Keys : items[key] = Nil
  BY DEF Init
<1>4. MapMatchesQueue /\ Stored
  BY <1>1, <1>2, <1>3, CapacitiesAssumption DEF MapMatchesQueue, Stored, Found, Init
<1>5. CachePart
  BY <1>1, <1>2, <1>4 DEF CachePart, Init
<1>6. Lru!Init
  BY <1>2, AlongEmpty DEF Init, Lru!Init
<1> QED
  BY <1>5, <1>6

\* Every step is one of the abstract cache or leaves it as it is.
LEMMA CacheStep == CachePart /\ [Next]_vars => CachePart' /\ [Lru!Next]_(Lru!vars)
<1> SUFFICES ASSUME CachePart, [Next]_vars
             PROVE  CachePart' /\ [Lru!Next]_(Lru!vars)
  OBVIOUS
<1>1. CASE CacheNext
  <2>1. ASSUME NEW key \in Keys, NEW value \in Values, Set(key, value)
        PROVE  CachePart' /\ Lru!Next
    BY <2>1, SetPresentStep, SetAbsentStep DEF Set, Lru!Next
  <2>2. ASSUME NEW key \in Keys, Get(key)
        PROVE  CachePart' /\ Lru!Next
    BY <2>2, GetPresentStep, GetAbsentStep DEF Get, Lru!Next
  <2>3. ASSUME Clear
        PROVE  CachePart' /\ Lru!Next
    BY <2>3, ClearStep DEF Lru!Next
  <2> QED
    BY <1>1, <2>1, <2>2, <2>3 DEF CacheNext
<1>2. CASE UNCHANGED cacheVars
  <2>1. /\ answer' = answer /\ capacity' = capacity
        /\ queue' = queue /\ items' = items
    BY <1>2 DEF cacheVars
  <2>2. CachePart'
    BY <2>1 DEF CachePart, MapMatchesQueue, Stored, Found
  <2>3. Content(queue)' = Content(queue)
    BY <2>1
  <2> QED
    BY <2>1, <2>2, <2>3 DEF Lru!vars
<1> QED
  BY <1>1, <1>2 DEF Next, vars

\* The inductive invariant of the list, the queue and the map holds always: RepresentationOK,
\* and that every key leads to a pair.
THEOREM CacheInvariance == Spec => []CacheInv
<1>1. CacheInv <=> CachePart /\ ListInv
  BY DEF CacheInv, RepresentationOK, TypeOK, WellLinked, CachePart, ListInv
<1>2. Init => CachePart /\ ListInv
  BY CacheStart, ListStart DEF Init
<1> QED
  BY <1>1, <1>2, CacheStep, ListStep, PTL DEF Spec

\* RepresentationOK, for any number of items, keys and values and for every capacity: the
\* pointers of both lists hang together in both directions, and the map and the queue hold
\* the same pairs, never more of them than capacity.
THEOREM RepresentationHolds == Spec => []RepresentationOK
<1>1. CacheInv => RepresentationOK
  BY DEF CacheInv
<1> QED
  BY <1>1, CacheInvariance, PTL

\* CacheImplementsLru: Set, Get and Clear answer, and evict, as those of a sequence of pairs
\* in the order of their last use, for every capacity, 0 included.
THEOREM CacheImplementsLruHolds == Spec => CacheImplementsLru
<1>1. Init => CachePart /\ Lru!Init
  BY CacheStart
<1> QED
  BY <1>1, CacheStep, PTL DEF Spec, CacheImplementsLru, Lru!Spec
===============================================================================
