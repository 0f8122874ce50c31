---------------------------- MODULE Programs_proof ----------------------------
(***************************************************************************)
(* The programs of many processes beside the storage and its clients: the  *)
(* parallel runner, the pipeline, the telnet client, the start and the     *)
(* stop of the calendar's programs.  Each has an inductive invariant, from *)
(* which its safety properties follow for all values of its constants.     *)
(***************************************************************************)
EXTENDS MCPrograms, SequenceTheorems, FiniteSetTheorems, TLAPS

(**************************************************************************)
(* The pipeline of hw06.                                                  *)
(**************************************************************************)

\* The places are in a row, and those before the reader are places.
LEMMA PlacesInRow ==
  ASSUME PipeTypeOK, PlacesInv
  PROVE  /\ length \in Nat \ {0}
         /\ 0..length \subseteq Places
         /\ 0..length \subseteq Int
         /\ Reader = length /\ length \in Places /\ length - 1 \in Places
BY StagesAssumption DEF PipeTypeOK, PlacesInv, Places, Reader

\* The inductive invariant of the pipeline holds at the start.
LEMMA PipeInitInv == PipeInit => PipeInv
<1> SUFFICES ASSUME PipeInit PROVE PipeInv
  OBVIOUS
<1>1. PICK in \in {"nil", "channel"} :
        /\ length = IF in = "nil" THEN 1 ELSE 2 * stages + 1
        /\ pc = [p \in Places |->
                   IF p # 0 THEN "receiving"
                   ELSE IF in = "nil" \/ Amount = 0 THEN "returned" ELSE "sending"]
        /\ holds = [p \in Places |-> IF p = 0 /\ in = "channel" /\ Amount > 0 THEN 1 ELSE 0]
  BY DEF PipeInit
<1>2. stages \in 0..MaxStages /\ done = FALSE /\ output = <<>>
  BY DEF PipeInit
<1>3. length \in Places /\ length >= 1 /\ 0 \in Places /\ length \in Int
  BY <1>1, <1>2, StagesAssumption DEF Places
<1>4. PipeTypeOK
  <2>1. holds \in [Places -> 0..Amount]
    BY <1>1, AmountAssumption
  <2>2. pc \in [Places -> {"receiving", "sending", "returned"}]
    BY <1>1
  <2> QED
    BY <1>2, <1>3, <2>1, <2>2 DEF PipeTypeOK
<1>5. PlacesInv
  BY <1>1, <1>3 DEF PlacesInv
<1>6. \A p \in 0..length : p \in Places /\ (p # 0 => pc[p] = "receiving")
  <2>1. 0..length \subseteq Places
    BY <1>3, StagesAssumption DEF Places
  <2> QED
    BY <1>1, <2>1
<1>7. SentInv
  BY <1>1, <1>2, <1>3, <1>6, AmountAssumption DEF SentInv
<1>8. RowInv
  <2> SUFFICES ASSUME NEW q \in 1..length, Stands(q)
               PROVE  /\ \A p \in 0..(q - 1) :
                           (pc[p] = "sending" /\ NoneSends(p + 1, q - 1)) => holds[p] = Got(q) + 1
                      /\ (length > 1 /\ NoneSends(0, q - 1)) =>
                           (pc[0] = "returned" /\ Got(q) = Amount)
    BY DEF RowInv
  <2>1. q = length /\ Got(q) = 0
    BY <1>2, <1>3, <1>6 DEF Stands, Got, Reader
  <2>2. ASSUME NEW p \in 0..(q - 1), pc[p] = "sending"
        PROVE  holds[p] = 1
    <3>1. p = 0 /\ p \in Places
      BY <1>3, <1>6, <2>1, <2>2
    <3>2. in = "channel" /\ Amount > 0
      BY <1>1, <2>2, <3>1, AmountAssumption
    <3> QED
      BY <1>1, <3>1, <3>2
  <2>3. ASSUME length > 1, NoneSends(0, q - 1)
        PROVE  pc[0] = "returned" /\ Amount = 0
    BY <1>1, <1>3, <2>1, <2>3 DEF NoneSends
  <2> QED
    BY <2>1, <2>2, <2>3
<1>9. ReturnedInv
  BY <1>6, <1>3 DEF ReturnedInv
<1> QED
  BY <1>4, <1>5, <1>7, <1>8, <1>9 DEF PipeInv

\* The sender of a value that is handed over goes on with the next one, if it has one.
LEMMA SentIs ==
  ASSUME PipeInv, NEW p \in 0..(length - 1), pc[p] = "sending"
  PROVE  /\ Sent(p).at \in {"receiving", "sending", "returned"}
         /\ Sent(p).value \in 0..Amount
         /\ Sent(p).at = "sending" =>
              p = 0 /\ Sent(p).value = holds[p] + 1 /\ Sent(p).value \in 1..Amount
         /\ p = 0 => Sent(p).at \in {"sending", "returned"}
         /\ Sent(p).at = "returned" => p = 0 /\ holds[p] = Amount
<1>1. holds[p] \in 1..Amount
  BY DEF PipeInv, SentInv
<1> QED
  BY <1>1, AmountAssumption DEF Sent

\* A value that goes to the reader.
LEMMA ToReader ==
  ASSUME PipeInv, NEW p \in Places, Transfer(p), p + 1 = Reader
  PROVE  PipeInv'
<1> DEFINE place == Sent(p).at
           value == Sent(p).value
<1>1. /\ length \in Nat \ {0} /\ 0..length \subseteq Places /\ 0..length \subseteq Int
      /\ p = length - 1 /\ p \in 0..(length - 1) /\ p \in Int
  BY PlacesInRow DEF Transfer, InUse, PipeInv, Reader, Places
<1>2. /\ pc[p] = "sending" /\ pc[length] = "receiving"
      /\ output' = Append(output, holds[p])
      /\ pc' = [pc EXCEPT ![p] = place]
      /\ holds' = [holds EXCEPT ![p] = value]
      /\ UNCHANGED <<stages, length, done>>
  BY <1>1 DEF Transfer, Reader
<1>3. /\ place \in {"receiving", "sending", "returned"}
      /\ value \in 0..Amount
      /\ place = "sending" => p = 0 /\ value = holds[p] + 1 /\ value \in 1..Amount
      /\ p = 0 => place \in {"sending", "returned"}
      /\ place = "returned" => p = 0 /\ holds[p] = Amount
  BY <1>1, <1>2, SentIs
<1> HIDE DEF place, value
<1>4. /\ pc \in [Places -> {"receiving", "sending", "returned"}]
      /\ holds \in [Places -> 0..Amount] /\ output \in Seq(1..Amount)
      /\ holds[p] \in 1..Amount
  BY <1>1, <1>2 DEF PipeInv, PipeTypeOK, SentInv
<1>5. holds[p] = Len(output) + 1
  BY <1>1, <1>2 DEF PipeInv, RowInv, Stands, NoneSends, Got, Reader
<1>6. /\ Len(output') = Len(output) + 1 /\ Len(output) \in Nat
      /\ output' \in Seq(1..Amount)
      /\ \A i \in 1..Len(output') : output'[i] = i
  <2>1. \A i \in 1..Len(output) : output[i] = i
    BY DEF PipeInv, SentInv
  <2> QED
    BY <1>2, <1>4, <1>5, <2>1, AppendProperties
<1>7. \A r \in 0..length : r # p => pc'[r] = pc[r] /\ holds'[r] = holds[r]
  BY <1>1, <1>2, <1>4
<1>8. pc'[p] = place /\ holds'[p] = value
  BY <1>1, <1>2, <1>4
<1>9. PipeTypeOK'
  <2>1. pc' \in [Places -> {"receiving", "sending", "returned"}] /\ holds' \in [Places -> 0..Amount]
    BY <1>2, <1>3, <1>4
  <2> QED
    BY <1>2, <1>6, <2>1 DEF PipeInv, PipeTypeOK, Places
<1>10. PlacesInv'
  BY <1>1, <1>2, <1>3, <1>7, <1>8 DEF PipeInv, PlacesInv
<1>11. SentInv'
  BY <1>1, <1>2, <1>3, <1>6, <1>7, <1>8 DEF PipeInv, SentInv
<1>12. RowInv'
  <2>1. \A q \in 1..(length - 1) : pc'[q] = "sending" => q # p /\ q < p
    BY <1>1, <1>3, <1>8
  <2> SUFFICES ASSUME NEW q \in 1..length, Stands(q)'
               PROVE  /\ \A r \in 0..(q - 1) :
                           (pc'[r] = "sending" /\ NoneSends(r + 1, q - 1)') => holds'[r] = Got(q)' + 1
                      /\ (length > 1 /\ NoneSends(0, q - 1)') =>
                           (pc'[0] = "returned" /\ Got(q)' = Amount)
    BY <1>2 DEF RowInv
  <2>2. CASE q = length
    <3>1. Got(q)' = holds[p]
      BY <1>2, <1>5, <1>6, <2>2 DEF Got, Reader
    <3>2. ASSUME NEW r \in 0..(q - 1), pc'[r] = "sending", NoneSends(r + 1, q - 1)'
          PROVE  holds'[r] = Got(q)' + 1
      <4>1. CASE r = p
        BY <1>3, <1>8, <3>1, <3>2, <4>1
      <4>2. CASE r # p
        <5>1. r < p /\ p >= 1 /\ p \in 1..length /\ pc[r] = "sending"
          BY <1>1, <1>7, <2>2, <3>2, <4>2
        <5>2. NoneSends(r + 1, p - 1)
          BY <1>1, <1>7, <2>2, <3>2, <5>1 DEF NoneSends
        <5>3. holds[r] = Got(p) + 1
          BY <1>2, <5>1, <5>2 DEF PipeInv, RowInv, Stands
        <5> QED
          BY <1>1, <1>7, <3>1, <5>1, <5>3 DEF Got, Reader
      <4> QED
        BY <4>1, <4>2
    <3>3. ASSUME length > 1, NoneSends(0, q - 1)'
          PROVE  pc'[0] = "returned" /\ Got(q)' = Amount
      <4>1. CASE p = 0
        BY <1>1, <3>3, <4>1
      <4>2. CASE p # 0
        <5>1. NoneSends(0, p - 1) /\ p \in 1..length
          BY <1>1, <1>7, <2>2, <3>3, <4>2 DEF NoneSends
        <5>2. pc[0] = "returned" /\ Got(p) = Amount
          BY <1>2, <3>3, <5>1 DEF PipeInv, RowInv, Stands
        <5> QED
          BY <1>1, <1>7, <3>1, <4>2, <5>2 DEF Got, Reader
      <4> QED
        BY <4>1, <4>2
    <3> QED
      BY <3>2, <3>3
  <2>3. CASE q # length
    <3>1. q < p /\ pc[q] = "sending" /\ Got(q)' = Got(q) /\ q \in 1..(p - 1)
      BY <1>1, <1>2, <1>7, <2>1, <2>3 DEF Stands, Got, Reader
    <3>2. \A r \in 0..(q - 1) : r # p /\ r \in 0..length /\ pc'[r] = pc[r] /\ holds'[r] = holds[r]
      BY <1>1, <1>7, <3>1
    <3>3. ASSUME NEW r \in 0..(q - 1), pc'[r] = "sending", NoneSends(r + 1, q - 1)'
          PROVE  holds'[r] = Got(q)' + 1
      <4>1. NoneSends(r + 1, q - 1)
        BY <3>2, <3>3 DEF NoneSends
      <4> QED
        BY <3>1, <3>2, <3>3, <4>1 DEF PipeInv, RowInv, Stands
    <3>4. ASSUME length > 1, NoneSends(0, q - 1)'
          PROVE  pc'[0] = "returned" /\ Got(q)' = Amount
      <4>1. NoneSends(0, q - 1)
        BY <3>2, <3>4 DEF NoneSends
      <4> QED
        BY <3>1, <3>2, <3>4, <4>1 DEF PipeInv, RowInv, Stands
    <3> QED
      BY <3>3, <3>4
  <2> QED
    BY <2>2, <2>3
<1>13. ReturnedInv'
  <2>1. ~done => \A r \in 1..length : pc'[r] = "returned" => r # p
    BY <1>1, <1>3, <1>8
  <2> QED
    BY <1>1, <1>2, <1>7, <2>1 DEF PipeInv, ReturnedInv
<1> QED
  BY <1>9, <1>10, <1>11, <1>12, <1>13 DEF PipeInv

\* A value that goes to the next goroutine.
LEMMA ToGoroutine ==
  ASSUME PipeInv, NEW p \in Places, Transfer(p), p + 1 # Reader
  PROVE  PipeInv'
<1> DEFINE place == Sent(p).at
           value == Sent(p).value
<1>1. /\ length \in Nat \ {0} /\ 0..length \subseteq Places /\ 0..length \subseteq Int
      /\ p \in 0..(length - 1) /\ p \in Int /\ p + 1 \in 1..(length - 1)
      /\ p + 1 \in Places /\ p \in Places
  BY PlacesInRow DEF Transfer, InUse, PipeInv, Reader, Places
<1>2. /\ pc[p] = "sending" /\ pc[p + 1] = "receiving"
      /\ pc' = [pc EXCEPT ![p] = place, ![p + 1] = "sending"]
      /\ holds' = [holds EXCEPT ![p] = value, ![p + 1] = holds[p]]
      /\ UNCHANGED <<stages, length, done, output>>
  BY <1>1 DEF Transfer, Reader
<1>3. /\ place \in {"receiving", "sending", "returned"}
      /\ value \in 0..Amount
      /\ place = "sending" => p = 0 /\ value = holds[p] + 1 /\ value \in 1..Amount
      /\ p = 0 => place \in {"sending", "returned"}
      /\ place = "returned" => p = 0 /\ holds[p] = Amount
  BY <1>1, <1>2, SentIs
<1> HIDE DEF place, value
<1>4. /\ pc \in [Places -> {"receiving", "sending", "returned"}]
      /\ holds \in [Places -> 0..Amount] /\ output \in Seq(1..Amount)
      /\ holds[p] \in 1..Amount
  BY <1>1, <1>2 DEF PipeInv, PipeTypeOK, SentInv
<1>5. \A r \in 0..length : (r # p /\ r # p + 1) => pc'[r] = pc[r] /\ holds'[r] = holds[r]
  BY <1>1, <1>2, <1>4
<1>6. pc'[p] = place /\ holds'[p] = value /\ pc'[p + 1] = "sending" /\ holds'[p + 1] = holds[p]
  BY <1>1, <1>2, <1>4
<1> DEFINE after == p + 1
<1>7. after \in Int /\ after = p + 1 /\ after # length /\ p # length /\ after \in 0..length
  BY <1>1
<1>8. /\ \A r \in 0..length : (r # p /\ r # after) => pc'[r] = pc[r] /\ holds'[r] = holds[r]
      /\ pc'[after] = "sending" /\ holds'[after] = holds[p]
      /\ pc[p] = "sending" /\ pc[after] = "receiving"
  BY <1>2, <1>5, <1>6
<1>9. /\ length \in 0..length /\ 0 \in 0..length
      /\ stages' = stages /\ length' = length /\ done' = done /\ output' = output
  BY <1>1, <1>2
<1>10. pc'[length] = pc[length]
  BY <1>7, <1>8, <1>9
<1>11. pc'[length] = pc[length] /\ Got(length)' = Got(length)
  BY <1>9, <1>10 DEF Got, Reader
<1> HIDE DEF after
<1>12. PipeTypeOK'
  <2>1. pc' \in [Places -> {"receiving", "sending", "returned"}] /\ holds' \in [Places -> 0..Amount]
    BY <1>2, <1>3, <1>4
  <2> QED
    BY <1>2, <2>1 DEF PipeInv, PipeTypeOK, Places
<1>13. PlacesInv'
  <2>1. pc'[0] \in {"sending", "returned"}
    <3>1. CASE p = 0
      BY <1>3, <1>6, <3>1
    <3>2. CASE p # 0
      BY <1>1, <1>7, <1>8, <1>9, <3>2 DEF PipeInv, PlacesInv
    <3> QED
      BY <3>1, <3>2
  <2> QED
    BY <1>11, <1>9, <2>1 DEF PipeInv, PlacesInv
<1>14. SentInv'
  BY <1>1, <1>2, <1>3, <1>4, <1>5, <1>6 DEF PipeInv, SentInv
<1>15. RowInv'
  <2> SUFFICES ASSUME NEW q \in 1..length, Stands(q)'
               PROVE  /\ \A r \in 0..(q - 1) :
                           (pc'[r] = "sending" /\ NoneSends(r + 1, q - 1)') => holds'[r] = Got(q)' + 1
                      /\ (length > 1 /\ NoneSends(0, q - 1)') =>
                           (pc'[0] = "returned" /\ Got(q)' = Amount)
    BY <1>2 DEF RowInv
  <2>1. q # p
    <3>1. CASE q = length
      BY <1>7, <3>1
    <3>2. CASE q # length
      <4>1. pc'[q] = "sending"
        BY <1>9, <3>2 DEF Stands, Reader
      <4> QED
        BY <1>3, <1>6, <4>1
    <3> QED
      BY <3>1, <3>2
  <2>2. CASE q = p + 1
    <3>1. Got(q)' = holds[p]
      BY <1>1, <1>2, <1>6, <2>2 DEF Got, Reader
    <3>2. ASSUME NEW r \in 0..(q - 1), pc'[r] = "sending", NoneSends(r + 1, q - 1)'
          PROVE  holds'[r] = Got(q)' + 1
      <4>1. CASE r = p
        BY <1>3, <1>6, <3>1, <3>2, <4>1
      <4>2. CASE r # p
        <5>1. r < p /\ p >= 1 /\ p \in 1..length /\ pc[r] = "sending"
          BY <1>1, <1>5, <2>2, <3>2, <4>2
        <5>2. NoneSends(r + 1, p - 1)
          BY <1>1, <1>5, <2>2, <3>2, <5>1 DEF NoneSends
        <5>3. holds[r] = Got(p) + 1
          BY <1>2, <5>1, <5>2 DEF PipeInv, RowInv, Stands
        <5> QED
          BY <1>1, <1>5, <3>1, <5>1, <5>3 DEF Got, Reader
      <4> QED
        BY <4>1, <4>2
    <3>3. ASSUME length > 1, NoneSends(0, q - 1)'
          PROVE  pc'[0] = "returned" /\ Got(q)' = Amount
      <4>1. CASE p = 0
        BY <1>1, <1>3, <1>6, <2>2, <3>1, <3>3, <4>1 DEF NoneSends
      <4>2. CASE p # 0
        <5>1. NoneSends(0, p - 1) /\ p \in 1..length
          BY <1>1, <1>5, <2>2, <3>3, <4>2 DEF NoneSends
        <5>2. pc[0] = "returned" /\ Got(p) = Amount
          BY <1>2, <3>3, <5>1 DEF PipeInv, RowInv, Stands
        <5> QED
          BY <1>1, <1>5, <3>1, <4>2, <5>2 DEF Got, Reader
      <4> QED
        BY <4>1, <4>2
    <3> QED
      BY <3>2, <3>3
  <2>3. CASE q < p
    <3>1. pc[q] = "sending" /\ Got(q)' = Got(q)
      <4>1. q # p /\ q # after /\ q # length /\ q \in 0..length
        BY <1>1, <1>7, <2>3
      <4> QED
        BY <1>8, <1>9, <4>1 DEF Stands, Got, Reader
    <3>2. \A r \in 0..(q - 1) : pc'[r] = pc[r] /\ holds'[r] = holds[r]
      BY <1>1, <1>5, <2>3
    <3>3. ASSUME NEW r \in 0..(q - 1), pc'[r] = "sending", NoneSends(r + 1, q - 1)'
          PROVE  holds'[r] = Got(q)' + 1
      <4>1. NoneSends(r + 1, q - 1)
        BY <3>2, <3>3 DEF NoneSends
      <4> QED
        BY <3>1, <3>2, <3>3, <4>1 DEF PipeInv, RowInv, Stands
    <3>4. ASSUME length > 1, NoneSends(0, q - 1)'
          PROVE  pc'[0] = "returned" /\ Got(q)' = Amount
      <4>1. NoneSends(0, q - 1)
        BY <3>2, <3>4 DEF NoneSends
      <4> QED
        BY <3>1, <3>2, <3>4, <4>1 DEF PipeInv, RowInv, Stands
    <3> QED
      BY <3>3, <3>4
  <2>4. CASE q > p + 1
    <3>1. Stands(q) /\ Got(q)' = Got(q)
      <4>1. q # p /\ q # after /\ q \in 0..length
        BY <1>1, <1>7, <2>4
      <4>2. CASE q = length
        BY <1>9, <4>2 DEF Stands, Got, Reader
      <4>3. CASE q # length
        BY <1>8, <1>9, <4>1, <4>3 DEF Stands, Got, Reader
      <4> QED
        BY <4>2, <4>3
    <3>2. p + 1 \in 0..(q - 1) /\ ~NoneSends(0, q - 1)'
      BY <1>1, <1>6, <2>4 DEF NoneSends
    <3>3. ASSUME NEW r \in 0..(q - 1), pc'[r] = "sending", NoneSends(r + 1, q - 1)'
          PROVE  holds'[r] = Got(q)' + 1
      <4>1. r >= p + 1
        BY <1>1, <1>6, <3>2, <3>3 DEF NoneSends
      <4>2. CASE r = p + 1
        <5>1. NoneSends(p + 1, q - 1)
          BY <1>1, <1>7, <1>8, <3>3, <4>2 DEF NoneSends
        <5>2. p \in 0..(q - 1)
          BY <1>1, <2>4
        <5>3. holds[p] = Got(q) + 1
          BY <1>2, <3>1, <5>1, <5>2 DEF PipeInv, RowInv
        <5> QED
          BY <1>6, <3>1, <4>2, <5>3
      <4>3. CASE r > p + 1
        <5>1. NoneSends(r + 1, q - 1) /\ pc[r] = "sending" /\ holds'[r] = holds[r]
          BY <1>1, <1>5, <3>3, <4>3 DEF NoneSends
        <5> QED
          BY <3>1, <3>3, <5>1 DEF PipeInv, RowInv
      <4> QED
        BY <1>1, <4>1, <4>2, <4>3
    <3> QED
      BY <3>2, <3>3
  <2> QED
    BY <1>1, <2>1, <2>2, <2>3, <2>4
<1>16. ReturnedInv'
  <2> SUFFICES ASSUME ~done, NEW r \in 1..length, NEW s \in 0..length, pc'[r] = "returned", s < r
               PROVE  pc'[s] = "returned"
    BY <1>2 DEF ReturnedInv
  <2>1. r # p /\ r # after
    BY <1>1, <1>3, <1>6, <1>8
  <2>2. pc[r] = "returned"
    BY <1>1, <1>8, <2>1
  <2>3. pc[s] = "returned"
    BY <2>2 DEF PipeInv, ReturnedInv
  <2>4. s # p /\ s # after
    BY <1>8, <2>3
  <2> QED
    BY <1>8, <2>3, <2>4
<1> QED
  BY <1>12, <1>13, <1>14, <1>15, <1>16 DEF PipeInv

\* A goroutine, or the reader, that waits to receive returns: because done is closed, or
\* because the goroutine before it has returned.  What is on its way stays where it is.
LEMMA Leaving ==
  ASSUME PipeInv, NEW q \in 1..length, pc[q] = "receiving",
         pc' = [pc EXCEPT ![q] = "returned"],
         UNCHANGED <<stages, length, holds, done, output>>,
         done \/ pc[q - 1] = "returned"
  PROVE  PipeInv'
<1>1. /\ length \in Nat \ {0} /\ 0..length \subseteq Places /\ 0..length \subseteq Int
      /\ q \in Places /\ q \in 0..length /\ pc \in [Places -> {"receiving", "sending", "returned"}]
  BY PlacesInRow DEF PipeInv, PipeTypeOK
<1>2. /\ pc'[q] = "returned" /\ \A r \in 0..length : r # q => pc'[r] = pc[r]
      /\ \A r \in 0..length : pc'[r] = "sending" <=> pc[r] = "sending"
  BY <1>1
<1>3. PipeTypeOK'
  BY <1>1 DEF PipeInv, PipeTypeOK, Places
<1>4. PlacesInv' /\ SentInv'
  BY <1>1, <1>2 DEF PipeInv, PlacesInv, SentInv
<1>5. RowInv'
  <2>1. \A r \in 1..length : (Stands(r)' <=> Stands(r)) /\ Got(r)' = Got(r)
    BY <1>1, <1>2 DEF Stands, Got, Reader
  <2>2. \A r \in 0..length, s \in 1..length : NoneSends(r, s - 1)' <=> NoneSends(r, s - 1)
    BY <1>1, <1>2 DEF NoneSends
  <2>3. pc'[0] = pc[0]
    BY <1>1, <1>2
  <2> SUFFICES ASSUME NEW s \in 1..length, Stands(s)
               PROVE  /\ \A r \in 0..(s - 1) :
                           (pc'[r] = "sending" /\ NoneSends(r + 1, s - 1)) => holds[r] = Got(s) + 1
                      /\ (length > 1 /\ NoneSends(0, s - 1)) =>
                           (pc[0] = "returned" /\ Got(s) = Amount)
    BY <1>1, <2>1, <2>2, <2>3 DEF RowInv
  <2> QED
    BY <1>1, <1>2 DEF PipeInv, RowInv
<1>6. ReturnedInv'
  <2> SUFFICES ASSUME ~done, NEW r \in 1..length, NEW s \in 0..length, pc'[r] = "returned", s < r
               PROVE  pc'[s] = "returned"
    BY DEF ReturnedInv
  <2>1. CASE r = q
    <3>1. pc[q - 1] = "returned" /\ q - 1 \in 0..length
      BY <1>1
    <3>2. CASE s = q - 1
      BY <1>1, <1>2, <3>1, <3>2
    <3>3. CASE s # q - 1
      <4>1. q - 1 \in 1..length /\ s < q - 1
        BY <1>1, <2>1, <3>3
      <4> QED
        BY <1>1, <1>2, <3>1, <4>1 DEF PipeInv, ReturnedInv
    <3> QED
      BY <3>2, <3>3
  <2>2. CASE r # q
    <3>1. pc[r] = "returned" /\ r \in 0..length
      BY <1>1, <1>2, <2>2
    <3>2. pc[s] = "returned"
      BY <3>1 DEF PipeInv, ReturnedInv
    <3> QED
      BY <1>2, <3>2
  <2> QED
    BY <2>1, <2>2
<1> QED
  BY <1>3, <1>4, <1>5, <1>6 DEF PipeInv

\* Every step keeps it.
LEMMA PipeStep == PipeInv /\ [PipeNext]_pipeVars => PipeInv'
<1> SUFFICES ASSUME PipeInv, [PipeNext]_pipeVars PROVE PipeInv'
  OBVIOUS
<1>1. /\ length \in Nat \ {0} /\ 0..length \subseteq Places /\ 0..length \subseteq Int
  BY PlacesInRow DEF PipeInv
<1>2. ASSUME NEW p \in Places, Transfer(p)
      PROVE  PipeInv'
  BY <1>2, ToReader, ToGoroutine
<1>3. ASSUME NEW p \in Places, SeeClosed(p)
      PROVE  PipeInv'
  <2>1. p \in 1..length
    BY <1>1, <1>3 DEF SeeClosed, InUse
  <2> QED
    BY <1>3, <2>1, Leaving DEF SeeClosed
<1>4. ASSUME NEW p \in Places, SeeDone(p)
      PROVE  PipeInv'
  <2>1. p \in 1..length
    <3>1. p \in 0..length /\ stages \in Nat
      BY <1>1, <1>4 DEF SeeDone, InUse, PipeInv, PipeTypeOK
    <3>2. PICK s \in 1..stages : p = 2 * s - 1
      BY <1>4 DEF SeeDone, Relays
    <3> QED
      BY <1>1, <3>1, <3>2
  <2> QED
    BY <1>4, <2>1, Leaving DEF SeeDone
<1>5. CASE ReadEnd
  <2>1. length \in 1..length
    BY <1>1
  <2> QED
    BY <1>5, <2>1, Leaving DEF ReadEnd, Reader
<1>6. CASE CloseDone
  BY <1>6 DEF CloseDone, PipeInv, PipeTypeOK, PlacesInv, SentInv, RowInv, ReturnedInv, Stands,
     Got, NoneSends, Reader, Places
<1>7. CASE UNCHANGED pipeVars
  BY <1>7 DEF pipeVars, PipeInv, PipeTypeOK, PlacesInv, SentInv, RowInv, ReturnedInv, Stands,
     Got, NoneSends, Reader, Places
<1> QED
  BY <1>2, <1>3, <1>4, <1>5, <1>6, <1>7 DEF PipeNext

\* The inductive invariant of the pipeline holds always.
THEOREM PipeInvariance == PipeSpec => []PipeInv
<1> QED
  BY PipeInitInv, PipeStep, PTL DEF PipeSpec

\* What the reader has got, in one state.
LEMMA OutputInState ==
  ASSUME PipeInv
  PROVE  OutputIsSource
<1>1. /\ length \in Nat \ {0} /\ 0..length \subseteq Places /\ 0..length \subseteq Int
      /\ output \in Seq(1..Amount) /\ Len(output) \in Nat
      /\ \A i \in 1..Len(output) : output[i] = i
  BY PlacesInRow DEF PipeInv, PipeTypeOK, SentInv
<1>2. OrderKept
  <2> DEFINE source == [v \in 1..Amount |-> v]
  <2>1. source \in Seq(1..Amount) /\ Len(source) = Amount
    BY AmountAssumption
  <2>2. \A i \in 1..Amount : source[i] = i
    OBVIOUS
  <2>3. Len(output) <= Amount
    <3>1. CASE Len(output) = 0
      BY <3>1, AmountAssumption
    <3>2. CASE Len(output) # 0
      <4>0. Len(output) \in 1..Len(output)
        BY <1>1, <3>2
      <4>1. output[Len(output)] \in 1..Amount /\ output[Len(output)] = Len(output)
        BY <1>1, <4>0, ElementOfSeq
      <4> QED
        BY <4>1, AmountAssumption
    <3> QED
      BY <3>1, <3>2
  <2> HIDE DEF source
  <2>4. SubSeq(output, 1, Len(output)) = SubSeq(source, 1, Len(output))
    <3>1. \A i \in 1..Len(output) : output[i] \in 1..Amount /\ source[i] \in 1..Amount /\ output[i] = source[i]
      BY <1>1, <2>1, <2>2, <2>3, AmountAssumption
    <3> QED
      BY <1>1, <3>1, SubSeqProperties, SeqEqual
  <2> QED
    BY <2>1, <2>3, <2>4 DEF OrderKept, IsPrefix, source
<1>3. CompleteUnlessStopped
  <2> SUFFICES ASSUME pc[length] = "returned", ~done
               PROVE  /\ \A p \in 0..(length - 1) : pc[p] = "returned"
                      /\ length > 1 => Len(output) = Amount
    BY <1>1 DEF CompleteUnlessStopped, Reader
  <2>1. \A p \in 0..(length - 1) : pc[p] = "returned"
    BY <1>1 DEF PipeInv, ReturnedInv
  <2>2. NoneSends(0, length - 1) /\ length \in 1..length
    BY <1>1, <2>1 DEF NoneSends
  <2> QED
    BY <2>1, <2>2 DEF PipeInv, RowInv, Stands, Got, Reader
<1> QED
  BY <1>2, <1>3 DEF OutputIsSource

\* OutputIsSource, for any number of stages and of values: whatever relays see done, and
\* when, the reader gets the values of the source in order and without a gap, and all of
\* them unless done was closed.
THEOREM OutputIsSourceHolds == PipeSpec => []OutputIsSource
<1> QED
  BY PipeInvariance, OutputInState, PTL

(**************************************************************************)
(* The telnet client of hw11.                                             *)
(**************************************************************************)

\* The steps of the client, of its two goroutines and of the world.
LEMMA TelnetCases ==
  ASSUME TelnetNext
  PROVE  \/ Connect \/ ConnectFails \/ Finish
         \/ \E g \in Goroutines : Either(g)
         \/ ReadLine \/ ReadEof \/ Write \/ WriteFails
         \/ ScanLine \/ ScanEnds \/ ScanClosed \/ ScanReset
         \/ Type \/ EndStdin \/ Interrupt \/ PeerSends \/ PeerCloses \/ ResetArrives
         \/ StdinFails \/ LineTooLong \/ StdoutFails \/ StderrFails \/ NetworkFails
BY DEF TelnetNext, Client, Sender, Receiver, Fault, World, Goroutines

\* The inductive invariant of the telnet client holds at the start.
LEMMA TelnetInitInv == TelnetInit => TelnetInv
<1> SUFFICES ASSUME TelnetInit PROVE TelnetInv
  OBVIOUS
<1> USE BoundsAssumption DEF TelnetInit, Goroutines
<1>1. TelnetTypeOK
  <2>1. 0 \in 0..UserLines /\ 0 \in 0..PeerLines /\ 0 \in 0..0
    OBVIOUS
  <2>2. at \in [Goroutines -> {"select"}]
    OBVIOUS
  <2> QED
    BY <2>1, <2>2 DEF TelnetTypeOK
<1>2. ConnectingInv /\ BrokenInv /\ ReasonsInv /\ PeerInv
  BY DEF ConnectingInv, BrokenInv, ReasonsInv, PeerInv, Sound
<1>3. EofAfterEverything /\ FatalNeedsTwoFailures
  BY DEF EofAfterEverything, FatalNeedsTwoFailures
<1> QED
  BY <1>1, <1>2, <1>3 DEF TelnetInv

\* A step keeps every variable of its type: a line is delivered once, after it was taken.
LEMMA TelnetTypeStep ==
  ASSUME TelnetTypeOK, PeerInv, TelnetNext
  PROVE  TelnetTypeOK'
<1> USE BoundsAssumption DEF TelnetTypeOK, PeerInv, Sound, Goroutines, processVars, stdinVars, peerVars,
           historyVars, sharedVars, worldVars
<1>1. ASSUME NEW g \in Goroutines, Either(g)
      PROVE  TelnetTypeOK'
  <2>1. CASE Select(g)
    BY <2>1 DEF Select, Goes, Waiting
  <2>2. CASE Call(g)
    BY <2>2 DEF Call, Goes, Waiting
  <2>3. CASE CallOnClosed(g)
    BY <2>3 DEF CallOnClosed, Fails, Goes, Waiting
  <2>4. CASE CallStop(g)
    BY <2>4 DEF CallStop, Goes, Waiting
  <2>5. CASE CloseBegins(g)
    BY <2>5 DEF CloseBegins, Goes, Waiting
  <2>6. CASE CloseConn(g)
    BY <2>6 DEF CloseConn, Goes, Waiting
  <2>7. CASE CloseFails(g)
    BY <2>7 DEF CloseFails, Waiting
  <2>8. CASE CloseEnds(g)
    BY <2>8 DEF CloseEnds, Goes, Waiting
  <2> QED
    BY <1>1, <2>1, <2>2, <2>3, <2>4, <2>5, <2>6, <2>7, <2>8 DEF Either
<1>2. CASE ReadLine
  BY <1>2 DEF ReadLine, Goes, Waiting
<1>3. CASE ReadEof
  BY <1>3 DEF ReadEof, Fails, Goes, Waiting
<1>4. CASE Write
  BY <1>4 DEF Write, Goes, Waiting
<1>5. CASE WriteFails
  BY <1>5 DEF WriteFails, Fails, Goes, Waiting
<1>6. CASE ScanLine
  BY <1>6 DEF ScanLine, Goes, Waiting
<1>7. CASE ScanEnds
  BY <1>7 DEF ScanEnds, Goes, Waiting
<1>8. CASE ScanClosed
  BY <1>8 DEF ScanClosed, Goes, Waiting
<1>9. CASE ScanReset
  BY <1>9 DEF ScanReset, Fails, Goes, Waiting
<1>10. CASE Connect
  BY <1>10 DEF Connect
<1>11. CASE ConnectFails
  BY <1>11 DEF ConnectFails
<1>12. CASE Finish
  BY <1>12 DEF Finish, Waiting
<1>13. CASE Type
  BY <1>13 DEF Type
<1>14. CASE EndStdin
  BY <1>14 DEF EndStdin
<1>15. CASE Interrupt
  BY <1>15 DEF Interrupt
<1>16. CASE PeerSends
  BY <1>16 DEF PeerSends
<1>17. CASE PeerCloses
  BY <1>17 DEF PeerCloses
<1>18. CASE ResetArrives
  BY <1>18 DEF ResetArrives
<1>19. CASE StdinFails
  BY <1>19 DEF StdinFails, Breaks, Goes, Waiting
<1>20. CASE LineTooLong
  BY <1>20 DEF LineTooLong, Breaks, Goes, Waiting
<1>21. CASE StdoutFails
  BY <1>21 DEF StdoutFails, Breaks, Goes, Waiting
<1>22. CASE StderrFails
  BY <1>22 DEF StderrFails, Waiting
<1>23. CASE NetworkFails
  BY <1>23 DEF NetworkFails
<1> QED
  BY TelnetCases, <1>1, <1>2, <1>3, <1>4, <1>5, <1>6, <1>7, <1>8, <1>9, <1>10, <1>11, <1>12,
     <1>13, <1>14, <1>15, <1>16, <1>17, <1>18, <1>19, <1>20, <1>21, <1>22, <1>23

\* Nothing begins before Connect has returned.
LEMMA ConnectingStep ==
  ASSUME TelnetTypeOK, ConnectingInv, TelnetNext
  PROVE  ConnectingInv'
<1> USE DEF TelnetTypeOK, ConnectingInv, Goroutines, processVars, stdinVars, peerVars,
           historyVars, sharedVars, worldVars
<1>1. ASSUME NEW g \in Goroutines, Either(g)
      PROVE  ConnectingInv'
  <2>1. CASE Select(g)
    BY <2>1 DEF Select, Goes, Waiting
  <2>2. CASE Call(g)
    BY <2>2 DEF Call, Goes, Waiting
  <2>3. CASE CallOnClosed(g)
    BY <2>3 DEF CallOnClosed, Fails, Goes, Waiting
  <2>4. CASE CallStop(g)
    BY <2>4 DEF CallStop, Goes, Waiting
  <2>5. CASE CloseBegins(g)
    BY <2>5 DEF CloseBegins, Goes, Waiting
  <2>6. CASE CloseConn(g)
    BY <2>6 DEF CloseConn, Goes, Waiting
  <2>7. CASE CloseFails(g)
    BY <2>7 DEF CloseFails, Waiting
  <2>8. CASE CloseEnds(g)
    BY <2>8 DEF CloseEnds, Goes, Waiting
  <2> QED
    BY <1>1, <2>1, <2>2, <2>3, <2>4, <2>5, <2>6, <2>7, <2>8 DEF Either
<1>2. CASE ReadLine
  BY <1>2 DEF ReadLine, Goes, Waiting
<1>3. CASE ReadEof
  BY <1>3 DEF ReadEof, Fails, Goes, Waiting
<1>4. CASE Write
  BY <1>4 DEF Write, Goes, Waiting
<1>5. CASE WriteFails
  BY <1>5 DEF WriteFails, Fails, Goes, Waiting
<1>6. CASE ScanLine
  BY <1>6 DEF ScanLine, Goes, Waiting
<1>7. CASE ScanEnds
  BY <1>7 DEF ScanEnds, Goes, Waiting
<1>8. CASE ScanClosed
  BY <1>8 DEF ScanClosed, Goes, Waiting
<1>9. CASE ScanReset
  BY <1>9 DEF ScanReset, Fails, Goes, Waiting
<1>10. CASE Connect
  BY <1>10 DEF Connect
<1>11. CASE ConnectFails
  BY <1>11 DEF ConnectFails
<1>12. CASE Finish
  BY <1>12 DEF Finish, Waiting
<1>13. CASE Type
  BY <1>13 DEF Type
<1>14. CASE EndStdin
  BY <1>14 DEF EndStdin
<1>15. CASE Interrupt
  BY <1>15 DEF Interrupt
<1>16. CASE PeerSends
  BY <1>16 DEF PeerSends
<1>17. CASE PeerCloses
  BY <1>17 DEF PeerCloses
<1>18. CASE ResetArrives
  BY <1>18 DEF ResetArrives
<1>19. CASE StdinFails
  BY <1>19 DEF StdinFails, Breaks, Goes, Waiting
<1>20. CASE LineTooLong
  BY <1>20 DEF LineTooLong, Breaks, Goes, Waiting
<1>21. CASE StdoutFails
  BY <1>21 DEF StdoutFails, Breaks, Goes, Waiting
<1>22. CASE StderrFails
  BY <1>22 DEF StderrFails, Waiting
<1>23. CASE NetworkFails
  BY <1>23 DEF NetworkFails
<1> QED
  BY TelnetCases, <1>1, <1>2, <1>3, <1>4, <1>5, <1>6, <1>7, <1>8, <1>9, <1>10, <1>11, <1>12,
     <1>13, <1>14, <1>15, <1>16, <1>17, <1>18, <1>19, <1>20, <1>21, <1>22, <1>23

\* Whoever fails goes the whole way out, and nobody else does.
LEMMA BrokenStep ==
  ASSUME TelnetTypeOK, BrokenInv, TelnetNext
  PROVE  BrokenInv'
<1> USE DEF TelnetTypeOK, BrokenInv, Goroutines, processVars, stdinVars, peerVars,
           historyVars, sharedVars, worldVars
<1>1. ASSUME NEW g \in Goroutines, Either(g)
      PROVE  BrokenInv'
  <2>1. CASE Select(g)
    BY <2>1 DEF Select, Goes, Waiting
  <2>2. CASE Call(g)
    BY <2>2 DEF Call, Goes, Waiting
  <2>3. CASE CallOnClosed(g)
    BY <2>3 DEF CallOnClosed, Fails, Goes, Waiting
  <2>4. CASE CallStop(g)
    BY <2>4 DEF CallStop, Goes, Waiting
  <2>5. CASE CloseBegins(g)
    BY <2>5 DEF CloseBegins, Goes, Waiting
  <2>6. CASE CloseConn(g)
    BY <2>6 DEF CloseConn, Goes, Waiting
  <2>7. CASE CloseFails(g)
    BY <2>7 DEF CloseFails, Waiting
  <2>8. CASE CloseEnds(g)
    BY <2>8 DEF CloseEnds, Goes, Waiting
  <2> QED
    BY <1>1, <2>1, <2>2, <2>3, <2>4, <2>5, <2>6, <2>7, <2>8 DEF Either
<1>2. CASE ReadLine
  BY <1>2 DEF ReadLine, Goes, Waiting
<1>3. CASE ReadEof
  BY <1>3 DEF ReadEof, Fails, Goes, Waiting
<1>4. CASE Write
  BY <1>4 DEF Write, Goes, Waiting
<1>5. CASE WriteFails
  BY <1>5 DEF WriteFails, Fails, Goes, Waiting
<1>6. CASE ScanLine
  BY <1>6 DEF ScanLine, Goes, Waiting
<1>7. CASE ScanEnds
  BY <1>7 DEF ScanEnds, Goes, Waiting
<1>8. CASE ScanClosed
  BY <1>8 DEF ScanClosed, Goes, Waiting
<1>9. CASE ScanReset
  BY <1>9 DEF ScanReset, Fails, Goes, Waiting
<1>10. CASE Connect
  BY <1>10 DEF Connect
<1>11. CASE ConnectFails
  BY <1>11 DEF ConnectFails
<1>12. CASE Finish
  BY <1>12 DEF Finish, Waiting
<1>13. CASE Type
  BY <1>13 DEF Type
<1>14. CASE EndStdin
  BY <1>14 DEF EndStdin
<1>15. CASE Interrupt
  BY <1>15 DEF Interrupt
<1>16. CASE PeerSends
  BY <1>16 DEF PeerSends
<1>17. CASE PeerCloses
  BY <1>17 DEF PeerCloses
<1>18. CASE ResetArrives
  BY <1>18 DEF ResetArrives
<1>19. CASE StdinFails
  BY <1>19 DEF StdinFails, Breaks, Goes, Waiting
<1>20. CASE LineTooLong
  BY <1>20 DEF LineTooLong, Breaks, Goes, Waiting
<1>21. CASE StdoutFails
  BY <1>21 DEF StdoutFails, Breaks, Goes, Waiting
<1>22. CASE StderrFails
  BY <1>22 DEF StderrFails, Waiting
<1>23. CASE NetworkFails
  BY <1>23 DEF NetworkFails
<1> QED
  BY TelnetCases, <1>1, <1>2, <1>3, <1>4, <1>5, <1>6, <1>7, <1>8, <1>9, <1>10, <1>11, <1>12,
     <1>13, <1>14, <1>15, <1>16, <1>17, <1>18, <1>19, <1>20, <1>21, <1>22, <1>23

\* A reason to end stays one.
LEMMA ReasonsStep ==
  ASSUME TelnetTypeOK, ConnectingInv, BrokenInv, ReasonsInv, TelnetNext
  PROVE  ReasonsInv'
<1> USE DEF TelnetTypeOK, ConnectingInv, BrokenInv, ReasonsInv, Goroutines, processVars, stdinVars, peerVars,
           historyVars, sharedVars, worldVars
<1>1. ASSUME NEW g \in Goroutines, Either(g)
      PROVE  ReasonsInv'
  <2>1. CASE Select(g)
    BY <2>1 DEF Select, Goes, Waiting
  <2>2. CASE Call(g)
    BY <2>2 DEF Call, Goes, Waiting
  <2>3. CASE CallOnClosed(g)
    BY <2>3 DEF CallOnClosed, Fails, Goes, Waiting
  <2>4. CASE CallStop(g)
    BY <2>4 DEF CallStop, Goes, Waiting
  <2>5. CASE CloseBegins(g)
    BY <2>5 DEF CloseBegins, Goes, Waiting
  <2>6. CASE CloseConn(g)
    BY <2>6 DEF CloseConn, Goes, Waiting
  <2>7. CASE CloseFails(g)
    BY <2>7 DEF CloseFails, Waiting
  <2>8. CASE CloseEnds(g)
    BY <2>8 DEF CloseEnds, Goes, Waiting
  <2> QED
    BY <1>1, <2>1, <2>2, <2>3, <2>4, <2>5, <2>6, <2>7, <2>8 DEF Either
<1>2. CASE ReadLine
  BY <1>2 DEF ReadLine, Goes, Waiting
<1>3. CASE ReadEof
  BY <1>3 DEF ReadEof, Fails, Goes, Waiting
<1>4. CASE Write
  BY <1>4 DEF Write, Goes, Waiting
<1>5. CASE WriteFails
  BY <1>5 DEF WriteFails, Fails, Goes, Waiting
<1>6. CASE ScanLine
  BY <1>6 DEF ScanLine, Goes, Waiting
<1>7. CASE ScanEnds
  BY <1>7 DEF ScanEnds, Goes, Waiting
<1>8. CASE ScanClosed
  BY <1>8 DEF ScanClosed, Goes, Waiting
<1>9. CASE ScanReset
  BY <1>9 DEF ScanReset, Fails, Goes, Waiting
<1>10. CASE Connect
  BY <1>10 DEF Connect
<1>11. CASE ConnectFails
  BY <1>11 DEF ConnectFails
<1>12. CASE Finish
  BY <1>12 DEF Finish, Waiting
<1>13. CASE Type
  BY <1>13 DEF Type
<1>14. CASE EndStdin
  BY <1>14 DEF EndStdin
<1>15. CASE Interrupt
  BY <1>15 DEF Interrupt
<1>16. CASE PeerSends
  BY <1>16 DEF PeerSends
<1>17. CASE PeerCloses
  BY <1>17 DEF PeerCloses
<1>18. CASE ResetArrives
  BY <1>18 DEF ResetArrives
<1>19. CASE StdinFails
  BY <1>19 DEF StdinFails, Breaks, Goes, Waiting
<1>20. CASE LineTooLong
  BY <1>20 DEF LineTooLong, Breaks, Goes, Waiting
<1>21. CASE StdoutFails
  BY <1>21 DEF StdoutFails, Breaks, Goes, Waiting
<1>22. CASE StderrFails
  BY <1>22 DEF StderrFails, Waiting
<1>23. CASE NetworkFails
  BY <1>23 DEF NetworkFails
<1> QED
  BY TelnetCases, <1>1, <1>2, <1>3, <1>4, <1>5, <1>6, <1>7, <1>8, <1>9, <1>10, <1>11, <1>12,
     <1>13, <1>14, <1>15, <1>16, <1>17, <1>18, <1>19, <1>20, <1>21, <1>22, <1>23

\* As long as the peer is there, only the end of stdin makes anything fail.
LEMMA PeerStep ==
  ASSUME TelnetTypeOK, ConnectingInv, BrokenInv, ReasonsInv, PeerInv, TelnetNext
  PROVE  PeerInv'
<1> USE BoundsAssumption DEF TelnetTypeOK, ConnectingInv, BrokenInv, ReasonsInv, PeerInv, Sound, Goroutines, processVars, stdinVars, peerVars,
           historyVars, sharedVars, worldVars
<1>1. ASSUME NEW g \in Goroutines, Either(g)
      PROVE  PeerInv'
  <2>1. CASE Select(g)
    BY <2>1 DEF Select, Goes, Waiting
  <2>2. CASE Call(g)
    BY <2>2 DEF Call, Goes, Waiting
  <2>3. CASE CallOnClosed(g)
    BY <2>3 DEF CallOnClosed, Fails, Goes, Waiting
  <2>4. CASE CallStop(g)
    BY <2>4 DEF CallStop, Goes, Waiting
  <2>5. CASE CloseBegins(g)
    BY <2>5 DEF CloseBegins, Goes, Waiting
  <2>6. CASE CloseConn(g)
    BY <2>6 DEF CloseConn, Goes, Waiting
  <2>7. CASE CloseFails(g)
    BY <2>7 DEF CloseFails, Waiting
  <2>8. CASE CloseEnds(g)
    BY <2>8 DEF CloseEnds, Goes, Waiting
  <2> QED
    BY <1>1, <2>1, <2>2, <2>3, <2>4, <2>5, <2>6, <2>7, <2>8 DEF Either
<1>2. CASE ReadLine
  BY <1>2 DEF ReadLine, Goes, Waiting
<1>3. CASE ReadEof
  BY <1>3 DEF ReadEof, Fails, Goes, Waiting
<1>4. CASE Write
  BY <1>4 DEF Write, Goes, Waiting
<1>5. CASE WriteFails
  BY <1>5 DEF WriteFails, Fails, Goes, Waiting
<1>6. CASE ScanLine
  BY <1>6 DEF ScanLine, Goes, Waiting
<1>7. CASE ScanEnds
  BY <1>7 DEF ScanEnds, Goes, Waiting
<1>8. CASE ScanClosed
  BY <1>8 DEF ScanClosed, Goes, Waiting
<1>9. CASE ScanReset
  BY <1>9 DEF ScanReset, Fails, Goes, Waiting
<1>10. CASE Connect
  BY <1>10 DEF Connect
<1>11. CASE ConnectFails
  BY <1>11 DEF ConnectFails
<1>12. CASE Finish
  BY <1>12 DEF Finish, Waiting
<1>13. CASE Type
  BY <1>13 DEF Type
<1>14. CASE EndStdin
  BY <1>14 DEF EndStdin
<1>15. CASE Interrupt
  BY <1>15 DEF Interrupt
<1>16. CASE PeerSends
  BY <1>16 DEF PeerSends
<1>17. CASE PeerCloses
  BY <1>17 DEF PeerCloses
<1>18. CASE ResetArrives
  BY <1>18 DEF ResetArrives
<1>19. CASE StdinFails
  BY <1>19 DEF StdinFails, Breaks, Goes, Waiting
<1>20. CASE LineTooLong
  BY <1>20 DEF LineTooLong, Breaks, Goes, Waiting
<1>21. CASE StdoutFails
  BY <1>21 DEF StdoutFails, Breaks, Goes, Waiting
<1>22. CASE StderrFails
  BY <1>22 DEF StderrFails, Waiting
<1>23. CASE NetworkFails
  BY <1>23 DEF NetworkFails
<1> QED
  BY TelnetCases, <1>1, <1>2, <1>3, <1>4, <1>5, <1>6, <1>7, <1>8, <1>9, <1>10, <1>11, <1>12,
     <1>13, <1>14, <1>15, <1>16, <1>17, <1>18, <1>19, <1>20, <1>21, <1>22, <1>23

\* The client returns with everything sent.
LEMMA EofStep ==
  ASSUME TelnetTypeOK, ConnectingInv, ReasonsInv, PeerInv, EofAfterEverything, TelnetNext
  PROVE  EofAfterEverything'
<1> USE BoundsAssumption DEF TelnetTypeOK, ConnectingInv, ReasonsInv, PeerInv, EofAfterEverything, Sound, Goroutines, Ended, processVars, stdinVars, peerVars,
           historyVars, sharedVars, worldVars
<1>1. ASSUME NEW g \in Goroutines, Either(g)
      PROVE  EofAfterEverything'
  <2>1. CASE Select(g)
    BY <2>1 DEF Select, Goes, Waiting
  <2>2. CASE Call(g)
    BY <2>2 DEF Call, Goes, Waiting
  <2>3. CASE CallOnClosed(g)
    BY <2>3 DEF CallOnClosed, Fails, Goes, Waiting
  <2>4. CASE CallStop(g)
    BY <2>4 DEF CallStop, Goes, Waiting
  <2>5. CASE CloseBegins(g)
    BY <2>5 DEF CloseBegins, Goes, Waiting
  <2>6. CASE CloseConn(g)
    BY <2>6 DEF CloseConn, Goes, Waiting
  <2>7. CASE CloseFails(g)
    BY <2>7 DEF CloseFails, Waiting
  <2>8. CASE CloseEnds(g)
    BY <2>8 DEF CloseEnds, Goes, Waiting
  <2> QED
    BY <1>1, <2>1, <2>2, <2>3, <2>4, <2>5, <2>6, <2>7, <2>8 DEF Either
<1>2. CASE ReadLine
  BY <1>2 DEF ReadLine, Goes, Waiting
<1>3. CASE ReadEof
  BY <1>3 DEF ReadEof, Fails, Goes, Waiting
<1>4. CASE Write
  BY <1>4 DEF Write, Goes, Waiting
<1>5. CASE WriteFails
  BY <1>5 DEF WriteFails, Fails, Goes, Waiting
<1>6. CASE ScanLine
  BY <1>6 DEF ScanLine, Goes, Waiting
<1>7. CASE ScanEnds
  BY <1>7 DEF ScanEnds, Goes, Waiting
<1>8. CASE ScanClosed
  BY <1>8 DEF ScanClosed, Goes, Waiting
<1>9. CASE ScanReset
  BY <1>9 DEF ScanReset, Fails, Goes, Waiting
<1>10. CASE Connect
  BY <1>10 DEF Connect
<1>11. CASE ConnectFails
  BY <1>11 DEF ConnectFails
<1>12. CASE Finish
  BY <1>12 DEF Finish, Waiting
<1>13. CASE Type
  BY <1>13 DEF Type
<1>14. CASE EndStdin
  BY <1>14 DEF EndStdin
<1>15. CASE Interrupt
  BY <1>15 DEF Interrupt
<1>16. CASE PeerSends
  BY <1>16 DEF PeerSends
<1>17. CASE PeerCloses
  BY <1>17 DEF PeerCloses
<1>18. CASE ResetArrives
  BY <1>18 DEF ResetArrives
<1>19. CASE StdinFails
  BY <1>19 DEF StdinFails, Breaks, Goes, Waiting
<1>20. CASE LineTooLong
  BY <1>20 DEF LineTooLong, Breaks, Goes, Waiting
<1>21. CASE StdoutFails
  BY <1>21 DEF StdoutFails, Breaks, Goes, Waiting
<1>22. CASE StderrFails
  BY <1>22 DEF StderrFails, Waiting
<1>23. CASE NetworkFails
  BY <1>23 DEF NetworkFails
<1> QED
  BY TelnetCases, <1>1, <1>2, <1>3, <1>4, <1>5, <1>6, <1>7, <1>8, <1>9, <1>10, <1>11, <1>12,
     <1>13, <1>14, <1>15, <1>16, <1>17, <1>18, <1>19, <1>20, <1>21, <1>22, <1>23

\* The second close of the socket is that of a second goroutine.
LEMMA FatalStep ==
  ASSUME TelnetTypeOK, BrokenInv, ReasonsInv, FatalNeedsTwoFailures, TelnetNext
  PROVE  FatalNeedsTwoFailures'
<1> USE DEF TelnetTypeOK, BrokenInv, ReasonsInv, FatalNeedsTwoFailures, Goroutines, Ended, processVars, stdinVars, peerVars,
           historyVars, sharedVars, worldVars
<1>1. ASSUME NEW g \in Goroutines, Either(g)
      PROVE  FatalNeedsTwoFailures'
  <2>1. CASE Select(g)
    BY <2>1 DEF Select, Goes, Waiting
  <2>2. CASE Call(g)
    BY <2>2 DEF Call, Goes, Waiting
  <2>3. CASE CallOnClosed(g)
    BY <2>3 DEF CallOnClosed, Fails, Goes, Waiting
  <2>4. CASE CallStop(g)
    BY <2>4 DEF CallStop, Goes, Waiting
  <2>5. CASE CloseBegins(g)
    BY <2>5 DEF CloseBegins, Goes, Waiting
  <2>6. CASE CloseConn(g)
    BY <2>6 DEF CloseConn, Goes, Waiting
  <2>7. CASE CloseFails(g)
    BY <2>7 DEF CloseFails, Waiting
  <2>8. CASE CloseEnds(g)
    BY <2>8 DEF CloseEnds, Goes, Waiting
  <2> QED
    BY <1>1, <2>1, <2>2, <2>3, <2>4, <2>5, <2>6, <2>7, <2>8 DEF Either
<1>2. CASE ReadLine
  BY <1>2 DEF ReadLine, Goes, Waiting
<1>3. CASE ReadEof
  BY <1>3 DEF ReadEof, Fails, Goes, Waiting
<1>4. CASE Write
  BY <1>4 DEF Write, Goes, Waiting
<1>5. CASE WriteFails
  BY <1>5 DEF WriteFails, Fails, Goes, Waiting
<1>6. CASE ScanLine
  BY <1>6 DEF ScanLine, Goes, Waiting
<1>7. CASE ScanEnds
  BY <1>7 DEF ScanEnds, Goes, Waiting
<1>8. CASE ScanClosed
  BY <1>8 DEF ScanClosed, Goes, Waiting
<1>9. CASE ScanReset
  BY <1>9 DEF ScanReset, Fails, Goes, Waiting
<1>10. CASE Connect
  BY <1>10 DEF Connect
<1>11. CASE ConnectFails
  BY <1>11 DEF ConnectFails
<1>12. CASE Finish
  BY <1>12 DEF Finish, Waiting
<1>13. CASE Type
  BY <1>13 DEF Type
<1>14. CASE EndStdin
  BY <1>14 DEF EndStdin
<1>15. CASE Interrupt
  BY <1>15 DEF Interrupt
<1>16. CASE PeerSends
  BY <1>16 DEF PeerSends
<1>17. CASE PeerCloses
  BY <1>17 DEF PeerCloses
<1>18. CASE ResetArrives
  BY <1>18 DEF ResetArrives
<1>19. CASE StdinFails
  BY <1>19 DEF StdinFails, Breaks, Goes, Waiting
<1>20. CASE LineTooLong
  BY <1>20 DEF LineTooLong, Breaks, Goes, Waiting
<1>21. CASE StdoutFails
  BY <1>21 DEF StdoutFails, Breaks, Goes, Waiting
<1>22. CASE StderrFails
  BY <1>22 DEF StderrFails, Waiting
<1>23. CASE NetworkFails
  BY <1>23 DEF NetworkFails
<1> QED
  BY TelnetCases, <1>1, <1>2, <1>3, <1>4, <1>5, <1>6, <1>7, <1>8, <1>9, <1>10, <1>11, <1>12,
     <1>13, <1>14, <1>15, <1>16, <1>17, <1>18, <1>19, <1>20, <1>21, <1>22, <1>23

\* A step that leaves the telnet client's variables alone leaves its invariant alone.
LEMMA TelnetStutter ==
  ASSUME TelnetInv, UNCHANGED telnetVars
  PROVE  TelnetInv'
BY DEF TelnetInv, TelnetTypeOK, ConnectingInv, BrokenInv, ReasonsInv, PeerInv,
   Sound, EofAfterEverything, FatalNeedsTwoFailures, telnetVars, processVars, stdinVars,
   peerVars, historyVars

\* Every step keeps it.
LEMMA TelnetStep == TelnetInv /\ [TelnetNext]_telnetVars => TelnetInv'
BY TelnetTypeStep, ConnectingStep, BrokenStep, ReasonsStep, PeerStep, EofStep, FatalStep,
   TelnetStutter DEF TelnetInv

\* The inductive invariant of the telnet client holds always.
THEOREM TelnetInvariance == TelnetSpec => []TelnetInv
<1> QED
  BY TelnetInitInv, TelnetStep, PTL DEF TelnetSpec

\* ClientLeavesInOrder, for any number of lines of the user and of the peer: a client
\* that ends at the end of stdin has sent everything unless something has failed, and
\* a fatal error takes the failure of both goroutines, or of stderr, whatever the peer,
\* the network, the user and the files of the process do.
THEOREM ClientLeavesInOrderHolds == TelnetSpec => []ClientLeavesInOrder
<1>1. TelnetInv => ClientLeavesInOrder
  BY DEF TelnetInv, ClientLeavesInOrder
<1> QED
  BY <1>1, TelnetInvariance, PTL

(**************************************************************************)
(* The start and the stop of the programs of hw12-15.                     *)
(**************************************************************************)

\* The steps of one service.
ServiceStep(s) ==
  \/ Open(s) \/ OpenFails(s) \/ Make(s) \/ Serve(s) \/ ServeReturns(s)
  \/ (program = "calendar" /\ ServeFails(s)) \/ Arrive(s) \/ Answer(s) \/ Stop(s) \/ StopReturns(s)

\* The steps that are not of one service among several.
ProgramStep ==
  \/ program = "calendar" /\ ListenFails
  \/ program = "background" /\ (ConsumeFails \/ CyclesFail)
  \/ Signal \/ Exit

\* A step is one of a service or of the whole program.
LEMMA NextCases ==
  ASSUME LifeNext
  PROVE  (\E s \in Services : ServiceStep(s)) \/ ProgramStep
BY DEF LifeNext, ServiceStep, ProgramStep, Starting, Stopping

\* Each program has its services among all.
LEMMA ServicesAreServices ==
  /\ Services \subseteq AllServices
  /\ "grpc" \in Services \/ "worker" \in Services
BY DEF Services, AllServices

\* The inductive invariant of the start and the stop holds at the start.
LEMMA LifeInitInv == LifeInit => LifeInv
<1> SUFFICES ASSUME LifeInit PROVE LifeInv
  OBVIOUS
<1>1. LifeTypeOK
  <2>1. 0 \in 0..MaxInflight
    BY InflightAssumption
  <2>2. inflight \in [AllServices -> 0..MaxInflight]
    BY <2>1 DEF LifeInit
  <2>3. /\ start \in [AllServices -> {"begin", "opened", "made", "serving", "deaf", "returned"}]
        /\ stop \in [AllServices -> {"waiting", "draining", "done"}]
    BY DEF LifeInit
  <2> QED
    BY <2>2, <2>3 DEF LifeInit, LifeTypeOK
<1>2. ReasonInv
  BY DEF LifeInit, ReasonInv, AllServices
<1>3. DrainInv
  BY DEF LifeInit, DrainInv, AllServices
<1> QED
  BY <1>1, <1>2, <1>3 DEF LifeInv

\* A step keeps every variable of its type.
LEMMA TypeStep ==
  ASSUME LifeTypeOK, LifeNext
  PROVE  LifeTypeOK'
<1>1. ASSUME NEW s \in Services, ServiceStep(s)
      PROVE  LifeTypeOK'
  <2> s \in AllServices
    BY ServicesAreServices
  <2>1. CASE Open(s)
    BY <2>1 DEF Open, StartGoes, LifeTypeOK
  <2>2. CASE OpenFails(s)
    BY <2>2 DEF OpenFails, StartGoes, LifeTypeOK
  <2>3. CASE Make(s)
    BY <2>3 DEF Make, StartGoes, LifeTypeOK
  <2>4. CASE Serve(s)
    BY <2>4 DEF Serve, StartGoes, LifeTypeOK
  <2>5. CASE ServeReturns(s)
    BY <2>5 DEF ServeReturns, StartGoes, LifeTypeOK
  <2>6. CASE Arrive(s)
    BY <2>6, InflightAssumption DEF Arrive, LifeTypeOK
  <2>7. CASE Answer(s)
    BY <2>7, InflightAssumption DEF Answer, LifeTypeOK
  <2>8. CASE Stop(s)
    BY <2>8 DEF Stop, LifeTypeOK
  <2>9. CASE StopReturns(s)
    BY <2>9 DEF StopReturns, LifeTypeOK
  <2>10. CASE program = "calendar" /\ ServeFails(s)
    BY <2>10 DEF ServeFails, StartGoes, LifeTypeOK
  <2> QED
    BY <1>1, <2>1, <2>2, <2>3, <2>4, <2>5, <2>6, <2>7, <2>8, <2>9, <2>10 DEF ServiceStep
<1>2. ASSUME ProgramStep
      PROVE  LifeTypeOK'
  <2>1. CASE ListenFails
    BY <2>1 DEF ListenFails, StartGoes, LifeTypeOK, AllServices
  <2>2. CASE ConsumeFails
    BY <2>2 DEF ConsumeFails, StartGoes, LifeTypeOK, AllServices
  <2>3. CASE CyclesFail
    BY <2>3 DEF CyclesFail, StartGoes, LifeTypeOK, AllServices
  <2>4. CASE Signal
    BY <2>4 DEF Signal, LifeTypeOK
  <2>5. CASE Exit
    BY <2>5 DEF Exit, LifeTypeOK
  <2> QED
    BY <1>2, <2>1, <2>2, <2>3, <2>4, <2>5 DEF ProgramStep
<1> QED
  BY <1>1, <1>2, NextCases

\* A reason stays one: signals and failures are not forgotten.
LEMMA ReasonStep ==
  ASSUME LifeTypeOK, ReasonInv, LifeNext
  PROVE  ReasonInv'
<1>1. ASSUME NEW s \in Services, ServiceStep(s)
      PROVE  ReasonInv'
  <2> s \in AllServices
    BY ServicesAreServices
  <2> USE DEF LifeTypeOK, ReasonInv, Reason, Over, Services, AllServices
  <2>1. CASE Open(s)
    BY <2>1 DEF Open, StartGoes
  <2>2. CASE OpenFails(s)
    BY <2>2 DEF OpenFails, StartGoes
  <2>3. CASE Make(s)
    BY <2>3 DEF Make, StartGoes
  <2>4. CASE Serve(s)
    BY <2>4 DEF Serve, StartGoes
  <2>5. CASE ServeReturns(s)
    BY <2>5 DEF ServeReturns, StartGoes
  <2>6. CASE Arrive(s)
    BY <2>6 DEF Arrive
  <2>7. CASE Answer(s)
    BY <2>7 DEF Answer
  <2>8. CASE Stop(s)
    BY <2>8 DEF Stop
  <2>9. CASE StopReturns(s)
    BY <2>9 DEF StopReturns
  <2>10. CASE program = "calendar" /\ ServeFails(s)
    BY <2>10 DEF ServeFails, StartGoes
  <2> QED
    BY <1>1, <2>1, <2>2, <2>3, <2>4, <2>5, <2>6, <2>7, <2>8, <2>9, <2>10 DEF ServiceStep
<1>2. ASSUME ProgramStep
      PROVE  ReasonInv'
  <2> USE DEF LifeTypeOK, ReasonInv, Reason, Over, Services, AllServices
  <2>1. CASE program = "calendar" /\ ListenFails
    BY <2>1 DEF ListenFails, StartGoes
  <2>2. CASE program = "background" /\ ConsumeFails
    BY <2>2 DEF ConsumeFails, StartGoes
  <2>3. CASE program = "background" /\ CyclesFail
    BY <2>3 DEF CyclesFail, StartGoes
  <2>4. CASE Signal
    BY <2>4 DEF Signal
  <2>5. CASE Exit
    BY <2>5, ServicesAreServices DEF Exit
  <2> QED
    BY <1>2, <2>1, <2>2, <2>3, <2>4, <2>5 DEF ProgramStep
<1> QED
  BY <1>1, <1>2, NextCases

\* What is in progress is waited for.
LEMMA DrainStep ==
  ASSUME LifeTypeOK, DrainInv, LifeNext
  PROVE  DrainInv'
<1>1. ASSUME NEW s \in Services, ServiceStep(s)
      PROVE  DrainInv'
  <2> s \in AllServices
    BY ServicesAreServices
  <2> USE DEF LifeTypeOK, DrainInv, Over, Services, AllServices, Running
  <2>1. CASE Open(s)
    BY <2>1 DEF Open, StartGoes
  <2>2. CASE OpenFails(s)
    BY <2>2 DEF OpenFails, StartGoes
  <2>3. CASE Make(s)
    BY <2>3 DEF Make, StartGoes
  <2>4. CASE Serve(s)
    BY <2>4 DEF Serve, StartGoes
  <2>5. CASE ServeReturns(s)
    BY <2>5 DEF ServeReturns, StartGoes
  <2>6. CASE Arrive(s)
    BY <2>6, InflightAssumption DEF Arrive
  <2>7. CASE Answer(s)
    BY <2>7, InflightAssumption DEF Answer
  <2>8. CASE Stop(s)
    BY <2>8 DEF Stop
  <2>9. CASE StopReturns(s)
    BY <2>9 DEF StopReturns
  <2>10. CASE program = "calendar" /\ ServeFails(s)
    BY <2>10 DEF ServeFails, StartGoes
  <2> QED
    BY <1>1, <2>1, <2>2, <2>3, <2>4, <2>5, <2>6, <2>7, <2>8, <2>9, <2>10 DEF ServiceStep
<1>2. ASSUME ProgramStep
      PROVE  DrainInv'
  <2> USE DEF LifeTypeOK, DrainInv, Over, Services, AllServices, Running
  <2>1. CASE ListenFails
    BY <2>1 DEF ListenFails, StartGoes
  <2>2. CASE program = "background" /\ ConsumeFails
    BY <2>2 DEF ConsumeFails, StartGoes
  <2>3. CASE program = "background" /\ CyclesFail
    BY <2>3 DEF CyclesFail, StartGoes
  <2>4. CASE Signal
    BY <2>4 DEF Signal
  <2>5. CASE Exit
    BY <2>5 DEF Exit
  <2> QED
    BY <1>2, <2>1, <2>2, <2>3, <2>4, <2>5 DEF ProgramStep
<1> QED
  BY <1>1, <1>2, NextCases

\* A step that leaves the process's life cycle alone leaves its invariant alone.
LEMMA LifeStutter ==
  ASSUME LifeInv, UNCHANGED lifeVars
  PROVE  LifeInv'
BY DEF LifeInv, LifeTypeOK, ReasonInv, DrainInv, Reason, Over, Services, lifeVars

\* Every step keeps it.
LEMMA LifeStep == LifeInv /\ [LifeNext]_lifeVars => LifeInv'
BY TypeStep, ReasonStep, DrainStep, LifeStutter DEF LifeInv

\* The inductive invariant of the start and the stop of a program holds always.
THEOREM LifeInvariance == LifeSpec => []LifeInv
<1> QED
  BY LifeInitInv, LifeStep, PTL DEF LifeSpec

\* What an exited program leaves behind, in one state.
LEMMA InOrder ==
  ASSUME LifeInv
  PROVE  LeavesInOrder
<1>1. NothingCutOff
  <2> SUFFICES ASSUME main = "exited"
               PROVE  /\ start["grpc"] = "returned" => inflight["grpc"] = 0
                      /\ inflight["worker"] = 0
    BY DEF NothingCutOff
  <2>1. start["worker"] # "serving"
    BY DEF LifeInv, DrainInv, ReasonInv, Over, Services, AllServices
  <2> QED
    BY <2>1, InflightAssumption DEF LifeInv, LifeTypeOK, DrainInv, AllServices
<1>2. LeavesOnlyWhenAsked
  BY DEF LifeInv, ReasonInv, Reason, LeavesOnlyWhenAsked
<1> QED
  BY <1>1, <1>2 DEF LeavesInOrder

\* LeavesInOrder, for any number of requests in progress: no program exits or panics
\* without a signal or a failure that ends it, and none exits with a cycle of its worker
\* cut off, or a gRPC call unless the listener of that server had failed before.
THEOREM LeavesInOrderHolds == LifeSpec => []LeavesInOrder
<1> QED
  BY LifeInvariance, InOrder, PTL

(**************************************************************************)
(* The parallel runner of hw05.                                           *)
(**************************************************************************)

\* The sets that are counted are finite, and their sizes are naturals.
LEMMA FiniteCounted ==
  ASSUME RunTypeOK
  PROVE  /\ IsFiniteSet(crew) /\ n \in Nat
         /\ IsFiniteSet(Busy) /\ Cardinality(Busy) \in Nat /\ Cardinality(Busy) <= n
         /\ IsFiniteSet(Holding) /\ Cardinality(Holding) \in Nat
         /\ Cardinality(Holding) <= Cardinality(Busy)
         /\ IsFiniteSet(Unsucceeded) /\ Cardinality(Unsucceeded) \in Nat
         /\ IsFiniteSet(Failed) /\ Cardinality(Failed) \in Nat
         /\ Cardinality(Failed) <= Cardinality(Unsucceeded)
<1>1. IsFiniteSet(crew) /\ n \in Nat
  BY WorkersAssumption, FS_Subset, FS_CardinalityType DEF RunTypeOK, n
<1>2. Busy \subseteq crew /\ Holding \subseteq Busy
  BY DEF Busy, Holding
<1>3. /\ IsFiniteSet(Busy) /\ Cardinality(Busy) \in Nat /\ Cardinality(Busy) <= n
  BY <1>1, <1>2, FS_Subset, FS_CardinalityType DEF n
<1>4. /\ IsFiniteSet(Holding) /\ Cardinality(Holding) \in Nat
      /\ Cardinality(Holding) <= Cardinality(Busy)
  BY <1>2, <1>3, FS_Subset, FS_CardinalityType
<1>5. IsFiniteSet(Tasks)
  BY CountsAssumption, FS_Interval DEF RunTypeOK, Tasks
<1>6. Unsucceeded \subseteq Tasks /\ Failed \subseteq Unsucceeded
  BY DEF Unsucceeded, Failed
<1>7. IsFiniteSet(Unsucceeded) /\ Cardinality(Unsucceeded) \in Nat
  BY <1>5, <1>6, FS_Subset, FS_CardinalityType
<1>8. /\ IsFiniteSet(Failed) /\ Cardinality(Failed) \in Nat
      /\ Cardinality(Failed) <= Cardinality(Unsucceeded)
  BY <1>6, <1>7, FS_Subset, FS_CardinalityType
<1> QED
  BY <1>1, <1>3, <1>4, <1>7, <1>8

\* The constants are numbers.
LEMMA Numbers ==
  ASSUME RunTypeOK
  PROVE  /\ count \in Nat /\ m \in Int /\ received \in Nat /\ errors \in Nat
         /\ Modulus \in Nat \ {0} /\ errors < Modulus /\ received <= count
BY CountsAssumption, LimitsAssumption, ModulusAssumption DEF RunTypeOK

\* Under a limit in force the comparison is the one that is meant.
LEMMA LimitedComparison ==
  ASSUME RunTypeOK, Limited, crew # {}
  PROVE  LimitReached <=> errors >= m
<1>1. n \in Nat /\ n # 0
  BY FiniteCounted, FS_EmptySet DEF n
<1>2. m \in 0..(Modulus - 1) /\ Modulus \in Nat \ {0}
  BY <1>1, Numbers DEF Limited
<1>3. m % Modulus = m
  BY <1>2
<1> QED
  BY <1>3 DEF LimitReached, Limited

\* Run starts in its invariant, whatever the tasks, the workers and the limit.
THEOREM RunInitInv == RunInit => RunInv
<1> SUFFICES ASSUME RunInit PROVE RunInv
  OBVIOUS
<1>1. RunTypeOK
  BY CountsAssumption, LimitsAssumption, ModulusAssumption DEF RunInit, RunTypeOK, Tasks
<1>2. HoldingInv
  BY <1>1, Numbers DEF RunInit, HoldingInv, Tasks
<1>3. Busy = {} /\ Holding = {} /\ Unsucceeded = {}
  BY DEF RunInit, Busy, Holding, Unsucceeded
<1>4. CounterInv
  BY <1>1, <1>3, FS_EmptySet, Numbers, FiniteCounted DEF RunInit, CounterInv, Limited
<1>5. DoneInv
  BY DEF RunInit, DoneInv, RunTypeOK
<1> QED
  BY <1>1, <1>2, <1>4, <1>5 DEF RunInv

\* A step of Run or of a worker keeps the types, the counter within its modulus.
LEMMA RunTypeStep ==
  ASSUME RunTypeOK, HoldingInv, [RunNext]_runVars
  PROVE  RunTypeOK'
<1>0. /\ count \in Nat /\ received \in Nat /\ errors \in Nat /\ Modulus \in Nat \ {0} /\ received <= count
      /\ \A w \in crew : w \in Workers
  BY Numbers DEF RunTypeOK
<1>1. CASE ReturnAtOnce
  BY <1>1 DEF ReturnAtOnce, RunTypeOK, args, Tasks
<1>2. CASE Launch
  BY <1>2 DEF Launch, RunTypeOK, args, Tasks
<1>3. ASSUME NEW w \in crew, Test(w) PROVE RunTypeOK'
  BY <1>3 DEF Test, RunTypeOK, args, Tasks
<1>4. ASSUME NEW w \in crew, Receive(w) PROVE RunTypeOK'
  BY <1>0, <1>4 DEF Receive, RunTypeOK, args, Tasks
<1>5. ASSUME NEW w \in crew, ReceiveClosed(w) PROVE RunTypeOK'
  BY <1>5 DEF ReceiveClosed, RunTypeOK, args, Tasks
<1>6. ASSUME NEW w \in crew, Succeed(w) PROVE RunTypeOK'
  <2>1. outcome' \in [Tasks -> {"waiting", "running", "ok", "failed"}]
    BY <1>6 DEF Succeed, RunTypeOK
  <2>2. UNCHANGED <<crew, count, m, received, errors, result>> /\ Tasks' = Tasks
    BY <1>6 DEF Succeed, args, Tasks
  <2>3. /\ task' \in [Workers -> 0..count]
        /\ step' \in [Workers -> {"unborn", "testing", "receiving", "running", "counting", "done"}]
    BY <1>6, <1>0 DEF Succeed, RunTypeOK
  <2> QED
    BY <2>1, <2>2, <2>3 DEF RunTypeOK
<1>7. ASSUME NEW w \in crew, Fail(w) PROVE RunTypeOK'
  <2>1. outcome' \in [Tasks -> {"waiting", "running", "ok", "failed"}]
    BY <1>7 DEF Fail, RunTypeOK
  <2>2. UNCHANGED <<crew, count, m, received, errors, result>> /\ Tasks' = Tasks
    BY <1>7 DEF Fail, args, Tasks
  <2>3. /\ task' \in [Workers -> 0..count]
        /\ step' \in [Workers -> {"unborn", "testing", "receiving", "running", "counting", "done"}]
    BY <1>7, <1>0 DEF Fail, RunTypeOK
  <2> QED
    BY <2>1, <2>2, <2>3 DEF RunTypeOK
<1>8. ASSUME NEW w \in crew, CountError(w) PROVE RunTypeOK'
  <2>1. (errors + 1) % Modulus \in 0..(Modulus - 1)
    BY <1>0
  <2> QED
    BY <1>8, <2>1 DEF CountError, RunTypeOK, args, Tasks
<1>9. CASE Return
  BY <1>9 DEF Return, RunTypeOK, args, Tasks
<1>10. CASE UNCHANGED runVars
  BY <1>10 DEF runVars, RunTypeOK, args, Tasks
<1> QED
  BY <1>1, <1>2, <1>3, <1>4, <1>5, <1>6, <1>7, <1>8, <1>9, <1>10 DEF RunNext, Work

\* A step keeps each running task with exactly one worker, and the others waiting or
\* done.
LEMMA HoldingStep ==
  ASSUME RunTypeOK, HoldingInv, DoneInv, [RunNext]_runVars
  PROVE  HoldingInv'
<1> USE Numbers
<1>1. CASE ReturnAtOnce
  BY <1>1 DEF ReturnAtOnce, HoldingInv, args, Tasks
<1>2. CASE Launch
  BY <1>2 DEF Launch, HoldingInv, RunTypeOK, args, Tasks
<1>3. ASSUME NEW w \in crew, Test(w) PROVE HoldingInv'
  BY <1>3 DEF Test, HoldingInv, RunTypeOK, args, Tasks
<1>4. ASSUME NEW w \in crew, Receive(w) PROVE HoldingInv'
  <2>1. /\ received + 1 \in Tasks /\ outcome[received + 1] = "waiting"
        /\ received' = received + 1 /\ UNCHANGED <<crew, count>>
    BY <1>4 DEF Receive, HoldingInv, Tasks, args
  <2>2. /\ step'[w] = "running" /\ task'[w] = received + 1 /\ outcome'[received + 1] = "running"
        /\ \A v \in crew \ {w} : step'[v] = step[v] /\ task'[v] = task[v]
        /\ \A t \in Tasks \ {received + 1} : outcome'[t] = outcome[t]
    BY <1>4, <2>1 DEF Receive, RunTypeOK
  <2>3. \A v \in crew \ {w} : step[v] = "running" => task[v] # received + 1
    BY DEF HoldingInv
  <2>4. (\A v \in crew : step[v] = "running" =>
           /\ task[v] \in 1..received /\ outcome[task[v]] = "running"
           /\ \A u \in crew : (u # v /\ step[u] = "running") => task[u] # task[v])'
    BY <2>1, <2>2, <2>3 DEF HoldingInv, Tasks
  <2>5. (\A t \in Tasks : outcome[t] = "running" => \E v \in crew : step[v] = "running" /\ task[v] = t)'
    <3> SUFFICES ASSUME NEW t \in Tasks, outcome'[t] = "running"
                 PROVE  \E v \in crew : step'[v] = "running" /\ task'[v] = t
      BY <2>1 DEF Tasks
    <3>1. CASE t = received + 1
      BY <3>1, <2>2
    <3>2. CASE t # received + 1
      <4>1. PICK v \in crew : step[v] = "running" /\ task[v] = t
        BY <3>2, <2>2 DEF HoldingInv
      <4>2. v # w
        BY <4>1, <1>4 DEF Receive
      <4> QED
        BY <4>1, <4>2, <2>2
    <3> QED
      BY <3>1, <3>2
  <2>6. (\A t \in Tasks : outcome[t] = "waiting" <=> t > received)'
    BY <2>1, <2>2 DEF HoldingInv, Tasks
  <2> QED
    BY <2>4, <2>5, <2>6 DEF HoldingInv
<1>5. ASSUME NEW w \in crew, ReceiveClosed(w) PROVE HoldingInv'
  BY <1>5 DEF ReceiveClosed, HoldingInv, RunTypeOK, args, Tasks
<1>6. ASSUME NEW w \in crew, Succeed(w) \/ Fail(w) PROVE HoldingInv'
  <2>1. /\ task[w] \in Tasks /\ outcome[task[w]] = "running" /\ task[w] <= received
        /\ UNCHANGED <<crew, count, received>>
    BY <1>6 DEF Succeed, Fail, HoldingInv, Tasks, args
  <2>2. /\ step'[w] # "running" /\ outcome'[task[w]] \in {"ok", "failed"}
        /\ \A v \in crew \ {w} : step'[v] = step[v] /\ task'[v] = task[v]
        /\ \A t \in Tasks \ {task[w]} : outcome'[t] = outcome[t]
    BY <1>6, <2>1 DEF Succeed, Fail, RunTypeOK
  <2>3. \A v \in crew \ {w} : step[v] = "running" => task[v] # task[w]
    BY <1>6 DEF HoldingInv, Succeed, Fail
  <2>4. (\A v \in crew : step[v] = "running" =>
           /\ task[v] \in 1..received /\ outcome[task[v]] = "running"
           /\ \A u \in crew : (u # v /\ step[u] = "running") => task[u] # task[v])'
    BY <2>1, <2>2, <2>3 DEF HoldingInv, Tasks
  <2>5. (\A t \in Tasks : outcome[t] = "running" => \E v \in crew : step[v] = "running" /\ task[v] = t)'
    BY <2>1, <2>2 DEF HoldingInv, Tasks
  <2>6. (\A t \in Tasks : outcome[t] = "waiting" <=> t > received)'
    BY <2>1, <2>2 DEF HoldingInv, Tasks
  <2> QED
    BY <2>4, <2>5, <2>6 DEF HoldingInv
<1>8. ASSUME NEW w \in crew, CountError(w) PROVE HoldingInv'
  BY <1>8 DEF CountError, HoldingInv, RunTypeOK, args, Tasks
<1>9. CASE Return
  BY <1>9 DEF Return, HoldingInv, args, Tasks
<1>10. CASE UNCHANGED runVars
  BY <1>10 DEF runVars, HoldingInv, args, Tasks
<1> QED
  BY <1>1, <1>2, <1>3, <1>4, <1>5, <1>6, <1>8, <1>9, <1>10 DEF RunNext, Work

\* How a step of a goroutine changes what is counted.
LEMMA CounterStep ==
  ASSUME RunInv, [RunNext]_runVars, RunTypeOK'
  PROVE  CounterInv'
<1> USE DEF RunInv
<1>0. SUFFICES ASSUME Limited' PROVE CounterInv'
  BY DEF CounterInv
<1>1. UNCHANGED args
  BY DEF RunNext, Work, ReturnAtOnce, Launch, Test, Receive, ReceiveClosed, Succeed, Fail,
         CountError, Return, runVars
<1>2. /\ crew' = crew /\ m' = m /\ count' = count /\ n' = n /\ Tasks' = Tasks /\ Limited
  BY <1>0, <1>1 DEF args, n, Tasks, Limited
<1>3. /\ errors + Cardinality(Busy) <= m + n - 1
      /\ Cardinality(Unsucceeded) = errors + Cardinality(Holding)
  BY <1>2 DEF CounterInv
<1>a. CASE UNCHANGED <<errors, Busy, Holding, Unsucceeded>>
  BY <1>a, <1>2, <1>3 DEF CounterInv
<1>b. ASSUME ReturnAtOnce \/ Return \/ UNCHANGED runVars PROVE CounterInv'
  <2>1. UNCHANGED <<errors, step, outcome>>
    BY <1>b DEF ReturnAtOnce, Return, runVars
  <2> QED
    BY <2>1, <1>2, <1>a DEF Busy, Holding, Unsucceeded, Tasks
<1>c. ASSUME Launch PROVE CounterInv'
  <2>1. Busy = {} /\ Holding = {}
    BY <1>c DEF Launch, Busy, Holding
  <2>2. Busy' = {} /\ Holding' = {}
    BY <1>c, <1>2 DEF Launch, Busy, Holding, RunTypeOK
  <2>3. errors' = errors /\ Unsucceeded' = Unsucceeded
    BY <1>c, <1>2 DEF Launch, Unsucceeded, Tasks
  <2> QED
    BY <2>1, <2>2, <2>3, <1>a
<1>d. ASSUME NEW w \in crew, Test(w) PROVE CounterInv'
  <2>1. errors' = errors /\ Unsucceeded' = Unsucceeded
    BY <1>d, <1>2 DEF Test, Unsucceeded, Tasks
  <2>2. Holding' = Holding
    BY <1>d, <1>2 DEF Test, Holding, RunTypeOK
  <2>3. CASE LimitReached
    <3>1. Busy' = Busy
      BY <1>d, <1>2, <2>3 DEF Test, Busy, RunTypeOK
    <3> QED
      BY <3>1, <2>1, <2>2, <1>a
  <2>4. CASE ~LimitReached
    <3>1. errors < m
      BY <2>4, <1>2, LimitedComparison, Numbers
    <3>2. Cardinality(Busy') \in Nat /\ Cardinality(Busy') <= n
      <4>1. Busy' \subseteq crew
        BY <1>2 DEF Busy
      <4> QED
        BY <4>1, FiniteCounted, FS_Subset, FS_CardinalityType DEF n
    <3>3. n \in Nat /\ errors \in Nat /\ m \in Int
      BY FiniteCounted, Numbers
    <3> QED
      BY <3>1, <3>2, <3>3, <2>1, <2>2, <1>2, <1>3 DEF CounterInv
  <2> QED
    BY <2>3, <2>4
<1>e. ASSUME NEW w \in crew, Receive(w) PROVE CounterInv'
  <2>1. errors' = errors
    BY <1>e DEF Receive
  <2>2. Busy' = Busy
    BY <1>e, <1>2 DEF Receive, Busy, RunTypeOK
  <2>3. Holding' = Holding \cup {w} /\ w \notin Holding
    BY <1>e, <1>2 DEF Receive, Holding, RunTypeOK
  <2>4. received + 1 \in Tasks /\ outcome[received + 1] = "waiting"
    BY <1>e, Numbers DEF Receive, HoldingInv, Tasks
  <2>5. Unsucceeded' = Unsucceeded \cup {received + 1} /\ received + 1 \notin Unsucceeded
    BY <1>e, <2>4, <1>2 DEF Receive, Unsucceeded, RunTypeOK
  <2>6. Cardinality(Holding') = Cardinality(Holding) + 1
    BY <2>3, FS_AddElement, FiniteCounted
  <2>7. Cardinality(Unsucceeded') = Cardinality(Unsucceeded) + 1
    BY <2>5, FS_AddElement, FiniteCounted
  <2> QED
    BY <2>1, <2>2, <2>6, <2>7, <1>2, <1>3, FiniteCounted, Numbers DEF CounterInv
<1>f. ASSUME NEW w \in crew, ReceiveClosed(w) PROVE CounterInv'
  <2>1. errors' = errors /\ Unsucceeded' = Unsucceeded
    BY <1>f, <1>2 DEF ReceiveClosed, Unsucceeded, Tasks
  <2>2. Holding' = Holding
    BY <1>f, <1>2 DEF ReceiveClosed, Holding, RunTypeOK
  <2>3. Busy' = Busy \ {w}
    BY <1>f, <1>2 DEF ReceiveClosed, Busy, RunTypeOK
  <2>4. Cardinality(Busy') \in Nat /\ Cardinality(Busy') <= Cardinality(Busy)
    BY <2>3, FS_Subset, FS_CardinalityType, FiniteCounted
  <2> QED
    BY <2>1, <2>2, <2>4, <1>2, <1>3, FiniteCounted, Numbers DEF CounterInv
<1>g. ASSUME NEW w \in crew, Succeed(w) PROVE CounterInv'
  <2>1. errors' = errors
    BY <1>g DEF Succeed
  <2>2. Busy' = Busy \ {w}
    BY <1>g, <1>2 DEF Succeed, Busy, RunTypeOK
  <2>3. Holding' = Holding \ {w} /\ w \in Holding
    BY <1>g, <1>2 DEF Succeed, Holding, RunTypeOK
  <2>4. task[w] \in Tasks /\ outcome[task[w]] = "running"
    BY <1>g, Numbers DEF Succeed, HoldingInv, Tasks
  <2>5. Unsucceeded' = Unsucceeded \ {task[w]} /\ task[w] \in Unsucceeded
    BY <1>g, <2>4, <1>2 DEF Succeed, Unsucceeded, RunTypeOK
  <2>6. Cardinality(Busy') \in Nat /\ Cardinality(Busy') <= Cardinality(Busy)
    BY <2>2, FS_Subset, FS_CardinalityType, FiniteCounted
  <2>7. Cardinality(Holding') = Cardinality(Holding) - 1
    BY <2>3, FS_RemoveElement, FiniteCounted
  <2>8. Cardinality(Unsucceeded') = Cardinality(Unsucceeded) - 1
    BY <2>5, FS_RemoveElement, FiniteCounted
  <2> QED
    BY <2>1, <2>6, <2>7, <2>8, <1>2, <1>3, FiniteCounted, Numbers DEF CounterInv
<1>h. ASSUME NEW w \in crew, Fail(w) PROVE CounterInv'
  <2>1. errors' = errors
    BY <1>h DEF Fail
  <2>2. Busy' = Busy /\ Holding' = Holding
    BY <1>h, <1>2 DEF Fail, Busy, Holding, RunTypeOK
  <2>3. task[w] \in Tasks /\ outcome[task[w]] = "running"
    BY <1>h, Numbers DEF Fail, HoldingInv, Tasks
  <2>4. Unsucceeded' = Unsucceeded
    BY <1>h, <2>3, <1>2 DEF Fail, Unsucceeded, RunTypeOK
  <2> QED
    BY <2>1, <2>2, <2>4, <1>a
<1>i. ASSUME NEW w \in crew, CountError(w) PROVE CounterInv'
  <2>1. Unsucceeded' = Unsucceeded
    BY <1>i, <1>2 DEF CountError, Unsucceeded, Tasks
  <2>2. Busy' = Busy \ {w} /\ w \in Busy
    BY <1>i, <1>2 DEF CountError, Busy, RunTypeOK
  <2>3. Holding' = Holding \ {w} /\ w \in Holding
    BY <1>i, <1>2 DEF CountError, Holding, RunTypeOK
  <2>4. Cardinality(Busy') = Cardinality(Busy) - 1
    BY <2>2, FS_RemoveElement, FiniteCounted
  <2>5. Cardinality(Holding') = Cardinality(Holding) - 1
    BY <2>3, FS_RemoveElement, FiniteCounted
  <2>6. Cardinality(Busy) # 0
    BY <2>2, FS_EmptySet, FiniteCounted
  <2>7. errors + 1 \in 0..(Modulus - 1) /\ Modulus \in Nat \ {0}
    BY <2>6, <1>2, <1>3, FiniteCounted, Numbers DEF Limited
  <2>8. errors' = errors + 1
    BY <1>i, <2>7 DEF CountError
  <2> QED
    BY <2>1, <2>4, <2>5, <2>8, <1>2, <1>3, FiniteCounted, Numbers DEF CounterInv
<1> QED
  BY <1>b, <1>c, <1>d, <1>e, <1>f, <1>g, <1>h, <1>i DEF RunNext, Work

\* Under a limit in force the counter never goes back.
LEMMA CounterGrows ==
  ASSUME RunInv, [RunNext]_runVars, Limited
  PROVE  errors' >= errors
<1>1. ASSUME NEW w \in crew, CountError(w) PROVE errors' = errors + 1
  <2>1. w \in Busy
    BY <1>1 DEF CountError, Busy
  <2>2. Cardinality(Busy) # 0
    BY <2>1, FS_EmptySet, FiniteCounted DEF RunInv
  <2>3. errors + 1 \in 0..(Modulus - 1) /\ Modulus \in Nat \ {0}
    BY <2>2, FiniteCounted, Numbers DEF Limited, RunInv, CounterInv
  <2> QED
    BY <1>1, <2>3 DEF CountError
<1>2. errors \in Nat
  BY Numbers DEF RunInv
<1> QED
  BY <1>1, <1>2 DEF RunNext, Work, ReturnAtOnce, Launch, Test, Receive, ReceiveClosed, Succeed,
       Fail, Return, runVars

\* A step keeps a worker from leaving before the tasks or the errors are used up, and
\* Run from returning before its workers have left.
LEMMA DoneStep ==
  ASSUME RunInv, [RunNext]_runVars, RunTypeOK'
  PROVE  DoneInv'
<1> USE DEF RunInv
<1>1. UNCHANGED args
  BY DEF RunNext, Work, ReturnAtOnce, Launch, Test, Receive, ReceiveClosed, Succeed, Fail,
         CountError, Return, runVars
<1>2. /\ crew' = crew /\ m' = m /\ count' = count /\ (Limited' <=> Limited)
  BY <1>1 DEF args, Limited, n
<1>3. Limited => errors' >= errors
  BY CounterGrows
<1>4. /\ errors \in Nat /\ errors' \in Nat /\ m \in Int /\ received \in Nat /\ count \in Nat
      /\ received <= count /\ m' \in Int
  BY Numbers, <1>2 DEF RunTypeOK
<1>5. crew # {} /\ Limited => (LimitReached <=> errors >= m)
  BY LimitedComparison
<1>a. CASE ReturnAtOnce
  BY <1>a, <1>2 DEF ReturnAtOnce, DoneInv
<1>b. CASE Launch
  BY <1>b, <1>2 DEF Launch, DoneInv, RunTypeOK
<1>c. ASSUME NEW w \in crew, Test(w) PROVE DoneInv'
  <2>1. /\ count # 0 /\ crew # {} /\ result = "none" /\ result' = "none"
        /\ errors' = errors /\ received' = received
    BY <1>c DEF Test, DoneInv
  <2>2. \A v \in crew : step'[v] = "done" => step[v] = "done" \/ (v = w /\ LimitReached)
    BY <1>c DEF Test, RunTypeOK
  <2> QED
    BY <2>1, <2>2, <1>2, <1>4, <1>5 DEF DoneInv, LimitReached
<1>d. ASSUME NEW w \in crew,
             Receive(w) \/ Succeed(w) \/ Fail(w) \/ CountError(w)
      PROVE  DoneInv'
  <2>1. /\ count # 0 /\ crew # {} /\ result = "none" /\ result' = "none"
        /\ received' \in Nat /\ (received = count => received' = count)
    BY <1>d, <1>4 DEF Receive, Succeed, Fail, CountError, DoneInv
  <2>2. \A v \in crew : step'[v] = "done" => step[v] = "done"
    BY <1>d DEF Receive, Succeed, Fail, CountError, RunTypeOK
  <2> QED
    BY <2>1, <2>2, <1>2, <1>3, <1>4 DEF DoneInv
<1>e. ASSUME NEW w \in crew, ReceiveClosed(w) PROVE DoneInv'
  <2>1. /\ count # 0 /\ crew # {} /\ result = "none" /\ result' = "none"
        /\ errors' = errors /\ received' = received /\ received = count
    BY <1>e DEF ReceiveClosed, DoneInv
  <2> QED
    BY <2>1, <1>2 DEF DoneInv
<1>f. CASE Return
  <2>1. /\ crew # {} /\ count # 0 /\ UNCHANGED <<step, errors, received>>
        /\ \A v \in crew : step[v] = "done"
    BY <1>f DEF Return, DoneInv
  <2>2. result' = "ErrErrorsLimitExceeded" <=> LimitReached
    BY <1>f DEF Return
  <2> QED
    BY <2>1, <2>2, <1>2, <1>4, <1>5 DEF DoneInv, LimitReached
<1>g. CASE UNCHANGED runVars
  BY <1>g, <1>2 DEF runVars, DoneInv
<1> QED
  BY <1>a, <1>b, <1>c, <1>d, <1>e, <1>f, <1>g DEF RunNext, Work

\* Every step of Run keeps its inductive invariant.
LEMMA RunStep == RunInv /\ [RunNext]_runVars => RunInv'
BY RunTypeStep, HoldingStep, CounterStep, DoneStep DEF RunInv

\* Every reachable state satisfies the inductive invariant.
THEOREM RunInvariance == RunSpec => []RunInv
<1> QED
  BY RunInitInv, RunStep, PTL DEF RunSpec

\* Every variable keeps its type, for all crews, tasks and limits.
THEOREM RunTypeCorrect == RunSpec => []RunTypeOK
<1>1. RunInv => RunTypeOK
  BY DEF RunInv
<1> QED
  BY RunInvariance, <1>1, PTL

\* At most m + n - 1 tasks are started that do not succeed, whatever goroutines
\* test the counter between a failure and its increment.
THEOREM BoundedOverrunHolds == RunSpec => []BoundedOverrun
<1>1. RunInv => BoundedOverrun
  BY FiniteCounted, Numbers DEF RunInv, CounterInv, BoundedOverrun, Limited
<1> QED
  BY RunInvariance, <1>1, PTL

\* When all goroutines are done, what failed is what was counted.
LEMMA FailedAreCounted ==
  ASSUME RunInv, Limited, \A w \in crew : step[w] = "done"
  PROVE  Cardinality(Failed) = errors
<1> USE DEF RunInv
<1>1. Holding = {}
  BY DEF Holding
<1>2. Failed = Unsucceeded
  BY DEF Failed, Unsucceeded, HoldingInv
<1> QED
  BY <1>1, <1>2, FS_EmptySet, FiniteCounted, Numbers DEF CounterInv

\* Run returns the error exactly when m tasks or more have failed, and nil only
\* when all tasks were run.
THEOREM ResultTellsErrorsHolds == RunSpec => []ResultTellsErrors
<1>1. ASSUME RunInv PROVE ResultTellsErrors
  <2> USE <1>1 DEF RunInv
  <2>0. errors \in Nat /\ m \in Int /\ received \in Nat /\ count \in Nat
    BY Numbers
  <2>1. ASSUME result = "ErrErrorsLimitExceeded", Limited
        PROVE  Cardinality(Failed) >= m
    <3>1. \A w \in crew : step[w] = "done"
      BY <2>1 DEF DoneInv
    <3> QED
      BY <3>1, <2>1, FailedAreCounted DEF DoneInv
  <2>2. ASSUME result = "nil", Limited, crew # {}
        PROVE  Cardinality(Failed) < m /\ received = count
    <3>1. CASE count = 0
      <4>1. Failed = {} /\ received = 0
        BY <3>1 DEF Failed, Tasks, RunTypeOK
      <4> QED
        BY <4>1, <3>1, <2>2, FS_EmptySet DEF Limited
    <3>2. CASE count # 0
      <4>1. \A w \in crew : step[w] = "done"
        BY <2>2, <3>2 DEF DoneInv
      <4>2. errors < m
        BY <2>2, <3>2 DEF DoneInv
      <4>3. received = count
        BY <2>0, <2>2, <4>1, <4>2 DEF DoneInv
      <4> QED
        BY <4>1, <4>2, <4>3, <2>2, FailedAreCounted
    <3> QED
      BY <3>1, <3>2
  <2>3. ASSUME Unlimited
        PROVE  /\ result # "ErrErrorsLimitExceeded"
               /\ (result = "nil" /\ crew # {}) => received = count
    <3>1. ~(m > 0)
      BY <2>0, <2>3 DEF Unlimited
    <3>2. count = 0 => received = count
      BY DEF RunTypeOK
    <3> QED
      BY <3>1, <3>2 DEF DoneInv
  <2> QED
    BY <2>1, <2>2, <2>3 DEF ResultTellsErrors
<1> QED
  BY RunInvariance, <1>1, PTL

\* No goroutine and no task of a call outlives it.
THEOREM NothingLeftRunningHolds == RunSpec => []NothingLeftRunning
<1>1. ASSUME RunInv PROVE NothingLeftRunning
  <2> SUFFICES ASSUME result # "none" PROVE NothingLeftRunning
    BY DEF NothingLeftRunning
  <2> USE <1>1 DEF RunInv
  <2>1. \A w \in crew : step[w] \in {"unborn", "done"}
    BY DEF DoneInv
  <2>2. ASSUME NEW t \in 1..received PROVE outcome[t] \in {"ok", "failed"}
    <3>1. t \in Tasks /\ ~(t > received)
      BY Numbers DEF Tasks
    <3>2. outcome[t] # "running"
      BY <3>1, <2>1 DEF HoldingInv
    <3>3. outcome[t] # "waiting"
      BY <3>1 DEF HoldingInv
    <3> QED
      BY <3>1, <3>2, <3>3 DEF RunTypeOK
  <2> QED
    BY <2>1, <2>2 DEF NothingLeftRunning
<1> QED
  BY RunInvariance, <1>1, PTL

\* No task is run twice, by one goroutine or by two.
THEOREM EachTaskOnceHolds == RunSpec => EachTaskOnce
<1>1. ASSUME RunInv, RunNext PROVE OutcomesStay
  <2> SUFFICES ASSUME NEW t \in Tasks
               PROVE  /\ outcome[t] # "waiting" => outcome'[t] # "waiting"
                      /\ outcome[t] \in {"ok", "failed"} => outcome'[t] = outcome[t]
    BY DEF OutcomesStay
  <2> USE <1>1 DEF RunInv
  <2>1. ASSUME NEW w \in crew, Receive(w)
        PROVE  /\ outcome[t] # "waiting" => outcome'[t] # "waiting"
               /\ outcome[t] \in {"ok", "failed"} => outcome'[t] = outcome[t]
    <3>1. received + 1 > received
      BY Numbers
    <3>2. t = received + 1 => outcome[t] = "waiting"
      BY <3>1 DEF HoldingInv
    <3> QED
      BY <2>1, <3>2 DEF Receive, RunTypeOK
  <2>2. ASSUME NEW w \in crew, Succeed(w) \/ Fail(w)
        PROVE  /\ outcome[t] # "waiting" => outcome'[t] # "waiting"
               /\ outcome[t] \in {"ok", "failed"} => outcome'[t] = outcome[t]
    <3>1. outcome[task[w]] = "running"
      BY <2>2 DEF Succeed, Fail, HoldingInv
    <3> QED
      BY <2>2, <3>1 DEF Succeed, Fail, RunTypeOK
  <2>3. CASE outcome' = outcome
    BY <2>3
  <2>4. (\E w \in crew : Receive(w)) \/ (\E w \in crew : Succeed(w) \/ Fail(w))
        \/ outcome' = outcome
    BY DEF RunNext, Work, ReturnAtOnce, Launch, Test, ReceiveClosed, CountError, Return
  <2>5. CASE \E w \in crew : Receive(w)
    BY <2>1, <2>5
  <2>6. CASE \E w \in crew : Succeed(w) \/ Fail(w)
    BY <2>2, <2>6
  <2> QED
    BY <2>3, <2>4, <2>5, <2>6
<1> QED
  BY <1>1, RunInvariance, PTL DEF RunSpec, EachTaskOnce

(**************************************************************************)
(* The four programs above, as they are run together: one of them runs,   *)
(* and what the others leave behind is of their types.                    *)
(**************************************************************************)

\* The program that runs keeps its invariant; the others rest.
ProgramsInv ==
  /\ TypeOK
  /\ which = "pipeline" => PipeInv
  /\ which = "telnet" => TelnetInv
  /\ which = "calendar" => LifeInv
  /\ which = "runner" => RunInv

\* What stands in for a program while another one runs is well typed.
LEMMA RestsTyped ==
  /\ PipeRests => PipeTypeOK
  /\ TelnetRests => TelnetTypeOK
  /\ LifeRests => LifeTypeOK
  /\ RunRests => RunTypeOK
<1>1. ASSUME PipeRests PROVE PipeTypeOK
  <2>1. 0 \in 0..MaxStages /\ 1 \in Places /\ 0 \in 0..Amount
    BY StagesAssumption, AmountAssumption DEF Places
  <2>2. <<>> \in Seq(1..Amount)
    OBVIOUS
  <2>3. /\ [p \in Places |-> "returned"] \in [Places -> {"receiving", "sending", "returned"}]
        /\ [p \in Places |-> 0] \in [Places -> 0..Amount]
    BY <2>1
  <2> QED
    BY <1>1, <2>1, <2>2, <2>3, StagesAssumption DEF PipeRests, PipeTypeOK
<1>2. ASSUME TelnetRests PROVE TelnetTypeOK
  <2>1. /\ 0 \in 0..UserLines /\ 0 \in 0..PeerLines /\ 0 \in 0..0
        /\ [g \in Goroutines |-> "done"]
             \in [Goroutines -> {"select", "call", "blocked", "writing", "stopping", "closing",
                                "closeConn", "closed", "done"}]
    BY BoundsAssumption
  <2>2. at \in [Goroutines -> {"select", "call", "blocked", "writing", "stopping", "closing",
                              "closeConn", "closed", "done"}]
    BY <1>2, <2>1 DEF TelnetRests
  <2> QED
    BY <1>2, <2>1, <2>2 DEF TelnetRests, TelnetTypeOK
<1>3. ASSUME LifeRests PROVE LifeTypeOK
  <2>1. 0 \in 0..MaxInflight
    BY InflightAssumption
  <2> QED
    BY <1>3, <2>1 DEF LifeRests, LifeTypeOK
<1>4. ASSUME RunRests PROVE RunTypeOK
  <2>1. 0 \in 0..(Modulus - 1) /\ 0 \in 0..0
    BY ModulusAssumption
  <2>2. /\ [w \in Workers |-> "unborn"]
             \in [Workers -> {"unborn", "testing", "receiving", "running", "counting", "done"}]
        /\ [w \in Workers |-> 0] \in [Workers -> 0..0]
    BY <2>1
  <2>3. <<>> \in [1..0 -> {"waiting", "running", "ok", "failed"}]
    OBVIOUS
  <2> QED
    BY <1>4, <2>1, <2>2, <2>3, RestAssumption DEF RunRests, RunTypeOK, Tasks
<1> QED
  BY <1>1, <1>2, <1>3, <1>4

\* The conjunction of the four programs' invariants holds at the start.
LEMMA ProgramsInit == Init => ProgramsInv
<1>1. PipeInv => PipeTypeOK
  BY DEF PipeInv
<1>2. TelnetInv => TelnetTypeOK
  BY DEF TelnetInv
<1>3. LifeInv => LifeTypeOK
  BY DEF LifeInv
<1>4. RunInv => RunTypeOK
  BY DEF RunInv
<1> QED
  BY <1>1, <1>2, <1>3, <1>4, RestsTyped, PipeInitInv, TelnetInitInv, LifeInitInv, RunInitInv
     DEF Init, ProgramsInv, TypeOK

\* A step of one program keeps the invariants of all four.
LEMMA ProgramsStep == ProgramsInv /\ [Next]_vars => ProgramsInv'
<1> SUFFICES ASSUME ProgramsInv, [Next]_vars PROVE ProgramsInv'
  OBVIOUS
<1>1. /\ (UNCHANGED pipeVars) => PipeTypeOK'
      /\ (UNCHANGED telnetVars) => TelnetTypeOK'
      /\ (UNCHANGED lifeVars) => LifeTypeOK'
      /\ (UNCHANGED runVars) => RunTypeOK'
  <2>1. (UNCHANGED pipeVars) => PipeTypeOK'
    BY DEF ProgramsInv, TypeOK, PipeTypeOK, pipeVars, Places
  <2>2. (UNCHANGED telnetVars) => TelnetTypeOK'
    BY DEF ProgramsInv, TypeOK, TelnetTypeOK, telnetVars, processVars, stdinVars, peerVars,
       historyVars
  <2>3. (UNCHANGED lifeVars) => LifeTypeOK'
    BY DEF ProgramsInv, TypeOK, LifeTypeOK, lifeVars
  <2>4. (UNCHANGED runVars) => RunTypeOK'
    BY DEF ProgramsInv, TypeOK, RunTypeOK, runVars, args, Tasks
  <2> QED
    BY <2>1, <2>2, <2>3, <2>4
<1>2. /\ PipeInv' => PipeTypeOK'
      /\ TelnetInv' => TelnetTypeOK'
      /\ LifeInv' => LifeTypeOK'
      /\ RunInv' => RunTypeOK'
  BY DEF PipeInv, TelnetInv, LifeInv, RunInv
<1>3. CASE which = "pipeline" /\ PipeNext /\ UNCHANGED <<telnetVars, lifeVars, runVars, which>>
  <2>1. PipeInv'
    BY <1>3, PipeStep DEF ProgramsInv
  <2> QED
    BY <1>3, <2>1, <1>1, <1>2 DEF ProgramsInv, TypeOK
<1>4. CASE which = "telnet" /\ TelnetNext /\ UNCHANGED <<pipeVars, lifeVars, runVars, which>>
  <2>1. TelnetInv'
    BY <1>4, TelnetStep DEF ProgramsInv
  <2> QED
    BY <1>4, <2>1, <1>1, <1>2 DEF ProgramsInv, TypeOK
<1>5. CASE which = "calendar" /\ LifeNext /\ UNCHANGED <<pipeVars, telnetVars, runVars, which>>
  <2>1. LifeInv'
    BY <1>5, LifeStep DEF ProgramsInv
  <2> QED
    BY <1>5, <2>1, <1>1, <1>2 DEF ProgramsInv, TypeOK
<1>6. CASE which = "runner" /\ RunNext /\ UNCHANGED <<pipeVars, telnetVars, lifeVars, which>>
  <2>1. RunInv'
    BY <1>6, RunStep DEF ProgramsInv
  <2> QED
    BY <1>6, <2>1, <1>1, <1>2 DEF ProgramsInv, TypeOK
<1>7. CASE UNCHANGED vars
  <2>1. /\ UNCHANGED pipeVars /\ UNCHANGED telnetVars /\ UNCHANGED lifeVars
        /\ UNCHANGED runVars /\ which' = which
    BY <1>7 DEF vars
  <2>2. /\ which = "pipeline" => PipeInv'
        /\ which = "telnet" => TelnetInv'
        /\ which = "calendar" => LifeInv'
        /\ which = "runner" => RunInv'
    BY <2>1, PipeStep, TelnetStep, LifeStep, RunStep DEF ProgramsInv
  <2> QED
    BY <2>1, <2>2, <1>1 DEF ProgramsInv, TypeOK
<1> QED
  BY <1>3, <1>4, <1>5, <1>6, <1>7 DEF Next

\* The variables of the pipeline, of the telnet client, of the start and the stop and of
\* the parallel runner keep their types, whichever of the four runs, for any number of
\* stages, values, lines, requests, goroutines and tasks.
THEOREM TypesHold == FairSpec => []TypeOK
<1>1. ProgramsInv => TypeOK
  BY DEF ProgramsInv
<1> QED
  BY <1>1, ProgramsInit, ProgramsStep, PTL DEF FairSpec
===============================================================================
