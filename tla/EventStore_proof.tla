--------------------------- MODULE EventStore_proof ---------------------------
(***************************************************************************)
(* What the storage operators do to a table, for every table.  The proofs  *)
(* of the processes use these facts in place of the definitions.           *)
(***************************************************************************)
EXTENDS EventStore, TLAPS

\* A stored id has a row with the fields of storage.Event.
LEMMA StoredRow ==
  ASSUME NEW table \in Table, NEW id \in Ids, Stored(table, id)
  PROVE  /\ table[id] \in Row
         /\ table[id].user \in Users
         /\ table[id].draft \in Drafts
         /\ table[id].notified \in Int
  BY DEF Table, Stored, Row

\* The moment to notify is an instant of the clock (DraftsAssumption).
LEMMA NotifyAtType ==
  ASSUME NEW row \in Row
  PROVE  NotifyAt(row) \in Nat
<1>1. row.draft \in Draft /\ row.draft.before <= row.draft.start
  BY DraftsAssumption DEF Row
<1>2. row.draft.start \in Nat /\ row.draft.before \in Nat
  BY <1>1 DEF Draft
<1> QED BY <1>1, <1>2 DEF NotifyAt

\* A table without rows is a table.
LEMMA EmptyTableType == EmptyTable \in Table
  BY DEF EmptyTable, Table

\* A row of its own fields is a row.
LEMMA NewRowType ==
  ASSUME NEW u \in Users, NEW d \in Drafts
  PROVE  NewRow(u, d) \in Row /\ NewRow(u, d).notified = ZeroTime
  BY DEF NewRow, Row, ZeroTime

\* AddEvent stores its row and touches no other.
LEMMA AddEventEffect ==
  ASSUME NEW table \in Table, NEW id \in Ids, NEW row \in Row
  PROVE  /\ AddEvent(table, id, row) \in Table
         /\ AddEvent(table, id, row)[id] = row
         /\ \A k \in Ids \ {id} : AddEvent(table, id, row)[k] = table[k]
  BY DEF AddEvent, Table

\* UpdateEvent replaces the row of a stored id and touches no other row.
LEMMA UpdateEventEffect ==
  ASSUME NEW table \in Table, NEW id \in Ids, NEW row \in Row
  PROVE  /\ UpdateEvent(table, id, row) \in Table
         /\ Stored(table, id) => UpdateEvent(table, id, row)[id] = row
         /\ \A k \in Ids \ {id} : UpdateEvent(table, id, row)[k] = table[k]
         /\ \A k \in Ids : Stored(UpdateEvent(table, id, row), k) <=> Stored(table, k)
  BY NoRowAssumption DEF UpdateEvent, Table, Stored

\* DeleteEvent removes the id and touches no other row.
LEMMA DeleteEventEffect ==
  ASSUME NEW table \in Table, NEW id \in Ids
  PROVE  /\ DeleteEvent(table, id) \in Table
         /\ ~Stored(DeleteEvent(table, id), id)
         /\ \A k \in Ids \ {id} : DeleteEvent(table, id)[k] = table[k]
  BY DEF DeleteEvent, Table, Stored

\* DeleteEvents leaves a row as it is or removes it.
LEMMA DeleteEndedEffect ==
  ASSUME NEW table \in Table, NEW t \in Int
  PROVE  /\ DeleteEndedBefore(table, t) \in Table
         /\ \A k \in Ids : Stored(DeleteEndedBefore(table, t), k) =>
              Stored(table, k) /\ DeleteEndedBefore(table, t)[k] = table[k]
         /\ \A k \in Ids :
              Stored(table, k) /\ ~Stored(DeleteEndedBefore(table, t), k) =>
                table[k].draft.end < t
  BY DEF DeleteEndedBefore, Table, Stored

\* SetEventsNotified changes notified_at of the row it names and nothing else:
\* it neither brings a row back nor moves the moment to notify.
LEMMA SetNotifiedEffect ==
  ASSUME NEW table \in Table, NEW id \in Ids, NEW t \in Int
  PROVE  /\ SetNotified(table, id, t) \in Table
         /\ \A k \in Ids : Stored(SetNotified(table, id, t), k) <=> Stored(table, k)
         /\ \A k \in Ids \ {id} : SetNotified(table, id, t)[k] = table[k]
         /\ Stored(table, id) =>
              /\ SetNotified(table, id, t)[id].notified = t
              /\ SetNotified(table, id, t)[id].draft = table[id].draft
              /\ NotifyAt(SetNotified(table, id, t)[id]) = NotifyAt(table[id])
<1>1. CASE ~Stored(table, id)
  BY <1>1 DEF SetNotified, Table
<1>2. CASE Stored(table, id)
  <2> DEFINE row == [table[id] EXCEPT !.notified = t]
  <2>1. table[id] \in Row
    BY <1>2, StoredRow
  <2>2. row \in Row /\ row.notified = t /\ row.draft = table[id].draft
    BY <2>1 DEF Row
  <2>3. SetNotified(table, id, t) = [table EXCEPT ![id] = row]
    BY <1>2 DEF SetNotified, Table
  <2>4. NotifyAt(row) = NotifyAt(table[id])
    BY <2>2 DEF NotifyAt
  <2> HIDE DEF row
  <2>5. SetNotified(table, id, t)[id] = row
    BY <2>3 DEF Table
  <2>6. row # NoRow
    BY <2>2, NoRowAssumption
  <2>7. SetNotified(table, id, t) \in Table
    BY <2>2, <2>3 DEF Table
  <2>8. \A k \in Ids \ {id} : SetNotified(table, id, t)[k] = table[k]
    BY <2>3 DEF Table
  <2> QED BY <1>2, <2>2, <2>4, <2>5, <2>6, <2>7, <2>8 DEF Stored
<1> QED BY <1>1, <1>2

\* What the query returns: the stored rows whose moment to notify is before t
\* and after their last notification.
LEMMA NotificationNeededSpec ==
  ASSUME NEW table \in Table, NEW t \in Nat, NEW id \in NotificationNeeded(table, t)
  PROVE  /\ id \in Ids /\ Stored(table, id)
         /\ NotifyAt(table[id]) < t
         /\ table[id].notified < NotifyAt(table[id])
  BY DEF NotificationNeeded, Due
=============================================================================
