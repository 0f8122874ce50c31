----------------------------- MODULE EventStore -----------------------------
(***************************************************************************)
(* The Events table of the calendar service: what a row is, and what each  *)
(* storage method computes from the table it finds.  The methods are       *)
(* operators on the table, because every one of them is a single SQL       *)
(* statement or runs under the storage mutex; the modules that EXTEND or   *)
(* INSTANCE this one decide which process runs which statement when.       *)
(*                                                                         *)
(* Instants are natural numbers of one unit (the clock the SQL comparisons *)
(* use); Go's zero time.Time is an instant before all of them.             *)
(***************************************************************************)
EXTENDS Integers

CONSTANTS
  Ids,       \* the uuids rows may get
  Users,     \* the uuids of users
  Drafts,    \* what a client may say of an event, see Draft
  Titles,    \* the titles a draft may have
  NoRow      \* "this id is not in the table"

(***************************************************************************)
(* The part of storage.Event a client chooses.  The title stands for the   *)
(* title and the description, which no code looks into.                    *)
(***************************************************************************)
Draft == [title: Titles, start: Nat, end: Nat, before: Nat]

\* The drafts are such that the moment to notify, StartDate - NotifyBefore,
\* is later than Go's zero time: an event of year 1 is the only exception.
ASSUME DraftsAssumption ==
  /\ Drafts \subseteq Draft
  /\ \A d \in Drafts : d.before <= d.start

ZeroTime == -1

Row == [user: Users, draft: Drafts, notified: Int]

ASSUME NoRowAssumption == NoRow \notin Row

Table == [Ids -> Row \cup {NoRow}]

EmptyTable == [id \in Ids |-> NoRow]

Stored(table, id) == table[id] # NoRow

\* Mutant: the INSERT leaves notified_at out, and it is NULL.
NewRowNull(u, d) == [user |-> u, draft |-> d, notified |-> NoRow]

NewRow(u, d) == [user |-> u, draft |-> d, notified |-> ZeroTime]

(***************************************************************************)
(* Writes.  AddEvent gets an id that is not in the table.  The UPDATE and  *)
(* the DELETE of a missing id affect no row.                               *)
(***************************************************************************)
AddEvent(table, id, row) == [table EXCEPT ![id] = row]

UpdateEvent(table, id, row) ==
  IF Stored(table, id) THEN [table EXCEPT ![id] = row] ELSE table

DeleteEvent(table, id) == [table EXCEPT ![id] = NoRow]

\* Mutant: the comparison is not strict.
DeleteEndedUntil(table, t) ==
  [id \in Ids |-> IF Stored(table, id) /\ table[id].draft.end <= t
                  THEN NoRow
                  ELSE table[id]]

\* DeleteEvents with the one filter the code uses: EndDate < t.
DeleteEndedBefore(table, t) ==
  [id \in Ids |-> IF Stored(table, id) /\ table[id].draft.end < t
                  THEN NoRow
                  ELSE table[id]]

\* Mutant: the row is written without a look at whether it is there.
SetNotifiedAlways(table, id, t) ==
  IF Stored(table, id)
  THEN [table EXCEPT ![id].notified = t]
  ELSE [table EXCEPT ![id] = [user |-> CHOOSE u \in Users : TRUE,
                              draft |-> CHOOSE d \in Drafts : TRUE,
                              notified |-> t]]

\* SetEventsNotified of one id.
SetNotified(table, id, t) ==
  IF Stored(table, id) THEN [table EXCEPT ![id].notified = t] ELSE table

(***************************************************************************)
(* Queries.                                                                *)
(***************************************************************************)
NotifyAt(row) == row.draft.start - row.draft.before

\* A row whose moment to notify has passed and is later than its last
\* notification.
Due(row, t) == NotifyAt(row) < t /\ row.notified < NotifyAt(row)

NotificationNeeded(table, t) ==
  {id \in Ids : Stored(table, id) /\ Due(table[id], t)}
=============================================================================
