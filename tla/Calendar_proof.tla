---------------------------- MODULE Calendar_proof ----------------------------
(***************************************************************************)
(* The requests and the scheduler on one table: whatever the requests do,  *)
(* the whole is a behaviour of Scheduler with its clients, for any number  *)
(* of requests, all sets of ids, users, drafts and patches, and all        *)
(* failures.                                                               *)
(***************************************************************************)
EXTENDS Calendar, EventStore_proof, FiniteSetTheorems

\* What is proved of the requests, with PostgreSQL.
Client == INSTANCE CalendarApi_proof WITH storage <- "sql"

\* The assumptions of the requests hold here.
LEMMA ClientAssumptions ==
  /\ Client!MergeAssumption /\ Client!StorageAssumption
  /\ Client!DraftsAssumption /\ Client!NoRowAssumption
<1>1. Client!MergeAssumption
  BY PatchesAssumption DEF Client!Merge, Api!Merge, Client!Fields, Api!Fields
<1>2. Client!StorageAssumption
  BY DEF Storages
<1>3. Client!DraftsAssumption
  BY DraftsAssumption DEF Draft, Client!Draft
<1>4. Client!NoRowAssumption
  BY NoRowAssumption DEF Row, Client!Row
<1> QED BY <1>1, <1>2, <1>3, <1>4

\* Api and Client are instances of the same requests.
LEMMA SameHandle ==
  ASSUME NEW r \in Requests, Api!Handle(r)
  PROVE  Client!Handle(r)
BY DEF Api!Handle, Client!Handle, Api!Arrive, Client!Arrive, Api!Serve, Client!Serve,
   Api!Create, Client!Create, Api!HttpUpdate, Client!HttpUpdate,
   Api!GrpcUpdate, Client!GrpcUpdate, Api!HttpDelete, Client!HttpDelete,
   Api!GrpcDelete, Client!GrpcDelete, Api!Get, Client!Get,
   Api!Arrives, Client!Arrives, Api!NewRequest, Client!NewRequest,
   Api!NewRow, Client!NewRow, Api!Creates, Client!Creates,
   Api!NoRequest, Client!NoRequest, Api!ReadRefused, Client!ReadRefused,
   Api!ReadAnswered, Client!ReadAnswered, Api!ReadTarget, Client!ReadTarget,
   Api!CheckRefused, Client!CheckRefused, Api!CheckPassed, Client!CheckPassed,
   Api!Write, Client!Write, Api!Confirm, Client!Confirm, Api!Fails, Client!Fails,
   Api!Execute, Client!Execute, Api!Written, Client!Written,
   Api!Misses, Client!Misses, Api!At, Client!At, Api!Owned, Client!Owned,
   Api!Refusal, Client!Refusal, Api!Answer, Client!Answer,
   Api!Target, Client!Target, Api!Merge, Client!Merge, Api!Fields, Client!Fields,
   Api!Stored, Client!Stored, Api!AddEvent, Client!AddEvent,
   Api!UpdateEvent, Client!UpdateEvent, Api!DeleteEvent, Client!DeleteEvent,
   Api!ZeroTime, Client!ZeroTime

\* The table of the requests is the table.
LEMMA SameTable ==
  /\ Client!Table = Table
  /\ \A table, id : Client!Stored(table, id) <=> Stored(table, id)
BY DEF Client!Table, Table, Client!Row, Row, Client!Stored, Stored

\* Its sets are counted by the same operators.
LEMMA SameSize ==
  /\ IsFiniteSet(Requests) => Client!IsFiniteSet(Requests)
  /\ Client!Cardinality(Requests) = Cardinality(Requests)
<1>1. IsFiniteSet(Requests) => Client!IsFiniteSet(Requests)
  BY DEF IsFiniteSet, Client!IsFiniteSet
<1>2. Client!Cardinality(Requests) = Cardinality(Requests)
  BY DEF Cardinality, Client!Cardinality
<1> QED BY <1>1, <1>2

(***************************************************************************)
(* The invariant: that of the requests, and the types of what the          *)
(* scheduler marks a row with.                                             *)
(***************************************************************************)
CalendarInv ==
  /\ Client!ClientInv
  /\ now \in Nat /\ cycle \in Nat /\ current \in Ids

\* The storage both processes share is well typed.
LEMMA TableTypes ==
  ASSUME CalendarInv
  PROVE  /\ events \in Table /\ rev \in [Ids -> Nat] /\ marks \in [Ids -> SUBSET Nat]
BY SameTable DEF CalendarInv, Client!ClientInv, Client!IInv, Client!TypeOK

\* The composition starts in the invariant.
LEMMA InitCalendarInv == Init => CalendarInv
<1> SUFFICES ASSUME Init PROVE CalendarInv
  OBVIOUS
<1>1. Client!Init
  BY DEF Init, Sched!Init, Client!Init, Api!NoRequest, Client!NoRequest, Sched!EmptyTable,
     Client!EmptyTable, Sched!NoRevs, Storages
<1>2. Client!ClientInv
  BY <1>1, ClientAssumptions, Client!ClientInitInv
<1> QED BY <1>2 DEF CalendarInv, Init, Sched!Init

\* A step of the scheduler at most removes rows and sets their NotifiedAt.
LEMMA SchedulerForeign ==
  ASSUME CalendarInv, SchedulerStep
  PROVE  /\ UNCHANGED <<req, rev>>
         /\ events' \in Table /\ marks' \in [Ids -> SUBSET Nat]
         /\ \A id \in Ids : marks[id] \subseteq marks'[id]
         /\ \A id \in Ids : Stored(events', id) =>
              /\ Stored(events, id) /\ events'[id].user = events[id].user
              /\ events'[id].notified \in {events[id].notified} \cup marks'[id]
<1> USE TableTypes
<1>1. CASE UNCHANGED <<req, rev, events, marks>>
  BY <1>1
<1>2. CASE /\ UNCHANGED <<req, rev, marks>>
           /\ events' = DeleteEndedBefore(events, cutoff)
  BY <1>2 DEF DeleteEndedBefore, Table, Stored
<1>3. CASE UNCHANGED <<req, rev>> /\ Sched!MarkRow
  <2>1. /\ events' = SetNotified(events, current, cycle)
        /\ Stored(events, current) => marks' = [marks EXCEPT ![current] = @ \cup {cycle}]
        /\ ~Stored(events, current) => marks' = marks
    BY <1>3 DEF Sched!MarkRow, Sched!SetNotified, SetNotified, Sched!Stored, Stored
  <2>2. /\ marks' \in [Ids -> SUBSET Nat] /\ \A id \in Ids : marks[id] \subseteq marks'[id]
        /\ Stored(events, current) => cycle \in marks'[current]
    BY <2>1 DEF CalendarInv
  <2>3. events' \in Table /\ \A id \in Ids : Stored(events', id) => Stored(events, id)
    BY <2>1, SetNotifiedEffect DEF CalendarInv
  <2>4. ASSUME NEW id \in Ids, Stored(events, id)
        PROVE  /\ events'[id].user = events[id].user
               /\ events'[id].notified \in {events[id].notified} \cup marks'[id]
    <3>1. CASE id # current
      BY <2>1, <3>1, SetNotifiedEffect DEF CalendarInv
    <3>2. CASE id = current
      <4> DEFINE row == events[id]
      <4>1. row \in Row
        BY <2>4, StoredRow
      <4>2. events'[id] = [row EXCEPT !.notified = cycle]
        BY <2>1, <2>4, <3>2 DEF SetNotified, Table
      <4> HIDE DEF row
      <4>3. events'[id].user = row.user /\ events'[id].notified = cycle
        BY <4>1, <4>2 DEF Row
      <4> QED BY <2>2, <2>4, <3>2, <4>3 DEF row
    <3> QED BY <3>1, <3>2
  <2> QED BY <1>3, <2>2, <2>3, <2>4
<1>4. CASE Sched!Process
  BY <1>1, <1>4 DEF SchedulerStep, Sched!Process, Sched!Start, Sched!Signal, Sched!Stop,
     Sched!ConnLost, Sched!Crash, Sched!tableVars
<1>5. CASE Sched!Notify
  <2>1. UNCHANGED <<rev, events, marks>> \/ (UNCHANGED rev /\ Sched!MarkRow)
    BY <1>5 DEF Sched!Notify, Sched!NotifyStart, Sched!NotifySelect,
       Sched!NotifySelectFails, Sched!Publish, Sched!PublishFails, Sched!Mark,
       Sched!MarkFails, Sched!NotifyEnd, Sched!NotifyQuits, Sched!tableVars, Sched!MarkRow
  <2> QED BY <1>1, <1>3, <2>1 DEF SchedulerStep
<1>6. CASE Sched!Delete
  <2>1. \/ UNCHANGED <<rev, events, marks>>
        \/ UNCHANGED <<rev, marks>> /\ events' = DeleteEndedBefore(events, cutoff)
    BY <1>6 DEF Sched!Delete, Sched!DeleteStart, Sched!DeleteExec, Sched!DeleteExecFails,
       Sched!DeleteQuits, Sched!tableVars, Sched!DeleteEndedBefore, DeleteEndedBefore,
       Sched!Stored, Stored
  <2> QED BY <1>1, <1>2, <2>1 DEF SchedulerStep
<1>7. CASE Sched!Tick
  BY <1>1, <1>7 DEF SchedulerStep, Sched!Tick, Sched!tableVars
<1> QED BY <1>4, <1>5, <1>6, <1>7 DEF SchedulerStep

\* A step of the scheduler keeps its clock, its cycle and its row in their ranges.
LEMMA SchedulerTypes ==
  ASSUME CalendarInv, SchedulerStep
  PROVE  now' \in Nat /\ cycle' \in Nat /\ current' \in Ids
<1> USE DEF CalendarInv, Sched!notifyVars, Sched!deleteVars,
        Sched!NotifyReturns, Sched!DeleteReturns
<1>1. CASE Sched!Process
  BY <1>1 DEF Sched!Process, Sched!Start, Sched!Signal, Sched!Stop, Sched!ConnLost,
     Sched!Crash
<1>2. CASE Sched!Notify
  BY <1>2 DEF Sched!Notify, Sched!NotifyStart, Sched!NotifySelect,
     Sched!NotifySelectFails, Sched!Publish, Sched!PublishFails, Sched!Mark,
     Sched!MarkFails, Sched!NotifyEnd, Sched!NotifyQuits
<1>3. CASE Sched!Delete
  BY <1>3 DEF Sched!Delete, Sched!DeleteStart, Sched!DeleteExec, Sched!DeleteExecFails,
     Sched!DeleteQuits
<1>4. CASE Sched!Tick
  BY <1>4 DEF Sched!Tick
<1> QED BY <1>1, <1>2, <1>3, <1>4 DEF SchedulerStep

\* To the API a step of the scheduler is foreign, and the invariant of the requests
\* survives it.
LEMMA SchedulerInv ==
  ASSUME CalendarInv, SchedulerStep
  PROVE  CalendarInv'
<1>1. Client!ClientInv'
  <2>1. Client!ClientInv /\ UNCHANGED "sql"
    BY DEF CalendarInv
  <2>2. /\ UNCHANGED <<req, rev>>
        /\ events' \in Client!Table /\ marks' \in [Ids -> SUBSET Nat]
        /\ \A id \in Ids : marks[id] \subseteq marks'[id]
        /\ \A id \in Ids : Client!Stored(events', id) =>
             /\ Client!Stored(events, id) /\ events'[id].user = events[id].user
             /\ events'[id].notified \in {events[id].notified} \cup marks'[id]
    BY SchedulerForeign, SameTable
  <2> QED BY <2>1, <2>2, ClientAssumptions, Client!ForeignInv
<1> QED BY <1>1, SchedulerTypes DEF CalendarInv

\* A step of a request keeps the invariant: it is a step of the API on its own.
LEMMA RequestInv ==
  ASSUME CalendarInv, NEW r \in Requests, ApiStep(r)
  PROVE  CalendarInv'
<1>1. Client!Handle(r) /\ Client!ClientInv /\ UNCHANGED "sql"
  BY SameHandle DEF ApiStep, CalendarInv
<1>2. Client!ClientInv'
  BY <1>1, RequestsAssumption, SameSize, ClientAssumptions, Client!HandleInv
<1> QED BY <1>2 DEF CalendarInv, ApiStep, schedulerVars

\* The invariant of the requests holds although the scheduler marks and deletes rows
\* under them, in every reachable state of the two processes on one table.
THEOREM CalendarInvariance == Spec => []CalendarInv
<1>1. CalendarInv /\ [Next]_vars => CalendarInv'
  <2> SUFFICES ASSUME CalendarInv, [Next]_vars PROVE CalendarInv'
    OBVIOUS
  <2>1. CASE Next
    BY <2>1, SchedulerInv, RequestInv DEF Next
  <2>2. CASE UNCHANGED vars
    <3>1. UNCHANGED <<events, rev, marks, req, now, cycle, current, "sql">>
      BY <2>2 DEF vars, schedulerVars
    <3>2. Client!ClientInv'
      <4>1. Client!ClientInv /\ events \in Client!Table /\ marks \in [Ids -> SUBSET Nat]
        BY TableTypes, SameTable DEF CalendarInv
      <4>2. \A id \in Ids : marks[id] \subseteq marks'[id]
        BY <3>1
      <4>3. \A id \in Ids : Client!Stored(events', id) =>
              /\ Client!Stored(events, id) /\ events'[id].user = events[id].user
              /\ events'[id].notified \in {events[id].notified} \cup marks'[id]
        BY <3>1 DEF Client!Stored
      <4> QED BY <3>1, <4>1, <4>2, <4>3, ClientAssumptions, Client!ForeignInv
    <3> QED BY <3>1, <3>2 DEF CalendarInv
  <2> QED BY <2>1, <2>2
<1> QED BY <1>1, InitCalendarInv, PTL DEF Spec

(***************************************************************************)
(* The refinement.                                                         *)
(***************************************************************************)

\* Every step of a request is one that Scheduler allows a client, or changes
\* nothing that Scheduler knows.
LEMMA RequestIsClient ==
  ASSUME CalendarInv, NEW r \in Requests, ApiStep(r)
  PROVE  Sched!Client \/ UNCHANGED Sched!vars
<1>1. /\ UNCHANGED marks
      /\ Client!ClientStep \/ UNCHANGED <<events, rev>>
  <2>1. Client!Handle(r) /\ Client!ClientInv /\ UNCHANGED "sql"
    BY SameHandle DEF ApiStep, CalendarInv
  <2> QED
    BY <2>1, RequestsAssumption, SameSize, ClientAssumptions, Client!HandleIsClientStep
<1>2. UNCHANGED schedulerVars
  BY DEF ApiStep
<1>3. MaxRev \in Nat /\ Cardinality(Requests) \in Nat /\ Cardinality(Requests) <= MaxRev
      /\ MaxRev > 0
  <2>1. Cardinality(Requests) # 0
    BY RequestsAssumption, FS_EmptySet
  <2> QED BY <2>1, RequestsAssumption, FS_CardinalityType
<1>4. CASE UNCHANGED <<events, rev>>
  BY <1>1, <1>2, <1>4 DEF schedulerVars, Sched!vars, Sched!tableVars, Sched!notifyVars,
     Sched!deleteVars, Sched!processVars
<1> USE <1>1, <1>2, <1>3 DEF schedulerVars, Sched!notifyVars, Sched!deleteVars,
        Sched!processVars
<1>5. ASSUME NEW id \in Ids, NEW u \in Users, NEW d \in Drafts, Client!Creation(id, u, d)
      PROVE  Sched!ClientCreate(id, u, d)
  BY <1>5 DEF Client!Creation, Sched!ClientCreate, Client!AddEvent, Sched!AddEvent,
     Client!NewRow, Sched!NewRow, Client!ZeroTime, Sched!ZeroTime
<1>6. ASSUME NEW id \in Ids, NEW d \in Drafts, NEW n \in Client!OnceMarked(id),
             Client!Update(id, d, n)
      PROVE  n \in Sched!WritableMarks(id) /\ Sched!ClientUpdate(id, d, n)
  <2>1. n \in Sched!WritableMarks(id)
    BY DEF Client!OnceMarked, Sched!WritableMarks, Client!ZeroTime, Sched!ZeroTime
  <2>2. rev[id] < MaxRev
    BY <1>6, SameSize, TableTypes DEF Client!Update
  <2> QED
    BY <1>6, <2>1, <2>2 DEF Client!Update, Sched!ClientUpdate, Client!Stored, Sched!Stored,
       Client!UpdateEvent, Sched!UpdateEvent
<1>7. ASSUME NEW id \in Ids, Client!Deletion(id)
      PROVE  Sched!ClientDelete(id)
  BY <1>7 DEF Client!Deletion, Sched!ClientDelete, Client!Stored, Sched!Stored,
     Client!DeleteEvent, Sched!DeleteEvent
<1> QED BY <1>4, <1>5, <1>6, <1>7 DEF Client!ClientStep, Sched!Client

\* ApiActsAsClient: with any number of requests, in the middle of a batch, with rows
\* read before the scheduler wrote them and with answers lost, the calendar and the
\* scheduler together are the scheduler with its clients.  So the invariants of
\* Scheduler, which are proved there, hold of the two together.
THEOREM ApiActsAsClientHolds == Spec => ApiActsAsClient
<1>1. Init => Sched!Init
  BY DEF Init
<1>2. CalendarInv /\ [Next]_vars => [Sched!Next]_Sched!vars
  <2> SUFFICES ASSUME CalendarInv, [Next]_vars
               PROVE  Sched!Next \/ UNCHANGED Sched!vars
    OBVIOUS
  <2>1. CASE SchedulerStep
    BY <2>1 DEF SchedulerStep, Sched!Next
  <2>2. ASSUME NEW r \in Requests, ApiStep(r)
        PROVE  Sched!Next \/ UNCHANGED Sched!vars
    BY <2>2, RequestIsClient DEF Sched!Next
  <2>3. CASE UNCHANGED vars
    BY <2>3 DEF vars, schedulerVars, Sched!vars, Sched!tableVars, Sched!notifyVars,
       Sched!deleteVars, Sched!processVars
  <2> QED BY <2>1, <2>2, <2>3 DEF Next
<1> QED BY <1>1, <1>2, CalendarInvariance, PTL DEF Spec, ApiActsAsClient, Sched!Spec
===============================================================================
