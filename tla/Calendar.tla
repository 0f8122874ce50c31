------------------------------- MODULE Calendar -------------------------------
(***************************************************************************)
(* The calendar processes and the scheduler on the one Events table: the   *)
(* requests of CalendarApi take the place of the clients that Scheduler    *)
(* assumes as its environment.                                             *)
(***************************************************************************)
EXTENDS EventStore, FiniteSets

CONSTANTS
  Requests, Patches, ApiFaults,                       \* of CalendarApi
  Expiration, Faults, MaxTime, MaxRev, MaxStarts      \* of Scheduler

VARIABLES
  events, now, nPc, cycle, batch, current, failed, dPc, cutoff, ctx, conn,
  rev, marks, seen, starts, published,                \* of Scheduler
  req                                                 \* of CalendarApi

\* The process that shares its table with a scheduler uses PostgreSQL.
Storages == {"sql"}

Api == INSTANCE CalendarApi WITH storage <- "sql"
Sched == INSTANCE Scheduler

ASSUME PatchesAssumption ==
  \A d \in Drafts, p \in Patches : Api!Merge(d, p) \in Drafts

\* The bound of the writes to one event leaves all the requests their write.
ASSUME RequestsAssumption ==
  IsFiniteSet(Requests) /\ MaxRev \in Nat /\ Cardinality(Requests) <= MaxRev

schedulerVars == <<now, nPc, cycle, batch, current, failed, dPc, cutoff, ctx, conn,
                   seen, starts, published>>
vars == <<schedulerVars, events, rev, marks, req>>

Init == Sched!Init /\ req = [r \in Requests |-> Api!NoRequest]

\* A request takes a step; the scheduler's own state is not touched by it.
ApiStep(r) ==
  /\ Api!Handle(r)
  /\ UNCHANGED schedulerVars

\* The scheduler or the clock takes a step.
SchedulerStep ==
  /\ Sched!Process \/ Sched!Notify \/ Sched!Delete \/ Sched!Tick
  /\ UNCHANGED req

Next == SchedulerStep \/ \E r \in Requests : ApiStep(r)

Spec == Init /\ [][Next]_vars

\* The scheduler as in Scheduler.  Nothing is assumed of the requests: a
\* handler may hang in a statement for ever.
FairSpec == Spec /\ Sched!Fairness
-----------------------------------------------------------------------------
\* Everything the requests do to the table is what Scheduler allows its clients
\* to do: in the middle of a batch, with rows read before the scheduler wrote,
\* with answers lost.  So what is proved of Scheduler holds of the whole.
ApiActsAsClient == Sched!Spec

\* Every event that is due stops being due, whatever requests are under way.
DueEventuallySettled == Sched!DueEventuallySettled
=============================================================================
