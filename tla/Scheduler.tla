------------------------------ MODULE Scheduler ------------------------------
(***************************************************************************)
(* The calendar_scheduler process: a goroutine that periodically publishes *)
(* the events whose moment to notify has come, and a goroutine that        *)
(* periodically deletes the events that ended too long ago.  Both work on  *)
(* the table that the API processes change at the same time.               *)
(*                                                                         *)
(* Every storage statement and every call of the AMQP client is a step, so *)
(* that clients, the clock, the signal handler and failures come in        *)
(* between.  The clients are the environment here: the module CalendarApi  *)
(* has their statements one by one.                                        *)
(***************************************************************************)
EXTENDS EventStore

CONSTANTS
  Expiration,   \* config.Scheduler.Expiration
  Faults,       \* which failures may happen: "db", "amqp", "crash", "signal"
  MaxTime,      \* bound of the clock
  MaxRev,       \* bound of the writes of clients to one event
  MaxStarts     \* bound of the starts of the process

ASSUME ExpirationAssumption == Expiration \in Nat
ASSUME BoundsAssumption == MaxTime \in Nat /\ MaxRev \in Nat /\ MaxStarts \in Nat

VARIABLES
  events,     \* the table
  now,        \* the clock
  nPc,        \* where the notification goroutine is
  cycle,      \* t of notify(): the instant its cycle began
  batch,      \* the selected events the loop of notify() has not reached
  current,    \* the event between its publication and its mark
  failed,     \* errs of notify() is not empty
  dPc,        \* where the deletion goroutine is
  cutoff,     \* the sample of its filter: now - expiration
  ctx,        \* "live", or "done" after a signal
  conn,       \* the AMQP connection of the producer
  \* History, which no step of the code depends on:
  rev,        \* number of writes of clients to an event; 0: never created
  marks,      \* the instants the notified_at of an event was ever set to
  seen,       \* rev as it was when the batch was selected
  starts,     \* number of starts of the process
  published   \* the publications that Publish reported as done

tableVars == <<events, rev, marks>>
notifyVars == <<nPc, cycle, batch, current, failed, seen>>
deleteVars == <<dPc, cutoff>>
processVars == <<ctx, conn, starts>>
vars == <<tableVars, now, notifyVars, deleteVars, processVars, published>>

Publication == [id: Ids, rev: Nat, at: Nat, run: Nat]

NPcs == {"idle", "selecting", "publishing", "marking", "done"}
DPcs == {"idle", "deleting", "done"}

NoRevs == [id \in Ids |-> 0]

\* Start returns, and with it main, when both goroutines have returned.
Running == nPc # "done" \/ dPc # "done"

Init ==
  /\ events = EmptyTable
  /\ rev = NoRevs
  /\ marks = [id \in Ids |-> {}]
  /\ now = 0
  /\ nPc = "done" /\ cycle = 0 /\ batch = {} /\ current \in Ids
  /\ failed = FALSE /\ seen = NoRevs
  /\ dPc = "done" /\ cutoff = 0
  /\ ctx = "live" /\ conn = "closed" /\ starts = 0
  /\ published = {}
-----------------------------------------------------------------------------
(***************************************************************************)
(* The process.                                                            *)
(***************************************************************************)

\* Connect succeeded and the two goroutines are started.  (If it fails, main
\* returns and nothing was done.)
Start ==
  /\ ~Running
  /\ starts < MaxStarts
  /\ starts' = starts + 1
  /\ ctx' = "live" /\ conn' = "open"
  /\ nPc' = "idle" /\ dPc' = "idle"
  /\ UNCHANGED <<tableVars, now, cycle, batch, current, failed, seen, cutoff,
                 published>>

\* The locals of notify() are gone when it returns.
NotifyReturns(pc) ==
  /\ nPc' = pc
  /\ cycle' = 0 /\ batch' = {} /\ failed' = FALSE /\ seen' = NoRevs
  /\ UNCHANGED current

DeleteReturns(pc) == dPc' = pc /\ cutoff' = 0

\* SIGINT, SIGTERM or SIGHUP: NotifyContext cancels the context.  (The last
\* start within the bound is neither stopped nor killed, so that a run of the
\* model does not end with the process down because of the bound.)
Signal ==
  /\ "signal" \in Faults
  /\ Running /\ ctx = "live" /\ starts < MaxStarts
  /\ ctx' = "done"
  /\ UNCHANGED <<tableVars, now, notifyVars, deleteVars, conn, starts, published>>

\* S.Stop, called by main once the context is done: its own cancel changes
\* nothing any more, producer.Close closes the connection.
Stop ==
  /\ Running /\ ctx = "done" /\ conn = "open"
  /\ conn' = "closed"
  /\ UNCHANGED <<tableVars, now, notifyVars, deleteVars, ctx, starts, published>>

\* The broker goes away.  Nothing in the code connects again.
ConnLost ==
  /\ "amqp" \in Faults
  /\ Running /\ conn = "open"
  /\ conn' = "closed"
  /\ UNCHANGED <<tableVars, now, notifyVars, deleteVars, ctx, starts, published>>

\* The process is killed.
Crash ==
  /\ "crash" \in Faults
  /\ Running /\ starts < MaxStarts
  /\ NotifyReturns("done") /\ DeleteReturns("done")
  /\ conn' = "closed"
  /\ UNCHANGED <<tableVars, now, ctx, starts, published>>
-----------------------------------------------------------------------------
(***************************************************************************)
(* The notification goroutine.                                             *)
(***************************************************************************)

\* case <-ctx.Done().  The select takes either branch when both are ready.
NotifyQuits ==
  /\ nPc = "idle" /\ ctx = "done"
  /\ NotifyReturns("done")
  /\ UNCHANGED <<tableVars, now, deleteVars, processVars, published>>

\* case <-t.C: t := time.Now().
NotifyStart ==
  /\ nPc = "idle"
  /\ nPc' = "selecting"
  /\ cycle' = now
  /\ UNCHANGED <<tableVars, now, batch, current, failed, seen, deleteVars,
                 processVars, published>>

\* Mutant: the events are marked when they are selected.
NotifySelectMarks ==
  /\ nPc = "selecting"
  /\ nPc' = "publishing"
  /\ batch' = NotificationNeeded(events, cycle)
  /\ seen' = rev
  /\ events' = [id \in Ids |-> IF id \in batch' THEN [events[id] EXCEPT !.notified = cycle]
                               ELSE events[id]]
  /\ UNCHANGED <<rev, marks, now, cycle, current, failed, deleteVars,
                 processVars, published>>

NotifySelect ==
  /\ nPc = "selecting"
  /\ nPc' = "publishing"
  /\ batch' = NotificationNeeded(events, cycle)
  /\ seen' = rev
  /\ UNCHANGED <<tableVars, now, cycle, current, failed, deleteVars,
                 processVars, published>>

\* The query failed: notify() returns the error, and the goroutine ends.
NotifySelectFails ==
  /\ "db" \in Faults
  /\ nPc = "selecting"
  /\ NotifyReturns("done")
  /\ UNCHANGED <<tableVars, now, deleteVars, processVars, published>>

\* One turn of the loop up to Publish.  The query has no ORDER BY, so the
\* events come in any order.
Publish(id) ==
  /\ nPc = "publishing" /\ id \in batch
  /\ conn = "open"
  /\ batch' = batch \ {id}
  /\ current' = id
  /\ nPc' = "marking"
  /\ published' = published \cup
       {[id |-> id, rev |-> seen[id], at |-> cycle, run |-> starts]}
  /\ UNCHANGED <<tableVars, now, cycle, failed, seen, deleteVars, processVars>>

\* Mutant: the "continue" after the error is missing.
PublishFailsMarks(id) ==
  /\ nPc = "publishing" /\ id \in batch
  /\ conn = "closed"
  /\ batch' = batch \ {id}
  /\ current' = id
  /\ nPc' = "marking"
  /\ failed' = TRUE
  /\ UNCHANGED <<tableVars, now, cycle, seen, deleteVars, processVars, published>>

PublishFails(id) ==
  /\ nPc = "publishing" /\ id \in batch
  /\ conn = "closed"
  /\ batch' = batch \ {id}
  /\ failed' = TRUE
  /\ UNCHANGED <<tableVars, now, nPc, cycle, current, seen, deleteVars,
                 processVars, published>>

\* UPDATE Events SET notified_at, executed.
MarkRow ==
  /\ events' = SetNotified(events, current, cycle)
  /\ marks' = IF Stored(events, current)
              THEN [marks EXCEPT ![current] = @ \cup {cycle}]
              ELSE marks
  /\ UNCHANGED rev

Mark ==
  /\ nPc = "marking"
  /\ nPc' = "publishing"
  /\ MarkRow
  /\ UNCHANGED <<now, cycle, batch, current, failed, seen, deleteVars,
                 processVars, published>>

\* SetEventsNotified returned an error.  When it is the answer that was lost,
\* the statement has been executed all the same.
MarkFails ==
  /\ "db" \in Faults
  /\ nPc = "marking"
  /\ nPc' = "publishing"
  /\ failed' = TRUE
  /\ MarkRow \/ UNCHANGED tableVars
  /\ UNCHANGED <<now, cycle, batch, current, seen, deleteVars,
                 processVars, published>>

\* Mutants: the goroutine goes on after errors; the timer is not reset.
NotifyEndGoesOn ==
  /\ nPc = "publishing" /\ batch = {}
  /\ NotifyReturns("idle")
  /\ UNCHANGED <<tableVars, now, deleteVars, processVars, published>>

NotifyEndNoReset ==
  /\ nPc = "publishing" /\ batch = {}
  /\ NotifyReturns("done")
  /\ UNCHANGED <<tableVars, now, deleteVars, processVars, published>>

\* notify() returns: nil, and the timer is reset, or the collected errors,
\* and the goroutine ends.
NotifyEnd ==
  /\ nPc = "publishing" /\ batch = {}
  /\ NotifyReturns(IF failed THEN "done" ELSE "idle")
  /\ UNCHANGED <<tableVars, now, deleteVars, processVars, published>>

Notify ==
  \/ NotifyStart \/ NotifySelect \/ NotifySelectFails
  \/ \E id \in Ids : Publish(id) \/ PublishFails(id)
  \/ Mark \/ MarkFails \/ NotifyEnd \/ NotifyQuits
-----------------------------------------------------------------------------
(***************************************************************************)
(* The deletion goroutine.                                                 *)
(***************************************************************************)
DeleteQuits ==
  /\ dPc = "idle" /\ ctx = "done"
  /\ DeleteReturns("done")
  /\ UNCHANGED <<tableVars, now, notifyVars, processVars, published>>

DeleteStart ==
  /\ dPc = "idle"
  /\ dPc' = "deleting"
  /\ cutoff' = now - Expiration
  /\ UNCHANGED <<tableVars, now, notifyVars, processVars, published>>

\* Mutant: the timer is not reset.
DeleteExecNoReset ==
  /\ dPc = "deleting"
  /\ events' = DeleteEndedBefore(events, cutoff)
  /\ DeleteReturns("done")
  /\ UNCHANGED <<rev, marks, now, notifyVars, processVars, published>>

DeleteExec ==
  /\ dPc = "deleting"
  /\ events' = DeleteEndedBefore(events, cutoff)
  /\ DeleteReturns("idle")
  /\ UNCHANGED <<rev, marks, now, notifyVars, processVars, published>>

\* The statement failed, or its answer was lost: the goroutine ends.
DeleteExecFails ==
  /\ "db" \in Faults
  /\ dPc = "deleting"
  /\ \/ events' = events
     \/ events' = DeleteEndedBefore(events, cutoff)
  /\ DeleteReturns("done")
  /\ UNCHANGED <<rev, marks, now, notifyVars, processVars, published>>

Delete == DeleteStart \/ DeleteExec \/ DeleteExecFails \/ DeleteQuits
-----------------------------------------------------------------------------
(***************************************************************************)
(* The environment: the clock, and what the statements of the API do to    *)
(* the table.                                                              *)
(***************************************************************************)
Tick ==
  /\ now < MaxTime
  /\ now' = now + 1
  /\ UNCHANGED <<tableVars, notifyVars, deleteVars, processVars, published>>

ClientCreate(id, u, d) ==
  /\ rev[id] = 0 /\ MaxRev > 0
  /\ events' = AddEvent(events, id, NewRow(u, d))
  /\ rev' = [rev EXCEPT ![id] = 1]
  /\ UNCHANGED <<marks, now, notifyVars, deleteVars, processVars, published>>

\* The gRPC update writes the zero NotifiedAt; the HTTP update writes back the
\* NotifiedAt it read, which may be older than the one in the table.
WritableMarks(id) == {ZeroTime} \cup marks[id]

ClientUpdate(id, d, n) ==
  /\ Stored(events, id) /\ rev[id] < MaxRev
  /\ n \in WritableMarks(id)
  /\ d # events[id].draft \/ n # events[id].notified
  /\ events' = UpdateEvent(events, id,
                           [user |-> events[id].user, draft |-> d, notified |-> n])
  /\ rev' = [rev EXCEPT ![id] = @ + 1]
  /\ UNCHANGED <<marks, now, notifyVars, deleteVars, processVars, published>>

ClientDelete(id) ==
  /\ Stored(events, id)
  /\ events' = DeleteEvent(events, id)
  /\ UNCHANGED <<rev, marks, now, notifyVars, deleteVars, processVars, published>>

Client ==
  \E id \in Ids :
    \/ \E u \in Users, d \in Drafts : ClientCreate(id, u, d)
    \/ \E d \in Drafts : \E n \in WritableMarks(id) : ClientUpdate(id, d, n)
    \/ ClientDelete(id)

Process == Start \/ Signal \/ Stop \/ ConnLost \/ Crash

Next == Process \/ Notify \/ Delete \/ Tick \/ Client

Spec == Init /\ [][Next]_vars

(***************************************************************************)
(* The Go runtime runs both goroutines and fires their timers, statements  *)
(* and calls return, and somebody starts the process that has ended.  The  *)
(* Quits are strongly fair: select takes a random ready branch, and the    *)
(* timer is not ready again for a work cycle.  Nothing is assumed of the   *)
(* clients, the clock, the failures or the signals.                        *)
(***************************************************************************)
Fairness ==
  /\ WF_vars(Start) /\ WF_vars(Stop)
  /\ WF_vars(Notify) /\ SF_vars(NotifyQuits)
  /\ WF_vars(Delete) /\ SF_vars(DeleteQuits)

FairSpec == Spec /\ Fairness
-----------------------------------------------------------------------------
TypeOK ==
  /\ events \in Table
  /\ rev \in [Ids -> Nat] /\ marks \in [Ids -> SUBSET Nat]
  /\ now \in Nat
  /\ nPc \in NPcs /\ cycle \in Nat /\ batch \subseteq Ids /\ current \in Ids
  /\ failed \in BOOLEAN /\ seen \in [Ids -> Nat]
  /\ dPc \in DPcs /\ cutoff \in Int
  /\ ctx \in {"live", "done"} /\ conn \in {"open", "closed"} /\ starts \in Nat
  /\ published \subseteq Publication

Revision(id, r) == Stored(events, id) /\ rev[id] = r

\* Revision r of event id was published since the process was started.
PublishedInRun(id, r) ==
  \E p \in published : p.run = starts /\ p.id = id /\ p.rev = r

\* One start of the scheduler never publishes the same revision of an event
\* twice, whatever fails: what the loop of notify() is about to publish was not
\* published since the start.  It is the end of the goroutine on the first error
\* that keeps this true when a mark fails, and the strict comparisons of
\* NotificationNeededEvents when it succeeds.
OncePerRun ==
  nPc = "publishing" => \A id \in batch : ~PublishedInRun(id, seen[id])

\* Every notified_at in the table is the instant of a cycle that published that
\* very event: no failure, restart, stale write-back of a client or write to
\* another row leaves an event marked that nobody was told about.
MarksAreEvidenced ==
  \A id \in Ids :
    (Stored(events, id) /\ events[id].notified # ZeroTime) =>
      \E p \in published : p.id = id /\ p.at = events[id].notified

(***************************************************************************)
(* The inductive invariant behind the two.  The loop of notify() still     *)
(* holds the selected events that it has not reached, and the one between  *)
(* its publication and its mark.                                           *)
(***************************************************************************)
InLoop == nPc \in {"publishing", "marking"}
Marking(id) == nPc = "marking" /\ id = current
Held(id) == InLoop /\ (id \in batch \/ Marking(id))

LocalsInv ==
  /\ ~InLoop => batch = {} /\ ~failed
  /\ nPc = "marking" => current \notin batch

HistoryInv ==
  /\ \A id \in Ids : seen[id] <= rev[id]
  /\ \A p \in published : p.run <= starts /\ p.rev <= rev[p.id]

\* A mark with the instant of the cycle is late enough for the revision that
\* was selected, and no later revision has been published.
HeldInv ==
  \A id \in Ids : Held(id) =>
    /\ (Stored(events, id) /\ rev[id] = seen[id]) => NotifyAt(events[id]) < cycle
    /\ \A p \in published : p.id = id => p.rev <= seen[id]

\* As long as nothing has failed, what this start has published is marked.
SettledInv ==
  (nPc # "done" /\ ~failed) =>
    \A p \in published :
      (p.run = starts /\ Revision(p.id, p.rev) /\ ~Marking(p.id)) =>
        events[p.id].notified >= NotifyAt(events[p.id])

UnpublishedInv ==
  InLoop => \A id \in batch : ~PublishedInRun(id, seen[id])

EvidenceInv ==
  /\ \A id \in Ids : \A t \in marks[id] : \E p \in published : p.id = id /\ p.at = t
  /\ \A id \in Ids : Stored(events, id) => events[id].notified \in WritableMarks(id)
  /\ nPc = "marking" => \E p \in published : p.id = current /\ p.at = cycle

\* A filter grows old while its statement waits, and never reaches too far.
CutoffInv == dPc = "deleting" => cutoff + Expiration <= now

IInv ==
  /\ TypeOK
  /\ LocalsInv
  /\ HistoryInv
  /\ HeldInv
  /\ SettledInv
  /\ UnpublishedInv
  /\ EvidenceInv
-----------------------------------------------------------------------------
\* An event that was deleted, by its owner or as expired, stays deleted: the
\* mark of a batch that was selected before the deletion does not bring it back.
DeletedStaysDeleted ==
  [][\A id \in Ids : (rev[id] > 0 /\ ~Stored(events, id)) => ~Stored(events', id)]_vars

\* The deletion goroutine removes nothing that ended within the expiration
\* period, even when its statement runs long after it computed the filter, or
\* an owner has moved the event in between.
ScheduledDeleteOnlyExpired ==
  [][dPc = "deleting" /\ dPc' # "deleting" =>
       \A id \in Ids : (Stored(events, id) /\ ~Stored(events', id)) =>
          events[id].draft.end + Expiration < now]_vars

\* The notification goroutine has ended with an error, and the process goes on with its
\* deletions.
NotifierDead == Running /\ nPc = "done" /\ ctx = "live"

\* Every event that is due is published, unless its owner changes or deletes it
\* first, or it expires; or the notification goroutine is dead for good, because
\* nobody starts the process again.
DueEventuallyPublished ==
  \A id \in Ids : \A r \in 1..MaxRev :
    (Revision(id, r) /\ Due(events[id], now)) ~>
      \/ ~Revision(id, r)
      \/ \E p \in published : p.id = id /\ p.rev = r
      \/ []NotifierDead

\* Every event that is due stops being due: its notification is dealt with.
DueEventuallySettled ==
  \A id \in Ids :
    (Stored(events, id) /\ Due(events[id], now)) ~>
      (Stored(events, id) => ~Due(events[id], now))

\* An event that ended longer than the expiration period ago disappears (or its
\* owner moves it), even when the notification goroutine has died.
ExpiredEventuallyDeleted ==
  \A id \in Ids : \A r \in 1..MaxRev :
    (Revision(id, r) /\ events[id].draft.end + Expiration < now) ~> ~Revision(id, r)
=============================================================================
