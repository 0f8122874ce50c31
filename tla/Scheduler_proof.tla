--------------------------- MODULE Scheduler_proof ---------------------------
(***************************************************************************)
(* What the scheduler guarantees for every set of ids, users and drafts,   *)
(* every expiration, every set of failures and every bound: IInv is an     *)
(* inductive invariant, and the safety properties follow from it.          *)
(***************************************************************************)
EXTENDS Scheduler, EventStore_proof

USE ExpirationAssumption, BoundsAssumption

\* The scheduler starts in its invariant.
LEMMA InitInv == Init => IInv
<1> SUFFICES ASSUME Init PROVE IInv
  OBVIOUS
<1>1. TypeOK
  <2>1. events \in Table
    BY EmptyTableType DEF Init
  <2>2. rev \in [Ids -> Nat] /\ seen \in [Ids -> Nat]
    BY DEF Init, NoRevs
  <2>3. marks \in [Ids -> SUBSET Nat]
    BY DEF Init
  <2>4. /\ nPc \in NPcs /\ dPc \in DPcs /\ failed \in BOOLEAN
        /\ ctx \in {"live", "done"} /\ conn \in {"open", "closed"}
    BY DEF Init, NPcs, DPcs
  <2>5. /\ now \in Nat /\ cycle \in Nat /\ cutoff \in Int /\ starts \in Nat
        /\ batch \subseteq Ids /\ current \in Ids /\ published \subseteq Publication
    BY DEF Init
  <2> QED BY <2>1, <2>2, <2>3, <2>4, <2>5 DEF TypeOK
<1>2. \A id \in Ids : ~Stored(events, id)
  BY DEF Init, EmptyTable, Stored
<1> QED
  BY <1>1, <1>2 DEF Init, IInv, LocalsInv, HistoryInv, HeldInv, SettledInv,
     UnpublishedInv, EvidenceInv, InLoop, Held, Marking, NoRevs

(***************************************************************************)
(* Steps that leave alone the table, the publications and the notification *)
(* goroutine.                                                              *)
(***************************************************************************)
LEMMA AsideStep ==
  ASSUME IInv, TypeOK', UNCHANGED <<tableVars, notifyVars, starts, published>>
  PROVE  IInv'
BY DEF IInv, LocalsInv, HistoryInv, HeldInv, SettledInv, UnpublishedInv,
   EvidenceInv, InLoop, Held, Marking, Revision, PublishedInRun, WritableMarks,
   tableVars, notifyVars

(***************************************************************************)
(* Steps in which rows disappear and nothing else happens.                 *)
(***************************************************************************)
LEMMA RemovalStep ==
  ASSUME IInv, TypeOK',
         UNCHANGED <<rev, marks, notifyVars, starts, published>>,
         \A id \in Ids : Stored(events', id) =>
            Stored(events, id) /\ events'[id] = events[id]
  PROVE  IInv'
<1> USE DEF notifyVars
<1>1. LocalsInv' /\ HistoryInv' /\ UnpublishedInv'
  BY DEF IInv, LocalsInv, HistoryInv, UnpublishedInv, InLoop, PublishedInRun
<1>2. HeldInv'
  BY DEF IInv, HeldInv, Held, Marking, InLoop
<1>3. SettledInv'
  <2> SUFFICES ASSUME (nPc # "done" /\ ~failed)', NEW p \in published,
                      p.run = starts, Revision(p.id, p.rev)', ~Marking(p.id)
               PROVE  events'[p.id].notified >= NotifyAt(events'[p.id])
    BY DEF SettledInv, Marking
  <2>1. p.id \in Ids
    BY DEF IInv, TypeOK, Publication
  <2>2. Revision(p.id, p.rev) /\ events'[p.id] = events[p.id]
    BY <2>1 DEF Revision
  <2> QED BY <2>2 DEF IInv, SettledInv
<1>4. EvidenceInv'
  BY DEF IInv, EvidenceInv, WritableMarks
<1> QED BY <1>1, <1>2, <1>3, <1>4 DEF IInv

(***************************************************************************)
(* A client writes a revision that is newer than all those selected and    *)
(* published.                                                              *)
(***************************************************************************)
LEMMA RevisionStep ==
  ASSUME IInv, TypeOK', NEW id \in Ids,
         UNCHANGED <<marks, notifyVars, starts, published>>,
         rev' = [rev EXCEPT ![id] = @ + 1],
         \A k \in Ids \ {id} : events'[k] = events[k],
         Stored(events', id) => events'[id].notified \in WritableMarks(id)
  PROVE  IInv'
<1> USE DEF notifyVars
<1>1. rev \in [Ids -> Nat] /\ seen \in [Ids -> Nat] /\ published \subseteq Publication
  BY DEF IInv, TypeOK
<1>2. rev'[id] = rev[id] + 1 /\ \A k \in Ids \ {id} : rev'[k] = rev[k]
  BY <1>1
<1>3. \A p \in published : p.id \in Ids /\ p.rev \in Nat
  BY <1>1 DEF Publication
<1>4. LocalsInv' /\ UnpublishedInv'
  BY DEF IInv, LocalsInv, UnpublishedInv, InLoop, PublishedInRun
<1>5. HistoryInv'
  <2>1. \A k \in Ids : rev[k] <= rev'[k]
    BY <1>1, <1>2
  <2> QED BY <1>1, <1>3, <2>1 DEF IInv, HistoryInv
<1>6. HeldInv'
  <2> SUFFICES ASSUME NEW k \in Ids, Held(k)'
               PROVE  /\ (Stored(events, k) /\ rev[k] = seen[k])' => (NotifyAt(events[k]) < cycle)'
                      /\ \A p \in published : p.id = k => p.rev <= seen[k]
    BY DEF HeldInv
  <2>1. Held(k)
    BY DEF Held, InLoop, Marking
  <2>2. CASE k = id
    BY <1>1, <1>2, <2>1, <2>2 DEF IInv, HistoryInv, HeldInv
  <2>3. CASE k # id
    BY <1>2, <2>1, <2>3 DEF IInv, HeldInv, Stored
  <2> QED BY <2>2, <2>3
<1>7. SettledInv'
  <2> SUFFICES ASSUME (nPc # "done" /\ ~failed)', NEW p \in published,
                      p.run = starts, Revision(p.id, p.rev)', ~Marking(p.id)
               PROVE  events'[p.id].notified >= NotifyAt(events'[p.id])
    BY DEF SettledInv, Marking
  <2>1. CASE p.id = id
    BY <1>1, <1>2, <1>3, <2>1 DEF IInv, HistoryInv, Revision
  <2>2. CASE p.id # id
    BY <1>2, <1>3, <2>2 DEF IInv, SettledInv, Revision, Stored
  <2> QED BY <2>1, <2>2
<1>8. EvidenceInv'
  BY DEF IInv, EvidenceInv, WritableMarks, Stored
<1> QED BY <1>4, <1>5, <1>6, <1>7, <1>8 DEF IInv

(***************************************************************************)
(* The notification goroutine returns from notify(): everything selected   *)
(* is dealt with, or the goroutine ends.                                   *)
(***************************************************************************)
LEMMA ReturnStep ==
  ASSUME IInv, TypeOK', NEW pc \in {"idle", "done"},
         UNCHANGED <<tableVars, published, starts>>,
         NotifyReturns(pc),
         pc = "idle" => ~failed /\ nPc \notin {"marking", "done"}
  PROVE  IInv'
<1> USE DEF tableVars, NotifyReturns
<1>1. LocalsInv' /\ UnpublishedInv' /\ HeldInv'
  BY DEF LocalsInv, UnpublishedInv, HeldInv, Held, Marking, InLoop
<1>2. HistoryInv'
  BY DEF IInv, TypeOK, HistoryInv, NoRevs
<1>3. SettledInv'
  BY DEF IInv, SettledInv, Marking, Revision
<1>4. EvidenceInv'
  BY DEF IInv, EvidenceInv, WritableMarks
<1> QED BY <1>1, <1>2, <1>3, <1>4 DEF IInv

(***************************************************************************)
(* The types.                                                              *)
(***************************************************************************)
LEMMA WritableMarksType ==
  ASSUME TypeOK, NEW id \in Ids, NEW n \in WritableMarks(id)
  PROVE  n \in Int
BY DEF TypeOK, WritableMarks, ZeroTime

\* A step of a client keeps the table and the revisions well typed.
LEMMA ClientType ==
  ASSUME TypeOK, Client
  PROVE  events' \in Table /\ rev' \in [Ids -> Nat]
<1>1. PICK id \in Ids :
        \/ \E u \in Users, d \in Drafts : ClientCreate(id, u, d)
        \/ \E d \in Drafts : \E n \in WritableMarks(id) : ClientUpdate(id, d, n)
        \/ ClientDelete(id)
  BY DEF Client
<1>2. ASSUME NEW u \in Users, NEW d \in Drafts, ClientCreate(id, u, d)
      PROVE  events' \in Table /\ rev' \in [Ids -> Nat]
  BY <1>2, NewRowType, AddEventEffect DEF TypeOK, ClientCreate
<1>3. ASSUME NEW d \in Drafts, NEW n \in WritableMarks(id), ClientUpdate(id, d, n)
      PROVE  events' \in Table /\ rev' \in [Ids -> Nat]
  <2>1. [user |-> events[id].user, draft |-> d, notified |-> n] \in Row
    BY <1>3, WritableMarksType, StoredRow DEF TypeOK, ClientUpdate, Row
  <2>2. events' \in Table
    BY <1>3, <2>1, UpdateEventEffect DEF TypeOK, ClientUpdate
  <2>3. rev' \in [Ids -> Nat]
    BY <1>3 DEF TypeOK, ClientUpdate
  <2> QED BY <2>2, <2>3
<1>4. ASSUME ClientDelete(id)
      PROVE  events' \in Table /\ rev' \in [Ids -> Nat]
  BY <1>4, DeleteEventEffect DEF TypeOK, ClientDelete
<1> QED BY <1>1, <1>2, <1>3, <1>4

\* The update that sets NotifiedAt keeps the table and its history well typed.
LEMMA MarkRowType ==
  ASSUME TypeOK, MarkRow
  PROVE  /\ events' \in Table
         /\ rev' \in [Ids -> Nat]
         /\ marks' \in [Ids -> SUBSET Nat]
<1>1. cycle \in Int /\ cycle \in Nat
  BY DEF TypeOK
<1>2. events' \in Table
  BY <1>1, SetNotifiedEffect DEF TypeOK, MarkRow
<1>3. marks' \in [Ids -> SUBSET Nat]
  BY <1>1 DEF TypeOK, MarkRow
<1> QED BY <1>2, <1>3 DEF TypeOK, MarkRow

\* The types survive every step.
LEMMA TypeStep == TypeOK /\ [Next]_vars => TypeOK'
<1> SUFFICES ASSUME TypeOK, [Next]_vars PROVE TypeOK'
  OBVIOUS
<1> USE DEF tableVars, notifyVars, deleteVars, processVars
<1> USE DEF NPcs, DPcs, NotifyReturns, DeleteReturns
<1>1. CASE UNCHANGED vars
  BY <1>1 DEF TypeOK, vars
<1>2. CASE Process
  <2>1. CASE Start
    BY <2>1 DEF TypeOK, Start
  <2>2. CASE Signal
    BY <2>2 DEF TypeOK, Signal
  <2>3. CASE Stop
    BY <2>3 DEF TypeOK, Stop
  <2>4. CASE ConnLost
    BY <2>4 DEF TypeOK, ConnLost
  <2>5. CASE Crash
    <3>1. failed' \in BOOLEAN /\ seen' \in [Ids -> Nat]
      BY <2>5 DEF Crash, NoRevs
    <3>2. nPc' \in NPcs /\ dPc' \in DPcs /\ conn' \in {"open", "closed"}
      BY <2>5 DEF Crash
    <3> QED BY <2>5, <3>1, <3>2 DEF TypeOK, Crash
  <2> QED BY <1>2, <2>1, <2>2, <2>3, <2>4, <2>5 DEF Process
<1>3. CASE Notify
  <2>1. CASE NotifyStart
    BY <2>1 DEF TypeOK, NotifyStart
  <2>2. CASE NotifySelect
    BY <2>2 DEF TypeOK, NotifySelect, NotificationNeeded
  <2>3. CASE NotifySelectFails
    BY <2>3 DEF TypeOK, NotifySelectFails, NoRevs
  <2>4. ASSUME NEW id \in Ids, Publish(id)
        PROVE  TypeOK'
    <3>1. [id |-> id, rev |-> seen[id], at |-> cycle, run |-> starts] \in Publication
      BY DEF TypeOK, Publication
    <3> QED BY <2>4, <3>1 DEF TypeOK, Publish
  <2>5. ASSUME NEW id \in Ids, PublishFails(id)
        PROVE  TypeOK'
    BY <2>5 DEF TypeOK, PublishFails
  <2>6. CASE Mark
    <3>1. MarkRow
      BY <2>6 DEF Mark
    <3> QED BY <2>6, <3>1, MarkRowType DEF TypeOK, Mark
  <2>7. CASE MarkFails
    <3>1. /\ nPc' = "publishing" /\ failed' = TRUE
          /\ UNCHANGED <<now, cycle, batch, current, seen, deleteVars,
                         processVars, published>>
      BY <2>7 DEF MarkFails
    <3>2. CASE MarkRow
      BY <3>1, <3>2, MarkRowType DEF TypeOK
    <3>3. CASE UNCHANGED tableVars
      BY <3>1, <3>3 DEF TypeOK
    <3> QED BY <2>7, <3>2, <3>3 DEF MarkFails
  <2>8. CASE NotifyEnd
    BY <2>8 DEF TypeOK, NotifyEnd, NoRevs
  <2>9. CASE NotifyQuits
    BY <2>9 DEF TypeOK, NotifyQuits, NoRevs
  <2> QED BY <1>3, <2>1, <2>2, <2>3, <2>4, <2>5, <2>6, <2>7, <2>8, <2>9 DEF Notify
<1>4. CASE Delete
  <2>1. CASE DeleteStart
    BY <2>1 DEF TypeOK, DeleteStart
  <2>2. CASE DeleteExec \/ DeleteExecFails
    <3>1. events' \in Table
      <4>1. DeleteEndedBefore(events, cutoff) \in Table
        BY DeleteEndedEffect DEF TypeOK
      <4> QED BY <2>2, <4>1 DEF TypeOK, DeleteExec, DeleteExecFails
    <3>2. dPc' \in DPcs /\ cutoff' \in Int
      BY <2>2 DEF DeleteExec, DeleteExecFails
    <3>3. UNCHANGED <<rev, marks, now, nPc, cycle, batch, current, failed, seen,
                      ctx, conn, starts, published>>
      BY <2>2 DEF DeleteExec, DeleteExecFails
    <3> HIDE DEF NotifyReturns, DeleteReturns, NPcs, DPcs
    <3> QED BY <3>1, <3>2, <3>3 DEF TypeOK
  <2>3. CASE DeleteQuits
    BY <2>3 DEF TypeOK, DeleteQuits
  <2> QED BY <1>4, <2>1, <2>2, <2>3 DEF Delete
<1>5. CASE Tick
  BY <1>5 DEF TypeOK, Tick
<1>6. CASE Client
  <2>1. UNCHANGED <<marks, now, notifyVars, deleteVars, processVars, published>>
    BY <1>6 DEF Client, ClientCreate, ClientUpdate, ClientDelete
  <2> QED BY <1>6, <2>1, ClientType DEF TypeOK
<1> QED BY <1>1, <1>2, <1>3, <1>4, <1>5, <1>6 DEF Next

\* Every reachable state of the scheduler and its environment is well typed.
THEOREM TypeCorrect == Spec => []TypeOK
<1>1. Init => TypeOK
  BY InitInv DEF IInv
<1> QED BY <1>1, TypeStep, PTL DEF Spec

(***************************************************************************)
(* The steps of the notification goroutine.                                *)
(***************************************************************************)
LEMMA StartStep == ASSUME IInv, TypeOK', Start PROVE IInv'
<1> USE DEF Start, tableVars, Running
<1>1. LocalsInv' /\ HeldInv' /\ UnpublishedInv'
  BY DEF IInv, LocalsInv, HeldInv, UnpublishedInv, Held, Marking, InLoop
<1>2. \A p \in published : p.run \in Nat /\ p.run <= starts /\ starts \in Nat
  BY DEF IInv, HistoryInv, TypeOK, Publication
<1>3. HistoryInv'
  BY <1>2 DEF IInv, HistoryInv
<1>4. SettledInv'
  BY <1>2 DEF SettledInv
<1>5. EvidenceInv'
  BY DEF IInv, EvidenceInv, WritableMarks
<1> QED BY <1>1, <1>3, <1>4, <1>5 DEF IInv

\* A tick that starts Notify keeps the invariant.
LEMMA NotifyStartStep == ASSUME IInv, TypeOK', NotifyStart PROVE IInv'
<1> USE DEF NotifyStart, tableVars, processVars
<1>1. LocalsInv' /\ HeldInv' /\ UnpublishedInv'
  BY DEF IInv, LocalsInv, HeldInv, UnpublishedInv, Held, Marking, InLoop
<1>2. HistoryInv' /\ EvidenceInv'
  BY DEF IInv, HistoryInv, EvidenceInv, WritableMarks
<1>3. SettledInv'
  BY DEF IInv, SettledInv, Marking, Revision
<1> QED BY <1>1, <1>2, <1>3 DEF IInv

\* A row that is due is not settled, so this start has not published it.
LEMMA NotifySelectStep == ASSUME IInv, TypeOK', NotifySelect PROVE IInv'
<1> USE DEF NotifySelect, tableVars, processVars
<1>1. /\ events \in Table /\ cycle \in Nat /\ rev \in [Ids -> Nat]
      /\ published \subseteq Publication
  BY DEF IInv, TypeOK
<1>2. LocalsInv'
  BY DEF IInv, LocalsInv, InLoop
<1>3. HistoryInv'
  BY <1>1 DEF IInv, HistoryInv
<1>4. HeldInv'
  <2> SUFFICES ASSUME NEW id \in Ids, Held(id)'
               PROVE  /\ NotifyAt(events[id]) < cycle
                      /\ \A p \in published : p.id = id => p.rev <= rev[id]
    BY DEF HeldInv
  <2>1. id \in NotificationNeeded(events, cycle)
    BY DEF Held, Marking
  <2> QED BY <1>1, <2>1, NotificationNeededSpec DEF IInv, HistoryInv
<1>5. SettledInv'
  BY DEF IInv, LocalsInv, InLoop, SettledInv, Marking, Revision
<1>6. UnpublishedInv'
  <2> SUFFICES ASSUME NEW id \in NotificationNeeded(events, cycle),
                      NEW p \in published, p.run = starts, p.id = id, p.rev = rev[id]
               PROVE  FALSE
    BY DEF UnpublishedInv, PublishedInRun
  <2>1. /\ id \in Ids /\ Stored(events, id)
        /\ events[id].notified < NotifyAt(events[id])
    BY <1>1, NotificationNeededSpec
  <2>2. events[id].notified \in Int /\ NotifyAt(events[id]) \in Nat
    BY <1>1, <2>1, StoredRow, NotifyAtType
  <2>3. events[id].notified >= NotifyAt(events[id])
    BY <2>1 DEF IInv, LocalsInv, InLoop, SettledInv, Revision, Marking
  <2> QED BY <2>1, <2>2, <2>3
<1>7. EvidenceInv'
  BY DEF IInv, EvidenceInv, WritableMarks
<1> QED BY <1>2, <1>3, <1>4, <1>5, <1>6, <1>7 DEF IInv

\* A publication keeps the invariant: the row was not published in this run.
LEMMA PublishStep == ASSUME IInv, TypeOK', NEW id \in Ids, Publish(id) PROVE IInv'
<1> DEFINE new == [id |-> id, rev |-> seen[id], at |-> cycle, run |-> starts]
<1> USE DEF tableVars, processVars
<1>1. /\ nPc = "publishing" /\ nPc' = "marking" /\ id \in batch /\ current' = id
      /\ batch' = batch \ {id} /\ published' = published \cup {new}
      /\ UNCHANGED <<tableVars, cycle, failed, seen, starts>>
  BY DEF Publish
<1>2. new.id = id /\ new.rev = seen[id] /\ new.at = cycle /\ new.run = starts
  OBVIOUS
<1> HIDE DEF new
<1>3. /\ seen \in [Ids -> Nat] /\ rev \in [Ids -> Nat] /\ starts \in Nat
      /\ batch \subseteq Ids
  BY DEF IInv, TypeOK
<1>4. LocalsInv'
  BY <1>1 DEF LocalsInv, InLoop
<1>5. HistoryInv'
  BY <1>1, <1>2, <1>3 DEF IInv, HistoryInv
<1>6. HeldInv'
  <2> SUFFICES ASSUME NEW k \in Ids, Held(k)'
               PROVE  /\ (Stored(events, k) /\ rev[k] = seen[k]) => NotifyAt(events[k]) < cycle
                      /\ \A p \in published' : p.id = k => p.rev <= seen[k]
    BY <1>1 DEF HeldInv
  <2>1. Held(k)
    BY <1>1 DEF Held, InLoop, Marking
  <2> QED BY <1>1, <1>2, <1>3, <2>1 DEF IInv, HeldInv
<1>7. SettledInv'
  BY <1>1, <1>2 DEF IInv, SettledInv, Marking, Revision
<1>8. UnpublishedInv'
  BY <1>1, <1>2, <1>3 DEF IInv, UnpublishedInv, InLoop, PublishedInRun
<1>9. EvidenceInv'
  BY <1>1, <1>2 DEF IInv, EvidenceInv, WritableMarks
<1> QED BY <1>4, <1>5, <1>6, <1>7, <1>8, <1>9 DEF IInv

\* A publication that fails keeps the invariant.
LEMMA PublishFailsStep ==
  ASSUME IInv, TypeOK', NEW id \in Ids, PublishFails(id) PROVE IInv'
<1> USE DEF tableVars, processVars, PublishFails
<1>1. LocalsInv' /\ HistoryInv' /\ SettledInv'
  BY DEF IInv, LocalsInv, HistoryInv, SettledInv, InLoop
<1>2. HeldInv'
  BY DEF IInv, HeldInv, Held, InLoop, Marking
<1>3. UnpublishedInv' /\ EvidenceInv'
  BY DEF IInv, UnpublishedInv, EvidenceInv, InLoop, PublishedInRun, WritableMarks
<1> QED BY <1>1, <1>2, <1>3 DEF IInv

\* The mark of the row that was published: if the row is still the revision
\* that was selected, the instant of the cycle settles it; a later revision has
\* not been published.
LEMMA MarkRowStep ==
  ASSUME IInv, TypeOK', nPc = "marking", nPc' = "publishing", MarkRow,
         failed' \in BOOLEAN, failed => failed',
         UNCHANGED <<cycle, batch, current, seen, starts, published>>
  PROVE  IInv'
<1>1. /\ events \in Table /\ cycle \in Nat /\ cycle \in Int /\ current \in Ids
      /\ rev \in [Ids -> Nat] /\ seen \in [Ids -> Nat]
      /\ marks \in [Ids -> SUBSET Nat] /\ published \subseteq Publication
  BY DEF IInv, TypeOK
<1>2. \A p \in published : p.id \in Ids /\ p.rev \in Nat
  BY <1>1 DEF Publication
<1>3. events' = SetNotified(events, current, cycle) /\ rev' = rev
  BY DEF MarkRow
<1>4. /\ \A k \in Ids : Stored(events', k) <=> Stored(events, k)
      /\ \A k \in Ids \ {current} : events'[k] = events[k]
      /\ Stored(events, current) =>
           /\ events'[current].notified = cycle
           /\ NotifyAt(events'[current]) = NotifyAt(events[current])
  <2> DEFINE after == SetNotified(events, current, cycle)
  <2>1. /\ after \in Table
        /\ \A k \in Ids : Stored(after, k) <=> Stored(events, k)
        /\ \A k \in Ids \ {current} : after[k] = events[k]
        /\ Stored(events, current) =>
             /\ after[current].notified = cycle
             /\ after[current].draft = events[current].draft
             /\ NotifyAt(after[current]) = NotifyAt(events[current])
    BY ONLY <1>1, SetNotifiedEffect, Zenon
  <2> HIDE DEF after
  <2>2. events' = after
    BY <1>3 DEF after
  <2> QED BY <2>1, <2>2
<1>5. LocalsInv' /\ HistoryInv' /\ UnpublishedInv'
  BY <1>3 DEF IInv, LocalsInv, HistoryInv, UnpublishedInv, InLoop, PublishedInRun
<1>6. HeldInv'
  <2> SUFFICES ASSUME NEW k \in Ids, Held(k)'
               PROVE  /\ (Stored(events', k) /\ rev[k] = seen[k]) => NotifyAt(events'[k]) < cycle
                      /\ \A p \in published : p.id = k => p.rev <= seen[k]
    BY <1>3 DEF HeldInv
  <2>1. Held(k)
    BY DEF Held, InLoop, Marking
  <2>2. k # current
    BY DEF Held, Marking, IInv, LocalsInv
  <2> QED BY <1>4, <2>1, <2>2 DEF IInv, HeldInv
<1>7. SettledInv'
  <2> SUFFICES ASSUME ~failed, NEW p \in published,
                      p.run = starts, Revision(p.id, p.rev)'
               PROVE  events'[p.id].notified >= NotifyAt(events'[p.id])
    BY DEF SettledInv, Marking
  <2>1. Revision(p.id, p.rev)
    BY <1>2, <1>3, <1>4 DEF Revision
  <2>2. CASE p.id = current
    <3>1. Held(current)
      BY DEF Held, InLoop, Marking
    <3>2. p.rev <= seen[current] /\ seen[current] <= rev[current] /\ rev[current] = p.rev
      BY <1>1, <2>1, <2>2, <3>1 DEF IInv, HeldInv, HistoryInv, Revision
    <3>3. rev[current] = seen[current]
      BY <1>1, <1>2, <3>2
    <3>4. NotifyAt(events[current]) < cycle /\ Stored(events, current)
      BY <1>1, <2>1, <2>2, <3>1, <3>3 DEF IInv, HeldInv, Revision
    <3>5. NotifyAt(events[current]) \in Nat
      BY <1>1, <3>4, StoredRow, NotifyAtType
    <3> QED BY <1>1, <1>4, <2>2, <3>4, <3>5
  <2>3. CASE p.id # current
    BY <1>2, <1>4, <2>1, <2>3 DEF IInv, SettledInv, Marking
  <2> QED BY <2>2, <2>3
<1>8. EvidenceInv'
  <2>1. \A k \in Ids : \A t \in marks'[k] : t \in marks[k] \/ (k = current /\ t = cycle)
    BY <1>1 DEF MarkRow
  <2>2. \A k \in Ids : \A t \in marks[k] : t \in marks'[k]
    BY <1>1 DEF MarkRow
  <2>3. Stored(events, current) => cycle \in marks'[current]
    BY <1>1 DEF MarkRow
  <2>4. ASSUME NEW k \in Ids, Stored(events', k)
        PROVE  events'[k].notified \in WritableMarks(k)'
    <3>1. CASE k = current
      BY <1>4, <2>3, <2>4, <3>1 DEF WritableMarks
    <3>2. CASE k # current
      BY <1>4, <2>2, <2>4, <3>2 DEF IInv, EvidenceInv, WritableMarks
    <3> QED BY <3>1, <3>2
  <2>5. ASSUME NEW k \in Ids, NEW t \in marks'[k]
        PROVE  \E p \in published : p.id = k /\ p.at = t
    BY <2>1, <2>5 DEF IInv, EvidenceInv
  <2> QED BY <2>4, <2>5 DEF EvidenceInv
<1> QED BY <1>5, <1>6, <1>7, <1>8 DEF IInv

\* A mark that failed without an effect: the goroutine is going to end.
LEMMA MarkLostStep ==
  ASSUME IInv, TypeOK', nPc = "marking", nPc' = "publishing", failed',
         UNCHANGED <<tableVars, cycle, batch, current, seen, starts, published>>
  PROVE  IInv'
<1> USE DEF tableVars
<1>1. LocalsInv' /\ HistoryInv' /\ SettledInv' /\ UnpublishedInv'
  BY DEF IInv, LocalsInv, HistoryInv, SettledInv, UnpublishedInv, InLoop, PublishedInRun
<1>2. HeldInv'
  BY DEF IInv, HeldInv, Held, InLoop, Marking
<1>3. EvidenceInv'
  BY DEF IInv, EvidenceInv, WritableMarks
<1> QED BY <1>1, <1>2, <1>3 DEF IInv

\* A step of a client keeps the invariant: a new revision has been published by nobody.
LEMMA ClientStep == ASSUME IInv, TypeOK', Client PROVE IInv'
<1>1. PICK id \in Ids :
        \/ \E u \in Users, d \in Drafts : ClientCreate(id, u, d)
        \/ \E d \in Drafts : \E n \in WritableMarks(id) : ClientUpdate(id, d, n)
        \/ ClientDelete(id)
  BY DEF Client
<1>2. events \in Table /\ rev \in [Ids -> Nat]
  BY DEF IInv, TypeOK
<1> USE DEF processVars
<1>3. ASSUME NEW u \in Users, NEW d \in Drafts, ClientCreate(id, u, d)
      PROVE  IInv'
  <2>1. /\ events'[id].notified = ZeroTime
        /\ \A k \in Ids \ {id} : events'[k] = events[k]
    BY <1>2, <1>3, NewRowType, AddEventEffect DEF ClientCreate
  <2>2. rev' = [rev EXCEPT ![id] = @ + 1]
    BY <1>2, <1>3 DEF ClientCreate
  <2>3. UNCHANGED <<marks, notifyVars, starts, published>>
    BY <1>3 DEF ClientCreate
  <2> QED BY <2>1, <2>2, <2>3, RevisionStep DEF WritableMarks
<1>4. ASSUME NEW d \in Drafts, NEW n \in WritableMarks(id), ClientUpdate(id, d, n)
      PROVE  IInv'
  <2> DEFINE row == [user |-> events[id].user, draft |-> d, notified |-> n]
  <2>1. row \in Row /\ row.notified = n
    BY <1>2, <1>4, WritableMarksType, StoredRow DEF ClientUpdate, Row, IInv
  <2>2. events' = UpdateEvent(events, id, row) /\ Stored(events, id)
    BY <1>4 DEF ClientUpdate
  <2> HIDE DEF row
  <2>3. /\ events'[id].notified \in WritableMarks(id)
        /\ \A k \in Ids \ {id} : events'[k] = events[k]
    BY <1>2, <1>4, <2>1, <2>2, UpdateEventEffect
  <2>4. rev' = [rev EXCEPT ![id] = @ + 1]
    BY <1>4 DEF ClientUpdate
  <2>5. UNCHANGED <<marks, notifyVars, starts, published>>
    BY <1>4 DEF ClientUpdate
  <2> QED BY <2>3, <2>4, <2>5, RevisionStep
<1>5. ASSUME ClientDelete(id)
      PROVE  IInv'
  <2>1. \A k \in Ids : Stored(events', k) => Stored(events, k) /\ events'[k] = events[k]
    BY <1>2, <1>5, DeleteEventEffect DEF ClientDelete, Stored
  <2>2. UNCHANGED <<rev, marks, notifyVars, starts, published>>
    BY <1>5 DEF ClientDelete
  <2> QED BY <2>1, <2>2, RemovalStep
<1> QED BY <1>1, <1>3, <1>4, <1>5

\* A step of Delete keeps the invariant.
LEMMA DeleteStep == ASSUME IInv, TypeOK', Delete PROVE IInv'
<1> USE DEF tableVars, processVars
<1>1. CASE DeleteStart \/ DeleteQuits
  BY <1>1, AsideStep DEF DeleteStart, DeleteQuits
<1>2. CASE DeleteExec \/ DeleteExecFails
  <2>1. UNCHANGED <<rev, marks, notifyVars, starts, published>>
    BY <1>2 DEF DeleteExec, DeleteExecFails
  <2>2. events' = events \/ events' = DeleteEndedBefore(events, cutoff)
    BY <1>2 DEF DeleteExec, DeleteExecFails
  <2>3. events \in Table /\ cutoff \in Int
    BY DEF IInv, TypeOK
  <2>4. \A k \in Ids : Stored(events', k) => Stored(events, k) /\ events'[k] = events[k]
    BY <2>2, <2>3, DeleteEndedEffect
  <2> QED BY <2>1, <2>4, RemovalStep
<1> QED BY <1>1, <1>2 DEF Delete

\* IInv is inductive.
THEOREM NextInv == IInv /\ [Next]_vars => IInv'
<1> SUFFICES ASSUME IInv, [Next]_vars PROVE IInv'
  OBVIOUS
<1>1. TypeOK'
  BY TypeStep DEF IInv
<1> USE DEF tableVars, processVars
<1>2. CASE UNCHANGED vars
  BY <1>1, <1>2, AsideStep DEF vars
<1>3. CASE Process
  <2>1. CASE Start
    BY <1>1, <2>1, StartStep
  <2>2. CASE Signal \/ Stop \/ ConnLost
    BY <1>1, <2>2, AsideStep DEF Signal, Stop, ConnLost
  <2>3. CASE Crash
    BY <1>1, <2>3, ReturnStep DEF Crash
  <2> QED BY <1>3, <2>1, <2>2, <2>3 DEF Process
<1>4. CASE Notify
  <2>1. CASE NotifyStart
    BY <1>1, <2>1, NotifyStartStep
  <2>2. CASE NotifySelect
    BY <1>1, <2>2, NotifySelectStep
  <2>3. CASE NotifySelectFails \/ NotifyQuits
    BY <1>1, <2>3, ReturnStep DEF NotifySelectFails, NotifyQuits
  <2>4. ASSUME NEW id \in Ids, Publish(id) \/ PublishFails(id)
        PROVE  IInv'
    BY <1>1, <2>4, PublishStep, PublishFailsStep
  <2>5. CASE Mark
    BY <1>1, <2>5, MarkRowStep DEF Mark, IInv, TypeOK
  <2>6. CASE MarkFails
    <3>1. /\ nPc = "marking" /\ nPc' = "publishing" /\ failed'
          /\ UNCHANGED <<cycle, batch, current, seen, starts, published>>
      BY <2>6 DEF MarkFails
    <3>2. CASE MarkRow
      BY <1>1, <3>1, <3>2, MarkRowStep DEF TypeOK
    <3>3. CASE UNCHANGED tableVars
      BY <1>1, <3>1, <3>3, MarkLostStep
    <3> QED BY <2>6, <3>2, <3>3 DEF MarkFails
  <2>7. CASE NotifyEnd
    <3>1. CASE failed
      BY <1>1, <2>7, <3>1, ReturnStep DEF NotifyEnd
    <3>2. CASE ~failed
      BY <1>1, <2>7, <3>2, ReturnStep DEF NotifyEnd
    <3> QED BY <3>1, <3>2
  <2> QED BY <1>4, <2>1, <2>2, <2>3, <2>4, <2>5, <2>6, <2>7 DEF Notify
<1>5. CASE Delete
  BY <1>1, <1>5, DeleteStep
<1>6. CASE Tick
  BY <1>1, <1>6, AsideStep DEF Tick
<1>7. CASE Client
  BY <1>1, <1>7, ClientStep
<1> QED BY <1>2, <1>3, <1>4, <1>5, <1>6, <1>7 DEF Next

\* The inductive invariant of the scheduler, whatever fails, stops or crashes when.
THEOREM Invariance == Spec => []IInv
BY InitInv, NextInv, PTL DEF Spec

\* Whatever fails, one start of the scheduler never publishes the same revision
\* of an event twice.
THEOREM OncePerRunHolds == Spec => []OncePerRun
<1>1. IInv => OncePerRun
  BY DEF IInv, UnpublishedInv, InLoop, OncePerRun
<1> QED BY <1>1, Invariance, PTL

\* Whatever fails, no event is marked as notified at an instant at which it was
\* not published.
THEOREM MarksAreEvidencedHolds == Spec => []MarksAreEvidenced
<1>1. IInv => MarksAreEvidenced
  BY DEF IInv, EvidenceInv, WritableMarks, MarksAreEvidenced
<1> QED BY <1>1, Invariance, PTL

(***************************************************************************)
(* What a step may never do.                                               *)
(***************************************************************************)

\* No step brings back a row that was there and is gone.
LEMMA NoRevival ==
  ASSUME IInv, [Next]_vars, NEW id \in Ids, rev[id] > 0, ~Stored(events, id)
  PROVE  ~Stored(events', id)
<1>1. events \in Table /\ cycle \in Int /\ cutoff \in Int
  BY DEF IInv, TypeOK
<1> USE DEF tableVars
<1>2. CASE UNCHANGED vars \/ Process \/ Tick
  BY <1>2 DEF vars, Process, Start, Signal, Stop, ConnLost, Crash, Tick
<1>3. CASE Notify
  <2>1. events' = events \/ events' = SetNotified(events, current, cycle)
    BY <1>3 DEF Notify, NotifyStart, NotifySelect, NotifySelectFails, Publish,
       PublishFails, Mark, MarkFails, MarkRow, NotifyEnd, NotifyQuits
  <2>2. current \in Ids
    BY DEF IInv, TypeOK
  <2> QED BY <1>1, <2>1, <2>2, SetNotifiedEffect
<1>4. CASE Delete
  <2>1. events' = events \/ events' = DeleteEndedBefore(events, cutoff)
    BY <1>4 DEF Delete, DeleteStart, DeleteExec, DeleteExecFails, DeleteQuits
  <2> QED BY <1>1, <2>1, DeleteEndedEffect
<1>5. CASE Client
  <2>1. PICK k \in Ids :
          \/ \E u \in Users, d \in Drafts : ClientCreate(k, u, d)
          \/ \E d \in Drafts : \E n \in WritableMarks(k) : ClientUpdate(k, d, n)
          \/ ClientDelete(k)
    BY <1>5 DEF Client
  <2>2. ASSUME NEW u \in Users, NEW d \in Drafts, ClientCreate(k, u, d)
        PROVE  ~Stored(events', id)
    <3>1. k # id
      BY <2>2 DEF ClientCreate
    <3> QED BY <1>1, <2>2, <3>1, NewRowType, AddEventEffect DEF ClientCreate, Stored
  <2>3. ASSUME NEW d \in Drafts, NEW n \in WritableMarks(k), ClientUpdate(k, d, n)
        PROVE  ~Stored(events', id)
    <3>1. k # id
      BY <2>3 DEF ClientUpdate
    <3> QED BY <1>1, <2>3, <3>1 DEF ClientUpdate, UpdateEvent, Stored, Table
  <2>4. ASSUME ClientDelete(k)
        PROVE  ~Stored(events', id)
    BY <1>1, <2>4, DeleteEventEffect DEF ClientDelete, Stored
  <2> QED BY <2>1, <2>2, <2>3, <2>4
<1> QED BY <1>2, <1>3, <1>4, <1>5 DEF Next

\* A deleted event stays deleted, whatever batch was under way.
THEOREM DeletedStaysDeletedHolds == Spec => DeletedStaysDeleted
<1>1. IInv /\ [Next]_vars =>
        [\A id \in Ids : (rev[id] > 0 /\ ~Stored(events, id)) => ~Stored(events', id)]_vars
  BY NoRevival
<1> QED BY <1>1, Invariance, PTL DEF Spec, DeletedStaysDeleted

\* No step takes the filter of the deletion beyond the expiration period.
LEMMA CutoffStep == TypeOK /\ CutoffInv /\ [Next]_vars => CutoffInv'
<1> SUFFICES ASSUME TypeOK, CutoffInv, [Next]_vars PROVE CutoffInv'
  OBVIOUS
<1>1. Expiration \in Nat /\ now \in Nat /\ cutoff \in Int
  BY ExpirationAssumption DEF TypeOK
<1> USE <1>1 DEF CutoffInv, deleteVars
<1>2. CASE UNCHANGED vars
  BY <1>2 DEF vars
<1>3. CASE Process
  BY <1>3 DEF Process, Start, Signal, Stop, ConnLost, Crash, DeleteReturns
<1>4. CASE Notify
  BY <1>4 DEF Notify, NotifyStart, NotifySelect, NotifySelectFails, Publish,
     PublishFails, Mark, MarkFails, NotifyEnd, NotifyQuits
<1>5. CASE Delete
  BY <1>5 DEF Delete, DeleteStart, DeleteExec, DeleteExecFails, DeleteQuits,
     DeleteReturns
<1>6. CASE Tick
  BY <1>6 DEF Tick
<1>7. CASE Client
  BY <1>7 DEF Client, ClientCreate, ClientUpdate, ClientDelete
<1> QED BY <1>2, <1>3, <1>4, <1>5, <1>6, <1>7 DEF Next

\* When the statement of the deletion runs, or the goroutine ends without it,
\* the rows that go had ended longer than the expiration period ago.
LEMMA ExpiredOnly ==
  ASSUME TypeOK, CutoffInv, [Next]_vars, dPc = "deleting", dPc' # "deleting",
         NEW id \in Ids, Stored(events, id), ~Stored(events', id)
  PROVE  events[id].draft.end + Expiration < now
<1>1. events' = DeleteEndedBefore(events, cutoff)
  <2>1. ~UNCHANGED dPc /\ ~UNCHANGED events
    OBVIOUS
  <2>2. DeleteExec \/ DeleteExecFails
    BY <2>1 DEF Next, vars, deleteVars, tableVars, Process, Start, Signal, Stop,
       ConnLost, Crash, Running, Notify, NotifyStart, NotifySelect,
       NotifySelectFails, Publish, PublishFails, Mark, MarkFails, NotifyEnd,
       NotifyQuits, Delete, DeleteStart, DeleteQuits, Tick, Client,
       ClientCreate, ClientUpdate, ClientDelete
  <2> QED BY <2>1, <2>2 DEF DeleteExec, DeleteExecFails
<1>2. events[id].draft.end < cutoff
  BY <1>1 DEF DeleteEndedBefore, Stored
<1>3. events[id].draft.end \in Nat
  <2>1. events[id].draft \in Draft
    BY StoredRow, DraftsAssumption DEF TypeOK
  <2> QED BY <2>1 DEF Draft
<1> QED BY <1>2, <1>3, ExpirationAssumption DEF CutoffInv, TypeOK

\* The deletion goroutine removes nothing that has not expired, however long its
\* statement waits.
THEOREM ScheduledDeleteOnlyExpiredHolds == Spec => ScheduledDeleteOnlyExpired
<1>1. Init => CutoffInv
  BY DEF Init, CutoffInv
<1>2. TypeOK /\ CutoffInv /\ [Next]_vars =>
        [dPc = "deleting" /\ dPc' # "deleting" =>
           \A id \in Ids : (Stored(events, id) /\ ~Stored(events', id)) =>
              events[id].draft.end + Expiration < now]_vars
  BY ExpiredOnly
<1> QED BY <1>1, <1>2, CutoffStep, TypeCorrect, PTL
     DEF Spec, ScheduledDeleteOnlyExpired
=============================================================================
