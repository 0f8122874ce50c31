-------------------------- MODULE CalendarApi_proof --------------------------
(***************************************************************************)
(* What the requests guarantee for any number of them, all sets of ids,    *)
(* users, drafts and patches, either storage, failing statements or not:   *)
(* IInv is an inductive invariant, and only the owner changes an event.    *)
(***************************************************************************)
EXTENDS CalendarApi, EventStore_proof, FiniteSetTheorems

USE MergeAssumption, StorageAssumption

(***************************************************************************)
(* Requests as records.                                                    *)
(***************************************************************************)

\* A request that has arrived has all the fields of a request.
LEMMA Arrived ==
  ASSUME TypeOK, NEW r \in Requests, req[r].phase # "new"
  PROVE  req[r] \in Request /\ req[r] # NoRequest
BY DEF TypeOK, NoRequest

\* A request that has just arrived is well typed.
LEMMA NewRequestType ==
  ASSUME NEW phase \in Phases, NEW kind \in Kinds, NEW via \in {"http", "grpc"},
         NEW id \in Ids, NEW u \in Users, NEW body \in Drafts \cup Patches \cup {NoRow},
         NEW row \in Row \cup {NoRow}
  PROVE  NewRequest(phase, kind, via, id, u, body, row) \in Request
BY DEF NewRequest, Request, Replies

\* The fields of a request that its handler never changes.
SameRequest(r) ==
  /\ req'[r].kind = req[r].kind /\ req'[r].id = req[r].id
  /\ req'[r].user = req[r].user /\ req'[r].body = req[r].body

OnlyRequest(r) == \A q \in Requests \ {r} : req'[q] = req[q]

\* The API starts in its invariant: no row and no request.
LEMMA InitInv == Init => IInv
<1> SUFFICES ASSUME Init PROVE IInv
  OBVIOUS
<1>1. TypeOK
  BY EmptyTableType DEF Init, TypeOK
<1>2. \A id \in Ids : ~Stored(events, id)
  BY DEF Init, EmptyTable, Stored
<1>3. \A r \in Requests : req[r] = NoRequest /\ req[r].phase = "new"
  BY DEF Init, NoRequest
<1> QED BY <1>1, <1>2, <1>3 DEF IInv, IdsInv, RowsInv, OwnerInv, Creates, At

(***************************************************************************)
(* A request arrives.                                                      *)
(***************************************************************************)
LEMMA ArrivesStep ==
  ASSUME IInv, UNCHANGED storage, NEW r \in Requests,
         NEW phase \in {"read", "check", "write"}, NEW kind \in Kinds,
         NEW via \in {"http", "grpc"}, NEW id \in Ids, NEW u \in Users,
         NEW body \in Drafts \cup Patches \cup {NoRow}, NEW row \in Row \cup {NoRow},
         Arrives(r, NewRequest(phase, kind, via, id, u, body, row)),
         phase = "read" => kind # "create" /\ (kind = "update" => body \in Patches),
         phase = "check" => kind \in {"update", "delete"},
         phase = "write" => kind = "create",
         phase # "read" /\ kind # "delete" => row \in Row /\ row.user = u,
         kind = "create" => /\ rev[id] = 0
                            /\ \A q \in Requests : Creates(q) => req[q].id # id
  PROVE  IInv'
<1> DEFINE request == NewRequest(phase, kind, via, id, u, body, row)
<1>1. /\ request \in Request
      /\ request.phase = phase /\ request.kind = kind /\ request.id = id
      /\ request.user = u /\ request.body = body /\ request.row = row
  BY NewRequestType DEF NewRequest, Phases
<1> HIDE DEF request
<1>2. req'[r] = request /\ OnlyRequest(r) /\ UNCHANGED <<events, rev, marks>>
  BY DEF Arrives, request, IInv, TypeOK, OnlyRequest
<1>3. TypeOK'
  BY <1>1, <1>2 DEF Arrives, request, IInv, TypeOK
<1>4. IdsInv'
  <2>1. request # NoRequest
    BY <1>1 DEF NoRequest
  <2>2. \A q \in Requests : (~Creates(q) /\ At(q, "write"))' => rev'[req'[q].id] > 0
    BY <1>1, <1>2, <2>1 DEF IInv, IdsInv, OnlyRequest, Creates, At
  <2> QED BY <1>1, <1>2, <2>1, <2>2 DEF IInv, IdsInv, OnlyRequest, Creates, At
<1>5. RowsInv'
  BY <1>1, <1>2 DEF IInv, RowsInv, OnlyRequest, At
<1>6. OwnerInv'
  <2>1. request # NoRequest
    BY <1>1 DEF NoRequest
  <2> QED BY <1>1, <1>2, <2>1 DEF IInv, OwnerInv, OnlyRequest, Creates, At
<1> QED BY <1>3, <1>4, <1>5, <1>6 DEF IInv

\* The arrival of a request keeps the invariant; a create brings an id of its own.
LEMMA ArriveStep ==
  ASSUME IInv, UNCHANGED storage, NEW r \in Requests, Arrive(r)
  PROVE  IInv'
<1> USE DEF Kinds
<1>1. CASE Create(r)
  <2>1. PICK via \in {"http", "grpc"}, id \in Ids, u \in Users, d \in Drafts :
          /\ rev[id] = 0
          /\ \A q \in Requests : Creates(q) => req[q].id # id
          /\ Arrives(r, NewRequest("write", "create", via, id, u, d, NewRow(u, d)))
    BY <1>1 DEF Create
  <2>2. NewRow(u, d) \in Row /\ NewRow(u, d).user = u
    BY NewRowType DEF NewRow
  <2> QED BY <2>1, <2>2, ArrivesStep
<1>2. CASE HttpUpdate(r)
  BY <1>2, ArrivesStep DEF HttpUpdate
<1>3. CASE GrpcUpdate(r)
  <2>1. PICK id \in Ids, u \in Users, d \in Drafts :
          Arrives(r, NewRequest("check", "update", "grpc", id, u, d, NewRow(u, d)))
    BY <1>3 DEF GrpcUpdate
  <2>2. NewRow(u, d) \in Row /\ NewRow(u, d).user = u
    BY NewRowType DEF NewRow
  <2> QED BY <2>1, <2>2, ArrivesStep
<1>4. CASE HttpDelete(r)
  BY <1>4, ArrivesStep DEF HttpDelete
<1>5. CASE GrpcDelete(r)
  BY <1>5, ArrivesStep DEF GrpcDelete
<1>6. CASE Get(r)
  BY <1>6, ArrivesStep DEF Get
<1> QED BY <1>1, <1>2, <1>3, <1>4, <1>5, <1>6 DEF Arrive

(***************************************************************************)
(* Its statements.                                                         *)
(***************************************************************************)

\* A request is answered, or goes on, without a change of the table.
LEMMA LookStep ==
  ASSUME IInv, TypeOK', UNCHANGED <<events, rev, marks, storage>>,
         NEW r \in Requests, req[r].phase # "new", OnlyRequest(r), SameRequest(r),
         req'[r].phase # "new", req'[r].phase # "read",
         req'[r].phase = "check" => req[r].kind \in {"update", "delete"},
         req'[r].phase = "write" =>
           req[r].kind \in {"update", "delete"} /\ Owned(r),
         req'[r].phase \in {"check", "write"} /\ req[r].kind # "delete" =>
           req'[r].row \in Row /\ req'[r].row.user = req[r].user
  PROVE  IInv'
<1>1. req[r] # NoRequest /\ req'[r] # NoRequest
  BY DEF NoRequest
<1> USE DEF OnlyRequest, SameRequest, At, Creates
<1>2. IdsInv'
  <2>1. req[r].id \in Ids
    BY Arrived DEF IInv, Request
  <2>2. req'[r].phase = "write" => rev[req[r].id] > 0
    BY <2>1 DEF IInv, IdsInv, Owned
  <2> QED BY <1>1, <2>2 DEF IInv, IdsInv
<1>3. RowsInv'
  BY DEF IInv, RowsInv
<1>4. OwnerInv'
  BY <1>1 DEF IInv, OwnerInv, Owned
<1> QED BY <1>2, <1>3, <1>4 DEF IInv

\* What the write of a request does to the table.
LEMMA WrittenEffect ==
  ASSUME IInv, NEW r \in Requests, At(r, "write")
  PROVE  /\ Written(r) \in Table
         /\ \A id \in Ids : id # req[r].id => Written(r)[id] = events[id]
         /\ \A id \in Ids : Stored(Written(r), id) => \/ Stored(events, id)
                                                      \/ Creates(r) /\ id = req[r].id
         /\ \A id \in Ids :
              (Stored(events, id) /\ Written(r)[id] # events[id]) =>
                /\ req[r].user = events[id].user
                /\ Stored(Written(r), id) => Written(r)[id].user = events[id].user
<1>1. req[r] \in Request /\ req[r] # NoRequest /\ events \in Table
  BY Arrived DEF IInv, TypeOK, At
<1>2. req[r].id \in Ids
  BY <1>1 DEF Request
<1>3. CASE req[r].kind = "create"
  <2>1. req[r].row \in Row /\ Creates(r) /\ ~Stored(events, req[r].id)
    BY <1>1, <1>2, <1>3 DEF IInv, RowsInv, IdsInv, Creates, At
  <2>2. Written(r) = AddEvent(events, req[r].id, req[r].row)
    BY <1>3 DEF Written
  <2> QED BY <1>1, <1>2, <2>1, <2>2, AddEventEffect DEF Stored
<1>4. CASE req[r].kind = "update"
  <2>1. req[r].row \in Row /\ req[r].row.user = req[r].user /\ ~Creates(r)
    BY <1>4 DEF IInv, RowsInv, Creates, At
  <2>2. Written(r) = UpdateEvent(events, req[r].id, req[r].row)
    BY <1>4 DEF Written
  <2>3. Stored(events, req[r].id) => events[req[r].id].user = req[r].user
    BY <2>1 DEF IInv, OwnerInv
  <2> QED BY <1>1, <1>2, <2>1, <2>2, <2>3, UpdateEventEffect
<1>5. CASE req[r].kind = "delete"
  <2>1. Written(r) = DeleteEvent(events, req[r].id)
    BY <1>5 DEF Written
  <2>2. Stored(events, req[r].id) => events[req[r].id].user = req[r].user
    BY <1>5 DEF IInv, OwnerInv, Creates
  <2> QED BY <1>1, <1>2, <2>1, <2>2, DeleteEventEffect DEF Stored
<1> QED BY <1>3, <1>4, <1>5 DEF IInv, RowsInv

\* A request has executed its write.
LEMMA ExecuteStep ==
  ASSUME IInv, TypeOK', UNCHANGED storage, NEW r \in Requests, At(r, "write"),
         Execute(r), OnlyRequest(r), SameRequest(r),
         req'[r].phase \in {"confirm", "done"}
  PROVE  IInv'
<1>1. req[r] # NoRequest /\ req'[r] # NoRequest /\ req[r].id \in Ids
  BY Arrived DEF NoRequest, IInv, At, Request
<1>2. rev \in [Ids -> Nat] /\ events' = Written(r)
  BY DEF IInv, TypeOK, Execute
<1>3. \A id \in Ids : id # req[r].id => rev'[id] = rev[id] /\ events'[id] = events[id]
  BY <1>1, <1>2, WrittenEffect DEF Execute
<1>4. rev'[req[r].id] >= rev[req[r].id] /\ rev'[req[r].id] \in Nat
  BY <1>1, <1>2 DEF Execute
<1> USE DEF OnlyRequest, SameRequest, At, Creates
<1>5. IdsInv'
  <2>1. ASSUME NEW id \in Ids, Stored(events', id) PROVE rev'[id] > 0
    <3>1. CASE Stored(events, id)
      <4>1. rev[id] > 0 /\ rev[id] \in Nat /\ rev'[id] \in Nat /\ rev'[id] >= rev[id]
        BY <1>2, <1>3, <1>4, <3>1 DEF IInv, IdsInv
      <4> QED BY <4>1
    <3>2. CASE ~Stored(events, id)
      <4>1. req[r].kind = "create" /\ id = req[r].id
        BY <1>2, <2>1, <3>2, WrittenEffect
      <4>2. Written(r) # events
        BY <1>2, <2>1, <3>2
      <4>3. rev'[id] = rev[id] + 1
        BY <1>1, <1>2, <4>1, <4>2 DEF Execute
      <4> QED BY <1>2, <4>3
    <3> QED BY <3>1, <3>2
  <2>2. ASSUME NEW q \in Requests, Creates(q)', At(q, "write")' PROVE rev'[req'[q].id] = 0
    <3>1. q # r /\ req'[q] = req[q] /\ rev[req[q].id] = 0
      BY <2>2 DEF IInv, IdsInv
    <3>2. req[q].id \in Ids
      BY <2>2, <3>1, Arrived DEF IInv, Request
    <3>3. CASE req[q].id # req[r].id
      BY <1>3, <3>1, <3>2, <3>3
    <3>4. CASE req[q].id = req[r].id
      <4>1. ~Creates(r) /\ ~Stored(events, req[r].id)
        BY <1>1, <2>2, <3>1, <3>4 DEF IInv, IdsInv
      <4>2. Written(r) = events \/ req[r].kind = "delete"
        BY <1>1, <4>1 DEF Written, UpdateEvent, IInv, RowsInv
      <4>3. rev' = rev
        BY <4>2 DEF Execute
      <4> QED BY <3>1, <4>3
    <3> QED BY <3>3, <3>4
  <2>3. \A p, q \in Requests :
          (p # q /\ Creates(p)' /\ Creates(q)') => req'[p].id # req'[q].id
    BY <1>1 DEF IInv, IdsInv
  <2>4. ASSUME NEW q \in Requests, ~Creates(q)', At(q, "write")' PROVE rev'[req'[q].id] > 0
    <3>1. q # r /\ req'[q] = req[q] /\ rev[req[q].id] > 0
      BY <2>4 DEF IInv, IdsInv
    <3>2. req[q].id \in Ids
      BY <2>4, <3>1, Arrived DEF IInv, Request
    <3>3. rev[req[q].id] \in Nat /\ rev'[req[q].id] >= rev[req[q].id] /\ rev'[req[q].id] \in Nat
      BY <1>2, <1>3, <1>4, <3>2
    <3> QED BY <3>1, <3>3
  <2> QED BY <2>1, <2>2, <2>3, <2>4 DEF IdsInv
<1>6. RowsInv'
  BY DEF IInv, RowsInv
<1>7. OwnerInv'
  <2> SUFFICES ASSUME NEW q \in Requests, At(q, "write")', ~Creates(q)',
                      Stored(events', req'[q].id)
               PROVE  events'[req'[q].id].user = req'[q].user
    BY DEF OwnerInv
  <2>1. q # r /\ req'[q] = req[q]
    OBVIOUS
  <2>2. req[q].id \in Ids
    BY <2>1, Arrived DEF IInv, Request
  <2>3. CASE Stored(events, req[q].id)
    <3>1. events[req[q].id].user = req[q].user
      BY <2>1, <2>3 DEF IInv, OwnerInv
    <3> QED BY <1>2, <2>1, <2>2, <2>3, <3>1, WrittenEffect
  <2>4. CASE ~Stored(events, req[q].id)
    <3>1. Creates(r) /\ req[q].id = req[r].id
      BY <1>2, <2>1, <2>2, <2>4, WrittenEffect
    <3>2. rev[req[r].id] = 0 /\ rev[req[q].id] > 0
      BY <2>1, <3>1 DEF IInv, IdsInv
    <3> QED BY <3>1, <3>2
  <2> QED BY <2>3, <2>4
<1> QED BY <1>5, <1>6, <1>7 DEF IInv

(***************************************************************************)
(* The fields that the statements of a request change.                     *)
(***************************************************************************)
LEMMA FieldsEffect ==
  ASSUME TypeOK, NEW r \in Requests, NEW after \in Request,
         after.kind = req[r].kind /\ after.id = req[r].id,
         after.user = req[r].user /\ after.body = req[r].body,
         req' = [req EXCEPT ![r] = after]
  PROVE  /\ req' \in [Requests -> Request \cup {NoRequest}]
         /\ OnlyRequest(r) /\ SameRequest(r) /\ req'[r] = after
<1>1. req \in [Requests -> Request \cup {NoRequest}]
  BY DEF TypeOK
<1>2. req' \in [Requests -> Request \cup {NoRequest}] /\ req'[r] = after /\ OnlyRequest(r)
  BY <1>1 DEF OnlyRequest
<1> QED BY <1>2 DEF SameRequest

\* An answer ends the request and leaves the fields of its arrival alone.
LEMMA AnswerEffect ==
  ASSUME TypeOK, NEW r \in Requests, req[r] \in Request, NEW reply \in Replies,
         Answer(r, reply)
  PROVE  /\ req' \in [Requests -> Request \cup {NoRequest}]
         /\ OnlyRequest(r) /\ SameRequest(r) /\ req'[r].phase = "done"
<1> DEFINE after == [req[r] EXCEPT !.phase = "done", !.reply = reply]
<1>1. after \in Request /\ after.phase = "done"
  BY DEF Request, Phases
<1>2. /\ after.kind = req[r].kind /\ after.id = req[r].id
      /\ after.user = req[r].user /\ after.body = req[r].body
  BY DEF Request
<1>3. req' = [req EXCEPT ![r] = after]
  BY DEF Answer
<1> HIDE DEF after
<1> QED BY <1>1, <1>2, <1>3, FieldsEffect

\* So does the answer of a read, which carries the row.
LEMMA ReadAnsweredEffect ==
  ASSUME TypeOK, NEW r \in Requests, req[r] \in Request, ReadAnswered(r)
  PROVE  /\ req' \in [Requests -> Request \cup {NoRequest}]
         /\ OnlyRequest(r) /\ SameRequest(r) /\ req'[r].phase = "done"
<1> DEFINE after == [req[r] EXCEPT !.phase = "done", !.reply = "ok",
                                   !.row = events[req[r].id]]
<1>1. events[req[r].id] \in Row \cup {NoRow}
  BY DEF TypeOK, Table, Request
<1>2. after \in Request /\ after.phase = "done"
  BY <1>1 DEF Request, Phases, Replies
<1>3. /\ after.kind = req[r].kind /\ after.id = req[r].id
      /\ after.user = req[r].user /\ after.body = req[r].body
  BY DEF Request
<1>4. req' = [req EXCEPT ![r] = after]
  BY DEF ReadAnswered
<1> HIDE DEF after
<1> QED BY <1>2, <1>3, <1>4, FieldsEffect

\* A check that passes hands on the row the handler has read.
LEMMA CheckPassedEffect ==
  ASSUME TypeOK, NEW r \in Requests, req[r] \in Request, CheckPassed(r)
  PROVE  /\ req' \in [Requests -> Request \cup {NoRequest}]
         /\ OnlyRequest(r) /\ SameRequest(r)
         /\ req'[r].phase = "write" /\ req'[r].row = req[r].row
<1> DEFINE after == [req[r] EXCEPT !.phase = "write"]
<1>1. after \in Request /\ after.phase = "write" /\ after.row = req[r].row
  BY DEF Request, Phases
<1>2. /\ after.kind = req[r].kind /\ after.id = req[r].id
      /\ after.user = req[r].user /\ after.body = req[r].body
  BY DEF Request
<1>3. req' = [req EXCEPT ![r] = after]
  BY DEF CheckPassed
<1> HIDE DEF after
<1> QED BY <1>1, <1>2, <1>3, FieldsEffect

\* The row that an HTTP update is going to write: a row of the same owner.
LEMMA TargetType ==
  ASSUME IInv, NEW r \in Requests, req[r] \in Request, At(r, "read"), Owned(r)
  PROVE  /\ Target(r) \in Row \cup {NoRow}
         /\ req[r].kind = "update" => Target(r) \in Row /\ Target(r).user = req[r].user
<1>1. CASE req[r].kind = "update"
  <2> DEFINE row == events[req[r].id]
  <2>1. row \in Row /\ row.user = req[r].user /\ req[r].body \in Patches
    BY <1>1 DEF IInv, TypeOK, Table, Request, Owned, Stored, RowsInv
  <2>2. Merge(row.draft, req[r].body) \in Drafts
    BY <2>1 DEF Row
  <2>3. Target(r) = [row EXCEPT !.draft = Merge(row.draft, req[r].body)]
    BY <1>1 DEF Target
  <2> HIDE DEF row
  <2> QED BY <2>1, <2>2, <2>3 DEF Row
<1>2. CASE req[r].kind # "update"
  BY <1>2 DEF Target
<1> QED BY <1>1, <1>2

\* The row the handler will check is the one it has just read, patched if it updates.
LEMMA ReadTargetEffect ==
  ASSUME IInv, NEW r \in Requests, req[r] \in Request, ReadTarget(r)
  PROVE  /\ req' \in [Requests -> Request \cup {NoRequest}]
         /\ OnlyRequest(r) /\ SameRequest(r)
         /\ req'[r].phase = "check" /\ req'[r].row = Target(r)
<1> DEFINE row == Target(r)
           after == [req[r] EXCEPT !.phase = "check", !.row = row]
<1>1. row \in Row \cup {NoRow}
  BY TargetType DEF ReadTarget
<1>2. req' = [req EXCEPT ![r] = after]
  BY DEF ReadTarget
<1> HIDE DEF row
<1>3. after \in Request /\ after.phase = "check" /\ after.row = row
  BY <1>1 DEF Request, Phases
<1>4. /\ after.kind = req[r].kind /\ after.id = req[r].id
      /\ after.user = req[r].user /\ after.body = req[r].body
  BY DEF Request
<1> HIDE DEF after
<1>5. /\ req' \in [Requests -> Request \cup {NoRequest}]
      /\ OnlyRequest(r) /\ SameRequest(r)
      /\ req'[r].phase = "check" /\ req'[r].row = row
  BY <1>2, <1>3, <1>4, FieldsEffect DEF IInv
<1> QED BY <1>5 DEF row

\* The statement of the write, with whatever answer.
LEMMA WriteEffect ==
  ASSUME TypeOK, NEW r \in Requests, req[r] \in Request,
         NEW phase \in {"confirm", "done"}, NEW reply \in Replies, NEW wrote \in BOOLEAN,
         req' = [req EXCEPT ![r].phase = phase, ![r].reply = reply, ![r].wrote = wrote]
  PROVE  /\ req' \in [Requests -> Request \cup {NoRequest}]
         /\ OnlyRequest(r) /\ SameRequest(r) /\ req'[r].phase = phase
<1> DEFINE after == [req[r] EXCEPT !.phase = phase, !.reply = reply, !.wrote = wrote]
<1>1. after \in Request /\ after.phase = phase
  BY DEF Request, Phases
<1>2. /\ after.kind = req[r].kind /\ after.id = req[r].id
      /\ after.user = req[r].user /\ after.body = req[r].body
  BY DEF Request
<1>3. req' = [req EXCEPT ![r] = after]
  OBVIOUS
<1> HIDE DEF after
<1> QED BY <1>1, <1>2, <1>3, FieldsEffect

(***************************************************************************)
(* A step of a request.                                                    *)
(***************************************************************************)
LEMMA AnswerStep ==
  ASSUME IInv, UNCHANGED <<events, rev, marks, storage>>, NEW r \in Requests,
         req[r] \in Request, req[r].phase # "new", NEW reply \in Replies,
         Answer(r, reply)
  PROVE  IInv' /\ OnlyRequest(r)
<1>1. /\ req' \in [Requests -> Request \cup {NoRequest}]
      /\ OnlyRequest(r) /\ SameRequest(r) /\ req'[r].phase = "done"
  BY AnswerEffect DEF IInv
<1>2. TypeOK'
  BY <1>1 DEF IInv, TypeOK
<1> QED BY <1>1, <1>2, LookStep

\* The write of a request keeps the invariant and is the step of no other request.
LEMMA WriteStep ==
  ASSUME IInv, UNCHANGED storage, NEW r \in Requests, req[r] \in Request,
         At(r, "write"), Execute(r),
         NEW phase \in {"confirm", "done"}, NEW reply \in Replies, NEW wrote \in BOOLEAN,
         req' = [req EXCEPT ![r].phase = phase, ![r].reply = reply, ![r].wrote = wrote]
  PROVE  IInv' /\ OnlyRequest(r)
<1>1. /\ req' \in [Requests -> Request \cup {NoRequest}]
      /\ OnlyRequest(r) /\ SameRequest(r) /\ req'[r].phase = phase
  BY WriteEffect DEF IInv
<1>2. events' \in Table
  BY WrittenEffect DEF Execute
<1>3. rev' \in [Ids -> Nat] /\ UNCHANGED marks
  <2>1. rev \in [Ids -> Nat] /\ req[r].id \in Ids
    BY DEF IInv, TypeOK, Request
  <2>2. rev[req[r].id] + 1 \in Nat
    BY <2>1
  <2> QED BY <2>1, <2>2 DEF Execute
<1>4. TypeOK'
  BY <1>1, <1>2, <1>3 DEF IInv, TypeOK
<1> QED BY <1>1, <1>4, ExecuteStep

\* Every step of a handler keeps the invariant, and only its write touches the table.
LEMMA ServeStep ==
  ASSUME IInv, UNCHANGED storage, NEW r \in Requests, Serve(r)
  PROVE  IInv' /\ OnlyRequest(r) /\ (UNCHANGED events \/ (At(r, "write") /\ Execute(r)))
<1>1. req[r] \in Request /\ req[r].phase \in {"read", "check", "write", "confirm"}
  BY Arrived DEF Serve, At, ReadRefused, ReadAnswered, ReadTarget, CheckRefused,
     CheckPassed, Write, Confirm, Fails, IInv
<1>2. CASE ReadRefused(r)
  <2>1. Refusal(r) \in Replies
    BY DEF Refusal, Replies
  <2> QED BY <1>1, <1>2, <2>1, AnswerStep DEF ReadRefused
<1>3. CASE ReadAnswered(r)
  <2>1. /\ req' \in [Requests -> Request \cup {NoRequest}]
        /\ OnlyRequest(r) /\ SameRequest(r) /\ req'[r].phase = "done"
    BY <1>1, <1>3, ReadAnsweredEffect DEF IInv
  <2>2. UNCHANGED <<events, rev, marks>>
    BY <1>3 DEF ReadAnswered
  <2>3. TypeOK'
    BY <2>1, <2>2 DEF IInv, TypeOK
  <2> QED BY <1>1, <2>1, <2>2, <2>3, LookStep
<1>4. CASE ReadTarget(r)
  <2>1. /\ req' \in [Requests -> Request \cup {NoRequest}]
        /\ OnlyRequest(r) /\ SameRequest(r)
        /\ req'[r].phase = "check" /\ req'[r].row = Target(r)
    BY <1>1, <1>4, ReadTargetEffect
  <2>2. UNCHANGED <<events, rev, marks>> /\ At(r, "read") /\ Owned(r)
    BY <1>4 DEF ReadTarget
  <2>3. TypeOK'
    BY <2>1, <2>2 DEF IInv, TypeOK
  <2>4. req[r].kind \in {"update", "delete"}
    <3>1. req[r].kind # "create"
      BY <2>2 DEF IInv, RowsInv
    <3>2. req[r].kind \in Kinds
      BY <1>1 DEF Request
    <3>3. req[r].kind # "get"
      BY <1>4 DEF ReadTarget
    <3> QED BY <3>1, <3>2, <3>3 DEF Kinds
  <2>5. req[r].kind # "delete" => req'[r].row \in Row /\ req'[r].row.user = req[r].user
    BY <1>1, <2>1, <2>2, <2>4, TargetType
  <2> QED BY <1>1, <2>1, <2>2, <2>3, <2>4, <2>5, LookStep
<1>5. CASE CheckRefused(r)
  <2>1. (IF req[r].kind = "delete" THEN "error" ELSE Refusal(r)) \in Replies
    BY DEF Refusal, Replies
  <2> QED BY <1>1, <1>5, <2>1, AnswerStep DEF CheckRefused
<1>6. CASE CheckPassed(r)
  <2>1. /\ req' \in [Requests -> Request \cup {NoRequest}]
        /\ OnlyRequest(r) /\ SameRequest(r)
        /\ req'[r].phase = "write" /\ req'[r].row = req[r].row
    BY <1>1, <1>6, CheckPassedEffect DEF IInv
  <2>2. UNCHANGED <<events, rev, marks>> /\ At(r, "check") /\ Owned(r)
    BY <1>6 DEF CheckPassed
  <2>3. TypeOK'
    BY <2>1, <2>2 DEF IInv, TypeOK
  <2>4. /\ req[r].kind \in {"update", "delete"}
        /\ req[r].kind # "delete" => req[r].row \in Row /\ req[r].row.user = req[r].user
    BY <2>2 DEF IInv, RowsInv, At
  <2> QED BY <1>1, <2>1, <2>2, <2>3, <2>4, LookStep
<1>7. CASE Write(r)
  <2>1. (IF req[r].kind = "create" /\ storage = "sql" THEN "confirm" ELSE "done")
          \in {"confirm", "done"}
    OBVIOUS
  <2>2. (IF req[r].kind = "create" /\ storage = "sql" THEN "none"
         ELSE IF Misses(r) /\ storage = "memory" THEN "error"
         ELSE "ok") \in Replies
    BY DEF Replies
  <2>3. (~Misses(r)) \in BOOLEAN
    BY DEF Misses
  <2> QED BY <1>1, <1>7, <2>1, <2>2, <2>3, WriteStep DEF Write
<1>8. CASE Confirm(r)
  <2>1. (IF Stored(events, req[r].id) THEN "ok" ELSE "error") \in Replies
    BY DEF Replies
  <2> QED BY <1>1, <1>8, <2>1, AnswerStep DEF Confirm
<1>9. CASE Fails(r)
  <2>1. "error" \in Replies /\ "done" \in {"confirm", "done"} /\ (~Misses(r)) \in BOOLEAN
    BY DEF Replies, Misses
  <2>2. CASE Answer(r, "error") /\ UNCHANGED <<events, rev, marks>>
    BY <1>1, <2>1, <2>2, AnswerStep
  <2>3. CASE /\ At(r, "write") /\ Execute(r)
             /\ req' = [req EXCEPT ![r].phase = "done", ![r].reply = "error",
                                   ![r].wrote = ~Misses(r)]
    BY <1>1, <2>1, <2>3, WriteStep
  <2> QED BY <1>9, <2>2, <2>3 DEF Fails
<1> QED BY <1>2, <1>3, <1>4, <1>5, <1>6, <1>7, <1>8, <1>9 DEF Serve

(***************************************************************************)
(* The results.                                                            *)
(***************************************************************************)
THEOREM NextInv == IInv /\ [Next]_apiVars => IInv'
<1>1. ASSUME IInv, UNCHANGED apiVars PROVE IInv'
  BY <1>1 DEF apiVars, IInv, TypeOK, IdsInv, RowsInv, OwnerInv, Creates, At
<1>2. ASSUME IInv, Next PROVE IInv'
  BY <1>2, ArriveStep, ServeStep DEF Next, Handle
<1> QED BY <1>1, <1>2

\* The inductive invariant of the requests and their table: types, an id for each
\* create, and rows that keep the owner they were created with.
THEOREM Invariance == Spec => []IInv
BY InitInv, NextInv, PTL DEF Spec

\* Every reachable state of the requests and their table is well typed.
THEOREM TypeCorrect == Spec => []TypeOK
<1>1. IInv => TypeOK
  BY DEF IInv
<1> QED BY <1>1, Invariance, PTL

\* A row that changes is changed by a request of its owner, and keeps the owner.
LEMMA OwnerStep ==
  ASSUME IInv, Next, NEW id \in Ids, NEW r \in Requests,
         Stored(events, id), events'[id] # events[id], req'[r] # req[r]
  PROVE  /\ req[r].user = events[id].user
         /\ Stored(events', id) => events'[id].user = events[id].user
<1>1. PICK q \in Requests : Serve(q)
  <2>1. \A q \in Requests : Arrive(q) => UNCHANGED events
    BY DEF Arrive, Create, HttpUpdate, GrpcUpdate, HttpDelete, GrpcDelete, Get, Arrives
  <2> QED BY <2>1 DEF Next, Handle
<1>2. q = r /\ At(q, "write") /\ Execute(q)
  BY <1>1, ServeStep DEF Next, OnlyRequest
<1> QED BY <1>2, WrittenEffect DEF Execute, Stored

\* Whatever other requests come between the check and the write, and whatever
\* statements fail, the step of a request changes only events of its user, and
\* never their owner.
THEOREM OnlyOwnerChangesHolds == Spec => OnlyOwnerChanges
<1>1. IInv /\ [Next]_apiVars =>
        [\A id \in Ids : \A r \in Requests :
           (Stored(events, id) /\ events'[id] # events[id] /\ req'[r] # req[r]) =>
             /\ req[r].user = events[id].user
             /\ Stored(events', id) => events'[id].user = events[id].user]_apiVars
  BY OwnerStep
<1> QED BY <1>1, Invariance, PTL DEF Spec, OnlyOwnerChanges

(***************************************************************************)
(* What the answers say.                                                   *)
(***************************************************************************)

\* ReplyInv of one request.
Truthful(r) ==
  /\ req[r].phase \in {"read", "check", "write"} => ~req[r].wrote
  /\ req[r].phase = "confirm" => storage = "sql"
  /\ req[r].phase = "done" =>
       /\ req[r].reply \in {"notfound", "denied"} => ~req[r].wrote
       /\ req[r].reply = "error" /\ storage = "memory" => ~req[r].wrote
       /\ storage = "memory" /\ req[r].reply = "ok" /\ req[r].kind # "get" => req[r].wrote

\* The invariant of the replies, request by request.
LEMMA ReplyInvIsTruthful == ReplyInv <=> \A r \in Requests : Truthful(r)
BY DEF ReplyInv, Truthful, RefusedLeavesNoTrace, MemorySuccessMeansWritten,
   SuccessMeansWritten, Done, At

\* An answer leaves what was written as it was.
LEMMA AnswerFields ==
  ASSUME TypeOK, NEW r \in Requests, req[r] \in Request, NEW reply, Answer(r, reply)
  PROVE  /\ req'[r].phase = "done" /\ req'[r].reply = reply
         /\ req'[r].wrote = req[r].wrote /\ req'[r].kind = req[r].kind
<1> DEFINE after == [req[r] EXCEPT !.phase = "done", !.reply = reply]
<1>1. req'[r] = after
  BY DEF Answer, TypeOK
<1>2. /\ after.phase = "done" /\ after.reply = reply
      /\ after.wrote = req[r].wrote /\ after.kind = req[r].kind
  BY DEF Request
<1> QED BY <1>1, <1>2

\* A request that arrives has no reply and has written nothing.
LEMMA ArriveTruthful ==
  ASSUME TypeOK, UNCHANGED storage, NEW r \in Requests, Arrive(r)
  PROVE  Truthful(r)' /\ OnlyRequest(r)
<1>1. ASSUME NEW phase \in {"read", "check", "write"}, NEW kind, NEW via, NEW id, NEW u,
             NEW body, NEW row, Arrives(r, NewRequest(phase, kind, via, id, u, body, row))
      PROVE  Truthful(r)' /\ OnlyRequest(r)
  <2>1. req'[r] = NewRequest(phase, kind, via, id, u, body, row) /\ OnlyRequest(r)
    BY <1>1 DEF Arrives, TypeOK, OnlyRequest
  <2>2. req'[r].phase = phase /\ req'[r].wrote = FALSE
    BY <2>1 DEF NewRequest
  <2> QED BY <2>1, <2>2 DEF Truthful
<1>2. CASE Create(r)
  BY <1>1, <1>2 DEF Create
<1>3. CASE HttpUpdate(r)
  BY <1>1, <1>3 DEF HttpUpdate
<1>4. CASE GrpcUpdate(r)
  BY <1>1, <1>4 DEF GrpcUpdate
<1>5. CASE HttpDelete(r)
  BY <1>1, <1>5 DEF HttpDelete
<1>6. CASE GrpcDelete(r)
  BY <1>1, <1>6 DEF GrpcDelete
<1>7. CASE Get(r)
  BY <1>1, <1>7 DEF Get
<1> QED BY <1>2, <1>3, <1>4, <1>5, <1>6, <1>7 DEF Arrive

\* A step of a handler keeps its reply in accord with what it has written.
LEMMA ServeTruthful ==
  ASSUME IInv, UNCHANGED storage, NEW r \in Requests, Truthful(r), Serve(r)
  PROVE  Truthful(r)'
<1>1. req[r] \in Request
  BY Arrived DEF Serve, At, ReadRefused, ReadAnswered, ReadTarget, CheckRefused,
     CheckPassed, Write, Confirm, Fails, IInv
<1>2. TypeOK /\ storage \in {"sql", "memory"}
  BY DEF IInv, TypeOK
<1> USE DEF At
<1>3. CASE ReadRefused(r)
  BY <1>1, <1>2, <1>3, AnswerFields DEF ReadRefused, Refusal, Truthful
<1>4. CASE ReadAnswered(r)
  <2> DEFINE row == events[req[r].id]
  <2>1. req'[r] = [req[r] EXCEPT !.phase = "done", !.reply = "ok", !.row = row]
    BY <1>2, <1>4 DEF ReadAnswered, TypeOK
  <2>2. req[r].kind = "get"
    BY <1>4 DEF ReadAnswered
  <2> HIDE DEF row
  <2>3. req'[r].phase = "done" /\ req'[r].reply = "ok" /\ req'[r].kind = "get"
    BY <1>1, <2>1, <2>2 DEF Request
  <2> QED BY <2>3 DEF Truthful
<1>5. CASE ReadTarget(r)
  <2>1. req'[r] = [req[r] EXCEPT !.phase = "check", !.row = Target(r)]
    BY <1>2, <1>5 DEF ReadTarget, TypeOK
  <2>2. req'[r].phase = "check" /\ req'[r].wrote = req[r].wrote
    BY <1>1, <2>1 DEF Request
  <2> QED BY <1>5, <2>2 DEF ReadTarget, Truthful
<1>6. CASE CheckRefused(r)
  BY <1>1, <1>2, <1>6, AnswerFields DEF CheckRefused, Refusal, Truthful
<1>7. CASE CheckPassed(r)
  <2>1. req'[r] = [req[r] EXCEPT !.phase = "write"]
    BY <1>2, <1>7 DEF CheckPassed, TypeOK
  <2>2. req'[r].phase = "write" /\ req'[r].wrote = req[r].wrote
    BY <1>1, <2>1 DEF Request
  <2> QED BY <1>7, <2>2 DEF CheckPassed, Truthful
<1>8. CASE Write(r)
  <2> DEFINE phase == IF req[r].kind = "create" /\ storage = "sql" THEN "confirm" ELSE "done"
             reply == IF req[r].kind = "create" /\ storage = "sql" THEN "none"
                      ELSE IF Misses(r) /\ storage = "memory" THEN "error"
                      ELSE "ok"
             wrote == ~Misses(r)
  <2>1. req' = [req EXCEPT ![r].phase = phase, ![r].reply = reply, ![r].wrote = wrote]
    BY <1>8 DEF Write
  <2>2. /\ phase = "confirm" => storage = "sql"
        /\ phase = "done" => /\ reply \notin {"notfound", "denied"}
                             /\ reply = "error" /\ storage = "memory" => ~wrote
                             /\ storage = "memory" /\ reply = "ok" => wrote
        /\ phase \in {"confirm", "done"}
    BY <1>2
  <2> HIDE DEF phase, reply, wrote
  <2>3. req'[r] = [req[r] EXCEPT !.phase = phase, !.reply = reply, !.wrote = wrote]
    BY <1>2, <2>1 DEF TypeOK
  <2>4. req'[r].phase = phase /\ req'[r].reply = reply /\ req'[r].wrote = wrote
    BY <1>1, <2>3 DEF Request
  <2> QED BY <2>2, <2>4 DEF Truthful
<1>9. CASE Confirm(r)
  <2>1. storage = "sql"
    BY <1>9 DEF Confirm, Truthful
  <2>2. req'[r].phase = "done" /\ req'[r].reply \in {"ok", "error"}
    BY <1>1, <1>2, <1>9, AnswerFields DEF Confirm
  <2> QED BY <2>1, <2>2 DEF Truthful
<1>10. CASE Fails(r)
  <2>1. storage = "sql"
    BY <1>10 DEF Fails
  <2>2. CASE Answer(r, "error")
    BY <1>1, <1>2, <2>1, <2>2, AnswerFields DEF Truthful
  <2>3. CASE req' = [req EXCEPT ![r].phase = "done", ![r].reply = "error",
                                ![r].wrote = ~Misses(r)]
    <3> DEFINE wrote == ~Misses(r)
    <3>1. req' = [req EXCEPT ![r].phase = "done", ![r].reply = "error", ![r].wrote = wrote]
      BY <2>3
    <3> HIDE DEF wrote
    <3>2. req'[r] = [req[r] EXCEPT !.phase = "done", !.reply = "error", !.wrote = wrote]
      BY <1>2, <3>1 DEF TypeOK
    <3>3. req'[r].phase = "done" /\ req'[r].reply = "error"
      BY <1>1, <3>2 DEF Request
    <3> QED BY <2>1, <3>3 DEF Truthful
  <2> QED BY <1>10, <2>2, <2>3 DEF Fails
<1> QED BY <1>3, <1>4, <1>5, <1>6, <1>7, <1>8, <1>9, <1>10 DEF Serve

\* Every step keeps the replies truthful.
LEMMA ReplyStep == IInv /\ ReplyInv /\ [Next]_apiVars => ReplyInv'
<1> SUFFICES ASSUME IInv, \A r \in Requests : Truthful(r), [Next]_apiVars,
                    NEW q \in Requests
             PROVE  Truthful(q)'
  <2>1. ReplyInv' <=> (\A r \in Requests : Truthful(r))'
    BY ReplyInvIsTruthful, PTL
  <2> QED BY <2>1, ReplyInvIsTruthful
<1>1. CASE UNCHANGED apiVars
  BY <1>1 DEF apiVars, Truthful
<1>2. ASSUME NEW r \in Requests, Handle(r), UNCHANGED storage
      PROVE  Truthful(q)'
  <2>1. OnlyRequest(r) /\ Truthful(r)'
    BY <1>2, ArriveTruthful, ServeTruthful, ServeStep DEF Handle, IInv
  <2>2. CASE q # r
    BY <1>2, <2>1, <2>2 DEF OnlyRequest, Truthful
  <2> QED BY <2>1, <2>2
<1> QED BY <1>1, <1>2 DEF Next

\* In every reachable state a reply agrees with what its request has written.
THEOREM ReplyInvariance == Spec => []ReplyInv
<1>1. Init => ReplyInv
  <2>1. Init => \A r \in Requests : Truthful(r)
    BY DEF Init, NoRequest, Truthful
  <2> QED BY <2>1, ReplyInvIsTruthful
<1> QED BY <1>1, ReplyStep, Invariance, PTL DEF Spec

\* However the requests interleave and whatever statements fail, a refused request
\* has changed nothing, nor has one that failed on the memory storage.
THEOREM RefusedLeavesNoTraceHolds == Spec => []RefusedLeavesNoTrace
<1>1. ReplyInv => RefusedLeavesNoTrace
  BY DEF ReplyInv
<1> QED BY <1>1, ReplyInvariance, PTL

\* The memory storage reports success for writes only that it has made.
THEOREM MemorySuccessMeansWrittenHolds == Spec => []MemorySuccessMeansWritten
<1>1. ReplyInv => MemorySuccessMeansWritten
  BY DEF ReplyInv
<1> QED BY <1>1, ReplyInvariance, PTL

(***************************************************************************)
(* The requests as the clients of the scheduler: what a step of a request, *)
(* and a step of another process, does to the table and to what the        *)
(* requests have read of it.                                               *)
(***************************************************************************)

\* What holds of the requests between any two steps of anybody.
ClientInv == IInv /\ ReplyInv /\ WriteBackInv /\ CountInv

\* The requests start in the invariant a foreign step may rely on.
LEMMA ClientInitInv == Init => ClientInv
<1> SUFFICES ASSUME Init PROVE ClientInv
  OBVIOUS
<1>1. IInv
  BY InitInv
<1>2. \A id \in Ids : ~Stored(events, id) /\ rev[id] = 0
  BY DEF Init, EmptyTable, Stored
<1>3. \A r \in Requests : req[r] = NoRequest /\ req[r].phase = "new"
  BY DEF Init, NoRequest
<1>4. ReplyInv
  BY <1>3, ReplyInvIsTruthful DEF Truthful
<1>5. WriteBackInv
  BY <1>2, <1>3 DEF WriteBackInv
<1>6. CountInv
  <2> SUFFICES ASSUME NEW id \in Ids PROVE rev[id] <= Cardinality(Writers(id))
    BY DEF CountInv
  <2>1. Writers(id) = {}
    BY <1>3 DEF Writers
  <2> QED BY <1>2, <2>1, FS_EmptySet
<1> QED BY <1>1, <1>4, <1>5, <1>6 DEF ClientInv

(***************************************************************************)
(* What a statement leaves of the request that runs it.                    *)
(***************************************************************************)

\* Nothing is written, and the request goes on with the row it had or has just read.
Looks(r) ==
  /\ UNCHANGED <<events, rev, marks>>
  /\ req'[r].phase \in {"check", "write", "done"}
  /\ req'[r].phase # "done" =>
       /\ req'[r].wrote = req[r].wrote
       /\ \/ req[r].phase = "read" /\ Owned(r) /\ req'[r].row = Target(r)
          \/ req[r].phase = "check" /\ req'[r].row = req[r].row
  /\ req[r].wrote => req'[r].wrote

Executes(r) ==
  /\ At(r, "write") /\ Execute(r)
  /\ req'[r].phase \in {"confirm", "done"}
  /\ req'[r].wrote = ~Misses(r)

\* A step of a handler either looks, leaving the table alone, or executes its statement.
LEMMA ServeEffect ==
  ASSUME IInv, UNCHANGED storage, NEW r \in Requests, Serve(r)
  PROVE  /\ req[r] \in Request /\ req[r].phase \in {"read", "check", "write", "confirm"}
         /\ OnlyRequest(r) /\ SameRequest(r)
         /\ Looks(r) \/ Executes(r)
<1>1. req[r] \in Request /\ req[r].phase \in {"read", "check", "write", "confirm"}
  BY Arrived DEF Serve, At, ReadRefused, ReadAnswered, ReadTarget, CheckRefused,
     CheckPassed, Write, Confirm, Fails, IInv
<1>2. TypeOK
  BY DEF IInv
<1>3. ASSUME NEW reply \in Replies, Answer(r, reply), UNCHANGED <<events, rev, marks>>
      PROVE  OnlyRequest(r) /\ SameRequest(r) /\ Looks(r)
  BY <1>1, <1>2, <1>3, AnswerEffect, AnswerFields DEF Looks
<1>4. ASSUME NEW phase \in {"confirm", "done"}, NEW reply \in Replies,
             At(r, "write"), Execute(r),
             req' = [req EXCEPT ![r].phase = phase, ![r].reply = reply,
                                ![r].wrote = ~Misses(r)]
      PROVE  OnlyRequest(r) /\ SameRequest(r) /\ Executes(r)
  <2> DEFINE wrote == ~Misses(r)
  <2>1. wrote \in BOOLEAN
    BY DEF Misses
  <2>2. req' = [req EXCEPT ![r].phase = phase, ![r].reply = reply, ![r].wrote = wrote]
    BY <1>4
  <2>3. req'[r].phase \in {"confirm", "done"} => Executes(r) \/ req'[r].wrote # wrote
    BY <1>4 DEF Executes
  <2> HIDE DEF wrote
  <2>4. OnlyRequest(r) /\ SameRequest(r) /\ req'[r].phase = phase
    BY <1>1, <1>2, <2>1, <2>2, WriteEffect
  <2>5. req'[r] = [req[r] EXCEPT !.phase = phase, !.reply = reply, !.wrote = wrote]
    BY <1>2, <2>2 DEF TypeOK
  <2>6. req'[r].wrote = wrote
    BY <1>1, <2>5 DEF Request
  <2> QED BY <2>3, <2>4, <2>6
<1>5. CASE ReadRefused(r)
  BY <1>1, <1>3, <1>5 DEF ReadRefused, Refusal, Replies
<1>6. CASE ReadAnswered(r)
  <2> DEFINE row == events[req[r].id]
  <2>1. req'[r] = [req[r] EXCEPT !.phase = "done", !.reply = "ok", !.row = row]
    BY <1>2, <1>6 DEF ReadAnswered, TypeOK
  <2> HIDE DEF row
  <2>2. req'[r].phase = "done" /\ req'[r].wrote = req[r].wrote
    BY <1>1, <2>1 DEF Request
  <2>3. OnlyRequest(r) /\ SameRequest(r)
    BY <1>1, <1>2, <1>6, ReadAnsweredEffect
  <2> QED BY <1>6, <2>2, <2>3, <1>1 DEF Looks, ReadAnswered
<1>7. CASE ReadTarget(r)
  <2> DEFINE row == Target(r)
  <2>1. req'[r] = [req[r] EXCEPT !.phase = "check", !.row = row]
    BY <1>2, <1>7 DEF ReadTarget, TypeOK
  <2>2. req[r].phase = "read" /\ Owned(r) /\ UNCHANGED <<events, rev, marks>>
    BY <1>7 DEF ReadTarget, At
  <2>3. req'[r].row = row => req'[r].row = Target(r)
    OBVIOUS
  <2> HIDE DEF row
  <2>4. req'[r].wrote = req[r].wrote /\ req'[r].row = row /\ req'[r].phase = "check"
    BY <1>1, <2>1 DEF Request
  <2>5. OnlyRequest(r) /\ SameRequest(r)
    BY <1>1, <1>7, ReadTargetEffect
  <2> QED BY <1>1, <2>2, <2>3, <2>4, <2>5 DEF Looks
<1>8. CASE CheckRefused(r)
  BY <1>1, <1>3, <1>8 DEF CheckRefused, Refusal, Replies
<1>9. CASE CheckPassed(r)
  <2>1. req'[r] = [req[r] EXCEPT !.phase = "write"]
    BY <1>2, <1>9 DEF CheckPassed, TypeOK
  <2>2. /\ req'[r].wrote = req[r].wrote /\ req'[r].row = req[r].row
        /\ req'[r].phase = "write"
    BY <1>1, <2>1 DEF Request
  <2>3. OnlyRequest(r) /\ SameRequest(r)
    BY <1>1, <1>2, <1>9, CheckPassedEffect
  <2> QED BY <1>1, <1>9, <2>2, <2>3 DEF Looks, CheckPassed, At
<1>10. CASE Write(r)
  <2>1. (IF req[r].kind = "create" /\ storage = "sql" THEN "confirm" ELSE "done")
          \in {"confirm", "done"}
    OBVIOUS
  <2>2. (IF req[r].kind = "create" /\ storage = "sql" THEN "none"
         ELSE IF Misses(r) /\ storage = "memory" THEN "error"
         ELSE "ok") \in Replies
    BY DEF Replies
  <2> QED BY <1>1, <1>4, <1>10, <2>1, <2>2 DEF Write
<1>11. CASE Confirm(r)
  BY <1>1, <1>3, <1>11 DEF Confirm, Replies
<1>12. CASE Fails(r)
  <2>1. "error" \in Replies /\ "done" \in {"confirm", "done"}
    BY DEF Replies
  <2> QED BY <1>1, <1>3, <1>4, <1>12, <2>1 DEF Fails
<1> QED BY <1>1, <1>5, <1>6, <1>7, <1>8, <1>9, <1>10, <1>11, <1>12 DEF Serve

(***************************************************************************)
(* An arriving request.                                                    *)
(***************************************************************************)

\* An arriving request leaves the table alone and carries an unnotified row.
LEMMA ArriveEffect ==
  ASSUME IInv, NEW r \in Requests, Arrive(r)
  PROVE  /\ UNCHANGED <<events, rev, marks>> /\ OnlyRequest(r)
         /\ req[r].phase = "new" /\ req'[r] # NoRequest /\ ~req'[r].wrote
         /\ (req'[r].phase \in {"check", "write"} /\ req'[r].kind \in {"create", "update"}) =>
              req'[r].row.notified = ZeroTime
<1>1. ASSUME NEW phase, NEW kind, NEW via, NEW id, NEW u, NEW body, NEW row,
             Arrives(r, NewRequest(phase, kind, via, id, u, body, row)),
             (phase \in {"check", "write"} /\ kind \in {"create", "update"}) =>
               row.notified = ZeroTime,
             phase # "new"
      PROVE  /\ UNCHANGED <<events, rev, marks>> /\ OnlyRequest(r)
             /\ req[r].phase = "new" /\ req'[r] # NoRequest /\ ~req'[r].wrote
             /\ (req'[r].phase \in {"check", "write"} /\ req'[r].kind \in {"create", "update"}) =>
                  req'[r].row.notified = ZeroTime
  <2>1. req'[r] = NewRequest(phase, kind, via, id, u, body, row) /\ OnlyRequest(r)
    BY <1>1 DEF Arrives, IInv, TypeOK, OnlyRequest
  <2>2. /\ req'[r].phase = phase /\ req'[r].wrote = FALSE
        /\ req'[r].kind = kind /\ req'[r].row = row
    BY <2>1 DEF NewRequest
  <2>3. req'[r] # NoRequest
    BY <1>1, <2>2 DEF NoRequest
  <2> QED BY <1>1, <2>1, <2>2, <2>3 DEF Arrives
<1>2. CASE Create(r)
  <2>1. PICK via \in {"http", "grpc"}, id \in Ids, u \in Users, d \in Drafts :
          Arrives(r, NewRequest("write", "create", via, id, u, d, NewRow(u, d)))
    BY <1>2 DEF Create
  <2> QED BY <1>1, <2>1, NewRowType
<1>3. CASE HttpUpdate(r)
  BY <1>1, <1>3 DEF HttpUpdate
<1>4. CASE GrpcUpdate(r)
  <2>1. PICK id \in Ids, u \in Users, d \in Drafts :
          Arrives(r, NewRequest("check", "update", "grpc", id, u, d, NewRow(u, d)))
    BY <1>4 DEF GrpcUpdate
  <2> QED BY <1>1, <2>1, NewRowType
<1>5. CASE HttpDelete(r)
  BY <1>1, <1>5 DEF HttpDelete
<1>6. CASE GrpcDelete(r)
  BY <1>1, <1>6 DEF GrpcDelete
<1>7. CASE Get(r)
  BY <1>1, <1>7 DEF Get
<1> QED BY <1>2, <1>3, <1>4, <1>5, <1>6, <1>7 DEF Arrive

(***************************************************************************)
(* What a write does to the table: it is a creation of a row that never    *)
(* was, an update by its owner or a deletion, or it changes nothing.       *)
(***************************************************************************)

\* While one request has not written a row yet, the writers of the row are fewer than
\* the requests.
LEMMA FewerWriters ==
  ASSUME IsFiniteSet(Requests), NEW r \in Requests, NEW id \in Ids, r \notin Writers(id)
  PROVE  /\ IsFiniteSet(Writers(id)) /\ Cardinality(Writers(id)) \in Nat
         /\ Cardinality(Requests) \in Nat
         /\ Cardinality(Writers(id)) < Cardinality(Requests)
<1>1. Writers(id) \subseteq Requests \ {r}
  BY DEF Writers
<1>2. /\ IsFiniteSet(Requests \ {r}) /\ Cardinality(Requests) \in Nat
      /\ Cardinality(Requests \ {r}) = Cardinality(Requests) - 1
  BY FS_RemoveElement, FS_CardinalityType
<1>3. /\ IsFiniteSet(Writers(id)) /\ Cardinality(Writers(id)) \in Nat
      /\ Cardinality(Writers(id)) <= Cardinality(Requests \ {r})
  BY <1>1, <1>2, FS_Subset, FS_CardinalityType
<1> QED BY <1>2, <1>3

\* A creation.
Creation(id, u, d) ==
  /\ rev[id] = 0
  /\ events' = AddEvent(events, id, NewRow(u, d))
  /\ rev' = [rev EXCEPT ![id] = 1]

\* An update: another draft, or a NotifiedAt that the row once had.
Update(id, d, n) ==
  /\ Stored(events, id) /\ rev[id] < Cardinality(Requests)
  /\ n \in OnceMarked(id)
  /\ d # events[id].draft \/ n # events[id].notified
  /\ events' = UpdateEvent(events, id,
                           [user |-> events[id].user, draft |-> d, notified |-> n])
  /\ rev' = [rev EXCEPT ![id] = @ + 1]

Deletion(id) ==
  /\ Stored(events, id)
  /\ events' = DeleteEvent(events, id)
  /\ UNCHANGED rev

ClientStep ==
  \E id \in Ids :
    \/ \E u \in Users, d \in Drafts : Creation(id, u, d)
    \/ \E d \in Drafts : \E n \in OnceMarked(id) : Update(id, d, n)
    \/ Deletion(id)

\* A row is the record of its three fields.
LEMMA RowFields ==
  ASSUME NEW row \in Row
  PROVE  row = [user |-> row.user, draft |-> row.draft, notified |-> row.notified]
BY DEF Row

\* A statement of a request is a creation, an update by the owner or a deletion, or it
\* changes nothing.
LEMMA ExecuteIsClientStep ==
  ASSUME ClientInv, IsFiniteSet(Requests), NEW r \in Requests, At(r, "write"), Execute(r)
  PROVE  UNCHANGED marks /\ (ClientStep \/ UNCHANGED <<events, rev>>)
<1> DEFINE id == req[r].id
           row == req[r].row
<1>1. /\ req[r] \in Request /\ req[r] # NoRequest /\ id \in Ids
      /\ events \in Table /\ rev \in [Ids -> Nat]
  BY Arrived DEF ClientInv, IInv, TypeOK, At, Request
<1>2. /\ req[r].kind \in {"create", "update", "delete"}
      /\ req[r].kind # "delete" => row \in Row /\ row.user = req[r].user
  BY DEF ClientInv, IInv, RowsInv, At
<1>3. UNCHANGED marks
  BY DEF Execute
<1>4. CASE req[r].kind = "create"
  <2>1. rev[id] = 0 /\ ~Stored(events, id)
    BY <1>1, <1>4 DEF ClientInv, IInv, IdsInv, Creates
  <2>2. row \in Row /\ row.notified = ZeroTime
    BY <1>2, <1>4 DEF ClientInv, WriteBackInv, At
  <2>3. row = NewRow(row.user, row.draft) /\ row.user \in Users /\ row.draft \in Drafts
    BY <2>2, RowFields DEF NewRow, Row
  <2>4. Written(r) = AddEvent(events, id, row)
    BY <1>4 DEF Written
  <2>5. Written(r) # events
    BY <1>1, <2>1, <2>2, <2>4, AddEventEffect, NoRowAssumption DEF Stored
  <2>6. events' = AddEvent(events, id, row) /\ rev' = [rev EXCEPT ![id] = 1]
    BY <1>1, <1>4, <2>1, <2>4, <2>5 DEF Execute
  <2> HIDE DEF id, row
  <2>7. Creation(id, row.user, row.draft)
    BY <2>1, <2>3, <2>6 DEF Creation
  <2> QED BY <1>1, <1>3, <2>3, <2>7 DEF ClientStep
<1>5. CASE req[r].kind = "update"
  <2>1. Written(r) = UpdateEvent(events, id, row)
    BY <1>5 DEF Written
  <2>2. CASE Written(r) = events
    BY <1>3, <2>2 DEF Execute
  <2>3. CASE Written(r) # events
    <3>1. Stored(events, id)
      BY <2>1, <2>3 DEF UpdateEvent
    <3>2. events' = UpdateEvent(events, id, row) /\ rev' = [rev EXCEPT ![id] = @ + 1]
      BY <1>5, <2>1, <2>3 DEF Execute
    <3>3. row \in Row /\ events[id].user = row.user /\ row.notified \in OnceMarked(id)
      BY <1>1, <1>2, <1>5, <3>1 DEF ClientInv, IInv, OwnerInv, WriteBackInv, Creates, At
    <3>4. rev[id] < Cardinality(Requests)
      <4>1. r \notin Writers(id)
        BY DEF ClientInv, ReplyInv, Writers, At
      <4>2. Cardinality(Writers(id)) \in Nat /\ Cardinality(Requests) \in Nat
            /\ Cardinality(Writers(id)) < Cardinality(Requests)
        BY <1>1, <4>1, FewerWriters
      <4>3. rev[id] <= Cardinality(Writers(id)) /\ rev[id] \in Nat
        BY <1>1 DEF ClientInv, CountInv
      <4> QED BY <4>2, <4>3
    <3>5. row # events[id]
      BY <1>1, <2>1, <2>3, <3>1 DEF UpdateEvent, Table
    <3> HIDE DEF id, row
    <3>6. events[id] \in Row
      BY <1>1, <3>1, StoredRow
    <3>7. /\ row = [user |-> events[id].user, draft |-> row.draft, notified |-> row.notified]
          /\ row.draft \in Drafts
      BY <3>3, RowFields DEF Row
    <3>8. row.draft # events[id].draft \/ row.notified # events[id].notified
      BY <3>3, <3>5, <3>6, RowFields
    <3>9. Update(id, row.draft, row.notified)
      BY <3>1, <3>2, <3>3, <3>4, <3>7, <3>8 DEF Update
    <3> QED BY <1>1, <1>3, <3>3, <3>7, <3>9 DEF ClientStep
  <2> QED BY <2>2, <2>3
<1>6. CASE req[r].kind = "delete"
  <2>1. events' = DeleteEvent(events, id) /\ UNCHANGED rev
    BY <1>6 DEF Execute, Written
  <2>2. CASE Stored(events, id)
    BY <1>1, <1>3, <2>1, <2>2 DEF ClientStep, Deletion
  <2>3. CASE ~Stored(events, id)
    BY <1>1, <1>3, <2>1, <2>3 DEF DeleteEvent, Stored, Table
  <2> QED BY <2>2, <2>3
<1> QED BY <1>2, <1>4, <1>5, <1>6

\* A step of a request is a step of a client, or leaves the table alone.
LEMMA HandleIsClientStep ==
  ASSUME ClientInv, IsFiniteSet(Requests), UNCHANGED storage,
         NEW r \in Requests, Handle(r)
  PROVE  UNCHANGED marks /\ (ClientStep \/ UNCHANGED <<events, rev>>)
<1>1. CASE Arrive(r)
  BY <1>1, ArriveEffect DEF ClientInv
<1>2. CASE Serve(r)
  BY <1>2, ServeEffect, ExecuteIsClientStep DEF ClientInv, Looks, Executes
<1> QED BY <1>1, <1>2 DEF Handle

(***************************************************************************)
(* The invariant.                                                          *)
(***************************************************************************)

\* The row that a statement leaves for the next one has a NotifiedAt of the table.
LEMMA TargetMark ==
  ASSUME ClientInv, NEW r \in Requests, req[r] \in Request, Owned(r),
         req[r].kind = "update"
  PROVE  Target(r).notified \in OnceMarked(req[r].id)
<1> DEFINE row == events[req[r].id]
           draft == Merge(row.draft, req[r].body)
<1>1. row \in Row /\ row.notified \in OnceMarked(req[r].id)
  BY DEF ClientInv, WriteBackInv, Owned, Stored, IInv, TypeOK, Table, Request
<1>2. Target(r) = [row EXCEPT !.draft = draft]
  BY DEF Target
<1> HIDE DEF row, draft
<1>3. Target(r).notified = row.notified
  BY <1>1, <1>2 DEF Row
<1> QED BY <1>1, <1>3

\* A step of a client leaves in a row only a NotifiedAt that was once set.
LEMMA WriteBackTable ==
  ASSUME ClientInv, UNCHANGED marks, ClientStep \/ UNCHANGED events,
         NEW id \in Ids, Stored(events', id)
  PROVE  events'[id].notified \in OnceMarked(id)
<1>1. events \in Table /\ (Stored(events, id) => events[id].notified \in OnceMarked(id))
  BY DEF ClientInv, IInv, TypeOK, WriteBackInv
<1>2. CASE UNCHANGED events
  BY <1>1, <1>2
<1>3. ASSUME NEW k \in Ids, NEW u \in Users, NEW d \in Drafts, Creation(k, u, d)
      PROVE  events'[id].notified \in OnceMarked(id)
  <2>1. NewRow(u, d) \in Row /\ NewRow(u, d).notified = ZeroTime
    BY NewRowType
  <2> QED BY <1>1, <1>3, <2>1, AddEventEffect DEF Creation, OnceMarked, Stored
<1>4. ASSUME NEW k \in Ids, NEW d \in Drafts, NEW n \in OnceMarked(k), Update(k, d, n)
      PROVE  events'[id].notified \in OnceMarked(id)
  <2> DEFINE row == [user |-> events[k].user, draft |-> d, notified |-> n]
  <2>1. row.notified = n
    OBVIOUS
  <2>2. events' = [events EXCEPT ![k] = row]
    BY <1>4 DEF Update, UpdateEvent
  <2> HIDE DEF row
  <2> QED BY <1>1, <1>4, <2>1, <2>2 DEF Table, Stored
<1>5. ASSUME NEW k \in Ids, Deletion(k)
      PROVE  events'[id].notified \in OnceMarked(id)
  BY <1>1, <1>5, DeleteEventEffect DEF Deletion, Stored
<1> QED BY <1>2, <1>3, <1>4, <1>5 DEF ClientStep

\* A handler writes back only a NotifiedAt that was once set.
LEMMA HandleWriteBack ==
  ASSUME ClientInv, IsFiniteSet(Requests), UNCHANGED storage,
         NEW r \in Requests, Handle(r)
  PROVE  WriteBackInv'
<1>1. UNCHANGED marks /\ (ClientStep \/ UNCHANGED events)
  BY HandleIsClientStep
<1>2. ASSUME NEW id \in Ids, Stored(events', id)
      PROVE  events'[id].notified \in OnceMarked(id)
  BY <1>1, <1>2, WriteBackTable
<1>3. ASSUME NEW q \in Requests, req'[q].phase \in {"check", "write"}
      PROVE  /\ req'[q].kind = "update" => req'[q].row.notified \in OnceMarked(req'[q].id)
             /\ req'[q].kind = "create" => req'[q].row.notified = ZeroTime
  <2>1. CASE q # r
    <3>1. req'[q] = req[q]
      BY <2>1, ArriveEffect, ServeEffect DEF Handle, OnlyRequest, ClientInv
    <3>2. req[q].id \in Ids
      BY <1>3, <3>1, Arrived DEF ClientInv, IInv, Request
    <3> QED BY <1>3, <3>1, <3>2 DEF ClientInv, WriteBackInv
  <2>2. CASE q = r /\ Arrive(r)
    <3>1. req'[r].kind \in {"create", "update"} => req'[r].row.notified = ZeroTime
      BY <1>3, <2>2, ArriveEffect DEF ClientInv
    <3> QED BY <2>2, <3>1 DEF OnceMarked
  <2>3. CASE q = r /\ Serve(r)
    <3>1. /\ req[r] \in Request /\ SameRequest(r)
          /\ req[r].phase \in {"read", "check", "write", "confirm"}
          /\ Looks(r)
      BY <1>3, <2>3, ServeEffect DEF ClientInv, Executes
    <3>2. req[r].id \in Ids /\ req'[r].kind = req[r].kind /\ req'[r].id = req[r].id
      BY <3>1 DEF Request, SameRequest
    <3>3. CASE req[r].phase = "read" /\ Owned(r) /\ req'[r].row = Target(r)
      <4>1. req[r].kind # "create"
        BY <3>3 DEF ClientInv, IInv, RowsInv, At
      <4>2. req[r].kind = "update" => req'[r].row.notified \in OnceMarked(req[r].id)
        BY <3>1, <3>3, TargetMark
      <4> QED BY <2>3, <3>2, <4>1, <4>2
    <3>4. CASE req[r].phase = "check" /\ req'[r].row = req[r].row
      BY <2>3, <3>2, <3>4 DEF ClientInv, WriteBackInv
    <3> QED BY <1>3, <2>3, <3>1, <3>3, <3>4 DEF Looks
  <2> QED BY <2>1, <2>2, <2>3 DEF Handle
<1> QED BY <1>1, <1>2, <1>3 DEF WriteBackInv, OnceMarked, Stored

\* A request that has written stays one that has.
LEMMA WritersGrow ==
  ASSUME ClientInv, UNCHANGED storage, NEW r \in Requests, Handle(r), NEW id \in Ids
  PROVE  Writers(id) \subseteq Writers(id)'
<1> SUFFICES ASSUME NEW q \in Writers(id) PROVE q \in Writers(id)'
  OBVIOUS
<1>1. q \in Requests /\ req[q].phase # "new" /\ req[q].wrote /\ req[q].id = id
  BY DEF Writers
<1>2. req'[q].phase # "new" /\ req'[q].wrote /\ req'[q].id = id
  <2>1. CASE q # r
    <3>1. req'[q] = req[q]
      BY <1>1, <2>1, ArriveEffect, ServeEffect DEF Handle, OnlyRequest, ClientInv
    <3> QED BY <1>1, <3>1
  <2>2. CASE q = r /\ Arrive(r)
    BY <1>1, <2>2, ArriveEffect DEF ClientInv
  <2>3. CASE q = r /\ Serve(r)
    <3>1. SameRequest(r) /\ (Looks(r) \/ Executes(r))
      BY <2>3, ServeEffect DEF ClientInv
    <3>2. ~Executes(r)
      BY <1>1, <2>3 DEF Executes, ClientInv, ReplyInv, At
    <3> QED BY <1>1, <2>3, <3>1, <3>2 DEF SameRequest, Looks
  <2> QED BY <2>1, <2>2, <2>3 DEF Handle
<1> QED BY <1>1, <1>2 DEF Writers

\* A row has no more revisions than requests have written it.
LEMMA HandleCount ==
  ASSUME ClientInv, IsFiniteSet(Requests), UNCHANGED storage,
         NEW r \in Requests, Handle(r)
  PROVE  CountInv'
<1> SUFFICES ASSUME NEW id \in Ids PROVE rev'[id] <= Cardinality(Writers(id)')
  BY DEF CountInv
<1>1. rev \in [Ids -> Nat] /\ rev[id] <= Cardinality(Writers(id))
  BY DEF ClientInv, IInv, TypeOK, CountInv
<1>2. /\ IsFiniteSet(Writers(id)) /\ IsFiniteSet(Writers(id)')
      /\ Cardinality(Writers(id)) \in Nat /\ Cardinality(Writers(id)') \in Nat
      /\ Cardinality(Writers(id)) <= Cardinality(Writers(id)')
  <2>1. Writers(id) \subseteq Writers(id)' /\ Writers(id)' \subseteq Requests
    BY WritersGrow DEF Writers
  <2>2. IsFiniteSet(Writers(id)')
    BY <2>1, FS_Subset
  <2> QED BY <2>1, <2>2, FS_Subset, FS_CardinalityType
<1>3. CASE rev'[id] = rev[id]
  BY <1>1, <1>2, <1>3
<1>4. CASE rev'[id] # rev[id]
  <2>1. Serve(r) /\ Executes(r)
    BY <1>4, ArriveEffect, ServeEffect DEF Handle, ClientInv, Looks
  <2>2. /\ req[r] \in Request /\ req[r] # NoRequest /\ SameRequest(r)
        /\ req[r].kind # "delete" /\ Written(r) # events /\ id = req[r].id
        /\ rev'[id] = rev[id] + 1
    <3>1. req[r] \in Request /\ req[r] # NoRequest /\ SameRequest(r)
      BY <2>1, ServeEffect DEF ClientInv, Executes, At, NoRequest
    <3>2. rev' # rev
      BY <1>4
    <3>3. /\ req[r].kind # "delete" /\ Written(r) # events
          /\ rev' = [rev EXCEPT ![req[r].id] = @ + 1]
      BY <2>1, <3>2 DEF Executes, Execute
    <3> QED BY <1>1, <1>4, <3>1, <3>3
  <2>3. ~Misses(r)
    <3>1. CASE req[r].kind = "create"
      BY <3>1 DEF Misses
    <3>2. CASE req[r].kind = "update"
      BY <2>2, <3>2 DEF Misses, Written, UpdateEvent
    <3> QED BY <2>1, <2>2, <3>1, <3>2 DEF ClientInv, IInv, RowsInv, Executes, At
  <2>4. r \notin Writers(id)
    BY <2>1 DEF Writers, ClientInv, ReplyInv, Executes, At
  <2>5. r \in Writers(id)'
    BY <2>1, <2>2, <2>3 DEF Writers, Executes, SameRequest
  <2>6. /\ Writers(id) \cup {r} \subseteq Writers(id)'
        /\ Cardinality(Writers(id) \cup {r}) = Cardinality(Writers(id)) + 1
    BY <1>2, <2>4, <2>5, WritersGrow, FS_AddElement
  <2>7. /\ Cardinality(Writers(id) \cup {r}) <= Cardinality(Writers(id)')
    BY <1>2, <2>6, FS_Subset
  <2> QED BY <1>1, <1>2, <2>2, <2>6, <2>7
<1> QED BY <1>3, <1>4

\* A step of a request keeps the invariant.
LEMMA HandleInv ==
  ASSUME ClientInv, IsFiniteSet(Requests), UNCHANGED storage,
         NEW r \in Requests, Handle(r)
  PROVE  ClientInv'
<1>1. Next
  BY DEF Next
<1>2. IInv' /\ ReplyInv'
  BY <1>1, NextInv, ReplyStep DEF ClientInv
<1> QED BY <1>2, HandleWriteBack, HandleCount DEF ClientInv

\* So does a step of another process that at most removes rows and sets their
\* NotifiedAt, and remembers what it has set it to.
LEMMA ForeignInv ==
  ASSUME ClientInv, UNCHANGED <<req, rev, storage>>, events' \in Table,
         marks' \in [Ids -> SUBSET Nat],
         \A id \in Ids : marks[id] \subseteq marks'[id],
         \A id \in Ids : Stored(events', id) =>
           /\ Stored(events, id) /\ events'[id].user = events[id].user
           /\ events'[id].notified \in {events[id].notified} \cup marks'[id]
  PROVE  ClientInv'
<1>1. IInv'
  <2>1. TypeOK'
    BY DEF ClientInv, IInv, TypeOK
  <2>2. IdsInv'
    BY DEF ClientInv, IInv, IdsInv, Creates, At
  <2>3. RowsInv'
    BY DEF ClientInv, IInv, RowsInv, At
  <2>4. OwnerInv'
    <3> SUFFICES ASSUME NEW r \in Requests, At(r, "write"), ~Creates(r),
                        Stored(events', req[r].id)
                 PROVE  events'[req[r].id].user = req[r].user
      BY DEF OwnerInv, At, Creates
    <3>1. req[r].id \in Ids
      BY Arrived DEF At, ClientInv, IInv, Request
    <3> QED BY <3>1 DEF ClientInv, IInv, OwnerInv
  <2> QED BY <2>1, <2>2, <2>3, <2>4 DEF IInv
<1>2. ReplyInv'
  BY DEF ClientInv, ReplyInv, RefusedLeavesNoTrace, MemorySuccessMeansWritten,
     SuccessMeansWritten, Done, At
<1>3. WriteBackInv'
  <2>1. ASSUME NEW id \in Ids, Stored(events', id)
        PROVE  events'[id].notified \in {ZeroTime} \cup marks'[id]
    BY <2>1 DEF ClientInv, WriteBackInv, OnceMarked
  <2>2. ASSUME NEW r \in Requests, req[r].phase \in {"check", "write"}
        PROVE  /\ req[r].kind = "update" =>
                    req[r].row.notified \in {ZeroTime} \cup marks'[req[r].id]
               /\ req[r].kind = "create" => req[r].row.notified = ZeroTime
    <3>1. req[r].id \in Ids
      BY <2>2, Arrived DEF ClientInv, IInv, Request
    <3> QED BY <2>2, <3>1 DEF ClientInv, WriteBackInv, OnceMarked
  <2> QED BY <2>1, <2>2 DEF WriteBackInv, OnceMarked, Stored
<1>4. CountInv'
  BY DEF ClientInv, CountInv, Writers
<1> QED BY <1>1, <1>2, <1>3, <1>4 DEF ClientInv
=============================================================================
