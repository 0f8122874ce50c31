----------------------------- MODULE CalendarApi -----------------------------
(***************************************************************************)
(* The requests of the calendar process: the HTTP and the gRPC handlers,   *)
(* the App they share and the storage statements they issue.  A handler    *)
(* reads the row, checks its owner and writes in separate statements, and  *)
(* requests run concurrently, each in a goroutine of its own.              *)
(*                                                                         *)
(* A request is a record that goes through the phases                      *)
(*    read   the App.GetEvent of getEventByRequest (HTTP) or GetEvent      *)
(*    check  the storage.GetEvent of App.UpdateEvent and App.DeleteEvent   *)
(*    write  the storage.AddEvent, UpdateEvent or DeleteEvent              *)
(*    confirm  the SELECT after the INSERT of the SQL AddEvent             *)
(*    done   answered                                                      *)
(***************************************************************************)
EXTENDS EventStore, FiniteSets

CONSTANTS
  Requests,      \* the requests
  Patches,       \* the JSON bodies of HTTP updates, as functions on some fields
  Storages,      \* the values config.Storage.Type may have: "sql", "memory"
  ApiFaults      \* {"db"} if statements of the SQL storage may fail, or {}

Fields == {"title", "start", "end", "before"}

\* UnmarshallEvent sets the fields of the event that the JSON has.
Merge(d, patch) ==
  [f \in Fields |-> IF f \in DOMAIN patch THEN patch[f] ELSE d[f]]

ASSUME MergeAssumption == \A d \in Drafts, p \in Patches : Merge(d, p) \in Drafts

ASSUME StorageAssumption == Storages \subseteq {"sql", "memory"}

VARIABLES
  events,   \* the table
  req,      \* the requests
  storage,  \* config.Storage.Type, read when the process starts
  \* History, see Scheduler:
  rev, marks

apiVars == <<events, rev, marks, req, storage>>

Phases == {"new", "read", "check", "write", "confirm", "done"}
Kinds == {"create", "update", "delete", "get"}
Replies == {"none", "ok", "notfound", "denied", "error"}

\* body: what the client sent, a draft or a patch.
\* row: the event the handler works on.  wrote: history, the table was changed.
Request == [phase: Phases, kind: Kinds, via: {"http", "grpc"}, id: Ids, user: Users,
            body: Drafts \cup Patches \cup {NoRow}, row: Row \cup {NoRow},
            reply: Replies, wrote: BOOLEAN]

NoRequest == [phase |-> "new"]

NewRequest(phase, kind, via, id, u, body, row) ==
  [phase |-> phase, kind |-> kind, via |-> via, id |-> id, user |-> u,
   body |-> body, row |-> row, reply |-> "none", wrote |-> FALSE]

Creates(r) == req[r] # NoRequest /\ req[r].kind = "create"

Init ==
  /\ events = EmptyTable
  /\ rev = [id \in Ids |-> 0]
  /\ marks = [id \in Ids |-> {}]
  /\ req = [r \in Requests |-> NoRequest]
  /\ storage \in Storages
-----------------------------------------------------------------------------
(***************************************************************************)
(* Requests arrive, with a valid user in the header.                       *)
(***************************************************************************)
Arrives(r, request) ==
  /\ req[r].phase = "new"
  /\ req' = [req EXCEPT ![r] = request]
  /\ UNCHANGED <<events, rev, marks>>

\* createEvent and CreateEvent.  The id the row will get, a fresh uuid, is
\* chosen here: no row had it and no other request has it.
Create(r) ==
  \E via \in {"http", "grpc"}, id \in Ids, u \in Users, d \in Drafts :
    /\ rev[id] = 0
    /\ \A q \in Requests : Creates(q) => req[q].id # id
    /\ Arrives(r, NewRequest("write", "create", via, id, u, d, NewRow(u, d)))

\* The HTTP handler reads the event before it calls the App.
HttpUpdate(r) ==
  \E id \in Ids, u \in Users, p \in Patches :
    Arrives(r, NewRequest("read", "update", "http", id, u, p, NoRow))

\* unmarshalEvent builds the whole event, with a zero NotifiedAt.
GrpcUpdate(r) ==
  \E id \in Ids, u \in Users, d \in Drafts :
    Arrives(r, NewRequest("check", "update", "grpc", id, u, d, NewRow(u, d)))

HttpDelete(r) ==
  \E id \in Ids, u \in Users :
    Arrives(r, NewRequest("read", "delete", "http", id, u, NoRow, NoRow))

GrpcDelete(r) ==
  \E id \in Ids, u \in Users :
    Arrives(r, NewRequest("check", "delete", "grpc", id, u, NoRow, NoRow))

Get(r) ==
  \E via \in {"http", "grpc"}, id \in Ids, u \in Users :
    Arrives(r, NewRequest("read", "get", via, id, u, NoRow, NoRow))
-----------------------------------------------------------------------------
(***************************************************************************)
(* The statements.                                                         *)
(***************************************************************************)
At(r, phase) == req[r].phase = phase

\* Mutant: the App looks only whether the event is there.
OwnedByAnyone(r) == Stored(events, req[r].id)

\* The look at the table by which the App refuses what is not there or not the
\* user's.
Owned(r) ==
  Stored(events, req[r].id) /\ events[req[r].id].user = req[r].user

Refusal(r) == IF Stored(events, req[r].id) THEN "denied" ELSE "notfound"

Answer(r, reply) ==
  req' = [req EXCEPT ![r].phase = "done", ![r].reply = reply]

\* App.GetEvent, called by the handler: it refuses, or answers a get, or the
\* handler of an update puts the fields of the JSON into the event it got.
ReadRefused(r) ==
  /\ At(r, "read") /\ ~Owned(r)
  /\ Answer(r, Refusal(r))
  /\ UNCHANGED <<events, rev, marks>>

ReadAnswered(r) ==
  /\ At(r, "read") /\ Owned(r) /\ req[r].kind = "get"
  /\ req' = [req EXCEPT ![r].phase = "done", ![r].reply = "ok",
                        ![r].row = events[req[r].id]]
  /\ UNCHANGED <<events, rev, marks>>

Target(r) ==
  IF req[r].kind = "update"
  THEN [events[req[r].id] EXCEPT !.draft = Merge(@, req[r].body)]
  ELSE NoRow

ReadTarget(r) ==
  /\ At(r, "read") /\ Owned(r) /\ req[r].kind # "get"
  /\ req' = [req EXCEPT ![r].phase = "check", ![r].row = Target(r)]
  /\ UNCHANGED <<events, rev, marks>>

\* App.UpdateEvent and App.DeleteEvent look again.  Both handlers of the
\* deletion answer 500, or Internal, to every error of App.DeleteEvent.
CheckRefused(r) ==
  /\ At(r, "check") /\ ~Owned(r)
  /\ Answer(r, IF req[r].kind = "delete" THEN "error" ELSE Refusal(r))
  /\ UNCHANGED <<events, rev, marks>>

CheckPassed(r) ==
  /\ At(r, "check") /\ Owned(r)
  /\ req' = [req EXCEPT ![r].phase = "write"]
  /\ UNCHANGED <<events, rev, marks>>

\* Mutant: the UPDATE is an upsert.
WrittenAnyway(r) ==
  CASE req[r].kind \in {"create", "update"} -> AddEvent(events, req[r].id, req[r].row)
    [] req[r].kind = "delete" -> DeleteEvent(events, req[r].id)

\* The write of a request, executed.  Writing the row that is there is no new
\* revision of it.
Written(r) ==
  CASE req[r].kind = "create" -> AddEvent(events, req[r].id, req[r].row)
    [] req[r].kind = "update" -> UpdateEvent(events, req[r].id, req[r].row)
    [] req[r].kind = "delete" -> DeleteEvent(events, req[r].id)

Execute(r) ==
  /\ events' = Written(r)
  /\ rev' = IF req[r].kind # "delete" /\ Written(r) # events
            THEN [rev EXCEPT ![req[r].id] = @ + 1]
            ELSE rev
  /\ UNCHANGED marks

\* The row may have gone since the check.  The memory storage finds out and
\* the App passes its error on; the SQL storage does not look at the number of
\* rows it changed.
Misses(r) == req[r].kind # "create" /\ ~Stored(events, req[r].id)

\* Mutants: the memory storage writes before it looks; it does not look.
WriteThenLook(r) ==
  /\ At(r, "write")
  /\ events' = [events EXCEPT ![req[r].id] = req[r].row]
  /\ req' = [req EXCEPT ![r].phase = "done",
                        ![r].reply = IF Misses(r) THEN "error" ELSE "ok",
                        ![r].wrote = TRUE]
  /\ rev' = [rev EXCEPT ![req[r].id] = @ + 1]
  /\ UNCHANGED marks

WriteUnseen(r) ==
  /\ At(r, "write")
  /\ Execute(r)
  /\ req' = [req EXCEPT ![r].phase = "done", ![r].reply = "ok",
                        ![r].wrote = ~Misses(r)]

Write(r) ==
  /\ At(r, "write")
  /\ Execute(r)
  /\ req' = [req EXCEPT
       ![r].phase = IF req[r].kind = "create" /\ storage = "sql"
                    THEN "confirm" ELSE "done",
       ![r].reply = IF req[r].kind = "create" /\ storage = "sql" THEN "none"
                    ELSE IF Misses(r) /\ storage = "memory" THEN "error"
                    ELSE "ok",
       ![r].wrote = ~Misses(r)]

\* AddEvent of the SQL storage reads the new row back.
Confirm(r) ==
  /\ At(r, "confirm")
  /\ Answer(r, IF Stored(events, req[r].id) THEN "ok" ELSE "error")
  /\ UNCHANGED <<events, rev, marks>>

\* A statement fails, or its answer is lost after it was executed.
Fails(r) ==
  /\ "db" \in ApiFaults /\ storage = "sql"
  /\ req[r].phase \in {"read", "check", "write", "confirm"}
  /\ \/ /\ Answer(r, "error")
        /\ UNCHANGED <<events, rev, marks>>
     \/ /\ At(r, "write")
        /\ Execute(r)
        /\ req' = [req EXCEPT ![r].phase = "done", ![r].reply = "error",
                              ![r].wrote = ~Misses(r)]

Serve(r) ==
  \/ ReadRefused(r) \/ ReadAnswered(r) \/ ReadTarget(r)
  \/ CheckRefused(r) \/ CheckPassed(r)
  \/ Write(r) \/ Confirm(r) \/ Fails(r)

Arrive(r) ==
  \/ Create(r) \/ HttpUpdate(r) \/ GrpcUpdate(r)
  \/ HttpDelete(r) \/ GrpcDelete(r) \/ Get(r)

Handle(r) == Arrive(r) \/ Serve(r)
Next ==
  /\ \E r \in Requests : Handle(r)
  /\ UNCHANGED storage

Spec == Init /\ [][Next]_apiVars
-----------------------------------------------------------------------------
TypeOK ==
  /\ events \in Table
  /\ rev \in [Ids -> Nat]
  /\ marks \in [Ids -> SUBSET Nat]
  /\ req \in [Requests -> Request \cup {NoRequest}]
  /\ storage \in {"sql", "memory"}

Done(r) == At(r, "done")

\* The step that request r takes changes the row of an event only if the event
\* belongs to the user of the request, and no step gives an event another
\* owner: the check is made on an earlier read than the write.
OnlyOwnerChanges ==
  [][\A id \in Ids : \A r \in Requests :
       (Stored(events, id) /\ events'[id] # events[id] /\ req'[r] # req[r]) =>
         /\ req[r].user = events[id].user
         /\ Stored(events', id) => events'[id].user = events[id].user]_apiVars

(***************************************************************************)
(* The inductive invariant behind it: an id is used for one row only, and  *)
(* what a check has found of the owner stays true until the write, because *)
(* no write gives a row another owner.                                     *)
(***************************************************************************)
IdsInv ==
  /\ \A id \in Ids : Stored(events, id) => rev[id] > 0
  /\ \A r \in Requests : (Creates(r) /\ At(r, "write")) => rev[req[r].id] = 0
  /\ \A r \in Requests : (~Creates(r) /\ At(r, "write")) => rev[req[r].id] > 0
  /\ \A r, q \in Requests :
       (r # q /\ Creates(r) /\ Creates(q)) => req[r].id # req[q].id

RowsInv ==
  \A r \in Requests :
    /\ (At(r, "read") /\ req[r].kind = "update") => req[r].body \in Patches
    /\ At(r, "read") => req[r].kind # "create"
    /\ At(r, "check") => req[r].kind \in {"update", "delete"}
    /\ At(r, "write") => req[r].kind \in {"create", "update", "delete"}
    /\ (req[r].phase \in {"check", "write"} /\ req[r].kind # "delete") =>
         req[r].row \in Row /\ req[r].row.user = req[r].user

OwnerInv ==
  \A r \in Requests :
    (At(r, "write") /\ ~Creates(r) /\ Stored(events, req[r].id)) =>
      events[req[r].id].user = req[r].user

IInv == TypeOK /\ IdsInv /\ RowsInv /\ OwnerInv

\* A request that was refused has changed nothing, nor has one that failed on the
\* memory storage (the answer of PostgreSQL may be lost after the change).
RefusedLeavesNoTrace ==
  \A r \in Requests :
    ( /\ Done(r)
      /\ \/ req[r].reply \in {"notfound", "denied"}
         \/ req[r].reply = "error" /\ storage = "memory" ) => ~req[r].wrote

\* A write that was answered with success was made: the event was in the table
\* when the statement ran (memory/storage_test.go expects ErrEventNotFound of
\* the storage otherwise).
SuccessMeansWritten ==
  \A r \in Requests :
    (Done(r) /\ req[r].reply = "ok" /\ req[r].kind # "get") => req[r].wrote

\* On the memory storage that is so, although the event may have gone between
\* the check of its owner and the write.
MemorySuccessMeansWritten == storage = "memory" => SuccessMeansWritten

(***************************************************************************)
(* The inductive invariant behind these two: a handler that has not got to *)
(* its write has written nothing, and only the SQL storage has a statement *)
(* after it that may still fail.                                           *)
(***************************************************************************)
ReplyInv ==
  /\ \A r \in Requests :
       /\ req[r].phase \in {"read", "check", "write"} => ~req[r].wrote
       /\ At(r, "confirm") => storage = "sql"
  /\ RefusedLeavesNoTrace
  /\ MemorySuccessMeansWritten

(***************************************************************************)
(* What another process on the same table has to know of the requests: the *)
(* NotifiedAt they write back is one that the row once had, and no id is   *)
(* written more often than there are requests.                             *)
(***************************************************************************)
OnceMarked(id) == {ZeroTime} \cup marks[id]

WriteBackInv ==
  /\ \A id \in Ids : Stored(events, id) => events[id].notified \in OnceMarked(id)
  /\ \A r \in Requests : req[r].phase \in {"check", "write"} =>
       /\ req[r].kind = "update" => req[r].row.notified \in OnceMarked(req[r].id)
       /\ req[r].kind = "create" => req[r].row.notified = ZeroTime

Writers(id) == {r \in Requests : req[r].phase # "new" /\ req[r].wrote /\ req[r].id = id}

CountInv == \A id \in Ids : rev[id] <= Cardinality(Writers(id))
=============================================================================
