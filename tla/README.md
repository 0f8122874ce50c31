# Formal model of the calendar service and the exercises around it

The repository holds one real system, the calendar service of
`src/hw12_13_14_15_calendar` (five programs, two storages, a message broker), and
eleven exercises, each a small Go program. This directory holds TLA+ models of
them, TLC configurations that check small instances, and proofs that TLAPS checks
for every instance. The calendar service comes first, because that is where the
hard behaviour is. Paths below are relative to `src/hw12_13_14_15_calendar`
unless they begin with `src/`.

## 1. The system

```
 HTTP / gRPC clients
        |
   [calendar]  --- SQL --->  (Events table)  <--- SQL ---  [calendar_scheduler]
   handlers, App               or a Go map                  notify + delete goroutines
                                                                   |  AMQP
                                                            (queue of notifications)
                                                                   |
                                                            [calendar_sender]
                                                            handler threads ---> (exchange of the senders)
```

| Component | State | Operations | Hard behaviour |
|---|---|---|---|
| Event storage (`internal/storage`) | the Events table: a row of SQL, or a map under a mutex | add, update, delete, delete by filter, mark as notified, select what is due, list | two implementations that answer differently to a missing row; strict comparisons |
| Calendar API (`cmd/calendar`, `internal/app`, `internal/server`, `internal/json`) | requests in flight | create, update, delete, get, lists, over HTTP and gRPC | the owner is checked on a read that precedes the write; HTTP merges, gRPC overwrites; a scheduler writes the same rows |
| Scheduler (`internal/scheduler`, `internal/queue/producer.go`) | two goroutines, a batch, an AMQP connection, a context | select, publish, mark; delete expired events; stop | other processes write between select, publish and mark; failures of each call; kills, restarts, a lost connection |
| Sender (`internal/sender`, `internal/queue/consumer.go`) | handler threads with a variable each, deliveries, two connections | deliver, receive, send on, acknowledge; stop | redelivery, prefetch, closed channels, a variable that outlives its message |
| Life cycle (`cmd/*/main.go`, `internal/server/*/server.go`) | servers or worker, a context, `s.server` or `s.cancel` | start, stop on a signal or a failure | nothing orders Start and Stop; calls in progress |
| Event queries (`GetEvents` of both storages, the list endpoints) | none | search, sort, a day, a week, a month | two implementations of one query; boundaries of periods |
| Middleware, logger, config, version, migrations, generated gRPC code | | | none that other parts depend on |
| hw04 LRU cache (`src/hw04_lru_cache`) | a doubly linked list and a map of its items | set, get, clear; push, remove, move | long sequences of calls on pointers; capacity |
| hw05 parallel runner (`src/hw05_parallel_execution`) | n goroutines, a channel of tasks, a counter of errors | run all tasks up to m errors | the counter is tested before the receive; uint32 |
| hw06 pipeline (`src/hw06_pipeline_execution`) | goroutines in a row on unbuffered channels | execute, done | relays return one by one; sends without a way out |
| hw11 telnet (`src/hw11_telnet_client`) | two goroutines, a socket, a context, a flag without a lock | connect, send, receive, close | who ends whom; blocking reads; two closes |
| hw07 copying (`src/hw07_file_copying`) | files, a position | validate, stat, open, seek, create, copy | the source changes between two calls; boundaries |
| hw08 envdir (`src/hw08_envdir_tool`) | the Environment, the environment of the process | read the directory, set, run | one entry of several fails; order of a map |
| hw09 validator (`src/hw09_struct_validator`) | none | choose and make validators, validate fields | an error in a tag after errors of values |
| hw02, hw03, hw10 (unpacking, words, domains) | none | pure functions | boundaries, ties, letter case |
| hw01 hello | none | | prints one line |

What makes each part correct, in the order of the models:

* **Scheduler**: an event that is due is published; not twice by one process, whatever
  fails; it is marked only if it was published; what was deleted stays deleted; only
  expired events are removed, and all of them are.
* **API**: only the owner of an event changes it, although the check and the write are
  two statements; a refused request leaves no trace; a success means a write.
* **Both together**: what requests do to the table is what the scheduler was modelled
  to expect of its environment.
* **Sender**: no notification is lost; none is acknowledged before it was sent on;
  duplicates come from redelivery only; a notification is of one message; every
  readable one gets through.

* **Life cycle**: a program that leaves in order cuts off no gRPC call and no cycle; it
  leaves only when asked or when something it depends on has failed, and then it does.
* **Event queries**: both storages give the same answers; an event is in one day.
* **Parallel runner**: no task twice; at most n + m tasks when errors exceed the limit;
  the result tells which; nothing runs on after the return.
* **LRU cache**: the pointers form one list, the map holds its items, and the two
  together are a list of pairs in the order of use.
* **Pipeline, telnet**: values and lines come in order, complete unless stopped; both end.
* **The sequential tools**: what the copy, the command, the errors, the strings and the
  counts have to be, by definitions independent of the code's.

`PROJECT.json` lists the hazards one by one at their lines, with the properties that
cover them.

## 2. Modules

| Module | Models | EXTENDS / INSTANCE |
|---|---|---|
| `EventStore` | rows, the statements of both storages as operators on a table | |
| `Scheduler` | the scheduler process, with clients as environment; `IInv`, `CutoffInv` | EventStore |
| `CalendarApi` | requests, one storage statement per step; `IInv` | EventStore |
| `Calendar` | the composition: the requests take the place of the environment | EventStore, `Sched == INSTANCE Scheduler`, `Api == INSTANCE CalendarApi` |
| `Sender` | the sender process and the broker's side of its queue; `IInv` | |
| `Lifecycle` | start and stop of the three programs; `LifeInv` | |
| `EventQuery` | queries of both storages, as operators | |
| `ParallelRun` | hw05 `Run`; `RunInv` | |
| `LinkedList`, `ListSpec` | hw04 `list.go` with its pointers; a sequence | |
| `LruCache`, `LruSpec` | hw04 `cache.go`; the pairs in the order of use; `CacheInv` | LinkedList, `Lru == INSTANCE LruSpec`, `AbstractList == INSTANCE ListSpec` |
| `Pipeline`, `Telnet` | hw06, hw11; `PipeInv`, `TelnetInv` | |
| `FileCopy`, `EnvDir` | hw07, hw08, a system call per step; `CopyInv`, `EnvInv` | |
| `StructValidator`, `TextTools` | hw09; hw02, hw03 and hw10, as operators | |
| `EventStore_proof`, `Scheduler_proof`, `Sender_proof`, `LruCache_proof` | lemmas and theorems | the module they are about, TLAPS |
| `CalendarApi_proof` | the requests; what they and another process do to the table, and to what requests have read of it | CalendarApi, TLAPS |
| `Calendar_proof` | the requests and the scheduler are the scheduler with its clients | Calendar, `Client == INSTANCE CalendarApi_proof` |
| `Programs_proof` | the pipeline, the telnet client, the life cycle, the parallel runner, their composition in `MCPrograms` | MCPrograms, TLAPS |
| `Tools_proof` | the copy and go-envdir; the lemmas about folds; the queries, `Validate` and the functions on texts, for any input and for those of `MCTools` | MCTools, TLAPS |
| `MCScheduler`, `MCCalendarApi`, `MCCalendar`, `MCSender`, `MCLruCache` | values of the constants, symmetry | the module they instantiate |
| `MCPrograms` | one of `Pipeline`, `Telnet`, `Lifecycle`, `ParallelRun` per behaviour, while the other three rest in a state where all has returned | those four |
| `MCTools` | `FileCopy` or `EnvDir` step by step, or one of the functions on an input that grows | FileCopy, EnvDir, EventQuery, StructValidator, TextTools |

### EventStore

A table is a function from ids to a row or `NoRow`. A row is its owner, what the
client said (`draft`: a title that stands for title and description, the start, the
end, the time before) and `notified`, the `NotifiedAt` column. Every method of the
storages is one SQL statement or runs under the mutex, hence one operator:
`AddEvent`, `UpdateEvent`, `DeleteEvent`, `DeleteEndedBefore` (`DeleteEvents` with
the only filter in use), `SetNotified`, `NotificationNeeded`. Instants are naturals;
the zero time is `-1`.

### Scheduler

`nPc` and `dPc` say where the goroutines of `S.Start` are. The notification
goroutine goes `idle` (the `select` on timer and context), `selecting` (the query
of `notify`), `publishing` (the head of its loop), `marking` (between `Publish` and
`SetEventsNotified`), `done` (returned). Its locals are `cycle` (t), `batch` (what
the loop has not reached), `current`, `failed` (the collected errors). The deletion
goroutine has `cutoff`, the filter it computed before the statement. `ctx` and `conn`
are the context and the producer's connection, which nothing opens again. Each
storage or AMQP call is a step, so everything else can happen in between; each call
can fail (`Faults`), and a failed statement may have been executed. `rev`, `marks`,
`seen`, `starts`, `published` are history that no guard of the code's steps reads
(`starts` and `rev` also carry the bounds).

### CalendarApi

A request goes through the phases `read`, `check`, `write`, `confirm`, `done`. HTTP
updates and deletions read the event (`getEventByRequest`) before the App reads it
again; gRPC ones start at the App's own look. The row an HTTP update writes is the
row it read with the fields of the JSON put in, its `NotifiedAt` included; the row of
a gRPC update is built from nothing, with a zero `NotifiedAt`. `confirm` is the
SELECT after the INSERT of the SQL `AddEvent`. `storage` is the configured storage.

### Calendar

`Next` is a step of a request (`Api!Handle`) or of the scheduler and the clock.
`ApiActsAsClient == Sched!Spec` is the refinement: every step of a request is a
`Client` step of `Scheduler` or leaves its variables alone. Because of it, what is
proved of `Scheduler` for its assumed clients holds for the real ones.

### Sender

`ready`, `unacked` and `inbox` are the queue, what the connection has delivered, and
the part of it in the Go channel. A handler is `idle` (the `select`), `sending`,
`acking` or `done`. `msg` is its delivery and `event` its event variable, which
`Handle` declares outside the loop. Messages are of three kinds by what
`UnmarshallEvent` makes of them: read whole, with a quote in the title (`MarshallEvent`
does not escape, and the later fields are not found), or with an end date that does
not parse. Parts of a notification are named by the message they come from, which is
enough to say whether a notification mixes two. The broker is external: manual
acknowledgements, a prefetch, and redelivery when a connection ends.

### Lifecycle

`program` says whether the process is `calendar`, with the services `http` and `grpc`,
or a scheduler or sender, with the service `worker`. `start[s]` is where the goroutine
that calls `Start` is: `opened` (listening, or connected to the broker), `made`
(`s.server` or `s.cancel` is set, which `made` records for `Stop`), `serving`,
`returned`. `stop[s]` is the goroutine that waits for the context and calls `Stop`.
`inflight` counts requests, or is the cycle of a worker. Open, make and serve are steps
of their own, so a signal or another service's failure can come between any two. `Stop`
of what was not made panics, as the nil dereference does. `ListenAndServe` returns when
`Shutdown` begins, `Serve` when `GracefulStop` is over: that is what the two libraries
document. Either also returns at once when its listener fails (`ServeFails`): `Start` then
logs the error (`grpc/server.go:44`) or drops it and returns nil, the context lives on, and
`start[s]` is `deaf`, with calls that still come over the open connections and that nobody
waits for.

### EventQuery

Operators only: `MemoryGetEvents` and `SqlGetEvents` are the sets of answers the two
storages may give to a list of conditions and of sort fields. The memory storage
compares whole seconds and hands its comparison to an unstable sort that is fed from a
map; where that comparison is no order, any order may come out. The SQL one builds a
text with numbered placeholders and a list of arguments, and the model looks the
arguments up by those numbers. `ORDER BY` follows the places of the strings in the
collation of the database (`Collation`, a constant), the memory storage their bytes.
`EventsForPeriod` is the one query the API makes.

### ParallelRun

A goroutine is `testing` (the head of its loop), `receiving`, `running` a task,
`counting` an error, or `done`. `received` stands for the channel, which was filled and
closed before: what is left are the tasks above it. `errors` is the atomic counter,
modulo `Modulus`. `result` is what `Run` returned, `outcome` history.

### LinkedList and LruCache

A list is a record of the struct and of the fields of all items it may point to.
`PushFront`, `PushBack`, `Remove` and `MoveToFront` assign the same pointers in the same
cases as the methods. The cache has its `queue` and `items`, the map. `LruCache` has a
caller's list beside it, so that the list is checked also for the calls the cache never
makes. `Content`, the values along the `Next` pointers, is the refinement mapping to
`ListSpec` (a sequence with insertion, removal and moving) and `LruSpec` (pairs in the
order of use, of which no more than the capacity are kept).

### Pipeline and Telnet

The goroutines of a pipeline stand in a row: the source at 0, the relay of stage s at
2s - 1, the stage at 2s, the reader at the end. A channel is unbuffered, so a value goes
over it in one step of both its ends. `done` is seen by relays only, while they receive.

In `Telnet` the two goroutines go through `select` (the look at the context), `call`,
`blocked` (in the read), `writing`, and after an error through `stopping`, `closing`,
`closeConn` and `closed`: the two closes of one client interleave statement by
statement. The socket is `conn`, with a peer that closes, a reset that comes back after a
write to a closed peer, and a network that fails while both sides are there. On this side
`Send` fails at an error of stdin, `Receive` at a line too long for the scanner and at an
error of stdout, and `printStderr` ends the process when stderr fails (`Fault`; `faults`
remembers which came). A signal cancels the context after `signal.NotifyContext`
and before `stop`, and kills the process outside.

### FileCopy and EnvDir

One system call per step. In `FileCopy` another process removes or rewrites the source
between two of them. In `EnvDir` an entry disappears between the listing and the read,
and the map is walked in any order. The other exercises are operators in
`StructValidator` and `TextTools`, each translated statement by statement, next to a
reference definition that is written from the task and not from the code.

A string of `StructValidator` is a sequence of characters, each of `Width` bytes; `len`
counts the bytes (`Bytes`), the exercise the characters. A regular expression is what its
text stands for and how that ends: the code appends a "$" to a text that has none, and
takes an escaped one for it (`AddEnd`). A text cannot have alternatives, because the tag is
split at "|" before (`validator.go:137`). In `TextTools` the lines are those the scanner of
`countDomains` delivers, and `cut` says that it stopped with an error.

## 3. Runs

Every run is exhaustive for its bounds.

| Run | Question | Answer |
|---|---|---|
| `scheduler_safety` | `OncePerRun`, `MarksAreEvidenced`, `DeletedStaysDeleted`, `ScheduledDeleteOnlyExpired` with two events, two starts, every failure | hold (1.5 million states) |
| `scheduler_live` | `DueEventuallyPublished`, `ExpiredEventuallyDeleted` with kills, stops and restarts and a broker that is lost, events that nobody updates: expired events are deleted also when the notification goroutine has died, and due ones are published unless it has and nobody starts the process again | hold |
| `scheduler_update_race` | `DueEventuallyPublished` when the owner updates during a batch, no failures | violated |
| `api_requests` | `OnlyOwnerChanges`, `RefusedLeavesNoTrace`, `MemorySuccessMeansWritten`: three requests of two users, either storage, failing statements | hold |
| `calendar` | `ApiActsAsClient` and `DueEventuallySettled` of the composition | hold (0.6 million states, about 2 minutes) |
| `sender_safety` | `NoMessageLost`, `AckedOnlyIfSent`, `OnlyUnreadableAbandoned`, `SentOnceWhileConnected`, `PlainNotificationsIntact`: two handlers, one message of each kind, two starts, every failure | hold |
| `sender_acks` | `EveryMessageAcked` with kills and stops, one unreadable message and a prefetch of two | holds |
| `sender_quoted` | `NotificationsUnmixed`: no notification has the user or the dates of another message; a missing one is no violation | violated |
| `lru_cache` | `RepresentationOK`, `CacheImplementsLru`, `ListImplementsSequence`: all calls on four items, capacities 0 to 3 | hold (a thousand states under symmetry) |
| `programs` | `OutputIsSource`, `OutputEnds`, `TakenIsDelivered` of the pipeline; `ClientLeavesInOrder`, `ClientEnds` of telnet with every failure; `LeavesInOrder`, `StartedStopsInOrder`, `ProgramEnds` of the three programs; `BoundedOverrun`, `ResultTellsErrors`, `EachTaskOnce`, `RunReturns` of `Run` with up to three goroutines, none or four tasks, limits from -1 to one that is 0 as a uint | hold (117 thousand states, about 3 minutes) |
| `telnet_sigint` | `SigintEnds`: a signal ends the telnet client | violated |
| `tools` | `CopyIsRight`, `CommandRunsAsMeant`, `PeriodsAreExact`, `QueriesAgree`, `StructsAreValidated`, `TextsAreRight` | hold (212 thousand states) |

Some of these are conjunctions of named parts, defined next to each other in the module
they are about: `ClientEnds`, for instance, is `EofEndsProgram`,
`RefusedWriteEndsProgram`, `FailureEndsReceiver` and `SignalEndsGoroutines`. Type invariants of the modules
with theorems are proved (section 4); those of the small programs are also checked, in
`RepresentationOK`, `CopyIsRight` and the `TypeOK` of `MCPrograms`.

The three violated properties are what `docs/CALENDAR.MD`, the tests and the README of the
telnet client promise; `PROJECT.json` ("findings") quotes them:

* `SetEventsNotified` marks by id only (`scheduler.go:153`): a gRPC update between the
  selection and the mark makes a revision that is marked and never published.
* A title with a quote makes the sender send the user and the dates of the message
  before it (`sender.go:77`). In the trace a plain message comes first and its parts are
  sent under the id of the second. (A quoted message that comes first is sent with zero
  values, which `NotificationsUnmixed` allows.)
* A SIGINT does not end the telnet client while both its goroutines wait in a read
  (`main.go:41`): `signal.NotifyContext` takes the signal, nobody looks at the context, and
  the next SIGINT is taken too, because `stop` was not called.

### Limits of what holds

Where a property above is limited to some case, the code does otherwise in the others.
The models take these steps too; the properties say where they stop:

* One error ends the notification goroutine for good (`scheduler.go:88`) while the
  deletion goroutine keeps the process alive: `DueEventuallyPublished` leaves out a
  notification goroutine that is dead for ever (`NotifierDead`).
* The SQL `UpdateEvent` and `DeleteEvent` report success for a row that is gone
  (`sql/storage.go:118`), hence `MemorySuccessMeansWritten`.
* The closed channel of deliveries is not recognised (`sender.go:85`), and the last
  notification is sent again and again, hence `SentOnceWhileConnected`.
* An unreadable message is neither acknowledged nor rejected (`sender.go:86`), and as
  many as the prefetch stop the sender: `EveryMessageAcked` needs fewer.
* `Stop` before `Start` panics, hence `StartedStopsInOrder` begins when all is made;
  HTTP requests are cut off by the exit of `main`, which does not wait for `Shutdown`
  (`http/server.go:53`), so `NothingCutOff` is about gRPC calls and cycles.
* A server whose listener fails while it serves leaves the other one alone
  (`grpc/server.go:44` logs the error, `http/server.go:46` drops it, nothing cancels the
  context), and an HTTP server that cannot listen does the same: `FailureEnds` is about a
  gRPC server that cannot listen and the workers. Its calls over open connections are
  waited for by nobody, and the exit cuts them off: `NothingCutOff` leaves a deaf gRPC
  server out. When both servers are deaf, `main` leaves (`Reason`).
* The storages differ within a second, in an empty `IN`, and in comparisons the memory
  storage has no case for: `QueriesAgree` is for whole seconds and for queries that both
  answer. In an order by a string they agree only when the collation of the database
  orders the strings of the table like their bytes (`CollationKeeps`), which PostgreSQL's
  default collations do not; the events found are the same. The queries of the API order
  by times only, and are exact at any fraction (`PeriodsAreExact`).
* A counter of errors near 2^32 wraps around: `Limited` excludes it.
* After `done` a relay or a stage may stay blocked in a send (`pipeline.go:45`):
  `OutputEnds` needs a reader that reads on, and says nothing of those goroutines.
* A telnet goroutine in a read does not see a signal (`Idle`), hence the wording of
  `SignalEndsGoroutines`; and nothing ends a sender that waits for stdin when the receiver
  has failed (`FailureEndsReceiver` is about the receiver only). A last line without a
  newline is not sent: lines are whole in the model. Two failures at once may end in
  `log.Fatalln`. SIGPIPE, with which the Go runtime ends a process whose stdout is a
  broken pipe, is not modelled: the write fails with an error.
* The `len` of the validator counts bytes (`validators.go:61`), while
  `src/hw09_struct_validator/README.md:25` speaks of the length of the string ("длина
  строки должна быть ровно 32 символа", exactly 32 characters); and an expression that
  ends with an escaped "$" gets no end (`validators.go:218`), although the comment at
  `validators.go:213` says that the whole string has to match. `ValidateIsRight` has the
  meaning of the exercise, and names these two departures (`Departs`): an element they
  concern may get its error or not. Flags like `(?m)`, quoting with `\Q` and a lone
  backslash at the end of an expression, which would also change what a "$" behind it
  means, are left out.
* A line beyond the scanner's buffer, or an error of the reader, is an error of
  `countDomains` whatever was counted before (`stats.go:44`).
* Copying a file onto itself empties it and reports success (`copy.go:96`).
* A first line too long for the scanner's buffer becomes an empty value
  (`env_reader.go:39`).
* An error in a tag hides the errors of values found before it (`validator.go`).

### Bounds

`MaxTime`, `MaxRev` (writes of clients to one event) and `MaxStarts` bound the
scheduler; `Requests` the API; `MaxStarts` and the set of messages the sender. The
drafts of `MCScheduler` are an event to be notified at instant 1 and over at 1, and
one to be notified at 2 and over at 3. With an expiration of 1 and a clock up to 3,
events become due, are marked, become due again after an update and expire, each
before, during and after a batch. Two revisions are what a race between an update and
a batch needs, and two starts a crash between two steps. Three requests are two that
conflict and one that takes the row away. Two handlers and a prefetch of two allow a
full window, and the counter of sends in a start stops at two, one more than the
property allows. The last start within the bound is never killed or stopped, so that
the liveness runs do not end with the process down because of the bound; the clock may
stop at any instant, which no property minds.

`Run` in `programs` has one goroutine more than it takes for two to pass the test at once,
more tasks than goroutines, and a counter of three bits, so that a limit beyond it is
reached. In `lru_cache` there is one key and one item more than the largest capacity:
the middle of a list, its two ends, and a list of one are all there. The pipeline of
`programs` has up to three stages and as many values, so a value may be in front of,
between and behind relays that have returned; two requests are in progress at a time. The
telnet client has two lines of the user and one of the peer, so that one is on its way
while another waits, and each thing that can fail may do so at any step.
The inputs of `tools` are named in `MCTools`: the offsets and limits lie on, before and
behind the ends of every content; events are placed on both ends of two days, and one
to three days are asked for; titles are in another order in the collation than in bytes;
validated strings have a character of two bytes and a "$"; packed strings
have up to five runes, which are a letter, a slash and two digits; every pair of rules on
one field and of fields with one rule is validated. `MCPrograms` and `MCTools` run one
program per behaviour, because the programs share nothing.

Deadlock is not checked where a run may really stop: the clock at its bound, all
requests answered, the processes ended, or nothing to deliver.

### Fairness

Weak fairness of each goroutine (the Go runtime runs it, its timer fires, its calls
return) and of `Stop`. Strong fairness of the branches that see the cancelled context:
`select` takes a random ready branch, and between two cycles the context is ready
every time. In `Sender`, strong fairness of delivering and of receiving each message:
the queue and the channel are first in, first out, and the model keeps them as sets.
Weak fairness of `Start`: somebody starts a process that has ended. The compose file
restarts only `calendar` on a failure, so for the scheduler and the sender that is an
operator; without it nothing can be promised after a kill. Nothing is assumed of
clients, requests, the clock, signals or failures.

In `ParallelRun` the goroutines run and the tasks return. In `Pipeline` the relays and
stages run and the reader reads on, while the source need not send. In `Telnet` the two
goroutines and `main` run and a reset arrives that is on its way; the user and the peer
do what they like, and nothing has to fail. In `Lifecycle` the goroutines run and requests are answered; strong
fairness where a worker's `select` takes the cancelled context.

## 4. Theorems

Proved by TLAPS, for all sets of ids, users, drafts, messages, handlers, all
expirations, requests, patches, prefetches, keys, values, capacities, numbers of stages,
contents of files, tables, queries, structs, texts, failures and bounds:

* `Scheduler_proof`: `TypeCorrect`, `Invariance` (`Spec => []IInv`), `OncePerRunHolds`,
  `MarksAreEvidencedHolds`, `DeletedStaysDeletedHolds`, `ScheduledDeleteOnlyExpiredHolds`.
* `CalendarApi_proof`: `TypeCorrect`, `Invariance`, `OnlyOwnerChangesHolds`,
  `RefusedLeavesNoTraceHolds`, `MemorySuccessMeansWrittenHolds`.
* `Calendar_proof`: `CalendarInvariance`, `ApiActsAsClientHolds`, on the client lemmas of
  `CalendarApi_proof`.
* `Sender_proof`: `TypeCorrect`, `Invariance`, `NoMessageLostHolds`,
  `AckedOnlyIfSentHolds`, `OnlyUnreadableAbandonedHolds`, `SentOnceWhileConnectedHolds`,
  `PlainNotificationsIntactHolds`.
* `LruCache_proof`: `ListImplementsSequenceHolds`, `CacheInvariance`, `RepresentationHolds`,
  `CacheImplementsLruHolds`, for any set of items, lists of any length and any capacities.
* `Programs_proof`: `PipeInvariance`, `OutputIsSourceHolds`, for any number of stages and
  values; `TelnetInvariance`, `ClientLeavesInOrderHolds`, for any number of lines and any
  failures;
  `LifeInvariance`, `LeavesInOrderHolds`, for any number of requests in progress;
  `TypesHold` of the four in `MCPrograms`; `RunTypeCorrect`, `RunInvariance`,
  `BoundedOverrunHolds`, `ResultTellsErrorsHolds`, `NothingLeftRunningHolds`,
  `EachTaskOnceHolds`, for any numbers of goroutines and tasks, any limit and any width of
  the counter.
* `Tools_proof`: `CopyInvariance`, `CopyIsRightHolds`, for files of any size, any offset and
  any limit; `EnvInvariance`, `CommandRunsAsMeantHolds`, for any directory;
  `StoragesAlwaysAgree`, for any finite table, any list of conditions, any order and any
  collation;
  `PeriodAlwaysExact`, for any table, user, day and number of days; `ValidateAlwaysRight`,
  for structs of any number of fields, rules and elements; `UnpackAlwaysReads` and
  `UnpackAlwaysRefuses`, for strings of any length over any runes; `WordsAlwaysCounted`, for
  texts of any number of words and any limit; `DomainsAlwaysCounted`, for any number of lines
  and addresses of any length. `QueriesAgreeHolds`, `PeriodsAreExactHolds`,
  `StructsAreValidatedHolds` and `TextsAreRightHolds` are what they say of the inputs of
  `MCTools`.
* `EventStore_proof`: what each storage operator does to a table.

Assumptions (each named in the module that declares its constants): drafts are records
of their fields whose moment to notify is not before the zero of the clock; `NoRow` is
no row and `NoMsg` no message; the expiration and the bounds are naturals; the prefetch
is positive; a draft with the fields of a patch put in is a draft; the storages are the
two there are; `Requests` is finite and `MaxRev`, the bound of the writes to one event,
leaves every request its write; the goroutines of `Run` are a finite set, numbers of tasks naturals, limits
integers, and the counter counts at least one value; `Nil` is no item, capacities, lines,
stages and values are naturals; file contents are sequences of naturals; an environment
value is none of the words that stand for what is no value (`ValuesAssumption`); a failed
query is no list of events (`FailedAssumption`); the units of a second and the seconds of a
day are positive; what `strings.ToLower` gives is in lower case, and not empty
(`LowerCaseAssumption`); a backslash is no digit, and neither is the sign of an item without
a number (`RunesAssumption`); a collation tells strings apart (`CollationAssumption`), and a
character has a positive number of bytes (`WidthAssumption`); the run that rests in
`MCPrograms` is one of its instances (`RestAssumption`); the words and letters of `MCTools` are numbers with a lower
case, a dot is no letter, and a letter no digit (`MCTextAssumption`).

**OncePerRun.** It says that what the loop is about to publish was not published since
the start. Alone it is not inductive: nothing in it keeps the query from selecting what
a former cycle published. `SettledInv` says why it does not: as long as nothing has
failed, whatever this start has published of the present revision is marked late
enough to be out of the query's strict comparison. A failed mark breaks that, and there
the goroutine ends (`NotifyEnd`), which is why the implication needs `~failed`.
`HeldInv` carries the argument across the loop: the instant of the cycle is later than
the moment to notify of what is held, and nothing newer was published.

**MarksAreEvidenced.** `EvidenceInv` says that every instant an event was ever marked
with has its publication, and that the table holds the zero time or one of those
instants. The second half is what an HTTP update needs, which writes back the
`NotifiedAt` it read, however old.

**ScheduledDeleteOnlyExpired.** `CutoffInv`: the filter never reaches beyond the
expiration period, since the clock only moves on after it was computed.

**OnlyOwnerChanges.** The owner is checked on a read that precedes the write, so the
invariant has to say that a check stays good until the write. `OwnerInv` says so, and
three facts keep it true: no update writes another owner than the one it was checked
against (`RowsInv`), a row is created only under an id that never had one, and a request
past its check names an id that had one (`IdsInv`). So a row that goes away and comes
back under the same id with another owner, the one way to break it, cannot happen.

**The sender.** `ConnectionInv`, `HandlerInv` and `HeldInv` say that what a connection
has delivered is in its channel or with exactly one handler, and that nothing is left
of it when the connection is gone. `EventInv` ties the event variable of a handler to
its delivery, and `SendsInv` says that what is still to be sent was not sent in this
start. They are stated for an open consumer, because with a closed one they are false.

**The parallel runner.** `BoundedOverrun` counts tasks and says nothing of the counter
the goroutines test, so it is not inductive. `CounterInv` connects the two: the tasks
that run or have failed are as many as were counted plus the goroutines that hold one,
and the counter plus the goroutines past their test is at most m + n - 1, because a
goroutine passes it only while the counter is below m. `HoldingInv` says that a running
task is held by exactly one goroutine, which makes the first equation countable, and
`DoneInv` what a goroutine that has returned has seen, which is what the result rests on.

**RefusedLeavesNoTrace, MemorySuccessMeansWritten.** Both speak of answered requests only.
`ReplyInv` adds what holds before the answer: a handler that has not got to its write has
written nothing, and only the SQL storage has a statement after the write (the read-back
of `AddEvent`) that may still fail.

**ApiActsAsClient.** A client of `Scheduler` creates a row under an unused id, deletes one,
or writes another draft or a `NotifiedAt` that the row once had, never another owner. A
request does so with what it read some statements ago, so the invariant says what remains
true of that: `IInv` that the owner does and that the id of a creation is unused,
`WriteBackInv` that the `NotifiedAt` a request holds is zero or one the row was marked
with, `CountInv` that an id was written at most once per request, which keeps the history
below `MaxRev`. `HandleInv` shows that requests keep it, `ForeignInv` that another process
does that only removes rows and marks them, and `SchedulerForeign` that the scheduler is
one. With the theorem, what `Scheduler_proof` proves of its assumed clients is true of the
requests as they are.

**LeavesInOrder.** `ReasonInv` says of everything that leads to an exit (the context done,
a service stopped or returned) that a signal or a failure came before; `DrainInv` that
cycles are in progress only while their service serves, and gRPC calls while it serves or
after its listener has failed. So none is left when every `Start` has returned, but for the
calls of a deaf gRPC server. Of HTTP requests it says nothing: `ListenAndServe` returns at
once, and `main` does not wait for `Shutdown`.

**The linked list and the cache.** That the pointers form a list is stated with a path
that begins at the front and follows `Next` (`Order`), which a proof cannot take apart by
induction. The proof works with a witness instead: `Represents(l, s)` says that `s` is a
sequence of distinct items whose neighbours are what the pointers say, in both directions.
`OrderUnique` shows that there is only one such sequence: of two, take the first place
where they differ; the places before it agree, and both follow the same `Next`. Each method
then has a lemma that says which sequence its result represents: an item put before the
others, after them, taken out (`Without`), or moved. `ListImplementsSequence` follows from
them. The cache needs that the map and the sequence are one-to-one and that what an item
holds is a pair (`Stored`), because a `Set` beyond the capacity removes the key it reads
from the last item. With these, each call is the call of `LruSpec` on the values along the
sequence.

**OutputIsSource.** The reader knows nothing of where a value is. `RowInv` says it for
every goroutine: the next value that is on its way to it, wherever that is in the row, is
one more than the last that it has got; when nothing is on its way, the source has sent
everything. `Stands` restricts it to goroutines behind which no relay has left because of
`done`, for behind such a relay values do get lost.

**ClientLeavesInOrder.** `ReasonsInv` says of each step towards the end that a signal or a
failed goroutine came before, `BrokenInv` how far a goroutine that failed has got, and
`PeerInv` that as long as neither the connection nor anything on this side has failed no
goroutine ends before the end of stdin, with all lines delivered. That is the condition
the property states (`Sound`); with any of the failures lines may be lost. A closed socket means that a goroutine that failed is about to write the flag or
has written it, which is what the two interleaved closes leave true.

**CopyIsRight.** `TargetInv` connects the position in the source, what is left to copy, and
the size of the target: the target is the part of the source from the offset on, as long as
nobody has rewritten the source. Copying a file onto itself is excluded, where the target
is emptied.

**CommandRunsAsMeant.** `ReadInv` says that the entries that were read are in the
Environment and the others are not, `SetInv` that the environment differs from the
inherited one in exactly those the loop over the map has reached, in any order.

**Functions.** `EventQuery`, `StructValidator` and `TextTools` are made of folds over a sequence, and what
a fold computes for every sequence takes an induction. Lemmas cannot have operators as
parameters here, so the induction is done once, over functions: `FoldRuns` shows that a
function exists that gives, for every set of places, what the step of its last place makes
of the rest (by taking the least length without one, `LeastNatural`), and `FoldHistory` that
its values on the first 1, 2, ... places are what the fold has after as many elements. Each
fold of the code then has a lemma with its history `h` (`SearchHistory`, `WhereHistory`,
`ElementsHistory`, `RulesHistory`, `FieldsHistory`, `WordsHistory`, `AsteriskHistory`,
`LinesHistory`, `RunesHistory`, `FlattenHistory`), and everything else follows the steps of
`h` with `UpTo`.

**StoragesAlwaysAgree.** What the fold of the memory storage decides of one event is the
conjunction of its conditions (`SearchDecides`). For the SQL storage the invariant of the
fold is that every placeholder in the text is the number of its own argument
(`AddWherePlaces`), whatever number of samples the conditions before it took. So both
find the same events. Where the collation keeps the order of the strings, both orders
compare the same fields in the same way (`OrdersAgree`), and a sorted list of the events is
an answer of both. `PeriodAlwaysExact` rests on whole seconds: `PeriodBounds` shows that the two
comparisons, which drop the fraction, leave the first unit of the first day in and the first
unit after the last day out.

**ValidateAlwaysRight.** At most one strategy suits a name and a kind (`SuitableIs`), so the
factory makes a validator exactly for the good rules, of the type of the field, and this
validator accepts what the rule allows (`ValidatorMade`). Each loop then adds errors behind
those it has (`Grown`), as many as there are new violations: rule by rule (`RuleByRule`),
field by field (`FieldChecked`), and after the first rule that is not one the answer no
longer changes. All this is about what the code allows (`Allows`). `AllowsWhatMeets` then
compares it with the meaning of the exercise: characters of one byte are as many as the
bytes (`OneByteEach`), and an expression with an end matches whole strings (`WholeMatch`).
The errors are so between the violations that are certain and those with the departures
(`RefusalsDepart`, `CountedBetween`).

**Unpack.** That it reads what is packed is an induction over the items: after the text of
the first of them Unpack is `Ready`, what it has written and what it has not are together
their meaning, and from there it reads one more item (`ReadsItem`), whose first rune is never
a digit. That it refuses the rest is an induction over the runes: what it has read without
an error is the text of some items and the part not written yet (`HasRead`), which each rune
either extends or makes an item of (`ReadsRune`). `WithoutSlash` takes away exactly the
backslash of an escaped character because nothing else is kept behind one (`EscapedIs`).

**WordsAlwaysCounted, DomainsAlwaysCounted.** Both maps are tallies: `Tally(places, key, k)`
gives for each key how many of the first `k` places that count have it, and one more word or
line makes it the next tally (`TallySame`, `TallyMore`). For the words, `Ranks` is a strict
order of the keys, so there is exactly one sorted list, and its i-th word has i - 1 words
ahead of it (`PlaceInOrder`). For the domains, what follows the first "@" and ends with the
domain after its last dot is the same as an address that ends with a dot and the domain
after some "@" (`SuffixIs`, `ExtractsIs`), provided that the domain itself has no dot; with
one in it, `extractDomain` finds nothing. The key of a line is the one text that it
belongs to by the reference definition (`BelongsIs`).

Model-checked only: all liveness, which is out of the prover's reach.

## 5. Not modelled, and the plan

Not modelled, for good: the declaration of exchanges and queues (one-shot calls of the
broker before anything concurrent starts), HTTP and gRPC middleware, logging,
configuration and version output (no state that the rest depends on), migrations (one
call of a library), generated code, the integration tests, which serve as a reference of
what is promised, and hw01, which prints one line. Publications are not confirmed by the
broker, and the code does nothing that could tell: a published notification is taken to
be kept. Two methods of the memory storage take no lock; in the processes as built nothing
calls them concurrently.

What could still be done, in this order:

1. `Scheduler` and `Sender` composed through the broker, with one notification from the
   table to the senders' exchange.
