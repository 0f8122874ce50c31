------------------------------ MODULE EventQuery ------------------------------
(***************************************************************************)
(* The queries of the calendar: GetEvents of the two storages, with a list *)
(* of conditions and a list of fields to order by, and the one query the   *)
(* API asks, GetEventsForPeriod.  Which storage answers is a matter of     *)
(* configuration, so that both should give the same answer.                *)
(*                                                                         *)
(* Instants are counted in the units a SQL timestamp tells apart, PerSecond*)
(* of them in a second: the memory storage compares whole seconds, by      *)
(* time.Unix().  All times are in UTC.  A string is its place in the order *)
(* of its bytes, a uuid a model value.  The database has an order of its   *)
(* own for strings, the collation it was created with.                     *)
(***************************************************************************)
EXTENDS Integers, Sequences, FiniteSets, SequencesExt

CONSTANTS
  PerSecond,    \* units in a second
  DaySeconds,   \* seconds in a day
  Collation,    \* the place of each string in the order of the database
  Failed        \* the answer that is an error

ASSUME UnitsAssumption == PerSecond \in Nat \ {0} /\ DaySeconds \in Nat \ {0}

\* A collation is deterministic, as those of PostgreSQL are unless it is told otherwise:
\* strings that differ have different places.
ASSUME CollationAssumption ==
  \A s, t \in DOMAIN Collation : Collation[s] \in Int /\ (Collation[s] = Collation[t] => s = t)

TimeFields == {"StartDate", "EndDate", "NotifiedAt"}
StringFields == {"Title", "Description"}

Unix(t) == t \div PerSecond
Day == DaySeconds * PerSecond

Condition(field, type, sample) == [field |-> field, type |-> type, sample |-> sample]
Sort(field, direction) == [field |-> field, direction |-> direction]

-----------------------------------------------------------------------------
(***************************************************************************)
(* The memory storage.  NotifyBefore is a time.Duration, which none of the *)
(* comparisons knows; only lists of ints, uuids and strings can be IN.     *)
(***************************************************************************)
Truth(b) == IF b THEN "true" ELSE "false"

\* lessCmp, lessOrEqCmp, moreCmp and moreOrEqCmp.
Compare(field, type, value, sample) ==
  LET v == Unix(value)
      w == Unix(sample)
  IN IF field \notin TimeFields THEN "error"
     ELSE Truth(\/ type \in {"<", "<="} /\ v < w
                \/ type \in {">", ">="} /\ v > w
                \/ type \in {"<=", ">="} /\ v = w)

InCmp(field, value, sample) ==
  IF field \in TimeFields \cup {"NotifyBefore"} THEN "error"
  ELSE Truth(value \in Range(sample))

Negate(answer) ==
  CASE answer = "true" -> "false" [] answer = "false" -> "true" [] OTHER -> "error"

ApplyCondition(event, cond) ==
  LET val == event[cond.field] IN
  CASE cond.type = "=" -> Truth(val = cond.sample)
    [] cond.type = "!=" -> Truth(val # cond.sample)
    [] cond.type \in {"<", "<=", ">", ">="} ->
         Compare(cond.field, cond.type, val, cond.sample)
    [] cond.type = "IN" -> InCmp(cond.field, val, cond.sample)
    [] cond.type = "NOT IN" -> Negate(InCmp(cond.field, val, cond.sample))

\* The first condition that is not true decides.
SearchEvent(event, search) ==
  FoldLeft(LAMBDA found, cond : IF found = "true" THEN ApplyCondition(event, cond) ELSE found,
           "true", search)

\* lessComp of GetEvents, for the types a field may have.
LessComp(field, value, other) ==
  \/ field \in StringFields /\ value < other
  \/ field \in TimeFields /\ Unix(value) < Unix(other)

\* The comparison of sort.Slice: the first field that differs decides.
Before(order, a, b) ==
  LET differ == {i \in DOMAIN order : a[order[i].field] # b[order[i].field]} IN
  /\ differ # {}
  /\ LET first == order[Min(differ)] IN
       LessComp(first.field, a[first.field], b[first.field]) <=> first.direction = "ASC"

\* What a comparison has to be for sort.Slice to sort.
SortsBy(order, events) ==
  LET Tie(a, b) == ~Before(order, a, b) /\ ~Before(order, b, a) IN
  \A a, b, c \in events :
    /\ ~(Before(order, a, b) /\ Before(order, b, a))
    /\ Before(order, a, b) /\ Before(order, b, c) => Before(order, a, c)
    /\ Tie(a, b) /\ Tie(b, c) => Tie(a, c)

\* The orders sort.Slice may leave, the events coming in the order of a map: it is
\* not stable, and with a comparison that is none it may leave any.
Arrangements(order, events) ==
  {s \in SetToSeqs(events) :
     SortsBy(order, events) => \A i, j \in DOMAIN s : i < j => ~Before(order, s[j], s[i])}

\* GetEvents of the memory storage: the answers it may give.
MemoryGetEvents(table, search, order) ==
  IF \E e \in table : SearchEvent(e, search) = "error" THEN {Failed}
  ELSE Arrangements(order, {e \in table : SearchEvent(e, search) = "true"})
-----------------------------------------------------------------------------
(***************************************************************************)
(* The SQL storage.  getWhere writes each condition with placeholders, $1, *)
(* $2, ..., and puts its samples, in this order, into args.                *)
(***************************************************************************)
IsIn(cond) == cond.type \in {"IN", "NOT IN"}

Samples(cond) == IF IsIn(cond) THEN cond.sample ELSE <<cond.sample>>

WithCondition(where, cond, next) ==
  [conds |-> Append(where.conds,
               [field |-> cond.field, type |-> cond.type,
                at |-> [k \in DOMAIN Samples(cond) |-> where.i + k - 1]]),
   args |-> where.args \o Samples(cond),
   i |-> next]

\* Mutant: a list takes one number only.
AddWhereOne(where, cond) == WithCondition(where, cond, where.i + 1)

AddWhere(where, cond) == WithCondition(where, cond, where.i + Len(Samples(cond)))

GetWhere(search) == FoldLeft(AddWhere, [conds |-> <<>>, args |-> <<>>, i |-> 1], search)

\* What PostgreSQL compares: it tells strings apart by their bytes and orders them by
\* their places in the collation.
Key(field, value) == IF field \in StringFields THEN Collation[value] ELSE value

\* What PostgreSQL makes of a condition, given the arguments.
Holds(event, cond, args) ==
  LET val == event[cond.field]
      arg(k) == args[cond.at[k]]
      place == Key(cond.field, val)
      limit == Key(cond.field, arg(1))
  IN CASE cond.type = "=" -> val = arg(1)
       [] cond.type = "!=" -> val # arg(1)
       [] cond.type = "<" -> place < limit
       [] cond.type = "<=" -> place <= limit
       [] cond.type = ">" -> place > limit
       [] cond.type = ">=" -> place >= limit
       [] cond.type = "IN" -> \E k \in DOMAIN cond.at : val = arg(k)
       [] cond.type = "NOT IN" -> \A k \in DOMAIN cond.at : val # arg(k)

\* ORDER BY, as getSort writes it.  Rows that tie come in any order.
SqlBefore(order, a, b) ==
  LET place(e, i) == Key(order[i].field, e[order[i].field]) IN
  \E i \in DOMAIN order :
    /\ \A j \in 1..(i - 1) : a[order[j].field] = b[order[j].field]
    /\ IF order[i].direction = "ASC" THEN place(a, i) < place(b, i)
       ELSE place(a, i) > place(b, i)

\* GetEvents of the SQL storage.  "IN ()" is no SQL.
SqlGetEvents(table, search, order) ==
  LET where == GetWhere(search)
      selected == {e \in table : \A i \in DOMAIN where.conds :
                                   Holds(e, where.conds[i], where.args)}
  IN IF \E i \in DOMAIN search : IsIn(search[i]) /\ search[i].sample = <<>> THEN {Failed}
     ELSE {s \in SetToSeqs(selected) :
             \A i, j \in DOMAIN s : i < j => ~SqlBefore(order, s[j], s[i])}
-----------------------------------------------------------------------------
(***************************************************************************)
(* app.GetEventsForPeriod, and the periods of getForPeriod: the days from  *)
(* a midnight on, to the last unit before another.                         *)
(***************************************************************************)
PeriodSearch(user, start, end) ==
  <<Condition("UserID", "=", user), Condition("StartDate", ">=", start),
    Condition("StartDate", "<=", end)>>

PeriodSort == <<Sort("StartDate", "ASC"), Sort("EndDate", "ASC")>>

\* Mutant: the period ends with the next midnight.
LastOfDayAfter(start, days) == start + days * Day

LastOf(start, days) == start + days * Day - 1

\* The answers either storage may give.
EventsForPeriod(table, user, day, days) ==
  LET start == day * Day
      search == PeriodSearch(user, start, LastOf(start, days))
  IN MemoryGetEvents(table, search, PeriodSort) \cup SqlGetEvents(table, search, PeriodSort)
-----------------------------------------------------------------------------
WholeSeconds(table) ==
  \A e \in table : \A f \in TimeFields \cap DOMAIN e : e[f] % PerSecond = 0

\* A user asking for some days gets the user's events that start on them, every one
\* and once, from either storage: also those of the first and of the last moment,
\* and of a fraction of the last second; so that every event is in exactly one day.
PeriodIsExact(table, user, day, days) ==
  LET wanted == {e \in table : e.UserID = user /\ e.StartDate \div Day \in day..(day + days - 1)}
  IN \A s \in EventsForPeriod(table, user, day, days) :
       s # Failed /\ Range(s) = wanted /\ Len(s) = Cardinality(wanted)

\* The collation leaves the strings that the order compares in the order of their bytes.
CollationKeeps(table, order) ==
  \A i \in DOMAIN order : order[i].field \in StringFields =>
    \A a, b \in table :
      LET v == a[order[i].field]
          w == b[order[i].field]
      IN v < w <=> Collation[v] < Collation[w]

\* As long as the times in the table and in the query are whole seconds, the two
\* storages find the same events, each once, when both answer; and they give them in the
\* same orders, unless the query orders by a string and the collation of the database
\* puts the strings of the table in another order than their bytes.
StoragesAgree(table, search, order) ==
  LET memory == MemoryGetEvents(table, search, order)
      sql == SqlGetEvents(table, search, order)
  IN WholeSeconds(table) /\ memory # {Failed} /\ sql # {Failed} =>
       /\ \A s \in memory, t \in sql : Range(s) = Range(t) /\ Len(s) = Len(t)
       /\ CollationKeeps(table, order) => memory = sql
=============================================================================
