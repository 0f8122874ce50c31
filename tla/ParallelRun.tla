---------------------------- MODULE ParallelRun ----------------------------
(***************************************************************************)
(* hw05, Run(tasks, n, m): n goroutines take tasks off a channel that was  *)
(* filled and closed before they started, and stop once m tasks have       *)
(* failed.  The test of the counter, the receive, the task and the         *)
(* increment are steps of their own: the counter that was tested may be    *)
(* another one when the task starts.                                       *)
(*                                                                         *)
(* The counter is an atomic.Uint32, and m is converted to uint32 for the   *)
(* comparison: both count modulo Modulus, which is 2^32 in the code.       *)
(***************************************************************************)
EXTENDS Integers, FiniteSets

CONSTANTS
  Workers,   \* the goroutines there may be
  Counts,    \* the numbers of tasks a caller passes
  Limits,    \* the values of m a caller passes
  Modulus    \* how far a uint32 counts

ASSUME WorkersAssumption == IsFiniteSet(Workers)
ASSUME CountsAssumption == Counts \subseteq Nat
ASSUME LimitsAssumption == Limits \subseteq Int
ASSUME ModulusAssumption == Modulus \in Nat \ {0}

VARIABLES
  \* The arguments of the call:
  crew,      \* n goroutines
  count,     \* len(tasks)
  m,
  \* The state of the call:
  received,  \* how many tasks were received from the channel
  errors,    \* errorsCount
  step,      \* where each goroutine is
  task,      \* the task a goroutine received, 0 for none
  result,    \* what Run returned
  \* History:
  outcome    \* what became of each task

args == <<crew, count, m>>
runVars == <<args, received, errors, step, task, result, outcome>>

Tasks == 1..count
n == Cardinality(crew)

RunTypeOK ==
  /\ crew \subseteq Workers /\ count \in Counts /\ m \in Limits
  /\ received \in 0..count
  /\ errors \in 0..(Modulus - 1)
  /\ step \in [Workers -> {"unborn", "testing", "receiving", "running", "counting", "done"}]
  /\ task \in [Workers -> 0..count]
  /\ result \in {"none", "nil", "ErrErrorsLimitExceeded"}
  /\ outcome \in [Tasks -> {"waiting", "running", "ok", "failed"}]

RunInit ==
  /\ crew \in SUBSET Workers /\ count \in Counts /\ m \in Limits
  /\ received = 0 /\ errors = 0
  /\ step = [w \in Workers |-> "unborn"]
  /\ task = [w \in Workers |-> 0]
  /\ result = "none"
  /\ outcome = [t \in Tasks |-> "waiting"]

LimitReached == m > 0 /\ errors >= m % Modulus

\* Nothing to do, or nobody to do it.
ReturnAtOnce ==
  /\ crew = {} \/ count = 0
  /\ result = "none"
  /\ result' = "nil"
  /\ UNCHANGED <<args, received, errors, step, task, outcome>>

\* The channel is filled and closed, and the goroutines start.
Launch ==
  /\ crew # {} /\ count # 0
  /\ result = "none" /\ \A w \in crew : step[w] = "unborn"
  /\ step' = [w \in Workers |-> IF w \in crew THEN "testing" ELSE "unborn"]
  /\ UNCHANGED <<args, received, errors, task, result, outcome>>

\* Mutant: the comparison lets one error more pass.
TestBeyond(w) ==
  /\ step[w] = "testing"
  /\ step' = [step EXCEPT ![w] = IF m > 0 /\ errors > m % Modulus THEN "done" ELSE "receiving"]
  /\ UNCHANGED <<args, received, errors, task, result, outcome>>

Test(w) ==
  /\ step[w] = "testing"
  /\ step' = [step EXCEPT ![w] = IF LimitReached THEN "done" ELSE "receiving"]
  /\ UNCHANGED <<args, received, errors, task, result, outcome>>

\* Mutant: two goroutines may read the same index of the tasks.
ReceiveUnlocked(w) ==
  /\ step[w] = "receiving" /\ received < count
  /\ received' \in {received, received + 1}
  /\ task' = [task EXCEPT ![w] = received + 1]
  /\ outcome' = [outcome EXCEPT ![received + 1] = "running"]
  /\ step' = [step EXCEPT ![w] = "running"]
  /\ UNCHANGED <<args, errors, result>>

Receive(w) ==
  /\ step[w] = "receiving" /\ received < count
  /\ received' = received + 1
  /\ task' = [task EXCEPT ![w] = received + 1]
  /\ outcome' = [outcome EXCEPT ![received + 1] = "running"]
  /\ step' = [step EXCEPT ![w] = "running"]
  /\ UNCHANGED <<args, errors, result>>

\* Mutant: nobody closes the channel.
ReceiveBlocks(w) ==
  /\ step[w] = "receiving" /\ received > count
  /\ step' = [step EXCEPT ![w] = "done"]
  /\ UNCHANGED <<args, received, errors, task, result, outcome>>

ReceiveClosed(w) ==
  /\ step[w] = "receiving" /\ received = count
  /\ step' = [step EXCEPT ![w] = "done"]
  /\ UNCHANGED <<args, received, errors, task, result, outcome>>

Succeed(w) ==
  /\ step[w] = "running"
  /\ outcome' = [outcome EXCEPT ![task[w]] = "ok"]
  /\ task' = [task EXCEPT ![w] = 0]
  /\ step' = [step EXCEPT ![w] = "testing"]
  /\ UNCHANGED <<args, received, errors, result>>

Fail(w) ==
  /\ step[w] = "running"
  /\ outcome' = [outcome EXCEPT ![task[w]] = "failed"]
  /\ task' = [task EXCEPT ![w] = 0]
  /\ step' = [step EXCEPT ![w] = "counting"]
  /\ UNCHANGED <<args, received, errors, result>>

\* Mutant: an increment that is not atomic may be lost.
CountErrorLost(w) ==
  /\ step[w] = "counting"
  /\ errors' \in {errors, (errors + 1) % Modulus}
  /\ step' = [step EXCEPT ![w] = "testing"]
  /\ UNCHANGED <<args, received, task, result, outcome>>

CountError(w) ==
  /\ step[w] = "counting"
  /\ errors' = (errors + 1) % Modulus
  /\ step' = [step EXCEPT ![w] = "testing"]
  /\ UNCHANGED <<args, received, task, result, outcome>>

\* wg.Wait has returned.
Return ==
  /\ crew # {} /\ result = "none"
  /\ \A w \in crew : step[w] = "done"
  /\ result' = IF LimitReached THEN "ErrErrorsLimitExceeded" ELSE "nil"
  /\ UNCHANGED <<args, received, errors, step, task, outcome>>

Work(w) == Test(w) \/ Receive(w) \/ ReceiveClosed(w) \/ Succeed(w) \/ Fail(w) \/ CountError(w)

RunNext ==
  \/ ReturnAtOnce
  \/ Launch
  \/ \E w \in crew : Work(w)
  \/ Return

RunSpec == RunInit /\ [][RunNext]_runVars

\* The goroutines run, and tasks return.
RunFairness ==
  /\ WF_runVars(ReturnAtOnce \/ Launch \/ Return)
  /\ \A w \in Workers : WF_runVars(w \in crew /\ Work(w))

RunFairSpec == RunSpec /\ RunFairness

(***************************************************************************)
(* Properties.                                                             *)
(***************************************************************************)

\* The limit is in force, and neither the conversion of m nor the counter, which
\* the goroutines may push n - 1 beyond m, wraps around.
Limited == m > 0 /\ m + n <= Modulus

\* There is no limit.
Unlimited == m <= 0

Failed == {t \in Tasks : outcome[t] = "failed"}
Unsucceeded == {t \in Tasks : outcome[t] \in {"running", "failed"}}

\* Once m tasks have failed, only the goroutines that have passed the test still
\* start one: with any interleaving of tests and increments no more than m + n - 1
\* tasks start without succeeding, so that m first tasks that fail let at most
\* m + n tasks run.
BoundedOverrun == Limited => Cardinality(Unsucceeded) <= m + n - 1

\* What Run says is what happened: the error if m tasks or more failed, although
\* the last of them may have been counted when all the tests were over; and nil
\* only if every task was run.
ResultTellsErrors ==
  /\ (result = "ErrErrorsLimitExceeded" /\ Limited) => Cardinality(Failed) >= m
  /\ (result = "nil" /\ Limited /\ crew # {}) =>
       Cardinality(Failed) < m /\ received = count
  /\ Unlimited => /\ result # "ErrErrorsLimitExceeded"
                  /\ (result = "nil" /\ crew # {}) => received = count

\* When Run has returned nothing of it is left running: no goroutine is on its way,
\* and every task that was received has its outcome.
NothingLeftRunning ==
  result # "none" => /\ \A w \in crew : step[w] \in {"unborn", "done"}
                     /\ \A t \in 1..received : outcome[t] \in {"ok", "failed"}

\* What became of a task is not undone.
OutcomesStay ==
  \A t \in Tasks : /\ outcome[t] # "waiting" => outcome'[t] # "waiting"
                   /\ outcome[t] \in {"ok", "failed"} => outcome'[t] = outcome[t]

\* A task is run by one goroutine, once.
EachTaskOnce == [][OutcomesStay]_runVars

\* Run returns, whatever fails, provided that the tasks return.
RunReturns == <>(result # "none")

(***************************************************************************)
(* The inductive invariant: the failed tasks are those that were counted   *)
(* and those whose goroutine is about to count, and a goroutine that has   *)
(* passed the test is one of the n that may carry the counter beyond m.    *)
(***************************************************************************)
Holding == {w \in crew : step[w] \in {"running", "counting"}}
Busy == {w \in crew : step[w] \in {"receiving", "running", "counting"}}

HoldingInv ==
  /\ \A w \in crew : step[w] = "running" =>
       /\ task[w] \in 1..received /\ outcome[task[w]] = "running"
       /\ \A v \in crew : (v # w /\ step[v] = "running") => task[v] # task[w]
  /\ \A t \in Tasks : outcome[t] = "running" => \E w \in crew : step[w] = "running" /\ task[w] = t
  /\ \A t \in Tasks : outcome[t] = "waiting" <=> t > received

CounterInv ==
  Limited => /\ errors + Cardinality(Busy) <= m + n - 1
             /\ Cardinality(Unsucceeded) = errors + Cardinality(Holding)

DoneInv ==
  /\ \A w \in crew : step[w] = "done" => received = count \/ (m > 0 /\ (Limited => errors >= m))
  /\ result # "none" => crew = {} \/ count = 0 \/ \A w \in crew : step[w] = "done"
  /\ (result = "ErrErrorsLimitExceeded" /\ Limited) => errors >= m
  /\ (result = "nil" /\ Limited /\ count # 0) => crew = {} \/ errors < m
  /\ result = "ErrErrorsLimitExceeded" => m > 0 /\ crew # {} /\ count # 0
  /\ count = 0 \/ crew = {} => \A w \in crew : step[w] = "unborn"

RunInv == RunTypeOK /\ HoldingInv /\ CounterInv /\ DoneInv
=============================================================================
