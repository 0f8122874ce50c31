------------------------------ MODULE MCPrograms ------------------------------
(***************************************************************************)
(* Four programs of goroutines that have to come to an end: the pipeline   *)
(* when done is closed, the telnet client at the end of its input, Run     *)
(* when its tasks are over, and those of the calendar after a signal.  TLC *)
(* runs one of them per behaviour; of the others, everything has returned. *)
(***************************************************************************)
EXTENDS Pipeline, Telnet, Lifecycle, ParallelRun

CONSTANTS w1, w2, w3

\* Limits from none to one that the conversion to uint32 makes 0.
MCLimits == {-1, 0, 1, 2, 3, 8}

VARIABLE which   \* the program this behaviour is about

vars == <<pipeVars, telnetVars, lifeVars, runVars, which>>

PipeRests ==
  /\ stages = 0 /\ length = 1
  /\ pc = [p \in Places |-> "returned"] /\ holds = [p \in Places |-> 0]
  /\ done = FALSE /\ output = <<>>

TelnetRests ==
  /\ client = "returned"
  /\ at = [g \in Goroutines |-> "done"]
  /\ context = "done" /\ notified = FALSE /\ isOpened = FALSE /\ conn = "closed"
  /\ typed = 0 /\ eof = FALSE /\ taken = 0 /\ delivered = 0
  /\ peer = "open" /\ reset = "no" /\ incoming = 0 /\ fromPeer = 0 /\ scanEnd = FALSE
  /\ signalled = FALSE /\ broken = {} /\ faults = {}

LifeRests ==
  /\ program = "calendar" /\ main = "exited" /\ ctx = "done"
  /\ start = [s \in AllServices |-> "returned"]
  /\ made = AllServices /\ down = AllServices
  /\ stop = [s \in AllServices |-> "done"]
  /\ inflight = [s \in AllServices |-> 0]
  /\ asked = TRUE /\ failed = {}

\* A run that rests had no task and no limit.
ASSUME RestAssumption == 0 \in Counts /\ 0 \in Limits

RunRests ==
  /\ crew = {} /\ count = 0 /\ m = 0
  /\ received = 0 /\ errors = 0
  /\ step = [w \in Workers |-> "unborn"] /\ task = [w \in Workers |-> 0]
  /\ result = "nil" /\ outcome = <<>>

Init ==
  \/ which = "pipeline" /\ PipeInit /\ TelnetRests /\ LifeRests /\ RunRests
  \/ which = "telnet" /\ PipeRests /\ TelnetInit /\ LifeRests /\ RunRests
  \/ which = "calendar" /\ PipeRests /\ TelnetRests /\ LifeInit /\ RunRests
  \/ which = "runner" /\ PipeRests /\ TelnetRests /\ LifeRests /\ RunInit

Next ==
  \/ which = "pipeline" /\ PipeNext /\ UNCHANGED <<telnetVars, lifeVars, runVars, which>>
  \/ which = "telnet" /\ TelnetNext /\ UNCHANGED <<pipeVars, lifeVars, runVars, which>>
  \/ which = "calendar" /\ LifeNext /\ UNCHANGED <<pipeVars, telnetVars, runVars, which>>
  \/ which = "runner" /\ RunNext /\ UNCHANGED <<pipeVars, telnetVars, lifeVars, which>>

\* What rests has no step that fairness would ask for.
FairSpec ==
  /\ Init /\ [][Next]_vars
  /\ PipeFairness /\ TelnetFairness /\ LifeFairness /\ RunFairness

\* The types of the four programs.
TypeOK == PipeTypeOK /\ TelnetTypeOK /\ LifeTypeOK /\ RunTypeOK
===============================================================================
