----------------------------- MODULE Lifecycle -----------------------------
(***************************************************************************)
(* How the three programs of the calendar start and stop.  In each, main   *)
(* starts its services (the HTTP and the gRPC server, or the scheduler or  *)
(* sender as the only "worker") and waits until their Start has returned,  *)
(* while other goroutines wait for the context and call Stop.  Stop uses   *)
(* the server, or the cancel function, that Start has set; nothing orders  *)
(* the two.                                                                *)
(*                                                                         *)
(* What Shutdown, GracefulStop and Serve do is net/http's and grpc-go's:   *)
(* ListenAndServe returns as soon as Shutdown is called, Serve when        *)
(* GracefulStop has waited for the calls that are running; either also     *)
(* when the listener fails, and then at once.                              *)
(***************************************************************************)
EXTENDS Integers

CONSTANT MaxInflight   \* bound of the requests a service works on at a time

ASSUME InflightAssumption == MaxInflight \in Nat

AllServices == {"http", "grpc", "worker"}

VARIABLES
  program,    \* "calendar", or "background" for the scheduler and the sender
  main,       \* "running", "exited", "panicked"
  ctx,        \* "live" or "done"
  start,      \* where Start of each service is; "deaf" once it has returned because
              \* the listener failed
  made,       \* s.server, or s.cancel, is set
  stop,       \* where Stop of each service is
  down,       \* Shutdown, GracefulStop or cancel was called
  inflight,   \* the requests, or the cycle, in progress
  \* History:
  asked,      \* a signal has come
  failed      \* the services that could not start, and the worker whose loops failed

lifeVars == <<program, main, ctx, start, made, stop, down, inflight, asked, failed>>

Services == IF program = "calendar" THEN {"http", "grpc"} ELSE {"worker"}
Running == main = "running"
Over(s) == start[s] \in {"returned", "deaf"}

LifeTypeOK ==
  /\ program \in {"calendar", "background"}
  /\ main \in {"running", "exited", "panicked"} /\ ctx \in {"live", "done"}
  /\ start \in [AllServices -> {"begin", "opened", "made", "serving", "deaf", "returned"}]
  /\ made \subseteq AllServices /\ down \subseteq made
  /\ stop \in [AllServices -> {"waiting", "draining", "done"}]
  /\ inflight \in [AllServices -> 0..MaxInflight]
  /\ asked \in BOOLEAN /\ failed \subseteq AllServices

LifeInit ==
  /\ program \in {"calendar", "background"}
  /\ main = "running" /\ ctx = "live"
  /\ start = [s \in AllServices |-> "begin"]
  /\ made = {} /\ down = {}
  /\ stop = [s \in AllServices |-> "waiting"]
  /\ inflight = [s \in AllServices |-> 0]
  /\ asked = FALSE /\ failed = {}

StartGoes(s, from, to) == Running /\ start[s] = from /\ start' = [start EXCEPT ![s] = to]

\* The gRPC server listens, and the worker connects to the broker, before there is
\* anything to stop.
Open(s) ==
  /\ s # "http"
  /\ StartGoes(s, "begin", "opened")
  /\ UNCHANGED <<program, main, ctx, made, stop, down, inflight, asked, failed>>

\* Mutant: the failure is logged and the context lives on.
OpenFailsUnheard(s) ==
  /\ s # "http"
  /\ StartGoes(s, "begin", "returned")
  /\ failed' = failed \cup {s}
  /\ UNCHANGED <<program, main, ctx, made, stop, down, inflight, asked>>

\* Start returns the error, and main cancels the context.
OpenFails(s) ==
  /\ s # "http"
  /\ StartGoes(s, "begin", "returned")
  /\ ctx' = "done" /\ failed' = failed \cup {s}
  /\ UNCHANGED <<program, main, made, stop, down, inflight, asked>>

\* s.server = server, s.cancel = cancel.
Make(s) ==
  /\ StartGoes(s, IF s = "http" THEN "begin" ELSE "opened", "made")
  /\ made' = made \cup {s}
  /\ UNCHANGED <<program, main, ctx, stop, down, inflight, asked, failed>>

\* A server that was stopped before does not serve.
Serve(s) ==
  /\ StartGoes(s, "made", IF s \in down /\ s # "worker" THEN "returned" ELSE "serving")
  /\ UNCHANGED <<program, main, ctx, made, stop, down, inflight, asked, failed>>

\* The error of ListenAndServe is dropped: Start of the HTTP server returns nil.
ListenFails ==
  /\ StartGoes("http", "made", "returned")
  /\ failed' = failed \cup {"http"}
  /\ UNCHANGED <<program, main, ctx, made, stop, down, inflight, asked>>

\* The sender cannot declare its queue or subscribe to it: Start returns the error, and
\* main cancels the context.
ConsumeFails ==
  /\ StartGoes("worker", "made", "returned")
  /\ ctx' = "done" /\ failed' = failed \cup {"worker"}
  /\ UNCHANGED <<program, main, made, stop, down, inflight, asked>>

\* Both goroutines of the scheduler have ended with an error: Start returns nil.
CyclesFail ==
  /\ StartGoes("worker", "serving", "returned")
  /\ inflight["worker"] = 0
  /\ failed' = failed \cup {"worker"}
  /\ UNCHANGED <<program, main, ctx, made, stop, down, inflight, asked>>

\* Mutant: Serve does not wait for the running calls.
ServeReturnsAtOnce(s) ==
  /\ StartGoes(s, "serving", "returned")
  /\ s \in down \/ (s = "worker" /\ ctx = "done")
  /\ UNCHANGED <<program, main, ctx, made, stop, down, inflight, asked, failed>>

\* The HTTP server returns as soon as it is shut down, gRPC when GracefulStop is over,
\* the worker when its goroutines see the context between two cycles.
ServeReturns(s) ==
  /\ StartGoes(s, "serving", "returned")
  /\ \/ s = "http" /\ s \in down
     \/ s = "grpc" /\ stop[s] = "done"
     \/ s = "worker" /\ ctx = "done" /\ inflight[s] = 0
  /\ UNCHANGED <<program, main, ctx, made, stop, down, inflight, asked, failed>>

\* The listener of a server fails: Start logs the error, or drops it, and returns nil.
\* The context lives on, and what came over the open connections is answered.
ServeFails(s) ==
  /\ s \notin down
  /\ StartGoes(s, "serving", "deaf")
  /\ UNCHANGED <<program, main, ctx, made, stop, down, inflight, asked, failed>>

\* Mutant: requests are still taken while those in progress are waited for.
ArriveWhileDraining(s) ==
  /\ Running /\ start[s] = "serving" /\ inflight[s] < MaxInflight
  /\ inflight' = [inflight EXCEPT ![s] = @ + 1]
  /\ UNCHANGED <<program, main, ctx, start, made, stop, down, asked, failed>>

\* A server that is shutting down takes no more requests, one that is deaf takes them
\* over its open connections, and a worker begins another cycle until its context is
\* cancelled.
Arrive(s) ==
  /\ Running /\ start[s] \in {"serving", "deaf"} /\ s \notin down
  /\ inflight[s] < MaxInflight
  /\ inflight' = [inflight EXCEPT ![s] = @ + 1]
  /\ UNCHANGED <<program, main, ctx, start, made, stop, down, asked, failed>>

Answer(s) ==
  /\ Running /\ inflight[s] > 0
  /\ inflight' = [inflight EXCEPT ![s] = @ - 1]
  /\ UNCHANGED <<program, main, ctx, start, made, stop, down, asked, failed>>

\* Mutant: Stop takes no notice of what Start has set.
StopUnset(s) ==
  /\ Running /\ ctx = "done" /\ stop[s] = "waiting"
  /\ down' = down \cup {s}
  /\ stop' = [stop EXCEPT ![s] = "draining"]
  /\ UNCHANGED <<program, main, ctx, start, made, inflight, asked, failed>>

\* Mutant: Stop does nothing when there is nothing to stop yet.
StopSkips(s) ==
  /\ Running /\ ctx = "done" /\ stop[s] = "waiting"
  /\ IF s \in made
     THEN down' = down \cup {s} /\ stop' = [stop EXCEPT ![s] = "draining"]
     ELSE stop' = [stop EXCEPT ![s] = "done"] /\ UNCHANGED down
  /\ UNCHANGED <<program, main, ctx, start, made, inflight, asked, failed>>

\* The context is done, and Stop is called on what Start has set: on a nil server,
\* or a nil function, it panics.
Stop(s) ==
  /\ Running /\ ctx = "done" /\ stop[s] = "waiting"
  /\ IF s \in made
     THEN /\ down' = down \cup {s}
          /\ stop' = [stop EXCEPT ![s] = "draining"]
          /\ UNCHANGED main
     ELSE /\ main' = "panicked"
          /\ UNCHANGED <<down, stop>>
  /\ UNCHANGED <<program, ctx, start, made, inflight, asked, failed>>

\* Stop returns when nothing is in progress any more, that of the HTTP server after
\* three seconds at the latest, and that of the worker without waiting.
StopReturns(s) ==
  /\ Running /\ stop[s] = "draining"
  /\ inflight[s] = 0 \/ s # "grpc"
  /\ stop' = [stop EXCEPT ![s] = "done"]
  /\ UNCHANGED <<program, main, ctx, start, made, down, inflight, asked, failed>>

\* Mutant: main leaves as soon as one Start has returned.
ExitEarly ==
  /\ Running /\ \E s \in Services : Over(s)
  /\ main' = "exited" /\ ctx' = "done"
  /\ UNCHANGED <<program, start, made, stop, down, inflight, asked, failed>>

\* wg.Wait has returned; nobody waits for the goroutines that call Stop.
Exit ==
  /\ Running /\ \A s \in Services : Over(s)
  /\ main' = "exited" /\ ctx' = "done"
  /\ UNCHANGED <<program, start, made, stop, down, inflight, asked, failed>>

Signal ==
  /\ Running /\ ~asked
  /\ asked' = TRUE /\ ctx' = "done"
  /\ UNCHANGED <<program, main, start, made, stop, down, inflight, failed>>

Starting(s) == Open(s) \/ OpenFails(s) \/ Make(s) \/ Serve(s)
Stopping(s) == Stop(s) \/ StopReturns(s)

LifeNext ==
  \/ \E s \in Services : Starting(s) \/ Stopping(s) \/ ServeReturns(s) \/ Arrive(s) \/ Answer(s)
  \/ program = "calendar" /\ (ListenFails \/ \E s \in Services : ServeFails(s))
  \/ program = "background" /\ (ConsumeFails \/ CyclesFail)
  \/ Signal
  \/ Exit

LifeSpec == LifeInit /\ [][LifeNext]_lifeVars

\* The goroutines run, requests are answered, and the select of the worker takes the
\* context in the end.
LifeFairness ==
  /\ \A s \in AllServices : /\ WF_lifeVars(s \in Services /\ Starting(s))
                            /\ WF_lifeVars(s \in Services /\ Stopping(s))
                            /\ SF_lifeVars(s \in Services /\ ServeReturns(s))
                            /\ WF_lifeVars(s \in Services /\ Answer(s))
  /\ WF_lifeVars(Exit)

LifeFairSpec == LifeSpec /\ LifeFairness

(***************************************************************************)
(* Properties.                                                             *)
(***************************************************************************)

\* A program that leaves cuts off no cycle of the scheduler, and no call over gRPC
\* unless the listener of that server had failed: then nobody waits for its calls.
NothingCutOff ==
  main = "exited" => /\ start["grpc"] = "returned" => inflight["grpc"] = 0
                     /\ inflight["worker"] = 0

\* Why a program may leave: a signal, a gRPC server that could not start, a worker that
\* has failed, or no server of the calendar that still listens.
Reason ==
  \/ asked
  \/ failed \cap {"grpc", "worker"} # {}
  \/ start["grpc"] = "deaf" /\ (start["http"] = "deaf" \/ "http" \in failed)

\* No program leaves on its own.
LeavesOnlyWhenAsked == main # "running" => Reason

\* A program leaves for a reason, and with nothing left undone that it waits for.
LeavesInOrder == NothingCutOff /\ LeavesOnlyWhenAsked

\* The inductive invariant.  Nothing is stopped or over without a reason, and the
\* services of the other program are never started.
ReasonInv ==
  /\ \/ ctx = "done" \/ main # "running" \/ \E s \in AllServices : stop[s] # "waiting"
     \/ down # {} \/ start["grpc"] = "returned" \/ start["worker"] \in {"deaf", "returned"}
     => Reason
  /\ start["http"] = "returned" => Reason \/ "http" \in failed
  /\ \A s \in AllServices \ Services : start[s] = "begin"

\* Where calls and cycles are waited for, they are in progress only while the service
\* serves, and none is left when its Stop has returned.
DrainInv ==
  /\ inflight["grpc"] > 0 => start["grpc"] \in {"serving", "deaf"}
  /\ inflight["worker"] > 0 => start["worker"] = "serving"
  /\ start["worker"] # "deaf"
  /\ \A s \in AllServices : stop[s] # "waiting" => s \in down
  /\ stop["grpc"] = "done" => inflight["grpc"] = 0
  /\ main = "exited" => \A s \in Services : Over(s)

LifeInv == LifeTypeOK /\ ReasonInv /\ DrainInv

\* Once everything is set up a signal ends the program in order, without a panic and
\* without hanging in Stop, whatever is in progress.
StartedStopsInOrder ==
  (Running /\ Services \subseteq made /\ ctx = "done") ~> (main = "exited")

\* A signal ends the program at any time, if only by a panic.
SignalEnds == asked ~> (main # "running")

\* A gRPC server that cannot listen, a worker without a broker and one that failed in
\* both its loops take their program down.  A server whose listener fails later, and an
\* HTTP server that cannot listen, do not: the other server goes on alone.
FailureEnds == \A s \in {"grpc", "worker"} : (s \in failed) ~> (main # "running")

\* No program goes on after what the code means to end it, wherever its start has got
\* to.
ProgramEnds == SignalEnds /\ FailureEnds
=============================================================================
