------------------------------- MODULE Telnet -------------------------------
(***************************************************************************)
(* hw11, the telnet client: a sender that copies the lines of stdin into   *)
(* the socket, a receiver that copies the lines of the socket to stdout,   *)
(* and a context that a signal or a failing goroutine ends.  Either        *)
(* goroutine looks at the context only between two calls of Send or        *)
(* Receive, and those block in a read.  Whoever fails calls stop and       *)
(* closes the client; isOpened has no lock.  The connection, stdin, stdout *)
(* and the scanner, for which a line may be too long, fail at any time.    *)
(***************************************************************************)
EXTENDS Integers

CONSTANTS
  UserLines,   \* bound of the lines the user types
  PeerLines    \* bound of the lines the peer sends

ASSUME BoundsAssumption == UserLines \in Nat /\ PeerLines \in Nat

Goroutines == {"sender", "receiver"}

VARIABLES
  client,       \* where main is, and how the process ended
  at,         \* where each goroutine is
  context,        \* "live" or "done"
  notified,   \* signals go to the context, not to the default action
  isOpened,
  conn,       \* the socket: "none", "open", "closed"
  \* The world outside:
  typed,      \* lines the user has typed
  eof,        \* stdin has ended
  taken,      \* lines Send has read
  delivered,  \* lines the socket has accepted while the peer was there
  peer,       \* "open" or "closed"
  reset,      \* the connection has failed: "no", "due" after a write to a closed
              \* peer, "yes"
  incoming,   \* lines of the peer that were not scanned yet
  fromPeer,   \* lines the peer has sent
  scanEnd,    \* the scanner has seen the end of the socket
  \* History:
  signalled,
  broken,     \* goroutines whose Send or Receive has failed
  faults      \* what has failed on this side of the connection

processVars == <<client, at, context, notified, isOpened, conn>>
stdinVars == <<typed, eof>>
peerVars == <<peer, fromPeer>>
historyVars == <<signalled, broken, faults>>
telnetVars == <<processVars, stdinVars, taken, delivered, peerVars, reset, incoming, scanEnd,
          historyVars>>

Waiting == client = "waiting"
Ended == client \in {"returned", "fatal", "killed"}

TelnetTypeOK ==
  /\ client \in {"connecting", "waiting", "returned", "fatal", "killed"}
  /\ at \in [Goroutines -> {"select", "call", "blocked", "writing", "stopping", "closing",
                            "closeConn", "closed", "done"}]
  /\ context \in {"live", "done"} /\ notified \in BOOLEAN /\ isOpened \in BOOLEAN
  /\ conn \in {"none", "open", "closed"}
  /\ typed \in 0..UserLines /\ eof \in BOOLEAN
  /\ taken \in 0..typed /\ delivered \in 0..taken
  /\ peer \in {"open", "closed"} /\ reset \in {"no", "due", "yes"}
  /\ fromPeer \in 0..PeerLines /\ incoming \in 0..fromPeer
  /\ scanEnd \in BOOLEAN /\ signalled \in BOOLEAN
  /\ broken \subseteq Goroutines /\ faults \subseteq {"stdin", "stdout", "stderr", "scanner"}

TelnetInit ==
  /\ client = "connecting"
  /\ at = [g \in Goroutines |-> "select"]
  /\ context = "live" /\ notified = FALSE /\ isOpened = FALSE /\ conn = "none"
  /\ typed = 0 /\ eof = FALSE /\ taken = 0 /\ delivered = 0
  /\ peer = "open" /\ reset = "no" /\ incoming = 0 /\ fromPeer = 0 /\ scanEnd = FALSE
  /\ signalled = FALSE /\ broken = {} /\ faults = {}

(***************************************************************************)
(* main.                                                                   *)
(***************************************************************************)
Connect ==
  /\ client = "connecting"
  /\ client' = "waiting"
  /\ conn' = "open" /\ isOpened' = TRUE /\ notified' = TRUE
  /\ UNCHANGED <<at, context, stdinVars, taken, delivered, peerVars, reset, incoming, scanEnd,
                 historyVars>>

ConnectFails ==
  /\ client = "connecting"
  /\ client' = "returned"
  /\ UNCHANGED <<at, context, notified, isOpened, conn, stdinVars, taken, delivered, peerVars,
                 reset, incoming, scanEnd, historyVars>>

\* wg.Wait has returned: the deferred stop and closeTelnetClient.
Finish ==
  /\ Waiting /\ \A g \in Goroutines : at[g] = "done"
  /\ context' = "done" /\ notified' = FALSE
  /\ IF isOpened /\ conn = "closed" THEN client' = "fatal" /\ UNCHANGED <<isOpened, conn>>
     ELSE client' = "returned" /\ isOpened' = FALSE /\ conn' = "closed"
  /\ UNCHANGED <<at, stdinVars, taken, delivered, peerVars, reset, incoming, scanEnd,
                 historyVars>>

(***************************************************************************)
(* The goroutines.                                                         *)
(***************************************************************************)
Goes(g, from, to) == Waiting /\ at[g] = from /\ at' = [at EXCEPT ![g] = to]

worldVars == <<stdinVars, taken, delivered, peerVars, reset, incoming, scanEnd,
               signalled, faults>>
sharedVars == <<client, context, notified, isOpened, conn>>

\* Mutant: the context is not looked at.
SelectBlind(g) ==
  /\ Goes(g, "select", "call")
  /\ UNCHANGED <<sharedVars, worldVars, broken>>

Select(g) ==
  /\ Goes(g, "select", IF context = "done" THEN "done" ELSE "call")
  /\ UNCHANGED <<sharedVars, worldVars, broken>>

\* Send and Receive begin: they work on a copy of the struct.
Call(g) ==
  /\ isOpened
  /\ Goes(g, "call", "blocked")
  /\ UNCHANGED <<sharedVars, worldVars, broken>>

Fails(g, from) ==
  /\ Goes(g, from, "stopping")
  /\ broken' = broken \cup {g}
  /\ UNCHANGED <<sharedVars, worldVars>>

CallOnClosed(g) == ~isOpened /\ Fails(g, "call")

ReadLine ==
  /\ taken < typed
  /\ Goes("sender", "blocked", "writing")
  /\ taken' = taken + 1
  /\ UNCHANGED <<sharedVars, stdinVars, delivered, peerVars, reset, incoming, scanEnd,
                 historyVars>>

\* Mutant: ReadBytes reports an end of stdin that comes before the lines were read.
ReadEofEarly == eof /\ Fails("sender", "blocked")

\* What stands behind the last newline is lost with the EOF.
ReadEof == eof /\ taken = typed /\ Fails("sender", "blocked")

\* A write to a peer that is gone succeeds and provokes a reset.
Write ==
  /\ conn = "open" /\ reset # "yes"
  /\ Goes("sender", "writing", "select")
  /\ \/ peer = "open" /\ delivered' = delivered + 1 /\ UNCHANGED reset
     \/ peer = "closed" /\ reset' = "due" /\ UNCHANGED delivered
  /\ UNCHANGED <<sharedVars, stdinVars, taken, peerVars, incoming, scanEnd,
                 historyVars>>

\* Mutant: a failed write is printed and nothing else.
WriteFailsGoesOn ==
  /\ conn = "closed" \/ reset = "yes"
  /\ Goes("sender", "writing", "select")
  /\ UNCHANGED <<sharedVars, worldVars, broken>>

WriteFails == (conn = "closed" \/ reset = "yes") /\ Fails("sender", "writing")

\* Mutant: a Scan that is false is taken for an empty line.
ScanEmpty ==
  /\ incoming > 0 \/ peer = "closed"
  /\ Goes("receiver", "blocked", "select")
  /\ incoming' = incoming - 1
  /\ UNCHANGED <<sharedVars, stdinVars, taken, delivered, peerVars, reset, scanEnd,
                 historyVars>>

\* A line that was sent may already be in the buffer of the scanner when the
\* connection is closed or reset.
ScanLine ==
  /\ incoming > 0
  /\ Goes("receiver", "blocked", "select")
  /\ incoming' = incoming - 1
  /\ UNCHANGED <<sharedVars, stdinVars, taken, delivered, peerVars, reset, scanEnd,
                 historyVars>>

\* The peer has closed: Scan is false and there is no error, so that Receive is
\* called again at once.
ScanEnds ==
  /\ scanEnd \/ (conn = "open" /\ peer = "closed" /\ incoming = 0)
  /\ Goes("receiver", "blocked", "select")
  /\ scanEnd' = TRUE
  /\ UNCHANGED <<sharedVars, stdinVars, taken, delivered, peerVars, reset, incoming,
                 historyVars>>

\* Scan fails with "use of closed network connection", which is taken for no error.
ScanClosed ==
  /\ conn = "closed"
  /\ Goes("receiver", "blocked", "select")
  /\ UNCHANGED <<sharedVars, worldVars, broken>>

ScanReset == reset = "yes" /\ conn = "open" /\ ~scanEnd /\ Fails("receiver", "blocked")

(***************************************************************************)
(* What goes wrong on this side of the connection.                         *)
(***************************************************************************)
Breaks(g, fault) ==
  /\ Goes(g, "blocked", "stopping")
  /\ broken' = broken \cup {g} /\ faults' = faults \cup {fault}
  /\ UNCHANGED <<sharedVars, stdinVars, taken, delivered, peerVars, reset, scanEnd, signalled>>

\* ReadBytes fails with something else than the end of stdin.
StdinFails == Breaks("sender", "stdin") /\ UNCHANGED incoming

\* The next line does not fit into the buffer of the scanner.
LineTooLong == incoming > 0 /\ Breaks("receiver", "scanner") /\ UNCHANGED incoming

\* A line was scanned and cannot be written to stdout.
StdoutFails ==
  /\ incoming > 0 /\ incoming' = incoming - 1
  /\ Breaks("receiver", "stdout")

\* Nothing is told without stderr: log.Fatalln.
StderrFails ==
  /\ client = "connecting" \/ (Waiting /\ \E g \in Goroutines : at[g] = "stopping")
  /\ client' = "fatal" /\ faults' = faults \cup {"stderr"}
  /\ UNCHANGED <<at, context, notified, isOpened, conn, stdinVars, taken, delivered, peerVars,
                 reset, incoming, scanEnd, signalled, broken>>

Fault == StdinFails \/ LineTooLong \/ StdoutFails \/ StderrFails

(***************************************************************************)
(* The way out.                                                            *)
(***************************************************************************)
\* stop cancels the context and gives the signals back to their default action.
CallStop(g) ==
  /\ Goes(g, "stopping", "closing")
  /\ context' = "done" /\ notified' = FALSE
  /\ UNCHANGED <<client, isOpened, conn, worldVars, broken>>

\* Mutant: the close is left to main.
CloseLater(g) ==
  /\ Goes(g, "closing", "done")
  /\ UNCHANGED <<sharedVars, worldVars, broken>>

\* Close reads isOpened, closes the socket and writes isOpened: another goroutine
\* may do the same at the same time.
CloseBegins(g) ==
  /\ Goes(g, "closing", IF isOpened THEN "closeConn" ELSE "done")
  /\ UNCHANGED <<sharedVars, worldVars, broken>>

CloseConn(g) ==
  /\ conn = "open"
  /\ Goes(g, "closeConn", "closed")
  /\ conn' = "closed"
  /\ UNCHANGED <<client, context, notified, isOpened, worldVars, broken>>

\* log.Fatalln on the error of the second Close.
CloseFails(g) ==
  /\ Waiting /\ at[g] = "closeConn" /\ conn = "closed"
  /\ client' = "fatal"
  /\ UNCHANGED <<at, context, notified, isOpened, conn, worldVars, broken>>

\* Mutant: the flag is left as it was.
CloseEndsSet(g) ==
  /\ Goes(g, "closed", "done")
  /\ UNCHANGED <<sharedVars, worldVars, broken>>

CloseEnds(g) ==
  /\ Goes(g, "closed", "done")
  /\ isOpened' = FALSE
  /\ UNCHANGED <<client, context, notified, conn, worldVars, broken>>

Either(g) ==
  \/ Select(g) \/ Call(g) \/ CallOnClosed(g)
  \/ CallStop(g) \/ CloseBegins(g) \/ CloseConn(g) \/ CloseFails(g) \/ CloseEnds(g)

Sender == Either("sender") \/ ReadLine \/ ReadEof \/ Write \/ WriteFails
Receiver == Either("receiver") \/ ScanLine \/ ScanEnds \/ ScanClosed \/ ScanReset

(***************************************************************************)
(* The user, the peer and the network.                                     *)
(***************************************************************************)
Type ==
  /\ ~Ended /\ ~eof /\ typed < UserLines
  /\ typed' = typed + 1
  /\ UNCHANGED <<processVars, eof, taken, delivered, peerVars, reset, incoming, scanEnd,
                 historyVars>>

EndStdin ==
  /\ ~Ended /\ ~eof
  /\ eof' = TRUE
  /\ UNCHANGED <<processVars, typed, taken, delivered, peerVars, reset, incoming, scanEnd,
                 historyVars>>

\* Before Connect has returned and after stop the default action of the signal ends
\* the process.
Interrupt ==
  /\ ~Ended /\ ~signalled
  /\ signalled' = TRUE
  /\ IF notified THEN context' = "done" /\ UNCHANGED client
     ELSE client' = "killed" /\ UNCHANGED context
  /\ UNCHANGED <<at, notified, isOpened, conn, stdinVars, taken, delivered, peerVars, reset,
                 incoming, scanEnd, broken, faults>>

PeerSends ==
  /\ conn = "open" /\ peer = "open" /\ fromPeer < PeerLines
  /\ fromPeer' = fromPeer + 1 /\ incoming' = incoming + 1
  /\ UNCHANGED <<processVars, stdinVars, taken, delivered, peer, reset, scanEnd, historyVars>>

PeerCloses ==
  /\ conn = "open" /\ peer = "open"
  /\ peer' = "closed"
  /\ UNCHANGED <<processVars, stdinVars, taken, delivered, fromPeer, reset, incoming, scanEnd,
                 historyVars>>

ResetArrives ==
  /\ reset = "due"
  /\ reset' = "yes"
  /\ UNCHANGED <<processVars, stdinVars, taken, delivered, peerVars, incoming, scanEnd,
                 historyVars>>

\* The network fails while both sides are there.
NetworkFails ==
  /\ conn = "open" /\ reset # "yes"
  /\ reset' = "yes"
  /\ UNCHANGED <<processVars, stdinVars, taken, delivered, peerVars, incoming, scanEnd,
                 historyVars>>

World ==
  \/ Type \/ EndStdin \/ Interrupt
  \/ PeerSends \/ PeerCloses \/ ResetArrives \/ NetworkFails

Client == Connect \/ ConnectFails \/ Finish

TelnetNext == Client \/ Sender \/ Receiver \/ Fault \/ World

TelnetSpec == TelnetInit /\ [][TelnetNext]_telnetVars

\* The process runs; the user and the peer do what they like, and nothing has to fail.
TelnetFairness ==
  /\ WF_telnetVars(Client) /\ WF_telnetVars(Sender) /\ WF_telnetVars(Receiver)
  /\ WF_telnetVars(ResetArrives)

TelnetFairSpec == TelnetSpec /\ TelnetFairness

(***************************************************************************)
(* Properties.                                                             *)
(***************************************************************************)

\* Nothing has failed, neither on this side nor in the connection.
Sound == faults = {} /\ reset = "no"

\* A program that ends at Ctrl+D has sent every line that was typed before it, unless
\* something has failed or a signal came first; and one that returns has closed its
\* socket, whatever has failed.
EofAfterEverything ==
  client = "returned" =>
    /\ conn # "open"
    /\ (eof /\ conn = "closed" /\ Sound /\ ~signalled) => delivered = typed

\* Two goroutines close the same client without a lock, and log.Fatalln ends the
\* process if the second comes before isOpened is written: that takes a failure of
\* both, never one and the context alone.  The other fatal error is a stderr that
\* fails.
FatalNeedsTwoFailures == client = "fatal" => broken = Goroutines \/ "stderr" \in faults

\* The client comes to its end in order: with everything sent, and with no fatal error
\* that one failure could have caused.
ClientLeavesInOrder == EofAfterEverything /\ FatalNeedsTwoFailures

(***************************************************************************)
(* The inductive invariant.                                                *)
(***************************************************************************)

\* Before Connect nothing has begun.
ConnectingInv ==
  client = "connecting" =>
    /\ at = [g \in Goroutines |-> "select"] /\ conn = "none" /\ context = "live"
    /\ ~notified /\ broken = {}

\* A goroutine that has failed is on its way out, and only such a one closes.
BrokenInv ==
  \A g \in Goroutines :
    /\ g \in broken => at[g] \in {"stopping", "closing", "closeConn", "closed", "done"}
    /\ at[g] \in {"stopping", "closing", "closeConn", "closed"} => g \in broken

\* What ends has a reason: the context, and with it a goroutine, by a signal or a
\* failure; the socket and the flag by a goroutine that has failed and still has to
\* write the flag, or has written it.
ReasonsInv ==
  /\ context = "done" => signalled \/ broken # {}
  /\ \A g \in Goroutines : at[g] = "done" => signalled \/ broken # {}
  /\ (client = "waiting" /\ ~isOpened) => broken # {}
  /\ (client = "waiting" /\ conn = "closed") =>
       \E g \in broken : at[g] = "closed" \/ (at[g] = "done" /\ ~isOpened)

\* As long as nothing has failed, every line that was taken is delivered or about to
\* be, and no goroutine ends before the end of stdin.
PeerInv ==
  /\ at["sender"] = "writing" => delivered < taken
  /\ Sound =>
       /\ IF at["sender"] = "writing" THEN taken = delivered + 1 ELSE taken = delivered
       /\ broken # {} => eof /\ taken = typed /\ "sender" \in broken

TelnetInv ==
  /\ TelnetTypeOK /\ ConnectingInv /\ BrokenInv /\ ReasonsInv /\ PeerInv
  /\ EofAfterEverything /\ FatalNeedsTwoFailures

(***************************************************************************)
(* Liveness.                                                               *)
(***************************************************************************)

\* Ctrl+D ends the program, although the receiver is blocked in the socket: the
\* sender closes it under the receiver.
EofEndsProgram == (eof /\ Waiting) ~> (Ended \/ signalled)

\* When the connection has failed, the next line that is typed ends the program.
RefusedWriteEndsProgram == (reset = "yes" /\ taken < typed) ~> (Ended \/ signalled)

\* Whatever has failed, the receiver returns, although it may be blocked in the socket:
\* nobody goes on printing for a sender that is gone.
FailureEndsReceiver == (broken # {}) ~> (Ended \/ at["receiver"] = "done")

\* A goroutine is blocked in a read that nothing answers.
Idle(g) ==
  /\ at[g] = "blocked"
  /\ \/ g = "sender" /\ taken = typed /\ ~eof
     \/ g = "receiver" /\ incoming = 0 /\ conn = "open" /\ ~scanEnd /\ peer = "open"
                       /\ reset # "yes"

\* After a signal a goroutine returns unless it waits in a read at that time: no
\* other interleaving of signal, failure and close keeps it, the busy loop of a
\* receiver whose peer is gone least of all.
SignalEndsGoroutines ==
  \A g \in Goroutines : signalled ~> (Ended \/ at[g] = "done" \/ Idle(g))

\* The end of stdin and a failed connection end the client, and a failure ends the
\* receiver; of a signal no more is promised than that it ends the goroutines that do
\* not wait in a read.
ClientEnds ==
  EofEndsProgram /\ RefusedWriteEndsProgram /\ FailureEndsReceiver /\ SignalEndsGoroutines

\* What the README of the client says of SIGINT: it ends the program.
SigintEnds == signalled ~> Ended
=============================================================================
