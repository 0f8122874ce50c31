------------------------------ MODULE Pipeline ------------------------------
(***************************************************************************)
(* hw06, ExecutePipeline: in front of every stage a goroutine, the relay,  *)
(* hands the values over, because only there the done channel can be       *)
(* looked at.  All channels are unbuffered: a value goes from a goroutine  *)
(* that sends to one that receives, in one step of both.                   *)
(*                                                                         *)
(* The goroutines stand in a row: the source at 0, the relay of stage s at *)
(* 2s - 1, stage s at 2s, and the reader of the output at the end.  Each   *)
(* one sends on the channel its successor receives from, and closes it     *)
(* when it returns.  Sources, stages and readers are the caller's: the     *)
(* stages are those of the tests, which range over their input.            *)
(***************************************************************************)
EXTENDS Integers, Sequences, SequencesExt

CONSTANTS
  MaxStages,   \* bound of the number of stages
  Amount       \* how many values the source has to send

ASSUME StagesAssumption == MaxStages \in Nat
ASSUME AmountAssumption == Amount \in Nat

VARIABLES
  stages,    \* len(stages)
  length,    \* the place of the reader
  pc,        \* "receiving", "sending" or "returned"
  holds,     \* the value a goroutine sends: the number the source gave it
  done,      \* the done channel is closed
  output     \* what the reader has received

pipeVars == <<stages, length, pc, holds, done, output>>

Places == 0..(2 * MaxStages + 1)
Relays == {2 * s - 1 : s \in 1..stages}
Reader == length

PipeTypeOK ==
  /\ stages \in 0..MaxStages /\ length \in Places
  /\ pc \in [Places -> {"receiving", "sending", "returned"}]
  /\ holds \in [Places -> 0..Amount]
  /\ done \in BOOLEAN
  /\ output \in Seq(1..Amount)

\* Without an input the result is a channel that is closed; without stages it is
\* the input itself.
PipeInit ==
  /\ stages \in 0..MaxStages
  /\ \E in \in {"nil", "channel"} :
       /\ length = IF in = "nil" THEN 1 ELSE 2 * stages + 1
       /\ pc = [p \in Places |->
                  IF p # 0 THEN "receiving"
                  ELSE IF in = "nil" \/ Amount = 0 THEN "returned" ELSE "sending"]
       /\ holds = [p \in Places |-> IF p = 0 /\ in = "channel" /\ Amount > 0 THEN 1 ELSE 0]
  /\ done = FALSE
  /\ output = <<>>

InUse(p) == p \in 0..(length - 1)

\* Mutant: the source sends one value too many.
SentBeyond(p) ==
  IF p # 0 THEN [at |-> "receiving", value |-> 0]
  ELSE IF holds[0] <= Amount THEN [at |-> "sending", value |-> holds[0] + 1]
  ELSE [at |-> "returned", value |-> 0]

\* What a goroutine does after it has sent: the source goes on to its next value,
\* or closes its channel, and the others receive again.
Sent(p) ==
  IF p # 0 THEN [at |-> "receiving", value |-> 0]
  ELSE IF holds[0] < Amount THEN [at |-> "sending", value |-> holds[0] + 1]
  ELSE [at |-> "returned", value |-> 0]

\* A value goes over an unbuffered channel.
Transfer(p) ==
  /\ InUse(p) /\ pc[p] = "sending" /\ pc[p + 1] = "receiving"
  /\ IF p + 1 = Reader
     THEN /\ output' = Append(output, holds[p])
          /\ pc' = [pc EXCEPT ![p] = Sent(p).at]
          /\ holds' = [holds EXCEPT ![p] = Sent(p).value]
     ELSE /\ pc' = [pc EXCEPT ![p] = Sent(p).at, ![p + 1] = "sending"]
          /\ holds' = [holds EXCEPT ![p] = Sent(p).value, ![p + 1] = holds[p]]
          /\ UNCHANGED output
  /\ UNCHANGED <<stages, length, done>>

\* Mutant: a goroutine comes out of its loop on the closed channel but does not close its own.
SeeClosedLeaves(p) ==
  /\ InUse(p) /\ p # 0
  /\ pc[p] = "receiving" /\ pc[p - 1] = "returned"
  /\ UNCHANGED pipeVars

\* The range of a stage, or the receive of a relay, finds the channel closed, and
\* the deferred close runs.
SeeClosed(p) ==
  /\ InUse(p) /\ p # 0
  /\ pc[p] = "receiving" /\ pc[p - 1] = "returned"
  /\ pc' = [pc EXCEPT ![p] = "returned"]
  /\ UNCHANGED <<stages, length, holds, done, output>>

\* The reader comes to the end of the output.
ReadEnd ==
  /\ pc[Reader] = "receiving" /\ pc[Reader - 1] = "returned"
  /\ pc' = [pc EXCEPT ![Reader] = "returned"]
  /\ UNCHANGED <<stages, length, holds, done, output>>

\* Mutant: the relay throws away what comes after done instead of returning.
SeeDoneDrains(p) ==
  /\ p \in Relays /\ InUse(p) /\ done
  /\ pc[p] = "receiving" /\ pc[p - 1] = "sending"
  /\ pc' = [pc EXCEPT ![p - 1] = Sent(p - 1).at]
  /\ holds' = [holds EXCEPT ![p - 1] = Sent(p - 1).value]
  /\ UNCHANGED <<stages, length, done, output>>

\* Mutant: the relay does not wait in its select.
SeeDoneDefault(p) ==
  /\ p \in Relays /\ InUse(p)
  /\ pc[p] = "receiving"
  /\ pc' = [pc EXCEPT ![p] = "returned"]
  /\ UNCHANGED <<stages, length, holds, done, output>>

\* Mutant: the relay looks at done only when a value has come.
SeeDoneLate(p) ==
  /\ p \in Relays /\ InUse(p) /\ done
  /\ pc[p] = "sending" /\ pc[p + 1] = "receiving"
  /\ pc' = [pc EXCEPT ![p] = "returned"]
  /\ UNCHANGED <<stages, length, holds, done, output>>

\* In the select of a relay: a closed done and a value that has come are chosen
\* between at random.
SeeDone(p) ==
  /\ p \in Relays /\ InUse(p) /\ done
  /\ pc[p] = "receiving"
  /\ pc' = [pc EXCEPT ![p] = "returned"]
  /\ UNCHANGED <<stages, length, holds, done, output>>

\* The caller closes done.
CloseDone ==
  /\ ~done
  /\ done' = TRUE
  /\ UNCHANGED <<stages, length, pc, holds, output>>

PipeNext ==
  \/ \E p \in Places : Transfer(p) \/ SeeClosed(p) \/ SeeDone(p)
  \/ ReadEnd
  \/ CloseDone

PipeSpec == PipeInit /\ [][PipeNext]_pipeVars

\* The goroutines run and the reader reads on; the source need not send.
PipeFairness ==
  /\ WF_pipeVars(ReadEnd)
  /\ \A p \in Places : /\ WF_pipeVars(p # 0 /\ Transfer(p))
                       /\ WF_pipeVars(SeeClosed(p))
                       /\ WF_pipeVars(SeeDone(p))

PipeFairSpec == PipeSpec /\ PipeFairness

(***************************************************************************)
(* The inductive invariant.                                                *)
(***************************************************************************)

\* The values on their way, from the reader upwards, are the next ones without a gap:
\* whoever sends has the value after the one that is next in front of it, and a source
\* that has returned has sent them all.
Stands(p) == p = Reader \/ pc[p] = "sending"
Got(p) == IF p = Reader THEN Len(output) ELSE holds[p]
NoneSends(from, to) == \A p \in from..to : pc[p] # "sending"

RowInv ==
  \A q \in 1..length :
    Stands(q) =>
      /\ \A p \in 0..(q - 1) :
           (pc[p] = "sending" /\ NoneSends(p + 1, q - 1)) => holds[p] = Got(q) + 1
      /\ (length > 1 /\ NoneSends(0, q - 1)) =>
           (pc[0] = "returned" /\ Got(q) = Amount)

\* Nobody sends but what the source had; the reader has got the first values of it.
SentInv ==
  /\ \A p \in 0..(length - 1) : pc[p] = "sending" => holds[p] \in 1..Amount
  /\ \A i \in 1..Len(output) : output[i] = i

\* Without done, a goroutine returns after all before it.
ReturnedInv ==
  ~done =>
    \A p \in 1..length, q \in 0..length :
      (pc[p] = "returned" /\ q < p) => pc[q] = "returned"

PlacesInv ==
  /\ length \in {1, 2 * stages + 1} /\ length >= 1
  /\ pc[0] \in {"sending", "returned"} /\ pc[length] # "sending"

PipeInv == PipeTypeOK /\ PlacesInv /\ SentInv /\ RowInv /\ ReturnedInv

(***************************************************************************)
(* Properties.                                                             *)
(***************************************************************************)

\* The reader gets the values in the order of the source and without a gap, also
\* when done is closed while values are on their way and relays return at
\* different times.
OrderKept == IsPrefix(output, [v \in 1..Amount |-> v])

\* An output that ends although nobody has closed done is complete, and no goroutine
\* before it is left running.
CompleteUnlessStopped ==
  (pc[Reader] = "returned" /\ ~done) =>
    /\ pc[0] = "returned" /\ \A p \in 0..(length - 1) : pc[p] = "returned"
    /\ length > 1 => Len(output) = Amount

\* Whatever the reader gets, and whenever, is what the source has sent.
OutputIsSource == OrderKept /\ CompleteUnlessStopped

\* Closing done ends the output, whatever the source does: it may have stopped
\* sending without closing its channel.
DoneEndsOutput == (done /\ stages > 0) ~> (pc[Reader] = "returned")

\* A source that has closed its channel has its output ended too.
SourceEndsOutput == (pc[0] = "returned") ~> (pc[Reader] = "returned")

\* The reader's range ends, by done or by the source.
OutputEnds == DoneEndsOutput /\ SourceEndsOutput

\* What the last relay has taken is delivered, although done is closed meanwhile.
TakenIsDelivered ==
  \A v \in 1..Amount :
    (stages > 0 /\ length > 1 /\ holds[length - 2] = v /\ pc[length - 2] = "sending")
      ~> (v \in Range(output))
=============================================================================
