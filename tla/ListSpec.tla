------------------------------ MODULE ListSpec ------------------------------
(***************************************************************************)
(* What the List of hw04 promises: a sequence of values to which one adds  *)
(* at either end, and from which an element is removed or brought to the   *)
(* front.                                                                  *)
(***************************************************************************)
EXTENDS Sequences, SequencesExt

CONSTANT Values

VARIABLE content

Init == content = <<>>

Next ==
  \/ \E v \in Values : content' = <<v>> \o content
  \/ \E v \in Values : content' = Append(content, v)
  \/ \E k \in DOMAIN content : content' = RemoveAt(content, k)
  \/ \E k \in DOMAIN content : content' = <<content[k]>> \o RemoveAt(content, k)

Spec == Init /\ [][Next]_content
=============================================================================
