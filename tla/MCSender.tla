------------------------------- MODULE MCSender -------------------------------
(***************************************************************************)
(* The instances of Sender that TLC checks.                                *)
(***************************************************************************)
EXTENDS Sender, TLC

CONSTANTS m1, m2, m3, h1, h2

MCSymmetry == Permutations({h1, h2}) \cup Permutations(Plain)
=============================================================================
