----------------------------- MODULE MCDataKeys -----------------------------
(* Instances of DataKeys for TLC.  The two ends are interchangeable.         *)
EXTENDS DataKeys, TLC

\* One key exchange with five messages, a second one within the first three.
FiveThenThree == <<5, 3>>

Symmetry == Permutations(Peers)
=============================================================================
