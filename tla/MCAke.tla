-------------------------------- MODULE MCAke --------------------------------
(* Instances of Ake for TLC.  The two ends are interchangeable where both    *)
(* may start an exchange; runs of liveness properties use no symmetry.       *)
EXTENDS Ake, TLC

Symmetry == Permutations(Peers)
=============================================================================
