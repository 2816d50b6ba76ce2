-------------------------------- MODULE MCSmp --------------------------------
(* Instances of Smp for TLC.                                                 *)
EXTENDS Smp

\* A has verified the key of B, and B not that of A.
OneVerified == {[p \in {A, B} |-> IF p = A THEN {1} ELSE {}]}

\* The end whose key has been verified may still be asked for a secret.
OneOrNoneOpen == {[p \in {A, B} |-> FALSE], [p \in {A, B} |-> p = B]}

AllOrNoneAbort == {{A, B}, {}}
=============================================================================
