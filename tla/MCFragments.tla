----------------------------- MODULE MCFragments -----------------------------
(* Instances of Fragments for TLC: a client of version 2 and one of version 3. *)
EXTENDS Fragments

CONSTANTS OldClient, NewClient

TwoVersions == [c \in {OldClient, NewClient} |-> IF c = OldClient THEN 2 ELSE 3]
HeaderLengths == [v \in {2, 3} |-> v - 1]
=============================================================================
