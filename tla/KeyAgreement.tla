---------------------------- MODULE KeyAgreement ----------------------------
(***************************************************************************)
(* What an authenticated key exchange promises the data phase: outcomes    *)
(* that give each end one new DH key, and ends that join each outcome at   *)
(* most once, not always in the order in which the outcomes came about; an *)
(* end joins one again only where a message of the exchange is repeated.   *)
(* This is what module DataKeys takes a key exchange to be (its Agree and  *)
(* the guard of its GoEncrypted); module Ake implements it.                *)
(***************************************************************************)
EXTENDS Naturals, Sequences

CONSTANTS A, B

VARIABLES
  outcomes,  \* outcomes[e][p]: the DH key of p in the e-th key exchange
  joined,    \* joined[p]: the key exchanges p has gone encrypted with, in order
  repeated   \* a message has been repeated

vars == <<outcomes, joined, repeated>>

Peers == {A, B}
Other(p) == IF p = A THEN B ELSE A

Init ==
  /\ outcomes = <<>>
  /\ joined = [p \in Peers |-> <<>>]
  /\ repeated = FALSE

\* A DH key that p has in no outcome yet.
New(p, k) == \A e \in DOMAIN outcomes : outcomes[e][p] # k

\* p is the first to finish a key exchange.  The answer to a repeated D-H Commit
\* makes another exchange of it, in which one end has the DH key it had before.
Meet(p) ==
  /\ Len(outcomes') = Len(outcomes) + 1
  /\ outcomes' = Append(outcomes, outcomes'[Len(outcomes) + 1])
  /\ LET outcome == outcomes'[Len(outcomes) + 1]
     IN  IF repeated THEN \E q \in Peers : New(q, outcome[q])
         ELSE \A q \in Peers : New(q, outcome[q])
  /\ joined' = [joined EXCEPT ![p] = Append(@, Len(outcomes) + 1)]
  /\ UNCHANGED repeated

\* p finishes a key exchange that its correspondent has finished before.
Follow(p, e) ==
  /\ \A n \in DOMAIN joined[p] : joined[p][n] # e
  /\ joined' = [joined EXCEPT ![p] = Append(@, e)]
  /\ UNCHANGED <<outcomes, repeated>>

\* A repeated message finishes once more what p has finished: it starts the
\* session anew, with the keys it had when it was agreed upon.
Rejoin(p) ==
  /\ repeated
  /\ \E n \in DOMAIN joined[p] :
       joined' = [joined EXCEPT ![p] = Append(@, joined[p][n])]
  /\ UNCHANGED <<outcomes, repeated>>

Repeat == repeated' = TRUE /\ UNCHANGED <<outcomes, joined>>

Next ==
  \E p \in Peers :
    \/ Meet(p)
    \/ \E e \in DOMAIN outcomes : Follow(p, e)
    \/ Rejoin(p)
    \/ Repeat

Spec == Init /\ [][Next]_vars
=============================================================================
