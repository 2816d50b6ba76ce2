---------------------------- MODULE SecureChannel ----------------------------
(***************************************************************************)
(* What the data phase promises its users: two ends that open and close    *)
(* sessions, and messages that reach the other end at most once, in the    *)
(* session they were sent in or not at all.  Nothing is said about keys;   *)
(* DataKeys implements this specification.                                 *)
(***************************************************************************)
EXTENDS Naturals, Sequences

CONSTANTS A, B

VARIABLES
  open,   \* open[p]: end p is in a private session
  joined, \* joined[p]: the sessions p has joined
  last,   \* last[p]: the session p joined last (0: none)
  sent,   \* sent[p]: the session each message of p was sent in, in order
  shown   \* shown[p]: the messages of the other end p has read, in order

vars == <<open, joined, last, sent, shown>>

Peers == {A, B}
Other(p) == IF p = A THEN B ELSE A

Init ==
  /\ open = [p \in Peers |-> FALSE]
  /\ joined = [p \in Peers |-> {}]
  /\ last = [p \in Peers |-> 0]
  /\ sent = [p \in Peers |-> <<>>]
  /\ shown = [p \in Peers |-> <<>>]

\* A session that p has not been in yet.  A message that waited for the session
\* may be sent at once.
Join(p) ==
  /\ last'[p] \in Nat \ (joined[p] \cup {0})
  /\ last' = [last EXCEPT ![p] = last'[p]]
  /\ joined' = [joined EXCEPT ![p] = @ \cup {last'[p]}]
  /\ open' = [open EXCEPT ![p] = TRUE]
  /\ sent' \in {sent, [sent EXCEPT ![p] = Append(@, last'[p])]}
  /\ UNCHANGED shown

Leave(p) ==
  /\ open' = [open EXCEPT ![p] = FALSE]
  /\ UNCHANGED <<joined, last, sent, shown>>

Say(p) == sent' = [sent EXCEPT ![p] = Append(@, last[p])]

MayLeave(p) == open' \in {open, [open EXCEPT ![p] = FALSE]}

\* Send a message, and perhaps close the session with it.
Send(p) ==
  /\ open[p]
  /\ Say(p)
  /\ MayLeave(p)
  /\ UNCHANGED <<joined, last, shown>>

\* Read a message that is new to p and belongs to p's session; it may close
\* the session, and it may be answered at once.
Deliver(p, i) ==
  /\ open[p]
  /\ sent[Other(p)][i] = last[p]
  /\ \A n \in DOMAIN shown[p] : shown[p][n] # i
  /\ shown' = [shown EXCEPT ![p] = Append(@, i)]
  /\ MayLeave(p)
  /\ Say(p) \/ UNCHANGED sent
  /\ UNCHANGED <<joined, last>>

Next ==
  \E p \in Peers :
    \/ Join(p)
    \/ Leave(p)
    \/ Send(p)
    \/ \E i \in DOMAIN sent[Other(p)] : Deliver(p, i)

Spec == Init /\ [][Next]_vars
=============================================================================
