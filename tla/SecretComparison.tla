--------------------------- MODULE SecretComparison ---------------------------
(***************************************************************************)
(* What two users may rely on who compare a secret: a key becomes trusted  *)
(* only because its owner has typed the same secret, in the same private   *)
(* conversation and under the keys that are compared, and only the one who *)
(* did not ask with a question learns something by answering.  Trust is    *)
(* withdrawn only after the users typed what does not agree.  What a user  *)
(* typed decides one comparison at most.  Module Smp implements this.      *)
(***************************************************************************)
EXTENDS Naturals, Sequences

CONSTANTS A, B

VARIABLES
  entered,  \* what each user typed, and for which comparison
  waiting,  \* the entry each user still has no verdict on, or 0
  trusted   \* the keys of the other that each user trusts

vars == <<entered, waiting, trusted>>

Peers == {A, B}
Other(p) == IF p = A THEN B ELSE A

Init ==
  /\ entered = [p \in Peers |-> <<>>]
  /\ waiting = [p \in Peers |-> 0]
  /\ trusted \in [Peers -> SUBSET Nat]

\* mine and theirs are about the same comparison, and agree.
SameKeys(mine, theirs) == mine.own = theirs.peer /\ mine.peer = theirs.own
Agree(mine, theirs) ==
  /\ mine.session = theirs.session /\ SameKeys(mine, theirs)
  /\ mine.typed = theirs.typed

\* A user who answers a question is not told about the one who asked.
Learns(p, mine) == mine.asker = p \/ ~mine.question

Enter(p) ==
  /\ Len(entered'[p]) = Len(entered[p]) + 1
  /\ entered' = [entered EXCEPT ![p] = Append(@, entered'[p][Len(@) + 1])]
  /\ waiting' = [waiting EXCEPT ![p] = Len(entered[p]) + 1]
  /\ UNCHANGED trusted

Conclude(p) ==
  /\ waiting[p] # 0
  /\ waiting' = [waiting EXCEPT ![p] = 0]
  /\ \E theirs \in {entered[Other(p)][i] : i \in DOMAIN entered[Other(p)]} :
       LET mine == entered[p][waiting[p]]
       IN  /\ mine.asker = theirs.asker
           /\ \/ ~Learns(p, mine) /\ UNCHANGED trusted
              \/ /\ Learns(p, mine) /\ Agree(mine, theirs)
                 /\ trusted' = [trusted EXCEPT ![p] = @ \cup {mine.peer}]
              \/ /\ Learns(p, mine) /\ ~Agree(mine, theirs)
                 /\ \E key \in {0} \cup trusted[p] :
                      trusted' = [trusted EXCEPT ![p] = @ \ {key}]
  /\ UNCHANGED entered

GiveUp(p) ==
  /\ waiting' = [waiting EXCEPT ![p] = 0]
  /\ UNCHANGED <<entered, trusted>>

Next == \E p \in Peers : Enter(p) \/ Conclude(p) \/ GiveUp(p)

Spec == Init /\ [][Next]_vars
=============================================================================
