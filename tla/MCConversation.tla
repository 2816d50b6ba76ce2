--------------------------- MODULE MCConversation ---------------------------
(* Instances of Conversation for TLC: the sets of clients to choose from,    *)
(* and what each of them is run with.                                        *)
EXTENDS Conversation

EverySetOfClients == {{0}, {1}, {1, 2}, {0, 1}}
NewClient == {{1}}
OldAndNewClient == {{0, 1}}

\* The policies, texts and errors that matter are followed with one client,
\* the choice of the instance with two.
EveryPolicy ==
  [s \in ClientSets |->
     IF Cardinality(s) > 1 THEN {"ALWAYS"}
     ELSE {"NEVER", "MANUAL", "OPPORTUNISTIC", "ALWAYS"}]
Opportunistic == [s \in ClientSets |-> {"OPPORTUNISTIC"}]
Always == [s \in ClientSets |-> {"ALWAYS"}]

One == [s \in ClientSets |-> 1]
Two == [s \in ClientSets |-> 2]
None == [s \in ClientSets |-> 0]
TwoUnlessTwoClients == [s \in ClientSets |-> IF Cardinality(s) > 1 THEN 1 ELSE 2]
OneUnlessTwoClients == [s \in ClientSets |-> IF Cardinality(s) > 1 THEN 0 ELSE 1]
=============================================================================
