------------------------------- MODULE Fragments -------------------------------
(***************************************************************************)
(* Messages that are too long for the transport travel in pieces.          *)
(*                                                                         *)
(* Modelled from fragment_and_send (OTRL/message.c), from otrl_proto_      *)
(* fragment_create and otrl_proto_fragment_accumulate (OTRL/proto.c) and   *)
(* from the head of otrl_message_receiving.  One end receives; the other   *)
(* is a correspondent with several clients, each of protocol version 2 or  *)
(* 3.  Pieces of version 3 carry instance tags and are collected in the    *)
(* context of the client they come from.  Pieces of version 2 are          *)
(* collected in the master context, and every message that comes in one    *)
(* piece passes through the master context as well, whoever sent it.       *)
(*                                                                         *)
(* The characters of the n-th message are <<n, 1>>, <<n, 2>>, ...          *)
(***************************************************************************)
EXTENDS Naturals, Sequences, SequencesExt

CONSTANTS
  Clients,    \* the correspondent's clients
  Version,    \* Version[c]: the protocol version of a client
  Master,     \* the master context; each client has a context of its own, too
  MaxSize,    \* max_message_size of the application
  HeaderLen,  \* HeaderLen[v]: what a header takes away of it
  Lengths,    \* lengths of messages
  MaxSent,    \* bound: messages sent
  MaxLost,    \* bound: pieces of a client that get lost
  MaxShuffles,\* bound: messages repeated and messages that overtake others
  Faults      \* what may go wrong together: a set of sets

ASSUME MasterIsNoClient == Master \notin Clients
ASSUME VersionsAreKnown == Version \in [Clients -> {2, 3}]

\* Pieces of version 2 do not say which client they come from.
ASSUME OneOldClient ==
  \A c, d \in Clients : Version[c] = 2 /\ Version[d] = 2 => c = d
ASSUME PiecesHoldSomething ==
  /\ MaxSize \in Nat /\ HeaderLen \in [{2, 3} -> Nat]
  /\ \A v \in {2, 3} : HeaderLen[v] < MaxSize
ASSUME LengthsAreNat == Lengths \subseteq Nat \ {0} 
ASSUME BoundsAreNat == {MaxSent, MaxLost, MaxShuffles} \subseteq Nat

\* "lose", "repeat" and "overtake": messages on their way; "end": conversations
\* end before all pieces are there.
ASSUME FaultsAreKnown ==
  Faults \subseteq SUBSET {"lose", "repeat", "overtake", "end"}

VARIABLES
  sent,      \* the messages sent: from which client, to us or another login
  net,       \* net[c]: what client c has put on the way, in order
  fragment,  \* fragment, fragment_n and fragment_k of each context
  read,      \* history: what was handed on as a complete message
  lost,      \* history: pieces of each client that were not collected
  shuffled,  \* how many messages were repeated or have overtaken others
  troubled,  \* history: clients that lost a piece or had theirs discarded
  faults     \* what goes wrong in this behaviour

vars == <<sent, net, fragment, read, lost, shuffled, troubled, faults>>

Contexts == Clients \cup {Master}

Nothing == [data |-> <<>>, n |-> 0, k |-> 0]

-----------------------------------------------------------------------------
(* Sending.                                                                *)

Message(i) == [j \in 1 .. sent[i].length |-> <<i, j>>]

\* fragment_and_send: how many pieces a message of this length makes.  A message
\* that fits is sent as it is.
Count(length, v) ==
  IF length > MaxSize THEN ((length - 1) \div (MaxSize - HeaderLen[v])) + 1 ELSE 1

\* otrl_proto_fragment_create, and a header unless the message is in one piece.
Piece(c, i, whole, n, k) ==
  LET room == MaxSize - HeaderLen[Version[c]]
      end == k * room
  IN  [to |-> sent'[i].to, k |-> k, n |-> n,
       data |-> IF n = 1 THEN whole
                ELSE SubSeq(whole, end - room + 1,
                            IF end > Len(whole) THEN Len(whole) ELSE end)]

Init ==
  /\ sent = <<>>
  /\ net = [c \in Clients |-> <<>>]
  /\ fragment = [x \in Contexts |-> Nothing]
  /\ read = {}
  /\ lost = [c \in Clients |-> 0]
  /\ shuffled = 0
  /\ troubled = {}
  /\ faults \in Faults

\* The plugin's hook has all pieces injected but the last, which it returns to
\* the host instead of the text; the host sends it before anything else.
Send(c, length, to) ==
  LET i == Len(sent) + 1
      n == Count(length, Version[c])
      whole == [j \in 1 .. length |-> <<i, j>>]
  IN
  /\ Len(sent) < MaxSent /\ (Version[c] = 2 => to = "us")
  /\ sent' = Append(sent, [client |-> c, length |-> length, to |-> to])
  /\ net' = [net EXCEPT ![c] = @ \o [k \in 1 .. n |-> Piece(c, i, whole, n, k)]]
  /\ UNCHANGED <<fragment, read, lost, shuffled, troubled, faults>>

-----------------------------------------------------------------------------
(* Receiving.                                                              *)

\* otrl_proto_fragment_accumulate.  A message in one piece discards what has been
\* collected; so does a piece that does not continue it.
AccumulateGaps(f, m) ==
  CASE m.n = 1 -> Nothing
    [] m.n # 1 /\ m.k = 1 -> [data |-> m.data, n |-> m.n, k |-> 1]
    [] m.n # 1 /\ m.k # 1 /\ m.n = f.n /\ m.k > f.k ->
         [f EXCEPT !.data = @ \o m.data, !.k = m.k]
    [] OTHER -> Nothing
Accumulate(f, m) ==
  CASE m.n = 1 -> Nothing
    [] m.n # 1 /\ m.k = 1 -> [data |-> m.data, n |-> m.n, k |-> 1]
    [] m.n # 1 /\ m.k # 1 /\ m.n = f.n /\ m.k = f.k + 1 ->
         [f EXCEPT !.data = @ \o m.data, !.k = m.k]
    [] OTHER -> Nothing

TooLate(f) == f.n > 0 /\ f.k > f.n
Complete(f) == f.n > 0 /\ f.n = f.k

\* The context a message is accumulated in.
AlwaysMaster(c, m) == Master
Context(c, m) == IF Version[c] = 3 /\ m.n > 1 THEN c ELSE Master

\* Clients whose collected pieces a message of c in one piece discards.
Interrupted(c, m) ==
  {d \in Clients \ {c} : Version[d] = 2 /\ m.n = 1 /\ fragment[Master].n > 0}

Shuffle == shuffled < MaxShuffles /\ shuffled' = shuffled + 1
Taken(c, i) == net' = [net EXCEPT ![c] = RemoveAt(@, i)]

Collected(c, m) ==
  LET x == Context(c, m)
      f == Accumulate(fragment[x], m)
      handed == IF m.n = 1 THEN m.data ELSE f.data
  IN
  /\ IF Complete(f) \/ m.n = 1
     THEN /\ fragment' = [fragment EXCEPT ![x] = Nothing]
          /\ read' = read \cup {[client |-> c, n |-> m.n, data |-> handed]}
     ELSE fragment' = [fragment EXCEPT ![x] = f] /\ UNCHANGED read
  /\ troubled' = troubled \cup Interrupted(c, m)
  /\ UNCHANGED lost

\* "Ignore message if it is intended for a different instance"; a message in one
\* piece is looked at later.
ForAnotherInstance(c, m) == Version[c] = 3 /\ m.n > 1 /\ m.to = "another"

Receive(c) ==
  \E i \in DOMAIN net[c] :
    LET m == net[c][i]
    IN
    /\ \/ i = 1 /\ UNCHANGED shuffled
       \/ i # 1 /\ "overtake" \in faults /\ Shuffle
    /\ Taken(c, i)
    /\ \/ ~ForAnotherInstance(c, m) /\ Collected(c, m)
       \/ /\ ForAnotherInstance(c, m)
          /\ UNCHANGED <<fragment, read, lost, troubled>>
    /\ UNCHANGED <<sent, faults>>

(* What goes wrong.                                                        *)

\* A piece gets lost, or arrives while the user's policy forbids OTR altogether:
\* otrl_message_receiving has it shown as it is.
Lose(c) ==
  /\ "lose" \in faults /\ lost[c] < MaxLost /\ net[c] # <<>>
  /\ Taken(c, 1)
  /\ lost' = [lost EXCEPT ![c] = @ + 1]
  /\ troubled' = troubled \cup {c}
  /\ UNCHANGED <<sent, fragment, read, shuffled, faults>>

Repeat(c) ==
  /\ "repeat" \in faults /\ Shuffle
  /\ \E i \in DOMAIN net[c] : net' = [net EXCEPT ![c] = Append(@, @[i])]
  /\ UNCHANGED <<sent, fragment, read, lost, troubled, faults>>

\* otrl_context_priv_force_finished, or the context is forgotten.
Finish(x) ==
  /\ "end" \in faults
  /\ fragment[x].n > 0
  /\ fragment' = [fragment EXCEPT ![x] = Nothing]
  /\ troubled' = troubled \cup
       {c \in Clients : x = IF Version[c] = 3 THEN c ELSE Master}
  /\ UNCHANGED <<sent, net, read, lost, shuffled, faults>>

Next ==
  \/ \E c \in Clients :
       \/ \E length \in Lengths, to \in {"us", "another"} : Send(c, length, to)
       \/ Receive(c) \/ Lose(c) \/ Repeat(c)
  \/ \E x \in Contexts : Finish(x)

Spec == Init /\ [][Next]_vars

\* The transport delivers what it was given.
Fairness == \A c \in Clients : WF_vars(Receive(c))

FairSpec == Spec /\ Fairness

-----------------------------------------------------------------------------
\* What a context has collected is the beginning of one complete message: at
\* least one piece and not all of them, each with something in it.
TypeOK ==
  /\ shuffled \in 0 .. MaxShuffles
  /\ troubled \subseteq Clients /\ lost \in [Clients -> Nat]
  /\ \A x \in Contexts :
       \/ fragment[x] = Nothing
       \/ /\ fragment[x].k \in 1 .. fragment[x].n - 1
          /\ Len(fragment[x].data) >= fragment[x].k

Holds(r, i) ==
  i \in DOMAIN sent /\ r.client = sent[i].client /\ r.data = Message(i)
Whole(r) == \E i \in DOMAIN sent : Holds(r, i)

\* Only k and n tell the pieces of two messages apart (proto.c:942): where the
\* transport keeps the order and repeats nothing, a message put together of
\* several ones costs the loss of as many pieces as it has.
MixesNeedLosses ==
  \A r \in read : Whole(r) \/ shuffled > 0 \/ lost[r.client] >= r.n

\* A message is handed on complete if its pieces arrive in order: whatever the
\* other clients send meanwhile (message.c:996-1018), but for messages in one
\* piece while pieces of version 2 are collected (proto.c:911).
Arrives ==
  \A i \in 1 .. MaxSent :
    (i \in DOMAIN sent /\ sent[i].to = "us")
      ~> \/ \E r \in read : Holds(r, i)
         \/ i \in DOMAIN sent /\ sent[i].client \in troubled
         \/ shuffled > 0
=============================================================================
