------------------------------ MODULE Smp_proofs ------------------------------
(***************************************************************************)
(* Proofs about Smp: the values a step computes with are there, unless an  *)
(* answer is given too late, and every step is one of SecretComparison or  *)
(* a stutter.                                                              *)
(*                                                                         *)
(* A verdict is a matter of what the other end's message was made of.  The *)
(* exponents of an end grow, so a message tells by two numbers how old it  *)
(* is: by the exponent of its sender, and by the one it was made to answer *)
(* to, which is the sender's own for the first message of a run.  Both     *)
(* grow along what is on the way to an end.  Hence an SMP3 that is         *)
(* expected answers the SMP2 that was sent last, and an SMP4 the SMP3:     *)
(* neither can fail its proofs of knowledge, however many runs were begun, *)
(* crossed and left behind.                                                *)
(*                                                                         *)
(* An answer to a question of a conversation that has ended is made of     *)
(* what there is.  While it may come, the runs that p has messages of on   *)
(* the way are not the ones the other end is in; and to an answer made of  *)
(* nothing the other end sends no SMP3 (LateInv).                          *)
(***************************************************************************)
EXTENDS Smp, SequenceTheorems, TLAPS

Ownerships == [Nat -> Peers]

Keys == 1 .. MaxEvents + 1
Secret == {NoSecret} \cup (Keys \X Keys \X Nat \X Secrets)
Values == (SUBSET Nat) \X Secret
States ==
  [nextExpected : 1 .. 4, received_question : BOOLEAN, secret : Secret, x : Nat,
   g3o : Nat, g : SUBSET Nat, q : Values, qab : Values \X Values]

Messages ==
  [type : {"SMP1"}, session : Nat, body : [x : Nat, question : BOOLEAN]] \cup
  [type : {"SMP2"}, session : Nat, body : [x : Nat, q : Values]] \cup
  [type : {"SMP3"}, session : Nat,
   body : [x : Nat, q : Values, qab : Values \X Values]] \cup
  [type : {"SMP4"}, session : Nat, body : [x : Nat, qab : Values \X Values]] \cup
  [type : {"ABORT", "DISCONNECTED"}, session : Nat, body : {<<>>}]

Entries == [session : Nat, asker : Peers, question : BOOLEAN, own : Keys,
            peer : Keys, typed : Secrets]

TypeInv ==
  /\ privkey \in [Peers -> Keys] /\ \A p \in Peers : privkey[p] <= events + 1
  /\ sessions \in Seq([Peers -> Keys])
  /\ session \in [Peers -> Nat] /\ \A p \in Peers : session[p] \in 1 .. Len(sessions)
  /\ private \in [Peers -> BOOLEAN] /\ asked \in [Peers -> BOOLEAN]
  /\ smstate \in [Peers -> States]
  /\ trusted \in [Peers -> SUBSET Keys]
  /\ net \in [Peers -> Seq(Messages)]
  /\ exponents \in Nat /\ runs \in Nat /\ events \in 0 .. MaxEvents
  /\ aborting \subseteq Peers
  /\ entered \in [Peers -> Seq(Entries)]

-----------------------------------------------------------------------------
\* Of what a user typed: the entry, and the secret made of it.
AskSecret(e) == Combined(e.own, e.peer, e.session, e.typed)
AnswerSecret(e) == Combined(e.peer, e.own, e.session, e.typed)

\* Typed to ask the other, in some session.
AskedFor(secret, log, p) ==
  \E i \in 1 .. Len(log) : log[i].asker = p /\ secret = AskSecret(log[i])
\* Typed to answer p, in session e.
AnsweredWith(secret, log, p, e) ==
  \E i \in 1 .. Len(log) :
    log[i].asker = p /\ log[i].session = e /\ secret = AnswerSecret(log[i])

LogInv(log, p, es) ==
  \A i \in 1 .. Len(log) :
    log[i].session \in 1 .. Len(es) /\ log[i].peer = es[log[i].session][Other(p)]

Elements(queue) == {queue[i] : i \in 1 .. Len(queue)}

OfRun(m) == m.type \in {"SMP1", "SMP2", "SMP3", "SMP4"}
\* The exponents a message was made of.
Parts(m) ==
  CASE m.type \in {"SMP2", "SMP3"} -> m.body.q[1]
    [] m.type = "SMP4" -> m.body.qab[1][1]
    [] OTHER -> {}

\* A message on its way to p; o tells whose an exponent is, of which n are drawn.
MessageInv(m, p, o, n, mine, theirs) ==
  LET b == m.body  q == Other(p)
  IN  /\ OfRun(m) => b.x \in 1 .. n /\ o[b.x] = q
      /\ m.type \in {"SMP2", "SMP3", "SMP4"} =>
           \/ \E e, f \in 1 .. n : o[e] = p /\ o[f] = q /\ Parts(m) = {e, f}
           \/ m.type = "SMP2" /\ Parts(m) = {}
      /\ m.type \in {"SMP3", "SMP4"} => b.x \in Parts(m)
      /\ m.type = "SMP2" => AnsweredWith(b.q[2], theirs, p, m.session)
      /\ m.type = "SMP3" =>
           /\ b.qab[1] = b.q /\ b.qab[2][1] = b.q[1]
           /\ AskedFor(b.q[2], theirs, q)
           /\ AnsweredWith(b.qab[2][2], mine, q, m.session)
      /\ m.type = "SMP4" => AnsweredWith(b.qab[2][2], theirs, p, m.session)

\* The state of p, which asks its user if a.
StateInv(s, p, a, o, n, mine) ==
  LET q == Other(p)  last == mine[Len(mine)]
  IN  /\ s.x \in 0 .. n /\ (s.x # 0 => o[s.x] = p)
      /\ s.g3o \in 0 .. n /\ (s.g3o # 0 => o[s.g3o] = q)
      /\ s.g # {} =>
           s.g3o # 0 /\ \E z \in 1 .. n : o[z] = p /\ s.g = {z, s.g3o}
      /\ s.g3o # 0 => s.g # {}
      /\ a => s.g # {} /\ s.x # 0 /\ s.nextExpected # 3
      /\ s.nextExpected # 1 => s.x # 0 /\ Len(mine) # 0
      /\ s.nextExpected = 3 =>
           /\ s.q = <<s.g, s.secret>>
           /\ last.asker = q /\ last.question = s.received_question
           /\ s.secret = AnswerSecret(last)
      /\ s.nextExpected \in {2, 4} => last.asker = p /\ s.secret = AskSecret(last)
      /\ s.nextExpected = 4 =>
           s.g = {s.x, s.g3o} /\ s.g # {} /\ s.qab[1] = <<s.g, s.secret>>

-----------------------------------------------------------------------------
(* The view of p: P is on its way to p and Q to the other; s is its state,   *)
(* and x the other's exponent.                                              *)

\* y is not newer than message m, and older if m begins a run.
NotAfter(y, m) == y <= m.body.x /\ (m.type = "SMP1" => y < m.body.x)
BeforeAll(y, P) == \A m \in P : OfRun(m) => NotAfter(y, m)
UpTo(y, z) == z # 0 => y <= z

\* What the other sent is not newer than its exponent, and not older than what p
\* has received.
ReceivedInv(P, s, x) ==
  /\ \A m \in P : OfRun(m) => UpTo(m.body.x, x)
  /\ BeforeAll(s.g3o, P) /\ UpTo(s.g3o, x)

\* What p has answered to, it has received.
AnsweredInv(p, P, Q, s, x, o) ==
  /\ \A m \in Q : \A e \in Parts(m) :
       o[e] = Other(p) => BeforeAll(e, P) /\ UpTo(e, s.g3o) /\ UpTo(e, x)
  /\ \A m \in P : m.type = "SMP3" => BeforeAll(m.body.x, P)

\* A user is asked about what is not answered yet.
AskedInv(p, P, Q, s, a, o) ==
  a => /\ \A m \in P : m.type # "SMP3"
       /\ \A m \in Q : m.type = "SMP2" =>
            \A e \in Parts(m) : o[e] = Other(p) => e # s.g3o

\* An SMP3 that is expected is the answer to what p sent last.
ResponderInv(p, P, Q, s, o) ==
  s.nextExpected = 3 =>
    /\ \A m \in P : m.type = "SMP3" =>
         m.body.qab[2] = s.q /\ s.x \in Parts(m) /\ m.body.x = s.g3o
    /\ \A m \in Q : m.type = "SMP2" =>
         \A e \in Parts(m) : o[e] = Other(p) /\ e = s.g3o =>
           m.body.q = s.q /\ m.body.x = s.x

\* There is no SMP3 or SMP4 of a run before there is an SMP2, and none but the
\* run's after that.
InitiatorInv(P, Q, s) ==
  /\ s.nextExpected = 2 =>
       /\ \A m \in Q : m.type = "SMP3" => m.body.x # s.x
       /\ \A m \in P : m.type = "SMP4" => s.x \notin Parts(m)
  /\ s.nextExpected = 4 =>
       /\ \A m \in Q : m.type = "SMP3" => m.body.qab = s.qab
       /\ \A m \in P : m.type = "SMP4" => m.body.qab = s.qab

View(p, P, Q, s, x, a, o) ==
  /\ ReceivedInv(P, s, x)
  /\ AnsweredInv(p, P, Q, s, x, o)
  /\ AskedInv(p, P, Q, s, a, o)
  /\ ResponderInv(p, P, Q, s, o)
  /\ InitiatorInv(P, Q, s)

\* What is on the way to p is in order.
InOrder(queue, p, o) ==
  \A i, j \in 1 .. Len(queue) : i < j /\ OfRun(queue[j]) =>
    /\ OfRun(queue[i]) => NotAfter(queue[i].body.x, queue[j])
    /\ queue[i].type = "SMP2" /\ queue[j].type = "SMP4" =>
         \A e \in Parts(queue[i]), f \in Parts(queue[j]) :
           o[e] = p /\ o[f] = p => e <= f

(* Both ends: p with P on its way to it, state s and, if a, a question to   *)
(* its user, and the other with Q, t and b.                                 *)

Ends(p, P, Q, s, t, a, b, mine, theirs, n, o) ==
  /\ P \subseteq Messages /\ Q \subseteq Messages
  /\ \A m \in P : MessageInv(m, p, o, n, mine, theirs)
  /\ \A m \in Q : MessageInv(m, Other(p), o, n, theirs, mine)
  /\ StateInv(s, p, a, o, n, mine)
  /\ StateInv(t, Other(p), b, o, n, theirs)
  /\ View(p, P, Q, s, t.x, a, o)
  /\ View(Other(p), Q, P, t, s.x, b, o)

\* The same with the queues to p and to the other.
Run(p, in, out, s, t, a, b, mine, theirs, n, o) ==
  /\ Ends(p, Elements(in), Elements(out), s, t, a, b, mine, theirs, n, o)
  /\ InOrder(in, p, o) /\ InOrder(out, Other(p), o)

RunInv(o) ==
  \A p \in Peers :
    Run(p, net[p], net[Other(p)], smstate[p], smstate[Other(p)], asked[p],
        asked[Other(p)], entered[p], entered[Other(p)], exponents, o)

IInv ==
  /\ TypeInv
  /\ \A p \in Peers : LogInv(entered[p], p, sessions)
  /\ \E o \in Ownerships : RunInv(o)

(* Answers to questions of a conversation that has ended.                    *)

\* What p sent before the conversation ended belongs to runs that the other has
\* left behind: no message of the other answers it, nor will one.
Spent(P, Q, s, x) ==
  /\ \A m \in P : m.type # "SMP3"
  /\ \A m \in Q : m.type = "SMP2" =>
       /\ x \notin Parts(m) /\ s.g3o \notin Parts(m)
       /\ \A k \in P : OfRun(k) => k.body.x \notin Parts(m)

\* p may give a late answer, or has given one that was made of nothing.
Hopeless(l, s) == l \/ (s.nextExpected = 3 /\ s.g = {})

LeftInv(p) ==
  /\ left[p] => ~asked[p] /\ smstate[p].nextExpected # 3
  /\ Hopeless(left[p], smstate[p]) =>
       Spent(Elements(net[p]), Elements(net[Other(p)]), smstate[p], smstate[Other(p)].x)

LateInv == left \in [Peers -> BOOLEAN] /\ \A p \in Peers : LeftInv(p)
-----------------------------------------------------------------------------
(* The ends, the queues and the messages.                                   *)

LEMMA EndsFacts ==
  ASSUME NEW p \in Peers
  PROVE  /\ Other(p) \in Peers /\ Other(p) # p /\ Other(Other(p)) = p
         /\ Peers = {p, Other(p)}
BY TwoEnds DEF Peers, Other

\* A queue without its first message.
LEMMA QueueTail ==
  ASSUME NEW queue \in Seq(Messages), queue # <<>>
  PROVE  /\ Tail(queue) \in Seq(Messages)
         /\ Head(queue) \in Messages
         /\ Head(queue) \in Elements(queue)
         /\ Elements(Tail(queue)) \subseteq Elements(queue)
         /\ Len(queue) \in Nat \ {0} /\ Len(Tail(queue)) = Len(queue) - 1
         /\ Head(queue) = queue[1]
         /\ \A i \in 1 .. Len(Tail(queue)) : Tail(queue)[i] = queue[i + 1]
<1>1. /\ Head(queue) \in Messages /\ Tail(queue) \in Seq(Messages)
      /\ Len(Tail(queue)) = Len(queue) - 1
      /\ \A i \in 1 .. Len(Tail(queue)) : Tail(queue)[i] = queue[i + 1]
  BY HeadTailProperties
<1>2. Len(queue) \in Nat \ {0}
  BY EmptySeq
<1>3. Head(queue) = queue[1]
  OBVIOUS
<1>4. Head(queue) \in Elements(queue)
  BY <1>2, <1>3 DEF Elements
<1>5. ASSUME NEW m \in Elements(Tail(queue)) PROVE m \in Elements(queue)
  <2>1. PICK i \in 1 .. Len(Tail(queue)) : m = Tail(queue)[i]
    BY DEF Elements
  <2>2. m = queue[i + 1] /\ i + 1 \in 1 .. Len(queue)
    BY <1>1, <1>2, <2>1
  <2> QED
    BY <2>2 DEF Elements
<1> QED
  BY <1>1, <1>2, <1>3, <1>4, <1>5

\* Nothing, or one message more.
LEMMA QueueAdd ==
  ASSUME NEW queue \in Seq(Messages), NEW w \in Messages
  PROVE  /\ queue \o <<>> = queue
         /\ queue \o <<w>> = Append(queue, w)
         /\ Append(queue, w) \in Seq(Messages)
         /\ Elements(Append(queue, w)) = Elements(queue) \cup {w}
         /\ Len(queue) \in Nat /\ Len(Append(queue, w)) = Len(queue) + 1
         /\ \A i \in 1 .. Len(queue) : Append(queue, w)[i] = queue[i]
         /\ Append(queue, w)[Len(queue) + 1] = w
<1>1. queue \o <<>> = queue
  BY ConcatEmptySeq
<1>2. queue \o <<w>> = Append(queue, w)
  BY AppendIsConcat
<1>3. Len(queue) \in Nat
  BY LenProperties
<1>4. /\ Append(queue, w) \in Seq(Messages)
      /\ Len(Append(queue, w)) = Len(queue) + 1
      /\ \A i \in 1 .. Len(queue) : Append(queue, w)[i] = queue[i]
      /\ Append(queue, w)[Len(queue) + 1] = w
  BY AppendProperties
<1>5. ASSUME NEW m \in Elements(Append(queue, w)) PROVE m \in Elements(queue) \cup {w}
  <2>1. PICK i \in 1 .. Len(queue) + 1 : m = Append(queue, w)[i]
    BY <1>4 DEF Elements
  <2>2. CASE i = Len(queue) + 1
    BY <1>4, <2>1, <2>2
  <2>3. CASE i \in 1 .. Len(queue)
    BY <1>4, <2>1, <2>3 DEF Elements
  <2> QED
    BY <1>3, <2>1, <2>2, <2>3
<1>6. ASSUME NEW m \in Elements(queue) \cup {w} PROVE m \in Elements(Append(queue, w))
  <2>1. CASE m = w
    BY <1>3, <1>4, <2>1 DEF Elements
  <2>2. CASE m \in Elements(queue)
    <3>1. PICK i \in 1 .. Len(queue) : m = queue[i]
      BY <2>2 DEF Elements
    <3>2. i \in 1 .. Len(queue) + 1 /\ m = Append(queue, w)[i]
      BY <1>3, <1>4, <3>1
    <3> QED
      BY <1>4, <3>2 DEF Elements
  <2> QED
    BY <1>6, <2>1, <2>2
<1> QED
  BY <1>1, <1>2, <1>3, <1>4, <1>5, <1>6

LEMMA ElementsAreMessages ==
  ASSUME NEW queue \in Seq(Messages)
  PROVE  Elements(queue) \subseteq Messages
BY ElementOfSeq DEF Elements

\* What a message of each type carries.
LEMMA MessageShape ==
  ASSUME NEW m \in Messages
  PROVE  /\ m.session \in Nat
         /\ m.type \in {"SMP1", "SMP2", "SMP3", "SMP4", "ABORT", "DISCONNECTED"}
         /\ OfRun(m) => m.body.x \in Nat
         /\ m.type = "SMP1" => m.body \in [x : Nat, question : BOOLEAN]
         /\ m.type = "SMP2" => m.body \in [x : Nat, q : Values]
         /\ m.type = "SMP3" => m.body \in [x : Nat, q : Values, qab : Values \X Values]
         /\ m.type = "SMP4" => m.body \in [x : Nat, qab : Values \X Values]
<1>1. CASE m \in [type : {"SMP1"}, session : Nat, body : [x : Nat, question : BOOLEAN]]
  BY <1>1 DEF OfRun
<1>2. CASE m \in [type : {"SMP2"}, session : Nat, body : [x : Nat, q : Values]]
  BY <1>2 DEF OfRun
<1>3. CASE m \in [type : {"SMP3"}, session : Nat,
                  body : [x : Nat, q : Values, qab : Values \X Values]]
  BY <1>3 DEF OfRun
<1>4. CASE m \in [type : {"SMP4"}, session : Nat, body : [x : Nat, qab : Values \X Values]]
  BY <1>4 DEF OfRun
<1>5. CASE m \in [type : {"ABORT", "DISCONNECTED"}, session : Nat, body : {<<>>}]
  BY <1>5 DEF OfRun
<1> QED
  BY <1>1, <1>2, <1>3, <1>4, <1>5 DEF Messages

\* The exponents of a message are drawn.
LEMMA MessageNumbers ==
  ASSUME NEW m \in Messages, NEW p \in Peers, NEW o, NEW n \in Nat, NEW mine, NEW theirs,
         MessageInv(m, p, o, n, mine, theirs)
  PROVE  /\ OfRun(m) => m.body.x \in 1 .. n /\ o[m.body.x] = Other(p)
         /\ Parts(m) \subseteq 1 .. n
         /\ \A e \in Parts(m) : o[e] = p \/ o[e] = Other(p)
<1>1. CASE m.type \in {"SMP2", "SMP3", "SMP4"}
  BY <1>1, SMT DEF MessageInv
<1>2. CASE m.type \notin {"SMP2", "SMP3", "SMP4"}
  <2>1. Parts(m) = {}
    BY <1>2 DEF Parts
  <2> QED
    BY <2>1 DEF MessageInv
<1> QED
  BY <1>1, <1>2
\* m stands before the messages of P on the way to p.
Ahead(m, P, p, o) ==
  \A w \in P : OfRun(w) =>
    /\ OfRun(m) => NotAfter(m.body.x, w)
    /\ m.type = "SMP2" /\ w.type = "SMP4" =>
         \A e \in Parts(m), f \in Parts(w) : o[e] = p /\ o[f] = p => e <= f

\* p has received m, and P2 is what is left of P.
Taken(m, P, P2, p, o) == m \in P /\ P2 \in SUBSET P /\ Ahead(m, P2, p, o)

LEMMA HeadIsAhead ==
  ASSUME NEW queue \in Seq(Messages), queue # <<>>, NEW p, NEW o, InOrder(queue, p, o)
  PROVE  /\ Ahead(Head(queue), Elements(Tail(queue)), p, o)
         /\ InOrder(Tail(queue), p, o)
<1> DEFINE rest == Tail(queue)
<1>1. /\ Len(queue) \in Nat \ {0} /\ Len(rest) = Len(queue) - 1
      /\ Head(queue) = queue[1]
      /\ \A i \in 1 .. Len(rest) : rest[i] = queue[i + 1]
  BY QueueTail
<1> HIDE DEF rest
<1>2. ASSUME NEW w \in Elements(rest), OfRun(w)
      PROVE  /\ OfRun(queue[1]) => NotAfter(queue[1].body.x, w)
             /\ queue[1].type = "SMP2" /\ w.type = "SMP4" =>
                  \A e \in Parts(queue[1]), f \in Parts(w) :
                    o[e] = p /\ o[f] = p => e <= f
  <2>1. PICK i \in 1 .. Len(rest) : w = rest[i]
    BY DEF Elements
  <2>2. w = queue[i + 1] /\ i + 1 \in 1 .. Len(queue) /\ 1 \in 1 .. Len(queue) /\ 1 < i + 1
    BY <1>1, <2>1
  <2> QED
    BY <1>2, <2>2, Zenon DEF InOrder
<1>3. ASSUME NEW i \in 1 .. Len(rest), NEW j \in 1 .. Len(rest), i < j, OfRun(rest[j])
      PROVE  /\ OfRun(rest[i]) => NotAfter(rest[i].body.x, rest[j])
             /\ rest[i].type = "SMP2" /\ rest[j].type = "SMP4" =>
                  \A e \in Parts(rest[i]), f \in Parts(rest[j]) :
                    o[e] = p /\ o[f] = p => e <= f
  <2>1. /\ i + 1 \in 1 .. Len(queue) /\ j + 1 \in 1 .. Len(queue) /\ i + 1 < j + 1
        /\ rest[i] = queue[i + 1] /\ rest[j] = queue[j + 1]
    BY <1>1, <1>3
  <2> QED
    BY <1>3, <2>1, Zenon DEF InOrder
<1>4. Ahead(Head(queue), Elements(rest), p, o)
  BY <1>1, <1>2, Zenon DEF Ahead
<1>5. InOrder(rest, p, o)
  BY <1>3, Zenon DEF InOrder
<1> QED
  BY <1>4, <1>5 DEF rest

LEMMA AddInOrder ==
  ASSUME NEW queue \in Seq(Messages), NEW w \in Messages, NEW p, NEW o,
         InOrder(queue, p, o), \A m \in Elements(queue) : Ahead(m, {w}, p, o)
  PROVE  InOrder(Append(queue, w), p, o)
<1> DEFINE longer == Append(queue, w)
<1>1. /\ Len(queue) \in Nat /\ Len(longer) = Len(queue) + 1
      /\ \A i \in 1 .. Len(queue) : longer[i] = queue[i]
      /\ longer[Len(queue) + 1] = w
  BY QueueAdd
<1> HIDE DEF longer
<1>2. ASSUME NEW i \in 1 .. Len(longer), NEW j \in 1 .. Len(longer), i < j, OfRun(longer[j])
      PROVE  /\ OfRun(longer[i]) => NotAfter(longer[i].body.x, longer[j])
             /\ longer[i].type = "SMP2" /\ longer[j].type = "SMP4" =>
                  \A e \in Parts(longer[i]), f \in Parts(longer[j]) :
                    o[e] = p /\ o[f] = p => e <= f
  <2>1. i \in 1 .. Len(queue) /\ longer[i] = queue[i]
    BY <1>1, <1>2
  <2>2. CASE j \in 1 .. Len(queue)
    <3>1. longer[j] = queue[j]
      BY <1>1, <2>2
    <3> QED
      BY <1>2, <2>1, <2>2, <3>1, Zenon DEF InOrder
  <2>3. CASE j = Len(queue) + 1
    <3>1. longer[j] = w
      BY <1>1, <2>3
    <3>2. queue[i] \in Elements(queue)
      BY <2>1 DEF Elements
    <3>3. Ahead(queue[i], {w}, p, o)
      BY <3>2
    <3> QED
      BY <1>2, <2>1, <3>1, <3>3, Zenon DEF Ahead
  <2> QED
    BY <1>1, <1>2, <2>2, <2>3
<1>3. InOrder(longer, p, o)
  BY <1>2, Zenon DEF InOrder
<1> QED
  BY <1>3 DEF longer
-----------------------------------------------------------------------------
\* Whose the exponents of a message to p are, and which of them it has.
Numbered(p, P, n, o) ==
  \A m \in P :
    /\ OfRun(m) => m.body.x \in 1 .. n /\ o[m.body.x] = Other(p)
    /\ Parts(m) \subseteq 1 .. n
    /\ m.type \in {"SMP3", "SMP4"} =>
         \E e, f \in 1 .. n : o[e] = p /\ o[f] = Other(p) /\ Parts(m) = {e, f}
    /\ m.type \in {"SMP3", "SMP4"} => m.body.x \in Parts(m)

LEMMA EndsAreNumbered ==
  ASSUME NEW p \in Peers, NEW P, NEW Q, NEW s, NEW t, NEW a, NEW b, NEW mine, NEW theirs,
         NEW n \in Nat, NEW o, Ends(p, P, Q, s, t, a, b, mine, theirs, n, o)
  PROVE  Numbered(p, P, n, o) /\ Numbered(Other(p), Q, n, o)
<1>1. ASSUME NEW r \in Peers, NEW m \in Messages, NEW own, NEW others,
             MessageInv(m, r, o, n, own, others)
      PROVE  /\ OfRun(m) => m.body.x \in 1 .. n /\ o[m.body.x] = Other(r)
             /\ Parts(m) \subseteq 1 .. n
             /\ m.type \in {"SMP3", "SMP4"} =>
                  \E e, f \in 1 .. n : o[e] = r /\ o[f] = Other(r) /\ Parts(m) = {e, f}
             /\ m.type \in {"SMP3", "SMP4"} => m.body.x \in Parts(m)
  <2>1. /\ OfRun(m) => m.body.x \in 1 .. n /\ o[m.body.x] = Other(r)
        /\ Parts(m) \subseteq 1 .. n
    BY <1>1, MessageNumbers
  <2> QED
    BY <1>1, <2>1 DEF MessageInv
<1>2. Other(p) \in Peers
  BY EndsFacts
<1>3. Numbered(p, P, n, o)
  BY <1>1 DEF Ends, Numbered
<1>4. Numbered(Other(p), Q, n, o)
  BY <1>1, <1>2 DEF Ends, Numbered
<1> QED
  BY <1>3, <1>4

\* Messages may vanish.
LEMMA ViewShrinks ==
  ASSUME NEW p, NEW P, NEW Q, NEW P2 \in SUBSET P, NEW Q2 \in SUBSET Q, NEW s, NEW x,
         NEW a, NEW o, View(p, P, Q, s, x, a, o)
  PROVE  View(p, P2, Q2, s, x, a, o)
<1>1. ReceivedInv(P2, s, x)
  BY DEF View, ReceivedInv, BeforeAll
<1>2. AnsweredInv(p, P2, Q2, s, x, o)
  BY DEF View, AnsweredInv, BeforeAll
<1>3. AskedInv(p, P2, Q2, s, a, o)
  BY DEF View, AskedInv
<1>4. ResponderInv(p, P2, Q2, s, o)
  BY DEF View, ResponderInv
<1>5. InitiatorInv(P2, Q2, s)
  BY DEF View, InitiatorInv
<1> QED
  BY <1>1, <1>2, <1>3, <1>4, <1>5 DEF View

\* Nothing depends on messages that belong to no run.
LEMMA ViewIgnores ==
  ASSUME NEW p, NEW P, NEW Q, NEW w, ~OfRun(w), NEW s, NEW x, NEW a, NEW o,
         View(p, P, Q, s, x, a, o)
  PROVE  /\ View(p, P \cup {w}, Q, s, x, a, o)
         /\ View(p, P, Q \cup {w}, s, x, a, o)
<1>1. w.type \notin {"SMP1", "SMP2", "SMP3", "SMP4"} /\ Parts(w) = {}
  BY DEF OfRun, Parts
<1>2. /\ ReceivedInv(P \cup {w}, s, x) /\ ReceivedInv(P, s, x)
  BY DEF View, ReceivedInv, BeforeAll
<1>3. \A y : BeforeAll(y, P) => BeforeAll(y, P \cup {w})
  BY DEF BeforeAll
<1>4. /\ AnsweredInv(p, P \cup {w}, Q, s, x, o)
      /\ AnsweredInv(p, P, Q \cup {w}, s, x, o)
  BY <1>1, <1>3 DEF View, AnsweredInv
<1>5. /\ AskedInv(p, P \cup {w}, Q, s, a, o) /\ AskedInv(p, P, Q \cup {w}, s, a, o)
  BY <1>1 DEF View, AskedInv
<1>6. /\ ResponderInv(p, P \cup {w}, Q, s, o) /\ ResponderInv(p, P, Q \cup {w}, s, o)
  BY <1>1 DEF View, ResponderInv
<1>7. /\ InitiatorInv(P \cup {w}, Q, s) /\ InitiatorInv(P, Q \cup {w}, s)
  BY <1>1 DEF View, InitiatorInv
<1> QED
  BY <1>2, <1>4, <1>5, <1>6, <1>7 DEF View

\* An end that expects nothing, and one that has forgotten all.
LEMMA ViewRests ==
  ASSUME NEW p, NEW P, NEW Q, NEW s, NEW s2, NEW x, NEW a, NEW a2, NEW o,
         View(p, P, Q, s, x, a, o), s2.nextExpected = 1, s2.g3o = s.g3o, a2 => a
  PROVE  View(p, P, Q, s2, x, a2, o)
<1>1. ReceivedInv(P, s2, x)
  BY DEF View, ReceivedInv
<1>2. AnsweredInv(p, P, Q, s2, x, o)
  BY DEF View, AnsweredInv
<1>3. AskedInv(p, P, Q, s2, a2, o)
  BY DEF View, AskedInv
<1>4. ResponderInv(p, P, Q, s2, o) /\ InitiatorInv(P, Q, s2)
  BY DEF ResponderInv, InitiatorInv
<1> QED
  BY <1>1, <1>2, <1>3, <1>4 DEF View

LEMMA ViewForgets ==
  ASSUME NEW p, NEW P \in SUBSET Messages, NEW Q, NEW s, NEW x \in Nat, NEW n \in Nat,
         NEW a, NEW o, View(p, P, Q, s, x, a, o), Numbered(p, P, n, o)
  PROVE  View(p, P, Q, Fresh, x, FALSE, o)
<1>1. Fresh.nextExpected = 1 /\ Fresh.g3o = 0
  BY DEF Fresh, NULL
<1>2. BeforeAll(0, P)
  BY DEF BeforeAll, NotAfter, Numbered
<1>3. ReceivedInv(P, Fresh, x)
  BY <1>1, <1>2 DEF View, ReceivedInv, UpTo
<1>4. AnsweredInv(p, P, Q, Fresh, x, o)
  BY <1>1 DEF View, AnsweredInv, UpTo
<1>5. AskedInv(p, P, Q, Fresh, FALSE, o)
  BY DEF AskedInv
<1>6. ResponderInv(p, P, Q, Fresh, o) /\ InitiatorInv(P, Q, Fresh)
  BY <1>1 DEF ResponderInv, InitiatorInv
<1> QED
  BY <1>3, <1>4, <1>5, <1>6 DEF View

\* The other end forgets its exponent, or draws a later one.
LEMMA ViewOfDrawing ==
  ASSUME NEW p \in Peers, NEW P, NEW Q, NEW s, NEW x, NEW n \in Nat, NEW a, NEW o,
         View(p, P, Q, s, x, a, o), Numbered(p, P, n, o), Numbered(Other(p), Q, n, o),
         s.g3o \in 0 .. n, NEW y \in Nat, y = 0 \/ y > n
  PROVE  View(p, P, Q, s, y, a, o)
<1>1. ReceivedInv(P, s, y)
  BY DEF View, ReceivedInv, UpTo, Numbered
<1>2. ASSUME NEW m \in Q, NEW e \in Parts(m) PROVE UpTo(e, y)
  BY <1>2 DEF Numbered, UpTo
<1>3. AnsweredInv(p, P, Q, s, y, o)
  BY <1>2 DEF View, AnsweredInv
<1> QED
  BY <1>1, <1>3 DEF View
-----------------------------------------------------------------------------
(* The steps of a run, in the view of the end that takes them and of the    *)
(* other.                                                                   *)

LEMMA InitiateViews ==
  ASSUME NEW p \in Peers, NEW P, NEW Q, NEW s, NEW t, NEW a, NEW b, NEW mine, NEW theirs,
         NEW n \in Nat, NEW o, Ends(p, P, Q, s, t, a, b, mine, theirs, n, o),
         NEW s2, s2.x = n + 1, s2.g3o = s.g3o, s2.nextExpected = 2,
         NEW w, w.type = "SMP1", w.body.x = n + 1
  PROVE  /\ View(p, P, Q \cup {w}, s2, t.x, a, o)
         /\ View(Other(p), Q \cup {w}, P, t, s2.x, b, o)
         /\ \A m \in Q : Ahead(m, {w}, Other(p), o)
<1> DEFINE q == Other(p)  R == Q \cup {w}
<1>1. Numbered(p, P, n, o) /\ Numbered(q, Q, n, o)
  BY EndsAreNumbered
<1>2. View(p, P, Q, s, t.x, a, o) /\ View(q, Q, P, t, s.x, b, o)
  BY DEF Ends
<1>3. Parts(w) = {} /\ OfRun(w)
  BY DEF Parts, OfRun
<1>4. ASSUME NEW y \in 0 .. n PROVE NotAfter(y, w) /\ UpTo(y, n + 1)
  BY <1>4 DEF NotAfter, UpTo
<1>5. t.g3o \in 0 .. n
  BY DEF Ends, StateInv
<1>6. ReceivedInv(P, s2, t.x)
  BY <1>2 DEF View, ReceivedInv
<1>7. AnsweredInv(p, P, R, s2, t.x, o)
  BY <1>2, <1>3 DEF View, AnsweredInv
<1>8. AskedInv(p, P, R, s2, a, o)
  BY <1>2 DEF View, AskedInv
<1>9. ResponderInv(p, P, R, s2, o)
  BY DEF ResponderInv
<1>10. InitiatorInv(P, R, s2)
  <2>1. \A m \in Q : OfRun(m) => m.body.x # n + 1
    BY <1>1 DEF Numbered
  <2>2. \A m \in P : n + 1 \notin Parts(m)
    BY <1>1 DEF Numbered
  <2> QED
    BY <2>1, <2>2 DEF InitiatorInv, OfRun
<1>11. View(p, P, R, s2, t.x, a, o)
  BY <1>6, <1>7, <1>8, <1>9, <1>10 DEF View
<1>12. ReceivedInv(R, t, n + 1)
  <2>1. \A m \in R : OfRun(m) => UpTo(m.body.x, n + 1)
    BY <1>1 DEF Numbered, UpTo
  <2>2. BeforeAll(t.g3o, R) /\ UpTo(t.g3o, n + 1)
    BY <1>2, <1>4, <1>5 DEF View, ReceivedInv, BeforeAll
  <2> QED
    BY <2>1, <2>2 DEF ReceivedInv
<1>13. AnsweredInv(q, R, P, t, n + 1, o)
  <2>1. ASSUME NEW m \in P, NEW e \in Parts(m), o[e] = Other(q)
        PROVE  BeforeAll(e, R) /\ UpTo(e, t.g3o) /\ UpTo(e, n + 1)
    <3>1. e \in 0 .. n
      BY <1>1 DEF Numbered
    <3>2. BeforeAll(e, Q) /\ UpTo(e, t.g3o)
      BY <1>2, <2>1 DEF View, AnsweredInv
    <3> QED
      BY <1>4, <3>1, <3>2 DEF BeforeAll
  <2>2. ASSUME NEW m \in R, m.type = "SMP3" PROVE BeforeAll(m.body.x, R)
    <3>1. m \in Q /\ m.body.x \in 0 .. n
      BY <1>1, <2>2 DEF Numbered, OfRun
    <3>2. BeforeAll(m.body.x, Q)
      BY <1>2, <2>2, <3>1 DEF View, AnsweredInv
    <3> QED
      BY <1>4, <3>1, <3>2 DEF BeforeAll
  <2> QED
    BY <2>1, <2>2 DEF AnsweredInv
<1>14. AskedInv(q, R, P, t, b, o)
  BY <1>2 DEF View, AskedInv
<1>15. ResponderInv(q, R, P, t, o)
  BY <1>2 DEF View, ResponderInv
<1>16. InitiatorInv(R, P, t)
  BY <1>2 DEF View, InitiatorInv
<1>17. View(q, R, P, t, n + 1, b, o)
  BY <1>12, <1>13, <1>14, <1>15, <1>16 DEF View
<1>18. ASSUME NEW m \in Q PROVE Ahead(m, {w}, q, o)
  <2>1. OfRun(m) => m.body.x \in 0 .. n
    BY <1>1 DEF Numbered
  <2> QED
    BY <1>4, <2>1 DEF Ahead
<1> QED
  BY <1>11, <1>17, <1>18

LEMMA RespondViews ==
  ASSUME NEW p \in Peers, NEW P, NEW Q, NEW s, NEW t, NEW a, NEW b, NEW mine, NEW theirs,
         NEW n \in Nat, NEW o, Ends(p, P, Q, s, t, a, b, mine, theirs, n, o),
         s.x # 0, AskedInv(p, P, Q, s, TRUE, o),
         NEW s2, s2.x = s.x, s2.g3o = s.g3o, s2.nextExpected = 3, s2.q[1] = s.g,
         NEW w, w.type = "SMP2", w.body.x = s.x, w.body.q = s2.q
  PROVE  /\ View(p, P, Q \cup {w}, s2, t.x, FALSE, o)
         /\ View(Other(p), Q \cup {w}, P, t, s2.x, b, o)
         /\ \A m \in Q : Ahead(m, {w}, Other(p), o)
<1> DEFINE q == Other(p)  R == Q \cup {w}
<1>1. Numbered(p, P, n, o) /\ Numbered(q, Q, n, o)
  BY EndsAreNumbered
<1>2. View(p, P, Q, s, t.x, a, o) /\ View(q, Q, P, t, s.x, b, o)
  BY DEF Ends
<1>3. Parts(w) = s.g /\ OfRun(w)
  BY DEF Parts, OfRun
<1>4. /\ s.x \in 1 .. n /\ s.g3o \in 0 .. n /\ t.g3o \in 0 .. n
      /\ s.g = {} \/ \E z \in 1 .. n : o[z] = p /\ s.g = {z, s.g3o}
  BY DEF Ends, StateInv
<1>5. p # q /\ Other(q) = p
  BY EndsFacts
<1>6. \A e \in Parts(w) : o[e] = q => e = s.g3o
  BY <1>3, <1>4, <1>5
<1>7. ReceivedInv(P, s2, t.x)
  BY <1>2 DEF View, ReceivedInv
<1>8. AnsweredInv(p, P, R, s2, t.x, o)
  <2>1. BeforeAll(s.g3o, P) /\ UpTo(s.g3o, s.g3o) /\ UpTo(s.g3o, t.x)
    BY <1>2, <1>4 DEF View, ReceivedInv, UpTo
  <2> QED
    BY <1>2, <1>6, <2>1 DEF View, AnsweredInv
<1>9. AskedInv(p, P, R, s2, FALSE, o)
  BY DEF AskedInv
<1>10. ResponderInv(p, P, R, s2, o)
  <2>1. \A m \in P : m.type # "SMP3"
    BY DEF AskedInv
  <2>2. \A m \in Q : m.type = "SMP2" => \A e \in Parts(m) : o[e] = q => e # s.g3o
    BY DEF AskedInv
  <2> QED
    BY <2>1, <2>2 DEF ResponderInv
<1>11. InitiatorInv(P, R, s2)
  BY DEF InitiatorInv
<1>12. View(p, P, R, s2, t.x, FALSE, o)
  BY <1>7, <1>8, <1>9, <1>10, <1>11 DEF View
<1>13. UpTo(t.g3o, s.x)
  BY <1>2 DEF View, ReceivedInv
<1>14. ReceivedInv(R, t, s.x)
  <2>1. \A m \in R : OfRun(m) => UpTo(m.body.x, s.x)
    BY <1>2, <1>4 DEF View, ReceivedInv, UpTo
  <2>2. BeforeAll(t.g3o, R)
    BY <1>2, <1>4, <1>13 DEF View, ReceivedInv, BeforeAll, UpTo, NotAfter
  <2> QED
    BY <1>13, <2>1, <2>2 DEF ReceivedInv
<1>15. AnsweredInv(q, R, P, t, s.x, o)
  <2>1. ASSUME NEW m \in P, NEW e \in Parts(m), o[e] = Other(q)
        PROVE  BeforeAll(e, R) /\ UpTo(e, t.g3o) /\ UpTo(e, s.x)
    <3>1. BeforeAll(e, Q) /\ UpTo(e, t.g3o) /\ UpTo(e, s.x)
      BY <1>2, <2>1 DEF View, AnsweredInv
    <3>2. NotAfter(e, w)
      BY <1>4, <3>1 DEF UpTo, NotAfter
    <3> QED
      BY <3>1, <3>2 DEF BeforeAll
  <2>2. ASSUME NEW m \in R, m.type = "SMP3" PROVE BeforeAll(m.body.x, R)
    <3>1. m \in Q
      BY <2>2
    <3>2. BeforeAll(m.body.x, Q) /\ UpTo(m.body.x, s.x)
      BY <1>2, <2>2, <3>1 DEF View, AnsweredInv, ReceivedInv, OfRun
    <3>3. NotAfter(m.body.x, w)
      BY <1>4, <3>2 DEF UpTo, NotAfter
    <3> QED
      BY <3>2, <3>3 DEF BeforeAll
  <2> QED
    BY <2>1, <2>2 DEF AnsweredInv
<1>16. AskedInv(q, R, P, t, b, o)
  BY <1>2 DEF View, AskedInv
<1>17. ResponderInv(q, R, P, t, o)
  BY <1>2 DEF View, ResponderInv
<1>18. InitiatorInv(R, P, t)
  BY <1>2 DEF View, InitiatorInv
<1>19. View(q, R, P, t, s.x, b, o)
  BY <1>14, <1>15, <1>16, <1>17, <1>18 DEF View
<1>20. ASSUME NEW m \in Q PROVE Ahead(m, {w}, q, o)
  <2>1. OfRun(m) => UpTo(m.body.x, s.x)
    BY <1>2 DEF View, ReceivedInv
  <2>2. OfRun(m) => NotAfter(m.body.x, w)
    BY <1>4, <2>1 DEF UpTo, NotAfter
  <2> QED
    BY <2>2 DEF Ahead
<1> QED
  BY <1>12, <1>19, <1>20

\* The other end's view of a message that p has taken from its queue.
LEMMA TakenViews ==
  ASSUME NEW p \in Peers, NEW P, NEW Q, NEW s, NEW t, NEW a, NEW b, NEW mine, NEW theirs,
         NEW n, NEW o, Ends(p, P, Q, s, t, a, b, mine, theirs, n, o), NEW P2 \in SUBSET P
  PROVE  /\ View(p, P2, Q, s, t.x, a, o)
         /\ View(Other(p), Q, P2, t, s.x, b, o)
<1>1. View(p, P, Q, s, t.x, a, o) /\ View(Other(p), Q, P, t, s.x, b, o)
  BY DEF Ends
<1> QED
  BY <1>1, ViewShrinks

LEMMA ReceiveSMP1Views ==
  ASSUME NEW p \in Peers, NEW P, NEW Q, NEW s, NEW t, NEW a, NEW b, NEW mine, NEW theirs,
         NEW n \in Nat, NEW o, Ends(p, P, Q, s, t, a, b, mine, theirs, n, o),
         NEW m1, m1.type = "SMP1", NEW P2, Taken(m1, P, P2, p, o),
         NEW s2, s2.x = n + 1, s2.g3o = m1.body.x, s2.nextExpected = 1
  PROVE  /\ View(p, P2, Q, s2, t.x, TRUE, o)
         /\ View(Other(p), Q, P2, t, s2.x, b, o)
<1> USE DEF Taken
<1> DEFINE q == Other(p)
<1>1. Numbered(p, P, n, o) /\ Numbered(q, Q, n, o)
  BY EndsAreNumbered
<1>2. Numbered(p, P2, n, o)
  BY <1>1 DEF Numbered
<1>3. View(p, P, Q, s, t.x, a, o) /\ View(q, Q, P2, t, s.x, b, o)
  BY TakenViews DEF Ends
<1>4. OfRun(m1) /\ m1.body.x \in 1 .. n /\ q \in Peers /\ Other(q) = p
  BY <1>1, EndsFacts DEF OfRun, Numbered
<1>5. ReceivedInv(P2, s2, t.x)
  BY <1>3, <1>4 DEF View, ReceivedInv, BeforeAll, Ahead
<1>6. AnsweredInv(p, P2, Q, s2, t.x, o)
  <2>1. ASSUME NEW m \in Q, NEW e \in Parts(m), o[e] = q
        PROVE  BeforeAll(e, P2) /\ UpTo(e, m1.body.x) /\ UpTo(e, t.x)
    BY <1>3, <1>4, <2>1 DEF View, AnsweredInv, BeforeAll, NotAfter, UpTo
  <2>2. \A m \in P2 : m.type = "SMP3" => BeforeAll(m.body.x, P2)
    BY <1>3 DEF View, AnsweredInv, BeforeAll
  <2> QED
    BY <2>1, <2>2 DEF AnsweredInv
<1>7. AskedInv(p, P2, Q, s2, TRUE, o)
  <2>1. ASSUME NEW m \in P2, m.type = "SMP3" PROVE FALSE
    <3>1. OfRun(m) /\ m.body.x \in 1 .. n
      BY <1>2, <2>1 DEF Numbered, OfRun
    <3>2. m.body.x < m1.body.x
      BY <1>3, <1>4, <2>1 DEF View, AnsweredInv, BeforeAll, NotAfter
    <3>3. m1.body.x <= m.body.x
      BY <1>4, <2>1, <3>1 DEF Ahead, NotAfter
    <3> QED
      BY <1>4, <3>1, <3>2, <3>3
  <2>2. ASSUME NEW m \in Q, NEW e \in Parts(m), o[e] = q PROVE e # m1.body.x
    <3>1. e < m1.body.x /\ e \in 1 .. n
      BY <1>1, <1>3, <1>4, <2>2 DEF View, AnsweredInv, BeforeAll, NotAfter, Numbered
    <3> QED
      BY <1>4, <3>1
  <2> QED
    BY <2>1, <2>2 DEF AskedInv
<1>8. ResponderInv(p, P2, Q, s2, o) /\ InitiatorInv(P2, Q, s2)
  BY DEF ResponderInv, InitiatorInv
<1>9. View(p, P2, Q, s2, t.x, TRUE, o)
  BY <1>5, <1>6, <1>7, <1>8 DEF View
<1>10. t.g3o \in 0 .. n
  BY DEF Ends, StateInv
<1>11. View(q, Q, P2, t, n + 1, b, o)
  <2>1. Numbered(q, Q, n, o) /\ Numbered(Other(q), P2, n, o)
    BY <1>1, <1>2, <1>4
  <2> QED
    BY <1>3, <1>4, <1>10, <2>1, ViewOfDrawing
<1> QED
  BY <1>9, <1>11

\* p has received an SMP2: what it knows of the other is as new as that.
LEMMA ReceiveSMP2Clocks ==
  ASSUME NEW p \in Peers, NEW P, NEW Q, NEW s, NEW t, NEW a, NEW b, NEW mine, NEW theirs,
         NEW n \in Nat, NEW o, Ends(p, P, Q, s, t, a, b, mine, theirs, n, o), a \in BOOLEAN,
         NEW m2, m2.type = "SMP2", NEW P2, Taken(m2, P, P2, p, o),
         NEW s2, s2.g3o = m2.body.x
  PROVE  /\ ReceivedInv(P2, s2, t.x)
         /\ AnsweredInv(p, P2, Q, s2, t.x, o)
         /\ AskedInv(p, P2, Q, s2, a, o)
<1> USE DEF Taken
<1> DEFINE q == Other(p)
<1>1. Numbered(p, P, n, o) /\ Numbered(q, Q, n, o)
  BY EndsAreNumbered
<1>2. View(p, P, Q, s, t.x, a, o)
  BY DEF Ends
<1>3. OfRun(m2) /\ m2.body.x \in 1 .. n
  BY <1>1 DEF OfRun, Numbered
<1>4. ReceivedInv(P2, s2, t.x)
  BY <1>2, <1>3 DEF View, ReceivedInv, BeforeAll, Ahead
<1>5. AnsweredInv(p, P2, Q, s2, t.x, o)
  <2>1. ASSUME NEW m \in Q, NEW e \in Parts(m), o[e] = q
        PROVE  BeforeAll(e, P2) /\ UpTo(e, m2.body.x) /\ UpTo(e, t.x)
    BY <1>2, <1>3, <2>1 DEF View, AnsweredInv, BeforeAll, NotAfter, UpTo
  <2>2. \A m \in P2 : m.type = "SMP3" => BeforeAll(m.body.x, P2)
    BY <1>2 DEF View, AnsweredInv, BeforeAll
  <2> QED
    BY <2>1, <2>2 DEF AnsweredInv
<1>6. ASSUME a PROVE AskedInv(p, P2, Q, s2, a, o)
  <2>1. s.g3o \in 1 .. n
    BY <1>6 DEF Ends, StateInv
  <2>2. /\ \A m \in P : m.type # "SMP3"
        /\ \A m \in Q : m.type = "SMP2" => \A e \in Parts(m) : o[e] = q => e # s.g3o
    BY <1>2, <1>6 DEF View, AskedInv
  <2>3. s.g3o <= m2.body.x
    BY <1>2, <1>3 DEF View, ReceivedInv, BeforeAll, NotAfter
  <2>4. ASSUME NEW m \in Q, m.type = "SMP2", NEW e \in Parts(m), o[e] = q
        PROVE  e # m2.body.x
    <3>1. e \in 1 .. n
      BY <1>1 DEF Numbered
    <3>2. e <= s.g3o /\ e # s.g3o
      BY <1>2, <2>1, <2>2, <2>4 DEF View, AnsweredInv, UpTo
    <3> QED
      BY <1>3, <2>1, <2>3, <3>1, <3>2
  <2> QED
    BY <2>2, <2>4 DEF AskedInv
<1>7. AskedInv(p, P2, Q, s2, a, o)
  BY <1>6 DEF AskedInv
<1> QED
  BY <1>4, <1>5, <1>7

\* g2 and g3 of two ends; and p and q of a g and a secret.
Two(y, z) == {y, z}
Made(g, secret) == <<g, secret>>

\* The proofs of knowledge of the SMP2 do not verify.
LEMMA CheatedViews ==
  ASSUME NEW p \in Peers, NEW P, NEW Q, NEW s, NEW t, NEW a, NEW b, NEW mine, NEW theirs,
         NEW n \in Nat, NEW o, Ends(p, P, Q, s, t, a, b, mine, theirs, n, o), a \in BOOLEAN,
         NEW m2, m2.type = "SMP2", NEW P2, Taken(m2, P, P2, p, o),
         NEW s2, s2.x = s.x, s2.g3o = m2.body.x, s2.nextExpected = 1
  PROVE  /\ View(p, P2, Q, s2, t.x, a, o)
         /\ View(Other(p), Q, P2, t, s2.x, b, o)
<1> USE DEF Taken
<1>1. ResponderInv(p, P2, Q, s2, o) /\ InitiatorInv(P2, Q, s2)
  BY DEF ResponderInv, InitiatorInv
<1>2. View(p, P2, Q, s2, t.x, a, o)
  BY <1>1, ReceiveSMP2Clocks DEF View
<1> QED
  BY <1>2, TakenViews

\* The SMP2 verifies: it answers the run that p has begun, so the other expects the
\* SMP3 that p now sends, and nothing of an earlier run is left on the way.
LEMMA Step3Views ==
  ASSUME NEW p \in Peers, NEW P, NEW Q, NEW s, NEW t, NEW a, NEW b, NEW mine, NEW theirs,
         NEW n \in Nat, NEW o, Ends(p, P, Q, s, t, a, b, mine, theirs, n, o),
         a \in BOOLEAN, b \in BOOLEAN, s.nextExpected = 2,
         t.nextExpected = 3 => t.g # {},
         NEW m2, m2.type = "SMP2", NEW P2, Taken(m2, P, P2, p, o),
         Parts(m2) = Two(s.x, m2.body.x),
         NEW s2, s2.x = s.x, s2.g3o = m2.body.x, s2.nextExpected = 4,
         NEW w, w.type = "SMP3", w.body.x = s.x, Parts(w) = Parts(m2),
         w.body.qab = s2.qab, s2.qab[2] = m2.body.q
  PROVE  /\ View(p, P2, Q \cup {w}, s2, t.x, a, o)
         /\ View(Other(p), Q \cup {w}, P2, t, s2.x, b, o)
         /\ \A m \in Q : Ahead(m, {w}, Other(p), o)
<1> USE DEF Taken, Two
<1> DEFINE q == Other(p)  R == Q \cup {w}
<1>1. Numbered(p, P, n, o) /\ Numbered(q, Q, n, o)
  BY EndsAreNumbered
<1>2. View(p, P, Q, s, t.x, a, o) /\ View(q, Q, P, t, s.x, b, o) /\ View(q, Q, P2, t, s.x, b, o)
  BY TakenViews DEF Ends
<1>3. /\ OfRun(m2) /\ m2.body.x \in 1 .. n /\ o[m2.body.x] = q /\ OfRun(w)
      /\ q \in Peers /\ q # p /\ Other(q) = p
  BY <1>1, EndsFacts DEF OfRun, Numbered
<1>4. s.x \in 1 .. n /\ o[s.x] = p /\ t.g3o \in 0 .. n /\ (t.g3o # 0 => o[t.g3o] = p)
  BY <1>3 DEF Ends, StateInv
<1>5. /\ ReceivedInv(P2, s2, t.x)
      /\ AnsweredInv(p, P2, Q, s2, t.x, o)
      /\ AskedInv(p, P2, Q, s2, a, o)
  BY ReceiveSMP2Clocks
\* The other has received the exponent of this run, so p sent nothing older.
<1>6. BeforeAll(s.x, Q) /\ UpTo(s.x, t.g3o)
  <2>1. s.x \in Parts(m2) /\ o[s.x] = Other(q)
    BY <1>3, <1>4
  <2> QED
    BY <1>2, <2>1 DEF View, AnsweredInv
<1>7. UpTo(t.g3o, s.x) /\ (t.g3o # 0 => t.g3o = s.x)
  BY <1>2, <1>4, <1>6 DEF View, ReceivedInv, UpTo
<1>8. AnsweredInv(p, P2, R, s2, t.x, o)
  <2>1. ASSUME NEW e \in Parts(w), o[e] = q
        PROVE  BeforeAll(e, P2) /\ UpTo(e, s2.g3o) /\ UpTo(e, t.x)
    <3>1. e = m2.body.x
      BY <1>3, <1>4, <2>1
    <3>2. BeforeAll(e, P2)
      BY <1>3, <3>1 DEF BeforeAll, Ahead
    <3>3. UpTo(e, t.x)
      BY <1>2, <1>3, <3>1 DEF View, ReceivedInv
    <3> QED
      BY <1>3, <3>1, <3>2, <3>3 DEF UpTo
  <2> QED
    BY <1>5, <2>1 DEF AnsweredInv
<1>9. AskedInv(p, P2, R, s2, a, o)
  BY <1>5 DEF AskedInv
<1>10. ResponderInv(p, P2, R, s2, o)
  BY DEF ResponderInv
<1>11. InitiatorInv(P2, R, s2)
  <2>1. ASSUME NEW m \in Q, m.type = "SMP3" PROVE FALSE
    <3>1. OfRun(m) /\ m.body.x \in 1 .. n /\ m.body.x # s.x
      BY <1>1, <1>2, <2>1 DEF OfRun, Numbered, View, InitiatorInv
    <3>2. s.x <= m.body.x
      BY <1>6, <2>1, <3>1 DEF BeforeAll, NotAfter
    <3>3. m.body.x <= s.x
      BY <1>2, <1>4, <2>1, <3>1 DEF View, ReceivedInv, UpTo
    <3> QED
      BY <1>4, <3>1, <3>2, <3>3
  <2>2. ASSUME NEW m \in P2, m.type = "SMP4" PROVE FALSE
    <3>1. PICK f \in Parts(m) : f \in 1 .. n /\ o[f] = p
      BY <1>1, <2>2 DEF Numbered
    <3>2. s.x # f
      BY <1>2, <2>2, <3>1 DEF View, InitiatorInv
    <3>3. s.x <= f
      BY <1>4, <2>2, <3>1 DEF Ahead, OfRun
    <3>4. f <= s.x
      BY <1>2, <1>3, <1>4, <2>2, <3>1 DEF View, AnsweredInv, UpTo
    <3> QED
      BY <1>4, <3>1, <3>2, <3>3, <3>4
  <2> QED
    BY <2>1, <2>2 DEF InitiatorInv
<1>12. View(p, P2, R, s2, t.x, a, o)
  BY <1>5, <1>8, <1>9, <1>10, <1>11 DEF View
<1>13. ReceivedInv(R, t, s.x)
  <2>1. \A m \in R : OfRun(m) => UpTo(m.body.x, s.x)
    BY <1>2, <1>4 DEF View, ReceivedInv, UpTo
  <2>2. BeforeAll(t.g3o, R)
    BY <1>2, <1>4, <1>7 DEF View, ReceivedInv, BeforeAll, UpTo, NotAfter
  <2> QED
    BY <1>7, <2>1, <2>2 DEF ReceivedInv
<1>14. AnsweredInv(q, R, P2, t, s.x, o)
  <2>1. ASSUME NEW m \in P2, NEW e \in Parts(m), o[e] = Other(q)
        PROVE  BeforeAll(e, R) /\ UpTo(e, t.g3o) /\ UpTo(e, s.x)
    <3>1. BeforeAll(e, Q) /\ UpTo(e, t.g3o) /\ UpTo(e, s.x)
      BY <1>2, <2>1 DEF View, AnsweredInv
    <3>2. NotAfter(e, w)
      BY <1>4, <3>1 DEF UpTo, NotAfter
    <3> QED
      BY <3>1, <3>2 DEF BeforeAll
  <2>2. ASSUME NEW m \in R, m.type = "SMP3" PROVE BeforeAll(m.body.x, R)
    <3>1. NotAfter(s.x, w)
      BY <1>4 DEF NotAfter
    <3>2. CASE m = w
      BY <1>6, <3>1, <3>2 DEF BeforeAll
    <3>3. CASE m \in Q
      <4>1. BeforeAll(m.body.x, Q) /\ UpTo(m.body.x, s.x)
        BY <1>2, <2>2, <3>3 DEF View, AnsweredInv, ReceivedInv, OfRun
      <4>2. NotAfter(m.body.x, w)
        BY <1>4, <4>1 DEF UpTo, NotAfter
      <4> QED
        BY <4>1, <4>2 DEF BeforeAll
    <3> QED
      BY <2>2, <3>2, <3>3
  <2> QED
    BY <2>1, <2>2 DEF AnsweredInv
\* The other has answered: it asks its user no more.
<1>15. b = FALSE
  <2>1. ASSUME b PROVE FALSE
    <3>1. t.g3o # 0
      BY <2>1 DEF Ends, StateInv
    <3>2. s.x # t.g3o
      BY <1>2, <1>3, <1>4, <2>1 DEF View, AskedInv
    <3> QED
      BY <1>7, <3>1, <3>2
  <2> QED
    BY <2>1
<1>16. AskedInv(q, R, P2, t, b, o)
  BY <1>15 DEF AskedInv
<1>17. ResponderInv(q, R, P2, t, o)
  <2>1. ASSUME t.nextExpected = 3
        PROVE  m2.body.q = t.q /\ m2.body.x = t.x /\ s.x = t.g3o
    <3>1. t.g3o # 0
      BY <2>1 DEF Ends, StateInv
    <3>2. s.x = t.g3o
      BY <1>7, <3>1
    <3> QED
      BY <1>2, <1>3, <1>4, <2>1, <3>2 DEF View, ResponderInv
  <2>2. ASSUME t.nextExpected = 3, NEW m \in R, m.type = "SMP3"
        PROVE  m.body.qab[2] = t.q /\ t.x \in Parts(m) /\ m.body.x = t.g3o
    <3>1. CASE m = w
      BY <2>1, <2>2, <3>1
    <3>2. CASE m \in Q
      BY <1>2, <2>2, <3>2 DEF View, ResponderInv
    <3> QED
      BY <2>2, <3>1, <3>2
  <2>3. ASSUME t.nextExpected = 3, NEW m \in P2, m.type = "SMP2"
        PROVE  \A e \in Parts(m) : o[e] = Other(q) /\ e = t.g3o =>
                 m.body.q = t.q /\ m.body.x = t.x
    BY <1>2, <2>3 DEF View, ResponderInv
  <2> QED
    BY <2>2, <2>3 DEF ResponderInv
<1>18. InitiatorInv(R, P2, t)
  BY <1>2 DEF View, InitiatorInv
<1>19. View(q, R, P2, t, s.x, b, o)
  BY <1>13, <1>14, <1>16, <1>17, <1>18 DEF View
<1>20. ASSUME NEW m \in Q PROVE Ahead(m, {w}, q, o)
  <2>1. OfRun(m) => UpTo(m.body.x, s.x)
    BY <1>2 DEF View, ReceivedInv
  <2>2. OfRun(m) => NotAfter(m.body.x, w)
    BY <1>4, <2>1 DEF UpTo, NotAfter
  <2> QED
    BY <2>2 DEF Ahead
<1> QED
  BY <1>12, <1>19, <1>20

\* An SMP3 that is expected is the one p waits for.
LEMMA SMP3IsExpected ==
  ASSUME NEW p \in Peers, NEW P, NEW Q, NEW s, NEW t, NEW a, NEW b, NEW mine, NEW theirs,
         NEW n \in Nat, NEW o, Ends(p, P, Q, s, t, a, b, mine, theirs, n, o),
         s.nextExpected = 3, NEW m3 \in P, m3.type = "SMP3"
  PROVE  /\ m3.body.qab[1] = m3.body.q /\ m3.body.qab[2] = s.q
         /\ m3.body.q[1] = s.g /\ m3.body.x = s.g3o /\ Parts(m3) = s.g
         /\ s.x \in s.g /\ m3.body.x \in s.g
<1>1. Numbered(p, P, n, o)
  BY EndsAreNumbered
<1>2. m3.body.qab[2] = s.q /\ s.x \in Parts(m3) /\ m3.body.x = s.g3o
  BY DEF Ends, View, ResponderInv
<1>3. s.q = <<s.g, s.secret>>
  BY DEF Ends, StateInv
<1>4. m3.body.qab[1] = m3.body.q /\ m3.body.qab[2][1] = m3.body.q[1]
  BY DEF Ends, MessageInv
<1>5. Parts(m3) = m3.body.q[1] /\ m3.body.x \in Parts(m3)
  BY <1>1 DEF Parts, Numbered
<1> QED
  BY <1>2, <1>3, <1>4, <1>5

LEMMA Step4Views ==
  ASSUME NEW p \in Peers, NEW P, NEW Q, NEW s, NEW t, NEW a, NEW b, NEW mine, NEW theirs,
         NEW n \in Nat, NEW o, Ends(p, P, Q, s, t, a, b, mine, theirs, n, o), a \in BOOLEAN,
         s.nextExpected = 3, NEW m3, m3.type = "SMP3", NEW P2, Taken(m3, P, P2, p, o),
         NEW s2, s2.x = s.x, s2.g3o = s.g3o, s2.nextExpected = 1,
         NEW w, w.type = "SMP4", w.body.x = s.x, Parts(w) = s.g,
         w.body.qab = m3.body.qab
  PROVE  /\ View(p, P2, Q \cup {w}, s2, t.x, a, o)
         /\ View(Other(p), Q \cup {w}, P2, t, s2.x, b, o)
         /\ \A m \in Q : Ahead(m, {w}, Other(p), o)
<1> USE DEF Taken
<1> DEFINE q == Other(p)  R == Q \cup {w}
<1>1. Numbered(p, P, n, o) /\ Numbered(q, Q, n, o)
  BY EndsAreNumbered
<1>2. /\ View(p, P, Q, s, t.x, a, o) /\ View(p, P2, Q, s, t.x, a, o)
      /\ View(q, Q, P, t, s.x, b, o) /\ View(q, Q, P2, t, s.x, b, o)
  BY TakenViews DEF Ends
<1>3. m3.body.x = s.g3o /\ Parts(m3) = s.g /\ m3.body.x \in s.g
  BY SMP3IsExpected
<1>4. OfRun(m3) /\ m3.body.x \in 1 .. n /\ o[m3.body.x] = q /\ OfRun(w)
  BY <1>1 DEF OfRun, Numbered
<1>5. q \in Peers /\ q # p /\ Other(q) = p
  BY EndsFacts
<1>6. /\ s.x \in 1 .. n /\ t.g3o \in 0 .. n
      /\ \E z \in 1 .. n : o[z] = p /\ s.g = {z, s.g3o}
      /\ t.nextExpected = 2 => t.x # 0 /\ o[t.x] = q
      /\ ~a
  BY <1>3, <1>5, SMTT(20) DEF Ends, StateInv
<1>7. \A e \in s.g : o[e] = q => e = s.g3o
  BY <1>5, <1>6
<1>8. ReceivedInv(P2, s2, t.x)
  BY <1>2 DEF View, ReceivedInv
<1>9. AnsweredInv(p, P2, R, s2, t.x, o)
  <2>1. ASSUME NEW e \in Parts(w), o[e] = q
        PROVE  BeforeAll(e, P2) /\ UpTo(e, s2.g3o) /\ UpTo(e, t.x)
    <3>1. e = s.g3o
      BY <1>7, <2>1
    <3>2. BeforeAll(e, P2) /\ UpTo(e, t.x)
      BY <1>2, <3>1 DEF View, ReceivedInv
    <3> QED
      BY <1>3, <1>4, <3>1, <3>2 DEF UpTo
  <2>2. AnsweredInv(p, P2, Q, s, t.x, o)
    BY <1>2 DEF View
  <2> QED
    BY <2>1, <2>2 DEF AnsweredInv
<1>10. AskedInv(p, P2, R, s2, a, o)
  BY <1>6 DEF AskedInv
<1>11. ResponderInv(p, P2, R, s2, o) /\ InitiatorInv(P2, R, s2)
  BY DEF ResponderInv, InitiatorInv
<1>12. View(p, P2, R, s2, t.x, a, o)
  BY <1>8, <1>9, <1>10, <1>11 DEF View
<1>13. UpTo(t.g3o, s.x)
  BY <1>2 DEF View, ReceivedInv
<1>14. ReceivedInv(R, t, s.x)
  <2>1. \A m \in R : OfRun(m) => UpTo(m.body.x, s.x)
    BY <1>2, <1>6 DEF View, ReceivedInv, UpTo
  <2>2. BeforeAll(t.g3o, R)
    BY <1>2, <1>6, <1>13 DEF View, ReceivedInv, BeforeAll, UpTo, NotAfter
  <2> QED
    BY <1>13, <2>1, <2>2 DEF ReceivedInv
<1>15. AnsweredInv(q, R, P2, t, s.x, o)
  <2>1. ASSUME NEW m \in P2, NEW e \in Parts(m), o[e] = Other(q)
        PROVE  BeforeAll(e, R) /\ UpTo(e, t.g3o) /\ UpTo(e, s.x)
    <3>1. BeforeAll(e, Q) /\ UpTo(e, t.g3o) /\ UpTo(e, s.x)
      BY <1>2, <2>1 DEF View, AnsweredInv
    <3>2. NotAfter(e, w)
      BY <1>6, <3>1 DEF UpTo, NotAfter
    <3> QED
      BY <3>1, <3>2 DEF BeforeAll
  <2>2. ASSUME NEW m \in R, m.type = "SMP3" PROVE BeforeAll(m.body.x, R)
    <3>1. m \in Q
      BY <2>2
    <3>2. BeforeAll(m.body.x, Q) /\ UpTo(m.body.x, s.x)
      BY <1>2, <2>2, <3>1 DEF View, AnsweredInv, ReceivedInv, OfRun
    <3>3. NotAfter(m.body.x, w)
      BY <1>6, <3>2 DEF UpTo, NotAfter
    <3> QED
      BY <3>2, <3>3 DEF BeforeAll
  <2> QED
    BY <2>1, <2>2 DEF AnsweredInv
<1>16. AskedInv(q, R, P2, t, b, o)
  BY <1>2 DEF View, AskedInv
<1>17. ResponderInv(q, R, P2, t, o)
  BY <1>2 DEF View, ResponderInv
<1>18. InitiatorInv(R, P2, t)
  <2>1. ASSUME t.nextExpected = 2 PROVE t.x \notin Parts(w)
    BY <1>2, <1>3, <1>6, <1>7, <2>1 DEF View, InitiatorInv
  <2>2. ASSUME t.nextExpected = 4 PROVE w.body.qab = t.qab
    BY <1>2, <2>2 DEF View, InitiatorInv
  <2> QED
    BY <1>2, <2>1, <2>2 DEF View, InitiatorInv
<1>19. View(q, R, P2, t, s.x, b, o)
  BY <1>14, <1>15, <1>16, <1>17, <1>18 DEF View
<1>20. ASSUME NEW m \in Q PROVE Ahead(m, {w}, q, o)
  <2>1. OfRun(m) => UpTo(m.body.x, s.x)
    BY <1>2 DEF View, ReceivedInv
  <2>2. OfRun(m) => NotAfter(m.body.x, w)
    BY <1>6, <2>1 DEF UpTo, NotAfter
  <2>3. ASSUME m.type = "SMP2", NEW e \in Parts(m), NEW f \in Parts(w), o[e] = q, o[f] = q
        PROVE  e <= f
    <3>1. f = s.g3o
      BY <1>7, <2>3
    <3>2. UpTo(e, s.g3o)
      BY <1>2, <2>3 DEF View, AnsweredInv
    <3> QED
      BY <1>3, <1>4, <3>1, <3>2 DEF UpTo
  <2> QED
    BY <2>2, <2>3 DEF Ahead
<1> QED
  BY <1>12, <1>19, <1>20
-----------------------------------------------------------------------------
(* The steps, with the queues, the states and what was typed.               *)

LEMMA RunIsSymmetric ==
  ASSUME NEW p \in Peers, NEW in, NEW out, NEW s, NEW t, NEW a, NEW b, NEW mine,
         NEW theirs, NEW n, NEW o, Run(p, in, out, s, t, a, b, mine, theirs, n, o)
  PROVE  Run(Other(p), out, in, t, s, b, a, theirs, mine, n, o)
<1>1. Other(Other(p)) = p
  BY EndsFacts
<1>2. Ends(Other(p), Elements(out), Elements(in), t, s, b, a, theirs, mine, n, o)
  BY <1>1 DEF Run, Ends
<1> QED
  BY <1>1, <1>2 DEF Run

\* A message is received, lost or discarded.
LEMMA RunDrops ==
  ASSUME NEW p \in Peers, NEW in \in Seq(Messages), NEW out, NEW s, NEW t, NEW a, NEW b,
         NEW mine, NEW theirs, NEW n \in Nat, NEW o, in # <<>>,
         Run(p, in, out, s, t, a, b, mine, theirs, n, o)
  PROVE  /\ Run(p, Tail(in), out, s, t, a, b, mine, theirs, n, o)
         /\ Taken(Head(in), Elements(in), Elements(Tail(in)), p, o)
<1>1. /\ Head(in) \in Elements(in) /\ Elements(Tail(in)) \in SUBSET Elements(in)
      /\ Ahead(Head(in), Elements(Tail(in)), p, o) /\ InOrder(Tail(in), p, o)
  BY QueueTail, HeadIsAhead DEF Run
<1>2. /\ View(p, Elements(Tail(in)), Elements(out), s, t.x, a, o)
      /\ View(Other(p), Elements(out), Elements(Tail(in)), t, s.x, b, o)
  BY <1>1, TakenViews DEF Run
<1> QED
  BY <1>1, <1>2 DEF Run, Ends, Taken

\* A message is sent that belongs to no run.
LEMMA RunNotes ==
  ASSUME NEW p \in Peers, NEW in, NEW out \in Seq(Messages), NEW s, NEW t, NEW a, NEW b,
         NEW mine, NEW theirs, NEW n \in Nat, NEW o, NEW w \in Messages, ~OfRun(w),
         Run(p, in, out, s, t, a, b, mine, theirs, n, o)
  PROVE  Run(p, in, Append(out, w), s, t, a, b, mine, theirs, n, o)
<1>1. Elements(Append(out, w)) = Elements(out) \cup {w}
  BY QueueAdd
<1>2. \A m \in Elements(out) : Ahead(m, {w}, Other(p), o)
  BY DEF Ahead
<1>3. InOrder(Append(out, w), Other(p), o)
  BY <1>2, AddInOrder DEF Run
<1>4. MessageInv(w, Other(p), o, n, theirs, mine)
  BY DEF MessageInv, OfRun
<1>5. /\ View(p, Elements(in), Elements(out) \cup {w}, s, t.x, a, o)
      /\ View(Other(p), Elements(out) \cup {w}, Elements(in), t, s.x, b, o)
  BY ViewIgnores DEF Run, Ends
<1> QED
  BY <1>1, <1>3, <1>4, <1>5 DEF Run, Ends

\* p expects the beginning of a run.
LEMMA RunRests ==
  ASSUME NEW p \in Peers, NEW in, NEW out, NEW s, NEW t, NEW a \in BOOLEAN, NEW b,
         NEW mine, NEW theirs, NEW n \in Nat, NEW o,
         Run(p, in, out, s, t, a, b, mine, theirs, n, o),
         NEW a2 \in BOOLEAN, a2 => a,
         NEW s2, s2.x = s.x, s2.g3o = s.g3o, s2.g = s.g, s2.nextExpected = 1
  PROVE  Run(p, in, out, s2, t, a2, b, mine, theirs, n, o)
<1>1. View(p, Elements(in), Elements(out), s2, t.x, a2, o)
  BY ViewRests DEF Run, Ends
<1>2. StateInv(s, p, a, o, n, mine)
  BY DEF Run, Ends
<1>3. StateInv(s2, p, a2, o, n, mine)
  BY <1>2 DEF StateInv
<1> QED
  BY <1>1, <1>3 DEF Run, Ends

\* p forgets its state.
LEMMA RunForgets ==
  ASSUME NEW p \in Peers, NEW in, NEW out, NEW s, NEW t \in States, NEW a, NEW b,
         NEW mine, NEW theirs, NEW n \in Nat, NEW o,
         Run(p, in, out, s, t, a, b, mine, theirs, n, o)
  PROVE  Run(p, in, out, Fresh, t, FALSE, b, mine, theirs, n, o)
<1> DEFINE P == Elements(in)  Q == Elements(out)
<1>1. Ends(p, P, Q, s, t, a, b, mine, theirs, n, o)
  BY DEF Run
<1>2. Numbered(p, P, n, o) /\ Numbered(Other(p), Q, n, o)
  BY <1>1, EndsAreNumbered
<1>3. /\ Fresh.x = 0 /\ Fresh.g3o = 0 /\ Fresh.g = {} /\ Fresh.nextExpected = 1
      /\ t.x \in Nat
  BY DEF Fresh, NULL, States
<1>4. View(p, P, Q, Fresh, t.x, FALSE, o)
  BY <1>1, <1>2, <1>3, ViewForgets DEF Ends
<1>5. View(Other(p), Q, P, t, 0, b, o)
  <2>1. Other(p) \in Peers /\ Other(Other(p)) = p
    BY EndsFacts
  <2>2. t.g3o \in 0 .. n
    BY <1>1 DEF Ends, StateInv
  <2> QED
    BY <1>1, <1>2, <2>1, <2>2, ViewOfDrawing DEF Ends
<1>6. StateInv(Fresh, p, FALSE, o, n, mine)
  BY <1>3 DEF StateInv
<1>7. Ends(p, P, Q, Fresh, t, FALSE, b, mine, theirs, n, o)
  BY <1>1, <1>3, <1>4, <1>5, <1>6 DEF Ends
<1> QED
  BY <1>7 DEF Run

-----------------------------------------------------------------------------
(* More exponents are drawn, more is typed.                                 *)

Grows(log, longer) ==
  Len(log) <= Len(longer) /\ \A i \in 1 .. Len(log) : longer[i] = log[i]

LEMMA LogGrows ==
  ASSUME NEW log \in Seq(Entries), NEW e \in Entries
  PROVE  /\ Grows(log, log) /\ Grows(log, Append(log, e))
         /\ Append(log, e) \in Seq(Entries)
         /\ Len(log) \in Nat /\ Len(Append(log, e)) = Len(log) + 1
         /\ Append(log, e)[Len(log) + 1] = e
<1>1. Len(log) \in Nat
  BY LenProperties
<1>2. /\ Append(log, e) \in Seq(Entries) /\ Len(Append(log, e)) = Len(log) + 1
      /\ \A i \in 1 .. Len(log) : Append(log, e)[i] = log[i]
      /\ Append(log, e)[Len(log) + 1] = e
  BY AppendProperties
<1> QED
  BY <1>1, <1>2 DEF Grows

\* The owners of the first n exponents are the same.
Agrees(o, o2, n) == \A e \in 1 .. n : o2[e] = o[e]
\* No message of P has another exponent.
PartsUpTo(P, n) == \A m \in P : Parts(m) \subseteq 1 .. n

LEMMA MessageStays ==
  ASSUME NEW m, NEW p, NEW o, NEW o2, NEW n \in Nat, NEW n2 \in Nat, n <= n2,
         Agrees(o, o2, n),
         NEW mine \in Seq(Entries), NEW mine2 \in Seq(Entries), Grows(mine, mine2),
         NEW theirs \in Seq(Entries), NEW theirs2 \in Seq(Entries), Grows(theirs, theirs2),
         MessageInv(m, p, o, n, mine, theirs)
  PROVE  MessageInv(m, p, o2, n2, mine2, theirs2)
<1>1. ASSUME NEW log \in Seq(Entries), NEW log2 \in Seq(Entries), Grows(log, log2),
             NEW secret, NEW r, NEW e
      PROVE  /\ AskedFor(secret, log, r) => AskedFor(secret, log2, r)
             /\ AnsweredWith(secret, log, r, e) => AnsweredWith(secret, log2, r, e)
  <2>1. Len(log) \in Nat /\ Len(log2) \in Nat
    BY LenProperties
  <2>2. \A i \in 1 .. Len(log) : i \in 1 .. Len(log2) /\ log2[i] = log[i]
    BY <1>1, <2>1 DEF Grows
  <2>3. ASSUME AskedFor(secret, log, r) PROVE AskedFor(secret, log2, r)
    BY <2>2, <2>3, Zenon DEF AskedFor
  <2>4. ASSUME AnsweredWith(secret, log, r, e) PROVE AnsweredWith(secret, log2, r, e)
    BY <2>2, <2>4, Zenon DEF AnsweredWith
  <2> QED
    BY <2>3, <2>4
<1>2. \A e \in 1 .. n : e \in 1 .. n2
  OBVIOUS
<1>3. OfRun(m) => m.body.x \in 1 .. n2 /\ o2[m.body.x] = Other(p)
  BY <1>2 DEF MessageInv, Agrees
<1>4. m.type \in {"SMP2", "SMP3", "SMP4"} =>
        \/ \E e, f \in 1 .. n2 : o2[e] = p /\ o2[f] = Other(p) /\ Parts(m) = {e, f}
        \/ m.type = "SMP2" /\ Parts(m) = {}
  <2>1. ASSUME NEW e \in 1 .. n, NEW f \in 1 .. n, o[e] = p, o[f] = Other(p),
               Parts(m) = {e, f}
        PROVE  \E c, d \in 1 .. n2 : o2[c] = p /\ o2[d] = Other(p) /\ Parts(m) = {c, d}
    BY <1>2, <2>1 DEF Agrees
  <2> QED
    BY <2>1, Zenon DEF MessageInv
<1>5. m.type = "SMP2" => AnsweredWith(m.body.q[2], theirs2, p, m.session)
  BY <1>1 DEF MessageInv
<1>6. m.type = "SMP3" =>
        /\ AskedFor(m.body.q[2], theirs2, Other(p))
        /\ AnsweredWith(m.body.qab[2][2], mine2, Other(p), m.session)
  BY <1>1 DEF MessageInv
<1>7. m.type = "SMP4" => AnsweredWith(m.body.qab[2][2], theirs2, p, m.session)
  BY <1>1 DEF MessageInv
<1> QED
  BY <1>3, <1>4, <1>5, <1>6, <1>7 DEF MessageInv

LEMMA StateStays ==
  ASSUME NEW s, NEW p, NEW a, NEW o, NEW o2, NEW n \in Nat, NEW n2 \in Nat, n <= n2, NEW mine,
         Agrees(o, o2, n), StateInv(s, p, a, o, n, mine)
  PROVE  StateInv(s, p, a, o2, n2, mine)
<1>1. \A e \in 1 .. n : e \in 1 .. n2
  OBVIOUS
<1>2. /\ s.x \in 0 .. n2 /\ (s.x # 0 => o2[s.x] = p)
      /\ s.g3o \in 0 .. n2 /\ (s.g3o # 0 => o2[s.g3o] = Other(p))
  BY DEF StateInv, Agrees
<1>3. s.g # {} => s.g3o # 0 /\ \E z \in 1 .. n2 : o2[z] = p /\ s.g = {z, s.g3o}
  BY <1>1 DEF StateInv, Agrees
<1> QED
  BY <1>2, <1>3 DEF StateInv

LEMMA ViewStays ==
  ASSUME NEW p, NEW P, NEW Q, NEW s, NEW x, NEW a, NEW o, NEW o2, NEW n \in Nat,
         Agrees(o, o2, n), PartsUpTo(Q, n),
         View(p, P, Q, s, x, a, o)
  PROVE  View(p, P, Q, s, x, a, o2)
<1>1. \A m \in Q : \A e \in Parts(m) : o2[e] = o[e]
  BY DEF Agrees, PartsUpTo
<1>2. AnsweredInv(p, P, Q, s, x, o2)
  BY <1>1 DEF View, AnsweredInv
<1>3. AskedInv(p, P, Q, s, a, o2)
  BY <1>1 DEF View, AskedInv
<1>4. ResponderInv(p, P, Q, s, o2)
  BY <1>1 DEF View, ResponderInv
<1> QED
  BY <1>2, <1>3, <1>4 DEF View

LEMMA OrderStays ==
  ASSUME NEW queue, NEW p, NEW o, NEW o2, NEW n \in Nat,
         Agrees(o, o2, n), PartsUpTo(Elements(queue), n), InOrder(queue, p, o)
  PROVE  InOrder(queue, p, o2)
<1>1. \A i \in 1 .. Len(queue) : \A e \in Parts(queue[i]) : o2[e] = o[e]
  BY DEF Elements, Agrees, PartsUpTo
<1> QED
  BY <1>1 DEF InOrder
-----------------------------------------------------------------------------
(* The steps of a run.                                                      *)

LEMMA Drawing ==
  ASSUME NEW p \in Peers, NEW o \in Ownerships, NEW n \in Nat
  PROVE  \E o2 \in Ownerships : o2[n + 1] = p /\ Agrees(o, o2, n)
<1> DEFINE o2 == [o EXCEPT ![n + 1] = p]
<1>1. o2 \in Ownerships /\ o2[n + 1] = p /\ \A e \in 1 .. n : o2[e] = o[e]
  BY DEF Ownerships
<1> QED
  BY <1>1 DEF Agrees

LEMMA RunInitiates ==
  ASSUME NEW p \in Peers, NEW in \in Seq(Messages), NEW out \in Seq(Messages),
         NEW s, NEW t, NEW a \in BOOLEAN, NEW b \in BOOLEAN,
         NEW mine \in Seq(Entries), NEW theirs \in Seq(Entries), NEW n \in Nat,
         NEW o \in Ownerships, NEW o2 \in Ownerships, o2[n + 1] = p, Agrees(o, o2, n),
         Run(p, in, out, s, t, a, b, mine, theirs, n, o),
         NEW e \in Entries, e.asker = p,
         NEW s2, s2.x = n + 1, s2.g3o = s.g3o, s2.g = s.g, s2.nextExpected = 2,
         s2.secret = AskSecret(e),
         NEW w \in Messages, w.type = "SMP1", w.body.x = n + 1
  PROVE  Run(p, in, Append(out, w), s2, t, a, b, Append(mine, e), theirs, n + 1, o2)
<1> DEFINE q == Other(p)  P == Elements(in)  Q == Elements(out)  log == Append(mine, e)
           more == Append(out, w)  k == n + 1
<1>1. Ends(p, P, Q, s, t, a, b, mine, theirs, n, o) /\ InOrder(in, p, o) /\ InOrder(out, q, o)
  BY DEF Run
<1>2. Elements(more) = Q \cup {w}
  BY QueueAdd
<1>3. /\ Grows(mine, mine) /\ Grows(mine, log) /\ Grows(theirs, theirs)
      /\ log \in Seq(Entries) /\ Len(mine) \in Nat /\ Len(log) = Len(mine) + 1
      /\ log[Len(mine) + 1] = e
  BY LogGrows
<1>4. (\A m \in Q : Ahead(m, {w}, q, o)) => InOrder(more, q, o)
  BY <1>1, AddInOrder
<1> HIDE DEF P, Q, log, more
<1>5. /\ View(p, P, Q \cup {w}, s2, t.x, a, o)
      /\ View(q, Q \cup {w}, P, t, s2.x, b, o)
      /\ \A m \in Q : Ahead(m, {w}, q, o)
  BY <1>1, InitiateViews
<1>6. o2[k] = p /\ n <= k /\ k \in Nat /\ k \in 1 .. k
  OBVIOUS
<1> HIDE DEF k
<1>7. Numbered(p, P, n, o) /\ Numbered(q, Q, n, o)
  BY <1>1, EndsAreNumbered
<1>8. PartsUpTo(P, n) /\ PartsUpTo(Q \cup {w}, n)
  BY <1>7 DEF Numbered, PartsUpTo, Parts
<1>9. View(p, P, Q \cup {w}, s2, t.x, a, o2) /\ View(q, Q \cup {w}, P, t, s2.x, b, o2)
  BY <1>5, <1>8, ViewStays
<1>10. InOrder(in, p, o2) /\ InOrder(more, q, o2)
  <2>1. PartsUpTo(Elements(in), n) /\ PartsUpTo(Elements(more), n)
    BY <1>2, <1>8 DEF P
  <2>2. InOrder(in, p, o) /\ InOrder(more, q, o)
    BY <1>1, <1>4, <1>5
  <2> QED
    BY <2>1, <2>2, OrderStays
<1>11. ASSUME NEW m \in P PROVE MessageInv(m, p, o2, k, log, theirs)
  <2>1. MessageInv(m, p, o, n, mine, theirs)
    BY <1>1 DEF Ends
  <2> QED
    BY <1>3, <1>6, <2>1, MessageStays, Zenon
<1>12. ASSUME NEW m \in Q PROVE MessageInv(m, q, o2, k, theirs, log)
  <2>1. MessageInv(m, q, o, n, theirs, mine)
    BY <1>1 DEF Ends
  <2> QED
    BY <1>3, <1>6, <2>1, MessageStays, Zenon
<1>13. MessageInv(w, q, o2, k, theirs, log)
  <2>1. Other(q) = p
    BY EndsFacts
  <2>2. w.body.x = k
    BY DEF k
  <2> QED
    BY <1>6, <2>1, <2>2 DEF MessageInv
<1>14. StateInv(t, q, b, o2, k, theirs)
  BY <1>1, <1>6, StateStays DEF Ends
<1>15. StateInv(s2, p, a, o2, k, log)
  <2>1. StateInv(s, p, a, o2, k, mine)
    BY <1>1, <1>6, StateStays DEF Ends
  <2>2. log[Len(log)] = e /\ Len(log) # 0 /\ s2.x = k /\ k # 0
    BY <1>3 DEF k
  <2> QED
    BY <1>6, <2>1, <2>2, SMTT(20) DEF StateInv
<1>16. Ends(p, P, Q \cup {w}, s2, t, a, b, log, theirs, k, o2)
  BY <1>1, <1>9, <1>11, <1>12, <1>13, <1>14, <1>15 DEF Ends
<1>17. Run(p, in, more, s2, t, a, b, log, theirs, k, o2)
  BY <1>2, <1>10, <1>16 DEF Run, P
<1> QED
  BY <1>17 DEF more, log, k

\* s2 is s after its user has typed entry e to answer, and w the SMP2.
Answers(p, s, s2, e, w) ==
  /\ e.asker = Other(p) /\ e.question = s.received_question
  /\ s2.x = s.x /\ s2.g3o = s.g3o /\ s2.g = s.g /\ s2.nextExpected = 3
  /\ s2.secret = AnswerSecret(e) /\ s2.q = Made(s.g, AnswerSecret(e))
  /\ s2.received_question = s.received_question
  /\ w.type = "SMP2" /\ w.body.x = s.x /\ w.body.q = s2.q /\ w.session = e.session

LEMMA RunResponds ==
  ASSUME NEW p \in Peers, NEW in \in Seq(Messages), NEW out \in Seq(Messages),
         NEW s, NEW t, NEW a \in BOOLEAN, NEW b \in BOOLEAN,
         NEW mine \in Seq(Entries), NEW theirs \in Seq(Entries), NEW n \in Nat,
         NEW o \in Ownerships, Run(p, in, out, s, t, a, b, mine, theirs, n, o),
         s.x # 0, AskedInv(p, Elements(in), Elements(out), s, TRUE, o),
         NEW e \in Entries, NEW s2, NEW w \in Messages, Answers(p, s, s2, e, w)
  PROVE  Run(p, in, Append(out, w), s2, t, FALSE, b, Append(mine, e), theirs, n, o)
<1> USE DEF Answers
<1> DEFINE q == Other(p)  P == Elements(in)  Q == Elements(out)  log == Append(mine, e)
           more == Append(out, w)
<1>1. Ends(p, P, Q, s, t, a, b, mine, theirs, n, o) /\ InOrder(in, p, o) /\ InOrder(out, q, o)
  BY DEF Run
<1>2. Elements(more) = Q \cup {w}
  BY QueueAdd
<1>3. /\ Grows(mine, mine) /\ Grows(mine, log) /\ Grows(theirs, theirs)
      /\ log \in Seq(Entries) /\ Len(mine) \in Nat /\ Len(log) = Len(mine) + 1
      /\ log[Len(mine) + 1] = e
  BY LogGrows
<1>4. (\A m \in Q : Ahead(m, {w}, q, o)) => InOrder(more, q, o)
  BY <1>1, AddInOrder
<1>5. /\ s2.q[1] = s.g /\ s2.q[2] = AnswerSecret(e)
      /\ s2.q = <<s2.g, s2.secret>>
  BY DEF Made
<1> HIDE DEF P, Q, log, more
<1>6. /\ View(p, P, Q \cup {w}, s2, t.x, FALSE, o)
      /\ View(q, Q \cup {w}, P, t, s2.x, b, o)
      /\ \A m \in Q : Ahead(m, {w}, q, o)
  <2>1. AskedInv(p, P, Q, s, TRUE, o)
    BY DEF P, Q
  <2> QED
    BY <1>1, <1>5, <2>1, RespondViews, ZenonT(40)
<1>7. n <= n /\ Agrees(o, o, n)
  BY DEF Agrees
<1>8. ASSUME NEW m \in P PROVE MessageInv(m, p, o, n, log, theirs)
  <2>1. MessageInv(m, p, o, n, mine, theirs)
    BY <1>1 DEF Ends
  <2> QED
    BY <1>3, <1>7, <2>1, MessageStays, Zenon
<1>9. ASSUME NEW m \in Q PROVE MessageInv(m, q, o, n, theirs, log)
  <2>1. MessageInv(m, q, o, n, theirs, mine)
    BY <1>1 DEF Ends
  <2> QED
    BY <1>3, <1>7, <2>1, MessageStays, Zenon
<1>10. /\ s.x \in 1 .. n /\ o[s.x] = p
       /\ s.g3o \in 0 .. n /\ (s.g3o # 0 => o[s.g3o] = q /\ s.g # {})
       /\ s.g # {} =>
            s.g3o # 0 /\ \E z \in 1 .. n : o[z] = p /\ s.g = {z, s.g3o}
  BY <1>1, SMTT(20) DEF Ends, StateInv
<1>11. log[Len(log)] = e /\ Len(log) # 0 /\ Len(log) \in 1 .. Len(log)
  BY <1>3
<1>12. MessageInv(w, q, o, n, theirs, log)
  <2>1. Other(q) = p
    BY EndsFacts
  <2>2. Parts(w) = s.g /\ w.body.q[2] = AnswerSecret(e)
    BY <1>5 DEF Parts
  <2>3. AnsweredWith(w.body.q[2], log, q, w.session)
    BY <1>11, <2>2 DEF AnsweredWith
  <2>4. (\E f, z \in 1 .. n : o[f] = q /\ o[z] = p /\ Parts(w) = {f, z}) \/ Parts(w) = {}
    <3>1. CASE s.g = {}
      BY <2>2, <3>1
    <3>2. CASE s.g # {}
      <4>1. PICK z \in 1 .. n : o[z] = p /\ s.g = {z, s.g3o}
        BY <1>10, <3>2
      <4>2. s.g3o \in 1 .. n /\ o[s.g3o] = q /\ Parts(w) = {s.g3o, z}
        BY <1>10, <2>2, <3>2, <4>1
      <4> QED
        BY <4>1, <4>2
    <3> QED
      BY <3>1, <3>2
  <2> QED
    BY <1>10, <2>1, <2>3, <2>4, Zenon DEF MessageInv
<1>13. StateInv(s2, p, FALSE, o, n, log)
  BY <1>5, <1>10, <1>11, SMTT(20) DEF StateInv
<1>14. Ends(p, P, Q \cup {w}, s2, t, FALSE, b, log, theirs, n, o)
  BY <1>1, <1>6, <1>8, <1>9, <1>12, <1>13 DEF Ends
<1>15. Run(p, in, more, s2, t, FALSE, b, log, theirs, n, o)
  BY <1>1, <1>2, <1>4, <1>6, <1>14 DEF Run, P
<1> QED
  BY <1>15 DEF more, log

\* s2 is a state after the SMP1 m, with new exponent x.
IsAsked(s2, m, x) ==
  /\ m.type = "SMP1"
  /\ s2.x = x /\ s2.g3o = m.body.x /\ s2.g = Two(x, m.body.x) /\ s2.nextExpected = 1

LEMMA RunIsAsked ==
  ASSUME NEW p \in Peers, NEW in \in Seq(Messages), NEW out \in Seq(Messages),
         NEW s, NEW t, NEW a \in BOOLEAN, NEW b \in BOOLEAN, NEW a2 \in BOOLEAN,
         NEW mine \in Seq(Entries), NEW theirs \in Seq(Entries), NEW n \in Nat,
         NEW k \in Nat, k = n + 1,
         NEW o \in Ownerships, NEW o2 \in Ownerships, o2[k] = p, Agrees(o, o2, n),
         Run(p, in, out, s, t, a, b, mine, theirs, n, o),
         in # <<>>, NEW s2, IsAsked(s2, Head(in), k)
  PROVE  Run(p, Tail(in), out, s2, t, a2, b, mine, theirs, k, o2)
<1> DEFINE q == Other(p)  P == Elements(in)  Q == Elements(out)  rest == Tail(in)
           P2 == Elements(rest)  m1 == Head(in)
<1>1. Ends(p, P, Q, s, t, a, b, mine, theirs, n, o) /\ InOrder(in, p, o) /\ InOrder(out, q, o)
  BY DEF Run
<1>2. Taken(m1, P, P2, p, o) /\ InOrder(rest, p, o)
  BY RunDrops DEF Run
<1>3. /\ m1.type = "SMP1" /\ s2.g3o = m1.body.x /\ s2.g = Two(k, m1.body.x)
      /\ s2.x = n + 1 /\ s2.x = k /\ n <= k /\ k \in Nat /\ k \in 1 .. k
      /\ o2[k] = p /\ s2.nextExpected = 1
  BY DEF IsAsked
<1> HIDE DEF P, Q, P2, m1, rest
<1>4. View(p, P2, Q, s2, t.x, a2, o) /\ View(q, Q, P2, t, s2.x, b, o)
  <2>1. View(p, P2, Q, s2, t.x, TRUE, o) /\ View(q, Q, P2, t, s2.x, b, o)
    BY <1>1, <1>2, <1>3, ReceiveSMP1Views
  <2> QED
    BY <2>1 DEF View, AskedInv
<1>5. Numbered(p, P, n, o) /\ Numbered(q, Q, n, o)
  BY <1>1, EndsAreNumbered
<1>6. /\ PartsUpTo(P2, n) /\ PartsUpTo(Q, n)
      /\ m1.body.x \in 1 .. n /\ o[m1.body.x] = q
  BY <1>2, <1>3, <1>5 DEF Numbered, OfRun, PartsUpTo, Taken
<1>7. View(p, P2, Q, s2, t.x, a2, o2) /\ View(q, Q, P2, t, s2.x, b, o2)
  BY <1>4, <1>6, ViewStays
<1>8. InOrder(rest, p, o2) /\ InOrder(out, q, o2)
  <2>1. PartsUpTo(Elements(rest), n) /\ PartsUpTo(Elements(out), n)
    BY <1>6 DEF P2, Q
  <2> QED
    BY <1>1, <1>2, <2>1, OrderStays
<1>9. Grows(mine, mine) /\ Grows(theirs, theirs)
  BY LenProperties DEF Grows
<1>10. ASSUME NEW m \in P2 PROVE MessageInv(m, p, o2, k, mine, theirs)
  <2>1. MessageInv(m, p, o, n, mine, theirs)
    BY <1>1, <1>2 DEF Ends, Taken
  <2> QED
    BY <1>3, <1>9, <2>1, MessageStays, Zenon
<1>11. ASSUME NEW m \in Q PROVE MessageInv(m, q, o2, k, theirs, mine)
  <2>1. MessageInv(m, q, o, n, theirs, mine)
    BY <1>1 DEF Ends
  <2> QED
    BY <1>3, <1>9, <2>1, MessageStays, Zenon
<1>12. StateInv(t, q, b, o2, k, theirs)
  BY <1>1, <1>3, StateStays DEF Ends
<1>13. StateInv(s2, p, a2, o2, k, mine)
  <2>1. s2.g3o \in 1 .. n /\ o2[s2.g3o] = q /\ s2.g3o \in 1 .. k
    BY <1>3, <1>6 DEF Agrees
  <2>2. s2.x # 0 /\ s2.x \in 0 .. k /\ s2.g3o \in 0 .. k /\ s2.g3o # 0
    BY <1>3, <2>1
  <2>3. s2.g = {k, s2.g3o}
    BY <1>3 DEF Two
  <2>4. s2.g # {} /\ o2[s2.x] = p /\ s2.nextExpected = 1
    BY <1>3, <2>3
  <2>5. \E z \in 1 .. k : o2[z] = p /\ s2.g = {z, s2.g3o}
    BY <1>3, <2>3
  <2> QED
    BY <2>1, <2>2, <2>4, <2>5 DEF StateInv
<1>14. Ends(p, P2, Q, s2, t, a2, b, mine, theirs, k, o2)
  BY <1>1, <1>2, <1>7, <1>10, <1>11, <1>12, <1>13 DEF Ends, Taken
<1>15. Run(p, rest, out, s2, t, a2, b, mine, theirs, k, o2)
  BY <1>8, <1>14 DEF Run, P2, Q
<1> QED
  BY <1>15 DEF rest
\* s2 is s after an SMP2 m that does not verify.
Fails3(s, s2, m) ==
  /\ m.type = "SMP2" /\ s.nextExpected = 2
  /\ s2.x = s.x /\ s2.g3o = m.body.x /\ s2.g = Two(s.x, m.body.x) /\ s2.nextExpected = 1

\* The SMP2 does not verify.
LEMMA RunIsCheated ==
  ASSUME NEW p \in Peers, NEW in \in Seq(Messages), NEW out \in Seq(Messages),
         NEW s, NEW t, NEW a \in BOOLEAN, NEW b \in BOOLEAN,
         NEW mine, NEW theirs, NEW n \in Nat, NEW o,
         Run(p, in, out, s, t, a, b, mine, theirs, n, o),
         in # <<>>, NEW s2, Fails3(s, s2, Head(in))
  PROVE  Run(p, Tail(in), out, s2, t, a, b, mine, theirs, n, o)
<1> DEFINE q == Other(p)  P == Elements(in)  Q == Elements(out)  rest == Tail(in)
           P2 == Elements(rest)  m2 == Head(in)
<1>1. Ends(p, P, Q, s, t, a, b, mine, theirs, n, o) /\ InOrder(in, p, o) /\ InOrder(out, q, o)
  BY DEF Run
<1>2. Taken(m2, P, P2, p, o) /\ InOrder(rest, p, o)
  BY RunDrops DEF Run
<1>3. /\ m2.type = "SMP2" /\ s2.g3o = m2.body.x /\ s2.g = Two(s.x, m2.body.x)
      /\ s.nextExpected = 2 /\ s2.x = s.x /\ s2.nextExpected = 1
  BY DEF Fails3
<1> HIDE DEF P, Q, P2, m2, rest
<1>4. View(p, P2, Q, s2, t.x, a, o) /\ View(q, Q, P2, t, s2.x, b, o)
  BY <1>1, <1>2, <1>3, CheatedViews
<1>5. m2.body.x \in 1 .. n /\ o[m2.body.x] = q
  <2>1. Numbered(p, P, n, o)
    BY <1>1, EndsAreNumbered
  <2> QED
    BY <1>2, <1>3, <2>1 DEF Numbered, OfRun, Taken
<1>6. StateInv(s2, p, a, o, n, mine)
  <2>1. s.x \in 1 .. n /\ o[s.x] = p /\ (a => s.nextExpected # 3)
    BY <1>1, <1>3 DEF Ends, StateInv
  <2>2. s2.g = {s.x, s2.g3o} /\ s2.g # {}
    BY <1>3 DEF Two
  <2>3. /\ s2.x \in 0 .. n /\ s2.x # 0 /\ s2.g3o \in 0 .. n /\ s2.g3o # 0
        /\ o[s2.x] = p /\ o[s2.g3o] = q
    BY <1>3, <1>5, <2>1
  <2> QED
    BY <1>3, <2>1, <2>2, <2>3 DEF StateInv
<1>7. Ends(p, P2, Q, s2, t, a, b, mine, theirs, n, o)
  BY <1>1, <1>2, <1>4, <1>6 DEF Ends, Taken
<1>8. Run(p, rest, out, s2, t, a, b, mine, theirs, n, o)
  BY <1>1, <1>2, <1>7 DEF Run, P2, Q
<1> QED
  BY <1>8 DEF rest

\* s2 is s after an SMP2 m that verifies, and w the SMP3.
Verifies3(s, s2, m, w) ==
  /\ m.type = "SMP2" /\ s.nextExpected = 2 /\ m.body.q[1] = Two(s.x, m.body.x)
  /\ s2.x = s.x /\ s2.g3o = m.body.x /\ s2.g = Two(s.x, m.body.x) /\ s2.nextExpected = 4
  /\ s2.secret = s.secret /\ s2.qab[1] = Made(s2.g, s.secret) /\ s2.qab[2] = m.body.q
  /\ w.type = "SMP3" /\ w.session = m.session
  /\ w.body.x = s.x /\ w.body.q = Made(s2.g, s.secret) /\ w.body.qab = s2.qab

\* The SMP2 verifies, and an SMP3 answers it.
LEMMA RunStep3 ==
  ASSUME NEW p \in Peers, NEW in \in Seq(Messages), NEW out \in Seq(Messages),
         NEW s, NEW t, NEW a \in BOOLEAN, NEW b \in BOOLEAN,
         NEW mine \in Seq(Entries), NEW theirs, NEW n \in Nat, NEW o,
         Run(p, in, out, s, t, a, b, mine, theirs, n, o), t.nextExpected = 3 => t.g # {},
         in # <<>>, NEW s2, NEW w \in Messages, Verifies3(s, s2, Head(in), w)
  PROVE  Run(p, Tail(in), Append(out, w), s2, t, a, b, mine, theirs, n, o)
<1> USE DEF Verifies3
<1> DEFINE q == Other(p)  P == Elements(in)  Q == Elements(out)  rest == Tail(in)
           P2 == Elements(rest)  m2 == Head(in)  more == Append(out, w)
<1>1. Ends(p, P, Q, s, t, a, b, mine, theirs, n, o) /\ InOrder(in, p, o) /\ InOrder(out, q, o)
  BY DEF Run
<1>2. Taken(m2, P, P2, p, o) /\ InOrder(rest, p, o)
  BY RunDrops DEF Run
<1>3. /\ m2.type = "SMP2" /\ s2.g3o = m2.body.x /\ s2.g = Two(s.x, m2.body.x)
      /\ m2.body.q[1] = s2.g /\ s2.qab[2] = m2.body.q /\ w.session = m2.session
      /\ s2.qab[1] = w.body.q /\ w.body.q[1] = s2.g /\ w.body.q[2] = s.secret
  BY DEF Made, Verifies3
<1>4. Elements(more) = Q \cup {w}
  BY QueueAdd
<1>5. (\A m \in Q : Ahead(m, {w}, q, o)) => InOrder(more, q, o)
  BY <1>1, AddInOrder
<1> HIDE DEF P, Q, P2, m2, rest, more
<1>6. Parts(m2) = Two(s.x, m2.body.x) /\ Parts(w) = Parts(m2)
  BY <1>3 DEF Parts
<1>7. /\ View(p, P2, Q \cup {w}, s2, t.x, a, o)
      /\ View(q, Q \cup {w}, P2, t, s2.x, b, o)
      /\ \A m \in Q : Ahead(m, {w}, q, o)
  <2>1. Ends(p, P, Q, s, t, a, b, mine, theirs, n, o) /\ Taken(m2, P, P2, p, o)
    BY <1>1, <1>2
  <2>2. /\ m2.type = "SMP2" /\ s2.g3o = m2.body.x /\ s2.qab[2] = m2.body.q
        /\ Parts(m2) = Two(s.x, m2.body.x) /\ Parts(w) = Parts(m2)
    BY <1>3, <1>6
  <2>3. /\ s2.x = s.x /\ s2.nextExpected = 4 /\ s.nextExpected = 2
        /\ t.nextExpected = 3 => t.g # {}
    OBVIOUS
  <2>4. w.type = "SMP3" /\ w.body.x = s.x /\ w.body.qab = s2.qab
    OBVIOUS
  <2> QED
    BY ONLY p \in Peers, n \in Nat, a \in BOOLEAN, b \in BOOLEAN, <2>1, <2>2, <2>3, <2>4,
       Step3Views, ZenonT(40)
<1>8. m2.body.x \in 1 .. n /\ o[m2.body.x] = q
  <2>1. Numbered(p, P, n, o)
    BY <1>1, EndsAreNumbered
  <2> QED
    BY <1>2, <1>3, <2>1 DEF Numbered, OfRun, Taken
<1>9. /\ s.x \in 1 .. n /\ o[s.x] = p /\ Len(mine) # 0
      /\ mine[Len(mine)].asker = p /\ s.secret = AskSecret(mine[Len(mine)])
  BY <1>1 DEF Ends, StateInv
<1>10. Len(mine) \in 1 .. Len(mine)
  BY <1>9, LenProperties
<1>11. MessageInv(w, q, o, n, theirs, mine)
  <2>1. Other(q) = p
    BY EndsFacts
  <2>2. AskedFor(w.body.q[2], mine, p)
    BY <1>3, <1>9, <1>10 DEF AskedFor
  <2>3. AnsweredWith(m2.body.q[2], theirs, p, m2.session)
    BY <1>1, <1>2, <1>3 DEF Ends, MessageInv, Taken
  <2>4. w.body.qab[1] = w.body.q /\ w.body.qab[2] = m2.body.q
    BY <1>3
  <2>5. Parts(w) = {m2.body.x, s.x} /\ w.body.x \in Parts(w)
    BY <1>6 DEF Two
  <2> QED
    BY <1>3, <1>8, <1>9, <2>1, <2>2, <2>3, <2>4, <2>5 DEF MessageInv
<1>12. StateInv(s2, p, a, o, n, mine)
  <2>1. s2.g = {s2.x, s2.g3o} /\ s2.g # {}
    BY <1>3 DEF Two
  <2>2. /\ s2.x \in 0 .. n /\ s2.x # 0 /\ s2.g3o \in 0 .. n /\ s2.g3o # 0
        /\ s2.x \in 1 .. n /\ o[s2.x] = p /\ o[s2.g3o] = q
    BY <1>3, <1>8, <1>9
  <2>3. \E z \in 1 .. n : o[z] = p /\ s2.g = {z, s2.g3o}
    BY <2>1, <2>2
  <2>4. a => s2.x # 0 /\ s2.g # {} /\ s2.nextExpected # 3
    BY <2>1, <2>2
  <2>5. s2.qab[1] = <<s2.g, s2.secret>>
    BY DEF Made
  <2>6. mine[Len(mine)].asker = p /\ s2.secret = AskSecret(mine[Len(mine)])
    BY <1>9
  <2>7. s2.nextExpected = 4 /\ s2.nextExpected # 3 /\ s2.x # 0 /\ Len(mine) # 0
    BY <1>9, <2>2
  <2> QED
    BY <2>1, <2>2, <2>3, <2>4, <2>5, <2>6, <2>7, Zenon DEF StateInv
<1>13. Ends(p, P2, Q \cup {w}, s2, t, a, b, mine, theirs, n, o)
  BY <1>1, <1>2, <1>7, <1>11, <1>12 DEF Ends, Taken
<1>14. Run(p, rest, more, s2, t, a, b, mine, theirs, n, o)
  BY <1>2, <1>4, <1>5, <1>7, <1>13 DEF Run, P2
<1> QED
  BY <1>14 DEF rest, more

\* s2 is s after an SMP3 m that verifies, and w the SMP4.
Verifies4(s, s2, m, w) ==
  /\ m.type = "SMP3" /\ s.nextExpected = 3
  /\ s2.x = s.x /\ s2.g3o = s.g3o /\ s2.g = s.g /\ s2.nextExpected = 1
  /\ w.type = "SMP4" /\ w.session = m.session
  /\ w.body.x = s.x /\ w.body.qab = m.body.qab

\* The SMP3 verifies, and an SMP4 answers it.
LEMMA RunStep4 ==
  ASSUME NEW p \in Peers, NEW in \in Seq(Messages), NEW out \in Seq(Messages),
         NEW s, NEW t, NEW a \in BOOLEAN, NEW b \in BOOLEAN,
         NEW mine, NEW theirs, NEW n \in Nat, NEW o,
         Run(p, in, out, s, t, a, b, mine, theirs, n, o),
         in # <<>>, NEW s2, NEW w \in Messages, Verifies4(s, s2, Head(in), w)
  PROVE  Run(p, Tail(in), Append(out, w), s2, t, a, b, mine, theirs, n, o)
<1> USE DEF Verifies4
<1> DEFINE q == Other(p)  P == Elements(in)  Q == Elements(out)  rest == Tail(in)
           P2 == Elements(rest)  m3 == Head(in)  more == Append(out, w)
<1>1. Ends(p, P, Q, s, t, a, b, mine, theirs, n, o) /\ InOrder(in, p, o) /\ InOrder(out, q, o)
  BY DEF Run
<1>2. Taken(m3, P, P2, p, o) /\ InOrder(rest, p, o)
  BY RunDrops DEF Run
<1>3. m3.type = "SMP3" /\ w.session = m3.session /\ w.body.qab = m3.body.qab
  OBVIOUS
<1>4. Elements(more) = Q \cup {w}
  BY QueueAdd
<1>5. (\A m \in Q : Ahead(m, {w}, q, o)) => InOrder(more, q, o)
  BY <1>1, AddInOrder
<1> HIDE DEF P, Q, P2, m3, rest, more
<1>6. /\ m3.body.qab[1] = m3.body.q /\ m3.body.q[1] = s.g /\ s.x \in s.g
  BY <1>1, <1>2, <1>3, SMP3IsExpected DEF Taken
<1>7. Parts(w) = s.g
  BY <1>3, <1>6 DEF Parts
<1>8. /\ View(p, P2, Q \cup {w}, s2, t.x, a, o)
      /\ View(q, Q \cup {w}, P2, t, s2.x, b, o)
      /\ \A m \in Q : Ahead(m, {w}, q, o)
  BY <1>1, <1>2, <1>3, <1>7, Step4Views, ZenonT(40)
<1>9. StateInv(s, p, a, o, n, mine)
  BY <1>1 DEF Ends
<1>10. /\ s.x \in 1 .. n /\ o[s.x] = p /\ s.g3o \in 1 .. n /\ o[s.g3o] = q
       /\ \E z \in 1 .. n : o[z] = p /\ s.g = {z, s.g3o}
  BY <1>6, <1>9 DEF StateInv
<1>11. MessageInv(w, q, o, n, theirs, mine)
  <2>1. Other(q) = p
    BY EndsFacts
  <2>2. AnsweredWith(m3.body.qab[2][2], mine, q, m3.session)
    BY <1>1, <1>2, <1>3 DEF Ends, MessageInv, Taken
  <2>3. \E e, f \in 1 .. n : o[e] = q /\ o[f] = p /\ Parts(w) = {e, f}
    BY <1>7, <1>10
  <2> QED
    BY <1>3, <1>6, <1>7, <1>10, <2>1, <2>2, <2>3 DEF MessageInv
<1>12. StateInv(s2, p, a, o, n, mine)
  BY <1>9 DEF StateInv
<1>13. Ends(p, P2, Q \cup {w}, s2, t, a, b, mine, theirs, n, o)
  BY <1>1, <1>2, <1>8, <1>11, <1>12 DEF Ends, Taken
<1>14. Run(p, rest, more, s2, t, a, b, mine, theirs, n, o)
  BY <1>2, <1>4, <1>5, <1>8, <1>13 DEF Run, P2
<1> QED
  BY <1>14 DEF rest, more
-----------------------------------------------------------------------------
(* The states, by the fields that a step changes.                           *)

LEMMA FreshIsAState == Fresh \in States
<1>1. {} \in SUBSET Nat /\ NoSecret \in Secret /\ FALSE \in BOOLEAN
  BY DEF Secret
<1>2. NoValue \in Values
  BY <1>1 DEF NoValue, Values
<1>3. <<NoValue, NoValue>> \in Values \X Values
  BY <1>2
<1> QED
  BY <1>1, <1>3 DEF Fresh, States, NULL

LEMMA StateExpecting ==
  ASSUME NEW s \in States, NEW k \in 1 .. 4
  PROVE  LET s2 == [s EXCEPT !.nextExpected = k]
         IN  /\ s2 \in States /\ s2.nextExpected = k
             /\ s2.received_question = s.received_question /\ s2.secret = s.secret
             /\ s2.x = s.x /\ s2.g3o = s.g3o /\ s2.g = s.g
             /\ s2.q = s.q /\ s2.qab = s.qab
BY DEF States

LEMMA StateOfStep1 ==
  ASSUME NEW s \in States, NEW secret \in Secret, NEW x \in Nat
  PROVE  LET s2 == Step1(s, secret, x)
         IN  /\ s2 \in States /\ s2.x = x /\ s2.secret = secret
             /\ s2.g3o = s.g3o /\ s2.g = s.g
<1> DEFINE s1 == [s EXCEPT !.secret = secret]
           s0 == [s1 EXCEPT !.received_question = FALSE]
           s2 == [s0 EXCEPT !.x = x]
<1>1. s2 = Step1(s, secret, x)
  BY DEF Step1
<1>2. s1 \in States /\ s1.secret = secret /\ s1.g3o = s.g3o /\ s1.g = s.g
  BY DEF States
<1> HIDE DEF s1
<1>3. s0 \in States /\ s0.secret = s1.secret /\ s0.g3o = s1.g3o /\ s0.g = s1.g
  BY <1>2 DEF States
<1> HIDE DEF s0
<1>4. s2 \in States /\ s2.x = x /\ s2.secret = s0.secret /\ s2.g3o = s0.g3o /\ s2.g = s0.g
  BY <1>3 DEF States
<1> QED
  BY <1>1, <1>2, <1>3, <1>4

LEMMA StateOfStep2a ==
  ASSUME NEW s \in States, NEW m, m.x \in Nat, m.question \in BOOLEAN, NEW x \in Nat
  PROVE  LET s2 == Step2a(s, m, x)
         IN  /\ s2 \in States /\ s2.nextExpected = s.nextExpected
             /\ s2.x = x /\ s2.g3o = m.x /\ s2.g = Two(x, m.x)
<1> DEFINE g == {m.x, x}
           s1 == [s EXCEPT !.received_question = m.question]
           s0 == [s1 EXCEPT !.g3o = m.x]
           s4 == [s0 EXCEPT !.x = x]
           s2 == [s4 EXCEPT !.g = g]
<1>1. s2 = Step2a(s, m, x)
  BY DEF Step2a
<1>2. g \in SUBSET Nat /\ g = Two(x, m.x)
  BY DEF Two
<1> HIDE DEF g
<1>3. s1 \in States /\ s1.nextExpected = s.nextExpected
  BY DEF States
<1> HIDE DEF s1
<1>4. s0 \in States /\ s0.nextExpected = s1.nextExpected /\ s0.g3o = m.x
  BY <1>3 DEF States
<1> HIDE DEF s0
<1>5. s4 \in States /\ s4.nextExpected = s0.nextExpected /\ s4.g3o = s0.g3o /\ s4.x = x
  BY <1>4 DEF States
<1> HIDE DEF s4
<1>6. /\ s2 \in States /\ s2.nextExpected = s4.nextExpected /\ s2.g3o = s4.g3o
      /\ s2.x = s4.x /\ s2.g = g
  BY <1>2, <1>5 DEF States
<1> QED
  BY <1>1, <1>2, <1>3, <1>4, <1>5, <1>6

LEMMA StateOfStep2b ==
  ASSUME NEW s \in States, NEW secret \in Secret
  PROVE  LET s2 == Step2b(s, secret)
         IN  /\ s2 \in States /\ s2.x = s.x /\ s2.g3o = s.g3o /\ s2.g = s.g
             /\ s2.received_question = s.received_question
             /\ s2.secret = secret /\ s2.q = <<s.g, secret>>
<1> DEFINE v == <<s.g, secret>>
           s1 == [s EXCEPT !.secret = secret]
           s2 == [s1 EXCEPT !.q = v]
<1>1. s2 = Step2b(s, secret)
  BY DEF Step2b
<1>2. v \in Values
  BY DEF Values, States
<1>3. v = <<s.g, secret>>
  OBVIOUS
<1> HIDE DEF v
<1>4. /\ s1 \in States /\ s1.secret = secret /\ s1.x = s.x /\ s1.g3o = s.g3o /\ s1.g = s.g
      /\ s1.received_question = s.received_question
  BY DEF States
<1> HIDE DEF s1
<1>5. /\ s2 \in States /\ s2.secret = s1.secret /\ s2.x = s1.x /\ s2.g3o = s1.g3o
      /\ s2.g = s1.g /\ s2.received_question = s1.received_question /\ s2.q = v
  BY <1>2, <1>4 DEF States
<1> QED
  BY <1>1, <1>3, <1>4, <1>5

LEMMA StateOfStep3 ==
  ASSUME NEW s \in States, NEW m, m.x \in Nat, m.q \in Values
  PROVE  LET s2 == Step3(s, m)
         IN  /\ s2 \in States /\ s2.x = s.x /\ s2.secret = s.secret
             /\ m.q[1] = {} => s2 = s
             /\ m.q[1] # {} => s2.g3o = m.x /\ s2.g = Two(s.x, m.x)
             /\ m.q[1] = Two(s.x, m.x) =>
                  /\ s2.q = Made(s2.g, s.secret)
                  /\ s2.qab[1] = Made(s2.g, s.secret) /\ s2.qab[2] = m.q
<1> DEFINE g == {s.x, m.x}
           t0 == [s EXCEPT !.g3o = m.x]
           t == [t0 EXCEPT !.g = g]
           v == <<g, s.secret>>
           u0 == [t EXCEPT !.q = v]
           u == [u0 EXCEPT !.qab = <<v, m.q>>]
<1>1. Step3(s, m) = IF m.q[1] = {} THEN s ELSE IF m.q[1] = g THEN u ELSE t
  BY DEF Step3
<1>2. s.x \in Nat /\ s.secret \in Secret
  BY DEF States
<1>3. g \in SUBSET Nat /\ g = Two(s.x, m.x) /\ g # {}
  BY <1>2 DEF Two
<1> HIDE DEF g
<1>4. v \in Values /\ v = Made(g, s.secret)
  BY <1>2, <1>3 DEF Values, Made
<1> HIDE DEF v
<1>5. t0 \in States /\ t0.x = s.x /\ t0.secret = s.secret /\ t0.g3o = m.x
  BY DEF States
<1> HIDE DEF t0
<1>6. t \in States /\ t.x = t0.x /\ t.secret = t0.secret /\ t.g3o = t0.g3o /\ t.g = g
  BY <1>3, <1>5 DEF States
<1> HIDE DEF t
<1>7. /\ u0 \in States /\ u0.x = t.x /\ u0.secret = t.secret /\ u0.g3o = t.g3o
      /\ u0.g = t.g /\ u0.q = v
  BY <1>4, <1>6 DEF States
<1> HIDE DEF u0
<1>8. /\ u \in States /\ u.x = u0.x /\ u.secret = u0.secret /\ u.g3o = u0.g3o
      /\ u.g = u0.g /\ u.q = u0.q /\ u.qab = <<v, m.q>>
  BY <1>4, <1>7 DEF States
<1>9. u.qab[1] = v /\ u.qab[2] = m.q
  BY <1>8
<1> HIDE DEF u
<1>10. CASE m.q[1] = g
  BY <1>1, <1>3, <1>4, <1>5, <1>6, <1>7, <1>8, <1>9, <1>10
<1>11. CASE m.q[1] # g /\ m.q[1] # {}
  BY <1>1, <1>3, <1>5, <1>6, <1>11
<1>12. CASE m.q[1] = {}
  BY <1>1, <1>3, <1>12
<1> QED
  BY <1>10, <1>11, <1>12

LEMMA StateOfStep4 ==
  ASSUME NEW s \in States, NEW m, m.q \in Values
  PROVE  LET s2 == Step4(s, m)
         IN  /\ s2 \in States /\ s2.x = s.x /\ s2.g3o = s.g3o /\ s2.g = s.g
             /\ s2.received_question = s.received_question
             /\ m.q[1] = s.g => s2.qab[1] = m.q /\ s2.qab[2] = s.q
<1> DEFINE v == <<m.q, s.q>>
           u == [s EXCEPT !.qab = v]
<1>1. Step4(s, m) = IF m.q[1] = s.g THEN u ELSE s
  BY DEF Step4
<1>2. v \in Values \X Values /\ v[1] = m.q /\ v[2] = s.q
  BY DEF States
<1> HIDE DEF v
<1>3. /\ u \in States /\ u.x = s.x /\ u.g3o = s.g3o /\ u.g = s.g /\ u.qab = v
      /\ u.received_question = s.received_question
  BY <1>2 DEF States
<1> HIDE DEF u
<1> QED
  BY <1>1, <1>2, <1>3
-----------------------------------------------------------------------------
(* What the actions share.                                                  *)

LEMMA BothRuns ==
  ASSUME NEW p \in Peers, NEW queues, NEW states, NEW asking, NEW logs, NEW n, NEW o,
         Run(p, queues[p], queues[Other(p)], states[p], states[Other(p)], asking[p],
             asking[Other(p)], logs[p], logs[Other(p)], n, o)
  PROVE  \A r \in Peers :
           Run(r, queues[r], queues[Other(r)], states[r], states[Other(r)], asking[r],
               asking[Other(r)], logs[r], logs[Other(r)], n, o)
<1>1. Other(Other(p)) = p /\ Peers = {p, Other(p)}
  BY EndsFacts
<1> DEFINE q == Other(p)
<1>2. Run(q, queues[q], queues[p], states[q], states[p], asking[q], asking[p], logs[q],
          logs[p], n, o)
  BY RunIsSymmetric
<1> QED
  BY <1>1, <1>2

\* The two ends of a run as the variables have them.
LEMMA InvFacts ==
  ASSUME IInv, NEW p \in Peers
  PROVE  /\ TypeInv
         /\ LogInv(entered[p], p, sessions) /\ LogInv(entered[Other(p)], Other(p), sessions)
         /\ net[p] \in Seq(Messages) /\ net[Other(p)] \in Seq(Messages)
         /\ smstate[p] \in States /\ smstate[Other(p)] \in States
         /\ asked[p] \in BOOLEAN /\ asked[Other(p)] \in BOOLEAN
         /\ entered[p] \in Seq(Entries) /\ entered[Other(p)] \in Seq(Entries)
         /\ exponents \in Nat /\ privkey[p] \in Keys
         /\ session[p] \in Nat /\ session[p] \in 1 .. Len(sessions)
         /\ Active(p) \in Keys /\ Active(p) = sessions[session[p]][Other(p)]
         /\ Other(p) \in Peers /\ Other(p) # p /\ Other(Other(p)) = p
         /\ Peers = {p, Other(p)}
<1>1. /\ Other(p) \in Peers /\ Other(p) # p /\ Other(Other(p)) = p
      /\ Peers = {p, Other(p)}
  BY EndsFacts
<1>2. TypeInv /\ \A r \in Peers : LogInv(entered[r], r, sessions)
  BY DEF IInv
<1>3. session[p] \in Nat /\ session[p] \in 1 .. Len(sessions)
  BY <1>2 DEF TypeInv
<1>4. sessions[session[p]] \in [Peers -> Keys]
  <2>1. sessions \in Seq([Peers -> Keys])
    BY <1>2 DEF TypeInv
  <2> QED
    BY <1>3, <2>1, ElementOfSeq
<1>5. Active(p) \in Keys /\ Active(p) = sessions[session[p]][Other(p)]
  BY <1>1, <1>4 DEF Active
<1> QED
  BY <1>1, <1>2, <1>3, <1>5 DEF TypeInv

LEMMA MessagesMade ==
  ASSUME NEW e \in Nat, NEW x \in Nat, NEW question \in BOOLEAN, NEW q \in Values,
         NEW qab \in Values \X Values
  PROVE  /\ Message("SMP1", e, [x |-> x, question |-> question]) \in Messages
         /\ Message("SMP2", e, [x |-> x, q |-> q]) \in Messages
         /\ Message("SMP3", e, [x |-> x, q |-> q, qab |-> qab]) \in Messages
         /\ Message("SMP4", e, [x |-> x, qab |-> qab]) \in Messages
         /\ Message("ABORT", e, <<>>) \in Messages
         /\ Message("DISCONNECTED", e, <<>>) \in Messages
<1>1. Message("SMP1", e, [x |-> x, question |-> question]) \in Messages
  BY DEF Message, Messages
<1>2. Message("SMP2", e, [x |-> x, q |-> q]) \in Messages
  BY DEF Message, Messages
<1>3. Message("SMP3", e, [x |-> x, q |-> q, qab |-> qab]) \in Messages
  BY DEF Message, Messages
<1>4. Message("SMP4", e, [x |-> x, qab |-> qab]) \in Messages
  BY DEF Message, Messages
<1>5. Message("ABORT", e, <<>>) \in Messages /\ Message("DISCONNECTED", e, <<>>) \in Messages
  BY DEF Message, Messages
<1> QED
  BY <1>1, <1>2, <1>3, <1>4, <1>5

\* p sends a message that belongs to no run, if its conversation is private.
LEMMA RunSends ==
  ASSUME NEW p \in Peers, session[p] \in Nat, NEW type \in {"ABORT", "DISCONNECTED"},
         NEW in, NEW out \in Seq(Messages), NEW s, NEW t, NEW a, NEW b,
         NEW mine, NEW theirs, NEW n \in Nat, NEW o,
         Run(p, in, out, s, t, a, b, mine, theirs, n, o)
  PROVE  LET more == out \o Sent(p, type, <<>>)
         IN  more \in Seq(Messages) /\ Run(p, in, more, s, t, a, b, mine, theirs, n, o)
<1> DEFINE w == Message(type, session[p], <<>>)
<1>1. w \in Messages
  BY MessagesMade DEF Message, Messages
<1>2. ~OfRun(w)
  BY DEF Message, OfRun
<1>3. Sent(p, type, <<>>) = IF private[p] THEN <<w>> ELSE <<>>
  BY DEF Sent
<1> HIDE DEF w
<1>4. /\ out \o <<>> = out /\ out \o <<w>> = Append(out, w)
      /\ Append(out, w) \in Seq(Messages)
  BY <1>1, QueueAdd
<1>5. Run(p, in, Append(out, w), s, t, a, b, mine, theirs, n, o)
  BY <1>1, <1>2, RunNotes
<1> QED
  BY <1>3, <1>4, <1>5

LEMMA RunObjects ==
  ASSUME NEW p \in Peers, session[p] \in Nat,
         NEW in, NEW out \in Seq(Messages), NEW s, NEW t, NEW a, NEW b,
         NEW mine, NEW theirs, NEW n \in Nat, NEW o,
         Run(p, in, out, s, t, a, b, mine, theirs, n, o)
  PROVE  LET more == out \o Objection(p)
         IN  more \in Seq(Messages) /\ Run(p, in, more, s, t, a, b, mine, theirs, n, o)
<1>1. out \o <<>> = out
  BY ConcatEmptySeq
<1>2. LET more == out \o Sent(p, "ABORT", <<>>)
      IN  more \in Seq(Messages) /\ Run(p, in, more, s, t, a, b, mine, theirs, n, o)
  BY RunSends
<1> QED
  BY <1>1, <1>2 DEF Objection

LEMMA Sending ==
  ASSUME net \in [Peers -> Seq(Messages)], NEW p \in Peers, NEW out, Send(p, out)
  PROVE  /\ net'[p] = net[p] /\ net'[Other(p)] = net[Other(p)] \o out
         /\ net[Other(p)] \o out \in Seq(Messages) => net' \in [Peers -> Seq(Messages)]
BY EndsFacts DEF Send

LEMMA Replying ==
  ASSUME net \in [Peers -> Seq(Messages)], NEW p \in Peers, NEW out, Reply(p, out),
         net[p] # <<>>
  PROVE  /\ net'[p] = Tail(net[p]) /\ net'[Other(p)] = net[Other(p)] \o out
         /\ net[Other(p)] \o out \in Seq(Messages) => net' \in [Peers -> Seq(Messages)]
<1>1. Other(p) \in Peers /\ Other(p) # p /\ Peers = {p, Other(p)}
  BY EndsFacts
<1>2. Tail(net[p]) \in Seq(Messages)
  BY QueueTail
<1>3. net'[p] = Tail(net[p]) /\ net'[Other(p)] = net[Other(p)] \o out
  BY <1>1 DEF Reply
<1>4. net' = [q \in Peers |-> net'[q]]
  BY DEF Reply
<1> QED
  BY <1>1, <1>2, <1>3, <1>4

LEMMA LogStays ==
  ASSUME NEW log, NEW p \in Peers, NEW es \in Seq([Peers -> Keys]),
         NEW new \in [Peers -> Keys], LogInv(log, p, es)
  PROVE  LogInv(log, p, Append(es, new))
<1>1. /\ Len(es) \in Nat /\ Len(Append(es, new)) = Len(es) + 1
      /\ \A i \in 1 .. Len(es) : Append(es, new)[i] = es[i]
  BY AppendProperties, LenProperties
<1> QED
  BY <1>1 DEF LogInv

\* p types the secret of a comparison.
LEMMA Typing ==
  ASSUME IInv, NEW p \in Peers, NEW asker \in Peers, NEW question \in BOOLEAN,
         NEW typed \in Secrets, Typed(p, asker, question, typed)
  PROVE  LET e == [session |-> session[p], asker |-> asker, question |-> question,
                   own |-> privkey[p], peer |-> Active(p), typed |-> typed]
         IN  /\ e \in Entries
             /\ entered' \in [Peers -> Seq(Entries)]
             /\ entered'[p] = Append(entered[p], e) /\ entered'[Other(p)] = entered[Other(p)]
             /\ LogInv(entered'[p], p, sessions)
<1> DEFINE e == [session |-> session[p], asker |-> asker, question |-> question,
                 own |-> privkey[p], peer |-> Active(p), typed |-> typed]
           log == entered[p]
<1>1. /\ TypeInv /\ LogInv(log, p, sessions) /\ log \in Seq(Entries)
      /\ privkey[p] \in Keys /\ Active(p) \in Keys /\ session[p] \in Nat
      /\ session[p] \in 1 .. Len(sessions) /\ Active(p) = sessions[session[p]][Other(p)]
      /\ Other(p) \in Peers /\ Other(p) # p
  BY InvFacts
<1>2. e \in Entries
  BY <1>1 DEF Entries
<1>3. e.session = session[p] /\ e.peer = Active(p)
  OBVIOUS
<1>4. entered' = [entered EXCEPT ![p] = Append(@, e)]
  BY DEF Typed
<1> HIDE DEF e
<1>5. entered \in [Peers -> Seq(Entries)]
  BY <1>1 DEF TypeInv
<1>6. /\ Append(log, e) \in Seq(Entries) /\ Len(log) \in Nat
      /\ Len(Append(log, e)) = Len(log) + 1
      /\ \A i \in 1 .. Len(log) : Append(log, e)[i] = log[i]
      /\ Append(log, e)[Len(log) + 1] = e
  BY <1>1, <1>2, AppendProperties, LenProperties
<1>7. /\ entered' \in [Peers -> Seq(Entries)]
      /\ entered'[p] = Append(log, e) /\ entered'[Other(p)] = entered[Other(p)]
  BY <1>1, <1>4, <1>5, <1>6
<1>8. LogInv(Append(log, e), p, sessions)
  BY <1>1, <1>3, <1>6, SMTT(20) DEF LogInv
<1> QED
  BY <1>2, <1>7, <1>8 DEF e

\* p changes nothing but its own state.
LEMMA InvAfter ==
  ASSUME TypeInv', NEW p \in Peers,
         LogInv(entered[p], p, sessions)', LogInv(entered[Other(p)], Other(p), sessions)',
         NEW o \in Ownerships,
         Run(p, net'[p], net'[Other(p)], smstate'[p], smstate'[Other(p)], asked'[p],
             asked'[Other(p)], entered'[p], entered'[Other(p)], exponents', o)
  PROVE  IInv'
<1>1. \A r \in Peers : LogInv(entered[r], r, sessions)'
  BY EndsFacts
<1>2. RunInv(o)'
  BY BothRuns DEF RunInv
<1> QED
  BY <1>1, <1>2 DEF IInv
-----------------------------------------------------------------------------
(* The invariant is kept by each action.                                    *)

LEMMA InitiateKeeps ==
  ASSUME IInv, NEW p \in Peers, NEW question \in Questions, NEW typed \in Secrets,
         Initiate(p, question, typed)
  PROVE  IInv'
<1> DEFINE q == Other(p)
           secret == Combined(privkey[p], Active(p), session[p], typed)
           s1 == Step1(smstate[p], secret, exponents + 1)
           s2 == [s1 EXCEPT !.nextExpected = 2]
           w == Message("SMP1", session[p], [x |-> exponents + 1, question |-> question])
           e == [session |-> session[p], asker |-> p, question |-> question,
                 own |-> privkey[p], peer |-> Active(p), typed |-> typed]
<1>1. /\ TypeInv /\ LogInv(entered[q], q, sessions)
      /\ net[p] \in Seq(Messages) /\ net[q] \in Seq(Messages)
      /\ smstate[p] \in States /\ asked[p] \in BOOLEAN /\ asked[q] \in BOOLEAN
      /\ entered[p] \in Seq(Entries) /\ entered[q] \in Seq(Entries)
      /\ exponents \in Nat /\ privkey[p] \in Keys /\ Active(p) \in Keys
      /\ session[p] \in Nat /\ q \in Peers /\ q # p
  BY InvFacts
<1>2. PICK o \in Ownerships : RunInv(o)
  BY DEF IInv
<1>3. PICK o2 \in Ownerships : o2[exponents + 1] = p /\ Agrees(o, o2, exponents)
  BY <1>1, Drawing
<1>4. question \in BOOLEAN
  BY QuestionsAreBoolean
<1>5. /\ exponents' = exponents + 1 /\ smstate' = [smstate EXCEPT ![p] = s2]
      /\ Send(p, <<w>>) /\ Typed(p, p, question, typed)
      /\ events' = events + 1 /\ events < MaxEvents /\ runs' = runs + 1
      /\ UNCHANGED <<privkey, sessions, session, private, asked, trusted, aborting>>
  BY DEF Initiate, Sent, Happens, unchangedKeys
<1>6. secret \in Secret
  BY <1>1 DEF Secret, Combined
<1>7. /\ e.asker = p /\ AskSecret(e) = secret
  BY DEF AskSecret, Combined
<1>8. w.type = "SMP1" /\ w.body.x = exponents + 1
  BY DEF Message
<1>9. w \in Messages
  BY <1>1, <1>4, MessagesMade DEF Message, Messages
<1> HIDE DEF secret
<1>10. exponents + 1 \in Nat /\ 2 \in 1 .. 4
  BY <1>1
<1>11. s1 \in States /\ s1.x = exponents + 1 /\ s1.secret = secret /\ s1.g3o = smstate[p].g3o
       /\ s1.g = smstate[p].g
  <2>1. smstate[p] \in States
    BY <1>1
  <2> QED
    BY ONLY <1>6, <1>10, <2>1, StateOfStep1
<1> HIDE DEF s1
<1>12. /\ s2 \in States /\ s2.nextExpected = 2 /\ s2.secret = secret
       /\ s2.x = exponents + 1 /\ s2.g3o = smstate[p].g3o /\ s2.g = smstate[p].g
  BY <1>11, <1>10, StateExpecting
<1>13. /\ e \in Entries /\ entered' \in [Peers -> Seq(Entries)]
       /\ entered'[p] = Append(entered[p], e) /\ entered'[q] = entered[q]
       /\ LogInv(entered'[p], p, sessions)
  BY <1>4, <1>5, Typing
<1> HIDE DEF s2, w, e
<1>14. net[q] \o <<w>> = Append(net[q], w) /\ Append(net[q], w) \in Seq(Messages)
  BY <1>1, <1>9, QueueAdd
<1>15. net'[p] = net[p] /\ net'[q] = Append(net[q], w) /\ net' \in [Peers -> Seq(Messages)]
  BY <1>1, <1>5, <1>14, Sending DEF TypeInv
<1>16. smstate'[p] = s2 /\ smstate'[q] = smstate[q] /\ smstate' \in [Peers -> States]
  BY <1>1, <1>5, <1>12 DEF TypeInv
<1>17. /\ events' \in 0 .. MaxEvents /\ \A r \in Peers : privkey'[r] <= events' + 1
       /\ runs' \in Nat /\ exponents' \in Nat
  BY <1>1, <1>5, BoundsAreNat, SMTT(20) DEF TypeInv, Keys
<1>18. TypeInv'
  BY <1>1, <1>5, <1>13, <1>15, <1>16, <1>17 DEF TypeInv
<1>19. Run(p, net[p], net[q], smstate[p], smstate[q], asked[p], asked[q], entered[p],
           entered[q], exponents, o)
  BY <1>2 DEF RunInv
<1>20. Run(p, net[p], Append(net[q], w), s2, smstate[q], asked[p], asked[q],
           Append(entered[p], e), entered[q], exponents + 1, o2)
  <2>1. /\ s2.secret = AskSecret(e) /\ e.asker = p /\ s2.nextExpected = 2
        /\ s2.x = exponents + 1 /\ s2.g3o = smstate[p].g3o /\ s2.g = smstate[p].g
    BY <1>7, <1>12
  <2>2. /\ net[p] \in Seq(Messages) /\ net[q] \in Seq(Messages) /\ exponents \in Nat
        /\ asked[p] \in BOOLEAN /\ asked[q] \in BOOLEAN
        /\ entered[p] \in Seq(Entries) /\ entered[q] \in Seq(Entries)
    BY <1>1
  <2>3. /\ e \in Entries /\ w \in Messages
        /\ w.type = "SMP1" /\ w.body.x = exponents + 1
    BY <1>8, <1>9, <1>13
  <2> QED
    BY ONLY p \in Peers, o \in Ownerships, o2 \in Ownerships, <1>3, <1>19, <2>1, <2>2, <2>3,
       RunInitiates, SMTT(20)
<1> QED
  BY <1>1, <1>5, <1>13, <1>15, <1>16, <1>18, <1>20, InvAfter, ZenonT(40)

\* p answers with the values it has, while nothing is on the way that answers them.
LEMMA AnswerKeeps ==
  ASSUME IInv, NEW p \in Peers, NEW typed \in Secrets, Answer(p, typed), private[p],
         asked' = [asked EXCEPT ![p] = FALSE], UNCHANGED private, smstate[p].x # 0,
         NEW o \in Ownerships, RunInv(o),
         AskedInv(p, Elements(net[p]), Elements(net[Other(p)]), smstate[p], TRUE, o)
  PROVE  IInv'
<1> DEFINE q == Other(p)
           s == smstate[p]
           secret == Combined(Active(p), privkey[p], session[p], typed)
           s1 == Step2b(s, secret)
           s2 == [s1 EXCEPT !.nextExpected = 3]
           w == Message("SMP2", session[p], [x |-> s1.x, q |-> s1.q])
           e == [session |-> session[p], asker |-> q, question |-> s.received_question,
                 own |-> privkey[p], peer |-> Active(p), typed |-> typed]
<1>1. /\ TypeInv /\ LogInv(entered[q], q, sessions)
      /\ net[p] \in Seq(Messages) /\ net[q] \in Seq(Messages)
      /\ s \in States /\ asked[p] \in BOOLEAN /\ asked[q] \in BOOLEAN
      /\ entered[p] \in Seq(Entries) /\ entered[q] \in Seq(Entries)
      /\ exponents \in Nat /\ privkey[p] \in Keys /\ Active(p) \in Keys
      /\ session[p] \in Nat /\ q \in Peers /\ q # p
  BY InvFacts
<1>2. /\ s.x # 0
      /\ AskedInv(p, Elements(net[p]), Elements(net[q]), s, TRUE, o)
  OBVIOUS
<1>3. /\ asked' = [asked EXCEPT ![p] = FALSE]
      /\ smstate' = [smstate EXCEPT ![p] = s2]
      /\ Send(p, <<w>>) /\ Typed(p, q, s.received_question, typed)
      /\ UNCHANGED <<privkey, sessions, session, private, trusted, exponents, runs, events,
                     aborting>>
  BY DEF Answer, Sent, unchangedKeys, unchangedBounds
<1>4. secret \in Secret /\ s.received_question \in BOOLEAN /\ 3 \in 1 .. 4
  BY <1>1 DEF Secret, Combined, States
<1>5. e.asker = q /\ e.question = s.received_question /\ AnswerSecret(e) = secret
      /\ e.session = session[p]
  BY DEF AnswerSecret, Combined
<1> HIDE DEF secret
<1>6. /\ s1 \in States /\ s1.x = s.x /\ s1.g3o = s.g3o /\ s1.g = s.g
      /\ s1.received_question = s.received_question
      /\ s1.secret = secret /\ s1.q = <<s.g, secret>>
  BY <1>1, <1>4, StateOfStep2b
<1> HIDE DEF s1
<1>7. /\ s2 \in States /\ s2.nextExpected = 3 /\ s2.secret = s1.secret
      /\ s2.x = s1.x /\ s2.g3o = s1.g3o /\ s2.g = s1.g /\ s2.q = s1.q
      /\ s2.received_question = s1.received_question
  <2>1. s1 \in States /\ 3 \in 1 .. 4
    BY <1>4, <1>6
  <2> QED
    BY ONLY <2>1, StateExpecting
<1>8. w.type = "SMP2" /\ w.body.x = s1.x /\ w.body.q = s1.q /\ w.session = session[p]
  BY DEF Message
<1>9. w \in Messages
  <2>1. session[p] \in Nat /\ s1.x \in Nat /\ s1.q \in Values
    BY <1>1, <1>6 DEF States
  <2> QED
    BY <2>1 DEF Message, Messages
<1>10. /\ e \in Entries /\ entered' \in [Peers -> Seq(Entries)]
       /\ entered'[p] = Append(entered[p], e) /\ entered'[q] = entered[q]
       /\ LogInv(entered'[p], p, sessions)
  BY <1>1, <1>3, <1>4, Typing
<1> HIDE DEF s2, w, e, s
<1>11. net[q] \o <<w>> = Append(net[q], w) /\ Append(net[q], w) \in Seq(Messages)
  BY <1>1, <1>9, QueueAdd
<1>12. net'[p] = net[p] /\ net'[q] = Append(net[q], w) /\ net' \in [Peers -> Seq(Messages)]
  <2>1. net \in [Peers -> Seq(Messages)] /\ Send(p, <<w>>)
    BY <1>1, <1>3 DEF TypeInv
  <2> QED
    BY ONLY p \in Peers, <1>11, <2>1, Sending
<1>13. smstate'[p] = s2 /\ smstate'[q] = smstate[q] /\ smstate' \in [Peers -> States]
  BY <1>1, <1>3, <1>7 DEF TypeInv
<1>14. asked'[p] = FALSE /\ asked'[q] = asked[q] /\ asked' \in [Peers -> BOOLEAN]
  BY <1>1, <1>3 DEF TypeInv
<1>15. TypeInv'
  BY <1>1, <1>3, <1>10, <1>12, <1>13, <1>14 DEF TypeInv
<1>16. Run(p, net[p], net[q], s, smstate[q], asked[p], asked[q], entered[p],
           entered[q], exponents, o)
  BY DEF RunInv, s
<1>17. Run(p, net[p], Append(net[q], w), s2, smstate[q], FALSE, asked[q],
           Append(entered[p], e), entered[q], exponents, o)
  <2>2. s2.secret = AnswerSecret(e) /\ s2.q = Made(s.g, AnswerSecret(e))
    BY <1>5, <1>6, <1>7 DEF Made
  <2>3. /\ s2.x = s.x /\ s2.g3o = s.g3o /\ s2.g = s.g
        /\ s2.received_question = s.received_question
        /\ w.body.x = s.x /\ w.body.q = s2.q /\ w.session = e.session
    BY <1>5, <1>6, <1>7, <1>8
  <2>4. /\ p \in Peers /\ net[p] \in Seq(Messages) /\ net[q] \in Seq(Messages)
        /\ asked[p] \in BOOLEAN /\ asked[q] \in BOOLEAN
        /\ entered[p] \in Seq(Entries) /\ entered[q] \in Seq(Entries)
        /\ exponents \in Nat /\ o \in Ownerships
    BY <1>1
  <2>5. e \in Entries /\ w \in Messages
    BY <1>9, <1>10
  <2>6. Answers(p, s, s2, e, w)
    BY <1>5, <1>7, <1>8, <2>2, <2>3 DEF Answers
  <2> QED
    <3>1. ASSUME NEW a \in BOOLEAN, NEW b \in BOOLEAN,
                 Run(p, net[p], net[q], s, smstate[q], a, b, entered[p], entered[q],
                     exponents, o)
          PROVE  Run(p, net[p], Append(net[q], w), s2, smstate[q], FALSE, b,
                     Append(entered[p], e), entered[q], exponents, o)
      <4>1. /\ net[p] \in Seq(Messages) /\ net[Other(p)] \in Seq(Messages)
            /\ entered[p] \in Seq(Entries) /\ entered[Other(p)] \in Seq(Entries)
            /\ exponents \in Nat
        BY <2>4
      <4>2. p \in Peers /\ o \in Ownerships
        BY <2>4
      <4> QED
        BY ONLY <1>2, <4>1, <4>2, <2>5, <2>6, <3>1, RunResponds, ZenonT(40)
    <3>2. asked[p] \in BOOLEAN /\ asked[q] \in BOOLEAN
      BY <2>4
    <3> QED
      BY ONLY <1>16, <3>1, <3>2, Zenon
<1>18. /\ LogInv(entered[p], p, sessions)' /\ LogInv(entered[q], q, sessions)'
       /\ exponents' = exponents
  BY <1>1, <1>3, <1>10
<1>19. Run(p, net'[p], net'[q], smstate'[p], smstate'[q], asked'[p], asked'[q],
           entered'[p], entered'[q], exponents', o)
  BY <1>10, <1>12, <1>13, <1>14, <1>17, <1>18
<1> QED
  BY <1>15, <1>18, <1>19, InvAfter

LEMMA RespondKeeps ==
  ASSUME IInv, NEW p \in Peers, NEW typed \in Secrets, Respond(p, typed)
  PROVE  IInv'
<1>1. PICK o \in Ownerships : RunInv(o)
  BY DEF IInv
<1>2. Run(p, net[p], net[Other(p)], smstate[p], smstate[Other(p)], asked[p],
          asked[Other(p)], entered[p], entered[Other(p)], exponents, o)
  BY <1>1 DEF RunInv
<1>3. /\ asked[p] /\ private[p] /\ asked' = [asked EXCEPT ![p] = FALSE]
      /\ Answer(p, typed) /\ UNCHANGED private
  BY DEF Respond, Answer, unchangedKeys
<1>4. smstate[p].x # 0
  BY <1>2, <1>3 DEF Run, Ends, StateInv
<1>5. AskedInv(p, Elements(net[p]), Elements(net[Other(p)]), smstate[p], TRUE, o)
  BY <1>2, <1>3 DEF Run, Ends, View, AskedInv
<1> QED
  BY <1>1, <1>3, <1>4, <1>5, AnswerKeeps

LEMMA RespondLateKeeps ==
  ASSUME IInv, LateInv, NEW p \in Peers, NEW typed \in Secrets, RespondLate(p, typed)
  PROVE  IInv'
<1>1. PICK o \in Ownerships : RunInv(o)
  BY DEF IInv
<1>2. /\ left[p] /\ private[p] /\ smstate[p].x # 0 /\ UNCHANGED asked
      /\ Answer(p, typed) /\ UNCHANGED private
  BY DEF RespondLate, Answer, unchangedKeys, NULL
<1>3. /\ asked \in [Peers -> BOOLEAN] /\ ~asked[p]
      /\ Spent(Elements(net[p]), Elements(net[Other(p)]), smstate[p], smstate[Other(p)].x)
  BY <1>2 DEF IInv, TypeInv, LateInv, LeftInv, Hopeless
<1>4. asked' = [asked EXCEPT ![p] = FALSE]
  BY <1>2, <1>3
<1>5. AskedInv(p, Elements(net[p]), Elements(net[Other(p)]), smstate[p], TRUE, o)
  BY <1>3 DEF Spent, AskedInv
<1> QED
  BY <1>1, <1>2, <1>4, <1>5, AnswerKeeps

LEMMA AbortKeeps ==
  ASSUME IInv, NEW p \in Peers, Abort(p)
  PROVE  IInv'
<1> DEFINE q == Other(p)
           s2 == [smstate[p] EXCEPT !.nextExpected = 1]
           more == net[q] \o Sent(p, "ABORT", <<>>)
<1>1. /\ TypeInv /\ LogInv(entered[p], p, sessions) /\ LogInv(entered[q], q, sessions)
      /\ net[p] \in Seq(Messages) /\ net[q] \in Seq(Messages)
      /\ smstate[p] \in States /\ asked[p] \in BOOLEAN /\ asked[q] \in BOOLEAN
      /\ exponents \in Nat /\ session[p] \in Nat /\ q \in Peers /\ q # p
  BY InvFacts
<1>2. PICK o \in Ownerships : RunInv(o)
  BY DEF IInv
<1>3. Run(p, net[p], net[q], smstate[p], smstate[q], asked[p], asked[q], entered[p],
          entered[q], exponents, o)
  BY <1>2 DEF RunInv
<1>4. /\ asked' = [asked EXCEPT ![p] = FALSE] /\ smstate' = [smstate EXCEPT ![p] = s2]
      /\ Send(p, Sent(p, "ABORT", <<>>))
      /\ events' = events + 1 /\ events < MaxEvents
      /\ UNCHANGED <<privkey, sessions, session, private, trusted, exponents, runs,
                     aborting, entered>>
  BY DEF Abort, Happens, unchangedKeys
<1>5. /\ s2 \in States /\ s2.nextExpected = 1
      /\ s2.x = smstate[p].x /\ s2.g3o = smstate[p].g3o /\ s2.g = smstate[p].g
  <2>1. smstate[p] \in States /\ 1 \in 1 .. 4
    BY <1>1
  <2> QED
    BY ONLY <2>1, StateExpecting
<1> HIDE DEF s2
<1>6. more \in Seq(Messages) /\ Run(p, net[p], more, smstate[p], smstate[q], asked[p],
                                    asked[q], entered[p], entered[q], exponents, o)
  BY <1>1, <1>3, RunSends
<1> HIDE DEF more
<1>7. net'[p] = net[p] /\ net'[q] = more /\ net' \in [Peers -> Seq(Messages)]
  BY <1>1, <1>4, <1>6, Sending DEF TypeInv, more
<1>8. smstate'[p] = s2 /\ smstate'[q] = smstate[q] /\ smstate' \in [Peers -> States]
  BY <1>1, <1>4, <1>5 DEF TypeInv
<1>9. asked'[p] = FALSE /\ asked'[q] = asked[q] /\ asked' \in [Peers -> BOOLEAN]
  BY <1>1, <1>4 DEF TypeInv
<1>10. events' \in 0 .. MaxEvents /\ \A r \in Peers : privkey'[r] <= events' + 1
  BY <1>1, <1>4, BoundsAreNat DEF TypeInv, Keys
<1>11. TypeInv'
  BY <1>1, <1>4, <1>7, <1>8, <1>9, <1>10 DEF TypeInv
<1>12. Run(p, net[p], more, s2, smstate[q], FALSE, asked[q], entered[p], entered[q],
           exponents, o)
  BY <1>1, <1>5, <1>6, RunRests
<1> QED
  BY <1>1, <1>4, <1>7, <1>8, <1>9, <1>11, <1>12, InvAfter

LEMMA LoseKeeps ==
  ASSUME IInv, NEW p \in Peers, Lose(p)
  PROVE  IInv'
<1> DEFINE q == Other(p)
<1>1. /\ TypeInv /\ LogInv(entered[p], p, sessions) /\ LogInv(entered[q], q, sessions)
      /\ net[p] \in Seq(Messages) /\ net[q] \in Seq(Messages)
      /\ exponents \in Nat
  BY InvFacts
<1>2. PICK o \in Ownerships : RunInv(o)
  BY DEF IInv
<1>3. Run(p, net[p], net[q], smstate[p], smstate[q], asked[p], asked[q], entered[p],
          entered[q], exponents, o)
  BY <1>2 DEF RunInv
<1>4. /\ net[p] # <<>> /\ Reply(p, <<>>)
      /\ UNCHANGED <<privkey, sessions, session, private, smstate, asked, trusted, exponents,
                     runs, events, aborting, entered>>
  BY DEF Lose, unchangedKeys, unchangedBounds
<1>5. net[q] \o <<>> = net[q]
  BY <1>1, ConcatEmptySeq
<1>6. net'[p] = Tail(net[p]) /\ net'[q] = net[q] /\ net' \in [Peers -> Seq(Messages)]
  BY <1>1, <1>4, <1>5, Replying DEF TypeInv
<1>7. TypeInv'
  BY <1>1, <1>4, <1>6 DEF TypeInv
<1>8. Run(p, Tail(net[p]), net[q], smstate[p], smstate[q], asked[p], asked[q], entered[p],
          entered[q], exponents, o)
  BY <1>1, <1>3, <1>4, RunDrops
<1> QED
  BY <1>1, <1>4, <1>6, <1>7, <1>8, InvAfter

LEMMA GoEncryptedKeeps ==
  ASSUME IInv, NEW p \in Peers, GoEncrypted(p)
  PROVE  IInv'
<1> DEFINE es == sessions
<1>1. TypeInv /\ p \in Peers
  BY DEF IInv
<1>2. /\ UNCHANGED <<privkey, smstate, asked, trusted, net, exponents, runs, aborting, entered>>
      /\ session' = [session EXCEPT ![p] = Len(sessions')]
      /\ private' = [private EXCEPT ![p] = TRUE]
      /\ \/ events < MaxEvents /\ events' = events + 1 /\ sessions' = Append(sessions, privkey)
         \/ UNCHANGED <<sessions, events>> /\ session[p] < Len(sessions)
  BY DEF GoEncrypted, Happens
<1>3. /\ es \in Seq([Peers -> Keys]) /\ privkey \in [Peers -> Keys]
      /\ session \in [Peers -> Nat] /\ \A r \in Peers : session[r] \in 1 .. Len(es)
      /\ Len(es) \in Nat
  BY <1>1, LenProperties DEF TypeInv
<1>4. /\ Append(es, privkey) \in Seq([Peers -> Keys])
      /\ Len(Append(es, privkey)) = Len(es) + 1
  BY <1>3, AppendProperties
<1>5. /\ sessions' \in Seq([Peers -> Keys]) /\ Len(sessions') \in Nat
      /\ Len(es) <= Len(sessions') /\ 1 <= Len(sessions')
  <2>1. sessions' = es \/ sessions' = Append(es, privkey)
    BY <1>2
  <2>2. Len(es) \in Nat /\ 1 <= Len(es)
    BY <1>3
  <2> HIDE DEF es
  <2>3. CASE sessions' = es
    BY <1>3, <2>2, <2>3
  <2>4. CASE sessions' = Append(es, privkey)
    BY <1>4, <2>2, <2>4
  <2> QED
    BY <2>1, <2>3, <2>4
<1>6. session' \in [Peers -> Nat] /\ \A r \in Peers : session'[r] \in 1 .. Len(sessions')
  BY <1>2, <1>3, <1>5
<1>7. events' \in 0 .. MaxEvents /\ \A r \in Peers : privkey'[r] <= events' + 1
  <2>1. /\ privkey \in [Peers -> Keys] /\ \A r \in Peers : privkey[r] <= events + 1
        /\ events \in 0 .. MaxEvents /\ MaxEvents \in Nat
    BY <1>1, BoundsAreNat DEF TypeInv
  <2>2. privkey' = privkey /\ (events' = events \/ (events < MaxEvents /\ events' = events + 1))
    BY <1>2
  <2> QED
    BY <2>1, <2>2 DEF Keys
<1>8. TypeInv'
  BY <1>1, <1>2, <1>5, <1>6, <1>7 DEF TypeInv
<1>9. ASSUME NEW r \in Peers PROVE LogInv(entered[r], r, sessions)'
  <2>1. LogInv(entered[r], r, es)
    BY DEF IInv
  <2>2. LogInv(entered[r], r, Append(es, privkey))
    BY <1>3, <2>1, LogStays
  <2> QED
    BY <1>2, <2>1, <2>2
<1>10. PICK o \in Ownerships : RunInv(o)
  BY DEF IInv
<1>11. RunInv(o)'
  BY <1>2, <1>10 DEF RunInv
<1> QED
  BY <1>8, <1>9, <1>11 DEF IInv

\* The end of p's conversation, by its user, by the other, or by its going.
LEMMA Finishing ==
  ASSUME IInv, NEW p \in Peers, private' = [private EXCEPT ![p] = FALSE],
         smstate' = [smstate EXCEPT ![p] = Fresh], asked' = [asked EXCEPT ![p] = FALSE]
  PROVE  /\ private' \in [Peers -> BOOLEAN]
         /\ smstate' \in [Peers -> States] /\ smstate'[p] = Fresh
         /\ smstate'[Other(p)] = smstate[Other(p)]
         /\ asked' \in [Peers -> BOOLEAN] /\ asked'[p] = FALSE
         /\ asked'[Other(p)] = asked[Other(p)]
<1>1. /\ private \in [Peers -> BOOLEAN] /\ smstate \in [Peers -> States]
      /\ asked \in [Peers -> BOOLEAN] /\ Other(p) \in Peers /\ Other(p) # p
  BY EndsFacts DEF IInv, TypeInv
<1>2. Fresh \in States
  BY FreshIsAState
<1>3. private' \in [Peers -> BOOLEAN]
  BY <1>1
<1>4. /\ smstate' \in [Peers -> States] /\ smstate'[p] = Fresh
      /\ smstate'[Other(p)] = smstate[Other(p)]
  BY <1>1, <1>2
<1>5. /\ asked' \in [Peers -> BOOLEAN] /\ asked'[p] = FALSE
      /\ asked'[Other(p)] = asked[Other(p)]
  BY <1>1
<1> QED
  BY <1>3, <1>4, <1>5

LEMMA DisconnectKeeps ==
  ASSUME IInv, NEW p \in Peers, Disconnect(p)
  PROVE  IInv'
<1> DEFINE q == Other(p)
           more == net[q] \o Sent(p, "DISCONNECTED", <<>>)
<1>1. /\ TypeInv /\ LogInv(entered[p], p, sessions) /\ LogInv(entered[q], q, sessions)
      /\ net[p] \in Seq(Messages) /\ net[q] \in Seq(Messages)
      /\ smstate[q] \in States /\ exponents \in Nat /\ session[p] \in Nat
  BY InvFacts
<1>2. PICK o \in Ownerships : RunInv(o)
  BY DEF IInv
<1>3. Run(p, net[p], net[q], smstate[p], smstate[q], asked[p], asked[q], entered[p],
          entered[q], exponents, o)
  BY <1>2 DEF RunInv
<1>4. /\ ForceFinished(p) /\ Send(p, Sent(p, "DISCONNECTED", <<>>))
      /\ events' = events + 1 /\ events < MaxEvents
      /\ UNCHANGED <<privkey, sessions, session, trusted, exponents, runs, aborting, entered>>
  BY DEF Disconnect, Happens
<1>5. /\ private' \in [Peers -> BOOLEAN]
      /\ smstate' \in [Peers -> States] /\ smstate'[p] = Fresh /\ smstate'[q] = smstate[q]
      /\ asked' \in [Peers -> BOOLEAN] /\ asked'[p] = FALSE /\ asked'[q] = asked[q]
  BY <1>4, Finishing DEF ForceFinished
<1>6. more \in Seq(Messages) /\ Run(p, net[p], more, smstate[p], smstate[q], asked[p],
                                    asked[q], entered[p], entered[q], exponents, o)
  BY <1>1, <1>3, RunSends
<1> HIDE DEF more
<1>7. net'[p] = net[p] /\ net'[q] = more /\ net' \in [Peers -> Seq(Messages)]
  BY <1>1, <1>4, <1>6, Sending DEF TypeInv, more
<1>8. events' \in 0 .. MaxEvents /\ \A r \in Peers : privkey'[r] <= events' + 1
  BY <1>1, <1>4, BoundsAreNat DEF TypeInv, Keys
<1>9. TypeInv'
  BY <1>1, <1>4, <1>5, <1>7, <1>8 DEF TypeInv
<1>10. Run(p, net[p], more, Fresh, smstate[q], FALSE, asked[q], entered[p], entered[q],
           exponents, o)
  BY <1>1, <1>6, RunForgets
<1> QED
  BY <1>1, <1>4, <1>5, <1>7, <1>9, <1>10, InvAfter

LEMMA RestartKeeps ==
  ASSUME IInv, NEW p \in Peers, Restart(p)
  PROVE  IInv'
<1> DEFINE q == Other(p)
<1>1. /\ TypeInv /\ LogInv(entered[p], p, sessions) /\ LogInv(entered[q], q, sessions)
      /\ smstate[q] \in States /\ exponents \in Nat /\ privkey[p] \in Keys
  BY InvFacts
<1>2. PICK o \in Ownerships : RunInv(o)
  BY DEF IInv
<1>3. Run(p, net[p], net[q], smstate[p], smstate[q], asked[p], asked[q], entered[p],
          entered[q], exponents, o)
  BY <1>2 DEF RunInv
<1>4. /\ private' = [private EXCEPT ![p] = FALSE] /\ smstate' = [smstate EXCEPT ![p] = Fresh]
      /\ asked' = [asked EXCEPT ![p] = FALSE]
      /\ privkey' = [privkey EXCEPT ![p] = privkey[p] + 1]
      /\ events' = events + 1 /\ events < MaxEvents
      /\ UNCHANGED <<sessions, session, trusted, net, exponents, runs, aborting, entered>>
  BY DEF Restart, Happens
<1>5. /\ private' \in [Peers -> BOOLEAN]
      /\ smstate' \in [Peers -> States] /\ smstate'[p] = Fresh /\ smstate'[q] = smstate[q]
      /\ asked' \in [Peers -> BOOLEAN] /\ asked'[p] = FALSE /\ asked'[q] = asked[q]
  BY <1>4, Finishing
<1>6. /\ privkey \in [Peers -> Keys] /\ \A r \in Peers : privkey[r] <= events + 1
      /\ events \in 0 .. MaxEvents
  BY <1>1 DEF TypeInv
<1>7. privkey[p] + 1 \in Keys /\ privkey[p] + 1 <= events' + 1
  BY <1>4, <1>6, BoundsAreNat DEF Keys
<1>8. /\ events' \in 0 .. MaxEvents /\ privkey' \in [Peers -> Keys]
      /\ \A r \in Peers : privkey'[r] <= events' + 1
  BY <1>4, <1>6, <1>7, BoundsAreNat DEF Keys
<1>9. TypeInv'
  BY <1>1, <1>4, <1>5, <1>8 DEF TypeInv
<1>10. Run(p, net[p], net[q], Fresh, smstate[q], FALSE, asked[q], entered[p], entered[q],
           exponents, o)
  BY <1>1, <1>3, RunForgets
<1> QED
  BY <1>1, <1>4, <1>5, <1>9, <1>10, InvAfter

LEMMA CrashKeeps ==
  ASSUME IInv, NEW p \in Peers, Crash(p)
  PROVE  IInv'
<1> DEFINE q == Other(p)
<1>1. /\ TypeInv /\ LogInv(entered[p], p, sessions) /\ LogInv(entered[q], q, sessions)
      /\ smstate[q] \in States /\ exponents \in Nat
  BY InvFacts
<1>2. PICK o \in Ownerships : RunInv(o)
  BY DEF IInv
<1>3. Run(p, net[p], net[q], smstate[p], smstate[q], asked[p], asked[q], entered[p],
          entered[q], exponents, o)
  BY <1>2 DEF RunInv
<1>4. /\ private' = [private EXCEPT ![p] = FALSE] /\ smstate' = [smstate EXCEPT ![p] = Fresh]
      /\ asked' = [asked EXCEPT ![p] = FALSE]
      /\ UNCHANGED <<privkey, sessions, session, trusted, net, exponents, runs, events,
                     aborting, entered>>
  BY DEF Crash, unchangedBounds
<1>5. /\ private' \in [Peers -> BOOLEAN]
      /\ smstate' \in [Peers -> States] /\ smstate'[p] = Fresh /\ smstate'[q] = smstate[q]
      /\ asked' \in [Peers -> BOOLEAN] /\ asked'[p] = FALSE /\ asked'[q] = asked[q]
  BY <1>4, Finishing
<1>6. TypeInv'
  BY <1>1, <1>4, <1>5 DEF TypeInv
<1>7. Run(p, net[p], net[q], Fresh, smstate[q], FALSE, asked[q], entered[p], entered[q],
          exponents, o)
  BY <1>1, <1>3, RunForgets
<1> QED
  BY <1>1, <1>4, <1>5, <1>6, <1>7, InvAfter
-----------------------------------------------------------------------------
(* A message is received.                                                   *)

\* p takes the message h; the rest is up to the message.
Arrives(p, h) ==
  /\ net[p] # <<>> /\ h = Head(net[p]) /\ private[p] /\ h.session = session[p]
  /\ UNCHANGED <<privkey, sessions, session, runs, events, aborting, entered>>

LEMMA Arriving ==
  ASSUME NEW p \in Peers, Receive(p)
  PROVE  LET h == Head(net[p])
         IN  /\ Arrives(p, h)
             /\ \/ h.type = "SMP1" /\ ReceiveSMP1(p, h.body) /\ UNCHANGED private
                \/ h.type = "SMP2" /\ ReceiveSMP2(p, h.body) /\ UNCHANGED private
                \/ h.type = "SMP3" /\ ReceiveSMP3(p, h.body) /\ UNCHANGED private
                \/ h.type = "SMP4" /\ ReceiveSMP4(p, h.body) /\ UNCHANGED private
                \/ h.type = "ABORT" /\ ReceiveAbort(p) /\ UNCHANGED private
                \/ h.type = "DISCONNECTED" /\ ReceiveDisconnected(p)
<1>1. Arrives(p, Head(net[p]))
  BY DEF Receive, Readable, Arrives, unchangedBounds
<1> QED
  BY <1>1, Zenon DEF Receive

\* What is known of the run in which it arrives.
LEMMA ArrivalFacts ==
  ASSUME IInv, NEW p \in Peers, NEW h, Arrives(p, h)
  PROVE  /\ h \in Messages /\ h \in Elements(net[p])
         /\ \E o \in Ownerships :
              /\ RunInv(o)
              /\ Run(p, net[p], net[Other(p)], smstate[p], smstate[Other(p)], asked[p],
                     asked[Other(p)], entered[p], entered[Other(p)], exponents, o)
              /\ Run(p, Tail(net[p]), net[Other(p)], smstate[p], smstate[Other(p)], asked[p],
                     asked[Other(p)], entered[p], entered[Other(p)], exponents, o)
<1>1. net[p] \in Seq(Messages) /\ exponents \in Nat
  BY InvFacts
<1>2. PICK o \in Ownerships : RunInv(o)
  BY DEF IInv
<1>3. Run(p, net[p], net[Other(p)], smstate[p], smstate[Other(p)], asked[p],
          asked[Other(p)], entered[p], entered[Other(p)], exponents, o)
  BY <1>2 DEF RunInv
<1>4. Run(p, Tail(net[p]), net[Other(p)], smstate[p], smstate[Other(p)], asked[p],
          asked[Other(p)], entered[p], entered[Other(p)], exponents, o)
  BY <1>1, <1>3, RunDrops DEF Arrives
<1>5. h \in Messages /\ h \in Elements(net[p])
  BY <1>1, QueueTail DEF Arrives
<1> QED
  BY <1>2, <1>3, <1>4, <1>5

LEMMA AfterReceiving ==
  ASSUME IInv, NEW p \in Peers, NEW h, Arrives(p, h),
         private' \in [Peers -> BOOLEAN], NEW s2 \in States,
         smstate' = [smstate EXCEPT ![p] = s2],
         asked' \in [Peers -> BOOLEAN], asked'[Other(p)] = asked[Other(p)],
         trusted' \in [Peers -> SUBSET Keys], exponents' \in Nat,
         NEW out, Reply(p, out), NEW more \in Seq(Messages), more = net[Other(p)] \o out,
         NEW o \in Ownerships,
         Run(p, Tail(net[p]), more, s2, smstate[Other(p)], asked'[p], asked[Other(p)],
             entered[p], entered[Other(p)], exponents', o)
  PROVE  IInv'
<1>1. /\ TypeInv /\ LogInv(entered[p], p, sessions)
      /\ LogInv(entered[Other(p)], Other(p), sessions)
      /\ Other(p) \in Peers /\ Other(p) # p
  BY InvFacts
<1>2. net'[p] = Tail(net[p]) /\ net'[Other(p)] = more /\ net' \in [Peers -> Seq(Messages)]
  BY <1>1, Replying DEF TypeInv, Arrives
<1>3. /\ smstate' \in [Peers -> States] /\ smstate'[p] = s2
      /\ smstate'[Other(p)] = smstate[Other(p)]
  BY <1>1 DEF TypeInv
<1>4. UNCHANGED <<privkey, sessions, session, runs, events, aborting, entered>>
  BY DEF Arrives
<1>5. TypeInv'
  BY <1>1, <1>2, <1>3, <1>4 DEF TypeInv
<1> QED
  BY <1>1, <1>2, <1>3, <1>4, <1>5, InvAfter, ZenonT(30)

LEMMA UnexpectedKeeps ==
  ASSUME IInv, NEW p \in Peers, NEW h, Arrives(p, h), Unexpected(p), UNCHANGED private
  PROVE  IInv'
<1> DEFINE q == Other(p)
           more == net[q] \o Objection(p)
           s2 == IF p \in aborting THEN [smstate[p] EXCEPT !.nextExpected = 1]
                 ELSE smstate[p]
<1>1. /\ TypeInv /\ net[q] \in Seq(Messages) /\ smstate[p] \in States
      /\ asked[p] \in BOOLEAN /\ exponents \in Nat /\ session[p] \in Nat
  BY InvFacts
<1>2. PICK o \in Ownerships :
        Run(p, Tail(net[p]), net[q], smstate[p], smstate[q], asked[p], asked[q], entered[p],
            entered[q], exponents, o)
  BY ArrivalFacts
<1>3. Reply(p, Objection(p)) /\ UNCHANGED <<private, asked, trusted, exponents>>
  BY DEF Unexpected
<1>4. smstate' = [smstate EXCEPT ![p] = s2]
  <2>1. smstate \in [Peers -> States]
    BY <1>1 DEF TypeInv
  <2>2. CASE p \in aborting
    BY <2>1, <2>2 DEF Unexpected
  <2>3. CASE p \notin aborting
    BY <2>1, <2>3 DEF Unexpected
  <2> QED
    BY <2>2, <2>3
<1>5. /\ s2 \in States /\ s2.x = smstate[p].x /\ s2.g3o = smstate[p].g3o
      /\ s2.g = smstate[p].g
      /\ (s2 = smstate[p] \/ s2.nextExpected = 1)
  <2>1. smstate[p] \in States /\ 1 \in 1 .. 4
    BY <1>1
  <2> QED
    BY <2>1, StateExpecting
<1> HIDE DEF s2
<1>6. Run(p, Tail(net[p]), net[q], s2, smstate[q], asked[p], asked[q], entered[p],
          entered[q], exponents, o)
  <2>1. CASE s2 = smstate[p]
    BY <1>2, <2>1
  <2>2. CASE s2.nextExpected = 1
    BY <1>1, <1>2, <1>5, <2>2, RunRests
  <2> QED
    BY <1>5, <2>1, <2>2
<1>7. more \in Seq(Messages) /\ Run(p, Tail(net[p]), more, s2, smstate[q], asked[p],
                                    asked[q], entered[p], entered[q], exponents, o)
  BY <1>1, <1>6, RunObjects
<1> HIDE DEF more
<1>8. /\ private' \in [Peers -> BOOLEAN] /\ asked' \in [Peers -> BOOLEAN]
      /\ asked'[p] = asked[p] /\ asked'[q] = asked[q]
      /\ trusted' \in [Peers -> SUBSET Keys] /\ exponents' \in Nat /\ exponents' = exponents
  BY <1>1, <1>3 DEF TypeInv
<1>9. more = net[q] \o Objection(p)
  BY DEF more
<1> QED
  BY <1>3, <1>4, <1>5, <1>7, <1>8, <1>9, AfterReceiving

LEMMA ReceiveAbortKeeps ==
  ASSUME IInv, NEW p \in Peers, NEW h, Arrives(p, h), ReceiveAbort(p), UNCHANGED private
  PROVE  IInv'
<1> DEFINE q == Other(p)
           s2 == [smstate[p] EXCEPT !.nextExpected = 1]
<1>1. /\ TypeInv /\ net[q] \in Seq(Messages) /\ smstate[p] \in States
      /\ asked[p] \in BOOLEAN /\ exponents \in Nat
  BY InvFacts
<1>2. PICK o \in Ownerships :
        Run(p, Tail(net[p]), net[q], smstate[p], smstate[q], asked[p], asked[q], entered[p],
            entered[q], exponents, o)
  BY ArrivalFacts
<1>3. /\ Reply(p, <<>>) /\ UNCHANGED <<private, asked, trusted, exponents>>
      /\ smstate' = [smstate EXCEPT ![p] = s2]
  BY DEF ReceiveAbort
<1>4. /\ s2 \in States /\ s2.nextExpected = 1 /\ s2.x = smstate[p].x
      /\ s2.g3o = smstate[p].g3o /\ s2.g = smstate[p].g
  <2>1. smstate[p] \in States /\ 1 \in 1 .. 4
    BY <1>1
  <2> QED
    BY ONLY <2>1, StateExpecting
<1> HIDE DEF s2
<1>5. Run(p, Tail(net[p]), net[q], s2, smstate[q], asked[p], asked[q], entered[p],
          entered[q], exponents, o)
  BY <1>1, <1>2, <1>4, RunRests
<1>6. net[q] = net[q] \o <<>>
  BY <1>1, ConcatEmptySeq
<1>7. /\ private' \in [Peers -> BOOLEAN] /\ asked' \in [Peers -> BOOLEAN]
      /\ asked'[p] = asked[p] /\ asked'[q] = asked[q]
      /\ trusted' \in [Peers -> SUBSET Keys] /\ exponents' \in Nat /\ exponents' = exponents
  BY <1>1, <1>3 DEF TypeInv
<1> QED
  BY <1>1, <1>3, <1>4, <1>5, <1>6, <1>7, AfterReceiving

LEMMA ReceiveDisconnectedKeeps ==
  ASSUME IInv, NEW p \in Peers, NEW h, Arrives(p, h), ReceiveDisconnected(p)
  PROVE  IInv'
<1> DEFINE q == Other(p)
<1>1. /\ TypeInv /\ net[q] \in Seq(Messages) /\ smstate[q] \in States /\ exponents \in Nat
  BY InvFacts
<1>2. PICK o \in Ownerships :
        Run(p, Tail(net[p]), net[q], smstate[p], smstate[q], asked[p], asked[q], entered[p],
            entered[q], exponents, o)
  BY ArrivalFacts
<1>3. /\ ForceFinished(p) /\ Reply(p, <<>>) /\ UNCHANGED <<trusted, exponents>>
      /\ smstate' = [smstate EXCEPT ![p] = Fresh]
  BY DEF ReceiveDisconnected, ForceFinished
<1>4. /\ private' \in [Peers -> BOOLEAN] /\ Fresh \in States
      /\ asked' \in [Peers -> BOOLEAN] /\ asked'[p] = FALSE /\ asked'[q] = asked[q]
  BY <1>3, Finishing, FreshIsAState DEF ForceFinished
<1>5. Run(p, Tail(net[p]), net[q], Fresh, smstate[q], FALSE, asked[q], entered[p],
          entered[q], exponents, o)
  BY <1>1, <1>2, RunForgets
<1>6. net[q] = net[q] \o <<>>
  BY <1>1, ConcatEmptySeq
<1>7. trusted' \in [Peers -> SUBSET Keys] /\ exponents' \in Nat /\ exponents' = exponents
  BY <1>1, <1>3 DEF TypeInv
<1> QED
  BY <1>1, <1>3, <1>4, <1>5, <1>6, <1>7, AfterReceiving

LEMMA ReceiveSMP1Keeps ==
  ASSUME IInv, NEW p \in Peers, NEW h, Arrives(p, h), h.type = "SMP1",
         ReceiveSMP1(p, h.body), UNCHANGED private
  PROVE  IInv'
<1> DEFINE q == Other(p)
           s2 == Step2a(smstate[p], h.body, exponents + 1)
<1>1. /\ TypeInv /\ net[p] \in Seq(Messages) /\ net[q] \in Seq(Messages)
      /\ smstate[p] \in States /\ asked[p] \in BOOLEAN /\ asked[q] \in BOOLEAN
      /\ entered[p] \in Seq(Entries) /\ entered[q] \in Seq(Entries)
      /\ exponents \in Nat /\ q \in Peers /\ q # p
  BY InvFacts
<1>2. h \in Messages /\ h.body.x \in Nat /\ h.body.question \in BOOLEAN
  BY ArrivalFacts, MessageShape
<1>3. CASE smstate[p].nextExpected # 1
  BY <1>3, UnexpectedKeeps DEF ReceiveSMP1
<1>4. CASE smstate[p].nextExpected = 1
  <2>0. PICK k \in Nat : k = exponents + 1
    BY <1>1
  <2>1. /\ exponents' = k /\ smstate' = [smstate EXCEPT ![p] = s2]
        /\ asked' = [asked EXCEPT ![p] = TRUE] /\ Reply(p, <<>>) /\ UNCHANGED trusted
    BY <1>4, <2>0 DEF ReceiveSMP1
  <2>2. PICK o \in Ownerships :
          Run(p, net[p], net[q], smstate[p], smstate[q], asked[p], asked[q], entered[p],
              entered[q], exponents, o)
    BY ArrivalFacts
  <2>3. PICK o2 \in Ownerships : o2[k] = p /\ Agrees(o, o2, exponents)
    BY <1>1, <2>0, Drawing
  <2>4. k \in Nat /\ smstate[p] \in States
    BY <1>1
  <2>5. /\ s2 \in States /\ s2.nextExpected = smstate[p].nextExpected
        /\ s2.x = k /\ s2.g3o = h.body.x /\ s2.g = Two(k, h.body.x)
    BY ONLY <1>2, <2>0, <2>4, StateOfStep2a
  <2> HIDE DEF s2
  <2>6. ASSUME NEW a \in BOOLEAN, NEW b \in BOOLEAN, NEW a2 \in BOOLEAN,
               Run(p, net[p], net[q], smstate[p], smstate[q], a, b, entered[p], entered[q],
                   exponents, o)
        PROVE  Run(p, Tail(net[p]), net[q], s2, smstate[q], a2, b, entered[p], entered[q],
                   k, o2)
    <3>1. net[p] # <<>> /\ h = Head(net[p])
      BY DEF Arrives
    <3>2. /\ net[p] \in Seq(Messages) /\ net[q] \in Seq(Messages)
          /\ entered[p] \in Seq(Entries) /\ entered[q] \in Seq(Entries) /\ exponents \in Nat
      BY <1>1
    <3>3. net[p] # <<>> /\ IsAsked(s2, Head(net[p]), k)
      BY <1>4, <2>5, <3>1 DEF IsAsked
    <3> QED
      BY ONLY p \in Peers, o \in Ownerships, o2 \in Ownerships, k \in Nat, <2>0,
         <3>2, <3>3, <2>3, <2>6, RunIsAsked
  <2>7. Run(p, Tail(net[p]), net[q], s2, smstate[q], asked'[p], asked[q], entered[p], entered[q],
            k, o2)
    <3>1. asked'[p] \in BOOLEAN /\ asked[p] \in BOOLEAN /\ asked[q] \in BOOLEAN
      BY <1>1, <2>1 DEF TypeInv
    <3> QED
      BY <2>2, <2>6, <3>1, Zenon
  <2>8. net[q] = net[q] \o <<>>
    BY <1>1, ConcatEmptySeq
  <2>9. /\ private' \in [Peers -> BOOLEAN] /\ asked' \in [Peers -> BOOLEAN]
        /\ asked'[q] = asked[q]
        /\ trusted' \in [Peers -> SUBSET Keys] /\ exponents' \in Nat
    BY <1>1, <2>1, <2>4 DEF TypeInv
  <2>10. Run(p, Tail(net[p]), net[q], s2, smstate[q], asked'[p], asked[q], entered[p],
             entered[q], exponents', o2)
    BY <2>1, <2>7
  <2> QED
    BY <1>1, <2>1, <2>5, <2>8, <2>9, <2>10, AfterReceiving
<1> QED
  BY <1>3, <1>4

LEMMA Trusting ==
  ASSUME IInv, NEW p \in Peers, NEW verdict, Trusted(p, verdict)
  PROVE  trusted' \in [Peers -> SUBSET Keys]
<1>1. trusted \in [Peers -> SUBSET Keys] /\ Active(p) \in Keys
  BY InvFacts DEF TypeInv
<1>2. \/ trusted' = [trusted EXCEPT ![p] = @ \cup {Active(p)}]
      \/ trusted' = [trusted EXCEPT ![p] = @ \ {Active(p)}]
  BY DEF Trusted
<1>3. trusted[p] \cup {Active(p)} \in SUBSET Keys /\ trusted[p] \ {Active(p)} \in SUBSET Keys
  BY <1>1
<1> QED
  BY <1>1, <1>2, <1>3

\* The proofs of knowledge of an SMP3 or SMP4 do not verify.
LEMMA CheatedKeeps ==
  ASSUME IInv, NEW p \in Peers, NEW h, Arrives(p, h), UNCHANGED private,
         trusted' \in [Peers -> SUBSET Keys], NEW s \in States, Cheated(p, s),
         s.x = smstate[p].x, s.g3o = smstate[p].g3o, s.g = smstate[p].g
  PROVE  IInv'
<1> DEFINE q == Other(p)
           more == net[q] \o Objection(p)
           s2 == [s EXCEPT !.nextExpected = 1]
<1>1. /\ TypeInv /\ net[q] \in Seq(Messages)
      /\ asked[p] \in BOOLEAN /\ exponents \in Nat /\ session[p] \in Nat
  BY InvFacts
<1>2. PICK o \in Ownerships :
        Run(p, Tail(net[p]), net[q], smstate[p], smstate[q], asked[p], asked[q], entered[p],
            entered[q], exponents, o)
  BY ArrivalFacts
<1>3. /\ Reply(p, Objection(p)) /\ UNCHANGED <<asked, exponents>>
      /\ smstate' = [smstate EXCEPT ![p] = s2]
  BY DEF Cheated
<1>4. /\ s2 \in States /\ s2.nextExpected = 1 /\ s2.x = smstate[p].x
      /\ s2.g3o = smstate[p].g3o /\ s2.g = smstate[p].g
  <2>1. 1 \in 1 .. 4
    OBVIOUS
  <2> QED
    BY <2>1, StateExpecting
<1> HIDE DEF s2
<1>5. Run(p, Tail(net[p]), net[q], s2, smstate[q], asked[p], asked[q], entered[p],
          entered[q], exponents, o)
  BY <1>1, <1>2, <1>4, RunRests
<1>6. more \in Seq(Messages) /\ Run(p, Tail(net[p]), more, s2, smstate[q], asked[p],
                                    asked[q], entered[p], entered[q], exponents, o)
  BY <1>1, <1>5, RunObjects
<1> HIDE DEF more
<1>7. /\ private' \in [Peers -> BOOLEAN] /\ asked' \in [Peers -> BOOLEAN]
      /\ asked'[p] = asked[p] /\ asked'[q] = asked[q]
      /\ exponents' \in Nat /\ exponents' = exponents
  BY <1>1, <1>3 DEF TypeInv
<1>8. more = net[q] \o Objection(p)
  BY DEF more
<1> QED
  BY <1>3, <1>4, <1>6, <1>7, <1>8, AfterReceiving

LEMMA ReceiveSMP2Keeps ==
  ASSUME IInv, LateInv, NEW p \in Peers, NEW h, Arrives(p, h), h.type = "SMP2",
         ReceiveSMP2(p, h.body), UNCHANGED private
  PROVE  IInv'
<1> DEFINE q == Other(p)  m == h.body
           s == Step3(smstate[p], m)
<1>1. /\ TypeInv /\ net[p] \in Seq(Messages) /\ net[q] \in Seq(Messages)
      /\ smstate[p] \in States /\ asked[p] \in BOOLEAN /\ asked[q] \in BOOLEAN
      /\ entered[p] \in Seq(Entries)
      /\ exponents \in Nat /\ session[p] \in Nat /\ q \in Peers /\ q # p
  BY InvFacts
<1>2. h \in Messages /\ m.x \in Nat /\ m.q \in Values
  BY ArrivalFacts, MessageShape
<1>3. PICK o \in Ownerships :
        Run(p, net[p], net[q], smstate[p], smstate[q], asked[p], asked[q], entered[p],
            entered[q], exponents, o)
  BY ArrivalFacts
<1>4. net[p] # <<>> /\ h = Head(net[p]) /\ private[p] /\ h.session = session[p]
  BY DEF Arrives
<1>5. /\ s \in States /\ s.x = smstate[p].x /\ s.secret = smstate[p].secret
      /\ m.q[1] = {} => s = smstate[p]
      /\ m.q[1] # {} => s.g3o = m.x /\ s.g = Two(smstate[p].x, m.x)
      /\ m.q[1] = Two(smstate[p].x, m.x) =>
           /\ s.q = Made(s.g, smstate[p].secret)
           /\ s.qab[1] = Made(s.g, smstate[p].secret) /\ s.qab[2] = m.q
  <2>1. smstate[p] \in States
    BY <1>1
  <2> QED
    BY ONLY <1>2, <2>1, StateOfStep3
<1>6. Step3Verifies(smstate[p], m) <=> m.q[1] = Two(smstate[p].x, m.x)
  BY DEF Step3Verifies, Two
<1>7. CASE smstate[p].nextExpected # 2
  BY <1>7, UnexpectedKeeps DEF ReceiveSMP2
<1>8. CASE smstate[p].nextExpected = 2 /\ Step3Verifies(smstate[p], m)
  <2> DEFINE s2 == [s EXCEPT !.nextExpected = 4]
             w == Message("SMP3", session[p], [x |-> s.x, q |-> s.q, qab |-> s.qab])
             more == Append(net[q], w)
  <2>0. m.q[1] = Two(smstate[p].x, m.x) /\ m.q[1] # {} /\ smstate[p].x \in Parts(h)
    BY <1>6, <1>8 DEF Two, Parts
  \* Had the other given an answer made of nothing, this message would not verify.
  <2>9. smstate[q].nextExpected = 3 => smstate[q].g # {}
    <3>1. h \in Elements(net[p]) /\ Other(q) = p
      BY ArrivalFacts, EndsFacts
    <3>2. ASSUME smstate[q].nextExpected = 3, smstate[q].g = {} PROVE FALSE
      <4>1. Spent(Elements(net[q]), Elements(net[p]), smstate[q], smstate[p].x)
        BY <1>1, <3>1, <3>2 DEF LateInv, LeftInv, Hopeless
      <4> QED
        BY <2>0, <3>1, <4>1 DEF Spent
    <3> QED
      BY <3>2
  <2>1. /\ smstate' = [smstate EXCEPT ![p] = s2] /\ Reply(p, <<w>>)
        /\ UNCHANGED <<asked, trusted, exponents>>
    BY <1>4, <1>8 DEF ReceiveSMP2, Sent
  <2>2. /\ s2 \in States /\ s2.nextExpected = 4 /\ s2.x = s.x /\ s2.g3o = s.g3o
        /\ s2.g = s.g /\ s2.secret = s.secret /\ s2.q = s.q /\ s2.qab = s.qab
    <3>1. s \in States /\ 4 \in 1 .. 4
      BY <1>5
    <3> QED
      BY ONLY <3>1, StateExpecting
  <2>3. /\ w.type = "SMP3" /\ w.session = session[p] /\ w.body.x = s.x /\ w.body.q = s.q
        /\ w.body.qab = s.qab
    BY DEF Message
  <2>4. w \in Messages
    <3>1. s.x \in Nat /\ s.q \in Values /\ s.qab \in Values \X Values
      BY <1>5 DEF States
    <3> QED
      BY <1>1, <3>1 DEF Message, Messages
  <2> HIDE DEF s2, w, s
  <2>5. net[q] \o <<w>> = more /\ more \in Seq(Messages)
    BY <1>1, <2>4, QueueAdd
  <2>6. ASSUME NEW a \in BOOLEAN, NEW b \in BOOLEAN,
               Run(p, net[p], net[q], smstate[p], smstate[q], a, b, entered[p],
                   entered[q], exponents, o)
        PROVE  Run(p, Tail(net[p]), more, s2, smstate[q], a, b, entered[p],
                   entered[q], exponents, o)
    <3>1. /\ net[p] \in Seq(Messages) /\ net[q] \in Seq(Messages)
          /\ entered[p] \in Seq(Entries) /\ exponents \in Nat /\ net[p] # <<>>
      BY <1>1, <1>4
    <3>2. Verifies3(smstate[p], s2, Head(net[p]), w)
      BY <1>4, <1>5, <1>6, <1>8, <2>0, <2>2, <2>3 DEF Verifies3
    <3> QED
      BY ONLY p \in Peers, o \in Ownerships, <2>4, <2>6, <2>9, <3>1, <3>2, RunStep3
  <2>7. Run(p, Tail(net[p]), more, s2, smstate[q], asked[p], asked[q], entered[p],
            entered[q], exponents, o)
    BY <1>1, <1>3, <2>6, Zenon
  <2> HIDE DEF more
  <2>8. /\ private' \in [Peers -> BOOLEAN] /\ asked' \in [Peers -> BOOLEAN]
        /\ asked'[p] = asked[p] /\ asked'[q] = asked[q]
        /\ trusted' \in [Peers -> SUBSET Keys] /\ exponents' \in Nat /\ exponents' = exponents
    BY <1>1, <2>1 DEF TypeInv
  <2> QED
    BY <2>1, <2>2, <2>5, <2>7, <2>8, AfterReceiving
<1>9. CASE smstate[p].nextExpected = 2 /\ ~Step3Verifies(smstate[p], m) /\ m.q[1] = {}
  <2>1. s = smstate[p] /\ Cheated(p, s) /\ UNCHANGED trusted
    BY <1>5, <1>9 DEF ReceiveSMP2
  <2>2. trusted' \in [Peers -> SUBSET Keys]
    BY <1>1, <2>1 DEF TypeInv
  <2> HIDE DEF s
  <2> QED
    BY <1>1, <2>1, <2>2, CheatedKeeps
<1>10. CASE smstate[p].nextExpected = 2 /\ ~Step3Verifies(smstate[p], m) /\ m.q[1] # {}
  <2> DEFINE s2 == [s EXCEPT !.nextExpected = 1]
             more == net[q] \o Objection(p)
  <2>1. /\ smstate' = [smstate EXCEPT ![p] = s2] /\ Reply(p, Objection(p))
        /\ UNCHANGED <<asked, trusted, exponents>>
    BY <1>10 DEF ReceiveSMP2, Cheated
  <2>2. /\ s2 \in States /\ s2.nextExpected = 1 /\ s2.x = s.x /\ s2.g3o = s.g3o
        /\ s2.g = s.g
    <3>1. s \in States /\ 1 \in 1 .. 4
      BY <1>5
    <3> QED
      BY ONLY <3>1, StateExpecting
  <2> HIDE DEF s2, s
  <2>3. ASSUME NEW a \in BOOLEAN, NEW b \in BOOLEAN,
               Run(p, net[p], net[q], smstate[p], smstate[q], a, b, entered[p],
                   entered[q], exponents, o)
        PROVE  Run(p, Tail(net[p]), net[q], s2, smstate[q], a, b, entered[p],
                   entered[q], exponents, o)
    <3>1. /\ net[p] \in Seq(Messages) /\ net[q] \in Seq(Messages)
          /\ exponents \in Nat /\ net[p] # <<>>
      BY <1>1, <1>4
    <3>2. Fails3(smstate[p], s2, Head(net[p]))
      BY <1>4, <1>5, <1>10, <2>2 DEF Fails3
    <3> QED
      BY ONLY p \in Peers, o \in Ownerships, <2>3, <3>1, <3>2, RunIsCheated
  <2>4. Run(p, Tail(net[p]), net[q], s2, smstate[q], asked[p], asked[q], entered[p],
            entered[q], exponents, o)
    BY <1>1, <1>3, <2>3, Zenon
  <2>5. more \in Seq(Messages) /\ Run(p, Tail(net[p]), more, s2, smstate[q], asked[p],
                                      asked[q], entered[p], entered[q], exponents, o)
    BY <1>1, <2>4, RunObjects
  <2>6. more = net[q] \o Objection(p)
    OBVIOUS
  <2> HIDE DEF more
  <2>7. /\ private' \in [Peers -> BOOLEAN] /\ asked' \in [Peers -> BOOLEAN]
        /\ asked'[p] = asked[p] /\ asked'[q] = asked[q]
        /\ trusted' \in [Peers -> SUBSET Keys] /\ exponents' \in Nat /\ exponents' = exponents
    BY <1>1, <2>1 DEF TypeInv
  <2> QED
    BY <2>1, <2>2, <2>5, <2>6, <2>7, AfterReceiving
<1> QED
  BY <1>7, <1>8, <1>10, <1>9

LEMMA ReceiveSMP3Keeps ==
  ASSUME IInv, NEW p \in Peers, NEW h, Arrives(p, h), h.type = "SMP3",
         ReceiveSMP3(p, h.body), UNCHANGED private
  PROVE  IInv'
<1> DEFINE q == Other(p)  m == h.body
           s == Step4(smstate[p], m)
           verified == Step4Verifies(smstate[p], m)
<1>1. /\ TypeInv /\ net[p] \in Seq(Messages) /\ net[q] \in Seq(Messages)
      /\ smstate[p] \in States /\ asked[p] \in BOOLEAN /\ asked[q] \in BOOLEAN
      /\ exponents \in Nat /\ session[p] \in Nat /\ q \in Peers /\ q # p
  BY InvFacts
<1>2. h \in Messages /\ m.x \in Nat /\ m.q \in Values /\ m.qab \in Values \X Values
  BY ArrivalFacts, MessageShape
<1>3. PICK o \in Ownerships :
        Run(p, net[p], net[q], smstate[p], smstate[q], asked[p], asked[q], entered[p],
            entered[q], exponents, o)
  BY ArrivalFacts
<1>4. net[p] # <<>> /\ h = Head(net[p]) /\ private[p] /\ h.session = session[p]
  BY DEF Arrives
<1>5. s \in States /\ s.x = smstate[p].x /\ s.g3o = smstate[p].g3o /\ s.g = smstate[p].g
  <2>1. smstate[p] \in States
    BY <1>1
  <2> QED
    BY ONLY <1>2, <2>1, StateOfStep4
<1>6. CASE smstate[p].nextExpected # 3
  BY <1>6, UnexpectedKeeps DEF ReceiveSMP3
<1>7. CASE smstate[p].nextExpected = 3
  <2>1. trusted' \in [Peers -> SUBSET Keys]
    <3>1. \/ UNCHANGED trusted
          \/ Trusted(p, verified /\ SecretsMatch(s))
      BY <1>7 DEF ReceiveSMP3
    <3>2. trusted \in [Peers -> SUBSET Keys]
      BY <1>1 DEF TypeInv
    <3> HIDE DEF verified
    <3> QED
      BY <3>1, <3>2, Trusting
  <2>3. CASE verified /\ ~Cheated(p, s)
    <3> DEFINE s2 == [s EXCEPT !.nextExpected = 1]
               w == Message("SMP4", session[p], [x |-> s.x, qab |-> s.qab])
               more == Append(net[q], w)
    <3>1. /\ smstate' = [smstate EXCEPT ![p] = s2] /\ Reply(p, <<w>>)
          /\ UNCHANGED <<asked, exponents>>
      BY <1>4, <1>7, <2>3 DEF ReceiveSMP3, Sent
    <3>2. /\ s2 \in States /\ s2.nextExpected = 1 /\ s2.x = s.x /\ s2.g3o = s.g3o
          /\ s2.g = s.g
      <4>1. s \in States /\ 1 \in 1 .. 4
        BY <1>5
      <4> QED
        BY ONLY <4>1, StateExpecting
    <3>3. s.qab = m.qab
      <4>1. m.q[1] = smstate[p].g /\ m.qab = <<m.q, smstate[p].q>>
        BY <2>3 DEF Step4Verifies
      <4> QED
        BY <1>1, <4>1 DEF Step4, States
    <3>4. /\ w.type = "SMP4" /\ w.session = session[p] /\ w.body.x = s.x
          /\ w.body.qab = s.qab
      BY DEF Message
    <3>5. w \in Messages
      <4>1. s.x \in Nat /\ s.qab \in Values \X Values
        BY <1>5 DEF States
      <4> QED
        BY <1>1, <4>1 DEF Message, Messages
    <3> HIDE DEF s2, w, s, verified
    <3>6. net[q] \o <<w>> = more /\ more \in Seq(Messages)
      BY <1>1, <3>5, QueueAdd
    <3>7. ASSUME NEW a \in BOOLEAN, NEW b \in BOOLEAN,
                 Run(p, net[p], net[q], smstate[p], smstate[q], a, b, entered[p],
                     entered[q], exponents, o)
          PROVE  Run(p, Tail(net[p]), more, s2, smstate[q], a, b, entered[p],
                     entered[q], exponents, o)
      <4>1. /\ net[p] \in Seq(Messages) /\ net[q] \in Seq(Messages)
            /\ exponents \in Nat /\ net[p] # <<>>
        BY <1>1, <1>4
      <4>2. Verifies4(smstate[p], s2, Head(net[p]), w)
        BY <1>4, <1>5, <1>7, <3>2, <3>3, <3>4 DEF Verifies4
      <4> QED
        BY ONLY p \in Peers, o \in Ownerships, <3>5, <3>7, <4>1, <4>2, RunStep4
    <3>8. Run(p, Tail(net[p]), more, s2, smstate[q], asked[p], asked[q], entered[p],
              entered[q], exponents, o)
      BY <1>1, <1>3, <3>7, Zenon
    <3> HIDE DEF more
    <3>9. /\ private' \in [Peers -> BOOLEAN] /\ asked' \in [Peers -> BOOLEAN]
          /\ asked'[p] = asked[p] /\ asked'[q] = asked[q]
          /\ exponents' \in Nat /\ exponents' = exponents
      BY <1>1, <3>1 DEF TypeInv
    <3> QED
      BY <2>1, <3>1, <3>2, <3>6, <3>8, <3>9, AfterReceiving
  <2>4. \/ verified /\ ~Cheated(p, s)
        \/ Cheated(p, s)
    BY <1>7 DEF ReceiveSMP3
  <2>5. CASE Cheated(p, s)
    BY <1>5, <2>1, <2>5, CheatedKeeps
  <2> QED
    BY <2>3, <2>4, <2>5
<1> QED
  BY <1>6, <1>7

LEMMA ReceiveSMP4Keeps ==
  ASSUME IInv, NEW p \in Peers, NEW h, Arrives(p, h), h.type = "SMP4",
         ReceiveSMP4(p, h.body), UNCHANGED private
  PROVE  IInv'
<1> DEFINE q == Other(p)
           s == smstate[p]
           s2 == [s EXCEPT !.nextExpected = 1]
<1>1. /\ TypeInv /\ net[q] \in Seq(Messages)
      /\ s \in States /\ asked[p] \in BOOLEAN /\ exponents \in Nat
  BY InvFacts
<1>2. PICK o \in Ownerships :
        Run(p, Tail(net[p]), net[q], s, smstate[q], asked[p], asked[q], entered[p],
            entered[q], exponents, o)
  BY ArrivalFacts
<1>3. CASE s.nextExpected # 4
  BY <1>3, UnexpectedKeeps DEF ReceiveSMP4
<1>4. CASE s.nextExpected = 4
  <2>1. trusted' \in [Peers -> SUBSET Keys]
    BY <1>4, Trusting DEF ReceiveSMP4
  <2>2. CASE Cheated(p, s)
    BY <1>1, <2>1, <2>2, CheatedKeeps
  <2>3. CASE ~Cheated(p, s)
    <3>1. /\ smstate' = [smstate EXCEPT ![p] = s2] /\ Reply(p, <<>>)
          /\ UNCHANGED <<asked, exponents>>
      BY <1>4, <2>3 DEF ReceiveSMP4
    <3>2. /\ s2 \in States /\ s2.nextExpected = 1 /\ s2.x = s.x
          /\ s2.g3o = s.g3o /\ s2.g = s.g
      <4>1. s \in States /\ 1 \in 1 .. 4
        BY <1>1
      <4> QED
        BY ONLY <4>1, StateExpecting
    <3> HIDE DEF s2
    <3>3. Run(p, Tail(net[p]), net[q], s2, smstate[q], asked[p], asked[q], entered[p],
              entered[q], exponents, o)
      BY <1>1, <1>2, <3>2, RunRests
    <3>4. net[q] = net[q] \o <<>>
      BY <1>1, ConcatEmptySeq
    <3>5. /\ private' \in [Peers -> BOOLEAN] /\ asked' \in [Peers -> BOOLEAN]
          /\ asked'[p] = asked[p] /\ asked'[q] = asked[q]
          /\ exponents' \in Nat /\ exponents' = exponents
      BY <1>1, <3>1 DEF TypeInv
    <3> QED
      BY <1>1, <2>1, <3>1, <3>2, <3>3, <3>4, <3>5, AfterReceiving
  <2> QED
    BY <2>2, <2>3
<1> QED
  BY <1>3, <1>4

LEMMA ReceiveKeeps ==
  ASSUME IInv, LateInv, NEW p \in Peers, Receive(p)
  PROVE  IInv'
<1> DEFINE h == Head(net[p])
<1>1. /\ Arrives(p, h)
      /\ \/ h.type = "SMP1" /\ ReceiveSMP1(p, h.body) /\ UNCHANGED private
         \/ h.type = "SMP2" /\ ReceiveSMP2(p, h.body) /\ UNCHANGED private
         \/ h.type = "SMP3" /\ ReceiveSMP3(p, h.body) /\ UNCHANGED private
         \/ h.type = "SMP4" /\ ReceiveSMP4(p, h.body) /\ UNCHANGED private
         \/ h.type = "ABORT" /\ ReceiveAbort(p) /\ UNCHANGED private
         \/ h.type = "DISCONNECTED" /\ ReceiveDisconnected(p)
  BY Arriving
<1> HIDE DEF h
<1> QED
  BY <1>1, ReceiveSMP1Keeps, ReceiveSMP2Keeps, ReceiveSMP3Keeps, ReceiveSMP4Keeps,
     ReceiveAbortKeeps, ReceiveDisconnectedKeeps
-----------------------------------------------------------------------------
(* Late answers: the invariant LateInv is kept.                              *)

\* What is known of the messages between p and the other, whose exponents are o.
LEMMA PartsAreDrawn ==
  ASSUME IInv, NEW p \in Peers
  PROVE  /\ PartsUpTo(Elements(net[p]), exponents)
         /\ \A m \in Elements(net[p]) : OfRun(m) => m.body.x \in 1 .. exponents
<1>1. exponents \in Nat /\ p \in Peers
  BY InvFacts
<1>2. PICK o \in Ownerships : RunInv(o)
  BY DEF IInv
<1>3. Numbered(p, Elements(net[p]), exponents, o)
  BY <1>1, <1>2, EndsAreNumbered DEF RunInv, Run
<1> QED
  BY <1>3 DEF Numbered, PartsUpTo

\* The messages of p stay spent: it sends no other SMP2 that has exponents.
LEMMA SpentStays ==
  ASSUME NEW P, NEW Q, NEW s, NEW x, NEW n \in Nat, Spent(P, Q, s, x), PartsUpTo(Q, n),
         NEW P2 \in SUBSET P, NEW Q2, NEW s2,
         \A m \in Q2 : m.type = "SMP2" => m \in Q \/ Parts(m) = {},
         s2.g3o \in {0, s.g3o} \/ \E k \in P : OfRun(k) /\ s2.g3o = k.body.x
  PROVE  Spent(P2, Q2, s2, x)
<1>1. \A m \in Q : 0 \notin Parts(m)
  BY DEF PartsUpTo
<1>2. ASSUME NEW m \in Q2, m.type = "SMP2"
      PROVE  /\ x \notin Parts(m) /\ s2.g3o \notin Parts(m)
             /\ \A k \in P2 : OfRun(k) => k.body.x \notin Parts(m)
  <2>1. CASE m \in Q
    BY <1>1, <1>2, <2>1 DEF Spent
  <2>2. CASE Parts(m) = {}
    BY <2>2
  <2> QED
    BY <1>2, <2>1, <2>2
<1> QED
  BY <1>2 DEF Spent

\* They do while the other acts: what it sends has its exponent or a new one.
LEMMA SpentRemains ==
  ASSUME NEW P, NEW Q, NEW s, NEW x, NEW n \in Nat, Spent(P, Q, s, x), PartsUpTo(Q, n),
         NEW P2, NEW Q2 \in SUBSET Q, NEW x2 \in {0, x, n + 1},
         \A k \in P2 : \/ k \in P
                       \/ k.type # "SMP3" /\ (OfRun(k) => k.body.x \in {x, n + 1})
  PROVE  Spent(P2, Q2, s, x2)
<1>1. \A m \in Q : 0 \notin Parts(m) /\ n + 1 \notin Parts(m)
  BY DEF PartsUpTo
<1>2. ASSUME NEW m \in Q2, m.type = "SMP2"
      PROVE  /\ x2 \notin Parts(m) /\ s.g3o \notin Parts(m)
             /\ \A k \in P2 : OfRun(k) => k.body.x \notin Parts(m)
  <2>1. /\ x \notin Parts(m) /\ s.g3o \notin Parts(m)
        /\ \A k \in P : OfRun(k) => k.body.x \notin Parts(m)
    BY <1>2 DEF Spent
  <2> QED
    BY <1>1, <2>1
<1>3. \A k \in P2 : k.type # "SMP3"
  BY DEF Spent
<1> QED
  BY <1>2, <1>3 DEF Spent

\* An end whose question is still open when the conversation ends has not answered
\* the run it is about, and the other has left the earlier ones behind.
LEMMA AskedIsSpent ==
  ASSUME IInv, NEW p \in Peers, asked[p]
  PROVE  Spent(Elements(net[p]), Elements(net[Other(p)]), smstate[p], smstate[Other(p)].x)
<1> DEFINE q == Other(p)  P == Elements(net[p])  Q == Elements(net[q])
           s == smstate[p]  x == smstate[q].x
<1>1. exponents \in Nat /\ q \in Peers /\ q # p /\ Other(q) = p
  BY InvFacts
<1>2. PICK o \in Ownerships : RunInv(o)
  BY DEF IInv
<1>3. Ends(p, P, Q, s, smstate[q], asked[p], asked[q], entered[p], entered[q], exponents, o)
  BY <1>2 DEF RunInv, Run
<1> HIDE DEF P, Q, s, x
<1>4. View(p, P, Q, s, x, asked[p], o)
  BY <1>3 DEF Ends, x
<1>5. Numbered(p, P, exponents, o) /\ Numbered(q, Q, exponents, o)
  BY <1>1, <1>3, EndsAreNumbered
<1>6. /\ s.g3o \in 1 .. exponents /\ o[s.g3o] = q
      /\ x \in 0 .. exponents /\ (x # 0 => o[x] = q)
  BY <1>1, <1>3, SMTT(20) DEF Ends, StateInv, x
<1>7. \A m \in P : m.type # "SMP3"
  BY <1>4 DEF View, AskedInv
<1>8. ASSUME NEW m \in Q, m.type = "SMP2", NEW e \in Parts(m), o[e] = q
      PROVE  e \in 1 .. exponents /\ e < s.g3o
  <2>1. e # s.g3o /\ UpTo(e, s.g3o)
    BY <1>4, <1>8 DEF View, AskedInv, AnsweredInv
  <2>2. e \in 1 .. exponents
    BY <1>5, <1>8 DEF Numbered
  <2> QED
    BY <1>6, <2>1, <2>2 DEF UpTo
<1>9. ASSUME NEW m \in Q, m.type = "SMP2"
      PROVE  /\ x \notin Parts(m) /\ s.g3o \notin Parts(m)
             /\ \A k \in P : OfRun(k) => k.body.x \notin Parts(m)
  <2>1. s.g3o \notin Parts(m)
    BY <1>6, <1>8, <1>9
  <2>2. x \notin Parts(m)
    <3>1. x # 0 => s.g3o <= x
      BY <1>4 DEF View, ReceivedInv, UpTo
    <3>2. 0 \notin Parts(m)
      BY <1>5, <1>9 DEF Numbered
    <3>3. ASSUME x \in Parts(m) PROVE FALSE
      <4>1. x # 0 /\ o[x] = q
        BY <1>6, <3>2, <3>3
      <4> QED
        BY <1>6, <1>8, <1>9, <3>1, <3>3, <4>1
    <3> QED
      BY <3>3
  <2>3. ASSUME NEW k \in P, OfRun(k), k.body.x \in Parts(m) PROVE FALSE
    <3>1. k.body.x \in 1 .. exponents /\ o[k.body.x] = q
      BY <1>5, <2>3 DEF Numbered
    <3>2. s.g3o <= k.body.x
      BY <1>4, <2>3 DEF View, ReceivedInv, BeforeAll, NotAfter
    <3> QED
      BY <1>6, <1>8, <1>9, <2>3, <3>1, <3>2
  <2> QED
    BY <2>1, <2>2, <2>3
<1>10. Spent(P, Q, s, x)
  BY <1>7, <1>9 DEF Spent
<1> QED
  BY <1>10 DEF P, Q, s, x

\* p acts.  It has s2 now, has taken what is no longer in its queue and sent what is
\* new in the other's.
LEMMA LateAfter ==
  ASSUME IInv, LateInv, NEW p \in Peers, NEW s2,
         smstate'[p] = s2, smstate'[Other(p)] = smstate[Other(p)],
         asked'[Other(p)] = asked[Other(p)],
         left' \in [Peers -> BOOLEAN], left'[Other(p)] = left[Other(p)],
         left'[p] => ~asked'[p] /\ s2.nextExpected # 3,
         Elements(net'[p]) \subseteq Elements(net[p]),
         \A k \in Elements(net'[Other(p)]) :
           \/ k \in Elements(net[Other(p)])
           \/ /\ k.type = "SMP3" => ~Hopeless(left[Other(p)], smstate[Other(p)])
              /\ k.type = "SMP2" /\ Hopeless(left'[p], s2) => Parts(k) = {}
              /\ OfRun(k) => k.body.x \in {smstate[p].x, exponents + 1},
         s2.x \in {0, smstate[p].x, exponents + 1},
         Hopeless(left'[p], s2) =>
           /\ Hopeless(left[p], smstate[p]) \/ asked[p]
           /\ \/ s2.g3o \in {0, smstate[p].g3o}
              \/ \E k \in Elements(net[p]) : OfRun(k) /\ s2.g3o = k.body.x
  PROVE  LateInv'
<1> DEFINE q == Other(p)  P == Elements(net[p])  Q == Elements(net[q])
           P2 == Elements(net'[p])  Q2 == Elements(net'[q])
           s == smstate[p]  t == smstate[q]
<1>1. exponents \in Nat /\ q \in Peers /\ q # p /\ Other(q) = p /\ Peers = {p, q}
  BY InvFacts
<1>2. PartsUpTo(P, exponents) /\ PartsUpTo(Q, exponents)
  BY <1>1, PartsAreDrawn
<1>3. ASSUME Hopeless(left'[p], s2) PROVE Spent(P2, Q2, s2, t.x)
  <2>1. Spent(P, Q, s, t.x)
    BY <1>3, AskedIsSpent DEF LateInv, LeftInv
  <2>2. \A m \in Q2 : m.type = "SMP2" => m \in Q \/ Parts(m) = {}
    BY <1>3
  <2>3. s2.g3o \in {0, s.g3o} \/ \E k \in P : OfRun(k) /\ s2.g3o = k.body.x
    BY <1>3
  <2>4. P2 \in SUBSET P
    OBVIOUS
  <2> HIDE DEF P, Q, P2, Q2, s, t
  <2> QED
    BY <1>1, <1>2, <2>1, <2>2, <2>3, <2>4, SpentStays
<1>4. ASSUME Hopeless(left[q], t) PROVE Spent(Q2, P2, t, s2.x)
  <2>1. Spent(Q, P, t, s.x)
    BY <1>1, <1>4 DEF LateInv, LeftInv
  <2>2. \A k \in Q2 : \/ k \in Q
                      \/ k.type # "SMP3" /\ (OfRun(k) => k.body.x \in {s.x, exponents + 1})
    BY <1>4
  <2>3. P2 \in SUBSET P /\ s2.x \in {0, s.x, exponents + 1}
    OBVIOUS
  <2> HIDE DEF P, Q, P2, Q2, s, t
  <2> QED
    BY <1>1, <1>2, <2>1, <2>2, <2>3, SpentRemains
<1>5. LeftInv(p)'
  BY <1>3 DEF LeftInv
<1>6. LeftInv(q)'
  BY <1>1, <1>4 DEF LeftInv, LateInv
<1> QED
  BY <1>1, <1>5, <1>6 DEF LateInv

\* What belongs to no run is of no consequence.
LEMMA LateQuietly ==
  ASSUME IInv, LateInv, NEW p \in Peers, NEW s2, smstate' = [smstate EXCEPT ![p] = s2],
         asked'[Other(p)] = asked[Other(p)],
         left' \in [Peers -> BOOLEAN], left'[Other(p)] = left[Other(p)],
         left'[p] => ~asked'[p] /\ s2.nextExpected # 3,
         Elements(net'[p]) \subseteq Elements(net[p]),
         \A k \in Elements(net'[Other(p)]) : k \in Elements(net[Other(p)]) \/ ~OfRun(k),
         s2.x \in {0, smstate[p].x, exponents + 1},
         Hopeless(left'[p], s2) =>
           /\ Hopeless(left[p], smstate[p]) \/ asked[p]
           /\ \/ s2.g3o \in {0, smstate[p].g3o}
              \/ \E k \in Elements(net[p]) : OfRun(k) /\ s2.g3o = k.body.x
  PROVE  LateInv'
<1>1. smstate'[p] = s2 /\ smstate'[Other(p)] = smstate[Other(p)]
  BY EndsFacts DEF IInv, TypeInv
<1>2. \A k \in Elements(net'[Other(p)]) :
        \/ k \in Elements(net[Other(p)])
        \/ /\ k.type = "SMP3" => ~Hopeless(left[Other(p)], smstate[Other(p)])
           /\ k.type = "SMP2" /\ Hopeless(left'[p], s2) => Parts(k) = {}
           /\ OfRun(k) => k.body.x \in {smstate[p].x, exponents + 1}
  BY DEF OfRun
<1> QED
  BY ONLY IInv, LateInv, p \in Peers, <1>1, <1>2, LateAfter,
     asked'[Other(p)] = asked[Other(p)],
     left' \in [Peers -> BOOLEAN], left'[Other(p)] = left[Other(p)],
     left'[p] => ~asked'[p] /\ s2.nextExpected # 3,
     Elements(net'[p]) \subseteq Elements(net[p]),
     s2.x \in {0, smstate[p].x, exponents + 1},
     Hopeless(left'[p], s2) =>
       /\ Hopeless(left[p], smstate[p]) \/ asked[p]
       /\ \/ s2.g3o \in {0, smstate[p].g3o}
          \/ \E k \in Elements(net[p]) : OfRun(k) /\ s2.g3o = k.body.x

LEMMA NoteAdds ==
  ASSUME NEW p \in Peers, session[p] \in Nat, NEW type \in {"ABORT", "DISCONNECTED"},
         NEW queue \in Seq(Messages), NEW out \in {<<>>, Sent(p, type, <<>>)}
  PROVE  \A k \in Elements(queue \o out) : k \in Elements(queue) \/ ~OfRun(k)
<1> DEFINE w == Message(type, session[p], <<>>)
<1>1. w \in Messages /\ ~OfRun(w)
  BY MessagesMade DEF Message, Messages, OfRun
<1>2. Sent(p, type, <<>>) = IF private[p] THEN <<w>> ELSE <<>>
  BY DEF Sent
<1> HIDE DEF w
<1>3. queue \o <<>> = queue /\ Elements(queue \o <<w>>) = Elements(queue) \cup {w}
  BY <1>1, QueueAdd
<1>4. CASE out = <<>>
  BY <1>3, <1>4
<1>5. CASE out = <<w>>
  BY <1>1, <1>3, <1>5
<1> QED
  BY <1>2, <1>4, <1>5

LEMMA LateFacts ==
  ASSUME IInv, LateInv, NEW p \in Peers
  PROVE  /\ left \in [Peers -> BOOLEAN] /\ left[p] \in BOOLEAN
         /\ left[p] => ~asked[p] /\ smstate[p].nextExpected # 3
         /\ asked \in [Peers -> BOOLEAN] /\ smstate \in [Peers -> States]
         /\ net \in [Peers -> Seq(Messages)]
         /\ asked[p] => smstate[p].g # {} /\ smstate[p].nextExpected # 3
BY DEF IInv, TypeInv, LateInv, LeftInv, RunInv, Run, Ends, StateInv

LEMMA InitiateLate ==
  ASSUME IInv, LateInv, NEW p \in Peers, NEW question \in Questions, NEW typed \in Secrets,
         Initiate(p, question, typed)
  PROVE  LateInv'
<1> DEFINE q == Other(p)
           secret == Combined(privkey[p], Active(p), session[p], typed)
           s1 == Step1(smstate[p], secret, exponents + 1)
           s2 == [s1 EXCEPT !.nextExpected = 2]
           w == Message("SMP1", session[p], [x |-> exponents + 1, question |-> question])
<1>1. /\ exponents \in Nat /\ session[p] \in Nat /\ smstate[p] \in States
      /\ privkey[p] \in Keys /\ Active(p) \in Keys /\ question \in BOOLEAN
      /\ net[q] \in Seq(Messages) /\ q \in Peers /\ q # p
  BY InvFacts, QuestionsAreBoolean
<1>2. LateInv /\ left \in [Peers -> BOOLEAN] /\ net \in [Peers -> Seq(Messages)]
      /\ smstate \in [Peers -> States] /\ (left[p] => ~asked[p])
  BY LateFacts
<1>3. /\ smstate' = [smstate EXCEPT ![p] = s2] /\ Send(p, <<w>>)
      /\ UNCHANGED <<asked, left>>
  BY DEF Initiate, Sent, unchangedKeys
<1>4. secret \in Secret /\ exponents + 1 \in Nat /\ 2 \in 1 .. 4
  BY <1>1 DEF Secret, Combined
<1>5. w \in Messages /\ w.type = "SMP1" /\ w.body.x = exponents + 1
  BY <1>1, <1>4, MessagesMade DEF Message, Messages
<1> HIDE DEF secret, w
<1>6. s1 \in States /\ s1.x = exponents + 1 /\ s1.g3o = smstate[p].g3o
  BY ONLY <1>1, <1>4, StateOfStep1
<1> HIDE DEF s1
<1>7. s2.nextExpected = 2 /\ s2.x = exponents + 1 /\ s2.g3o = smstate[p].g3o
  BY <1>4, <1>6, StateExpecting
<1> HIDE DEF s2
<1>8. net'[p] = net[p] /\ net'[q] = net[q] \o <<w>>
  BY ONLY p \in Peers, <1>2, <1>3, Sending
<1>9. Elements(net[q] \o <<w>>) = Elements(net[q]) \cup {w}
  BY ONLY <1>1, <1>5, QueueAdd
<1>10. smstate'[p] = s2 /\ smstate'[q] = smstate[q]
  BY <1>1, <1>2, <1>3
<1>11. /\ left' \in [Peers -> BOOLEAN] /\ left'[q] = left[q] /\ asked'[q] = asked[q]
       /\ left'[p] => ~asked'[p] /\ s2.nextExpected # 3
  BY <1>2, <1>3, <1>7
<1>12. \A k \in Elements(net'[q]) :
         \/ k \in Elements(net[q])
         \/ /\ k.type = "SMP3" => ~Hopeless(left[q], smstate[q])
            /\ k.type = "SMP2" /\ Hopeless(left'[p], s2) => Parts(k) = {}
            /\ OfRun(k) => k.body.x \in {smstate[p].x, exponents + 1}
  BY ONLY <1>5, <1>8, <1>9
<1>13. Hopeless(left'[p], s2) =>
         /\ Hopeless(left[p], smstate[p]) \/ asked[p]
         /\ \/ s2.g3o \in {0, smstate[p].g3o}
            \/ \E k \in Elements(net[p]) : OfRun(k) /\ s2.g3o = k.body.x
  BY <1>3, <1>7 DEF Hopeless
<1>14. s2.x \in {0, smstate[p].x, exponents + 1} /\ Elements(net'[p]) \subseteq Elements(net[p])
  BY <1>7, <1>8
<1> QED
  BY ONLY IInv, LateInv, p \in Peers, <1>10, <1>11, <1>12, <1>13, <1>14, LateAfter

\* An answer leaves nothing open; made of nothing, it has no exponents in it.
LEMMA AnswerLate ==
  ASSUME IInv, LateInv, NEW p \in Peers, NEW typed \in Secrets, private[p],
         \/ Respond(p, typed)
         \/ RespondLate(p, typed)
  PROVE  LateInv'
<1> DEFINE q == Other(p)
           secret == Combined(Active(p), privkey[p], session[p], typed)
           s1 == Step2b(smstate[p], secret)
           s2 == [s1 EXCEPT !.nextExpected = 3]
           w == Message("SMP2", session[p], [x |-> s1.x, q |-> s1.q])
<1>1. /\ session[p] \in Nat /\ smstate[p] \in States
      /\ privkey[p] \in Keys /\ Active(p) \in Keys
      /\ net[q] \in Seq(Messages) /\ q \in Peers /\ q # p
  BY InvFacts
<1>2. /\ left \in [Peers -> BOOLEAN] /\ net \in [Peers -> Seq(Messages)]
      /\ smstate \in [Peers -> States] /\ asked \in [Peers -> BOOLEAN]
      /\ (left[p] => ~asked[p]) /\ (asked[p] => smstate[p].g # {})
  BY LateFacts
<1>3. smstate' = [smstate EXCEPT ![p] = s2] /\ Send(p, <<w>>)
  BY DEF Respond, RespondLate, Answer, Sent
<1>4. \/ asked[p] /\ asked' = [asked EXCEPT ![p] = FALSE] /\ UNCHANGED left
      \/ left[p] /\ left' = [left EXCEPT ![p] = FALSE] /\ UNCHANGED asked
  BY DEF Respond, RespondLate
<1>5. secret \in Secret /\ 3 \in 1 .. 4
  BY <1>1 DEF Secret, Combined
<1> HIDE DEF secret
<1>6. /\ s1 \in States /\ s1.x = smstate[p].x /\ s1.g3o = smstate[p].g3o
      /\ s1.g = smstate[p].g /\ s1.q = <<smstate[p].g, secret>>
  BY ONLY <1>1, <1>5, StateOfStep2b
<1> HIDE DEF s1
<1>7. /\ s2.nextExpected = 3 /\ s2.x = smstate[p].x /\ s2.g3o = smstate[p].g3o
      /\ s2.g = smstate[p].g
  BY <1>5, <1>6, StateExpecting
<1>8. /\ w \in Messages /\ w.type = "SMP2" /\ w.body.x = smstate[p].x
      /\ Parts(w) = smstate[p].g
  <2>1. s1.x \in Nat /\ s1.q \in Values
    BY <1>6 DEF States
  <2> QED
    BY <1>1, <1>6, <2>1 DEF Message, Messages, Parts
<1> HIDE DEF s2, w
<1>9. /\ net'[p] = net[p] /\ net'[q] = net[q] \o <<w>>
      /\ Elements(net[q] \o <<w>>) = Elements(net[q]) \cup {w}
  BY <1>1, <1>2, <1>3, <1>8, Sending, QueueAdd
<1>10. smstate'[p] = s2 /\ smstate'[q] = smstate[q]
  BY <1>1, <1>2, <1>3
<1>11. /\ left' \in [Peers -> BOOLEAN] /\ ~left'[p] /\ left'[q] = left[q]
       /\ asked'[q] = asked[q]
  BY <1>1, <1>2, <1>4
<1>12. Hopeless(left'[p], s2) => Parts(w) = {} /\ Hopeless(left[p], smstate[p])
  BY <1>2, <1>4, <1>7, <1>8, <1>11 DEF Hopeless
<1>13. \A k \in Elements(net'[q]) :
         \/ k \in Elements(net[q])
         \/ /\ k.type = "SMP3" => ~Hopeless(left[q], smstate[q])
            /\ k.type = "SMP2" /\ Hopeless(left'[p], s2) => Parts(k) = {}
            /\ OfRun(k) => k.body.x \in {smstate[p].x, exponents + 1}
  BY ONLY <1>8, <1>9, <1>12
<1>14. Hopeless(left'[p], s2) =>
         /\ Hopeless(left[p], smstate[p]) \/ asked[p]
         /\ \/ s2.g3o \in {0, smstate[p].g3o}
            \/ \E k \in Elements(net[p]) : OfRun(k) /\ s2.g3o = k.body.x
  BY <1>7, <1>12
<1>15. /\ s2.x \in {0, smstate[p].x, exponents + 1}
       /\ Elements(net'[p]) \subseteq Elements(net[p])
       /\ left'[p] => ~asked'[p] /\ s2.nextExpected # 3
  BY <1>7, <1>9, <1>11
<1> QED
  BY ONLY IInv, LateInv, p \in Peers, <1>10, <1>11, <1>13, <1>14, <1>15, LateAfter

LEMMA AbortLate ==
  ASSUME IInv, LateInv, NEW p \in Peers, Abort(p)
  PROVE  LateInv'
<1> DEFINE q == Other(p)
           s2 == [smstate[p] EXCEPT !.nextExpected = 1]
<1>1. /\ session[p] \in Nat /\ smstate[p] \in States /\ 1 \in 1 .. 4
      /\ net[q] \in Seq(Messages) /\ q \in Peers /\ q # p
  BY InvFacts
<1>2. /\ left \in [Peers -> BOOLEAN] /\ net \in [Peers -> Seq(Messages)]
      /\ asked \in [Peers -> BOOLEAN]
  BY LateFacts
<1>3. /\ smstate' = [smstate EXCEPT ![p] = s2] /\ Send(p, Sent(p, "ABORT", <<>>))
      /\ asked' = [asked EXCEPT ![p] = FALSE] /\ left' = [left EXCEPT ![p] = FALSE]
  BY DEF Abort
<1>4. s2.nextExpected = 1 /\ s2.x = smstate[p].x
  BY <1>1, StateExpecting
<1> HIDE DEF s2
<1>5. net'[p] = net[p] /\ net'[q] = net[q] \o Sent(p, "ABORT", <<>>)
  BY <1>2, <1>3, Sending
<1>6. \A k \in Elements(net'[q]) : k \in Elements(net[q]) \/ ~OfRun(k)
  BY <1>1, <1>5, NoteAdds
<1>7. /\ left' \in [Peers -> BOOLEAN] /\ ~left'[p] /\ left'[q] = left[q]
      /\ asked'[q] = asked[q] /\ ~Hopeless(left'[p], s2)
  BY <1>1, <1>2, <1>3, <1>4 DEF Hopeless
<1> QED
  BY <1>3, <1>4, <1>5, <1>6, <1>7, LateQuietly

\* The conversation of p ends, or p itself.
LEMMA FinishingLate ==
  ASSUME IInv, LateInv, NEW p \in Peers, smstate' = [smstate EXCEPT ![p] = Fresh],
         asked' = [asked EXCEPT ![p] = FALSE],
         left' = [left EXCEPT ![p] = @ \/ asked[p]] \/ left' = [left EXCEPT ![p] = FALSE],
         Elements(net'[p]) \subseteq Elements(net[p]),
         \A k \in Elements(net'[Other(p)]) : k \in Elements(net[Other(p)]) \/ ~OfRun(k)
  PROVE  LateInv'
<1>1. left \in [Peers -> BOOLEAN] /\ asked \in [Peers -> BOOLEAN]
  BY LateFacts
<1>2. Fresh.nextExpected = 1 /\ Fresh.x = 0 /\ Fresh.g3o = 0
  BY DEF Fresh, NULL
<1>3. /\ left' \in [Peers -> BOOLEAN] /\ left'[Other(p)] = left[Other(p)]
      /\ asked'[Other(p)] = asked[Other(p)] /\ ~asked'[p]
      /\ left'[p] => left[p] \/ asked[p]
  BY <1>1, EndsFacts
<1>4. Hopeless(left'[p], Fresh) => Hopeless(left[p], smstate[p]) \/ asked[p]
  BY <1>2, <1>3 DEF Hopeless
<1> DEFINE s2 == Fresh
<1>5. /\ left'[p] => ~asked'[p] /\ s2.nextExpected # 3
      /\ s2.x \in {0, smstate[p].x, exponents + 1}
      /\ smstate' = [smstate EXCEPT ![p] = s2]
  BY <1>2, <1>3
<1>6. Hopeless(left'[p], s2) =>
        /\ Hopeless(left[p], smstate[p]) \/ asked[p]
        /\ \/ s2.g3o \in {0, smstate[p].g3o}
           \/ \E k \in Elements(net[p]) : OfRun(k) /\ s2.g3o = k.body.x
  BY <1>2, <1>4
<1> HIDE DEF s2
<1>7. /\ Elements(net'[p]) \subseteq Elements(net[p])
      /\ \A k \in Elements(net'[Other(p)]) : k \in Elements(net[Other(p)]) \/ ~OfRun(k)
  OBVIOUS
<1> QED
  BY ONLY IInv, LateInv, p \in Peers, <1>3, <1>5, <1>6, <1>7, LateQuietly

LEMMA DisconnectLate ==
  ASSUME IInv, LateInv, NEW p \in Peers, Disconnect(p)
  PROVE  LateInv'
<1>1. session[p] \in Nat /\ net[Other(p)] \in Seq(Messages)
  BY InvFacts
<1>2. net \in [Peers -> Seq(Messages)] /\ Send(p, Sent(p, "DISCONNECTED", <<>>))
  BY LateFacts DEF Disconnect
<1>3. /\ net'[p] = net[p]
      /\ \A k \in Elements(net'[Other(p)]) : k \in Elements(net[Other(p)]) \/ ~OfRun(k)
  BY <1>1, <1>2, Sending, NoteAdds
<1>4. /\ smstate' = [smstate EXCEPT ![p] = Fresh] /\ asked' = [asked EXCEPT ![p] = FALSE]
      /\ left' = [left EXCEPT ![p] = @ \/ asked[p]]
  BY DEF Disconnect, ForceFinished
<1> QED
  BY <1>3, <1>4, FinishingLate

LEMMA LeavingLate ==
  ASSUME IInv, LateInv, NEW p \in Peers, Crash(p) \/ Restart(p)
  PROVE  LateInv'
<1>1. /\ smstate' = [smstate EXCEPT ![p] = Fresh] /\ asked' = [asked EXCEPT ![p] = FALSE]
      /\ left' = [left EXCEPT ![p] = FALSE] /\ UNCHANGED net
  BY DEF Crash, Restart
<1> QED
  BY <1>1, FinishingLate

LEMMA LoseLate ==
  ASSUME IInv, LateInv, NEW p \in Peers, Lose(p)
  PROVE  LateInv'
<1> DEFINE q == Other(p)  s2 == smstate[p]
<1>1. /\ net \in [Peers -> Seq(Messages)] /\ smstate \in [Peers -> States]
      /\ net[q] \in Seq(Messages) /\ net[p] \in Seq(Messages)
  BY LateFacts, InvFacts
<1>2. /\ net[p] # <<>> /\ Reply(p, <<>>)
      /\ UNCHANGED <<smstate, asked, left>>
  BY DEF Lose
<1>3. net'[p] = Tail(net[p]) /\ net'[q] = net[q] \o <<>>
  BY ONLY p \in Peers, <1>1, <1>2, Replying
<1>4. net'[q] = net[q]
  BY <1>1, <1>3, ConcatEmptySeq
<1>5. Elements(net'[p]) \subseteq Elements(net[p])
  BY <1>1, <1>2, <1>3, QueueTail
<1>6. smstate' = [smstate EXCEPT ![p] = s2] /\ left' \in [Peers -> BOOLEAN]
  BY <1>1, <1>2, LateFacts
<1>7. left'[p] => ~asked'[p] /\ s2.nextExpected # 3
  BY <1>2, LateFacts
<1>8. asked'[q] = asked[q] /\ left'[q] = left[q] /\ left'[p] = left[p]
  BY <1>2
<1> HIDE DEF s2
<1>9. s2 = smstate[p]
  BY DEF s2
<1> QED
  BY <1>4, <1>5, <1>6, <1>7, <1>8, <1>9, LateQuietly

\* p takes a message of a run, has s2 then, and sends nothing of a run.
LEMMA ReceivingLate ==
  ASSUME IInv, LateInv, NEW p \in Peers, NEW h, Arrives(p, h), NEW s2,
         smstate' = [smstate EXCEPT ![p] = s2],
         asked'[Other(p)] = asked[Other(p)],
         left' \in [Peers -> BOOLEAN], left'[Other(p)] = left[Other(p)],
         left'[p] => ~asked'[p] /\ s2.nextExpected # 3,
         NEW out \in {<<>>, Sent(p, "ABORT", <<>>)}, Reply(p, out),
         s2.x \in {0, smstate[p].x, exponents + 1},
         Hopeless(left'[p], s2) =>
           /\ Hopeless(left[p], smstate[p]) \/ asked[p]
           /\ s2.g3o \in {0, smstate[p].g3o} \/ (OfRun(h) /\ s2.g3o = h.body.x)
  PROVE  LateInv'
<1>1. /\ net \in [Peers -> Seq(Messages)] /\ net[Other(p)] \in Seq(Messages)
      /\ net[p] \in Seq(Messages) /\ session[p] \in Nat
  BY LateFacts, InvFacts
<1>2. net[p] # <<>> /\ h = Head(net[p])
  BY DEF Arrives
<1>3. net'[p] = Tail(net[p]) /\ net'[Other(p)] = net[Other(p)] \o out
  BY ONLY p \in Peers, Reply(p, out), <1>1, <1>2, Replying
<1>4. h \in Elements(net[p]) /\ Elements(net'[p]) \subseteq Elements(net[p])
  BY <1>1, <1>2, <1>3, QueueTail
<1>5. \A k \in Elements(net[Other(p)] \o out) : k \in Elements(net[Other(p)]) \/ ~OfRun(k)
  BY <1>1, NoteAdds
<1>6. \A k \in Elements(net'[Other(p)]) : k \in Elements(net[Other(p)]) \/ ~OfRun(k)
  BY <1>3, <1>5
<1>7. Hopeless(left'[p], s2) =>
        /\ Hopeless(left[p], smstate[p]) \/ asked[p]
        /\ \/ s2.g3o \in {0, smstate[p].g3o}
           \/ \E k \in Elements(net[p]) : OfRun(k) /\ s2.g3o = k.body.x
  BY <1>4
<1>8. /\ smstate' = [smstate EXCEPT ![p] = s2]
      /\ asked'[Other(p)] = asked[Other(p)]
      /\ left' \in [Peers -> BOOLEAN] /\ left'[Other(p)] = left[Other(p)]
      /\ left'[p] => ~asked'[p] /\ s2.nextExpected # 3
      /\ s2.x \in {0, smstate[p].x, exponents + 1}
  OBVIOUS
<1> QED
  BY ONLY IInv, LateInv, p \in Peers, <1>4, <1>6, <1>7, <1>8, LateQuietly

\* It comes to rest, or stays where it is.
LEMMA RestingLate ==
  ASSUME IInv, LateInv, NEW p \in Peers, NEW h, Arrives(p, h), NEW s2,
         smstate' = [smstate EXCEPT ![p] = s2], s2.x = smstate[p].x,
         s2 = smstate[p] \/ s2.nextExpected = 1,
         s2.g3o = smstate[p].g3o \/ (OfRun(h) /\ s2.g3o = h.body.x),
         UNCHANGED <<asked, left>>,
         NEW out \in {<<>>, Sent(p, "ABORT", <<>>)}, Reply(p, out)
  PROVE  LateInv'
<1>1. /\ left \in [Peers -> BOOLEAN]
      /\ left[p] => ~asked[p] /\ smstate[p].nextExpected # 3
  BY LateFacts
<1>2. Hopeless(left[p], s2) => Hopeless(left[p], smstate[p])
  BY DEF Hopeless
<1>3. /\ left'[p] => ~asked'[p] /\ s2.nextExpected # 3
      /\ left' \in [Peers -> BOOLEAN] /\ left'[Other(p)] = left[Other(p)]
      /\ asked'[Other(p)] = asked[Other(p)]
      /\ s2.x \in {0, smstate[p].x, exponents + 1}
  BY <1>1
<1>4. Hopeless(left'[p], s2) =>
        /\ Hopeless(left[p], smstate[p]) \/ asked[p]
        /\ s2.g3o \in {0, smstate[p].g3o} \/ (OfRun(h) /\ s2.g3o = h.body.x)
  BY <1>2
<1> QED
  BY <1>3, <1>4, ReceivingLate

LEMMA ObjectionIsShort ==
  ASSUME NEW p \in Peers
  PROVE  Objection(p) \in {<<>>, Sent(p, "ABORT", <<>>)}
BY DEF Objection

LEMMA UnexpectedLate ==
  ASSUME IInv, LateInv, NEW p \in Peers, NEW h, Arrives(p, h), Unexpected(p)
  PROVE  LateInv'
<1> DEFINE s2 == IF p \in aborting THEN [smstate[p] EXCEPT !.nextExpected = 1]
                 ELSE smstate[p]
<1>1. smstate \in [Peers -> States] /\ smstate[p] \in States /\ 1 \in 1 .. 4
  BY LateFacts, InvFacts
<1>2. Reply(p, Objection(p)) /\ UNCHANGED <<asked, left>>
  BY DEF Unexpected
<1>3. smstate' = [smstate EXCEPT ![p] = s2]
  <2>1. CASE p \in aborting
    BY <1>1, <2>1 DEF Unexpected
  <2>2. CASE p \notin aborting
    BY <1>1, <2>2 DEF Unexpected
  <2> QED
    BY <2>1, <2>2
<1>4. /\ s2.x = smstate[p].x /\ s2.g3o = smstate[p].g3o
      /\ s2 = smstate[p] \/ s2.nextExpected = 1
  BY <1>1, StateExpecting
<1> HIDE DEF s2
<1> QED
  BY <1>2, <1>3, <1>4, ObjectionIsShort, RestingLate

\* What fails its proofs of knowledge may leave the other's exponent behind.
LEMMA CheatedLate ==
  ASSUME IInv, LateInv, NEW p \in Peers, NEW h, Arrives(p, h), NEW s \in States,
         Cheated(p, s), s.x = smstate[p].x,
         s.g3o = smstate[p].g3o \/ (OfRun(h) /\ s.g3o = h.body.x)
  PROVE  LateInv'
<1> DEFINE s2 == [s EXCEPT !.nextExpected = 1]
<1>1. 1 \in 1 .. 4
  OBVIOUS
<1>2. s2.x = s.x /\ s2.g3o = s.g3o /\ s2.nextExpected = 1
  BY <1>1, StateExpecting
<1>3. /\ smstate' = [smstate EXCEPT ![p] = s2] /\ Reply(p, Objection(p))
      /\ UNCHANGED <<asked, left>>
  BY DEF Cheated
<1> HIDE DEF s2
<1> QED
  BY <1>2, <1>3, ObjectionIsShort, RestingLate

LEMMA ReceiveAbortLate ==
  ASSUME IInv, LateInv, NEW p \in Peers, NEW h, Arrives(p, h), ReceiveAbort(p)
  PROVE  LateInv'
<1> DEFINE s2 == [smstate[p] EXCEPT !.nextExpected = 1]
<1>1. smstate[p] \in States /\ 1 \in 1 .. 4
  BY InvFacts
<1>2. s2.x = smstate[p].x /\ s2.g3o = smstate[p].g3o /\ s2.nextExpected = 1
  BY <1>1, StateExpecting
<1>3. /\ smstate' = [smstate EXCEPT ![p] = s2] /\ Reply(p, <<>>)
      /\ UNCHANGED <<asked, left>>
  BY DEF ReceiveAbort
<1> HIDE DEF s2
<1> QED
  BY <1>2, <1>3, RestingLate

LEMMA ReceiveDisconnectedLate ==
  ASSUME IInv, LateInv, NEW p \in Peers, NEW h, Arrives(p, h), ReceiveDisconnected(p)
  PROVE  LateInv'
<1>1. /\ net \in [Peers -> Seq(Messages)] /\ net[Other(p)] \in Seq(Messages)
      /\ net[p] \in Seq(Messages) /\ net[p] # <<>>
  BY LateFacts, InvFacts DEF Arrives
<1>2. /\ smstate' = [smstate EXCEPT ![p] = Fresh] /\ asked' = [asked EXCEPT ![p] = FALSE]
      /\ left' = [left EXCEPT ![p] = @ \/ asked[p]] /\ Reply(p, <<>>)
  BY DEF ReceiveDisconnected, ForceFinished
<1>3. net'[p] = Tail(net[p]) /\ net'[Other(p)] = net[Other(p)] \o <<>>
  BY ONLY p \in Peers, <1>1, <1>2, Replying
<1>4. net'[Other(p)] = net[Other(p)]
  BY <1>1, <1>3, ConcatEmptySeq
<1>5. Elements(net'[p]) \subseteq Elements(net[p])
  BY <1>1, <1>3, QueueTail
<1> QED
  BY <1>2, <1>4, <1>5, FinishingLate

\* A new question takes the place of an old one.
LEMMA ReceiveSMP1Late ==
  ASSUME IInv, LateInv, NEW p \in Peers, NEW h, Arrives(p, h), h.type = "SMP1",
         ReceiveSMP1(p, h.body)
  PROVE  LateInv'
<1> DEFINE q == Other(p)
           s2 == Step2a(smstate[p], h.body, exponents + 1)
<1>1. /\ smstate[p] \in States /\ exponents \in Nat /\ exponents + 1 \in Nat
      /\ q \in Peers /\ q # p
  BY InvFacts
<1>2. h.body.x \in Nat /\ h.body.question \in BOOLEAN
  BY ArrivalFacts, MessageShape
<1>3. CASE smstate[p].nextExpected # 1
  BY <1>3, UnexpectedLate DEF ReceiveSMP1
<1>4. CASE smstate[p].nextExpected = 1
  <2>1. /\ smstate' = [smstate EXCEPT ![p] = s2] /\ Reply(p, <<>>)
        /\ asked' = [asked EXCEPT ![p] = TRUE] /\ left' = [left EXCEPT ![p] = FALSE]
    BY <1>4 DEF ReceiveSMP1
  <2>2. s2.x = exponents + 1 /\ s2.nextExpected = 1
    <3>1. PICK k \in Nat : k = exponents + 1
      BY <1>1
    <3>2. smstate[p] \in States
      BY <1>1
    <3>3. s2.x = k /\ s2.nextExpected = smstate[p].nextExpected
      BY ONLY <1>2, <3>1, <3>2, StateOfStep2a
    <3> HIDE DEF s2
    <3> QED
      BY <1>4, <3>1, <3>3
  <2> HIDE DEF s2
  <2>3. /\ asked'[q] = asked[q] /\ left' \in [Peers -> BOOLEAN] /\ left'[q] = left[q]
        /\ ~left'[p] /\ ~Hopeless(left'[p], s2)
    <3>1. left \in [Peers -> BOOLEAN] /\ asked \in [Peers -> BOOLEAN]
      BY LateFacts
    <3> QED
      BY <1>1, <2>1, <2>2, <3>1 DEF Hopeless
  <2> QED
    BY <2>1, <2>2, <2>3, ReceivingLate
<1> QED
  BY <1>3, <1>4

\* p takes a message of a run and answers it with another.
LEMMA AnsweringLate ==
  ASSUME IInv, LateInv, NEW p \in Peers, NEW h, Arrives(p, h), OfRun(h), NEW s2,
         smstate' = [smstate EXCEPT ![p] = s2], UNCHANGED <<asked, left>>,
         NEW w \in Messages, Reply(p, <<w>>), w.type \in {"SMP3", "SMP4"},
         w.body.x = smstate[p].x, s2.x = smstate[p].x, s2.nextExpected # 3,
         s2.g3o \in {smstate[p].g3o, h.body.x},
         w.type = "SMP3" => ~Hopeless(left[Other(p)], smstate[Other(p)])
  PROVE  LateInv'
<1> DEFINE q == Other(p)
<1>1. /\ net \in [Peers -> Seq(Messages)] /\ net[q] \in Seq(Messages)
      /\ net[p] \in Seq(Messages) /\ left \in [Peers -> BOOLEAN] /\ q # p
      /\ smstate \in [Peers -> States]
      /\ left[p] => ~asked[p] /\ smstate[p].nextExpected # 3
  BY LateFacts, InvFacts
<1>2. net[p] # <<>> /\ h = Head(net[p])
  BY DEF Arrives
<1>3. net'[p] = Tail(net[p]) /\ net'[q] = net[q] \o <<w>>
  BY ONLY p \in Peers, Reply(p, <<w>>), <1>1, <1>2, Replying
<1>4. Elements(net[q] \o <<w>>) = Elements(net[q]) \cup {w}
  <2>1. net[q] \in Seq(Messages)
    BY <1>1
  <2> QED
    BY ONLY <2>1, w \in Messages, QueueAdd
<1>5. h \in Elements(net[p]) /\ Elements(net'[p]) \subseteq Elements(net[p])
  BY <1>1, <1>2, <1>3, QueueTail
<1>6. smstate'[p] = s2 /\ smstate'[q] = smstate[q]
  BY <1>1, EndsFacts
<1>7. /\ left' \in [Peers -> BOOLEAN] /\ left'[q] = left[q] /\ asked'[q] = asked[q]
      /\ left'[p] => ~asked'[p] /\ s2.nextExpected # 3
      /\ s2.x \in {0, smstate[p].x, exponents + 1}
  BY <1>1
<1>8. \A k \in Elements(net'[q]) :
        \/ k \in Elements(net[q])
        \/ /\ k.type = "SMP3" => ~Hopeless(left[q], smstate[q])
           /\ k.type = "SMP2" /\ Hopeless(left'[p], s2) => Parts(k) = {}
           /\ OfRun(k) => k.body.x \in {smstate[p].x, exponents + 1}
  BY <1>3, <1>4
<1>9. Hopeless(left'[p], s2) =>
        /\ Hopeless(left[p], smstate[p]) \/ asked[p]
        /\ \/ s2.g3o \in {0, smstate[p].g3o}
           \/ \E k \in Elements(net[p]) : OfRun(k) /\ s2.g3o = k.body.x
  BY <1>5 DEF Hopeless
<1> QED
  BY ONLY IInv, LateInv, p \in Peers, <1>5, <1>6, <1>7, <1>8, <1>9, LateAfter

\* To an end that gave an answer made of nothing no SMP3 is sent.
LEMMA ReceiveSMP2Late ==
  ASSUME IInv, LateInv, NEW p \in Peers, NEW h, Arrives(p, h), h.type = "SMP2",
         ReceiveSMP2(p, h.body)
  PROVE  LateInv'
<1> DEFINE q == Other(p)  m == h.body
           s == Step3(smstate[p], m)
<1>1. /\ smstate[p] \in States /\ session[p] \in Nat /\ q \in Peers /\ OfRun(h)
      /\ private[p]
  BY InvFacts DEF OfRun, Arrives
<1>2. m.x \in Nat /\ m.q \in Values
  BY ArrivalFacts, MessageShape
<1>3. s \in States /\ s.x = smstate[p].x /\ s.g3o \in {smstate[p].g3o, m.x}
  BY ONLY <1>1, <1>2, StateOfStep3
<1>4. CASE smstate[p].nextExpected # 2
  BY <1>4, UnexpectedLate DEF ReceiveSMP2
<1>5. CASE smstate[p].nextExpected = 2 /\ ~Step3Verifies(smstate[p], m)
  <2>1. Cheated(p, s)
    BY <1>5 DEF ReceiveSMP2
  <2> HIDE DEF s
  <2> QED
    BY <1>1, <1>3, <2>1, CheatedLate
<1>6. CASE smstate[p].nextExpected = 2 /\ Step3Verifies(smstate[p], m)
  <2> DEFINE s2 == [s EXCEPT !.nextExpected = 4]
             w == Message("SMP3", session[p], [x |-> s.x, q |-> s.q, qab |-> s.qab])
  <2>1. ~Hopeless(left[q], smstate[q])
    <3>1. smstate[p].x \in Parts(h)
      BY <1>6 DEF Step3Verifies, Parts
    <3>2. h \in Elements(net[p]) /\ Other(q) = p
      BY ArrivalFacts, EndsFacts
    <3>3. ASSUME Hopeless(left[q], smstate[q]) PROVE FALSE
      <4>1. Spent(Elements(net[q]), Elements(net[p]), smstate[q], smstate[p].x)
        BY <1>1, <3>2, <3>3 DEF LateInv, LeftInv
      <4> QED
        BY <3>1, <3>2, <4>1 DEF Spent
    <3> QED
      BY <3>3
  <2>2. /\ smstate' = [smstate EXCEPT ![p] = s2] /\ Reply(p, <<w>>)
        /\ UNCHANGED <<asked, left>>
    BY <1>1, <1>6 DEF ReceiveSMP2, Sent
  <2>3. s2.nextExpected = 4 /\ s2.x = s.x /\ s2.g3o = s.g3o
    <3>1. s \in States /\ 4 \in 1 .. 4
      BY <1>3
    <3> QED
      BY ONLY <3>1, StateExpecting
  <2>4. w \in Messages /\ w.type = "SMP3" /\ w.body.x = s.x
    <3>1. s.x \in Nat /\ s.q \in Values /\ s.qab \in Values \X Values
      BY <1>3 DEF States
    <3> QED
      BY <1>1, <3>1 DEF Message, Messages
  <2> HIDE DEF s, s2, w
  <2>5. /\ w.type \in {"SMP3", "SMP4"} /\ w.body.x = smstate[p].x
        /\ s2.x = smstate[p].x /\ s2.nextExpected # 3
        /\ s2.g3o \in {smstate[p].g3o, h.body.x}
    BY <1>3, <2>3, <2>4
  <2>6. w.type = "SMP3" => ~Hopeless(left[Other(p)], smstate[Other(p)])
    BY <2>1
  <2> QED
    BY ONLY IInv, LateInv, p \in Peers, Arrives(p, h), <1>1, <2>2, <2>4, <2>5, <2>6,
       AnsweringLate
<1> QED
  BY <1>4, <1>5, <1>6

LEMMA ReceiveSMP3Late ==
  ASSUME IInv, LateInv, NEW p \in Peers, NEW h, Arrives(p, h), h.type = "SMP3",
         ReceiveSMP3(p, h.body)
  PROVE  LateInv'
<1> DEFINE q == Other(p)  m == h.body
           s == Step4(smstate[p], m)
<1>1. /\ smstate[p] \in States /\ session[p] \in Nat /\ OfRun(h) /\ private[p]
  BY InvFacts DEF OfRun, Arrives
<1>2. m.q \in Values
  BY ArrivalFacts, MessageShape
<1>3. s \in States /\ s.x = smstate[p].x /\ s.g3o = smstate[p].g3o
  BY ONLY <1>1, <1>2, StateOfStep4
<1>4. CASE smstate[p].nextExpected # 3
  BY <1>4, UnexpectedLate DEF ReceiveSMP3
<1>5. CASE Cheated(p, s)
  <2> HIDE DEF s
  <2> QED
    BY <1>3, <1>5, CheatedLate
<1>6. CASE smstate[p].nextExpected = 3 /\ ~Cheated(p, s)
  <2> DEFINE s2 == [s EXCEPT !.nextExpected = 1]
             w == Message("SMP4", session[p], [x |-> s.x, qab |-> s.qab])
  <2>1. /\ smstate' = [smstate EXCEPT ![p] = s2] /\ Reply(p, <<w>>)
        /\ UNCHANGED <<asked, left>>
    BY <1>1, <1>6 DEF ReceiveSMP3, Sent
  <2>2. s2.nextExpected = 1 /\ s2.x = s.x /\ s2.g3o = s.g3o
    <3>1. s \in States /\ 1 \in 1 .. 4
      BY <1>3
    <3> QED
      BY ONLY <3>1, StateExpecting
  <2>3. w \in Messages /\ w.type = "SMP4" /\ w.body.x = s.x
    <3>1. s.x \in Nat /\ s.qab \in Values \X Values
      BY <1>3 DEF States
    <3> QED
      BY <1>1, <3>1 DEF Message, Messages
  <2> HIDE DEF s, s2, w
  <2>4. /\ w.type \in {"SMP3", "SMP4"} /\ w.body.x = smstate[p].x
        /\ s2.x = smstate[p].x /\ s2.nextExpected # 3
        /\ s2.g3o \in {smstate[p].g3o, h.body.x} /\ w.type # "SMP3"
    BY <1>3, <2>2, <2>3
  <2> QED
    BY ONLY IInv, LateInv, p \in Peers, Arrives(p, h), <1>1, <2>1, <2>3, <2>4,
       AnsweringLate
<1> QED
  BY <1>4, <1>5, <1>6

LEMMA ReceiveSMP4Late ==
  ASSUME IInv, LateInv, NEW p \in Peers, NEW h, Arrives(p, h), h.type = "SMP4",
         ReceiveSMP4(p, h.body)
  PROVE  LateInv'
<1> DEFINE s == smstate[p]
           s2 == [s EXCEPT !.nextExpected = 1]
<1>1. s \in States /\ 1 \in 1 .. 4
  BY InvFacts
<1>2. CASE s.nextExpected # 4
  BY <1>2, UnexpectedLate DEF ReceiveSMP4
<1>3. CASE Cheated(p, s)
  BY <1>1, <1>3, CheatedLate
<1>4. CASE s.nextExpected = 4 /\ ~Cheated(p, s)
  <2>1. /\ smstate' = [smstate EXCEPT ![p] = s2] /\ Reply(p, <<>>)
        /\ UNCHANGED <<asked, left>>
    BY <1>4 DEF ReceiveSMP4
  <2>2. s2.nextExpected = 1 /\ s2.x = s.x /\ s2.g3o = s.g3o
    BY ONLY <1>1, StateExpecting
  <2> HIDE DEF s2
  <2> QED
    BY <2>1, <2>2, RestingLate
<1> QED
  BY <1>2, <1>3, <1>4

LEMMA ReceiveLate ==
  ASSUME IInv, LateInv, NEW p \in Peers, Receive(p)
  PROVE  LateInv'
<1> DEFINE h == Head(net[p])
<1>1. /\ Arrives(p, h)
      /\ \/ h.type = "SMP1" /\ ReceiveSMP1(p, h.body) /\ UNCHANGED private
         \/ h.type = "SMP2" /\ ReceiveSMP2(p, h.body) /\ UNCHANGED private
         \/ h.type = "SMP3" /\ ReceiveSMP3(p, h.body) /\ UNCHANGED private
         \/ h.type = "SMP4" /\ ReceiveSMP4(p, h.body) /\ UNCHANGED private
         \/ h.type = "ABORT" /\ ReceiveAbort(p) /\ UNCHANGED private
         \/ h.type = "DISCONNECTED" /\ ReceiveDisconnected(p)
  BY Arriving
<1> HIDE DEF h
<1> QED
  BY <1>1, ReceiveSMP1Late, ReceiveSMP2Late, ReceiveSMP3Late, ReceiveSMP4Late,
     ReceiveAbortLate, ReceiveDisconnectedLate

-----------------------------------------------------------------------------
(* The invariant.                                                           *)

LEMMA InitHolds == Init => IInv /\ LateInv
<1> SUFFICES ASSUME Init PROVE IInv /\ LateInv
  OBVIOUS
<1> USE DEF Init
<1>1. 1 \in Keys /\ {1} \subseteq Keys /\ MaxEvents \in Nat
  BY BoundsAreNat DEF Keys
<1>2. privkey \in [Peers -> Keys] /\ \A p \in Peers : privkey[p] <= events + 1
  BY <1>1
<1>3. sessions \in Seq([Peers -> Keys]) /\ Len(sessions) = 1
  BY <1>2
<1>4. trusted \in [Peers -> SUBSET Keys]
  BY <1>1, VerifiedAreKeys DEF Peers
<1>5. aborting \subseteq Peers
  BY AbortingAreEnds DEF Peers
<1>6. net \in [Peers -> Seq(Messages)] /\ entered \in [Peers -> Seq(Entries)]
  <2>1. <<>> \in Seq(Messages) /\ <<>> \in Seq(Entries)
    BY EmptySeq
  <2> QED
    BY <2>1
<1>7. smstate \in [Peers -> States]
  BY FreshIsAState
<1>8. /\ session \in [Peers -> Nat] /\ \A p \in Peers : session[p] \in 1 .. Len(sessions)
      /\ private \in [Peers -> BOOLEAN] /\ asked \in [Peers -> BOOLEAN]
      /\ exponents \in Nat /\ runs \in Nat /\ events \in 0 .. MaxEvents
  <2>1. events \in {0, 1}
    OBVIOUS
  <2>2. {0, 1} \subseteq 0 .. MaxEvents
    BY ONLY BoundsAreNat
  <2> QED
    BY <1>3, <2>1, <2>2
<1>9. TypeInv
  BY <1>2, <1>3, <1>4, <1>5, <1>6, <1>7, <1>8 DEF TypeInv
<1>10. ASSUME NEW p \in Peers PROVE LogInv(entered[p], p, sessions)
  <2>1. Len(entered[p]) = 0
    BY EmptySeq
  <2> QED
    BY <2>1 DEF LogInv
<1> DEFINE o == [e \in Nat |-> A]
<1>11. o \in Ownerships
  BY DEF Ownerships, Peers
<1> HIDE DEF o
<1>12. ASSUME NEW p \in Peers
       PROVE  /\ View(p, {}, {}, Fresh, 0, FALSE, o)
              /\ StateInv(Fresh, p, FALSE, o, 0, <<>>)
              /\ InOrder(<<>>, p, o)
  <2>1. /\ Fresh.x = 0 /\ Fresh.g3o = 0 /\ Fresh.g = {} /\ Fresh.nextExpected = 1
    BY DEF Fresh, NULL
  <2>2. View(p, {}, {}, Fresh, 0, FALSE, o)
    BY <2>1 DEF View, ReceivedInv, AnsweredInv, AskedInv, ResponderInv, InitiatorInv,
       BeforeAll, UpTo
  <2>3. StateInv(Fresh, p, FALSE, o, 0, <<>>)
    BY <2>1 DEF StateInv
  <2>4. InOrder(<<>>, p, o)
    BY DEF InOrder
  <2> QED
    BY <2>2, <2>3, <2>4
<1>13. ASSUME NEW p \in Peers
       PROVE  Run(p, <<>>, <<>>, Fresh, Fresh, FALSE, FALSE, <<>>, <<>>, 0, o)
  <2>1. Other(p) \in Peers /\ Fresh.x = 0
    BY EndsFacts DEF Fresh, NULL
  <2>2. Elements(<<>>) = {}
    BY DEF Elements
  <2>3. Ends(p, {}, {}, Fresh, Fresh, FALSE, FALSE, <<>>, <<>>, 0, o)
    BY <1>12, <2>1 DEF Ends
  <2> QED
    BY <1>12, <2>1, <2>2, <2>3 DEF Run
<1>14. RunInv(o)
  BY <1>13, EndsFacts DEF RunInv
<1>15. IInv
  BY <1>9, <1>10, <1>11, <1>14 DEF IInv
<1>16. left \in [Peers -> BOOLEAN]
  BY LeftOpenAreBoolean DEF Peers
<1>17. ASSUME NEW p \in Peers PROVE LeftInv(p)
  <2>1. Elements(<<>>) = {} /\ Other(p) \in Peers
    BY EndsFacts DEF Elements
  <2>2. Spent({}, {}, smstate[p], smstate[Other(p)].x)
    BY DEF Spent
  <2>3. smstate[p].nextExpected = 1 /\ ~asked[p]
    BY DEF Fresh
  <2>4. Elements(net[p]) = {} /\ Elements(net[Other(p)]) = {}
    BY <2>1
  <2>5. Spent(Elements(net[p]), Elements(net[Other(p)]), smstate[p], smstate[Other(p)].x)
    BY ONLY <2>2, <2>4
  <2> QED
    BY ONLY <2>3, <2>5 DEF LeftInv
<1> QED
  BY <1>15, <1>16, <1>17 DEF LateInv

LEMMA NextKeeps == IInv /\ LateInv /\ [Next]_vars => (IInv /\ LateInv)'
<1> SUFFICES ASSUME IInv, LateInv, [Next]_vars PROVE IInv' /\ LateInv'
  OBVIOUS
<1>1. CASE UNCHANGED vars
  <2>1. TypeInv' /\ \A p \in Peers : LogInv(entered[p], p, sessions)'
    BY <1>1 DEF IInv, TypeInv, vars
  <2>2. \E o \in Ownerships : RunInv(o)'
    BY <1>1 DEF IInv, RunInv, vars
  <2>3. LateInv'
    BY <1>1 DEF LateInv, LeftInv, vars
  <2> QED
    BY <2>1, <2>2, <2>3 DEF IInv
<1>2. ASSUME NEW p \in Peers, NEW question \in Questions, NEW typed \in Secrets,
             Initiate(p, question, typed)
      PROVE  IInv' /\ LateInv'
  BY <1>2, InitiateKeeps, InitiateLate
<1>3. ASSUME NEW p \in Peers, NEW typed \in Secrets,
             Respond(p, typed) \/ RespondLate(p, typed)
      PROVE  IInv' /\ LateInv'
  <2>1. private[p]
    BY <1>3 DEF Respond, RespondLate
  <2> QED
    BY <1>3, <2>1, RespondKeeps, RespondLateKeeps, AnswerLate
<1>4. ASSUME NEW p \in Peers, Crash(p) PROVE IInv' /\ LateInv'
  BY <1>4, CrashKeeps, LeavingLate
<1>5. ASSUME NEW p \in Peers, Abort(p) PROVE IInv' /\ LateInv'
  BY <1>5, AbortKeeps, AbortLate
<1>6. ASSUME NEW p \in Peers, Receive(p) PROVE IInv' /\ LateInv'
  BY <1>6, ReceiveKeeps, ReceiveLate
<1>7. ASSUME NEW p \in Peers, Lose(p) PROVE IInv' /\ LateInv'
  BY <1>7, LoseKeeps, LoseLate
<1>8. ASSUME NEW p \in Peers, GoEncrypted(p) PROVE IInv' /\ LateInv'
  <2>1. UNCHANGED <<left, asked, smstate, net>>
    BY <1>8 DEF GoEncrypted
  <2>2. LateInv'
    BY <2>1 DEF LateInv, LeftInv
  <2> QED
    BY <1>8, <2>2, GoEncryptedKeeps
<1>9. ASSUME NEW p \in Peers, Disconnect(p) PROVE IInv' /\ LateInv'
  BY <1>9, DisconnectKeeps, DisconnectLate
<1>10. ASSUME NEW p \in Peers, Restart(p) PROVE IInv' /\ LateInv'
  BY <1>10, RestartKeeps, LeavingLate
<1> QED
  BY <1>1, <1>2, <1>3, <1>4, <1>5, <1>6, <1>7, <1>8, <1>9, <1>10 DEF Next

\* The inductive invariant: what is on the way between two ends, what they have
\* stored (sm.c:70-110) and what their users typed belong to runs in order; and
\* what an answer given too late is made of, no run is built on.
THEOREM Invariance == Spec => [](IInv /\ LateInv)
BY InitHolds, NextKeeps, PTL DEF Spec

\* The values a message is answered with have been made by an earlier step, and so
\* have those for the answer to a question of the conversation that is still on: no
\* message out of order, no abort (message.c:859) and no end of a conversation
\* brings an end to a step it has no values for (message.c:782-786, 1512, 1567,
\* 1627).  The one exception is a step of the specification, not a thing assumed
\* away: an answer to a question of a conversation that has ended may meet values
\* never made, and ends the program (Crash); if it meets those of another run, the
\* program goes on (RespondLate), and the theorem holds of what follows.
THEOREM TypesOK == Spec => []TypeOK
<1>1. ASSUME IInv, LateInv PROVE TypeOK
  <2>1. /\ TypeInv /\ exponents \in Nat
        /\ private \in [Peers -> BOOLEAN] /\ {asked, left} \subseteq [Peers -> BOOLEAN]
    BY <1>1 DEF IInv, TypeInv, LateInv
  <2>2. ASSUME NEW p \in Peers
        PROVE  LET s == smstate[p]
               IN  /\ s.nextExpected \in 1 .. 4 /\ s.received_question \in BOOLEAN
                   /\ {s.x, s.g3o} \cup s.g \subseteq 0 .. exponents
                   /\ session[p] \in DOMAIN sessions
                   /\ trusted[p] \subseteq 1 .. MaxEvents + 1
                   /\ asked[p] => NULL \notin {s.x, s.g3o} /\ s.g # {}
                   /\ s.nextExpected # 1 => s.x # NULL /\ s.secret # NoSecret
                   /\ s.nextExpected = 3 => s.q = <<s.g, s.secret>>
                   /\ s.nextExpected = 4 => s.qab[1] = <<s.g, s.secret>> /\ s.g3o # NULL
    <3> DEFINE s == smstate[p]
    <3>1. PICK o \in Ownerships : StateInv(s, p, asked[p], o, exponents, entered[p])
      BY <1>1 DEF IInv, RunInv, Run, Ends
    <3>2. s.nextExpected \in 1 .. 4 /\ s.received_question \in BOOLEAN
      BY <2>1 DEF TypeInv, States
    <3>3. session[p] \in DOMAIN sessions /\ trusted[p] \subseteq 1 .. MaxEvents + 1
      BY <2>1 DEF TypeInv, Keys
    <3> HIDE DEF s
    <3>4. {s.x, s.g3o} \cup s.g \subseteq 0 .. exponents
      BY <2>1, <3>1 DEF StateInv
    <3>5. asked[p] => s.x # 0 /\ s.g3o # 0 /\ s.g # {}
      BY <3>1 DEF StateInv
    <3>6. \A e : AskSecret(e) # <<>> /\ AnswerSecret(e) # <<>>
      BY DEF AskSecret, AnswerSecret, Combined
    <3>7. s.nextExpected # 1 => s.x # 0 /\ s.secret # <<>>
      <4>1. s.nextExpected # 1 => s.nextExpected = 3 \/ s.nextExpected \in {2, 4}
        BY <3>2
      <4> QED
        BY <3>1, <3>6, <4>1 DEF StateInv
    <3>8. /\ s.nextExpected = 3 => s.q = <<s.g, s.secret>>
          /\ s.nextExpected = 4 => s.qab[1] = <<s.g, s.secret>> /\ s.g3o # 0
      BY <3>1 DEF StateInv
    <3> QED
      BY <3>2, <3>3, <3>4, <3>5, <3>7, <3>8 DEF s, NULL, NoSecret
  <2> QED
    BY <2>1, <2>2 DEF TypeOK
<1> QED
  BY <1>1, Invariance, PTL
-----------------------------------------------------------------------------
(* The comparison that users rely on.                                       *)

Waiting == [p \in Peers |-> IF smstate[p].nextExpected = 1 THEN 0 ELSE Len(entered[p])]

LEMMA SameEnds ==
  /\ Comparison!Peers = Peers /\ \A p : Comparison!Other(p) = Other(p)
  /\ Comparison!vars = <<entered, Waiting, trusted>>
BY DEF Comparison!Peers, Peers, Comparison!Other, Other, Comparison!vars, Waiting

\* What p waits for; the other goes on waiting.
LEMMA WaitingOf ==
  ASSUME TypeInv, NEW p \in Peers, NEW s2 \in States, smstate' = [smstate EXCEPT ![p] = s2],
         entered'[Other(p)] = entered[Other(p)]
  PROVE  Waiting' = [Waiting EXCEPT ![p] = IF s2.nextExpected = 1 THEN 0 ELSE Len(entered'[p])]
<1> DEFINE new == IF s2.nextExpected = 1 THEN 0 ELSE Len(entered'[p])
<1>1. smstate \in [Peers -> States] /\ Peers = {p, Other(p)} /\ Other(p) # p
  BY EndsFacts DEF TypeInv
<1>2. smstate'[p] = s2 /\ smstate'[Other(p)] = smstate[Other(p)]
  BY <1>1
<1>3. Waiting' = [r \in Peers |-> IF smstate'[r].nextExpected = 1 THEN 0 ELSE Len(entered'[r])]
  BY DEF Waiting
<1>4. Waiting'[p] = new
  BY <1>2, <1>3
<1>5. Waiting'[Other(p)] = Waiting[Other(p)]
  BY <1>1, <1>2, <1>3 DEF Waiting
<1> HIDE DEF new
<1>6. /\ Waiting = [r \in Peers |-> Waiting[r]] /\ Waiting' = [r \in Peers |-> Waiting'[r]]
  BY <1>3 DEF Waiting
<1> HIDE DEF Waiting
<1>7. Waiting' = [Waiting EXCEPT ![p] = new]
  BY <1>1, <1>4, <1>5, <1>6
<1> QED
  BY <1>7 DEF new

\* p gives up what it waited for, or still waits for it.
LEMMA Resting ==
  ASSUME TypeInv, NEW p \in Peers, NEW s2 \in States, smstate' = [smstate EXCEPT ![p] = s2],
         UNCHANGED <<entered, trusted>>,
         s2.nextExpected = 1 \/ smstate[p].nextExpected # 1
  PROVE  [Comparison!Next]_(Comparison!vars)
<1>1. Waiting' = [Waiting EXCEPT ![p] = IF s2.nextExpected = 1 THEN 0 ELSE Len(entered[p])]
  BY WaitingOf
<1>2. CASE s2.nextExpected = 1
  <2>1. Comparison!GiveUp(p)
    BY <1>1, <1>2 DEF Comparison!GiveUp, Waiting
  <2> QED
    BY <2>1, SameEnds DEF Comparison!Next
<1>3. CASE s2.nextExpected # 1
  <2>1. Waiting[p] = Len(entered[p])
    BY <1>3 DEF Waiting
  <2>2. Waiting = [r \in Peers |-> Waiting[r]]
    BY DEF Waiting
  <2>3. Waiting' = Waiting
    BY <1>1, <1>3, <2>1, <2>2
  <2> QED
    BY <2>3, SameEnds DEF Waiting, Comparison!vars
<1> QED
  BY <1>2, <1>3

\* p types a secret and waits for the verdict.
LEMMA Entering ==
  ASSUME TypeInv, NEW p \in Peers, NEW s2 \in States, smstate' = [smstate EXCEPT ![p] = s2],
         s2.nextExpected # 1, NEW e \in Entries,
         entered' = [entered EXCEPT ![p] = Append(@, e)], UNCHANGED trusted
  PROVE  [Comparison!Next]_(Comparison!vars)
<1>1. entered \in [Peers -> Seq(Entries)] /\ Other(p) \in Peers /\ Other(p) # p
  BY EndsFacts DEF TypeInv
<1>2. /\ Len(entered[p]) \in Nat /\ Len(Append(entered[p], e)) = Len(entered[p]) + 1
      /\ Append(entered[p], e)[Len(entered[p]) + 1] = e
  BY <1>1, LogGrows
<1>3. entered'[p] = Append(entered[p], e) /\ entered'[Other(p)] = entered[Other(p)]
  BY <1>1
<1>4. Waiting' = [Waiting EXCEPT ![p] = Len(entered[p]) + 1]
  BY <1>2, <1>3, WaitingOf
<1>5. entered' = [entered EXCEPT ![p] = Append(@, entered'[p][Len(@) + 1])]
  BY <1>2, <1>3
<1>6. Comparison!Enter(p)
  BY <1>2, <1>3, <1>4, <1>5 DEF Comparison!Enter, Waiting
<1> QED
  BY <1>6, SameEnds DEF Comparison!Next

\* p's verdict on what it typed, mine, and the other did, is the right one.
Verdict(p, mine, theirs) ==
  /\ mine.asker = theirs.asker
  /\ \/ ~Comparison!Learns(p, mine) /\ UNCHANGED trusted
     \/ /\ Comparison!Learns(p, mine) /\ Comparison!Agree(mine, theirs)
        /\ mine.peer = Active(p) /\ trusted' = [trusted EXCEPT ![p] = @ \cup {Active(p)}]
     \/ /\ Comparison!Learns(p, mine) /\ ~Comparison!Agree(mine, theirs)
        /\ trusted' = [trusted EXCEPT ![p] = @ \ {Active(p)}]

\* p comes to a verdict on what it typed last.
LEMMA Concluding ==
  ASSUME IInv, NEW p \in Peers, NEW s2 \in States, smstate' = [smstate EXCEPT ![p] = s2],
         s2.nextExpected = 1, smstate[p].nextExpected # 1, UNCHANGED entered,
         Len(entered[p]) # 0,
         NEW i \in 1 .. Len(entered[Other(p)]),
         Verdict(p, entered[p][Len(entered[p])], entered[Other(p)][i])
  PROVE  [Comparison!Next]_(Comparison!vars)
<1> DEFINE q == Other(p)
           mine == entered[p][Len(entered[p])]
           theirs == entered[q][i]
<1>1. TypeInv /\ entered[p] \in Seq(Entries) /\ entered[q] \in Seq(Entries)
  BY InvFacts
<1>2. Waiting' = [Waiting EXCEPT ![p] = 0]
  BY <1>1, WaitingOf
<1>3. Waiting[p] = Len(entered[p]) /\ Waiting[p] # 0
  BY DEF Waiting
<1>4. theirs \in {entered[q][j] : j \in DOMAIN entered[q]}
  <2>1. i \in DOMAIN entered[q]
    BY <1>1, LenProperties
  <2> QED
    BY <2>1
<1>5. \/ ~Comparison!Learns(p, mine) /\ UNCHANGED trusted
      \/ /\ Comparison!Learns(p, mine) /\ Comparison!Agree(mine, theirs)
         /\ trusted' = [trusted EXCEPT ![p] = @ \cup {mine.peer}]
      \/ /\ Comparison!Learns(p, mine) /\ ~Comparison!Agree(mine, theirs)
         /\ \E key \in {0} \cup trusted[p] :
              trusted' = [trusted EXCEPT ![p] = @ \ {key}]
  <2>1. CASE ~Comparison!Learns(p, mine)
    BY <2>1 DEF Verdict
  <2>2. CASE Comparison!Learns(p, mine) /\ Comparison!Agree(mine, theirs)
    BY <2>2 DEF Verdict
  <2>3. CASE Comparison!Learns(p, mine) /\ ~Comparison!Agree(mine, theirs)
    <3>1. trusted' = [trusted EXCEPT ![p] = @ \ {Active(p)}]
      BY <2>3 DEF Verdict
    <3>2. trusted[p] \subseteq Keys /\ 0 \notin Keys
      BY <1>1 DEF TypeInv, Keys
    <3>3. CASE Active(p) \in trusted[p]
      BY <2>3, <3>1, <3>3
    <3>4. CASE Active(p) \notin trusted[p]
      <4>1. trusted[p] \ {Active(p)} = trusted[p] \ {0}
        BY <3>2, <3>4
      <4>2. trusted' = [trusted EXCEPT ![p] = @ \ {0}]
        BY <3>1, <4>1
      <4> QED
        BY <2>3, <4>2
    <3> QED
      BY <3>3, <3>4
  <2> QED
    BY <2>1, <2>2, <2>3
<1>6. mine.asker = theirs.asker
  BY DEF Verdict
<1> HIDE DEF mine, theirs
<1>7. Comparison!Conclude(p)
  <2>1. Comparison!Other(p) = q
    BY SameEnds
  <2>2. \E other \in {entered[q][j] : j \in DOMAIN entered[q]} :
          /\ mine.asker = other.asker
          /\ \/ ~Comparison!Learns(p, mine) /\ UNCHANGED trusted
             \/ /\ Comparison!Learns(p, mine) /\ Comparison!Agree(mine, other)
                /\ trusted' = [trusted EXCEPT ![p] = @ \cup {mine.peer}]
             \/ /\ Comparison!Learns(p, mine) /\ ~Comparison!Agree(mine, other)
                /\ \E key \in {0} \cup trusted[p] :
                     trusted' = [trusted EXCEPT ![p] = @ \ {key}]
    BY <1>4, <1>5, <1>6
  <2>3. mine = entered[p][Waiting[p]]
    BY <1>3 DEF mine
  <2> QED
    BY <1>2, <1>3, <2>1, <2>2, <2>3 DEF Comparison!Conclude, Waiting
<1> QED
  BY <1>7, SameEnds DEF Comparison!Next

\* The secrets match where what was typed agrees.
LEMMA SecretsTell ==
  ASSUME NEW asked1 \in Entries, NEW answered \in Entries
  PROVE  AskSecret(asked1) = AnswerSecret(answered) <=>
           /\ asked1.session = answered.session /\ asked1.own = answered.peer
           /\ asked1.peer = answered.own /\ asked1.typed = answered.typed
BY DEF AskSecret, AnswerSecret, Combined

LEMMA SMP3Concludes ==
  ASSUME IInv, NEW p \in Peers, NEW h, Arrives(p, h), h.type = "SMP3",
         smstate[p].nextExpected = 3, ReceiveSMP3(p, h.body)
  PROVE  [Comparison!Next]_(Comparison!vars)
<1> DEFINE q == Other(p)  m == h.body
           s0 == smstate[p]
           s == Step4(s0, m)
           s2 == [s EXCEPT !.nextExpected = 1]
           log == entered[p]
           mine == log[Len(log)]
<1>1. /\ TypeInv /\ LogInv(log, p, sessions) /\ s0 \in States
      /\ log \in Seq(Entries) /\ entered[q] \in Seq(Entries)
      /\ Active(p) = sessions[session[p]][q]
      /\ q \in Peers /\ q # p
  BY InvFacts
<1>2. h \in Messages /\ m.q \in Values /\ m.qab \in Values \X Values
  BY ArrivalFacts, MessageShape
<1>3. PICK o \in Ownerships :
        Run(p, net[p], net[q], s0, smstate[q], asked[p], asked[q], log, entered[q],
            exponents, o)
  BY ArrivalFacts
<1>4. h \in Elements(net[p])
  BY ArrivalFacts
<1>5. /\ m.qab[1] = m.q /\ m.qab[2] = s0.q /\ m.q[1] = s0.g /\ m.x = s0.g3o
  <2>1. Ends(p, Elements(net[p]), Elements(net[q]), s0, smstate[q], asked[p], asked[q], log,
             entered[q], exponents, o)
    BY <1>3 DEF Run
  <2>2. exponents \in Nat
    BY <1>1 DEF TypeInv
  <2> QED
    BY <1>4, <2>1, <2>2, SMP3IsExpected
<1>6. /\ AskedFor(m.q[2], entered[q], q)
      /\ AnsweredWith(s0.q[2], log, q, h.session)
  BY <1>3, <1>4, <1>5 DEF Run, Ends, MessageInv
<1>7. /\ Len(log) # 0 /\ mine.asker = q /\ mine.question = s0.received_question
      /\ s0.q = <<s0.g, s0.secret>> /\ s0.secret = AnswerSecret(mine)
  BY <1>3 DEF Run, Ends, StateInv
<1>8. s0.q[2] = AnswerSecret(mine)
  BY <1>7
<1>9. PICK i \in 1 .. Len(entered[q]) :
        entered[q][i].asker = q /\ m.q[2] = AskSecret(entered[q][i])
  BY <1>6 DEF AskedFor
<1>10. PICK j \in 1 .. Len(log) : log[j].session = h.session /\ s0.q[2] = AnswerSecret(log[j])
  BY <1>6 DEF AnsweredWith
<1>11. /\ mine \in Entries /\ entered[q][i] \in Entries /\ log[j] \in Entries
       /\ Len(log) \in 1 .. Len(log)
  <2>1. Len(log) \in Nat /\ Len(log) \in 1 .. Len(log)
    BY <1>1, <1>7, LenProperties
  <2> QED
    BY <1>1, <2>1, ElementOfSeq
<1>12. /\ s \in States /\ s.received_question = s0.received_question
       /\ s.qab[1] = m.q /\ s.qab[2] = s0.q
  BY ONLY <1>1, <1>2, <1>5, StateOfStep4
<1>13. s2 \in States /\ s2.nextExpected = 1
  <2>1. 1 \in 1 .. 4
    OBVIOUS
  <2> QED
    BY <1>12, <2>1, StateExpecting
<1>14. Step4Verifies(s0, m)
  <2>1. m.qab = <<m.q, s0.q>>
    BY <1>2, <1>5
  <2> QED
    BY <1>5, <2>1 DEF Step4Verifies
<1>15. /\ smstate' = [smstate EXCEPT ![p] = s2]
       /\ IF s.received_question THEN UNCHANGED trusted ELSE Trusted(p, SecretsMatch(s))
  BY <1>14 DEF ReceiveSMP3, Trusted
<1>16. SecretsMatch(s) <=> AskSecret(entered[q][i]) = AnswerSecret(mine)
  BY <1>8, <1>9, <1>12 DEF SecretsMatch
<1>17. mine.peer = Active(p)
  <2>1. AnswerSecret(log[j]) = AnswerSecret(mine)
    BY <1>8, <1>10
  <2>2. log[j].session = mine.session
    BY <2>1 DEF AnswerSecret, Combined
  <2>3. mine.session = session[p]
    BY <1>10, <2>2 DEF Arrives
  <2> QED
    BY <1>1, <1>11, <2>3 DEF LogInv
<1>18. \/ ~Comparison!Learns(p, mine) /\ UNCHANGED trusted
       \/ Comparison!Learns(p, mine) /\ Trusted(p, SecretsMatch(s))
  BY <1>1, <1>7, <1>12, <1>15 DEF Comparison!Learns
<1>19. SecretsMatch(s) <=> Comparison!Agree(mine, entered[q][i])
  BY <1>11, <1>16, SecretsTell DEF Comparison!Agree, Comparison!SameKeys
<1>20. UNCHANGED entered
  BY DEF Arrives
<1>21. Verdict(p, mine, entered[q][i])
  <2>1. mine.asker = entered[q][i].asker
    BY <1>7, <1>9
  <2>2. CASE SecretsMatch(s)
    BY <1>17, <1>18, <1>19, <2>1, <2>2 DEF Verdict, Trusted
  <2>3. CASE ~SecretsMatch(s)
    BY <1>18, <1>19, <2>1, <2>3 DEF Verdict, Trusted
  <2> QED
    BY <2>2, <2>3
<1> HIDE DEF s2, s
<1>22. /\ s2 \in States /\ smstate' = [smstate EXCEPT ![p] = s2] /\ s2.nextExpected = 1
       /\ smstate[p].nextExpected # 1 /\ UNCHANGED entered
  BY <1>13, <1>15, <1>20
<1>23. /\ Len(entered[p]) # 0 /\ i \in 1 .. Len(entered[Other(p)])
       /\ Verdict(p, entered[p][Len(entered[p])], entered[Other(p)][i])
  BY <1>7, <1>21
<1> QED
  BY ONLY IInv, p \in Peers, <1>22, <1>23, Concluding

LEMMA SMP4Concludes ==
  ASSUME IInv, NEW p \in Peers, NEW h, Arrives(p, h), h.type = "SMP4",
         smstate[p].nextExpected = 4, ReceiveSMP4(p, h.body)
  PROVE  [Comparison!Next]_(Comparison!vars)
<1> DEFINE q == Other(p)  m == h.body
           s == smstate[p]
           s2 == [s EXCEPT !.nextExpected = 1]
           log == entered[p]
           mine == log[Len(log)]
<1>1. /\ TypeInv /\ LogInv(log, p, sessions) /\ s \in States
      /\ log \in Seq(Entries) /\ entered[q] \in Seq(Entries)
      /\ Active(p) = sessions[session[p]][q]
      /\ q \in Peers /\ q # p
  BY InvFacts
<1>2. PICK o \in Ownerships :
        Run(p, net[p], net[q], s, smstate[q], asked[p], asked[q], log, entered[q],
            exponents, o)
  BY ArrivalFacts
<1>3. h \in Elements(net[p])
  BY ArrivalFacts
<1>4. m.qab = s.qab
  BY <1>2, <1>3 DEF Run, Ends, View, InitiatorInv
<1>5. /\ Len(log) # 0 /\ mine.asker = p /\ s.secret = AskSecret(mine)
      /\ s.qab[1] = <<s.g, s.secret>> /\ s.g = {s.x, s.g3o} /\ s.x # 0 /\ o[s.x] = p
  BY <1>2 DEF Run, Ends, StateInv
<1>6. /\ m.x \in Parts(h) /\ o[m.x] = q
      /\ AnsweredWith(m.qab[2][2], entered[q], p, h.session)
  BY <1>2, <1>3 DEF Run, Ends, MessageInv, OfRun
<1>7. m.x = s.g3o
  <2>1. Parts(h) = s.g
    BY <1>4, <1>5 DEF Parts
  <2> QED
    BY <1>1, <1>5, <1>6, <2>1
<1>8. Step5Verifies(s, m)
  BY <1>4, <1>7 DEF Step5Verifies
<1>9. smstate' = [smstate EXCEPT ![p] = s2] /\ Trusted(p, SecretsMatch(s))
  BY <1>8 DEF ReceiveSMP4, Trusted
<1>10. PICK i \in 1 .. Len(entered[q]) :
         /\ entered[q][i].asker = p /\ entered[q][i].session = h.session
         /\ s.qab[2][2] = AnswerSecret(entered[q][i])
  BY <1>4, <1>6 DEF AnsweredWith
<1>11. /\ mine \in Entries /\ entered[q][i] \in Entries
       /\ Len(log) \in 1 .. Len(log)
  <2>1. Len(log) \in Nat /\ Len(log) \in 1 .. Len(log)
    BY <1>1, <1>5, LenProperties
  <2> QED
    BY <1>1, <2>1, ElementOfSeq
<1>12. s2 \in States /\ s2.nextExpected = 1
  <2>1. 1 \in 1 .. 4
    OBVIOUS
  <2> QED
    BY <1>1, <2>1, StateExpecting
<1>13. SecretsMatch(s) <=> AskSecret(mine) = AnswerSecret(entered[q][i])
  <2>1. s.qab[1][2] = AskSecret(mine)
    BY <1>5
  <2> QED
    BY <1>10, <2>1 DEF SecretsMatch
<1>14. SecretsMatch(s) => mine.peer = Active(p)
  <2>1. SecretsMatch(s) => mine.session = session[p]
    BY <1>10, <1>11, <1>13, SecretsTell DEF Arrives
  <2> QED
    BY <1>1, <1>11, <2>1 DEF LogInv
<1>15. Comparison!Learns(p, mine)
  BY <1>5 DEF Comparison!Learns
<1>16. SecretsMatch(s) <=> Comparison!Agree(mine, entered[q][i])
  BY <1>11, <1>13, SecretsTell DEF Comparison!Agree, Comparison!SameKeys
<1>17. UNCHANGED entered
  BY DEF Arrives
<1>18. Verdict(p, mine, entered[q][i])
  <2>1. mine.asker = entered[q][i].asker
    BY <1>5, <1>10
  <2>2. CASE SecretsMatch(s)
    BY <1>9, <1>14, <1>15, <1>16, <2>1, <2>2 DEF Verdict, Trusted
  <2>3. CASE ~SecretsMatch(s)
    BY <1>9, <1>15, <1>16, <2>1, <2>3 DEF Verdict, Trusted
  <2> QED
    BY <2>2, <2>3
<1> HIDE DEF s2
<1>19. /\ s2 \in States /\ smstate' = [smstate EXCEPT ![p] = s2] /\ s2.nextExpected = 1
       /\ smstate[p].nextExpected # 1 /\ UNCHANGED entered
  BY <1>9, <1>12, <1>17
<1>20. /\ Len(entered[p]) # 0 /\ i \in 1 .. Len(entered[Other(p)])
       /\ Verdict(p, entered[p][Len(entered[p])], entered[Other(p)][i])
  BY <1>5, <1>18
<1> QED
  BY ONLY IInv, p \in Peers, <1>19, <1>20, Concluding

\* A message that concludes nothing.
LEMMA UnexpectedRests ==
  ASSUME IInv, NEW p \in Peers, NEW h, Arrives(p, h), Unexpected(p)
  PROVE  [Comparison!Next]_(Comparison!vars)
<1> DEFINE s2 == IF p \in aborting THEN [smstate[p] EXCEPT !.nextExpected = 1]
                 ELSE smstate[p]
<1>1. TypeInv /\ smstate[p] \in States
  BY InvFacts
<1>2. smstate' = [smstate EXCEPT ![p] = s2]
  <2>1. smstate \in [Peers -> States]
    BY <1>1 DEF TypeInv
  <2>2. CASE p \in aborting
    BY <2>1, <2>2 DEF Unexpected
  <2>3. CASE p \notin aborting
    BY <2>1, <2>3 DEF Unexpected
  <2> QED
    BY <2>2, <2>3
<1>3. s2 \in States /\ (s2.nextExpected = 1 \/ s2 = smstate[p])
  <2>1. smstate[p] \in States /\ 1 \in 1 .. 4
    BY <1>1
  <2> QED
    BY <2>1, StateExpecting
<1>4. UNCHANGED <<entered, trusted>>
  BY DEF Unexpected, Arrives
<1> HIDE DEF s2
<1>5. s2.nextExpected = 1 \/ smstate[p].nextExpected # 1
  BY <1>3
<1> QED
  BY <1>1, <1>2, <1>3, <1>4, <1>5, Resting

LEMMA ReceiveSimulates ==
  ASSUME IInv, NEW p \in Peers, Receive(p)
  PROVE  [Comparison!Next]_(Comparison!vars)
<1> DEFINE h == Head(net[p])  m == h.body  s == smstate[p]
<1>1. /\ Arrives(p, h)
      /\ \/ h.type = "SMP1" /\ ReceiveSMP1(p, h.body) /\ UNCHANGED private
         \/ h.type = "SMP2" /\ ReceiveSMP2(p, h.body) /\ UNCHANGED private
         \/ h.type = "SMP3" /\ ReceiveSMP3(p, h.body) /\ UNCHANGED private
         \/ h.type = "SMP4" /\ ReceiveSMP4(p, h.body) /\ UNCHANGED private
         \/ h.type = "ABORT" /\ ReceiveAbort(p) /\ UNCHANGED private
         \/ h.type = "DISCONNECTED" /\ ReceiveDisconnected(p)
  BY Arriving
<1> HIDE DEF h
<1>2. TypeInv /\ s \in States /\ exponents \in Nat
  BY InvFacts
<1>3. UNCHANGED entered
  BY <1>1 DEF Arrives
<1>4. h \in Messages
  BY <1>1, ArrivalFacts
<1>5. 1 \in 1 .. 4 /\ 4 \in 1 .. 4
  OBVIOUS
<1>6. CASE Unexpected(p)
  BY <1>1, <1>6, UnexpectedRests
<1>7. CASE h.type = "SMP1" /\ ReceiveSMP1(p, m) /\ s.nextExpected = 1
  <2> DEFINE s2 == Step2a(s, m, exponents + 1)
  <2>1. m.x \in Nat /\ m.question \in BOOLEAN /\ exponents + 1 \in Nat
    BY <1>2, <1>4, <1>7, MessageShape
  <2>2. s2 \in States /\ s2.nextExpected = s.nextExpected
    BY ONLY <1>2, <2>1, StateOfStep2a
  <2>3. smstate' = [smstate EXCEPT ![p] = s2] /\ UNCHANGED trusted
    BY <1>7 DEF ReceiveSMP1
  <2> HIDE DEF s2
  <2> QED
    BY <1>2, <1>3, <1>7, <2>2, <2>3, Resting
<1>8. CASE h.type = "SMP2" /\ ReceiveSMP2(p, m) /\ s.nextExpected = 2
  <2> DEFINE s1 == Step3(s, m)
  <2>1. m.x \in Nat /\ m.q \in Values
    BY <1>4, <1>8, MessageShape
  <2>2. s1 \in States
    BY ONLY <1>2, <2>1, StateOfStep3
  <2>3. PICK k \in {1, 4} : smstate' = [smstate EXCEPT ![p] = [s1 EXCEPT !.nextExpected = k]]
    BY <1>8 DEF ReceiveSMP2, Cheated
  <2>4. UNCHANGED trusted
    BY <1>8 DEF ReceiveSMP2
  <2> HIDE DEF s1
  <2>5. [s1 EXCEPT !.nextExpected = k] \in States
    BY <1>5, <2>2, StateExpecting
  <2>6. s.nextExpected # 1
    BY <1>8
  <2> QED
    BY <1>2, <1>3, <2>3, <2>4, <2>5, <2>6, Resting
<1>9. CASE h.type = "SMP3" /\ ReceiveSMP3(p, m) /\ s.nextExpected = 3
  BY <1>1, <1>9, SMP3Concludes
<1>10. CASE h.type = "SMP4" /\ ReceiveSMP4(p, m) /\ s.nextExpected = 4
  BY <1>1, <1>10, SMP4Concludes
<1>11. CASE ReceiveAbort(p)
  <2> DEFINE s2 == [s EXCEPT !.nextExpected = 1]
  <2>1. s2 \in States /\ s2.nextExpected = 1
    BY <1>2, <1>5, StateExpecting
  <2>2. smstate' = [smstate EXCEPT ![p] = s2] /\ UNCHANGED trusted
    BY <1>11 DEF ReceiveAbort
  <2> HIDE DEF s2
  <2> QED
    BY <1>2, <1>3, <2>1, <2>2, Resting
<1>12. CASE ReceiveDisconnected(p)
  <2>1. smstate' = [smstate EXCEPT ![p] = Fresh] /\ UNCHANGED trusted
    BY <1>12 DEF ReceiveDisconnected, ForceFinished
  <2>2. Fresh \in States /\ Fresh.nextExpected = 1
    BY FreshIsAState DEF Fresh
  <2> QED
    BY <1>2, <1>3, <2>1, <2>2, Resting
<1> QED
  BY <1>1, <1>6, <1>7, <1>8, <1>9, <1>10, <1>11, <1>12
     DEF ReceiveSMP1, ReceiveSMP2, ReceiveSMP3, ReceiveSMP4

\* Every step of the protocol is a step of the comparison, or none.
LEMMA StepSimulation ==
  ASSUME IInv, [Next]_vars
  PROVE  [Comparison!Next]_(Comparison!vars)
<1>1. TypeInv
  BY DEF IInv
<1>2. CASE UNCHANGED vars
  BY <1>2 DEF vars, Comparison!vars
<1>3. ASSUME NEW p \in Peers, NEW question \in Questions, NEW typed \in Secrets,
             Initiate(p, question, typed)
      PROVE  [Comparison!Next]_(Comparison!vars)
  <2> DEFINE secret == Combined(privkey[p], Active(p), session[p], typed)
             s1 == Step1(smstate[p], secret, exponents + 1)
             s2 == [s1 EXCEPT !.nextExpected = 2]
             e == [session |-> session[p], asker |-> p, question |-> question,
                   own |-> privkey[p], peer |-> Active(p), typed |-> typed]
  <2>1. /\ smstate[p] \in States /\ exponents + 1 \in Nat /\ 2 \in 1 .. 4
        /\ privkey[p] \in Keys /\ Active(p) \in Keys /\ session[p] \in Nat
    BY InvFacts
  <2>2. secret \in Secret
    BY <2>1 DEF Secret, Combined
  <2>3. /\ smstate' = [smstate EXCEPT ![p] = s2] /\ Typed(p, p, question, typed)
        /\ UNCHANGED trusted
    BY <1>3 DEF Initiate
  <2>4. question \in BOOLEAN
    BY QuestionsAreBoolean
  <2>5. e \in Entries
    BY <2>3, <2>4, Typing
  <2>6. entered' = [entered EXCEPT ![p] = Append(@, e)]
    BY <2>3 DEF Typed
  <2> HIDE DEF secret, e
  <2>7. s1 \in States
    BY ONLY <2>1, <2>2, StateOfStep1
  <2> HIDE DEF s1
  <2>8. s2 \in States /\ s2.nextExpected = 2
    BY ONLY <2>1, <2>7, StateExpecting
  <2>9. s2.nextExpected # 1
    BY <2>8
  <2> HIDE DEF s2
  <2> QED
    BY <1>1, <2>3, <2>5, <2>6, <2>8, <2>9, Entering
<1>4. ASSUME NEW p \in Peers, NEW typed \in Secrets,
             Respond(p, typed) \/ RespondLate(p, typed)
      PROVE  [Comparison!Next]_(Comparison!vars)
  <2> DEFINE q == Other(p)
             secret == Combined(Active(p), privkey[p], session[p], typed)
             s1 == Step2b(smstate[p], secret)
             s2 == [s1 EXCEPT !.nextExpected = 3]
             e == [session |-> session[p], asker |-> q,
                   question |-> smstate[p].received_question,
                   own |-> privkey[p], peer |-> Active(p), typed |-> typed]
  <2>1. /\ smstate[p] \in States /\ 3 \in 1 .. 4 /\ q \in Peers
        /\ privkey[p] \in Keys /\ Active(p) \in Keys /\ session[p] \in Nat
    BY InvFacts
  <2>2. secret \in Secret /\ smstate[p].received_question \in BOOLEAN
    BY <2>1 DEF Secret, Combined, States
  <2>3. /\ smstate' = [smstate EXCEPT ![p] = s2]
        /\ Typed(p, q, smstate[p].received_question, typed) /\ UNCHANGED trusted
    BY <1>4 DEF Respond, RespondLate, Answer
  <2>4. e \in Entries
    BY <2>1, <2>2, <2>3, Typing
  <2>5. entered' = [entered EXCEPT ![p] = Append(@, e)]
    BY <2>3 DEF Typed
  <2> HIDE DEF secret, e
  <2>6. s1 \in States
    BY ONLY <2>1, <2>2, StateOfStep2b
  <2> HIDE DEF s1
  <2>7. s2 \in States /\ s2.nextExpected = 3
    BY ONLY <2>1, <2>6, StateExpecting
  <2>8. s2.nextExpected # 1
    BY <2>7
  <2> HIDE DEF s2
  <2> QED
    BY <1>1, <2>3, <2>4, <2>5, <2>7, <2>8, Entering
<1>5. ASSUME NEW p \in Peers, Abort(p)
      PROVE  [Comparison!Next]_(Comparison!vars)
  <2> DEFINE s2 == [smstate[p] EXCEPT !.nextExpected = 1]
  <2>1. s2 \in States /\ s2.nextExpected = 1
    <3>1. smstate[p] \in States /\ 1 \in 1 .. 4
      BY InvFacts
    <3> QED
      BY <3>1, StateExpecting
  <2>2. smstate' = [smstate EXCEPT ![p] = s2] /\ UNCHANGED <<entered, trusted>>
    BY <1>5 DEF Abort
  <2> HIDE DEF s2
  <2> QED
    BY <1>1, <2>1, <2>2, Resting
<1>6. ASSUME NEW p \in Peers, Disconnect(p) \/ Restart(p) \/ Crash(p)
      PROVE  [Comparison!Next]_(Comparison!vars)
  <2>1. smstate' = [smstate EXCEPT ![p] = Fresh] /\ UNCHANGED <<entered, trusted>>
    BY <1>6 DEF Disconnect, Restart, Crash, ForceFinished
  <2>2. Fresh \in States /\ Fresh.nextExpected = 1
    BY FreshIsAState DEF Fresh
  <2> QED
    BY <1>1, <2>1, <2>2, Resting
<1>7. ASSUME NEW p \in Peers, Lose(p) \/ GoEncrypted(p)
      PROVE  [Comparison!Next]_(Comparison!vars)
  <2>1. UNCHANGED <<smstate, entered, trusted>>
    BY <1>7 DEF Lose, GoEncrypted
  <2> QED
    BY <2>1 DEF Comparison!vars
<1>8. ASSUME NEW p \in Peers, Receive(p)
      PROVE  [Comparison!Next]_(Comparison!vars)
  BY <1>8, ReceiveSimulates
<1> QED
  BY <1>2, <1>3, <1>4, <1>5, <1>6, <1>7, <1>8, Zenon DEF Next

\* A key comes to be trusted, or not to be, as what both users typed says
\* (message.c:1570-1573, 1630-1631): the protocol implements the comparison that
\* its users rely on, whatever is begun, crossed, aborted, lost or changed.
THEOREM SmpImplementsComparison == Spec => ImplementsComparison
<1>1. Init => Comparison!Init
  <2> SUFFICES ASSUME Init PROVE Comparison!Init
    OBVIOUS
  <2>1. trusted \in [Peers -> SUBSET Nat]
    BY VerifiedAreKeys DEF Init, Peers
  <2>2. entered = [p \in Peers |-> <<>>] /\ smstate = [p \in Peers |-> Fresh]
    BY DEF Init
  <2>3. Waiting = [p \in Peers |-> 0]
    BY <2>2 DEF Waiting, Fresh
  <2> QED
    BY <2>1, <2>2, <2>3, SameEnds DEF Comparison!Init, Waiting
<1>2. IInv /\ [Next]_vars => [Comparison!Next]_(Comparison!vars)
  BY StepSimulation
<1> QED
  BY <1>1, <1>2, Invariance, PTL DEF Spec, ImplementsComparison, Comparison!Spec
=============================================================================
