--------------------------- MODULE Fragments_proofs ---------------------------
(***************************************************************************)
(* Proofs about Fragments, for any clients, sizes and numbers of messages. *)
(*                                                                         *)
(* That a message put together of several ones costs the loss of as many   *)
(* pieces as it has takes a count of the pieces that cannot arrive any     *)
(* more: between the last piece that was collected and the first that is   *)
(* still on its way, every piece for us has been lost.                     *)
(***************************************************************************)
EXTENDS Fragments, SequenceTheorems, TLAPS

-----------------------------------------------------------------------------
(* The pieces of a message.                                                *)

Room(c) == MaxSize - HeaderLen[Version[c]]

Sendings ==
  {s \in [client : Clients, length : Lengths, to : {"us", "another"}] :
     Version[s.client] = 2 => s.to = "us"}

\* A message sent as r has Pieces(r) pieces, the first k of which end at its
\* EndOf(r, k)-th character.
Pieces(r) == Count(r.length, Version[r.client])
EndOf(r, k) ==
  IF k * Room(r.client) > r.length \/ (Pieces(r) = 1 /\ k = 1)
  THEN r.length ELSE k * Room(r.client)

\* The characters of the i-th message behind the first a, up to the b-th.
Part(i, a, b) == [j \in 1 .. b - a |-> <<i, a + j>>]

PieceOf(i, r, k) ==
  [to |-> r.to, k |-> k, n |-> Pieces(r),
   data |-> Part(i, EndOf(r, k - 1), EndOf(r, k))]

\* The message that a piece is of.
Id(m) == m.data[1][1]
IsPiece(log, c, m) ==
  /\ Id(m) \in DOMAIN log /\ log[Id(m)].client = c
  /\ m.k \in 1 .. Pieces(log[Id(m)]) /\ m = PieceOf(Id(m), log[Id(m)], m.k)

-----------------------------------------------------------------------------
(* The inductive invariant.                                                *)

Characters == Nat \X Nat
PieceRecords ==
  [to : {"us", "another"}, k : Nat, n : Nat, data : Seq(Characters)]

\* What a context has collected: never all pieces of a message.
Collections ==
  {f \in [data : Seq(Characters), n : Nat, k : Nat] :
     f = Nothing \/ (f.k \in 1 .. f.n - 1 /\ Len(f.data) >= f.k)}

TypeInv ==
  /\ sent \in Seq(Sendings)
  /\ net \in [Clients -> Seq(PieceRecords)]
  /\ fragment \in [Contexts -> Collections]
  /\ lost \in [Clients -> Nat]
  /\ \A r \in read : r.client \in Clients /\ r.n \in Nat
  /\ shuffled \in 0 .. MaxShuffles
  /\ troubled \subseteq Clients

ArePieces(log, c, q) == \A t \in 1 .. Len(q) : IsPiece(log, c, q[t])
PieceInv == \A c \in Clients : ArePieces(sent, c, net[c])

\* A piece is followed by the next one, the last one by the first of a later message.
Follows(m, next) ==
  IF m.k < m.n THEN Id(next) = Id(m) /\ next.k = m.k + 1
  ELSE Id(next) > Id(m) /\ next.k = 1
InOrder(q) ==
  /\ \A t \in 1 .. Len(q) - 1 : Follows(q[t], q[t + 1])
  /\ q # <<>> => q[Len(q)].k = q[Len(q)].n
OrderInv == shuffled = 0 => \A c \in Clients : InOrder(net[c])

\* Where the pieces of c are collected.
Own(c) == IF Version[c] = 3 THEN c ELSE Master

\* The pieces of a message behind the k-th of n, and of later ones for us, that
\* cannot arrive any more, when the ones in q are on their way.
Missing(i, n, k, q) ==
  IF q = <<>> THEN n - k
  ELSE IF Id(q[1]) = i THEN q[1].k - k - 1
  ELSE (n - k) + (IF q[1].to = "us" THEN q[1].k - 1 ELSE 0)

\* f is the beginning of the i-th message, sent as r, and the next piece is in q.
Begins(i, r, f, q, gone) ==
  /\ r.to = "us"
  /\ f.n = Pieces(r) /\ f.k \in 1 .. f.n - 1
  /\ f.data = Part(i, 0, EndOf(r, f.k))
  /\ q # <<>> => Id(q[1]) > i \/ (Id(q[1]) = i /\ q[1].k > f.k)
  /\ gone >= Missing(i, f.n, f.k, q)

Collects(log, c, f, q, gone) ==
  \/ f = Nothing
  \/ gone >= f.n
  \/ \E i \in DOMAIN log : log[i].client = c /\ Begins(i, log[i], f, q, gone)
CollectInv ==
  shuffled = 0 =>
    \A c \in Clients : Collects(sent, c, fragment[Own(c)], net[c], lost[c])

IInv == TypeInv /\ PieceInv /\ OrderInv /\ CollectInv /\ MixesNeedLosses

-----------------------------------------------------------------------------
(* Arithmetic of the pieces.                                               *)

LEMMA Rooms ==
  ASSUME NEW c \in Clients
  PROVE  Room(c) \in Nat \ {0} /\ Room(c) <= MaxSize /\ Version[c] \in {2, 3}
BY VersionsAreKnown, PiecesHoldSomething DEF Room

LEMMA Divide ==
  ASSUME NEW a \in Nat, NEW d \in Nat \ {0}
  PROVE  /\ a \div d \in Nat
         /\ (a \div d) * d <= a /\ a < ((a \div d) + 1) * d
BY SMTT(30)

LEMMA Times ==
  ASSUME NEW a \in Nat, NEW b \in Nat, NEW d \in Nat \ {0}, a <= b
  PROVE  a * d \in Nat /\ a * d <= b * d /\ a <= a * d
BY SMTT(30)

LEMMA TimesNext ==
  ASSUME NEW a \in Nat, NEW d \in Nat
  PROVE  (a + 1) * d = a * d + d
BY SMTT(30)

\* Where the pieces of a message end.
LEMMA PieceEnds ==
  ASSUME NEW r \in Sendings
  PROVE  /\ r.length \in Nat \ {0} /\ r.client \in Clients
         /\ Pieces(r) \in Nat \ {0}
         /\ Pieces(r) > 1 <=> r.length > MaxSize
         /\ EndOf(r, 0) = 0 /\ EndOf(r, Pieces(r)) = r.length
         /\ \A k \in 1 .. Pieces(r) :
              /\ EndOf(r, k - 1) \in Nat /\ EndOf(r, k) \in Nat
              /\ EndOf(r, k - 1) < EndOf(r, k)
              /\ EndOf(r, k) <= r.length /\ k <= EndOf(r, k)
         /\ Pieces(r) > 1 =>
              \A k \in 1 .. Pieces(r) :
                /\ EndOf(r, k - 1) = k * Room(r.client) - Room(r.client)
                /\ EndOf(r, k) = IF k * Room(r.client) > r.length
                                 THEN r.length ELSE k * Room(r.client)
<1> DEFINE len == r.length
           room == Room(r.client)
           q == (len - 1) \div room
<1>1. len \in Nat \ {0} /\ r.client \in Clients /\ MaxSize \in Nat
      BY LengthsAreNat, PiecesHoldSomething DEF Sendings
<1>2. room \in Nat \ {0} /\ room <= MaxSize
      BY <1>1, Rooms
<1>3. Pieces(r) = IF len > MaxSize THEN q + 1 ELSE 1
      BY DEF Pieces, Count, Room
<1>4. \A k : EndOf(r, k) = IF k * room > len \/ (Pieces(r) = 1 /\ k = 1)
                           THEN len ELSE k * room
      BY DEF EndOf
<1> HIDE DEF len, room
<1>5. CASE len > MaxSize
  <2>1. len - 1 \in Nat /\ room <= len - 1
        BY <1>1, <1>2, <1>5
  <2>2. q \in Nat /\ q * room <= len - 1 /\ len - 1 < (q + 1) * room
        BY <1>2, <2>1, Divide
  <2> HIDE DEF q
  <2>3. q # 0
        BY <1>2, <2>1, <2>2, TimesNext
  <2>4. Pieces(r) = q + 1 /\ Pieces(r) > 1
        BY <1>3, <1>5, <2>2, <2>3
  <2>5. \A k \in 0 .. q : /\ k * room \in Nat /\ k * room <= len - 1 /\ k <= k * room
                          /\ EndOf(r, k) = k * room
    <3> TAKE k \in 0 .. q
    <3>1. k * room \in Nat /\ k * room <= q * room /\ k <= k * room
          BY <1>2, <2>2, Times
    <3>2. q * room \in Nat
          BY <1>2, <2>2, Times
    <3>3. k * room <= len - 1 /\ ~(k * room > len)
          BY <3>1, <3>2, <2>2, <1>1
    <3> QED BY <3>1, <3>3, <1>4, <2>4
  <2>6. 0 * room = 0
        BY <1>2
  <2>7. EndOf(r, q + 1) = len
    <3>1. (q + 1) * room \in Nat
          BY <1>2, <2>2, Times
    <3>2. (q + 1) * room > len \/ (q + 1) * room = len
          BY <3>1, <2>2, <1>1
    <3> QED BY <3>2, <1>4
  <2>8. EndOf(r, 0) = 0
        BY <2>5, <2>6, <2>2
  <2>9. ASSUME NEW k \in 1 .. Pieces(r)
        PROVE  /\ EndOf(r, k - 1) \in Nat /\ EndOf(r, k) \in Nat
               /\ EndOf(r, k - 1) < EndOf(r, k)
               /\ EndOf(r, k) <= len /\ k <= EndOf(r, k)
               /\ EndOf(r, k - 1) = k * room - room
               /\ EndOf(r, k) = IF k * room > len THEN len ELSE k * room
    <3>1. k - 1 \in 0 .. q /\ k \in Nat
          BY <2>4, <2>2
    <3>2. k * room = (k - 1) * room + room
      <4>1. ((k - 1) + 1) * room = (k - 1) * room + room
            BY <3>1, <1>2, TimesNext
      <4>2. (k - 1) + 1 = k
            BY <3>1
      <4> QED BY <4>1, <4>2
    <3>3. /\ (k - 1) * room \in Nat /\ (k - 1) * room <= len - 1
          /\ k - 1 <= (k - 1) * room /\ EndOf(r, k - 1) = (k - 1) * room
          BY <3>1, <2>5
    <3>4. EndOf(r, k - 1) = k * room - room
          BY <3>2, <3>3, <1>2
    <3>5. CASE k = q + 1
      <4>1. EndOf(r, k) = len
            BY <3>5, <2>7
      <4>2. k * room > len \/ k * room = len
        <5>1. (q + 1) * room \in Nat
              BY <1>2, <2>2, Times
        <5> QED BY <5>1, <2>2, <1>1, <3>5
      <4> QED BY <4>1, <4>2, <3>1, <3>3, <3>4, <1>1
    <3>6. CASE k \in 0 .. q
      <4>1. k * room \in Nat /\ k * room <= len - 1 /\ k <= k * room /\ EndOf(r, k) = k * room
            BY <3>6, <2>5
      <4> HIDE DEF len
      <4> DEFINE x == k * room
                 y == (k - 1) * room
      <4>2. /\ x \in Nat /\ x <= len - 1 /\ k <= x /\ EndOf(r, k) = x
            /\ y \in Nat /\ EndOf(r, k - 1) = y /\ x = y + room
            BY <4>1, <3>2, <3>3
      <4> HIDE DEF x, y
      <4>3. /\ EndOf(r, k - 1) \in Nat /\ EndOf(r, k) \in Nat
            /\ EndOf(r, k - 1) < EndOf(r, k) /\ EndOf(r, k) <= len /\ k <= EndOf(r, k)
            /\ ~(x > len)
            BY <4>2, <1>1, <1>2, <3>1
      <4> QED BY <4>2, <4>3, <3>4 DEF x
    <3> QED BY <3>1, <3>5, <3>6, <2>4, <2>2
  <2> QED BY <1>1, <1>5, <2>2, <2>4, <2>7, <2>8, <2>9 DEF len, room
<1>6. CASE ~(len > MaxSize)
  <2>1. Pieces(r) = 1
        BY <1>3, <1>6
  <2>2. 0 * room = 0
        BY <1>2
  <2>3. EndOf(r, 0) = 0
        BY <2>2, <1>4, <1>1
  <2>4. EndOf(r, 1) = len
        BY <2>1, <1>4
  <2>5. \A k \in 1 .. Pieces(r) : k = 1
        BY <2>1
  <2> QED BY <1>1, <1>6, <2>1, <2>3, <2>4, <2>5 DEF len
<1> QED BY <1>5, <1>6

-----------------------------------------------------------------------------
(* The characters of the pieces.                                           *)

LEMMA Parts ==
  ASSUME NEW i \in Nat, NEW a \in Nat, NEW b \in Nat, a <= b
  PROVE  /\ Part(i, a, b) \in Seq(Characters)
         /\ Len(Part(i, a, b)) = b - a
         /\ \A j \in 1 .. b - a : Part(i, a, b)[j] = <<i, a + j>>
<1>1. b - a \in Nat
      OBVIOUS
<1>2. Part(i, a, b) \in [1 .. b - a -> Characters]
      BY DEF Part, Characters
<1>3. Part(i, a, b) \in Seq(Characters)
      BY <1>1, <1>2, SeqDef
<1>4. DOMAIN Part(i, a, b) = 1 .. Len(Part(i, a, b)) /\ Len(Part(i, a, b)) \in Nat
      BY <1>3, LenProperties
<1>5. DOMAIN Part(i, a, b) = 1 .. b - a
      BY <1>2
<1> QED BY <1>1, <1>3, <1>4, <1>5 DEF Part

LEMMA FirstPart ==
  ASSUME NEW i \in Nat, NEW b \in Nat
  PROVE  /\ Part(i, 0, b) \in Seq(Characters) /\ Len(Part(i, 0, b)) = b
         /\ \A j \in 1 .. b : Part(i, 0, b)[j] = <<i, j>>
<1>1. 0 \in Nat /\ 0 <= b
      OBVIOUS
<1>2. /\ Part(i, 0, b) \in Seq(Characters) /\ Len(Part(i, 0, b)) = b - 0
      /\ \A j \in 1 .. b - 0 : Part(i, 0, b)[j] = <<i, 0 + j>>
      BY <1>1, Parts, Zenon
<1> DEFINE w == Part(i, 0, b)
<1>3. /\ w \in Seq(Characters) /\ Len(w) = b - 0
      /\ \A j \in 1 .. b - 0 : w[j] = <<i, 0 + j>>
      BY <1>2
<1> HIDE DEF w
<1>4. Len(w) = b /\ \A j \in 1 .. b : w[j] = <<i, j>>
      BY <1>3
<1> QED BY <1>3, <1>4 DEF w

LEMMA PartsJoin ==
  ASSUME NEW i \in Nat, NEW a \in Nat, NEW b \in Nat, a <= b
  PROVE  Part(i, 0, a) \o Part(i, a, b) = Part(i, 0, b)
<1> DEFINE p == Part(i, 0, a)
           q == Part(i, a, b)
           w == Part(i, 0, b)
<1>1. /\ p \in Seq(Characters) /\ Len(p) = a
      /\ \A j \in 1 .. a : p[j] = <<i, j>>
      BY FirstPart, Zenon
<1>2. /\ q \in Seq(Characters) /\ Len(q) = b - a
      /\ \A j \in 1 .. b - a : q[j] = <<i, a + j>>
      BY Parts
<1>3. /\ w \in Seq(Characters) /\ Len(w) = b
      /\ \A j \in 1 .. b : w[j] = <<i, j>>
      BY FirstPart, Zenon
<1> HIDE DEF p, q, w
<1>4. /\ p \o q \in Seq(Characters) /\ Len(p \o q) = a + (b - a)
      /\ \A j \in 1 .. a + (b - a) : (p \o q)[j] = IF j <= a THEN p[j] ELSE q[j - a]
  <2>1. /\ p \o q \in Seq(Characters) /\ Len(p \o q) = Len(p) + Len(q)
        /\ \A j \in 1 .. Len(p) + Len(q) :
             (p \o q)[j] = IF j <= Len(p) THEN p[j] ELSE q[j - Len(p)]
        BY <1>1, <1>2, ConcatProperties, Zenon
  <2> QED BY <2>1, <1>1, <1>2
<1>5. \A j \in 1 .. Len(p \o q) : (p \o q)[j] = w[j]
  <2> TAKE j \in 1 .. Len(p \o q)
  <2>1. j \in 1 .. b
        BY <1>4
  <2>2. CASE j <= a
    <3>1. j \in 1 .. a
          BY <2>1, <2>2
    <3>2. (p \o q)[j] = p[j]
          BY <2>2, <1>4
    <3> QED BY <2>1, <3>1, <3>2, <1>1, <1>3
  <2>3. CASE ~(j <= a)
    <3>1. j - a \in 1 .. b - a /\ a + (j - a) = j
          BY <2>1, <2>3
    <3>2. (p \o q)[j] = q[j - a]
          BY <2>3, <1>4
    <3>3. q[j - a] = <<i, a + (j - a)>>
          BY <3>1, <1>2
    <3> QED BY <2>1, <3>1, <3>2, <3>3, <1>3
  <2> QED BY <2>2, <2>3
<1>6. Len(p \o q) = Len(w)
      BY <1>3, <1>4
<1>7. p \o q = w
      BY <1>3, <1>4, <1>5, <1>6, SeqEqual
<1> QED BY <1>7 DEF p, q, w

\* A piece says which message it is of.
LEMMA PieceFacts ==
  ASSUME NEW i \in Nat, NEW r \in Sendings, NEW k \in 1 .. Pieces(r)
  PROVE  /\ PieceOf(i, r, k) \in PieceRecords
         /\ Id(PieceOf(i, r, k)) = i
         /\ PieceOf(i, r, k).k = k /\ PieceOf(i, r, k).n = Pieces(r)
         /\ PieceOf(i, r, k).to = r.to
         /\ PieceOf(i, r, k).data = Part(i, EndOf(r, k - 1), EndOf(r, k))
         /\ Len(PieceOf(i, r, k).data) >= 1
<1> DEFINE a == EndOf(r, k - 1)
           b == EndOf(r, k)
           p == Part(i, a, b)
<1>1. a \in Nat /\ b \in Nat /\ a < b /\ Pieces(r) \in Nat /\ k \in Nat
      BY PieceEnds
<1>2. r.to \in {"us", "another"}
      BY DEF Sendings
<1>3. PieceOf(i, r, k) = [to |-> r.to, k |-> k, n |-> Pieces(r), data |-> p]
      BY DEF PieceOf
<1> HIDE DEF a, b
<1>4. a <= b /\ 1 \in 1 .. b - a
      BY <1>1
<1>5. /\ p \in Seq(Characters) /\ Len(p) = b - a
      /\ \A j \in 1 .. b - a : p[j] = <<i, a + j>>
      BY <1>1, <1>4, Parts
<1> HIDE DEF p
<1>6. p[1] = <<i, a + 1>> /\ Len(p) >= 1
      BY <1>1, <1>4, <1>5
<1>7. /\ PieceOf(i, r, k) \in PieceRecords
      /\ Id(PieceOf(i, r, k)) = i
      BY <1>1, <1>2, <1>3, <1>5, <1>6 DEF PieceRecords, Id
<1> QED BY <1>3, <1>6, <1>7 DEF p, a, b
-----------------------------------------------------------------------------
(* What is on the way.                                                     *)

LEMMA Removed ==
  ASSUME NEW S, NEW s \in Seq(S), NEW i \in DOMAIN s
  PROVE  /\ RemoveAt(s, i) \in Seq(S) /\ Len(RemoveAt(s, i)) = Len(s) - 1
         /\ \A j \in 1 .. Len(s) - 1 : RemoveAt(s, i)[j] = s[IF j < i THEN j ELSE j + 1]
<1> DEFINE n == Len(s)
           a == SubSeq(s, 1, i - 1)
           b == SubSeq(s, i + 1, n)
           u == RemoveAt(s, i)
<1>1. n \in Nat /\ DOMAIN s = 1 .. n /\ i \in 1 .. n /\ \A j \in 1 .. n : s[j] \in S
      BY LenProperties, ElementOfSeq
<1>2. a \in Seq(S) /\ Len(a) = i - 1 /\ \A j \in 1 .. i - 1 : a[j] = s[j]
  <2>1. \A j \in 1 .. i - 1 : s[j] \in S
        BY <1>1
  <2>2. a \in Seq(S) /\ Len(a) = (IF 1 <= i - 1 THEN i - 1 - 1 + 1 ELSE 0)
          /\ \A j \in 1 .. i - 1 - 1 + 1 : a[j] = s[1 + j - 1]
        BY <1>1, <2>1, SubSeqProperties
  <2> QED BY <1>1, <2>2
<1>3. b \in Seq(S) /\ Len(b) = n - i /\ \A j \in 1 .. n - i : b[j] = s[j + i]
  <2>1. \A j \in i + 1 .. n : s[j] \in S
        BY <1>1
  <2>2. b \in Seq(S) /\ Len(b) = (IF i + 1 <= n THEN n - (i + 1) + 1 ELSE 0)
          /\ \A j \in 1 .. n - (i + 1) + 1 : b[j] = s[(i + 1) + j - 1]
        BY <1>1, <2>1, SubSeqProperties
  <2>3. \A j \in 1 .. n - i : (i + 1) + j - 1 = j + i /\ j \in 1 .. n - (i + 1) + 1
        BY <1>1
  <2> QED BY <1>1, <2>2, <2>3
<1> HIDE DEF a, b, n
<1>4. /\ u \in Seq(S) /\ Len(u) = n - 1
      /\ \A j \in 1 .. n - 1 : u[j] = IF j <= i - 1 THEN a[j] ELSE b[j - (i - 1)]
  <2>1. u = a \o b
        BY DEF RemoveAt, a, b, n
  <2>2. Len(a) + Len(b) = n - 1 /\ Len(a) = i - 1
        BY <1>1, <1>2, <1>3
  <2>3. /\ u \in Seq(S) /\ Len(u) = Len(a) + Len(b)
        /\ \A j \in 1 .. Len(a) + Len(b) : u[j] = IF j <= Len(a) THEN a[j] ELSE b[j - Len(a)]
    <3> HIDE DEF u
    <3> QED BY <1>2, <1>3, <2>1, ConcatProperties
  <2> QED BY <2>2, <2>3
<1> HIDE DEF u
<1>5. \A j \in 1 .. n - 1 : u[j] = s[IF j < i THEN j ELSE j + 1]
  <2> TAKE j \in 1 .. n - 1
  <2>1. CASE j < i
    <3>1. j \in 1 .. i - 1 /\ j <= i - 1
          BY <1>1, <2>1
    <3> QED BY <1>1, <1>2, <1>4, <2>1, <3>1
  <2>2. CASE ~(j < i)
    <3>1. j - (i - 1) \in 1 .. n - i /\ j - (i - 1) + i = j + 1 /\ ~(j <= i - 1)
          BY <1>1, <2>2
    <3>2. u[j] = s[j + 1]
          BY <1>3, <1>4, <3>1
    <3> QED BY <1>1, <2>2, <3>2
  <2> QED BY <2>1, <2>2
<1> QED BY <1>4, <1>5 DEF u, n

LEMMA Shortened ==
  ASSUME NEW log, NEW c, NEW q \in Seq(PieceRecords), NEW i \in DOMAIN q,
         ArePieces(log, c, q)
  PROVE  ArePieces(log, c, RemoveAt(q, i))
<1> DEFINE u == RemoveAt(q, i)
           at(j) == IF j < i THEN j ELSE j + 1
<1>1. /\ u \in Seq(PieceRecords) /\ Len(u) = Len(q) - 1
      /\ \A j \in 1 .. Len(q) - 1 : u[j] = q[at(j)]
      BY Removed
<1>2. Len(q) \in Nat /\ i \in 1 .. Len(q)
      BY LenProperties
<1>3. \A j \in 1 .. Len(q) - 1 : at(j) \in 1 .. Len(q)
      BY <1>2
<1> HIDE DEF u, at
<1>4. \A j \in 1 .. Len(u) : IsPiece(log, c, u[j])
      BY <1>1, <1>3 DEF ArePieces
<1> QED BY <1>4 DEF ArePieces, u

\* Without its first piece, what is on the way begins with the one behind it.
LEMMA Popped ==
  ASSUME NEW q \in Seq(PieceRecords), q # <<>>
  PROVE  /\ RemoveAt(q, 1) \in Seq(PieceRecords)
         /\ 1 \in DOMAIN q /\ Len(q) \in Nat \ {0}
         /\ RemoveAt(q, 1) = <<>> <=> Len(q) = 1
         /\ Len(q) # 1 => RemoveAt(q, 1)[1] = q[2]
         /\ InOrder(q) => InOrder(RemoveAt(q, 1))
<1> DEFINE u == RemoveAt(q, 1)
           n == Len(q)
<1>1. n \in Nat \ {0} /\ DOMAIN q = 1 .. n
      BY LenProperties, EmptySeq
<1>2. 1 \in DOMAIN q
      BY <1>1
<1>3. /\ u \in Seq(PieceRecords) /\ Len(u) = n - 1
      /\ \A j \in 1 .. n - 1 : u[j] = q[IF j < 1 THEN j ELSE j + 1]
      BY <1>2, Removed
<1> HIDE DEF u, n
<1>4. \A j \in 1 .. n - 1 : u[j] = q[j + 1]
      BY <1>1, <1>3
<1>5. u = <<>> <=> Len(u) = 0
      BY <1>3, EmptySeq
<1>6. n # 1 => u[1] = q[2]
      BY <1>1, <1>4
<1>7. ASSUME InOrder(q)
      PROVE  InOrder(u)
  <2>1. /\ \A t \in 1 .. n - 1 : Follows(q[t], q[t + 1])
        /\ q[n].k = q[n].n
        BY <1>7 DEF InOrder, n
  <2>2. ASSUME NEW t \in 1 .. Len(u) - 1
        PROVE  Follows(u[t], u[t + 1])
    <3>1. t + 1 \in 1 .. n - 1 /\ t \in 1 .. n - 1
          BY <1>1, <1>3
    <3>2. u[t] = q[t + 1] /\ u[t + 1] = q[(t + 1) + 1]
          BY <3>1, <1>4
    <3> QED BY <3>1, <3>2, <2>1
  <2>3. ASSUME u # <<>>
        PROVE  u[Len(u)].k = u[Len(u)].n
    <3>1. n - 1 \in 1 .. n - 1 /\ (n - 1) + 1 = n
          BY <2>3, <1>1, <1>3, <1>5
    <3>2. u[Len(u)] = q[n]
          BY <3>1, <1>3, <1>4
    <3> QED BY <3>2, <2>1
  <2> QED BY <2>2, <2>3 DEF InOrder
<1>8. u = <<>> <=> n = 1
      BY <1>1, <1>3, <1>5
<1> QED BY <1>1, <1>2, <1>3, <1>6, <1>7, <1>8 DEF u, n

\* The record of what was sent before does not change when more is sent.
LEMMA LogGrows ==
  ASSUME NEW log \in Seq(Sendings), NEW r \in Sendings
  PROVE  /\ Append(log, r) \in Seq(Sendings)
         /\ DOMAIN log = 1 .. Len(log) /\ Len(log) \in Nat
         /\ DOMAIN Append(log, r) = 1 .. Len(log) + 1
         /\ \A i \in DOMAIN log : Append(log, r)[i] = log[i]
         /\ Append(log, r)[Len(log) + 1] = r
<1>1. /\ Append(log, r) \in Seq(Sendings) /\ Len(Append(log, r)) = Len(log) + 1
      /\ \A i \in 1 .. Len(log) : Append(log, r)[i] = log[i]
      /\ Append(log, r)[Len(log) + 1] = r
      BY AppendProperties
<1>2. DOMAIN log = 1 .. Len(log) /\ Len(log) \in Nat
      BY LenProperties
<1>3. DOMAIN Append(log, r) = 1 .. Len(Append(log, r))
      BY <1>1, LenProperties
<1> QED BY <1>1, <1>2, <1>3

LEMMA LogEntry ==
  ASSUME NEW log \in Seq(Sendings), NEW i \in DOMAIN log
  PROVE  i \in Nat \ {0} /\ i <= Len(log) /\ log[i] \in Sendings
BY LenProperties, ElementOfSeq

LEMMA PiecesStay ==
  ASSUME NEW log \in Seq(Sendings), NEW r \in Sendings, NEW c, NEW q,
         ArePieces(log, c, q)
  PROVE  ArePieces(Append(log, r), c, q)
<1>1. /\ \A i \in DOMAIN log : i \in DOMAIN Append(log, r) /\ Append(log, r)[i] = log[i]
      BY LogGrows
<1>2. ASSUME NEW m, IsPiece(log, c, m)
      PROVE  IsPiece(Append(log, r), c, m)
      BY <1>1, <1>2 DEF IsPiece
<1> QED BY <1>2 DEF ArePieces

\* What a piece on its way is.
LEMMA APiece ==
  ASSUME NEW log \in Seq(Sendings), NEW c, NEW m, IsPiece(log, c, m)
  PROVE  LET i == Id(m) IN
         /\ i \in DOMAIN log /\ i \in Nat \ {0} /\ i <= Len(log)
         /\ log[i] \in Sendings /\ log[i].client = c
         /\ m.k \in 1 .. Pieces(log[i]) /\ m.n = Pieces(log[i])
         /\ m.to = log[i].to
         /\ m.data = Part(i, EndOf(log[i], m.k - 1), EndOf(log[i], m.k))
         /\ Len(m.data) >= 1
<1> DEFINE i == Id(m)
<1>1. /\ i \in DOMAIN log /\ log[i].client = c
      /\ m.k \in 1 .. Pieces(log[i]) /\ m = PieceOf(i, log[i], m.k)
      BY DEF IsPiece
<1>2. i \in Nat \ {0} /\ i <= Len(log) /\ log[i] \in Sendings
      BY <1>1, LogEntry
<1> HIDE DEF i
<1> DEFINE p == PieceOf(i, log[i], m.k)
<1>3. /\ p.n = Pieces(log[i]) /\ p.to = log[i].to
      /\ p.data = Part(i, EndOf(log[i], m.k - 1), EndOf(log[i], m.k))
      /\ Len(p.data) >= 1
      BY <1>1, <1>2, PieceFacts
<1>4. m = p
      BY <1>1
<1> HIDE DEF p
<1> QED BY <1>1, <1>2, <1>3, <1>4 DEF i

\* All pieces of a message, in order.
Run(i, r) == [k \in 1 .. Pieces(r) |-> PieceOf(i, r, k)]

LEMMA Runs ==
  ASSUME NEW log \in Seq(Sendings), NEW i \in DOMAIN log
  PROVE  LET u == Run(i, log[i]) IN
         /\ u \in Seq(PieceRecords) /\ u # <<>> /\ Len(u) \in Nat \ {0}
         /\ Id(u[1]) = i /\ u[1].k = 1
         /\ ArePieces(log, log[i].client, u) /\ InOrder(u)
<1> DEFINE r == log[i]
           n == Pieces(r)
           u == Run(i, r)
<1>1. i \in Nat /\ r \in Sendings
      BY LogEntry
<1>2. n \in Nat \ {0}
      BY <1>1, PieceEnds
<1>3. \A k \in 1 .. n :
        /\ PieceOf(i, r, k) \in PieceRecords /\ Id(PieceOf(i, r, k)) = i
        /\ PieceOf(i, r, k).k = k /\ PieceOf(i, r, k).n = n
      BY <1>1, PieceFacts
<1>4. u = [k \in 1 .. n |-> PieceOf(i, r, k)]
      BY DEF Run
<1>5. u \in [1 .. n -> PieceRecords]
      BY <1>3, <1>4
<1>6. u \in Seq(PieceRecords)
      BY <1>2, <1>5, SeqDef
<1>7. DOMAIN u = 1 .. Len(u) /\ Len(u) \in Nat
      BY <1>6, LenProperties
<1>8. Len(u) = n
      BY <1>2, <1>5, <1>7
<1>9. \A k \in 1 .. n : u[k] = PieceOf(i, r, k)
      BY <1>4
<1>10. \A k \in 1 .. n : Id(u[k]) = i /\ u[k].k = k /\ u[k].n = n
      BY <1>3, <1>9
<1> HIDE DEF u, n
<1>11. u # <<>>
      BY <1>2, <1>6, <1>8, EmptySeq
<1>12. ASSUME NEW k \in 1 .. Len(u)
       PROVE  IsPiece(log, r.client, u[k])
      BY <1>8, <1>9, <1>10 DEF IsPiece, n, r
<1>13. InOrder(u)
  <2>1. ASSUME NEW k \in 1 .. Len(u) - 1
        PROVE  Follows(u[k], u[k + 1])
    <3>1. k \in 1 .. n /\ k + 1 \in 1 .. n /\ k < n
          BY <1>2, <1>8
    <3> QED BY <3>1, <1>10 DEF Follows
  <2>2. u[Len(u)].k = u[Len(u)].n
        BY <1>2, <1>8, <1>10
  <2> QED BY <2>1, <2>2 DEF InOrder
<1>14. Id(u[1]) = i /\ u[1].k = 1
      BY <1>2, <1>10
<1>15. ArePieces(log, r.client, u)
      BY <1>12 DEF ArePieces
<1> QED BY <1>2, <1>6, <1>8, <1>11, <1>13, <1>14, <1>15 DEF u, r, n

\* Two runs of pieces, one behind the other.
LEMMA Joined ==
  ASSUME NEW log, NEW c, NEW q \in Seq(PieceRecords), NEW u \in Seq(PieceRecords),
         ArePieces(log, c, q), ArePieces(log, c, u), u # <<>>
  PROVE  /\ q \o u \in Seq(PieceRecords) /\ ArePieces(log, c, q \o u) /\ q \o u # <<>>
         /\ (q \o u)[1] = IF q = <<>> THEN u[1] ELSE q[1]
         /\ (/\ InOrder(q) /\ InOrder(u) /\ u[1].k = 1
             /\ \A t \in 1 .. Len(q) : Id(u[1]) > Id(q[t])) => InOrder(q \o u)
<1> DEFINE w == q \o u
           a == Len(q)
           b == Len(u)
<1>1. a \in Nat /\ b \in Nat \ {0} /\ (q = <<>> <=> a = 0)
      BY LenProperties, EmptySeq
<1>2. /\ w \in Seq(PieceRecords) /\ Len(w) = a + b
      /\ \A t \in 1 .. a + b : w[t] = IF t <= a THEN q[t] ELSE u[t - a]
      BY ConcatProperties
<1> HIDE DEF w, a, b
<1>3. w # <<>>
      BY <1>1, <1>2, EmptySeq
<1>4. w[1] = IF q = <<>> THEN u[1] ELSE q[1]
      BY <1>1, <1>2
<1>5. ASSUME NEW t \in 1 .. Len(w)
      PROVE  IsPiece(log, c, w[t])
  <2>1. CASE t <= a
    <3>1. t \in 1 .. a
          BY <1>1, <1>2, <2>1
    <3> QED BY <3>1, <2>1, <1>1, <1>2 DEF ArePieces, a
  <2>2. CASE ~(t <= a)
    <3>1. t - a \in 1 .. b
          BY <1>1, <1>2, <2>2
    <3> QED BY <3>1, <2>2, <1>2 DEF ArePieces, b
  <2> QED BY <2>1, <2>2
<1>6. ASSUME InOrder(q), InOrder(u), u[1].k = 1,
             \A t \in 1 .. Len(q) : Id(u[1]) > Id(q[t])
      PROVE  InOrder(w)
  <2>1. /\ \A t \in 1 .. a - 1 : Follows(q[t], q[t + 1])
        /\ a # 0 => q[a].k = q[a].n
        BY <1>1, <1>6 DEF InOrder, a
  <2>2. /\ \A t \in 1 .. b - 1 : Follows(u[t], u[t + 1])
        /\ u[b].k = u[b].n
        BY <1>6 DEF InOrder, b
  <2>3. ASSUME NEW t \in 1 .. Len(w) - 1
        PROVE  Follows(w[t], w[t + 1])
    <3>1. CASE t < a
      <4>1. t \in 1 .. a - 1 /\ t + 1 <= a /\ t <= a /\ t + 1 \in 1 .. a + b /\ t \in 1 .. a + b
            BY <1>1, <1>2, <3>1
      <4>2. w[t] = q[t] /\ w[t + 1] = q[t + 1]
            BY <4>1, <1>2
      <4> QED BY <4>1, <4>2, <2>1
    <3>2. CASE t = a
      <4>1. /\ t \in 1 .. a /\ t <= a /\ ~(t + 1 <= a) /\ (t + 1) - a = 1
            /\ t \in 1 .. a + b /\ t + 1 \in 1 .. a + b
            BY <1>1, <1>2, <3>2
      <4>2. w[t] = q[a] /\ w[t + 1] = u[1]
            BY <4>1, <3>2, <1>2
      <4>3. q[a].k = q[a].n /\ Id(u[1]) > Id(q[a])
            BY <4>1, <3>2, <2>1, <1>6 DEF a
      <4>4. IsPiece(log, c, q[a])
            BY <4>1, <3>2 DEF ArePieces, a
      <4>5. q[a] \in PieceRecords
            BY <4>1, <3>2, ElementOfSeq DEF a
      <4>6. q[a].k \in Nat
            BY <4>5 DEF PieceRecords
      <4>7. ~(q[a].k < q[a].n)
            BY <4>3, <4>6
      <4> QED BY <4>2, <4>3, <4>7, <1>6 DEF Follows
    <3>3. CASE t > a
      <4>1. /\ t - a \in 1 .. b - 1 /\ ~(t <= a) /\ ~(t + 1 <= a)
            /\ (t + 1) - a = (t - a) + 1
            /\ t \in 1 .. a + b /\ t + 1 \in 1 .. a + b
            BY <1>1, <1>2, <3>3
      <4>2. w[t] = u[t - a] /\ w[t + 1] = u[(t - a) + 1]
            BY <4>1, <1>2
      <4> QED BY <4>1, <4>2, <2>2
    <3> QED BY <3>1, <3>2, <3>3, <1>1, <1>2
  <2>4. w[Len(w)].k = w[Len(w)].n
    <3>1. ~(a + b <= a) /\ (a + b) - a = b /\ a + b \in 1 .. a + b
          BY <1>1
    <3>2. w[a + b] = u[b]
          BY <3>1, <1>2
    <3> QED BY <3>2, <2>2, <1>2
  <2> QED BY <2>3, <2>4 DEF InOrder
<1>7. ArePieces(log, c, w)
      BY <1>5 DEF ArePieces
<1> QED BY <1>2, <1>3, <1>4, <1>6, <1>7 DEF w
-----------------------------------------------------------------------------
(* What is being collected, when something happens to what is on the way.  *)

\* What comes behind the first piece.
LEMMA Behind ==
  ASSUME NEW log \in Seq(Sendings), NEW c, NEW q \in Seq(PieceRecords), q # <<>>,
         ArePieces(log, c, q), InOrder(q)
  PROVE  LET u == RemoveAt(q, 1)
             m == q[1]
         IN  /\ IsPiece(log, c, m) /\ ArePieces(log, c, u) /\ InOrder(u)
             /\ IF m.k < m.n
                THEN u # <<>> /\ Id(u[1]) = Id(m) /\ u[1].k = m.k + 1 /\ u[1].to = m.to
                ELSE u = <<>> \/ (Id(u[1]) > Id(m) /\ u[1].k = 1)
<1> DEFINE u == RemoveAt(q, 1)
           m == q[1]
<1>1. /\ u \in Seq(PieceRecords) /\ 1 \in DOMAIN q /\ Len(q) \in Nat \ {0}
      /\ (u = <<>> <=> Len(q) = 1) /\ (Len(q) # 1 => u[1] = q[2])
      /\ InOrder(u)
      BY Popped
<1>2. ArePieces(log, c, u)
      BY <1>1, Shortened
<1>3. IsPiece(log, c, m)
      BY <1>1 DEF ArePieces
<1>4. m.n \in Nat /\ m.k \in 1 .. m.n /\ m.to = log[Id(m)].to
  <2>1. /\ log[Id(m)] \in Sendings /\ m.n = Pieces(log[Id(m)])
        /\ m.k \in 1 .. Pieces(log[Id(m)]) /\ m.to = log[Id(m)].to
        BY <1>3, APiece
  <2> QED BY <2>1, PieceEnds
<1>5. CASE Len(q) = 1
  <2>1. m.k = m.n
        BY <1>5 DEF InOrder
  <2>2. ~(m.k < m.n)
        BY <1>4, <2>1
  <2> QED BY <1>1, <1>2, <1>3, <1>5, <2>2
<1>6. CASE Len(q) # 1
  <2> DEFINE n == Len(q)
  <2>0. n \in Nat \ {0} /\ n # 1
        BY <1>1, <1>6
  <2> HIDE DEF n
  <2>9. 1 \in 1 .. n - 1 /\ 2 \in 1 .. n /\ 1 + 1 = 2
        BY <2>0
  <2>1. 1 \in 1 .. Len(q) - 1 /\ 2 \in 1 .. Len(q) /\ 1 + 1 = 2
        BY <2>9 DEF n
  <2>2. Follows(m, u[1])
        BY <2>1, <1>1, <1>6 DEF InOrder
  <2>3. u[1] = q[2]
        BY <1>1, <1>6
  <2>4. IsPiece(log, c, u[1])
        BY <2>1, <2>3 DEF ArePieces
  <2>5. u[1].to = log[Id(u[1])].to
        BY <2>4, APiece
  <2> HIDE DEF u, m
  <2> QED BY <1>1, <1>2, <1>3, <1>4, <1>6, <2>2, <2>5 DEF Follows, u, m
<1> QED BY <1>5, <1>6

\* When more is sent.
LEMMA CollectsOn ==
  ASSUME NEW log \in Seq(Sendings), NEW r \in Sendings, NEW c, NEW f \in Collections,
         NEW q, NEW w, NEW gone \in Nat, Collects(log, c, f, q, gone),
         IF q = <<>> THEN w = <<>> \/ (Id(w[1]) = Len(log) + 1 /\ w[1].k = 1)
         ELSE w # <<>> /\ w[1] = q[1]
  PROVE  Collects(Append(log, r), c, f, w, gone)
<1>1. CASE f = Nothing \/ gone >= f.n
      BY <1>1 DEF Collects
<1>2. CASE \E i \in DOMAIN log : log[i].client = c /\ Begins(i, log[i], f, q, gone)
  <2>1. PICK i \in DOMAIN log : log[i].client = c /\ Begins(i, log[i], f, q, gone)
        BY <1>2
  <2>2. /\ i \in Nat /\ i <= Len(log) /\ Len(log) \in Nat
        /\ i \in DOMAIN Append(log, r) /\ Append(log, r)[i] = log[i]
        BY LogGrows, LogEntry
  <2>3. f.n \in Nat /\ f.k \in Nat
        BY DEF Collections
  <2>4. /\ w # <<>> => Id(w[1]) > i \/ (Id(w[1]) = i /\ w[1].k > f.k)
        /\ gone >= Missing(i, f.n, f.k, w)
    <3>1. CASE q = <<>>
      <4>1. gone >= f.n - f.k
            BY <2>1, <3>1 DEF Begins, Missing
      <4>2. CASE w = <<>>
            BY <4>1, <4>2 DEF Missing
      <4>3. CASE w # <<>>
        <5>1. Id(w[1]) = Len(log) + 1 /\ w[1].k = 1
              BY <3>1, <4>3
        <5>2. Id(w[1]) > i /\ Id(w[1]) # i
              BY <5>1, <2>2
        <5>3. Missing(i, f.n, f.k, w) = (f.n - f.k) + (IF w[1].to = "us" THEN 1 - 1 ELSE 0)
              BY <5>1, <5>2, <4>3 DEF Missing
        <5>4. Missing(i, f.n, f.k, w) = f.n - f.k
              BY <5>3, <2>3
        <5> QED BY <5>2, <5>4, <4>1
      <4> QED BY <4>2, <4>3
    <3>2. CASE q # <<>>
      <4>1. w # <<>> /\ w[1] = q[1]
            BY <3>2
      <4>2. Missing(i, f.n, f.k, w) = Missing(i, f.n, f.k, q)
            BY <4>1, <3>2 DEF Missing
      <4> QED BY <4>1, <4>2, <2>1, <3>2 DEF Begins
    <3> QED BY <3>1, <3>2
  <2>5. Begins(i, log[i], f, w, gone)
        BY <2>1, <2>4 DEF Begins
  <2> QED BY <2>1, <2>2, <2>5 DEF Collects
<1> QED BY <1>1, <1>2 DEF Collects

\* When the first piece is lost, or is none that could be collected.
LEMMA CollectsWithout ==
  ASSUME NEW log \in Seq(Sendings), NEW c, NEW f \in Collections,
         NEW q \in Seq(PieceRecords), q # <<>>, NEW gone \in Nat, NEW later \in Nat,
         ArePieces(log, c, q), InOrder(q), Collects(log, c, f, q, gone),
         \/ later = gone + 1
         \/ later = gone /\ (q[1].to = "another" \/ q[1].n = 1)
  PROVE  Collects(log, c, f, RemoveAt(q, 1), later)
<1> DEFINE u == RemoveAt(q, 1)
           m == q[1]
<1>1. f.n \in Nat /\ f.k \in Nat
      BY DEF Collections
<1>2. CASE f = Nothing \/ gone >= f.n
  <2>1. f = Nothing \/ later >= f.n
        BY <1>1, <1>2
  <2> QED BY <2>1 DEF Collects
<1>3. CASE \E i \in DOMAIN log : log[i].client = c /\ Begins(i, log[i], f, q, gone)
  <2>1. PICK i \in DOMAIN log : log[i].client = c /\ Begins(i, log[i], f, q, gone)
        BY <1>3
  <2>2. i \in Nat /\ log[i] \in Sendings
        BY LogEntry
  <2>3. /\ IsPiece(log, c, m)
        /\ IF m.k < m.n
           THEN u # <<>> /\ Id(u[1]) = Id(m) /\ u[1].k = m.k + 1 /\ u[1].to = m.to
           ELSE u = <<>> \/ (Id(u[1]) > Id(m) /\ u[1].k = 1)
        BY Behind
  <2>4. /\ Id(m) \in Nat /\ m.n \in Nat /\ m.k \in 1 .. m.n
        /\ m.to = log[Id(m)].to /\ m.n = Pieces(log[Id(m)])
    <3>1. /\ log[Id(m)] \in Sendings /\ m.n = Pieces(log[Id(m)]) /\ Id(m) \in Nat
          /\ m.k \in 1 .. Pieces(log[Id(m)]) /\ m.to = log[Id(m)].to
          BY <2>3, APiece
    <3> QED BY <3>1, PieceEnds
  <2>5. u # <<>> => Id(u[1]) \in Nat
    <3>1. ASSUME u # <<>>
          PROVE  IsPiece(log, c, u[1])
      <4>1. ArePieces(log, c, u) /\ u \in Seq(PieceRecords)
            BY Behind, Popped
      <4>2. 1 \in 1 .. Len(u)
            BY <3>1, <4>1, LenProperties, EmptySeq
      <4> QED BY <4>1, <4>2 DEF ArePieces
    <3> QED BY <3>1, APiece
  <2>6. /\ Id(m) > i \/ (Id(m) = i /\ m.k > f.k)
        /\ gone >= Missing(i, f.n, f.k, q)
        /\ log[i].to = "us" /\ f.n = Pieces(log[i]) /\ f.k \in 1 .. f.n - 1
        BY <2>1 DEF Begins
  <2> HIDE DEF u
  <2>7. CASE Id(m) = i
    <3>1. later = gone + 1
          BY <2>4, <2>6, <2>7
    <3>2. gone >= m.k - f.k - 1 /\ m.k > f.k /\ m.n = f.n
          BY <2>1, <2>4, <2>6, <2>7 DEF Missing
    <3>3. CASE m.k < m.n
      <4>1. Missing(i, f.n, f.k, u) = (m.k + 1) - f.k - 1
            BY <2>3, <2>7, <3>3 DEF Missing
      <4>2. later >= Missing(i, f.n, f.k, u)
            BY <4>1, <3>1, <3>2, <1>1, <2>4, SMTT(20)
      <4>3. u # <<>> => Id(u[1]) > i \/ (Id(u[1]) = i /\ u[1].k > f.k)
            BY <2>3, <2>4, <2>7, <3>2, <3>3, <1>1
      <4> QED BY <4>2, <4>3, <2>1 DEF Begins, Collects, u
    <3>4. CASE ~(m.k < m.n)
      <4>1. u = <<>> \/ (Id(u[1]) > i /\ u[1].k = 1)
            BY <2>3, <2>7, <3>4
      <4>2. Missing(i, f.n, f.k, u) = f.n - f.k
        <5>1. CASE u = <<>>
              BY <5>1 DEF Missing
        <5>2. CASE u # <<>>
          <6>1. Id(u[1]) # i /\ u[1].k = 1
                BY <4>1, <5>2, <2>2, <2>5
          <6>2. Missing(i, f.n, f.k, u)
                  = (f.n - f.k) + (IF u[1].to = "us" THEN 1 - 1 ELSE 0)
                BY <6>1, <5>2 DEF Missing
          <6> QED BY <6>2, <1>1
        <5> QED BY <5>1, <5>2
      <4>3. m.k = f.n
            BY <2>4, <3>2, <3>4
      <4>4. later >= Missing(i, f.n, f.k, u)
            BY <4>2, <4>3, <3>1, <3>2, <1>1
      <4> QED BY <4>1, <4>4, <2>1 DEF Begins, Collects, u
    <3> QED BY <3>3, <3>4
  <2>8. CASE Id(m) > i
    <3>1. Id(m) # i
          BY <2>2, <2>4, <2>8
    <3>2. gone >= (f.n - f.k) + (IF m.to = "us" THEN m.k - 1 ELSE 0)
          BY <2>1, <2>6, <3>1 DEF Missing
    <3>3. CASE m.k < m.n
      <4>1. /\ u # <<>> /\ Id(u[1]) = Id(m) /\ u[1].k = m.k + 1 /\ u[1].to = m.to
            BY <2>3, <3>3
      <4>2. Missing(i, f.n, f.k, u)
              = (f.n - f.k) + (IF m.to = "us" THEN (m.k + 1) - 1 ELSE 0)
            BY <4>1, <3>1 DEF Missing
      <4>3. later = gone + 1 \/ (later = gone /\ m.to = "another")
            BY <3>3, <2>4
      <4>4. CASE m.to = "us"
        <5>1. later = gone + 1
              BY <4>3, <4>4
        <5>2. later >= Missing(i, f.n, f.k, u)
              BY <5>1, <4>2, <4>4, <3>2, <2>4, <1>1, SMTT(20)
        <5>3. u # <<>> => Id(u[1]) > i
              BY <4>1, <2>8
        <5> QED BY <5>2, <5>3, <2>1 DEF Begins, Collects, u
      <4>5. CASE m.to # "us"
        <5>1. later >= gone
              BY <4>3
        <5> QED BY <5>1, <4>1, <4>2, <4>5, <3>2, <2>1, <2>8, <1>1, SMTT(20) DEF Begins, Collects, u
      <4> QED BY <4>4, <4>5
    <3>4. CASE ~(m.k < m.n)
      <4>1. u = <<>> \/ (Id(u[1]) > Id(m) /\ u[1].k = 1)
            BY <2>3, <3>4
      <4>2. u # <<>> => Id(u[1]) > i /\ Id(u[1]) # i /\ u[1].k = 1
            BY <4>1, <2>2, <2>4, <2>5, <2>8
      <4>3. Missing(i, f.n, f.k, u) = f.n - f.k
        <5>1. CASE u = <<>>
              BY <5>1 DEF Missing
        <5>2. CASE u # <<>>
          <6>1. Missing(i, f.n, f.k, u)
                  = (f.n - f.k) + (IF u[1].to = "us" THEN 1 - 1 ELSE 0)
                BY <4>2, <5>2 DEF Missing
          <6> QED BY <6>1, <1>1
        <5> QED BY <5>1, <5>2
      <4>4. gone >= f.n - f.k
            BY <3>2, <2>4, <1>1, SMTT(20)
      <4>5. later >= Missing(i, f.n, f.k, u)
            BY <4>3, <4>4, <1>1
      <4> QED BY <4>2, <4>5, <2>1 DEF Begins, Collects, u
    <3> QED BY <3>3, <3>4
  <2> QED BY <2>6, <2>7, <2>8
<1> QED BY <1>2, <1>3 DEF Collects
-----------------------------------------------------------------------------
(* What becomes of the collected pieces when one more comes.               *)

Starts(m) == [data |-> m.data, n |-> m.n, k |-> 1]
Both(f, m) == f.data \o m.data
Extends(f, m) == [data |-> Both(f, m), n |-> f.n, k |-> m.k]

LEMMA AccumulateCases ==
  ASSUME NEW f \in Collections, NEW m \in PieceRecords, m.n # 1
  PROVE  \/ m.k = 1 /\ Accumulate(f, m) = Starts(m)
         \/ m.n = f.n /\ m.k = f.k + 1 /\ Accumulate(f, m) = Extends(f, m)
         \/ Accumulate(f, m) = Nothing
<1>1. [f EXCEPT !.data = @ \o m.data, !.k = m.k] = Extends(f, m)
  <2> DEFINE d == Both(f, m)
             k == m.k
  <2>1. [f EXCEPT !.data = @ \o m.data, !.k = m.k] = [f EXCEPT !.data = d, !.k = k]
        BY DEF Both
  <2>2. Extends(f, m) = [data |-> d, n |-> f.n, k |-> k]
        BY DEF Extends
  <2> HIDE DEF d, k
  <2>3. f \in [data : Seq(Characters), n : Nat, k : Nat]
        BY DEF Collections
  <2> DEFINE h == [f EXCEPT !.data = d]
  <2>5. h = [data |-> d, n |-> f.n, k |-> f.k]
        BY <2>3
  <2>6. [f EXCEPT !.data = d, !.k = k] = [h EXCEPT !.k = k]
        OBVIOUS
  <2> HIDE DEF h
  <2>7. [h EXCEPT !.k = k] = [data |-> d, n |-> f.n, k |-> k]
        BY <2>5
  <2>4. [f EXCEPT !.data = d, !.k = k] = [data |-> d, n |-> f.n, k |-> k]
        BY <2>6, <2>7
  <2> QED BY <2>1, <2>2, <2>4
<1>2. CASE m.k = 1
      BY <1>2 DEF Accumulate, Starts
<1>3. CASE m.k # 1 /\ m.n = f.n /\ m.k = f.k + 1
      BY <1>1, <1>3 DEF Accumulate
<1>4. CASE m.k # 1 /\ ~(m.n = f.n /\ m.k = f.k + 1)
      BY <1>4 DEF Accumulate
<1> QED BY <1>2, <1>3, <1>4

LEMMA AccumulateTypes ==
  ASSUME NEW log \in Seq(Sendings), NEW c, NEW f \in Collections,
         NEW m \in PieceRecords, m.n # 1, IsPiece(log, c, m)
  PROVE  ~Complete(Accumulate(f, m)) => Accumulate(f, m) \in Collections
<1> DEFINE g == Accumulate(f, m)
<1>1. /\ m.n \in Nat \ {0, 1} /\ m.k \in 1 .. m.n
      /\ m.data \in Seq(Characters) /\ Len(m.data) >= 1 /\ Len(m.data) \in Nat
  <2>1. /\ log[Id(m)] \in Sendings /\ m.n = Pieces(log[Id(m)])
        /\ m.k \in 1 .. Pieces(log[Id(m)]) /\ Len(m.data) >= 1
        BY APiece
  <2>2. m.n \in Nat \ {0} /\ m.data \in Seq(Characters)
        BY <2>1, PieceEnds DEF PieceRecords
  <2> QED BY <2>1, <2>2, LenProperties
<1>2. Nothing \in Collections
  <2>1. <<>> \in Seq(Characters)
        BY EmptySeq
  <2> QED BY <2>1 DEF Collections, Nothing
<1>3. CASE m.k = 1 /\ g = Starts(m)
  <2>1. 1 \in 1 .. m.n - 1
        BY <1>1
  <2> QED BY <2>1, <1>1, <1>3 DEF Collections, Starts
<1>4. CASE m.n = f.n /\ m.k = f.k + 1 /\ g = Extends(f, m)
  <2>1. /\ f.data \in Seq(Characters) /\ f.n \in Nat /\ f.k \in Nat
        /\ f.k \in 1 .. f.n - 1 /\ Len(f.data) >= f.k
        BY <1>1, <1>4 DEF Collections, Nothing
  <2>2. Len(f.data) \in Nat
        BY <2>1, LenProperties
  <2>3. /\ f.data \o m.data \in Seq(Characters)
        /\ Len(f.data \o m.data) = Len(f.data) + Len(m.data)
        BY <1>1, <2>1, ConcatProperties
  <2> DEFINE d == Both(f, m)
  <2>7. d \in Seq(Characters) /\ Len(d) = Len(f.data) + Len(m.data)
        BY <2>3 DEF Both
  <2> HIDE DEF d
  <2>8. m.k = f.k + 1
        BY <1>4
  <2>4. d \in Seq(Characters) /\ Len(d) >= m.k
    <3> DEFINE x == Len(f.data)
               y == Len(m.data)
               a == f.k
               b == m.k
    <3>1. x \in Nat /\ y \in Nat /\ a \in Nat /\ y >= 1 /\ x >= a /\ b = a + 1 /\ Len(d) = x + y
          BY <1>1, <2>1, <2>2, <2>7, <2>8
    <3> HIDE DEF x, y, a, b
    <3>2. Len(d) >= b
          BY <3>1
    <3> QED BY <3>2, <2>7 DEF b
  <2>5. g = [data |-> d, n |-> f.n, k |-> m.k]
        BY <1>4 DEF Extends, d
  <2>6. ASSUME ~Complete(g)
        PROVE  m.k \in 1 .. f.n - 1
    <3>1. ~(f.n > 0 /\ f.n = m.k)
          BY <2>5, <2>6 DEF Complete
    <3> QED BY <3>1, <1>1, <1>4, <2>1
  <2> QED BY <1>1, <2>1, <2>4, <2>5, <2>6 DEF Collections
<1> QED BY <1>2, <1>3, <1>4, AccumulateCases

\* A complete message is the one its last piece is of, or cost as many pieces.
LEMMA Accumulates ==
  ASSUME NEW log \in Seq(Sendings), NEW c, NEW f \in Collections,
         NEW q \in Seq(PieceRecords), q # <<>>, NEW gone \in Nat,
         ArePieces(log, c, q), InOrder(q), Collects(log, c, f, q, gone),
         q[1].n # 1, q[1].to = "us"
  PROVE  LET m == q[1]
             g == Accumulate(f, m)
         IN  /\ ~Complete(g) => Collects(log, c, g, RemoveAt(q, 1), gone)
             /\ Complete(g) =>
                  /\ g.n = m.n
                  /\ gone >= g.n \/ g.data = Part(Id(m), 0, log[Id(m)].length)
<1> DEFINE u == RemoveAt(q, 1)
           m == q[1]
           g == Accumulate(f, m)
           r == log[Id(m)]
<1>1. /\ IsPiece(log, c, m)
      /\ m.k < m.n => u # <<>> /\ Id(u[1]) = Id(m) /\ u[1].k = m.k + 1 /\ u[1].to = m.to
      BY Behind
<1>2. m \in PieceRecords
      BY Popped, LenProperties
<1>3. /\ Id(m) \in DOMAIN log /\ Id(m) \in Nat /\ r \in Sendings /\ r.client = c
      /\ m.n = Pieces(r) /\ m.k \in 1 .. Pieces(r) /\ r.to = "us"
      /\ m.data = Part(Id(m), EndOf(r, m.k - 1), EndOf(r, m.k))
      BY <1>1, APiece
<1>4. m.n \in Nat \ {0, 1} /\ m.k \in 1 .. m.n
      BY <1>3, PieceEnds
<1>5. f.n \in Nat /\ f.k \in Nat
      BY DEF Collections
<1> HIDE DEF u, m, r
<1>6. CASE m.k = 1 /\ g = Starts(m)
  <2>1. ~Complete(g)
        BY <1>4, <1>6 DEF Complete, Starts
  <2>2. g.n = Pieces(r) /\ g.k \in 1 .. g.n - 1 /\ g.n = m.n /\ g.k = 1
        BY <1>3, <1>4, <1>6 DEF Starts
  <2>3. g.data = Part(Id(m), 0, EndOf(r, g.k))
    <3>1. m.k - 1 = 0 /\ EndOf(r, 0) = 0
          BY <1>3, <1>6, PieceEnds
    <3>2. m.data = Part(Id(m), 0, EndOf(r, 1))
          BY <1>3, <1>6, <3>1
    <3> QED BY <3>2, <1>6 DEF Starts
  <2>4. u # <<>> /\ Id(u[1]) = Id(m) /\ u[1].k = 2
        BY <1>1, <1>4, <1>6 DEF u, m
  <2>5. Missing(Id(m), g.n, g.k, u) = 2 - 1 - 1
        BY <2>2, <2>4 DEF Missing
  <2>6. gone >= Missing(Id(m), g.n, g.k, u)
        BY <2>5
  <2>7. u[1].k > g.k
        BY <2>2, <2>4
  <2> HIDE DEF g
  <2>8. Begins(Id(m), r, g, u, gone)
        BY <2>2, <2>3, <2>4, <2>6, <2>7, <1>3 DEF Begins
  <2>9. Collects(log, c, g, u, gone)
        BY <2>8, <1>3 DEF Collects, r
  <2> QED BY <2>1, <2>9 DEF u, m, g
<1>7. CASE m.n = f.n /\ m.k = f.k + 1 /\ g = Extends(f, m)
  <2> HIDE DEF g
  <2>1. g.n = f.n /\ g.k = m.k /\ g.data = Both(f, m)
        BY <1>7 DEF Extends
  <2>2. CASE gone >= f.n
        BY <2>1, <2>2, <1>7 DEF Collects, u, m, g
  <2>3. CASE ~(gone >= f.n)
    <3>1. f # Nothing
          BY <1>4, <1>7 DEF Nothing
    <3>2. PICK i \in DOMAIN log : log[i].client = c /\ Begins(i, log[i], f, q, gone)
          BY <2>3, <3>1 DEF Collects
    <3>3. i \in Nat
          BY LogEntry
    <3>4. /\ Id(m) > i \/ (Id(m) = i /\ m.k > f.k)
          /\ gone >= Missing(i, f.n, f.k, q)
          /\ f.data = Part(i, 0, EndOf(log[i], f.k))
          BY <3>2 DEF Begins, m
    <3>5. Id(m) = i
      <4>1. ASSUME Id(m) # i
            PROVE  FALSE
        <5>1. gone >= (f.n - f.k) + (m.k - 1)
              BY <3>4, <4>1 DEF Missing, m
        <5>2. gone >= f.n
              BY <5>1, <1>4, <1>5, <1>7
        <5> QED BY <5>2, <2>3
      <4> QED BY <4>1
    <3>6. g.data = Part(i, 0, EndOf(r, m.k))
      <4> DEFINE a == EndOf(r, f.k)
                 b == EndOf(r, m.k)
      <4>1. m.k - 1 = f.k
            BY <1>5, <1>7
      <4>2. a \in Nat /\ b \in Nat /\ a < b
            BY <4>1, <1>3, PieceEnds
      <4>3. a <= b
            BY <4>2
      <4>4. f.data = Part(i, 0, a) /\ m.data = Part(i, a, b)
            BY <4>1, <3>4, <3>5, <1>3 DEF r
      <4> HIDE DEF a, b
      <4>5. Part(i, 0, a) \o Part(i, a, b) = Part(i, 0, b)
            BY <4>2, <4>3, <3>3, PartsJoin
      <4>6. Both(f, m) = Part(i, 0, b)
            BY <4>4, <4>5 DEF Both
      <4> QED BY <4>6, <2>1 DEF b
    <3>7. CASE m.k = m.n
      <4>1. Complete(g)
            BY <3>7, <2>1, <1>4, <1>7 DEF Complete
      <4>2. EndOf(r, m.k) = r.length
            BY <3>7, <1>3, PieceEnds
      <4>3. g.data = Part(Id(m), 0, r.length)
            BY <4>2, <3>5, <3>6
      <4> QED BY <4>1, <4>3, <2>1, <1>7 DEF g, m, u, r
    <3>8. CASE m.k # m.n
      <4>1. m.k < m.n /\ m.k \in 1 .. m.n - 1
            BY <3>8, <1>4
      <4>2. ~Complete(g)
            BY <3>8, <2>1, <1>7 DEF Complete
      <4>3. u # <<>> /\ Id(u[1]) = Id(m) /\ u[1].k = m.k + 1
            BY <4>1, <1>1 DEF u, m
      <4>4. Missing(i, g.n, g.k, u) = (m.k + 1) - m.k - 1
            BY <4>3, <3>5, <2>1 DEF Missing
      <4>5. gone >= Missing(i, g.n, g.k, u) /\ u[1].k > g.k
            BY <4>3, <4>4, <2>1, <1>4
      <4>6. Begins(i, r, g, u, gone)
            BY <4>1, <4>3, <4>5, <3>5, <3>6, <2>1, <1>3, <1>7 DEF Begins
      <4>7. Collects(log, c, g, u, gone)
            BY <4>6, <3>5, <3>2 DEF Collects, r
      <4> QED BY <4>2, <4>7 DEF u, m, g
    <3> QED BY <3>7, <3>8
  <2> QED BY <2>2, <2>3
<1>8. CASE g = Nothing
  <2>1. ~Complete(g)
        BY <1>8 DEF Complete, Nothing
  <2> QED BY <2>1, <1>8 DEF Collects, u, m, g
<1> QED BY <1>2, <1>4, <1>6, <1>7, <1>8, AccumulateCases DEF m
-----------------------------------------------------------------------------
(* The steps.                                                              *)

LEMMA Owners ==
  ASSUME NEW c \in Clients
  PROVE  /\ Own(c) \in Contexts /\ (Own(c) = Master <=> Version[c] = 2)
         /\ Version[c] \in {2, 3}
         /\ \A d \in Clients : Own(c) = Own(d) => c = d
BY Rooms, MasterIsNoClient, OneOldClient DEF Own, Contexts

LEMMA InitHolds == Init => IInv
<1> SUFFICES ASSUME Init
             PROVE  IInv
    OBVIOUS
<1>1. <<>> \in Seq(Sendings) /\ <<>> \in Seq(PieceRecords) /\ <<>> \in Seq(Characters)
      BY EmptySeq
<1>2. Len(<<>>) = 0
      BY EmptySeq
<1>3. Nothing \in Collections
      BY <1>1 DEF Collections, Nothing
<1>4. TypeInv
      BY <1>1, <1>3, BoundsAreNat DEF Init, TypeInv
<1>5. PieceInv
      BY <1>2 DEF Init, PieceInv, ArePieces
<1>6. OrderInv
      BY <1>2 DEF Init, OrderInv, InOrder
<1>7. CollectInv
      BY Owners DEF Init, CollectInv, Collects
<1>8. MixesNeedLosses
      BY DEF Init, MixesNeedLosses
<1> QED BY <1>4, <1>5, <1>6, <1>7, <1>8 DEF IInv

\* The pieces that otrl_proto_fragment_create cuts a message into.
LEMMA SubPart ==
  ASSUME NEW i \in Nat, NEW a \in Nat, NEW b \in Nat, NEW n \in Nat, a < b, b <= n
  PROVE  SubSeq(Part(i, 0, n), a + 1, b) = Part(i, a, b)
<1> DEFINE w == Part(i, 0, n)
           u == SubSeq(w, a + 1, b)
           p == Part(i, a, b)
<1>1. w \in Seq(Characters) /\ Len(w) = n /\ \A j \in 1 .. n : w[j] = <<i, j>>
      BY FirstPart
<1>2. a <= b
      OBVIOUS
<1>3. /\ p \in Seq(Characters) /\ Len(p) = b - a
      /\ \A j \in 1 .. b - a : p[j] = <<i, a + j>>
      BY <1>2, Parts
<1> HIDE DEF w, p
<1>4. \A j \in a + 1 .. b : w[j] \in Characters
  <2>1. \A j \in a + 1 .. b : j \in 1 .. Len(w)
        BY <1>1
  <2> QED BY <2>1, <1>1, ElementOfSeq
<1>5. a + 1 \in Int /\ b \in Int /\ a + 1 <= b
      OBVIOUS
<1>6. /\ u \in Seq(Characters)
      /\ Len(u) = IF a + 1 <= b THEN b - (a + 1) + 1 ELSE 0
      /\ \A j \in 1 .. b - (a + 1) + 1 : u[j] = w[(a + 1) + j - 1]
      BY <1>4, <1>5, SubSeqProperties
<1> HIDE DEF u
<1>7. Len(u) = b - a
      BY <1>5, <1>6
<1>8. ASSUME NEW j \in 1 .. Len(u)
      PROVE  u[j] = p[j]
  <2>1. j \in 1 .. b - a /\ j \in 1 .. b - (a + 1) + 1 /\ (a + 1) + j - 1 = a + j
        BY <1>7
  <2>2. a + j \in 1 .. n
        BY <2>1
  <2>3. u[j] = w[a + j]
        BY <2>1, <1>6
  <2> QED BY <2>1, <2>2, <2>3, <1>1, <1>3
<1>9. u = p
      BY <1>3, <1>6, <1>7, <1>8, SeqEqual
<1> QED BY <1>9 DEF w, u, p

LEMMA Cut ==
  ASSUME TypeInv, NEW c \in Clients, NEW length \in Lengths, NEW to \in {"us", "another"},
         Send(c, length, to)
  PROVE  LET r == [client |-> c, length |-> length, to |-> to]
         IN  /\ r \in Sendings /\ sent' = Append(sent, r)
             /\ net' = [net EXCEPT ![c] = @ \o Run(Len(sent) + 1, r)]
<1> DEFINE r == [client |-> c, length |-> length, to |-> to]
           i == Len(sent) + 1
           n == Count(length, Version[c])
           whole == [j \in 1 .. length |-> <<i, j>>]
           room == Room(c)
<1>1. r \in Sendings /\ sent' = Append(sent, r)
      BY DEF Send, Sendings
<1>2. net' = [net EXCEPT ![c] = @ \o [k \in 1 .. n |-> Piece(c, i, whole, n, k)]]
      BY DEF Send
<1>3. i \in Nat /\ sent'[i] = r
      BY <1>1, LogGrows DEF TypeInv
<1>4. n = Pieces(r) /\ r.client = c /\ r.length = length /\ r.to = to
      BY DEF Pieces
<1>5. length \in Nat /\ whole = Part(i, 0, length)
  <2>1. length \in Nat
        BY LengthsAreNat
  <2>2. \A j \in 1 .. length : 0 + j = j
        BY <2>1
  <2>3. length - 0 = length
        BY <2>1
  <2> QED BY <2>1, <2>2, <2>3 DEF Part
<1>6. Len(whole) = length
      BY <1>3, <1>5, FirstPart
<1> HIDE DEF whole, i, n
<1>7. ASSUME NEW k \in 1 .. n
      PROVE  Piece(c, i, whole, n, k) = PieceOf(i, r, k)
  <2> DEFINE a == EndOf(r, k - 1)
             b == EndOf(r, k)
             d == Part(i, a, b)
             end == k * room
  <2>1. /\ n \in Nat \ {0} /\ a \in Nat /\ b \in Nat /\ a < b /\ b <= length
        /\ EndOf(r, 0) = 0 /\ EndOf(r, n) = length
        /\ n > 1 => a = end - room /\ b = IF end > length THEN length ELSE end
        BY <1>1, <1>4, <1>7, PieceEnds
  <2>2. PieceOf(i, r, k) = [to |-> to, k |-> k, n |-> n, data |-> d]
        BY <1>4 DEF PieceOf
  <2>3. Piece(c, i, whole, n, k) =
          [to |-> sent'[i].to, k |-> k, n |-> n,
           data |-> IF n = 1 THEN whole
                    ELSE SubSeq(whole, end - room + 1, IF end > Len(whole) THEN Len(whole) ELSE end)]
        BY DEF Piece, Room
  <2>4. CASE n = 1
    <3>1. k = 1 /\ k - 1 = 0
          BY <2>4, <1>7
    <3>2. d = whole
          BY <3>1, <2>1, <2>4, <1>5
    <3> QED BY <3>2, <2>2, <2>3, <2>4, <1>3
  <2>5. CASE n # 1
    <3>1. n > 1
          BY <2>1, <2>5
    <3>2. (IF end > Len(whole) THEN Len(whole) ELSE end) = b /\ end - room = a
          BY <3>1, <2>1, <1>6
    <3> HIDE DEF a, b, d, end
    <3>3. SubSeq(whole, a + 1, b) = Part(i, a, b)
          BY <2>1, <1>3, <1>5, SubPart
    <3>4. SubSeq(whole, end - room + 1, IF end > Len(whole) THEN Len(whole) ELSE end) = d
          BY <3>2, <3>3 DEF d
    <3> HIDE DEF r, room
    <3>5. Piece(c, i, whole, n, k) = [to |-> to, k |-> k, n |-> n, data |-> d]
          BY <3>4, <2>3, <2>5, <1>3, <1>4
    <3> QED BY <3>5, <2>2
  <2> QED BY <2>4, <2>5
<1>8. [k \in 1 .. n |-> Piece(c, i, whole, n, k)] = Run(i, r)
      BY <1>4, <1>7 DEF Run
<1> QED BY <1>1, <1>2, <1>8 DEF i

LEMMA SendStep ==
  ASSUME IInv, NEW c \in Clients, NEW length \in Lengths, NEW to \in {"us", "another"},
         Send(c, length, to)
  PROVE  IInv'
<1> DEFINE r == [client |-> c, length |-> length, to |-> to]
           i == Len(sent) + 1
           log == Append(sent, r)
           u == Run(i, r)
<1>1. /\ sent \in Seq(Sendings) /\ net \in [Clients -> Seq(PieceRecords)]
      /\ fragment \in [Contexts -> Collections] /\ lost \in [Clients -> Nat]
      BY DEF IInv, TypeInv
<1>2. r \in Sendings /\ sent' = log /\ net' = [net EXCEPT ![c] = @ \o u]
      BY Cut DEF IInv
<1>3. UNCHANGED <<fragment, read, lost, shuffled, troubled, faults>>
      BY DEF Send
<1> HIDE DEF r
<1>4. /\ log \in Seq(Sendings) /\ DOMAIN sent = 1 .. Len(sent) /\ Len(sent) \in Nat
      /\ DOMAIN log = 1 .. i /\ log[i] = r
      /\ \A j \in DOMAIN sent : log[j] = sent[j]
      BY <1>1, <1>2, LogGrows
<1>5. i \in DOMAIN log
      BY <1>4
<1> HIDE DEF log, i
<1>6. r.client = c
      BY DEF r
<1>7. /\ u \in Seq(PieceRecords) /\ u # <<>> /\ Id(u[1]) = i /\ u[1].k = 1
      /\ ArePieces(log, c, u) /\ InOrder(u)
      BY <1>4, <1>5, <1>6, Runs
<1> HIDE DEF u
<1>8. \A d \in Clients : net'[d] = IF d = c THEN net[c] \o u ELSE net[d]
      BY <1>1, <1>2
<1>9. \A d \in Clients : ArePieces(log, d, net[d])
      BY <1>1, <1>2, PiecesStay DEF IInv, PieceInv, log
<1>10. /\ net[c] \o u \in Seq(PieceRecords) /\ ArePieces(log, c, net[c] \o u)
       /\ net[c] \o u # <<>>
       /\ (net[c] \o u)[1] = IF net[c] = <<>> THEN u[1] ELSE net[c][1]
       /\ (/\ InOrder(net[c]) /\ InOrder(u) /\ u[1].k = 1
           /\ \A t \in 1 .. Len(net[c]) : Id(u[1]) > Id(net[c][t])) => InOrder(net[c] \o u)
  <2>1. net[c] \in Seq(PieceRecords)
        BY <1>1
  <2> QED BY <2>1, <1>7, <1>9, Joined
<1>11. TypeInv'
  <2>1. net' \in [Clients -> Seq(PieceRecords)]
        BY <1>1, <1>2, <1>10
  <2> QED BY <2>1, <1>2, <1>3, <1>4 DEF TypeInv, IInv
<1>12. PieceInv'
  <2>1. \A d \in Clients : ArePieces(sent', d, net'[d])
        BY <1>2, <1>8, <1>9, <1>10
  <2> QED BY <2>1 DEF PieceInv
<1>13. \A t \in 1 .. Len(net[c]) : Id(u[1]) > Id(net[c][t])
  <2> TAKE t \in 1 .. Len(net[c])
  <2>1. IsPiece(sent, c, net[c][t])
        BY DEF IInv, PieceInv, ArePieces
  <2>2. Id(net[c][t]) \in Nat /\ Id(net[c][t]) <= Len(sent)
        BY <2>1, <1>1, APiece
  <2> QED BY <2>2, <1>4, <1>7 DEF i
<1>14. OrderInv'
  <2>1. ASSUME shuffled' = 0
        PROVE  \A d \in Clients : InOrder(net'[d])
        BY <2>1, <1>3, <1>7, <1>8, <1>10, <1>13 DEF IInv, OrderInv
  <2> QED BY <2>1 DEF OrderInv
<1>15. CollectInv'
  <2>1. ASSUME shuffled' = 0, NEW d \in Clients
        PROVE  Collects(sent', d, fragment'[Own(d)], net'[d], lost'[d])
    <3> DEFINE f == fragment[Own(d)]
               q == net[d]
               w == net'[d]
               gone == lost[d]
    <3>1. f \in Collections /\ gone \in Nat
          BY <1>1, Owners
    <3>2. Collects(sent, d, f, q, gone)
          BY <2>1, <1>3 DEF IInv, CollectInv
    <3>3. IF q = <<>> THEN w = <<>> \/ (Id(w[1]) = Len(sent) + 1 /\ w[1].k = 1)
          ELSE w # <<>> /\ w[1] = q[1]
      <4>1. CASE d = c
            BY <4>1, <1>7, <1>8, <1>10 DEF i
      <4>2. CASE d # c
            BY <4>2, <1>8
      <4> QED BY <4>1, <4>2
    <3> HIDE DEF f, q, w, gone
    <3>4. Collects(Append(sent, r), d, f, w, gone)
          BY <3>1, <3>2, <3>3, <1>1, <1>2, CollectsOn
    <3> QED BY <3>4, <1>2, <1>3 DEF f, w, gone, log
  <2> QED BY <2>1 DEF CollectInv
<1>16. MixesNeedLosses'
  <2>1. ASSUME NEW h, Whole(h)
        PROVE  Whole(h)'
    <3>1. PICK j \in DOMAIN sent : Holds(h, j)
          BY <2>1 DEF Whole
    <3>2. j \in DOMAIN sent' /\ sent'[j] = sent[j]
          BY <3>1, <1>2, <1>4 DEF i
    <3>3. Holds(h, j)'
          BY <3>1, <3>2 DEF Holds, Message
    <3> QED BY <3>2, <3>3 DEF Whole
  <2>2. \A h \in read : Whole(h) \/ shuffled > 0 \/ lost[h.client] >= h.n
        BY DEF IInv, MixesNeedLosses
  <2> QED BY <2>1, <2>2, <1>3 DEF MixesNeedLosses
<1> QED BY <1>11, <1>12, <1>14, <1>15, <1>16 DEF IInv

LEMMA LoseStep ==
  ASSUME IInv, NEW c \in Clients, Lose(c)
  PROVE  IInv'
<1> DEFINE q == net[c]
           u == RemoveAt(q, 1)
<1>1. /\ sent \in Seq(Sendings) /\ net \in [Clients -> Seq(PieceRecords)]
      /\ fragment \in [Contexts -> Collections] /\ lost \in [Clients -> Nat]
      BY DEF IInv, TypeInv
<1>2. /\ q # <<>> /\ net' = [net EXCEPT ![c] = u] /\ lost' = [lost EXCEPT ![c] = @ + 1]
      /\ troubled' = troubled \cup {c}
      /\ UNCHANGED <<sent, fragment, read, shuffled, faults>>
      BY DEF Lose, Taken
<1>3. q \in Seq(PieceRecords) /\ ArePieces(sent, c, q)
      BY <1>1 DEF IInv, PieceInv
<1>4. /\ u \in Seq(PieceRecords) /\ 1 \in DOMAIN q /\ (InOrder(q) => InOrder(u))
      BY <1>2, <1>3, Popped
<1>5. ArePieces(sent, c, u)
      BY <1>3, <1>4, Shortened
<1> HIDE DEF u
<1>6. \A d \in Clients : net'[d] = IF d = c THEN u ELSE net[d]
      BY <1>1, <1>2
<1>7. \A d \in Clients : lost'[d] = IF d = c THEN lost[c] + 1 ELSE lost[d]
      BY <1>1, <1>2
<1>8. lost' \in [Clients -> Nat] /\ \A d \in Clients : lost'[d] >= lost[d]
      BY <1>1, <1>2
<1>9. TypeInv'
  <2>1. net' \in [Clients -> Seq(PieceRecords)] /\ troubled' \subseteq Clients
        BY <1>1, <1>2, <1>4 DEF IInv, TypeInv
  <2> QED BY <2>1, <1>2, <1>8 DEF IInv, TypeInv
<1>10. PieceInv'
  <2>1. \A d \in Clients : ArePieces(sent', d, net'[d])
        BY <1>2, <1>5, <1>6 DEF IInv, PieceInv
  <2> QED BY <2>1 DEF PieceInv
<1>11. OrderInv'
  <2>1. ASSUME shuffled' = 0
        PROVE  \A d \in Clients : InOrder(net'[d])
        BY <2>1, <1>2, <1>4, <1>6 DEF IInv, OrderInv
  <2> QED BY <2>1 DEF OrderInv
<1>12. CollectInv'
  <2>1. ASSUME shuffled' = 0, NEW d \in Clients
        PROVE  Collects(sent', d, fragment'[Own(d)], net'[d], lost'[d])
    <3>1. /\ fragment[Own(d)] \in Collections
          /\ Collects(sent, d, fragment[Own(d)], net[d], lost[d]) /\ InOrder(net[d])
          BY <2>1, <1>1, <1>2, Owners DEF IInv, CollectInv, OrderInv
    <3>2. CASE d # c
          BY <3>1, <3>2, <1>2, <1>6, <1>7
    <3>3. CASE d = c
      <4>1. lost[c] \in Nat /\ lost[c] + 1 \in Nat
            BY <1>1
      <4>2. Collects(sent, c, fragment[Own(c)], RemoveAt(q, 1), lost[c] + 1)
            BY <4>1, <3>1, <3>3, <1>1, <1>2, <1>3, CollectsWithout
      <4> QED BY <4>2, <3>3, <1>2, <1>6, <1>7 DEF u
    <3> QED BY <3>2, <3>3
  <2> QED BY <2>1 DEF CollectInv
<1>13. MixesNeedLosses'
  <2>1. \A h \in read : Whole(h) \/ shuffled > 0 \/ lost[h.client] >= h.n
        BY DEF IInv, MixesNeedLosses
  <2>2. \A h : Whole(h) => Whole(h)'
        BY <1>2 DEF Whole, Holds, Message
  <2>3. \A h \in read : h.client \in Clients /\ h.n \in Nat
        BY DEF IInv, TypeInv
  <2>4. \A h \in read : lost[h.client] >= h.n => lost'[h.client] >= h.n
        BY <2>3, <1>1, <1>8
  <2> QED BY <2>1, <2>2, <2>4, <1>2 DEF MixesNeedLosses
<1> QED BY <1>9, <1>10, <1>11, <1>12, <1>13 DEF IInv

LEMMA RepeatStep ==
  ASSUME IInv, NEW c \in Clients, Repeat(c)
  PROVE  IInv'
<1>1. PICK i \in DOMAIN net[c] : net' = [net EXCEPT ![c] = Append(@, @[i])]
      BY DEF Repeat
<1>2. /\ sent \in Seq(Sendings) /\ net \in [Clients -> Seq(PieceRecords)]
      /\ shuffled \in Nat /\ shuffled < MaxShuffles /\ MaxShuffles \in Nat
      /\ shuffled' = shuffled + 1 /\ UNCHANGED <<sent, fragment, read, lost, troubled, faults>>
      BY BoundsAreNat DEF IInv, TypeInv, Repeat, Shuffle
<1> DEFINE q == net[c]
           w == Append(q, q[i])
<1>3. q \in Seq(PieceRecords) /\ ArePieces(sent, c, q) /\ i \in 1 .. Len(q)
      BY <1>2, LenProperties DEF IInv, PieceInv
<1>4. q[i] \in PieceRecords /\ Len(q) \in Nat
      BY <1>3, ElementOfSeq, LenProperties
<1>5. /\ w \in Seq(PieceRecords) /\ Len(w) = Len(q) + 1
      /\ \A t \in 1 .. Len(q) : w[t] = q[t]
      /\ w[Len(q) + 1] = q[i]
      BY <1>3, <1>4, AppendProperties
<1> HIDE DEF w
<1>6. ArePieces(sent, c, w)
  <2> SUFFICES ASSUME NEW t \in 1 .. Len(w)
               PROVE  IsPiece(sent, c, w[t])
      BY DEF ArePieces
  <2>1. CASE t \in 1 .. Len(q)
        BY <2>1, <1>3, <1>5 DEF ArePieces
  <2>2. CASE t = Len(q) + 1
        BY <2>2, <1>3, <1>5 DEF ArePieces
  <2> QED BY <2>1, <2>2, <1>4, <1>5
<1>7. net' = [net EXCEPT ![c] = w]
      BY <1>1 DEF w
<1>8. \A d \in Clients : net'[d] = IF d = c THEN w ELSE net[d]
      BY <1>2, <1>7
<1>9. TypeInv'
  <2>1. net' \in [Clients -> Seq(PieceRecords)] /\ shuffled' \in 0 .. MaxShuffles
        BY <1>2, <1>5, <1>7
  <2> QED BY <2>1, <1>2 DEF IInv, TypeInv
<1>10. PieceInv'
  <2>1. \A d \in Clients : ArePieces(sent', d, net'[d])
        BY <1>2, <1>6, <1>8 DEF IInv, PieceInv
  <2> QED BY <2>1 DEF PieceInv
<1>11. shuffled' > 0 /\ shuffled' # 0
      BY <1>2
<1> QED BY <1>9, <1>10, <1>11 DEF IInv, OrderInv, CollectInv, MixesNeedLosses

LEMMA FinishStep ==
  ASSUME IInv, NEW x \in Contexts, Finish(x)
  PROVE  IInv'
<1>1. /\ fragment' = [fragment EXCEPT ![x] = Nothing]
      /\ troubled' = troubled \cup {c \in Clients : x = IF Version[c] = 3 THEN c ELSE Master}
      /\ UNCHANGED <<sent, net, read, lost, shuffled, faults>>
      BY DEF Finish
<1>2. fragment \in [Contexts -> Collections] /\ troubled \subseteq Clients
      BY DEF IInv, TypeInv
<1>3. Nothing \in Collections
  <2>1. <<>> \in Seq(Characters)
        BY EmptySeq
  <2> QED BY <2>1 DEF Collections, Nothing
<1>4. \A y \in Contexts : fragment'[y] = IF y = x THEN Nothing ELSE fragment[y]
      BY <1>1, <1>2
<1>5. TypeInv'
  <2>1. fragment' \in [Contexts -> Collections] /\ troubled' \subseteq Clients
        BY <1>1, <1>2, <1>3
  <2> QED BY <2>1, <1>1 DEF IInv, TypeInv
<1>6. CollectInv'
  <2>1. ASSUME shuffled' = 0, NEW c \in Clients
        PROVE  Collects(sent', c, fragment'[Own(c)], net'[c], lost'[c])
    <3>1. Collects(sent, c, fragment[Own(c)], net[c], lost[c])
          BY <2>1, <1>1 DEF IInv, CollectInv
    <3>2. fragment'[Own(c)] = Nothing \/ fragment'[Own(c)] = fragment[Own(c)]
          BY <1>4, Owners
    <3>3. CASE fragment'[Own(c)] = Nothing
          BY <3>3 DEF Collects
    <3>4. CASE fragment'[Own(c)] = fragment[Own(c)]
          BY <3>1, <3>4, <1>1
    <3> QED BY <3>2, <3>3, <3>4
  <2> QED BY <2>1 DEF CollectInv
<1>7. PieceInv' /\ OrderInv'
      BY <1>1 DEF IInv, PieceInv, OrderInv
<1>8. MixesNeedLosses'
      BY <1>1 DEF IInv, MixesNeedLosses, Whole, Holds, Message
<1> QED BY <1>5, <1>6, <1>7, <1>8 DEF IInv

LEMMA StutterStep ==
  ASSUME IInv, UNCHANGED vars
  PROVE  IInv'
<1>1. UNCHANGED <<sent, net, fragment, read, lost, shuffled, troubled, faults>>
      BY DEF vars
<1>2. TypeInv' /\ PieceInv' /\ OrderInv' /\ CollectInv'
      BY <1>1 DEF IInv, TypeInv, PieceInv, OrderInv, CollectInv
<1>3. MixesNeedLosses'
      BY <1>1 DEF IInv, MixesNeedLosses, Whole, Holds, Message
<1> QED BY <1>2, <1>3 DEF IInv

\* The parts of IInv that every way of receiving a message keeps.
LEMMA TakenStep ==
  ASSUME IInv, NEW c \in Clients, NEW i \in DOMAIN net[c], Taken(c, i), sent' = sent
  PROVE  /\ net \in [Clients -> Seq(PieceRecords)]
         /\ net' \in [Clients -> Seq(PieceRecords)] /\ PieceInv'
         /\ \A d \in Clients : net'[d] = IF d = c THEN RemoveAt(net[c], i) ELSE net[d]
         /\ shuffled = 0 /\ i = 1 /\ UNCHANGED shuffled => OrderInv'
         /\ net[c][i] \in PieceRecords /\ IsPiece(sent, c, net[c][i]) /\ net[c] # <<>>
<1> DEFINE q == net[c]
           u == RemoveAt(q, i)
<1>1. net \in [Clients -> Seq(PieceRecords)] /\ net' = [net EXCEPT ![c] = u]
      BY DEF IInv, TypeInv, Taken
<1>2. q \in Seq(PieceRecords) /\ ArePieces(sent, c, q)
      BY <1>1 DEF IInv, PieceInv
<1>3. i \in 1 .. Len(q) /\ q[i] \in PieceRecords
      BY <1>2, LenProperties, ElementOfSeq
<1>4. u \in Seq(PieceRecords) /\ ArePieces(sent, c, u)
      BY <1>2, Removed, Shortened
<1>5. IsPiece(sent, c, q[i])
      BY <1>2, <1>3 DEF ArePieces
<1>6. q # <<>>
      BY <1>2, <1>3, EmptySeq
<1>7. i = 1 /\ InOrder(q) => InOrder(u)
      BY <1>2, <1>6, Popped
<1> HIDE DEF u
<1>8. net' \in [Clients -> Seq(PieceRecords)]
      BY <1>1, <1>4
<1>9. \A d \in Clients : net'[d] = IF d = c THEN u ELSE net[d]
      BY <1>1
<1>10. PieceInv'
  <2>1. \A d \in Clients : ArePieces(sent', d, net'[d])
        BY <1>4, <1>9 DEF IInv, PieceInv
  <2> QED BY <2>1 DEF PieceInv
<1>11. ASSUME shuffled = 0, i = 1, UNCHANGED shuffled
       PROVE  OrderInv'
  <2>1. \A d \in Clients : InOrder(net'[d])
        BY <1>7, <1>9, <1>11 DEF IInv, OrderInv
  <2> QED BY <2>1 DEF OrderInv
<1> QED BY <1>1, <1>3, <1>5, <1>6, <1>8, <1>9, <1>10, <1>11 DEF u

\* What is kept, if the collected pieces and what is handed on are right.
LEMMA ReceivedStep ==
  ASSUME IInv, NEW c \in Clients, NEW i \in DOMAIN net[c], Taken(c, i),
         UNCHANGED <<sent, faults, lost>>,
         \/ i = 1 /\ UNCHANGED shuffled
         \/ i # 1 /\ Shuffle,
         fragment' \in [Contexts -> Collections], troubled' \subseteq Clients,
         \A h \in read' : h \in read \/ (h.client = c /\ h.n \in Nat),
         shuffled = 0 /\ i = 1 =>
           /\ Collects(sent, c, fragment'[Own(c)], RemoveAt(net[c], 1), lost[c])
           /\ \A d \in Clients \ {c} :
                fragment'[Own(d)] \in {Nothing, fragment[Own(d)]}
           /\ \A h \in read' \ read : Whole(h) \/ lost[c] >= h.n
  PROVE  IInv'
<1>1. shuffled \in Nat /\ MaxShuffles \in Nat /\ shuffled \in 0 .. MaxShuffles
      BY BoundsAreNat DEF IInv, TypeInv
<1>2. \/ i = 1 /\ UNCHANGED shuffled
      \/ shuffled' > 0 /\ shuffled' # 0
      BY <1>1 DEF Shuffle
<1>3. shuffled' \in 0 .. MaxShuffles
      BY <1>1 DEF Shuffle
<1>4. /\ net' \in [Clients -> Seq(PieceRecords)] /\ PieceInv'
      /\ \A d \in Clients : net'[d] = IF d = c THEN RemoveAt(net[c], i) ELSE net[d]
      /\ shuffled = 0 /\ i = 1 /\ UNCHANGED shuffled => OrderInv'
      BY TakenStep
<1>5. \A h \in read' : h.client \in Clients /\ h.n \in Nat
      BY DEF IInv, TypeInv
<1>6. TypeInv'
      BY <1>3, <1>4, <1>5 DEF IInv, TypeInv
<1>7. OrderInv'
  <2>1. CASE shuffled' # 0
        BY <2>1 DEF OrderInv
  <2>2. CASE shuffled' = 0
        BY <2>2, <1>2, <1>4
  <2> QED BY <2>1, <2>2
<1>8. CollectInv'
  <2>1. ASSUME shuffled' = 0, NEW d \in Clients
        PROVE  Collects(sent', d, fragment'[Own(d)], net'[d], lost'[d])
    <3>1. shuffled = 0 /\ i = 1
          BY <2>1, <1>2
    <3>2. CASE d = c
          BY <3>1, <3>2, <1>4
    <3>3. CASE d # c
      <4>1. net'[d] = net[d]
            BY <3>3, <1>4
      <4>2. CASE fragment'[Own(d)] = Nothing
            BY <4>2 DEF Collects
      <4>3. CASE fragment'[Own(d)] = fragment[Own(d)]
            BY <4>1, <4>3, <3>1 DEF IInv, CollectInv
      <4> QED BY <4>2, <4>3, <3>1, <3>3
    <3> QED BY <3>2, <3>3
  <2> QED BY <2>1 DEF CollectInv
<1>9. MixesNeedLosses'
  <2>1. ASSUME NEW h \in read'
        PROVE  Whole(h)' \/ shuffled' > 0 \/ lost'[h.client] >= h.n
    <3>1. Whole(h) => Whole(h)'
          BY DEF Whole, Holds, Message
    <3>2. CASE shuffled' > 0
          BY <3>2
    <3>3. CASE i = 1 /\ UNCHANGED shuffled /\ shuffled = 0
          BY <3>1, <3>3 DEF IInv, MixesNeedLosses
    <3>4. CASE i = 1 /\ UNCHANGED shuffled /\ shuffled # 0
          BY <3>4, <1>1
    <3> QED BY <3>2, <3>3, <3>4, <1>2
  <2> QED BY <2>1 DEF MixesNeedLosses
<1> QED BY <1>4, <1>6, <1>7, <1>8, <1>9 DEF IInv

\* A message in one piece is handed on as it is.
LEMMA OnePieceStep ==
  ASSUME IInv, NEW c \in Clients, NEW i \in DOMAIN net[c], Taken(c, i),
         UNCHANGED <<sent, faults>>,
         \/ i = 1 /\ UNCHANGED shuffled
         \/ i # 1 /\ Shuffle,
         Collected(c, net[c][i]), net[c][i].n = 1
  PROVE  IInv'
<1> DEFINE m == net[c][i]
           one == [client |-> c, n |-> m.n, data |-> m.data]
           r == sent[Id(m)]
<1>1. /\ fragment' = [fragment EXCEPT ![Master] = Nothing]
      /\ read' = read \cup {one}
      /\ troubled' = troubled \cup Interrupted(c, m) /\ UNCHANGED lost
      BY DEF Collected, Context
<1>2. /\ sent \in Seq(Sendings) /\ net \in [Clients -> Seq(PieceRecords)]
      /\ fragment \in [Contexts -> Collections] /\ lost \in [Clients -> Nat]
      /\ troubled \subseteq Clients
      BY DEF IInv, TypeInv
<1>3. m \in PieceRecords /\ IsPiece(sent, c, m) /\ net[c] # <<>> /\ net[c] \in Seq(PieceRecords)
      BY <1>2, TakenStep
<1>4. one.client = c /\ one.n = 1 /\ one.data = m.data
      OBVIOUS
<1>5. Whole(one)
  <2>1. /\ Id(m) \in DOMAIN sent /\ Id(m) \in Nat /\ r \in Sendings /\ r.client = c
        /\ m.n = Pieces(r) /\ m.k \in 1 .. Pieces(r)
        /\ m.data = Part(Id(m), EndOf(r, m.k - 1), EndOf(r, m.k))
        BY <1>2, <1>3, APiece
  <2>2. m.k = 1 /\ m.k - 1 = 0 /\ Pieces(r) = 1
        BY <2>1
  <2>3. EndOf(r, 0) = 0 /\ EndOf(r, Pieces(r)) = r.length /\ r.length \in Nat
        BY <2>1, PieceEnds
  <2>4. m.data = Part(Id(m), 0, r.length)
        BY <2>1, <2>2, <2>3
  <2>5. Part(Id(m), 0, r.length) = Message(Id(m))
    <3>1. r.length - 0 = r.length /\ \A j \in 1 .. r.length : 0 + j = j
          BY <2>3
    <3> QED BY <3>1 DEF Part, Message
  <2> HIDE DEF one, m
  <2>6. Holds(one, Id(m))
        BY <2>1, <2>4, <2>5, <1>4 DEF Holds, r
  <2> QED BY <2>1, <2>6 DEF Whole
<1>6. Nothing \in Collections
  <2>1. <<>> \in Seq(Characters)
        BY EmptySeq
  <2> QED BY <2>1 DEF Collections, Nothing
<1>7. fragment' \in [Contexts -> Collections]
      BY <1>1, <1>2, <1>6
<1>8. \A x \in Contexts : fragment'[x] = IF x = Master THEN Nothing ELSE fragment[x]
      BY <1>1, <1>2
<1>9. troubled' \subseteq Clients
      BY <1>1, <1>2 DEF Interrupted
<1> HIDE DEF one
<1>10. \A h \in read' : h \in read \/ h = one
      BY <1>1
<1>11. \A d \in Clients : fragment'[Own(d)] \in {Nothing, fragment[Own(d)]}
      BY <1>8, Owners
<1>12. ASSUME shuffled = 0, i = 1
       PROVE  Collects(sent, c, fragment'[Own(c)], RemoveAt(net[c], 1), lost[c])
  <2>1. CASE fragment'[Own(c)] = Nothing
        BY <2>1 DEF Collects
  <2>2. CASE fragment'[Own(c)] = fragment[Own(c)]
    <3>1. /\ fragment[Own(c)] \in Collections /\ lost[c] \in Nat
          /\ Collects(sent, c, fragment[Own(c)], net[c], lost[c])
          /\ InOrder(net[c]) /\ ArePieces(sent, c, net[c])
          BY <1>2, <1>12, Owners DEF IInv, CollectInv, OrderInv, PieceInv
    <3>2. net[c][1].n = 1
          BY <1>12
    <3>3. Collects(sent, c, fragment[Own(c)], RemoveAt(net[c], 1), lost[c])
          BY <3>1, <3>2, <1>2, <1>3, CollectsWithout
    <3> QED BY <3>3, <2>2
  <2> QED BY <2>1, <2>2, <1>11
<1> HIDE DEF m
<1>13. \A h \in read' : h \in read \/ (h.client = c /\ h.n \in Nat /\ Whole(h))
      BY <1>4, <1>5, <1>10
<1> QED BY <1>1, <1>7, <1>9, <1>11, <1>12, <1>13, ReceivedStep

\* A piece for another login of the user is passed over.
LEMMA AnotherStep ==
  ASSUME IInv, NEW c \in Clients, NEW i \in DOMAIN net[c], Taken(c, i),
         UNCHANGED <<sent, faults>>,
         \/ i = 1 /\ UNCHANGED shuffled
         \/ i # 1 /\ Shuffle,
         ForAnotherInstance(c, net[c][i]), UNCHANGED <<fragment, read, lost, troubled>>
  PROVE  IInv'
<1>1. /\ sent \in Seq(Sendings) /\ net \in [Clients -> Seq(PieceRecords)]
      /\ fragment \in [Contexts -> Collections] /\ lost \in [Clients -> Nat]
      /\ troubled \subseteq Clients
      BY DEF IInv, TypeInv
<1>2. net[c] # <<>> /\ net[c] \in Seq(PieceRecords)
      BY <1>1, TakenStep
<1>3. ASSUME shuffled = 0, i = 1
      PROVE  Collects(sent, c, fragment[Own(c)], RemoveAt(net[c], 1), lost[c])
  <2>1. /\ fragment[Own(c)] \in Collections /\ lost[c] \in Nat
        /\ Collects(sent, c, fragment[Own(c)], net[c], lost[c])
        /\ InOrder(net[c]) /\ ArePieces(sent, c, net[c])
        BY <1>1, <1>3, Owners DEF IInv, CollectInv, OrderInv, PieceInv
  <2>2. net[c][1].to = "another"
        BY <1>3 DEF ForAnotherInstance
  <2> QED BY <2>1, <2>2, <1>1, <1>2, CollectsWithout
<1>4. /\ \A h \in read' : h \in read \/ (h.client = c /\ h.n \in Nat)
      /\ \A d \in Clients \ {c} : fragment'[Own(d)] \in {Nothing, fragment[Own(d)]}
      /\ \A h \in read' \ read : Whole(h) \/ lost[c] >= h.n
      /\ fragment' \in [Contexts -> Collections] /\ troubled' \subseteq Clients
      BY <1>1
<1>5. shuffled = 0 /\ i = 1
        => Collects(sent, c, fragment'[Own(c)], RemoveAt(net[c], 1), lost[c])
      BY <1>3
<1> QED BY <1>4, <1>5, ReceivedStep

\* A piece is collected in the context of the client it comes from.
LEMMA PieceStep ==
  ASSUME IInv, NEW c \in Clients, NEW i \in DOMAIN net[c], Taken(c, i),
         UNCHANGED <<sent, faults>>,
         \/ i = 1 /\ UNCHANGED shuffled
         \/ i # 1 /\ Shuffle,
         ~ForAnotherInstance(c, net[c][i]),
         Collected(c, net[c][i]), net[c][i].n # 1
  PROVE  IInv'
<1> DEFINE m == net[c][i]
           x == Own(c)
           f == fragment[x]
           g == Accumulate(f, m)
           new == [client |-> c, n |-> m.n, data |-> g.data]
           r == sent[Id(m)]
<1>1. /\ sent \in Seq(Sendings) /\ net \in [Clients -> Seq(PieceRecords)]
      /\ fragment \in [Contexts -> Collections] /\ lost \in [Clients -> Nat]
      /\ troubled \subseteq Clients
      BY DEF IInv, TypeInv
<1>2. m \in PieceRecords /\ IsPiece(sent, c, m) /\ net[c] # <<>> /\ net[c] \in Seq(PieceRecords)
      BY <1>1, TakenStep
<1>3. /\ Id(m) \in DOMAIN sent /\ Id(m) \in Nat /\ r \in Sendings /\ r.client = c
      /\ m.n = Pieces(r) /\ m.k \in 1 .. Pieces(r) /\ m.to = r.to
      BY <1>1, <1>2, APiece
<1>4. m.n \in Nat \ {0, 1}
      BY <1>3, PieceEnds
<1>5. Context(c, m) = x
  <2>1. m.n > 1
        BY <1>4
  <2> QED BY <2>1 DEF Context, Own
<1>6. m.to = "us"
  <2>1. r.to \in {"us", "another"} /\ (Version[c] = 2 => r.to = "us")
        BY <1>3 DEF Sendings
  <2>2. m.n > 1 /\ Version[c] \in {2, 3}
        BY <1>4, Rooms
  <2> QED BY <2>1, <2>2, <1>3 DEF ForAnotherInstance
<1>7. x \in Contexts /\ f \in Collections
      BY <1>1, Owners
<1>8. Nothing \in Collections
  <2>1. <<>> \in Seq(Characters)
        BY EmptySeq
  <2> QED BY <2>1 DEF Collections, Nothing
<1>9. troubled' \subseteq Clients /\ UNCHANGED lost
      BY <1>1 DEF Collected, Interrupted
<1>10. ASSUME shuffled = 0, i = 1
       PROVE  /\ ~Complete(g) => Collects(sent, c, g, RemoveAt(net[c], 1), lost[c])
              /\ Complete(g) =>
                   /\ g.n = m.n
                   /\ lost[c] >= g.n \/ g.data = Part(Id(m), 0, r.length)
  <2> DEFINE q == net[c]
  <2>1. /\ lost[c] \in Nat /\ Collects(sent, c, f, q, lost[c])
        /\ InOrder(q) /\ ArePieces(sent, c, q)
        BY <1>1, <1>10 DEF IInv, CollectInv, OrderInv, PieceInv
  <2>2. q[1] = m /\ q[1].n # 1 /\ q[1].to = "us" /\ q # <<>> /\ q \in Seq(PieceRecords)
        BY <1>2, <1>6, <1>10
  <2> HIDE DEF q, f, m, g
  <2>3. LET h == Accumulate(f, q[1])
        IN  /\ ~Complete(h) => Collects(sent, c, h, RemoveAt(q, 1), lost[c])
            /\ Complete(h) =>
                 /\ h.n = q[1].n
                 /\ lost[c] >= h.n \/ h.data = Part(Id(q[1]), 0, sent[Id(q[1])].length)
        BY <2>1, <2>2, <1>1, <1>7, Accumulates
  <2> QED BY <2>2, <2>3 DEF g, q
<1>11. ~Complete(g) => g \in Collections
  <2> HIDE DEF f, m
  <2> QED BY <1>1, <1>2, <1>4, <1>7, AccumulateTypes
<1>12. IF Complete(g)
       THEN fragment' = [fragment EXCEPT ![x] = Nothing] /\ read' = read \cup {new}
       ELSE fragment' = [fragment EXCEPT ![x] = g] /\ read' = read
  <2> HIDE DEF x
  <2> QED BY <1>5 DEF Collected
<1>13. new.client = c /\ new.n = m.n /\ new.data = g.data
      OBVIOUS
<1> HIDE DEF g, new, m, f, x
<1>14. fragment' \in [Contexts -> Collections]
      BY <1>1, <1>7, <1>8, <1>11, <1>12
<1>15. \A y \in Contexts :
         fragment'[y] = IF y = x THEN (IF Complete(g) THEN Nothing ELSE g) ELSE fragment[y]
      BY <1>1, <1>12
<1>16. \A d \in Clients \ {c} : fragment'[Own(d)] \in {Nothing, fragment[Own(d)]}
  <2> TAKE d \in Clients \ {c}
  <2>1. Own(d) \in Contexts /\ Own(d) # x
        BY Owners DEF x
  <2> QED BY <2>1, <1>15
<1>17. \A h \in read' : h \in read \/ (Complete(g) /\ h = new)
      BY <1>12
<1>18. ASSUME shuffled = 0, i = 1
       PROVE  Collects(sent, c, fragment'[Own(c)], RemoveAt(net[c], 1), lost[c])
  <2>1. CASE Complete(g)
    <3>1. fragment'[Own(c)] = Nothing
          BY <2>1, <1>7, <1>15 DEF x
    <3> QED BY <3>1 DEF Collects
  <2>2. CASE ~Complete(g)
    <3>1. fragment'[Own(c)] = g
          BY <2>2, <1>7, <1>15 DEF x
    <3> QED BY <2>2, <3>1, <1>10, <1>18
  <2> QED BY <2>1, <2>2
<1>19. ASSUME shuffled = 0, i = 1, Complete(g)
       PROVE  Whole(new) \/ lost[c] >= new.n
  <2>1. CASE lost[c] >= g.n
        BY <2>1, <1>10, <1>13, <1>19
  <2>2. CASE g.data = Part(Id(m), 0, r.length)
    <3>1. r.length \in Nat
          BY <1>3, PieceEnds
    <3>2. r.length - 0 = r.length /\ \A j \in 1 .. r.length : 0 + j = j
          BY <3>1
    <3>3. Part(Id(m), 0, r.length) = Message(Id(m))
          BY <3>2 DEF Part, Message
    <3>4. Holds(new, Id(m))
          BY <2>2, <3>3, <1>3, <1>13 DEF Holds, r
    <3> QED BY <3>4, <1>3 DEF Whole
  <2> QED BY <2>1, <2>2, <1>10, <1>19
<1>20. \A h \in read' : h \in read \/ (h.client = c /\ h.n \in Nat)
      BY <1>4, <1>13, <1>17
<1>21. shuffled = 0 /\ i = 1 => \A h \in read' \ read : Whole(h) \/ lost[c] >= h.n
      BY <1>17, <1>19
<1> QED BY <1>9, <1>14, <1>16, <1>18, <1>20, <1>21, ReceivedStep

LEMMA ReceiveStep ==
  ASSUME IInv, NEW c \in Clients, Receive(c)
  PROVE  IInv'
<1>1. PICK i \in DOMAIN net[c] :
        /\ \/ i = 1 /\ UNCHANGED shuffled
           \/ i # 1 /\ Shuffle
        /\ Taken(c, i)
        /\ \/ ~ForAnotherInstance(c, net[c][i]) /\ Collected(c, net[c][i])
           \/ /\ ForAnotherInstance(c, net[c][i])
              /\ UNCHANGED <<fragment, read, lost, troubled>>
        /\ UNCHANGED <<sent, faults>>
      BY DEF Receive
<1>2. CASE ForAnotherInstance(c, net[c][i])
      BY <1>1, <1>2, AnotherStep
<1>3. CASE ~ForAnotherInstance(c, net[c][i]) /\ net[c][i].n = 1
      BY <1>1, <1>3, OnePieceStep
<1>4. CASE ~ForAnotherInstance(c, net[c][i]) /\ net[c][i].n # 1
      BY <1>1, <1>4, PieceStep
<1> QED BY <1>2, <1>3, <1>4

LEMMA NextHolds == IInv /\ [Next]_vars => IInv'
<1> SUFFICES ASSUME IInv, [Next]_vars
             PROVE  IInv'
    OBVIOUS
<1>1. ASSUME NEW c \in Clients, NEW length \in Lengths, NEW to \in {"us", "another"},
             Send(c, length, to)
      PROVE  IInv'
      BY <1>1, SendStep
<1>2. ASSUME NEW c \in Clients, Receive(c)
      PROVE  IInv'
      BY <1>2, ReceiveStep
<1>3. ASSUME NEW c \in Clients, Lose(c)
      PROVE  IInv'
      BY <1>3, LoseStep
<1>4. ASSUME NEW c \in Clients, Repeat(c)
      PROVE  IInv'
      BY <1>4, RepeatStep
<1>5. ASSUME NEW x \in Contexts, Finish(x)
      PROVE  IInv'
      BY <1>5, FinishStep
<1>6. CASE UNCHANGED vars
      BY <1>6, StutterStep
<1> QED BY <1>1, <1>2, <1>3, <1>4, <1>5, <1>6 DEF Next

-----------------------------------------------------------------------------
(* The theorems.                                                           *)

\* IInv holds in every state: what is on the way are pieces of messages that were
\* sent, in their order unless some were repeated or overtaken, and what a context
\* has collected (otrl_proto_fragment_accumulate) is the beginning of one message, or
\* cost as many lost pieces as that message has.
THEOREM Invariance == Spec => []IInv
<1> QED BY InitHolds, NextHolds, PTL DEF Spec

\* What a context has collected is never complete and has no empty piece: the
\* buffer of a complete message is handed on and cleared (proto.c:954-964).
THEOREM TypesOK == Spec => []TypeOK
<1>1. IInv => TypeOK
  <2> SUFFICES ASSUME IInv
               PROVE  TypeOK
      OBVIOUS
  <2>1. \A x \in Contexts : fragment[x] \in Collections
        BY DEF IInv, TypeInv
  <2>2. \A x \in Contexts :
          \/ fragment[x] = Nothing
          \/ /\ fragment[x].k \in 1 .. fragment[x].n - 1
             /\ Len(fragment[x].data) >= fragment[x].k
        BY <2>1 DEF Collections
  <2> QED BY <2>2 DEF IInv, TypeInv, TypeOK
<1> QED BY <1>1, Invariance, PTL

\* A message put together of the pieces of several ones costs the loss of as many
\* pieces as it has, unless the transport repeats or reorders messages: k and n are
\* all that otrl_proto_fragment_accumulate compares (proto.c:942).
THEOREM MixesCostLosses == Spec => []MixesNeedLosses
<1>1. IInv => MixesNeedLosses
      BY DEF IInv
<1> QED BY <1>1, Invariance, PTL
=============================================================================
