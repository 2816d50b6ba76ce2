------------------------------ MODULE Ake_proofs ------------------------------
(***************************************************************************)
(* Proofs about Ake, for any number of exchanges and repetitions, whatever *)
(* goes wrong.                                                             *)
(*                                                                         *)
(* The invariant follows the two keys of an exchange.  The responder's is  *)
(* unused while it waits for a Reveal Signature message; the initiator's   *)
(* D-H Commit is on its way, is being answered, or has led to an outcome,  *)
(* one of these at a time.  A Signature message that is on its way says    *)
(* that its sender has joined.  All this is said by predicates on the      *)
(* state, and an action's effect is what becomes of each predicate.        *)
(***************************************************************************)
EXTENDS Ake, SequenceTheorems, TLAPS

-----------------------------------------------------------------------------
(* The inductive invariant.                                                *)

Types == {"commit", "key", "revealsig", "signature"}

\* Messages when k key pairs have been made.
Messages(k) ==
  {m \in [type : Types, r : 0 .. k, from : 1 .. k, to : 0 .. k] :
     /\ m.type = "revealsig" => m.r # NULL
     /\ m.type = "commit" => m.to = NULL}

Prepared(a) ==
  /\ a.authstate = "AWAITING_DHKEY" => NULL \notin {a.our_dh, a.r}
  /\ a.authstate = "AWAITING_REVEALSIG" =>
       NULL \notin {a.our_dh, a.encgx} /\ a.lastauthmsg = DhKey(a.our_dh)
  /\ a.authstate = "AWAITING_SIG" =>
       /\ NULL \notin {a.our_dh, a.their_pub}
       /\ \E r \in Nat : a.lastauthmsg = RevealSig(r, a.our_dh, a.their_pub)

RawInfos(k) ==
  [authstate : AuthStates, our_dh : 0 .. k, r : 0 .. k, encgx : 0 .. k,
   their_pub : 0 .. k, lastauthmsg : Messages(k) \cup {NoMsg}]
Infos(k) == {a \in RawInfos(k) : Prepared(a)}

Outcomes(k) == [Peers -> 0 .. k]

TypeInv ==
  /\ version \in {2, 3} /\ keys \in Nat /\ starts \in Nat /\ dups \in Nat
  /\ resent \in BOOLEAN
  /\ m_auth \in [Peers -> Infos(keys)] /\ auth \in [Peers -> Infos(keys)]
  /\ msgstate \in [Peers -> {"PLAINTEXT", "ENCRYPTED", "FINISHED"}]
  /\ current \in [Peers -> (0 .. keys) \X (0 .. keys)]
  /\ net \in [Peers -> Seq(Messages(keys))]
  /\ outcomes \in Seq(Outcomes(keys))
  /\ joined \in [Peers -> Seq(1 .. Len(outcomes))]

\* A message is in s; there is at most one of each.
In(s, type, from, to) ==
  \E i \in DOMAIN s : s[i].type = type /\ s[i].from = from /\ s[i].to = to
One(s, type) ==
  \A i, j \in DOMAIN s :
    /\ s[i].type = type /\ s[j].type = type
    /\ s[i].from = s[j].from /\ s[i].to = s[j].to
    => i = j

Signed(p, y, x) == In(net[p], "signature", y, x)
Commit(p, x) == In(net[p], "commit", x, NULL)

\* p has offered y and waits for the one who committed to x.
Offers(p, y) == auth[p].authstate = "AWAITING_REVEALSIG" /\ auth[p].our_dh = y
Answers(p, x) == auth[p].authstate = "AWAITING_REVEALSIG" /\ auth[p].encgx = x

\* The outcome in which p has the key our.
Pair(p, our, their) == [q \in Peers |-> IF q = p THEN our ELSE their]
Used(p, k) == \E e \in DOMAIN outcomes : outcomes[e][p] = k
HasJoined(p, our, their) ==
  \E n \in DOMAIN joined[p] : outcomes[joined[p][n]] = Pair(p, our, their)

Distinct == \A e, f \in DOMAIN outcomes : outcomes[e] = outcomes[f] => e = f

\* A key that is offered is in no outcome yet, and nobody has committed to it.
OfferInv ==
  \A p \in Peers : \A y \in Nat :
    Offers(p, y) => ~Used(p, y) /\ ~Commit(Other(p), y) /\ ~Answers(Other(p), y)

\* Whose Signature message is there, or could be sent again, has joined; so has
\* whoever is encrypted.
SignatureInv ==
  \A p \in Peers : \A y, x \in Nat :
    Signed(p, y, x) => HasJoined(Other(p), y, x)
LastInv ==
  \A p \in Peers :
    /\ auth[p].lastauthmsg.type = "signature"
         => HasJoined(p, auth[p].lastauthmsg.from, auth[p].lastauthmsg.to)
    /\ version = 3 => auth[p].lastauthmsg.type # "commit"
CurrentInv ==
  \A p \in Peers :
    /\ current[p] # Nobody => HasJoined(p, current[p][1], current[p][2])
    /\ msgstate[p] = "ENCRYPTED" => current[p] # Nobody

\* A commit leads to one exchange, unless the network repeats it.
CommitInv ==
  dups = 0 =>
    \A p \in Peers :
      /\ One(net[p], "commit")
      /\ \A x \in Nat : Commit(p, x) => ~Answers(p, x) /\ ~Used(Other(p), x)
      /\ \A x \in Nat : Answers(p, x) => ~Used(Other(p), x)

\* A Signature message is about something new, unless it was repeated.
SingleInv ==
  ~Repeated =>
    \A p \in Peers :
      /\ One(net[p], "signature")
      /\ \A y, x \in Nat : Signed(p, y, x) => ~HasJoined(p, x, y)

IInv ==
  /\ TypeInv /\ Distinct /\ OfferInv /\ SignatureInv /\ LastInv /\ CurrentInv
  /\ CommitInv /\ SingleInv
-----------------------------------------------------------------------------
(* Two ends, and the pairs of their keys.                                  *)

LEMMA Ends ==
  ASSUME NEW p \in Peers
  PROVE  /\ Other(p) \in Peers /\ Other(p) # p /\ Other(Other(p)) = p
         /\ \A q \in Peers : q = p \/ q = Other(p)
BY TwoEnds DEF Peers, Other

LEMMA Pairs ==
  ASSUME NEW p \in Peers, NEW a, NEW b
  PROVE  /\ Pair(p, a, b)[p] = a /\ Pair(p, a, b)[Other(p)] = b
         /\ \A c, d : Pair(p, a, b) = Pair(p, c, d) => a = c /\ b = d
         /\ \A k : a \in 0 .. k /\ b \in 0 .. k => Pair(p, a, b) \in Outcomes(k)
<1>1. \A c, d : Pair(p, c, d)[p] = c /\ Pair(p, c, d)[Other(p)] = d
  BY Ends DEF Pair
<1>2. \A k : a \in 0 .. k /\ b \in 0 .. k => Pair(p, a, b) \in Outcomes(k)
  BY DEF Pair, Outcomes
<1>3. ASSUME NEW c, NEW d, Pair(p, a, b) = Pair(p, c, d)
      PROVE  a = c /\ b = d
  BY <1>1, <1>3
<1> QED  BY <1>1, <1>2, <1>3

LEMMA PairTurned ==
  ASSUME NEW p \in Peers, NEW a, NEW b
  PROVE  Pair(Other(p), b, a) = Pair(p, a, b)
BY Ends DEF Pair

-----------------------------------------------------------------------------
(* Sequences of messages.                                                  *)

LEMMA AppendIn ==
  ASSUME NEW S, NEW s \in Seq(S), NEW m \in S
  PROVE  /\ Append(s, m) \in Seq(S)
         /\ \A type, f, t : In(Append(s, m), type, f, t)
              => In(s, type, f, t) \/ (m.type = type /\ m.from = f /\ m.to = t)
         /\ \A type : One(s, type) /\ (m.type = type => ~In(s, type, m.from, m.to))
              => One(Append(s, m), type)
<1> DEFINE u == Append(s, m)
           n == Len(s)
<1>1. u \in Seq(S) /\ Len(u) = n + 1 /\ u[n + 1] = m /\ \A i \in 1 .. n : u[i] = s[i]
  BY AppendProperties
<1>2. DOMAIN s = 1 .. n /\ n \in Nat /\ DOMAIN u = 1 .. n + 1
  <2>1. DOMAIN s = 1 .. n /\ n \in Nat
    BY LenProperties
  <2>2. DOMAIN u = 1 .. Len(u)
    BY <1>1, LenProperties
  <2> QED  BY <1>1, <2>1, <2>2
<1>3. \A i \in DOMAIN u : i = n + 1 \/ (i \in DOMAIN s /\ i # n + 1)
  BY <1>2
<1> HIDE DEF u, n
<1>4. ASSUME NEW type, NEW f, NEW t, In(u, type, f, t)
      PROVE  In(s, type, f, t) \/ (m.type = type /\ m.from = f /\ m.to = t)
  BY <1>1, <1>2, <1>3, <1>4 DEF In
<1>5. ASSUME NEW type, One(s, type), m.type = type => ~In(s, type, m.from, m.to)
      PROVE  One(u, type)
  <2> SUFFICES ASSUME NEW i \in DOMAIN u, NEW j \in DOMAIN u,
                      u[i].type = type, u[j].type = type,
                      u[i].from = u[j].from, u[i].to = u[j].to
               PROVE  i = j
    BY DEF One
  <2>1. CASE i \in DOMAIN s /\ j \in DOMAIN s
    BY <1>1, <1>2, <1>5, <2>1 DEF One
  <2>2. CASE i = n + 1 /\ j \in DOMAIN s
    BY <1>1, <1>2, <1>5, <2>2 DEF In
  <2>3. CASE j = n + 1 /\ i \in DOMAIN s
    BY <1>1, <1>2, <1>5, <2>3 DEF In
  <2> QED  BY <1>3, <2>1, <2>2, <2>3
<1> QED  BY <1>1, <1>4, <1>5 DEF u

LEMMA RemoveIn ==
  ASSUME NEW S, NEW s \in Seq(S), NEW i \in DOMAIN s
  PROVE  /\ RemoveAt(s, i) \in Seq(S)
         /\ \A type, f, t : In(RemoveAt(s, i), type, f, t) => In(s, type, f, t)
         /\ \A type : One(s, type) => One(RemoveAt(s, i), type)
         /\ One(s, s[i].type) => ~In(RemoveAt(s, i), s[i].type, s[i].from, s[i].to)
<1> DEFINE n == Len(s)
           a == SubSeq(s, 1, i - 1)
           b == SubSeq(s, i + 1, n)
           u == RemoveAt(s, i)
           at(j) == IF j < i THEN j ELSE j + 1
<1>1. n \in Nat /\ DOMAIN s = 1 .. n /\ i \in 1 .. n /\ \A j \in 1 .. n : s[j] \in S
  BY LenProperties, ElementOfSeq
<1>2. a \in Seq(S) /\ Len(a) = i - 1 /\ \A j \in 1 .. i - 1 : a[j] = s[j]
  <2>1. \A j \in 1 .. i - 1 : s[j] \in S
    BY <1>1
  <2>2. a \in Seq(S) /\ Len(a) = (IF 1 <= i - 1 THEN i - 1 - 1 + 1 ELSE 0)
        /\ \A j \in 1 .. i - 1 - 1 + 1 : a[j] = s[1 + j - 1]
    BY <1>1, <2>1, SubSeqProperties
  <2> QED  BY <1>1, <2>2
<1>3. b \in Seq(S) /\ Len(b) = n - i /\ \A j \in 1 .. n - i : b[j] = s[j + i]
  <2>1. \A j \in i + 1 .. n : s[j] \in S
    BY <1>1
  <2>2. b \in Seq(S) /\ Len(b) = (IF i + 1 <= n THEN n - (i + 1) + 1 ELSE 0)
        /\ \A j \in 1 .. n - (i + 1) + 1 : b[j] = s[(i + 1) + j - 1]
    BY <1>1, <2>1, SubSeqProperties
  <2>3. \A j \in 1 .. n - i : (i + 1) + j - 1 = j + i /\ j \in 1 .. n - (i + 1) + 1
    BY <1>1
  <2> QED  BY <1>1, <2>2, <2>3
<1> HIDE DEF a, b, n
<1>4. /\ u \in Seq(S) /\ Len(u) = n - 1
      /\ \A j \in 1 .. n - 1 : u[j] = IF j <= i - 1 THEN a[j] ELSE b[j - (i - 1)]
  <2>1. u = a \o b
    BY DEF RemoveAt, a, b, n
  <2>2. Len(a) + Len(b) = n - 1 /\ Len(a) = i - 1
    BY <1>1, <1>2, <1>3
  <2>3. /\ u \in Seq(S) /\ Len(u) = Len(a) + Len(b)
        /\ \A j \in 1 .. Len(a) + Len(b) : u[j] = IF j <= Len(a) THEN a[j] ELSE b[j - Len(a)]
    <3> HIDE DEF u
    <3> QED  BY <1>2, <1>3, <2>1, ConcatProperties
  <2> QED  BY <2>2, <2>3
<1> HIDE DEF u
<1>5. \A j \in 1 .. n - 1 : at(j) \in 1 .. n /\ at(j) # i /\ u[j] = s[at(j)]
  <2> TAKE j \in 1 .. n - 1
  <2>1. CASE j < i
    <3>1. j \in 1 .. i - 1 /\ j <= i - 1
      BY <1>1, <2>1
    <3> QED  BY <1>1, <1>2, <1>4, <2>1, <3>1
  <2>2. CASE ~(j < i)
    <3>1. j - (i - 1) \in 1 .. n - i /\ j - (i - 1) + i = j + 1 /\ ~(j <= i - 1)
      BY <1>1, <2>2
    <3>2. u[j] = s[j + 1]
      BY <1>3, <1>4, <3>1
    <3> QED  BY <1>1, <2>2, <3>2
  <2> QED  BY <2>1, <2>2
<1>6. DOMAIN u = 1 .. n - 1
  BY <1>4, LenProperties
<1>7. \A j, k \in 1 .. n - 1 : at(j) = at(k) => j = k
  BY <1>1
<1> HIDE DEF at
<1>8. ASSUME NEW type, NEW f, NEW t, In(u, type, f, t)
      PROVE  \E k \in DOMAIN s \ {i} : s[k].type = type /\ s[k].from = f /\ s[k].to = t
  BY <1>1, <1>5, <1>6, <1>8 DEF In
<1>9. ASSUME NEW type, One(s, type)
      PROVE  One(u, type)
  BY <1>1, <1>5, <1>6, <1>7, <1>9 DEF One
<1>10. One(s, s[i].type) => ~In(u, s[i].type, s[i].from, s[i].to)
  BY <1>8 DEF One
<1>11. ASSUME NEW type, NEW f, NEW t, In(u, type, f, t)
       PROVE  In(s, type, f, t)
  BY <1>1, <1>5, <1>6, <1>11 DEF In
<1>12. u \in Seq(S)
  BY <1>4
<1> HIDE DEF a, b, n
<1>13. \A type : One(s, type) => One(u, type)
  BY <1>9
<1> QED  BY <1>10, <1>11, <1>12, <1>13 DEF u
-----------------------------------------------------------------------------
(* What becomes of the messages on their way.                              *)

\* k' in place of k: there are more of everything.
LEMMA More ==
  ASSUME NEW k \in Nat, NEW l \in Nat, k <= l
  PROVE  /\ Messages(k) \subseteq Messages(l) /\ Outcomes(k) \subseteq Outcomes(l)
         /\ Infos(k) \subseteq Infos(l)
<1>1. 0 .. k \subseteq 0 .. l /\ 1 .. k \subseteq 1 .. l
  OBVIOUS
<1>2. Messages(k) \subseteq Messages(l)
  BY <1>1 DEF Messages
<1>3. Outcomes(k) \subseteq Outcomes(l)
  BY <1>1 DEF Outcomes
<1>4. RawInfos(k) \subseteq RawInfos(l)
  <2> HIDE DEF Messages
  <2> QED  BY <1>1, <1>2 DEF RawInfos
<1>5. Infos(k) \subseteq Infos(l)
  BY <1>4 DEF Infos
<1> QED  BY <1>2, <1>3, <1>5

LEMMA SeqMore ==
  ASSUME NEW S, NEW T, S \subseteq T
  PROVE  Seq(S) \subseteq Seq(T)
<1> SUFFICES ASSUME NEW s \in Seq(S)
             PROVE  s \in Seq(T)
  OBVIOUS
<1>1. Len(s) \in Nat /\ s \in [1 .. Len(s) -> S]
  BY SeqDef, LenProperties
<1>2. s \in [1 .. Len(s) -> T]
  BY <1>1
<1> QED  BY <1>1, <1>2, SeqDef

\* The answer of an action that may have none.
Out(m) == IF m = NoMsg THEN <<>> ELSE <<m>>

\* The messages on their way to q are those from before, without the i-th one
\* if q is p, and m if q is the other end.
Passed(p, i, m) ==
  /\ \A q \in Peers : \A y, x \in Nat :
       Signed(q, y, x)' => \/ Signed(q, y, x)
                           \/ q = Other(p) /\ m.type = "signature" /\ m.from = y /\ m.to = x
  /\ \A q \in Peers : \A x \in Nat :
       Commit(q, x)' => \/ Commit(q, x)
                        \/ q = Other(p) /\ m.type = "commit" /\ m.from = x
  /\ \A q \in Peers : \A type \in Types :
       /\ One(net[q], type)
       /\ q = Other(p) /\ m.type = type => ~In(net[q], type, m.from, m.to)
       => One(net'[q], type)

LEMMA Replies ==
  ASSUME TypeInv, NEW p \in Peers, NEW i \in DOMAIN net[p], NEW k \in Nat, keys <= k,
         NEW m \in Messages(k) \cup {NoMsg}, Reply(p, i, Out(m))
  PROVE  /\ net' \in [Peers -> Seq(Messages(k))]
         /\ Passed(p, i, m)
         /\ One(net[p], net[p][i].type)
              => ~In(net'[p], net[p][i].type, net[p][i].from, net[p][i].to)
<1> DEFINE M == Messages(k)
           o == Other(p)
           s == net[p]
           r == net[o]
<1>1. s \in Seq(M) /\ r \in Seq(M) /\ o \in Peers /\ o # p /\ net \in [Peers -> Seq(M)]
  <2>1. Seq(Messages(keys)) \subseteq Seq(M)
    <3> HIDE DEF M
    <3>1. Messages(keys) \subseteq M /\ keys \in Nat
      BY More DEF M, TypeInv
    <3> QED  BY <3>1, SeqMore
  <2>2. net \in [Peers -> Seq(Messages(keys))]
    BY DEF TypeInv
  <2> HIDE DEF M
  <2> QED  BY <2>1, <2>2, Ends
<1>2. net' = [q \in Peers |-> IF q = p THEN RemoveAt(s, i) ELSE net[q] \o Out(m)]
  BY DEF Reply
<1>3. DOMAIN net' = Peers /\ net'[p] = RemoveAt(s, i) /\ net'[o] = r \o Out(m)
  BY <1>1, <1>2
<1>4. m # NoMsg => m \in M /\ net'[o] = Append(r, m)
  <2>1. ASSUME m # NoMsg
        PROVE  m \in M /\ net'[o] = r \o <<m>>
    BY <1>3, <2>1 DEF Out
  <2> HIDE DEF M
  <2> QED  BY <1>1, <2>1, AppendIsConcat
<1>5. m = NoMsg => net'[o] = r /\ m.type = "none"
  <2>1. r \o <<>> = r
    <3> HIDE DEF M
    <3> QED  BY <1>1, ConcatEmptySeq
  <2> QED  BY <1>3, <2>1 DEF Out, NoMsg, Msg
<1> HIDE DEF M, s, r, o
<1>6. /\ net'[p] \in Seq(M)
      /\ \A type, f, t : In(net'[p], type, f, t) => In(s, type, f, t)
      /\ \A type : One(s, type) => One(net'[p], type)
      /\ One(s, s[i].type) => ~In(net'[p], s[i].type, s[i].from, s[i].to)
  <2>1. i \in DOMAIN s
    BY DEF s
  <2>2. /\ RemoveAt(s, i) \in Seq(M)
        /\ \A type, f, t : In(RemoveAt(s, i), type, f, t) => In(s, type, f, t)
        /\ \A type : One(s, type) => One(RemoveAt(s, i), type)
        /\ One(s, s[i].type) => ~In(RemoveAt(s, i), s[i].type, s[i].from, s[i].to)
    BY <1>1, <2>1, RemoveIn
  <2> QED  BY <1>3, <2>2, Zenon
<1>7. /\ net'[o] \in Seq(M)
      /\ \A type \in Types : \A f, t : In(net'[o], type, f, t)
           => In(r, type, f, t) \/ (m.type = type /\ m.from = f /\ m.to = t)
      /\ \A type \in Types : One(r, type) /\ (m.type = type => ~In(r, type, m.from, m.to))
           => One(net'[o], type)
  <2>1. CASE m = NoMsg
    BY <1>1, <1>5, <2>1
  <2>2. CASE m # NoMsg
    <3>1. m \in M /\ net'[o] = Append(r, m)
      BY <1>4, <2>2
    <3>2. /\ Append(r, m) \in Seq(M)
          /\ \A type, f, t : In(Append(r, m), type, f, t)
               => In(r, type, f, t) \/ (m.type = type /\ m.from = f /\ m.to = t)
          /\ \A type : One(r, type) /\ (m.type = type => ~In(r, type, m.from, m.to))
               => One(Append(r, m), type)
      BY <1>1, <3>1, AppendIn
    <3> QED  BY <3>1, <3>2, Zenon
  <2> QED  BY <2>1, <2>2
<1>8. net' \in [Peers -> Seq(M)]
  BY <1>2, <1>6, <1>7, Ends DEF o
<1>9. \A q \in Peers : q = p \/ q = o
  BY Ends DEF o
<1>10. "signature" \in Types /\ "commit" \in Types
  BY DEF Types
<1>11. ASSUME NEW q \in Peers, NEW y, NEW x, Signed(q, y, x)'
       PROVE  \/ Signed(q, y, x)
              \/ q = o /\ m.type = "signature" /\ m.from = y /\ m.to = x
  <2>1. In(net'[q], "signature", y, x)
    BY <1>11 DEF Signed, In
  <2> QED  BY <1>6, <1>7, <1>9, <1>10, <2>1 DEF Signed, s, r
<1>12. ASSUME NEW q \in Peers, NEW x, Commit(q, x)'
       PROVE  \/ Commit(q, x)
              \/ q = o /\ m.type = "commit" /\ m.from = x
  <2>1. In(net'[q], "commit", x, NULL)
    BY <1>12 DEF Commit, In
  <2> QED  BY <1>6, <1>7, <1>9, <1>10, <2>1 DEF Commit, s, r
<1>13. ASSUME NEW q \in Peers, NEW type \in Types, One(net[q], type),
              q = o /\ m.type = type => ~In(net[q], type, m.from, m.to)
       PROVE  One(net'[q], type)
  BY <1>6, <1>7, <1>9, <1>13 DEF s, r
<1> QED  BY <1>6, <1>8, <1>11, <1>12, <1>13 DEF Passed, M, s, o
\* m is put behind the messages on their way to p.
Puts(p, m) == net' = [net EXCEPT ![p] = Append(net[p], m)]

Came(p, m) ==
  /\ \A q \in Peers : \A y, x \in Nat :
       Signed(q, y, x)' => \/ Signed(q, y, x)
                           \/ q = p /\ m.type = "signature" /\ m.from = y /\ m.to = x
  /\ \A q \in Peers : \A x \in Nat :
       Commit(q, x)' => \/ Commit(q, x)
                        \/ q = p /\ m.type = "commit" /\ m.from = x
  /\ \A q \in Peers : \A type \in Types :
       /\ One(net[q], type)
       /\ q = p /\ m.type = type => ~In(net[q], type, m.from, m.to)
       => One(net'[q], type)

LEMMA Comes ==
  ASSUME TypeInv, NEW p \in Peers, NEW k \in Nat, keys <= k, NEW m \in Messages(k),
         Puts(p, m)
  PROVE  net' \in [Peers -> Seq(Messages(k))] /\ Came(p, m)
<1> DEFINE M == Messages(k)
           s == net[p]
<1>1. s \in Seq(M) /\ net \in [Peers -> Seq(M)]
  <2>1. Seq(Messages(keys)) \subseteq Seq(M)
    <3> HIDE DEF M
    <3>1. Messages(keys) \subseteq M /\ keys \in Nat
      BY More DEF M, TypeInv
    <3> QED  BY <3>1, SeqMore
  <2>2. net \in [Peers -> Seq(Messages(keys))]
    BY DEF TypeInv
  <2> HIDE DEF M
  <2> QED  BY <2>1, <2>2
<1>2. net' = [net EXCEPT ![p] = Append(s, m)] /\ m \in M
  BY DEF Puts
<1> HIDE DEF M, s
<1>3. net'[p] = Append(s, m) /\ \A q \in Peers : q # p => net'[q] = net[q]
  BY <1>1, <1>2
<1>4. /\ Append(s, m) \in Seq(M)
      /\ \A type, f, t : In(Append(s, m), type, f, t)
           => In(s, type, f, t) \/ (m.type = type /\ m.from = f /\ m.to = t)
      /\ \A type : One(s, type) /\ (m.type = type => ~In(s, type, m.from, m.to))
           => One(Append(s, m), type)
  BY <1>1, <1>2, AppendIn
<1>5. net' \in [Peers -> Seq(M)]
  BY <1>1, <1>2, <1>4
<1>6. ASSUME NEW q \in Peers, NEW y, NEW x, Signed(q, y, x)'
      PROVE  \/ Signed(q, y, x)
             \/ q = p /\ m.type = "signature" /\ m.from = y /\ m.to = x
  <2>1. In(net'[q], "signature", y, x)
    BY <1>6 DEF Signed, In
  <2> QED  BY <1>3, <1>4, <2>1, Zenon DEF Signed, s
<1>7. ASSUME NEW q \in Peers, NEW x, Commit(q, x)'
      PROVE  \/ Commit(q, x)
             \/ q = p /\ m.type = "commit" /\ m.from = x
  <2>1. In(net'[q], "commit", x, NULL)
    BY <1>7 DEF Commit, In
  <2> QED  BY <1>3, <1>4, <2>1, Zenon DEF Commit, s
<1>8. ASSUME NEW q \in Peers, NEW type \in Types, One(net[q], type),
             q = p /\ m.type = type => ~In(net[q], type, m.from, m.to)
      PROVE  One(net'[q], type)
  BY <1>3, <1>4, <1>8, Zenon DEF s
<1> QED  BY <1>5, <1>6, <1>7, <1>8 DEF M, Came

-----------------------------------------------------------------------------
(* What the handlers make of an OtrlAuthInfo.                              *)

LEMMA MessageTypes ==
  ASSUME NEW k \in Nat
  PROVE  /\ \A x \in 1 .. k : DhCommit(x) \in Messages(k) /\ DhKey(x) \in Messages(k)
         /\ \A r, x, y \in 1 .. k : RevealSig(r, x, y) \in Messages(k)
         /\ \A x, y \in 1 .. k : Signature(x, y) \in Messages(k)
         /\ \A m \in Messages(k) :
              /\ m.from \in 1 .. k /\ m.to \in 0 .. k /\ m.r \in 0 .. k
              /\ m.type = "revealsig" => m.r \in 1 .. k
              /\ m.type = "commit" => m.to = NULL
<1>1. /\ \A x \in 1 .. k : DhCommit(x) \in Messages(k) /\ DhKey(x) \in Messages(k)
      /\ \A r, x, y \in 1 .. k : RevealSig(r, x, y) \in Messages(k)
      /\ \A x, y \in 1 .. k : Signature(x, y) \in Messages(k)
  BY DEF Messages, DhCommit, DhKey, RevealSig, Signature, Msg, Types, NULL
<1>2. ASSUME NEW m \in Messages(k)
      PROVE  /\ m.from \in 1 .. k /\ m.to \in 0 .. k /\ m.r \in 0 .. k
             /\ m.type = "revealsig" => m.r \in 1 .. k
             /\ m.type = "commit" => m.to = NULL
  <2>1. m \in [type : Types, r : 0 .. k, from : 1 .. k, to : 0 .. k]
        /\ (m.type = "revealsig" => m.r # NULL) /\ (m.type = "commit" => m.to = NULL)
    BY DEF Messages
  <2> QED  BY <2>1 DEF NULL
<1> QED  BY <1>1, <1>2

LEMMA InfoTypes ==
  ASSUME NEW k \in Nat, NEW a \in Infos(k)
  PROVE  /\ a.authstate \in AuthStates
         /\ a.our_dh \in 0 .. k /\ a.r \in 0 .. k /\ a.encgx \in 0 .. k
         /\ a.their_pub \in 0 .. k /\ a.lastauthmsg \in Messages(k) \cup {NoMsg}
         /\ a.authstate = "AWAITING_DHKEY" => a.our_dh \in 1 .. k /\ a.r \in 1 .. k
         /\ a.authstate = "AWAITING_REVEALSIG" =>
              /\ a.our_dh \in 1 .. k /\ a.encgx \in 1 .. k
              /\ a.lastauthmsg = DhKey(a.our_dh)
         /\ a.authstate = "AWAITING_SIG" =>
              /\ a.our_dh \in 1 .. k /\ a.their_pub \in 1 .. k
              /\ \E r \in Nat : a.lastauthmsg = RevealSig(r, a.our_dh, a.their_pub)
<1>1. a \in RawInfos(k) /\ Prepared(a)
  BY DEF Infos
<1>2. /\ a.authstate \in AuthStates
      /\ a.our_dh \in 0 .. k /\ a.r \in 0 .. k /\ a.encgx \in 0 .. k
      /\ a.their_pub \in 0 .. k /\ a.lastauthmsg \in Messages(k) \cup {NoMsg}
  <2> HIDE DEF Messages
  <2> QED  BY <1>1 DEF RawInfos
<1> QED  BY <1>1, <1>2, SMT DEF Prepared, NULL
\* A record of the fields of an OtrlAuthInfo.
Info(state, our, r, gx, their, last) ==
  [authstate |-> state, our_dh |-> our, r |-> r, encgx |-> gx,
   their_pub |-> their, lastauthmsg |-> last]

LEMMA MakesInfo ==
  ASSUME NEW k \in Nat, NEW state \in AuthStates, NEW our \in 0 .. k, NEW r \in 0 .. k,
         NEW gx \in 0 .. k, NEW their \in 0 .. k, NEW last \in Messages(k) \cup {NoMsg},
         state = "AWAITING_DHKEY" => NULL \notin {our, r},
         state = "AWAITING_REVEALSIG" => NULL \notin {our, gx} /\ last = DhKey(our),
         state = "AWAITING_SIG" =>
           NULL \notin {our, their} /\ \E z \in Nat : last = RevealSig(z, our, their)
  PROVE  Info(state, our, r, gx, their, last) \in Infos(k)
<1> DEFINE a == Info(state, our, r, gx, their, last)
<1>1. a \in RawInfos(k)
  <2> HIDE DEF Messages
  <2> QED  BY DEF Info, RawInfos
<1>2. /\ a.authstate = state /\ a.our_dh = our /\ a.r = r /\ a.encgx = gx
      /\ a.their_pub = their /\ a.lastauthmsg = last
  BY DEF Info
<1> HIDE DEF a
<1>3. Prepared(a)
  BY <1>2 DEF Prepared
<1> QED  BY <1>1, <1>3 DEF Infos, a

\* An OtrlAuthInfo is the record of its fields.
LEMMA IsInfo ==
  ASSUME NEW k \in Nat, NEW a \in Infos(k)
  PROVE  a = Info(a.authstate, a.our_dh, a.r, a.encgx, a.their_pub, a.lastauthmsg)
<1>1. a \in [authstate : AuthStates, our_dh : 0 .. k, r : 0 .. k, encgx : 0 .. k,
             their_pub : 0 .. k, lastauthmsg : Messages(k) \cup {NoMsg}]
  BY DEF Infos, RawInfos
<1> HIDE DEF Messages
<1> QED  BY <1>1 DEF Info

\* What CopyOnKey and the handlers make of the fields.
Commits(a, x) == [a EXCEPT !.encgx = x]
Knows(a, x) == [a EXCEPT !.their_pub = x]

LEMMA Makes ==
  ASSUME NEW k \in Nat, NEW a \in Infos(k)
  PROVE  /\ Cleared = Info("NONE", NULL, NULL, NULL, NULL, NoMsg)
         /\ \A x : Started(x) = Info("AWAITING_DHKEY", x, x, x, NULL, DhCommit(x))
         /\ \A m, x : Responding(m, x) =
              Info("AWAITING_REVEALSIG", x, NULL, m.from, NULL, DhKey(x))
         /\ \A x : Commits(a, x) =
              Info(a.authstate, a.our_dh, a.r, x, a.their_pub, a.lastauthmsg)
         /\ \A b : CopyOnKey(b, a) =
              Info("AWAITING_DHKEY", b.our_dh, b.r, b.encgx, a.their_pub, a.lastauthmsg)
         /\ \A m : Revealing(a, m) =
              Info("AWAITING_SIG", a.our_dh, a.r, a.encgx, m.from,
                   RevealSig(a.r, a.our_dh, m.from))
         /\ \A m : TakeR(a, m) =
              Info(a.authstate, a.our_dh, m.r, a.encgx, a.their_pub, a.lastauthmsg)
         /\ \A x : Knows(a, x) =
              Info(a.authstate, a.our_dh, a.r, a.encgx, x, a.lastauthmsg)
         /\ \A m : Finished(a, m) = Info("NONE", a.our_dh, a.r, a.encgx, a.their_pub, m)
<1>1. a = Info(a.authstate, a.our_dh, a.r, a.encgx, a.their_pub, a.lastauthmsg)
  BY IsInfo
<1> DEFINE s == a.authstate  d == a.our_dh  r == a.r  g == a.encgx
           t == a.their_pub  l == a.lastauthmsg
<1> HIDE DEF s, d, r, g, t, l
<1>2. a = Info(s, d, r, g, t, l)
  BY <1>1 DEF s, d, r, g, t, l
<1>3. Cleared = Info("NONE", NULL, NULL, NULL, NULL, NoMsg)
  BY DEF Cleared, Info
<1>10. ASSUME NEW x
       PROVE  Started(x) = Info("AWAITING_DHKEY", x, x, x, NULL, DhCommit(x))
  <2> DEFINE c == Cleared  v == DhCommit(x)  z == NULL
             a1 == [c EXCEPT !.our_dh = x]
             a2 == [a1 EXCEPT !.r = x]
             a3 == [a2 EXCEPT !.encgx = x]
             a4 == [a3 EXCEPT !.lastauthmsg = v]
  <2>1. Started(x) = [a4 EXCEPT !.authstate = "AWAITING_DHKEY"]
    BY DEF Started
  <2> HIDE DEF c, v, z
  <2>2. c = Info("NONE", z, z, z, z, NoMsg)
    BY <1>3 DEF c, z
  <2>3. a1 = Info("NONE", x, z, z, z, NoMsg)
    BY <2>2 DEF Info
  <2> HIDE DEF a1
  <2>4. a2 = Info("NONE", x, x, z, z, NoMsg)
    BY <2>3 DEF Info
  <2> HIDE DEF a2
  <2>5. a3 = Info("NONE", x, x, x, z, NoMsg)
    BY <2>4 DEF Info
  <2> HIDE DEF a3
  <2>6. a4 = Info("NONE", x, x, x, z, v)
    BY <2>5 DEF Info
  <2> HIDE DEF a4
  <2>7. [a4 EXCEPT !.authstate = "AWAITING_DHKEY"] = Info("AWAITING_DHKEY", x, x, x, z, v)
    BY <2>6 DEF Info
  <2> QED  BY <2>1, <2>7 DEF v, z
<1>11. ASSUME NEW m, NEW x
       PROVE  Responding(m, x) = Info("AWAITING_REVEALSIG", x, NULL, m.from, NULL, DhKey(x))
  <2> DEFINE c == Cleared  v == DhKey(x)  z == NULL  u == m.from
             a1 == [c EXCEPT !.our_dh = x]
             a2 == [a1 EXCEPT !.encgx = u]
             a3 == [a2 EXCEPT !.lastauthmsg = v]
  <2>1. Responding(m, x) = [a3 EXCEPT !.authstate = "AWAITING_REVEALSIG"]
    BY DEF Responding
  <2> HIDE DEF c, v, z, u
  <2>2. c = Info("NONE", z, z, z, z, NoMsg)
    BY <1>3 DEF c, z
  <2>3. a1 = Info("NONE", x, z, z, z, NoMsg)
    BY <2>2 DEF Info
  <2> HIDE DEF a1
  <2>4. a2 = Info("NONE", x, z, u, z, NoMsg)
    BY <2>3 DEF Info
  <2> HIDE DEF a2
  <2>5. a3 = Info("NONE", x, z, u, z, v)
    BY <2>4 DEF Info
  <2> HIDE DEF a3
  <2>6. [a3 EXCEPT !.authstate = "AWAITING_REVEALSIG"] =
          Info("AWAITING_REVEALSIG", x, z, u, z, v)
    BY <2>5 DEF Info
  <2> QED  BY <2>1, <2>6 DEF v, z, u
<1>4. ASSUME NEW x
      PROVE  Commits(a, x) = Info(s, d, r, x, t, l)
  BY <1>2 DEF Info, Commits
<1>5. ASSUME NEW x
      PROVE  Knows(a, x) = Info(s, d, r, g, x, l)
  BY <1>2 DEF Info, Knows
<1>6. ASSUME NEW b
      PROVE  CopyOnKey(b, a) = Info("AWAITING_DHKEY", b.our_dh, b.r, b.encgx, t, l)
  <2> DEFINE u == b.our_dh  v == b.r  w == b.encgx
             a1 == [a EXCEPT !.our_dh = u]
             a2 == [a1 EXCEPT !.r = v]
             a3 == [a2 EXCEPT !.encgx = w]
  <2>1. CopyOnKey(b, a) = [a3 EXCEPT !.authstate = "AWAITING_DHKEY"]
    BY DEF CopyOnKey
  <2> HIDE DEF u, v, w
  <2>2. a1 = Info(s, u, r, g, t, l)
    BY <1>2 DEF Info
  <2> HIDE DEF a1
  <2>3. a2 = Info(s, u, v, g, t, l)
    BY <2>2 DEF Info
  <2> HIDE DEF a2
  <2>4. a3 = Info(s, u, v, w, t, l)
    BY <2>3 DEF Info
  <2> HIDE DEF a3
  <2>5. [a3 EXCEPT !.authstate = "AWAITING_DHKEY"] =
          Info("AWAITING_DHKEY", u, v, w, t, l)
    BY <2>4 DEF Info
  <2> QED  BY <2>1, <2>5 DEF u, v, w
<1>7. ASSUME NEW m
      PROVE  Revealing(a, m) = Info("AWAITING_SIG", d, r, g, m.from, RevealSig(r, d, m.from))
  <2> DEFINE u == m.from  v == RevealSig(r, d, u)
             a1 == [a EXCEPT !.their_pub = u]
             a2 == [a1 EXCEPT !.lastauthmsg = v]
  <2>1. Revealing(a, m) = [a2 EXCEPT !.authstate = "AWAITING_SIG"]
    BY DEF Revealing, r, d
  <2> HIDE DEF u, v
  <2>2. a1 = Info(s, d, r, g, u, l)
    BY <1>2 DEF Info
  <2> HIDE DEF a1
  <2>3. a2 = Info(s, d, r, g, u, v)
    BY <2>2 DEF Info
  <2> HIDE DEF a2
  <2>4. [a2 EXCEPT !.authstate = "AWAITING_SIG"] = Info("AWAITING_SIG", d, r, g, u, v)
    BY <2>3 DEF Info
  <2> QED  BY <2>1, <2>4 DEF u, v
<1>8. ASSUME NEW m
      PROVE  TakeR(a, m) = Info(s, d, m.r, g, t, l)
  <2> DEFINE u == m.r
  <2> HIDE DEF u
  <2>1. [a EXCEPT !.r = u] = Info(s, d, u, g, t, l)
    BY <1>2 DEF Info
  <2> QED  BY <2>1 DEF TakeR, u
<1>9. ASSUME NEW m
      PROVE  Finished(a, m) = Info("NONE", d, r, g, t, m)
  <2> DEFINE a1 == [a EXCEPT !.authstate = "NONE"]
  <2>1. Finished(a, m) = [a1 EXCEPT !.lastauthmsg = m]
    BY DEF Finished
  <2>2. a1 = Info("NONE", d, r, g, t, l)
    BY <1>2 DEF Info
  <2> HIDE DEF a1
  <2>3. [a1 EXCEPT !.lastauthmsg = m] = Info("NONE", d, r, g, t, m)
    BY <2>2 DEF Info
  <2> QED  BY <2>1, <2>3
<1> QED  BY <1>3, <1>4, <1>5, <1>6, <1>7, <1>8, <1>9, <1>10, <1>11 DEF s, d, r, g, t, l
-----------------------------------------------------------------------------
(* Steps that leave the outcomes alone.                                    *)

\* D-H Commits are on their way or answered only if they were before, or are new;
\* so are offers; Signature messages say the truth.
Orderly ==
  /\ \A q \in Peers : \A x \in Nat : Commit(q, x)' => Commit(q, x) \/ x > keys
  /\ \A q \in Peers : \A y \in Nat : Offers(q, y)' => Offers(q, y) \/ y > keys
  /\ \A q \in Peers : \A x \in Nat : Answers(q, x)' => Answers(q, x) \/ Commit(q, x)
  /\ \A q \in Peers : \A y \in Nat : Offers(q, y)' /\ y > keys => ~Commit(Other(q), y)'
  /\ \A q \in Peers : \A y, x \in Nat :
       Signed(q, y, x)' => Signed(q, y, x) \/ HasJoined(Other(q), y, x)
  /\ dups' = 0 => dups = 0
  /\ dups' = 0 => \A q \in Peers :
       One(net'[q], "commit") /\ \A x \in Nat : Commit(q, x)' => ~Answers(q, x)'

Keeps ==
  /\ outcomes' = outcomes
  /\ \A q \in Peers : \A a, b \in Nat : HasJoined(q, a, b) => HasJoined(q, a, b)'
  /\ Orderly

LEMMA KeysInUse ==
  ASSUME TypeInv, NEW p \in Peers, NEW k \in Nat
  PROVE  /\ Used(p, k) => k <= keys
         /\ Commit(p, k) => k <= keys /\ k > 0
         /\ Offers(p, k) => k <= keys /\ k > 0
         /\ Answers(p, k) => k <= keys /\ k > 0
         /\ \A y : Signed(p, k, y) => k <= keys /\ k > 0
<1>1. /\ keys \in Nat /\ outcomes \in Seq(Outcomes(keys)) /\ auth[p] \in Infos(keys)
      /\ net[p] \in Seq(Messages(keys))
  BY DEF TypeInv
<1>2. \A e \in DOMAIN outcomes : outcomes[e] \in Outcomes(keys)
  BY <1>1, LenProperties, ElementOfSeq
<1>3. \A i \in DOMAIN net[p] : net[p][i] \in Messages(keys)
  BY <1>1, LenProperties, ElementOfSeq
<1>4. \A i \in DOMAIN net[p] : net[p][i].from \in 1 .. keys
  BY <1>1, <1>3, MessageTypes
<1>5. Used(p, k) => k <= keys
  <2>1. \A e \in DOMAIN outcomes : outcomes[e][p] \in 0 .. keys
    BY <1>2 DEF Outcomes
  <2> QED  BY <1>1, <2>1 DEF Used
<1>6. Commit(p, k) => k <= keys /\ k > 0
  BY <1>1, <1>4 DEF Commit, In
<1>7. \A y : Signed(p, k, y) => k <= keys /\ k > 0
  BY <1>1, <1>4 DEF Signed, In
<1>8. (Offers(p, k) => k <= keys /\ k > 0) /\ (Answers(p, k) => k <= keys /\ k > 0)
  <2>1. auth[p].authstate = "AWAITING_REVEALSIG" =>
          auth[p].our_dh \in 1 .. keys /\ auth[p].encgx \in 1 .. keys
    BY <1>1, InfoTypes
  <2> QED  BY <1>1, <2>1 DEF Offers, Answers
<1> QED  BY <1>5, <1>6, <1>7, <1>8

LEMMA Kept ==
  ASSUME IInv, Keeps
  PROVE  Distinct' /\ OfferInv' /\ SignatureInv' /\ CommitInv'
<1>1. TypeInv /\ Distinct /\ OfferInv /\ SignatureInv /\ CommitInv /\ keys \in Nat
  BY DEF IInv, TypeInv
<1>2. Distinct'
  BY <1>1 DEF Distinct, Keeps
<1>3. \A q \in Peers : \A k : Used(q, k)' <=> Used(q, k)
  BY DEF Used, Keeps
<1>4. ASSUME NEW p \in Peers, NEW y \in Nat, Offers(p, y)'
      PROVE  ~Used(p, y)' /\ ~Commit(Other(p), y)' /\ ~Answers(Other(p), y)'
  <2>1. Other(p) \in Peers
    BY Ends
  <2>2. CASE Offers(p, y)
    <3>1. ~Used(p, y) /\ ~Commit(Other(p), y) /\ ~Answers(Other(p), y) /\ y <= keys
      BY <1>1, <2>2, KeysInUse DEF OfferInv
    <3>2. ~(y > keys)
      BY <1>1, <3>1
    <3> QED  BY <1>3, <2>1, <3>1, <3>2, Zenon DEF Keeps, Orderly
  <2>3. CASE y > keys
    <3>1. ~(y <= keys)
      BY <1>1, <2>3
    <3>2. ~Used(p, y) /\ ~Commit(Other(p), y) /\ ~Answers(Other(p), y)
      BY <1>1, <2>1, <3>1, KeysInUse
    <3> QED  BY <1>3, <1>4, <2>1, <2>3, <3>2, Zenon DEF Keeps, Orderly
  <2> QED  BY <1>4, <2>2, <2>3, Zenon DEF Keeps, Orderly
<1>5. OfferInv'
  BY <1>4 DEF OfferInv
<1>6. ASSUME NEW p \in Peers, NEW y \in Nat, NEW x \in Nat, Signed(p, y, x)'
      PROVE  HasJoined(Other(p), y, x)'
  <2>1. Other(p) \in Peers
    BY Ends
  <2>2. HasJoined(Other(p), y, x)
    BY <1>1, <1>6, Zenon DEF Keeps, Orderly, SignatureInv
  <2> QED  BY <2>1, <2>2, Zenon DEF Keeps, Orderly
<1>7. SignatureInv'
  BY <1>6 DEF SignatureInv
<1>8. ASSUME dups' = 0, NEW p \in Peers
      PROVE  /\ One(net[p], "commit")'
             /\ \A x \in Nat : Commit(p, x)' => ~Answers(p, x)' /\ ~Used(Other(p), x)'
             /\ \A x \in Nat : Answers(p, x)' => ~Used(Other(p), x)'
  <2>1. Other(p) \in Peers /\ dups = 0
    BY <1>8, Ends DEF Keeps, Orderly
  <2>2. One(net[p], "commit")' /\ \A x \in Nat : Commit(p, x)' => ~Answers(p, x)'
    <3>1. One(net'[p], "commit") /\ \A x \in Nat : Commit(p, x)' => ~Answers(p, x)'
      BY <1>8, Zenon DEF Keeps, Orderly
    <3> QED  BY <3>1 DEF One
  <2>3. ASSUME NEW x \in Nat
        PROVE  Commit(p, x) \/ Answers(p, x) \/ x > keys => ~Used(Other(p), x)
    <3>1. Commit(p, x) \/ Answers(p, x) => ~Used(Other(p), x)
      BY <1>1, <2>1, Zenon DEF CommitInv
    <3>2. x > keys => ~Used(Other(p), x)
      BY <1>1, <2>1, KeysInUse
    <3> QED  BY <3>1, <3>2
  <2>4. ASSUME NEW x \in Nat
        PROVE  Commit(p, x)' \/ Answers(p, x)' => ~Used(Other(p), x)'
    BY <1>3, <2>1, <2>3, Zenon DEF Keeps, Orderly
  <2> QED  BY <2>2, <2>4
<1>9. CommitInv'
  BY <1>8 DEF CommitInv
<1> QED  BY <1>2, <1>5, <1>7, <1>9
\* A step in which nobody goes encrypted: only a step that makes Repeated true
\* sends a Signature message.
Calm ==
  /\ UNCHANGED <<outcomes, joined, version>>
  /\ Orderly
  /\ ~Repeated' =>
       /\ ~Repeated
       /\ \A q \in Peers :
            /\ One(net'[q], "signature")
            /\ \A y, x \in Nat : Signed(q, y, x)' => Signed(q, y, x)
  /\ \A q \in Peers :
       \/ auth'[q].lastauthmsg = auth[q].lastauthmsg
       \/ auth'[q].lastauthmsg.type \in {"none", "key", "revealsig"}
       \/ auth'[q].lastauthmsg.type = "commit" /\ version = 2
  /\ \A q \in Peers :
       /\ current'[q] \in {current[q], Nobody}
       /\ msgstate'[q] = "ENCRYPTED" => msgstate[q] = "ENCRYPTED" /\ current'[q] = current[q]

LEMMA CalmStep ==
  ASSUME IInv, Calm, TypeInv'
  PROVE  IInv'
<1>1. \A q \in Peers : \A a, b : HasJoined(q, a, b)' <=> HasJoined(q, a, b)
  BY DEF HasJoined, Calm
<1>2. Keeps
  BY <1>1 DEF Keeps, Calm
<1>3. Distinct' /\ OfferInv' /\ SignatureInv' /\ CommitInv'
  BY <1>2, Kept
<1>4. LastInv'
  <2> SUFFICES ASSUME NEW q \in Peers
               PROVE  (/\ auth[q].lastauthmsg.type = "signature" =>
                            HasJoined(q, auth[q].lastauthmsg.from, auth[q].lastauthmsg.to)
                       /\ version = 3 => auth[q].lastauthmsg.type # "commit")'
    BY DEF LastInv
  <2> DEFINE l == auth[q].lastauthmsg  m == auth'[q].lastauthmsg
  <2>1. /\ l.type = "signature" => HasJoined(q, l.from, l.to)
        /\ version = 3 => l.type # "commit"
    BY DEF IInv, LastInv
  <2>2. \/ m = l
        \/ m.type \in {"none", "key", "revealsig"}
        \/ m.type = "commit" /\ version = 2
    BY DEF Calm
  <2>3. version' = version /\ outcomes' = outcomes /\ joined' = joined
    BY DEF Calm
  <2> HIDE DEF l, m
  <2>4. m.type = "signature" => HasJoined(q, m.from, m.to)
    <3>1. m.type = "signature" => m = l
      BY <2>2
    <3> QED  BY <2>1, <3>1
  <2>5. version = 3 => m.type # "commit"
    BY <2>1, <2>2
  <2> QED  BY <2>3, <2>4, <2>5 DEF HasJoined, m
<1>5. CurrentInv'
  <2> SUFFICES ASSUME NEW q \in Peers
               PROVE  (/\ current[q] # Nobody => HasJoined(q, current[q][1], current[q][2])
                       /\ msgstate[q] = "ENCRYPTED" => current[q] # Nobody)'
    BY DEF CurrentInv
  <2>1. /\ current[q] # Nobody => HasJoined(q, current[q][1], current[q][2])
        /\ msgstate[q] = "ENCRYPTED" => current[q] # Nobody
    BY DEF IInv, CurrentInv
  <2>2. current'[q] # Nobody => current'[q] = current[q]
    BY DEF Calm
  <2>3. msgstate'[q] = "ENCRYPTED" => msgstate[q] = "ENCRYPTED" /\ current'[q] = current[q]
    BY DEF Calm
  <2>4. outcomes' = outcomes /\ joined' = joined
    BY DEF Calm
  <2> QED  BY <2>1, <2>2, <2>3, <2>4 DEF HasJoined
<1>6. SingleInv'
  <2> SUFFICES ASSUME ~Repeated', NEW p \in Peers
               PROVE  /\ One(net'[p], "signature")
                      /\ \A y, x \in Nat : Signed(p, y, x)' => ~HasJoined(p, x, y)'
    BY DEF SingleInv, One
  <2>1. /\ ~Repeated /\ One(net'[p], "signature")
        /\ \A y, x \in Nat : Signed(p, y, x)' => Signed(p, y, x)
    BY DEF Calm
  <2>2. \A y, x \in Nat : Signed(p, y, x) => ~HasJoined(p, x, y)
    BY <2>1 DEF IInv, SingleInv
  <2> QED  BY <1>1, <2>1, <2>2
<1> QED  BY <1>3, <1>4, <1>5, <1>6 DEF IInv

\* Types after a step in which nobody goes encrypted.
LEMMA CalmTypes ==
  ASSUME TypeInv, keys' \in Nat, keys <= keys',
         UNCHANGED <<version, outcomes, joined>>, starts' \in Nat, dups' \in Nat,
         resent' \in BOOLEAN, m_auth' \in [Peers -> Infos(keys')],
         auth' \in [Peers -> Infos(keys')],
         msgstate' \in [Peers -> {"PLAINTEXT", "ENCRYPTED", "FINISHED"}],
         current' \in [Peers -> (0 .. keys) \X (0 .. keys)],
         net' \in [Peers -> Seq(Messages(keys'))]
  PROVE  TypeInv'
<1>1. keys \in Nat /\ Outcomes(keys) \subseteq Outcomes(keys')
  BY More DEF TypeInv
<1>2. outcomes' \in Seq(Outcomes(keys'))
  <2>1. outcomes \in Seq(Outcomes(keys)) /\ outcomes' = outcomes
    BY DEF TypeInv
  <2>2. Seq(Outcomes(keys)) \subseteq Seq(Outcomes(keys'))
    BY <1>1, SeqMore
  <2> QED  BY <2>1, <2>2
<1>3. joined' \in [Peers -> Seq(1 .. Len(outcomes'))]
  BY DEF TypeInv
<1>4. current' \in [Peers -> (0 .. keys') \X (0 .. keys')]
  <2>1. 0 .. keys \subseteq 0 .. keys'
    BY <1>1
  <2>2. (0 .. keys) \X (0 .. keys) \subseteq (0 .. keys') \X (0 .. keys')
    BY <2>1
  <2> QED  BY <2>2
<1> QED  BY <1>2, <1>3, <1>4 DEF TypeInv, Infos, RawInfos, Messages, Outcomes, Types

\* The same m_auth and auth, with more keys.
LEMMA SameInfos ==
  ASSUME TypeInv, NEW k \in Nat, keys <= k
  PROVE  /\ m_auth \in [Peers -> Infos(k)] /\ auth \in [Peers -> Infos(k)]
         /\ \A q \in Peers : m_auth[q] \in Infos(k) /\ auth[q] \in Infos(k)
<1>1. Infos(keys) \subseteq Infos(k)
  BY More DEF TypeInv
<1> QED  BY <1>1 DEF TypeInv

\* A message other than a D-H Commit, sent in reply to one.
LEMMA Delivered ==
  ASSUME IInv, NEW p \in Peers, NEW i \in DOMAIN net[p], NEW m, Passed(p, i, m),
         m.type # "commit"
  PROVE  /\ \A q \in Peers : \A x \in Nat : Commit(q, x)' => Commit(q, x)
         /\ dups = 0 => \A q \in Peers : One(net'[q], "commit")
         /\ m.type # "signature" =>
              /\ \A q \in Peers : \A y, x \in Nat : Signed(q, y, x)' => Signed(q, y, x)
              /\ ~Repeated => \A q \in Peers : One(net'[q], "signature")
<1>1. "commit" \in Types /\ "signature" \in Types
  BY DEF Types
<1>2. \A q \in Peers : One(net[q], "commit") => One(net'[q], "commit")
  BY <1>1 DEF Passed
<1>3. m.type # "signature" =>
        \A q \in Peers : One(net[q], "signature") => One(net'[q], "signature")
  BY <1>1 DEF Passed
<1>4. dups = 0 => \A q \in Peers : One(net[q], "commit")
  BY DEF IInv, CommitInv
<1>5. ~Repeated => \A q \in Peers : One(net[q], "signature")
  BY DEF IInv, SingleInv
<1>6. \A q \in Peers : \A x \in Nat : Commit(q, x)' => Commit(q, x)
  BY DEF Passed
<1>7. m.type # "signature" =>
        \A q \in Peers : \A y, x \in Nat : Signed(q, y, x)' => Signed(q, y, x)
  BY DEF Passed
<1> QED  BY <1>2, <1>3, <1>4, <1>5, <1>6, <1>7

-----------------------------------------------------------------------------
(* The steps of the environment and of the users.                          *)

LEMMA InitHolds == Init => IInv
<1> SUFFICES ASSUME Init
             PROVE  IInv
  OBVIOUS
<1>1. /\ keys = 0 /\ dups = 0 /\ ~resent /\ outcomes = <<>> /\ version \in {2, 3}
      /\ \A p \in Peers :
           /\ m_auth[p] = Cleared /\ auth[p] = Cleared /\ msgstate[p] = "PLAINTEXT"
           /\ current[p] = Nobody /\ net[p] = <<>> /\ joined[p] = <<>>
  BY VersionsAreSupported DEF Init
<1>2. Cleared \in Infos(0)
  <2>1. Cleared \in RawInfos(0)
    BY DEF Cleared, RawInfos, AuthStates, NULL
  <2>2. Cleared.authstate = "NONE"
    BY DEF Cleared
  <2> QED  BY <2>1, <2>2 DEF Infos, Prepared
<1>3. TypeInv
  <2>1. outcomes \in Seq(Outcomes(keys))
    BY <1>1, EmptySeq
  <2>2. net \in [Peers -> Seq(Messages(keys))]
    <3> HIDE DEF Messages
    <3> QED  BY EmptySeq DEF Init
  <2>3. joined \in [Peers -> Seq(1 .. Len(outcomes))]
    <3>1. <<>> \in Seq(1 .. Len(outcomes))
      BY EmptySeq
    <3> QED  BY <3>1 DEF Init
  <2>4. m_auth \in [Peers -> Infos(keys)] /\ auth \in [Peers -> Infos(keys)]
    BY <1>1, <1>2 DEF Init
  <2>5. current \in [Peers -> (0 .. keys) \X (0 .. keys)]
    BY DEF Init, Nobody, NULL
  <2>6. starts = 0 /\ resent = FALSE /\ msgstate = [p \in Peers |-> "PLAINTEXT"]
    BY DEF Init
  <2> QED  BY <1>1, <2>1, <2>2, <2>3, <2>4, <2>5, <2>6 DEF TypeInv
<1>4. \A p \in Peers : \A y, x : ~Signed(p, y, x) /\ ~Commit(p, y)
  BY <1>1 DEF Signed, Commit, In
<1>5. \A p \in Peers : \A type : One(net[p], type)
  BY <1>1 DEF One
<1>6. \A p \in Peers : \A k : ~Used(p, k) /\ ~Answers(p, k) /\ ~Offers(p, k)
  BY <1>1 DEF Used, Answers, Offers, Cleared
<1>7. \A p \in Peers : auth[p].lastauthmsg.type = "none"
  BY <1>1 DEF Cleared, NoMsg, Msg
<1>8. Distinct
  BY <1>1 DEF Distinct
<1>9. \A p \in Peers : \A a, b : ~HasJoined(p, a, b)
  BY <1>1 DEF HasJoined
<1>10. OfferInv /\ SignatureInv /\ CommitInv /\ SingleInv
  BY <1>4, <1>5, <1>6, <1>9 DEF OfferInv, SignatureInv, CommitInv, SingleInv
<1>11. LastInv /\ CurrentInv
  BY <1>1, <1>7 DEF LastInv, CurrentInv
<1> QED  BY <1>3, <1>8, <1>10, <1>11 DEF IInv

LEMMA StartStep ==
  ASSUME IInv, NEW p \in Peers, Start(p)
  PROVE  IInv' /\ UNCHANGED <<outcomes, joined, dups, resent>>
<1> DEFINE x == keys + 1
           m == DhCommit(x)
           b == Started(x)
           o == Other(p)
<1>1. /\ TypeInv /\ keys \in Nat /\ x \in Nat /\ keys <= x /\ x \in 1 .. x
      /\ x > keys /\ ~(x <= keys)
  BY DEF IInv, TypeInv
<1>2. /\ keys' = x /\ starts' = starts + 1
      /\ Puts(o, m)
      /\ UNCHANGED <<version, msgstate, current, dups, resent, outcomes, joined>>
      /\ \/ version = 3 /\ m_auth' = [m_auth EXCEPT ![p] = b] /\ auth' = auth
         \/ version # 3 /\ auth' = [auth EXCEPT ![p] = b] /\ m_auth' = m_auth
  BY DEF Start, Puts
<1>3. m \in Messages(x) /\ o \in Peers /\ m.type = "commit" /\ m.from = x
      /\ m.type # "signature" /\ m.to = NULL
  <2>1. m \in Messages(x)
    BY <1>1, MessageTypes
  <2> QED  BY <2>1, Ends DEF DhCommit, Msg
<1>4. b \in Infos(x) /\ b.authstate = "AWAITING_DHKEY" /\ b.lastauthmsg = m
  <2>1. b = Info("AWAITING_DHKEY", x, x, x, NULL, m)
    <3>1. Cleared = Info("NONE", NULL, NULL, NULL, NULL, NoMsg)
      BY DEF Cleared, Info
    <3>2. auth[p] \in Infos(x)
      BY <1>1, SameInfos
    <3> QED  BY <1>1, <3>2, Makes
  <2>2. Info("AWAITING_DHKEY", x, x, x, NULL, m) \in Infos(x)
    <3> HIDE DEF m
    <3>1. x \in 0 .. x /\ NULL \in 0 .. x /\ NULL \notin {x}
      BY <1>1 DEF NULL
    <3> HIDE DEF x
    <3> QED  BY <1>1, <1>3, <3>1, MakesInfo DEF AuthStates
  <2>3. b.authstate = "AWAITING_DHKEY" /\ b.lastauthmsg = m
    BY <2>1 DEF Info
  <2> QED  BY <2>1, <2>2, <2>3
<1> HIDE DEF m, b, x, o
<1>19. net' \in [Peers -> Seq(Messages(x))] /\ Came(o, m)
  BY <1>1, <1>2, <1>3, Comes
<1>5. /\ net' \in [Peers -> Seq(Messages(x))]
      /\ \A q \in Peers : \A y, z \in Nat :
           Signed(q, y, z)' => \/ Signed(q, y, z)
                               \/ q = o /\ m.type = "signature" /\ m.from = y /\ m.to = z
      /\ \A q \in Peers : \A z \in Nat :
           Commit(q, z)' => \/ Commit(q, z)
                            \/ q = o /\ m.type = "commit" /\ m.from = z
      /\ \A q \in Peers : \A type \in Types :
           /\ One(net[q], type)
           /\ q = o /\ m.type = type => ~In(net[q], type, m.from, m.to)
           => One(net'[q], type)
  BY <1>19 DEF Came
<1>6. m_auth' \in [Peers -> Infos(x)] /\ auth' \in [Peers -> Infos(x)]
  BY <1>1, <1>2, <1>4, SameInfos
<1>7. TypeInv'
  <2>1. /\ starts' \in Nat /\ dups' \in Nat /\ resent' \in BOOLEAN
        /\ msgstate' \in [Peers -> {"PLAINTEXT", "ENCRYPTED", "FINISHED"}]
        /\ current' \in [Peers -> (0 .. keys) \X (0 .. keys)]
    BY <1>1, <1>2 DEF TypeInv
  <2> QED  BY <1>1, <1>2, <1>5, <1>6, <2>1, CalmTypes
<1>8. \A q \in Peers : \/ auth'[q] = auth[q]
                       \/ version # 3 /\ auth'[q] = b
  BY <1>1, <1>2 DEF TypeInv
<1>9. \A q \in Peers : \A y : /\ Offers(q, y)' => Offers(q, y)
                              /\ Answers(q, y)' => Answers(q, y)
  BY <1>4, <1>8 DEF Offers, Answers
<1>10. \A q \in Peers : \A z \in Nat : Commit(q, z)' => Commit(q, z) \/ z > keys
  BY <1>1, <1>3, <1>5
<1>11. \A q \in Peers : \A y, z \in Nat : Signed(q, y, z)' => Signed(q, y, z)
  BY <1>3, <1>5, Zenon
<1>12. \A q \in Peers : \A z \in Nat : Offers(q, z) \/ Answers(q, z) => ~(z > keys)
  BY <1>1, KeysInUse
<1>13. \A q \in Peers : ~Commit(q, x)
  BY <1>1, KeysInUse
<1>14. dups = 0 => \A q \in Peers : One(net'[q], "commit")
  <2>1. \A q \in Peers : dups = 0 => One(net[q], "commit")
    BY DEF IInv, CommitInv
  <2>2. \A q \in Peers : ~In(net[q], "commit", m.from, m.to)
    BY <1>3, <1>13 DEF Commit
  <2>3. "commit" \in Types
    BY DEF Types
  <2> QED  BY <1>5, <2>1, <2>2, <2>3, Zenon
<1>15. dups = 0 => \A q \in Peers : \A z \in Nat : Commit(q, z)' => ~Answers(q, z)'
  <2>1. dups = 0 => \A q \in Peers : \A z \in Nat : Commit(q, z) => ~Answers(q, z)
    BY DEF IInv, CommitInv
  <2> QED  BY <1>9, <1>10, <1>12, <2>1, Zenon
<1>16. Orderly
  BY <1>2, <1>9, <1>10, <1>11, <1>12, <1>14, <1>15, Zenon DEF Orderly
<1>17. ~Repeated' => ~Repeated /\ \A q \in Peers : One(net'[q], "signature")
  <2>1. Repeated' <=> Repeated
    BY <1>2 DEF Repeated
  <2>2. ~Repeated => \A q \in Peers : One(net[q], "signature")
    BY DEF IInv, SingleInv
  <2>3. "signature" \in Types
    BY DEF Types
  <2> QED  BY <1>3, <1>5, <2>1, <2>2, <2>3, Zenon
<1>18. Calm
  <2>1. \A q \in Peers :
       \/ auth'[q].lastauthmsg = auth[q].lastauthmsg
       \/ auth'[q].lastauthmsg.type \in {"none", "key", "revealsig"}
       \/ auth'[q].lastauthmsg.type = "commit" /\ version = 2
    BY <1>1, <1>3, <1>4, <1>8 DEF TypeInv
  <2>2. UNCHANGED <<outcomes, joined, version, current, msgstate>>
    BY <1>2
  <2> QED  BY <1>11, <1>16, <1>17, <2>1, <2>2 DEF Calm
<1> QED  BY <1>2, <1>7, <1>18, CalmStep

LEMMA RepeatStep ==
  ASSUME IInv, NEW p \in Peers, Repeat(p)
  PROVE  IInv' /\ UNCHANGED <<outcomes, joined>> /\ Repeated'
<1>1. PICK i \in DOMAIN net[p] :
        Puts(p, net[p][i])
  BY DEF Repeat, Puts
<1>2. /\ TypeInv /\ keys \in Nat /\ net[p] \in Seq(Messages(keys)) /\ dups \in Nat
      /\ dups' = dups + 1
      /\ UNCHANGED <<version, m_auth, auth, msgstate, current, keys, starts, resent,
                     outcomes, joined>>
  BY DEF IInv, TypeInv, Repeat
<1> DEFINE m == net[p][i]
<1>3. m \in Messages(keys)
  <2> HIDE DEF Messages
  <2> QED  BY <1>2, LenProperties, ElementOfSeq
<1>4. m.type = "commit" => m.to = NULL
  BY <1>2, <1>3, MessageTypes
<1>5. Puts(p, m) /\ keys <= keys
  BY <1>1, <1>2
<1>6. \A type : m.type = type => In(net[p], type, m.from, m.to)
  BY DEF In
<1> HIDE DEF m
<1>16. net' \in [Peers -> Seq(Messages(keys))] /\ Came(p, m)
  BY <1>2, <1>3, <1>5, Comes
<1>7. /\ net' \in [Peers -> Seq(Messages(keys))]
      /\ \A q \in Peers : \A y, x \in Nat :
           Signed(q, y, x)' => \/ Signed(q, y, x)
                               \/ q = p /\ m.type = "signature" /\ m.from = y /\ m.to = x
      /\ \A q \in Peers : \A x \in Nat :
           Commit(q, x)' => \/ Commit(q, x)
                            \/ q = p /\ m.type = "commit" /\ m.from = x
  BY <1>16 DEF Came
<1>8. TypeInv'
  <2>1. /\ keys' \in Nat /\ keys <= keys' /\ starts' \in Nat /\ dups' \in Nat
        /\ resent' \in BOOLEAN /\ m_auth' \in [Peers -> Infos(keys')]
        /\ auth' \in [Peers -> Infos(keys')]
        /\ msgstate' \in [Peers -> {"PLAINTEXT", "ENCRYPTED", "FINISHED"}]
        /\ current' \in [Peers -> (0 .. keys) \X (0 .. keys)]
        /\ net' \in [Peers -> Seq(Messages(keys'))]
    BY <1>2, <1>7 DEF TypeInv
  <2> QED  BY <1>2, <2>1, CalmTypes
<1>9. \A q \in Peers : \A x \in Nat : Commit(q, x)' => Commit(q, x)
  BY <1>4, <1>6, <1>7 DEF Commit
<1>10. \A q \in Peers : \A y, x \in Nat : Signed(q, y, x)' => Signed(q, y, x)
  BY <1>6, <1>7 DEF Signed
<1>11. dups' # 0 /\ Repeated'
  BY <1>2 DEF Repeated
<1>12. \A q \in Peers : \A y : /\ Offers(q, y)' => Offers(q, y)
                               /\ Answers(q, y)' => Answers(q, y)
  BY <1>2 DEF Offers, Answers
<1>13. \A q \in Peers : \A z \in Nat : Offers(q, z) => ~(z > keys)
  BY <1>2, KeysInUse
<1>14. Orderly
  BY <1>9, <1>10, <1>11, <1>12, <1>13, Zenon DEF Orderly
<1>15. Calm
  BY <1>2, <1>11, <1>14 DEF Calm
<1> QED  BY <1>2, <1>8, <1>11, <1>15, CalmStep

\* Exchanges and sessions are given up.
LEMMA GivenUp ==
  ASSUME IInv,
         UNCHANGED <<version, net, keys, starts, dups, resent, outcomes, joined>>,
         m_auth' \in [Peers -> {m_auth[q] : q \in Peers} \cup {Cleared}],
         auth' \in [Peers -> Infos(keys)],
         \A q \in Peers : auth'[q] \in {auth[q], Cleared},
         msgstate' \in [Peers -> {"PLAINTEXT", "ENCRYPTED", "FINISHED"}],
         current' \in [Peers -> (0 .. keys) \X (0 .. keys)],
         \A q \in Peers :
           /\ current'[q] \in {current[q], Nobody}
           /\ msgstate'[q] = "ENCRYPTED" =>
                msgstate[q] = "ENCRYPTED" /\ current'[q] = current[q]
  PROVE  IInv'
<1>1. TypeInv /\ keys \in Nat
  BY DEF IInv, TypeInv
<1>2. Cleared \in Infos(keys) /\ Cleared.authstate = "NONE"
      /\ Cleared.lastauthmsg.type = "none"
  <2>1. Cleared = Info("NONE", NULL, NULL, NULL, NULL, NoMsg)
    BY DEF Cleared, Info
  <2>2. NULL \in 0 .. keys
    BY <1>1 DEF NULL
  <2>3. Info("NONE", NULL, NULL, NULL, NULL, NoMsg) \in Infos(keys)
    BY <1>1, <2>2, MakesInfo DEF AuthStates
  <2> QED  BY <2>1, <2>3 DEF Cleared, NoMsg, Msg
<1>3. m_auth' \in [Peers -> Infos(keys)]
  BY <1>1, <1>2, SameInfos
<1>4. TypeInv'
  <2>1. /\ keys' = keys /\ keys <= keys' /\ starts' \in Nat /\ dups' \in Nat
        /\ resent' \in BOOLEAN /\ net' \in [Peers -> Seq(Messages(keys'))]
    BY <1>1 DEF TypeInv
  <2> QED  BY <1>1, <1>3, <2>1, CalmTypes
<1>5. \A q \in Peers : \A y : /\ Offers(q, y)' => Offers(q, y)
                              /\ Answers(q, y)' => Answers(q, y)
  BY <1>2 DEF Offers, Answers
<1>6. \A q \in Peers : \A z \in Nat : Offers(q, z) => ~(z > keys)
  BY <1>1, KeysInUse
<1>7. \A q \in Peers : \A y, x : /\ Commit(q, x)' <=> Commit(q, x)
                                 /\ Signed(q, y, x)' <=> Signed(q, y, x)
  BY DEF Commit, Signed, In
<1>8. dups = 0 => \A q \in Peers :
        One(net[q], "commit") /\ \A x \in Nat : Commit(q, x) => ~Answers(q, x)
  BY DEF IInv, CommitInv
<1>9. Orderly
  BY <1>5, <1>6, <1>7, <1>8, Zenon DEF Orderly
<1>10. ~Repeated => \A q \in Peers : One(net[q], "signature")
  BY DEF IInv, SingleInv
<1>11. Repeated' <=> Repeated
  BY DEF Repeated
<1>12. \A q \in Peers :
         \/ auth'[q].lastauthmsg = auth[q].lastauthmsg
         \/ auth'[q].lastauthmsg.type \in {"none", "key", "revealsig"}
  BY <1>2
<1>13. Calm
  BY <1>7, <1>9, <1>10, <1>11, <1>12, Zenon DEF Calm
<1> QED  BY <1>4, <1>13, CalmStep

LEMMA PollStep ==
  ASSUME IInv, NEW p \in Peers, Poll(p)
  PROVE  IInv' /\ UNCHANGED <<outcomes, joined, dups, resent>>
<1>1. /\ m_auth' = [m_auth EXCEPT ![p] = Cleared]
      /\ UNCHANGED <<version, auth, msgstate, current, net, keys, starts, dups,
                     resent, outcomes, joined>>
  BY DEF Poll
<1>2. /\ m_auth \in [Peers -> Infos(keys)] /\ auth \in [Peers -> Infos(keys)]
      /\ msgstate \in [Peers -> {"PLAINTEXT", "ENCRYPTED", "FINISHED"}]
      /\ current \in [Peers -> (0 .. keys) \X (0 .. keys)]
  BY DEF IInv, TypeInv
<1>3. m_auth' \in [Peers -> {m_auth[q] : q \in Peers} \cup {Cleared}]
  BY <1>1, <1>2
<1> QED  BY <1>1, <1>2, <1>3, GivenUp

LEMMA LeaveStep ==
  ASSUME IInv, NEW p \in Peers, Leave(p)
  PROVE  IInv' /\ UNCHANGED <<outcomes, joined, dups, resent>>
<1>1. /\ UNCHANGED <<version, net, keys, starts, dups, resent, outcomes, joined>>
      /\ \/ /\ \E state \in {"PLAINTEXT", "FINISHED"} :
                 msgstate' = [msgstate EXCEPT ![p] = state]
            /\ auth' = [auth EXCEPT ![p] = Cleared]
            /\ current' = [current EXCEPT ![p] = Nobody]
            /\ m_auth' = m_auth
         \/ /\ m_auth' = [m_auth EXCEPT ![p] = Cleared]
            /\ UNCHANGED <<auth, msgstate, current>>
  BY DEF Leave
<1>2. /\ m_auth \in [Peers -> Infos(keys)] /\ auth \in [Peers -> Infos(keys)]
      /\ msgstate \in [Peers -> {"PLAINTEXT", "ENCRYPTED", "FINISHED"}]
      /\ current \in [Peers -> (0 .. keys) \X (0 .. keys)] /\ keys \in Nat
  BY DEF IInv, TypeInv
<1>3. m_auth' \in [Peers -> {m_auth[q] : q \in Peers} \cup {Cleared}]
  BY <1>1, <1>2
<1>4. Cleared \in Infos(keys)
  <2>1. Cleared = Info("NONE", NULL, NULL, NULL, NULL, NoMsg)
    BY DEF Cleared, Info
  <2>2. NULL \in 0 .. keys
    BY <1>2 DEF NULL
  <2>3. Info("NONE", NULL, NULL, NULL, NULL, NoMsg) \in Infos(keys)
    BY <1>2, <2>2, MakesInfo DEF AuthStates
  <2> QED  BY <2>1, <2>3
<1>5. auth' \in [Peers -> Infos(keys)] /\ \A q \in Peers : auth'[q] \in {auth[q], Cleared}
  BY <1>1, <1>2, <1>4, ZenonT(30)
<1>6. /\ msgstate' \in [Peers -> {"PLAINTEXT", "ENCRYPTED", "FINISHED"}]
      /\ current' \in [Peers -> (0 .. keys) \X (0 .. keys)]
  BY <1>1, <1>2 DEF Nobody, NULL
<1>7. \A q \in Peers :
        /\ current'[q] \in {current[q], Nobody}
        /\ msgstate'[q] = "ENCRYPTED" =>
             msgstate[q] = "ENCRYPTED" /\ current'[q] = current[q]
  BY <1>1, <1>2
<1> QED  BY <1>1, <1>3, <1>5, <1>6, <1>7, GivenUp

LEMMA StutterStep ==
  ASSUME IInv, UNCHANGED vars
  PROVE  IInv'
<1>1. /\ m_auth \in [Peers -> Infos(keys)] /\ auth \in [Peers -> Infos(keys)]
      /\ msgstate \in [Peers -> {"PLAINTEXT", "ENCRYPTED", "FINISHED"}]
      /\ current \in [Peers -> (0 .. keys) \X (0 .. keys)]
  BY DEF IInv, TypeInv
<1>2. m_auth' \in [Peers -> {m_auth[q] : q \in Peers} \cup {Cleared}]
  BY <1>1 DEF vars
<1> QED  BY <1>1, <1>2, GivenUp DEF vars
-----------------------------------------------------------------------------
(* The handlers, where nobody goes encrypted.                              *)

\* p handles the i-th message, and auth[p] becomes b: it has an offer that it had
\* before or that is of a new key, for a commit it has or is handling.
Handles(p, i, b) ==
  /\ auth' = [auth EXCEPT ![p] = b]
  /\ UNCHANGED <<version, m_auth, current, starts, dups, outcomes, joined>>
  /\ \/ b.lastauthmsg = auth[p].lastauthmsg
     \/ b.lastauthmsg.type \in {"none", "key", "revealsig"}
  /\ b.authstate = "AWAITING_REVEALSIG" =>
       /\ Offers(p, b.our_dh) \/ b.our_dh > keys
       /\ Answers(p, b.encgx) \/ (net[p][i].type = "commit" /\ net[p][i].from = b.encgx)

LEMMA HandledStep ==
  ASSUME IInv, NEW p \in Peers, NEW i \in DOMAIN net[p], NEW k \in Nat, keys <= k,
         keys' = k, NEW b \in Infos(k), NEW m \in Messages(k) \cup {NoMsg},
         Reply(p, i, Out(m)), Handles(p, i, b), m.type # "commit",
         m.type = "signature" => Repeated' /\ HasJoined(p, m.from, m.to),
         resent' \in BOOLEAN, resent => resent',
         msgstate' \in [Peers -> {"PLAINTEXT", "ENCRYPTED", "FINISHED"}],
         \A q \in Peers : msgstate'[q] = "ENCRYPTED" => msgstate[q] = "ENCRYPTED"
  PROVE  IInv'
<1> DEFINE c == net[p][i]
           o == Other(p)
<1>1. /\ TypeInv /\ keys \in Nat /\ net[p] \in Seq(Messages(keys)) /\ o \in Peers
      /\ Other(o) = p /\ \A q \in Peers : q = p \/ q = o
  BY Ends DEF IInv, TypeInv
<1>2. c \in Messages(keys)
  <2> HIDE DEF Messages
  <2> QED  BY <1>1, LenProperties, ElementOfSeq
<1>3. /\ net' \in [Peers -> Seq(Messages(k))]
      /\ Passed(p, i, m)
      /\ One(net[p], c.type) => ~In(net'[p], c.type, c.from, c.to)
  BY <1>1, Replies
<1>4. c.type = "commit" => c.to = NULL
  BY <1>1, <1>2, MessageTypes
<1>5. c.type = "commit" => Commit(p, c.from)
  BY <1>4 DEF Commit, In
<1>6. /\ \A q \in Peers : \A x \in Nat : Commit(q, x)' => Commit(q, x)
      /\ dups = 0 => \A q \in Peers : One(net'[q], "commit")
      /\ m.type # "signature" =>
           /\ \A q \in Peers : \A y, x \in Nat : Signed(q, y, x)' => Signed(q, y, x)
           /\ ~Repeated => \A q \in Peers : One(net'[q], "signature")
  BY <1>3, Delivered
<1>7. auth' \in [Peers -> Infos(k)] /\ auth'[p] = b
      /\ (\A q \in Peers : q # p => auth'[q] = auth[q])
      /\ auth' \in [Peers -> Infos(keys')] /\ m_auth' \in [Peers -> Infos(keys')]
  <2>1. /\ m_auth \in [Peers -> Infos(k)] /\ auth \in [Peers -> Infos(k)]
    BY <1>1, SameInfos
  <2> QED  BY <2>1 DEF Handles
<1> HIDE DEF c, o
<1>8. TypeInv'
  <2>1. /\ keys' \in Nat /\ keys <= keys' /\ starts' \in Nat /\ dups' \in Nat
        /\ current' \in [Peers -> (0 .. keys) \X (0 .. keys)]
        /\ net' \in [Peers -> Seq(Messages(keys'))]
        /\ UNCHANGED <<version, outcomes, joined>>
    BY <1>1, <1>3 DEF TypeInv, Handles
  <2> QED  BY <1>1, <1>7, <2>1, CalmTypes
<1>9. \A q \in Peers : \A y : Offers(q, y)' => Offers(q, y) \/ y > keys
  BY <1>1, <1>7 DEF Offers, Handles
<1>10. \A x : Answers(p, x)' => Answers(p, x) \/ (c.type = "commit" /\ c.from = x)
  BY <1>1, <1>7 DEF Answers, Handles, c
<1>11. \A q \in Peers : \A x : q # p /\ Answers(q, x)' => Answers(q, x)
  BY <1>7 DEF Answers
<1>12. \A q \in Peers : \A x : Answers(q, x)' => Answers(q, x) \/ Commit(q, x)
  BY <1>5, <1>10, <1>11, Zenon
<1>13. \A q \in Peers : \A y \in Nat : Offers(q, y)' /\ y > keys => ~Commit(Other(q), y)'
  <2>1. \A q \in Peers : \A y \in Nat : y > keys => ~Commit(q, y)
    BY <1>1, KeysInUse
  <2>2. \A q \in Peers : Other(q) \in Peers
    BY Ends
  <2> QED  BY <1>6, <2>1, <2>2, Zenon
<1>14. \A q \in Peers : \A y, x \in Nat :
         Signed(q, y, x)' => Signed(q, y, x) \/ HasJoined(Other(q), y, x)
  BY <1>1, <1>3, ZenonT(30) DEF Passed, o
<1>15. ASSUME dups = 0, NEW q \in Peers, NEW x \in Nat, Commit(q, x)'
       PROVE  ~Answers(q, x)'
  <2>1. Commit(q, x) /\ One(net[q], "commit")
    BY <1>6, <1>15, Zenon DEF IInv, CommitInv
  <2>2. ~Answers(q, x)
    BY <1>15, <2>1, Zenon DEF IInv, CommitInv
  <2>3. q = p => ~(c.type = "commit" /\ c.from = x)
    <3>1. Commit(p, x)' => In(net'[p], "commit", x, NULL)
      BY DEF Commit, In
    <3> QED  BY <1>3, <1>4, <1>15, <2>1, <3>1
  <2> QED  BY <1>10, <1>11, <2>2, <2>3, Zenon
<1>16. dups' = dups
  BY DEF Handles
<1>17. Orderly
  <2>1. \A q \in Peers : \A x \in Nat : Commit(q, x)' => Commit(q, x) \/ x > keys
    BY <1>6
  <2>2. dups' = 0 => \A q \in Peers :
          One(net'[q], "commit") /\ \A x \in Nat : Commit(q, x)' => ~Answers(q, x)'
    BY <1>6, <1>15, <1>16
  <2> QED  BY <1>9, <1>12, <1>13, <1>14, <1>16, <2>1, <2>2 DEF Orderly
<1>18. ~Repeated' =>
         /\ ~Repeated
         /\ \A q \in Peers :
              /\ One(net'[q], "signature")
              /\ \A y, x \in Nat : Signed(q, y, x)' => Signed(q, y, x)
  <2>1. Repeated => Repeated'
    BY <1>16 DEF Repeated
  <2> QED  BY <1>6, <2>1
<1>19. Calm
  <2>1. \A q \in Peers :
          \/ auth'[q].lastauthmsg = auth[q].lastauthmsg
          \/ auth'[q].lastauthmsg.type \in {"none", "key", "revealsig"}
    BY <1>7 DEF Handles
  <2>2. \A q \in Peers : current'[q] = current[q]
    BY DEF Handles
  <2>3. UNCHANGED <<outcomes, joined, version>>
    BY DEF Handles
  <2> QED  BY <1>17, <1>18, <2>1, <2>2, <2>3 DEF Calm
<1> QED  BY <1>8, <1>19, CalmStep

\* What every handler finds.
LEMMA Received ==
  ASSUME IInv, NEW p \in Peers, NEW i \in DOMAIN net[p]
  PROVE  /\ keys \in Nat /\ TypeInv /\ net[p] \in Seq(Messages(keys))
         /\ net[p][i] \in Messages(keys) /\ net[p][i].from \in 1 .. keys
         /\ net[p][i].to \in 0 .. keys /\ net[p][i].r \in 0 .. keys
         /\ net[p][i].type = "revealsig" => net[p][i].r \in 1 .. keys
         /\ auth[p] \in Infos(keys) /\ m_auth[p] \in Infos(keys)
         /\ auth = [auth EXCEPT ![p] = auth[p]]
         /\ msgstate \in [Peers -> {"PLAINTEXT", "ENCRYPTED", "FINISHED"}]
         /\ resent \in BOOLEAN
<1>1. /\ keys \in Nat /\ TypeInv /\ net[p] \in Seq(Messages(keys))
      /\ auth[p] \in Infos(keys) /\ m_auth[p] \in Infos(keys)
      /\ auth = [auth EXCEPT ![p] = auth[p]]
      /\ msgstate \in [Peers -> {"PLAINTEXT", "ENCRYPTED", "FINISHED"}]
      /\ resent \in BOOLEAN
  BY DEF IInv, TypeInv
<1>2. net[p][i] \in Messages(keys)
  <2> HIDE DEF Messages
  <2> QED  BY <1>1, LenProperties, ElementOfSeq
<1>3. /\ net[p][i].from \in 1 .. keys /\ net[p][i].to \in 0 .. keys
      /\ net[p][i].r \in 0 .. keys
      /\ net[p][i].type = "revealsig" => net[p][i].r \in 1 .. keys
  BY <1>1, <1>2, MessageTypes
<1> QED  BY <1>1, <1>2, <1>3

LEMMA CommitStep ==
  ASSUME IInv, NEW p \in Peers, NEW i \in DOMAIN net[p], ReceiveCommit(p, i)
  PROVE  IInv' /\ UNCHANGED <<outcomes, joined, dups>> /\ (resent => resent')
<1> DEFINE m == net[p][i]
           a == auth[p]
<1>1. /\ keys \in Nat /\ TypeInv /\ m \in Messages(keys) /\ m.from \in 1 .. keys
      /\ a \in Infos(keys) /\ auth = [auth EXCEPT ![p] = a]
      /\ msgstate \in [Peers -> {"PLAINTEXT", "ENCRYPTED", "FINISHED"}]
      /\ resent \in BOOLEAN
  BY Received
<1>2. /\ m.type = "commit"
      /\ UNCHANGED <<version, m_auth, msgstate, current, starts, dups, outcomes, joined>>
  BY DEF ReceiveCommit
<1>3. msgstate' \in [Peers -> {"PLAINTEXT", "ENCRYPTED", "FINISHED"}]
      /\ \A q \in Peers : msgstate'[q] = "ENCRYPTED" => msgstate[q] = "ENCRYPTED"
  BY <1>1, <1>2
<1>4. CASE /\ keys' = keys + 1
           /\ auth' = [auth EXCEPT ![p] = Responding(m, keys')]
           /\ Reply(p, i, <<DhKey(keys')>>)
           /\ UNCHANGED resent
  <2> DEFINE k == keys + 1
             b == Responding(m, k)
             out == DhKey(k)
  <2>1. k \in Nat /\ keys <= k /\ keys' = k /\ k > keys /\ k \in 1 .. k /\ k # NULL
        /\ m.from \in 0 .. k /\ k \in 0 .. k /\ NULL \in 0 .. k /\ m.from # NULL
    BY <1>1, <1>4 DEF NULL
  <2>2. out \in Messages(k) \cup {NoMsg} /\ out.type = "key"
        /\ Out(out) = <<out>>
    <3>1. out \in Messages(k)
      BY <2>1, MessageTypes
    <3> QED  BY <3>1 DEF Out, DhKey, NoMsg, Msg
  <2>3. b = Info("AWAITING_REVEALSIG", k, NULL, m.from, NULL, DhKey(k))
    BY <1>1, Makes
  <2>4. auth' = [auth EXCEPT ![p] = b] /\ Reply(p, i, Out(out))
    BY <1>4, <2>1, <2>2
  <2> HIDE DEF k, b
  <2>5. b \in Infos(k)
    BY <2>1, <2>2, <2>3, MakesInfo DEF AuthStates
  <2>6. b.our_dh > keys /\ b.encgx = m.from /\ b.lastauthmsg.type = "key"
    BY <2>1, <2>2, <2>3 DEF Info
  <2>7. Handles(p, i, b)
    BY <1>2, <2>4, <2>6 DEF Handles
  <2> HIDE DEF out
  <2>8. out.type # "commit" /\ out.type # "signature"
    BY <2>2
  <2>9. resent' \in BOOLEAN /\ (resent => resent')
    BY <1>1, <1>4
  <2> QED  BY <1>2, <1>3, <2>1, <2>2, <2>4, <2>5, <2>7, <2>8, <2>9, HandledStep
<1>5. CASE /\ OursWins(a, m)
           /\ Reply(p, i, IF a.lastauthmsg = NoMsg THEN <<>> ELSE <<a.lastauthmsg>>)
           /\ IF a.lastauthmsg.type = "signature" THEN resent' = TRUE
              ELSE UNCHANGED resent
           /\ UNCHANGED <<auth, keys>>
  <2> DEFINE out == a.lastauthmsg
  <2>1. out \in Messages(keys) \cup {NoMsg} /\ Reply(p, i, Out(out))
    BY <1>1, <1>5, InfoTypes DEF Out
  <2>2. version = 3 => out.type # "commit"
    BY DEF IInv, LastInv
  <2>3. out.type # "commit"
    BY <1>5, <2>2 DEF OursWins
  <2>4. out.type = "signature" => HasJoined(p, out.from, out.to)
    BY DEF IInv, LastInv
  <2>5. (resent' \in BOOLEAN /\ (resent => resent')) /\ (out.type = "signature" => Repeated')
    <3>1. IF out.type = "signature" THEN resent' = TRUE ELSE resent' = resent
      BY <1>5
    <3>2. out.type = "signature" => resent'
      BY <3>1
    <3> QED  BY <1>1, <3>1, <3>2 DEF Repeated
  <2>6. Handles(p, i, a)
    <3>1. a.authstate = "AWAITING_REVEALSIG" => Offers(p, a.our_dh) /\ Answers(p, a.encgx)
      BY DEF Offers, Answers
    <3> QED  BY <1>1, <1>2, <1>5, <3>1 DEF Handles
  <2> HIDE DEF a, out
  <2>7. keys' = keys /\ keys <= keys
    BY <1>1, <1>5
  <2> QED  BY <1>1, <1>2, <1>3, <2>1, <2>3, <2>4, <2>5, <2>6, <2>7, HandledStep
<1>6. CASE /\ a.authstate = "AWAITING_REVEALSIG"
           /\ auth' = [auth EXCEPT ![p].encgx = m.from]
           /\ Reply(p, i, <<a.lastauthmsg>>)
           /\ UNCHANGED <<keys, resent>>
  <2> DEFINE gx == m.from
             b == Commits(a, gx)
             out == a.lastauthmsg
  <2>1. /\ a.our_dh \in 1 .. keys /\ out = DhKey(a.our_dh)
        /\ a.r \in 0 .. keys /\ a.their_pub \in 0 .. keys
        /\ out \in Messages(keys) \cup {NoMsg}
    BY <1>1, <1>6, InfoTypes
  <2>2. out.type = "key" /\ Out(out) = <<out>>
    BY <2>1 DEF DhKey, Msg, NoMsg, Out
  <2>3. b = Info(a.authstate, a.our_dh, a.r, gx, a.their_pub, out)
    BY <1>1, Makes
  <2>4. auth' = [auth EXCEPT ![p] = b] /\ Reply(p, i, Out(out))
    BY <1>6, <2>2 DEF Commits
  <2>5. a.our_dh \in 0 .. keys /\ gx \in 0 .. keys /\ NULL \notin {a.our_dh, gx}
    BY <1>1, <2>1 DEF NULL
  <2>6. Info("AWAITING_REVEALSIG", a.our_dh, a.r, gx, a.their_pub, out) \in Infos(keys)
    <3> HIDE DEF a, out, gx
    <3> QED  BY <1>1, <2>1, <2>5, MakesInfo DEF AuthStates
  <2>7. b \in Infos(keys)
    BY <1>6, <2>3, <2>6
  <2>8. b.our_dh = a.our_dh /\ b.encgx = m.from /\ b.lastauthmsg = a.lastauthmsg
    BY <2>3 DEF Info
  <2>9. Offers(p, a.our_dh)
    BY <1>6 DEF Offers
  <2> HIDE DEF b
  <2>10. Handles(p, i, b)
    BY <1>2, <2>4, <2>8, <2>9 DEF Handles
  <2> HIDE DEF out
  <2>11. out.type # "commit" /\ out.type # "signature"
    BY <2>2
  <2>12. (resent' \in BOOLEAN /\ (resent => resent')) /\ keys' = keys /\ keys <= keys
    BY <1>1, <1>6
  <2> QED  BY <1>1, <1>2, <1>3, <2>1, <2>4, <2>7, <2>10, <2>11, <2>12, HandledStep
<1> QED  BY <1>4, <1>5, <1>6 DEF ReceiveCommit

LEMMA KeyStep ==
  ASSUME IInv, NEW p \in Peers, NEW i \in DOMAIN net[p], ReceiveKey(p, i)
  PROVE  IInv' /\ UNCHANGED <<outcomes, joined, dups, resent>>
<1> DEFINE m == net[p][i]
           c == auth[p]
           a == IF TakesOver(p) THEN CopyOnKey(m_auth[p], c) ELSE c
<1>1. /\ keys \in Nat /\ TypeInv /\ m \in Messages(keys) /\ m.from \in 1 .. keys
      /\ c \in Infos(keys) /\ m_auth[p] \in Infos(keys)
      /\ msgstate \in [Peers -> {"PLAINTEXT", "ENCRYPTED", "FINISHED"}]
      /\ resent \in BOOLEAN
  BY Received
<1>2. /\ UNCHANGED <<version, m_auth, current, keys, starts, dups, resent, outcomes, joined>>
      /\ msgstate' = (IF TakesOver(p) THEN [msgstate EXCEPT ![p] = "PLAINTEXT"]
                      ELSE msgstate)
      /\ \/ /\ a.authstate = "AWAITING_DHKEY"
            /\ auth' = [auth EXCEPT ![p] = Revealing(a, m)]
            /\ Reply(p, i, <<Revealing(a, m).lastauthmsg>>)
         \/ /\ a.authstate = "AWAITING_SIG"
            /\ auth' = [auth EXCEPT ![p] = a] /\ Reply(p, i, <<a.lastauthmsg>>)
         \/ auth' = [auth EXCEPT ![p] = a] /\ Reply(p, i, <<>>)
  BY DEF ReceiveKey
<1>3. msgstate' \in [Peers -> {"PLAINTEXT", "ENCRYPTED", "FINISHED"}]
      /\ \A q \in Peers : msgstate'[q] = "ENCRYPTED" => msgstate[q] = "ENCRYPTED"
  BY <1>1, <1>2
<1>4. /\ a \in Infos(keys) /\ a.lastauthmsg = c.lastauthmsg
      /\ a.authstate = "AWAITING_REVEALSIG" => a = c
  <2>1. CASE TakesOver(p)
    <3> DEFINE b == m_auth[p]
               l == c.lastauthmsg
               t == c.their_pub
               d == b.our_dh
               r == b.r
               g == b.encgx
    <3>1. a = CopyOnKey(b, c) /\ b.authstate = "AWAITING_DHKEY"
      BY <2>1 DEF TakesOver
    <3>2. CopyOnKey(b, c) = Info("AWAITING_DHKEY", d, r, g, t, l)
      BY <1>1, Makes
    <3>3. /\ d \in 0 .. keys /\ r \in 0 .. keys /\ g \in 0 .. keys
          /\ b.authstate = "AWAITING_DHKEY" => d \in 1 .. keys /\ r \in 1 .. keys
      BY <1>1, InfoTypes
    <3>4. t \in 0 .. keys /\ l \in Messages(keys) \cup {NoMsg}
      BY <1>1, InfoTypes
    <3>5. NULL \notin {d, r}
      BY <3>1, <3>3 DEF NULL
    <3> HIDE DEF a, b, l, t, d, r, g
    <3>6. Info("AWAITING_DHKEY", d, r, g, t, l) \in Infos(keys)
      BY <1>1, <3>3, <3>4, <3>5, MakesInfo DEF AuthStates
    <3>7. a = Info("AWAITING_DHKEY", d, r, g, t, l)
      BY <3>1, <3>2
    <3> QED  BY <3>6, <3>7 DEF Info, l
  <2>2. CASE ~TakesOver(p)
    BY <1>1, <2>2
  <2> QED  BY <2>1, <2>2
<1>5. c.authstate = "AWAITING_REVEALSIG" => Offers(p, c.our_dh) /\ Answers(p, c.encgx)
  BY DEF Offers, Answers
<1> HIDE DEF a
<1>6. auth' = [auth EXCEPT ![p] = a] => Handles(p, i, a)
  BY <1>2, <1>4, <1>5 DEF Handles
<1>7. keys' = keys /\ keys <= keys /\ resent' \in BOOLEAN /\ (resent => resent')
  BY <1>1, <1>2
<1>8. CASE /\ a.authstate = "AWAITING_DHKEY"
           /\ auth' = [auth EXCEPT ![p] = Revealing(a, m)]
           /\ Reply(p, i, <<Revealing(a, m).lastauthmsg>>)
  <2> DEFINE b == Revealing(a, m)
             r == a.r  d == a.our_dh  u == m.from
             out == RevealSig(r, d, u)
             g == a.encgx
  <2>1. b = Info("AWAITING_SIG", d, r, g, u, out)
    BY <1>1, <1>4, Makes
  <2>2. /\ d \in 1 .. keys /\ r \in 1 .. keys /\ g \in 0 .. keys /\ u \in 1 .. keys
    BY <1>1, <1>4, <1>8, InfoTypes
  <2>3. out.type = "revealsig"
    BY DEF RevealSig, Msg
  <2> HIDE DEF r, d, u, g
  <2>4. out \in Messages(keys)
    BY <1>1, <2>2, MessageTypes
  <2>5. d \in 0 .. keys /\ r \in 0 .. keys /\ u \in 0 .. keys /\ NULL \notin {d, u} /\ r \in Nat
    BY <1>1, <2>2 DEF NULL
  <2>6. \E z \in Nat : out = RevealSig(z, d, u)
    BY <2>5
  <2>7. Out(out) = <<out>>
    BY <2>3 DEF Out, NoMsg, Msg
  <2> HIDE DEF b, out
  <2>8. Info("AWAITING_SIG", d, r, g, u, out) \in Infos(keys)
    BY <1>1, <2>2, <2>4, <2>5, <2>6, MakesInfo DEF AuthStates
  <2>9. b \in Infos(keys) /\ b.authstate = "AWAITING_SIG" /\ b.lastauthmsg = out
    BY <2>1, <2>8 DEF Info
  <2>10. Handles(p, i, b)
    BY <1>2, <1>8, <2>3, <2>9 DEF Handles, b
  <2>11. Reply(p, i, Out(out))
    BY <1>8, <2>7, <2>9 DEF b
  <2>12. out \in Messages(keys) \cup {NoMsg} /\ out.type # "commit" /\ out.type # "signature"
    BY <2>3, <2>4
  <2> QED  BY <1>1, <1>2, <1>3, <1>7, <2>9, <2>10, <2>11, <2>12, HandledStep
<1>9. CASE /\ a.authstate = "AWAITING_SIG"
           /\ auth' = [auth EXCEPT ![p] = a] /\ Reply(p, i, <<a.lastauthmsg>>)
  <2> DEFINE out == a.lastauthmsg
  <2>1. PICK z \in Nat : out = RevealSig(z, a.our_dh, a.their_pub)
    BY <1>1, <1>4, <1>9, InfoTypes
  <2>2. out.type = "revealsig" /\ Out(out) = <<out>>
    BY <2>1 DEF RevealSig, Msg, Out, NoMsg
  <2>3. out \in Messages(keys) \cup {NoMsg}
    BY <1>1, <1>4, InfoTypes
  <2>4. Reply(p, i, Out(out)) /\ out.type # "commit" /\ out.type # "signature"
    BY <1>9, <2>2
  <2> HIDE DEF out
  <2> QED  BY <1>1, <1>2, <1>3, <1>4, <1>6, <1>7, <1>9, <2>3, <2>4, HandledStep
<1>10. CASE auth' = [auth EXCEPT ![p] = a] /\ Reply(p, i, <<>>)
  <2> DEFINE out == NoMsg
  <2>1. out \in Messages(keys) \cup {NoMsg} /\ Reply(p, i, Out(out))
        /\ out.type # "commit" /\ out.type # "signature"
    BY <1>10 DEF Out, NoMsg, Msg
  <2> HIDE DEF out
  <2> QED  BY <1>1, <1>2, <1>3, <1>4, <1>6, <1>7, <1>10, <2>1, HandledStep
<1> QED  BY <1>2, <1>8, <1>9, <1>10
-----------------------------------------------------------------------------
(* Going encrypted.                                                        *)

\* p is the first to finish an exchange: a new outcome.
Meets(p, our, their) ==
  /\ outcomes' = Append(outcomes, Pair(p, our, their))
  /\ joined' = [joined EXCEPT ![p] = Append(joined[p], Len(outcomes) + 1)]
  /\ msgstate' = [msgstate EXCEPT ![p] = "ENCRYPTED"]
  /\ current' = [current EXCEPT ![p] = <<our, their>>]

\* p finishes the e-th exchange.
Joins(p, our, their, e) ==
  /\ e \in DOMAIN outcomes /\ outcomes[e] = Pair(p, our, their)
  /\ outcomes' = outcomes
  /\ joined' = [joined EXCEPT ![p] = Append(joined[p], e)]
  /\ msgstate' = [msgstate EXCEPT ![p] = "ENCRYPTED"]
  /\ current' = [current EXCEPT ![p] = <<our, their>>]

LEMMA JoinCases ==
  ASSUME IInv, NEW p \in Peers, NEW our \in Nat \ {NULL}, NEW their \in Nat,
         Join(p, our, their)
  PROVE  \/ UNCHANGED <<msgstate, current, outcomes, joined>> /\ HasJoined(p, our, their)
         \/ \E e : Joins(p, our, their, e)
         \/ /\ Meets(p, our, their)
            /\ \A e \in DOMAIN outcomes : outcomes[e] # Pair(p, our, their)
<1> DEFINE w == Pair(p, our, their)
           known == {e \in DOMAIN outcomes : outcomes[e] = w}
<1>1. IF msgstate[p] = "ENCRYPTED" /\ current[p] = <<our, their>>
      THEN UNCHANGED <<msgstate, current, outcomes, joined>>
      ELSE /\ msgstate' = [msgstate EXCEPT ![p] = "ENCRYPTED"]
           /\ current' = [current EXCEPT ![p] = <<our, their>>]
           /\ outcomes' = IF known = {} THEN Append(outcomes, w) ELSE outcomes
           /\ joined' = [joined EXCEPT ![p] =
                Append(joined[p], IF known = {} THEN Len(outcomes) + 1
                                  ELSE CHOOSE e \in known : TRUE)]
  BY DEF Join, Pair
<1>2. CASE msgstate[p] = "ENCRYPTED" /\ current[p] = <<our, their>>
  <2>1. current[p] # Nobody /\ current[p][1] = our /\ current[p][2] = their
    BY <1>2 DEF Nobody, NULL
  <2>2. HasJoined(p, our, their)
    BY <2>1 DEF IInv, CurrentInv
  <2> QED  BY <1>1, <1>2, <2>2
<1>3. CASE ~(msgstate[p] = "ENCRYPTED" /\ current[p] = <<our, their>>) /\ known = {}
  BY <1>1, <1>3 DEF Meets
<1>4. CASE ~(msgstate[p] = "ENCRYPTED" /\ current[p] = <<our, their>>) /\ known # {}
  <2> DEFINE e == CHOOSE f \in known : TRUE
  <2>1. e \in known
    BY <1>4
  <2>2. joined' = [joined EXCEPT ![p] = Append(joined[p], e)] /\ outcomes' = outcomes
    BY <1>1, <1>4
  <2> HIDE DEF e
  <2>3. e \in DOMAIN outcomes /\ outcomes[e] = w
    BY <2>1
  <2>4. Joins(p, our, their, e)
    BY <1>1, <1>4, <2>2, <2>3 DEF Joins
  <2> QED  BY <2>4
<1> QED  BY <1>2, <1>3, <1>4

\* The effect of Meets.
LEMMA MeetsEffect ==
  ASSUME IInv, NEW p \in Peers, NEW our \in 1 .. keys, NEW their \in 1 .. keys,
         Meets(p, our, their),
         \A e \in DOMAIN outcomes : outcomes[e] # Pair(p, our, their)
  PROVE  /\ outcomes' \in Seq(Outcomes(keys)) /\ Len(outcomes') = Len(outcomes) + 1
         /\ joined' \in [Peers -> Seq(1 .. Len(outcomes'))]
         /\ outcomes'[Len(outcomes) + 1] = Pair(p, our, their)
         /\ Distinct'
         /\ \A q \in Peers : \A k : Used(q, k)' => Used(q, k) \/ k = Pair(p, our, their)[q]
         /\ \A q \in Peers : \A a, b : HasJoined(q, a, b) => HasJoined(q, a, b)'
         /\ HasJoined(p, our, their)'
         /\ \A q \in Peers : \A a, b : HasJoined(q, a, b)' =>
              HasJoined(q, a, b) \/ (q = p /\ Pair(q, a, b) = Pair(p, our, their))
<1> DEFINE w == Pair(p, our, their)
           n == Len(outcomes)
           O == Outcomes(keys)
<1>1. /\ keys \in Nat /\ outcomes \in Seq(O) /\ joined \in [Peers -> Seq(1 .. n)]
      /\ Distinct
  BY DEF IInv, TypeInv
<1>2. w \in O
  <2>1. our \in 0 .. keys /\ their \in 0 .. keys
    BY <1>1
  <2> QED  BY <2>1, Pairs
<1>3. n \in Nat /\ DOMAIN outcomes = 1 .. n
  BY <1>1, LenProperties
<1>4. outcomes' = Append(outcomes, w) /\ joined' = [joined EXCEPT ![p] = Append(joined[p], n + 1)]
      /\ \A e \in DOMAIN outcomes : outcomes[e] # w
  BY DEF Meets
<1> HIDE DEF w, O
<1>5. /\ outcomes' \in Seq(O) /\ Len(outcomes') = n + 1 /\ outcomes'[n + 1] = w
      /\ \A e \in 1 .. n : outcomes'[e] = outcomes[e]
  BY <1>1, <1>2, <1>4, AppendProperties
<1> HIDE DEF n
<1>6. DOMAIN outcomes' = 1 .. n + 1
  <2>1. DOMAIN outcomes' = 1 .. Len(outcomes')
    BY <1>5, LenProperties
  <2> QED  BY <1>5, <2>1
<1>7. \A e \in DOMAIN outcomes' : e = n + 1 \/ (e \in 1 .. n /\ e # n + 1)
  BY <1>3, <1>6
<1>8. Distinct'
  <2> SUFFICES ASSUME NEW e \in DOMAIN outcomes', NEW f \in DOMAIN outcomes',
                      outcomes'[e] = outcomes'[f]
               PROVE  e = f
    BY DEF Distinct
  <2>1. CASE e \in 1 .. n /\ f \in 1 .. n
    BY <1>1, <1>3, <1>5, <2>1 DEF Distinct
  <2>2. CASE e = n + 1 /\ f \in 1 .. n
    BY <1>3, <1>4, <1>5, <2>2
  <2>3. CASE f = n + 1 /\ e \in 1 .. n
    BY <1>3, <1>4, <1>5, <2>3
  <2> QED  BY <1>7, <2>1, <2>2, <2>3
<1>9. ASSUME NEW q \in Peers, NEW k, Used(q, k)'
      PROVE  Used(q, k) \/ k = w[q]
  <2>1. PICK e \in DOMAIN outcomes' : outcomes'[e][q] = k
    BY <1>9 DEF Used
  <2> QED  BY <1>3, <1>5, <1>7, <2>1 DEF Used
<1>10. /\ Append(joined[p], n + 1) \in Seq(1 .. n + 1)
       /\ Len(Append(joined[p], n + 1)) = Len(joined[p]) + 1
       /\ Append(joined[p], n + 1)[Len(joined[p]) + 1] = n + 1
       /\ \A j \in 1 .. Len(joined[p]) : Append(joined[p], n + 1)[j] = joined[p][j]
  <2>1. 1 .. n \subseteq 1 .. n + 1 /\ n + 1 \in 1 .. n + 1
    BY <1>3
  <2>2. joined[p] \in Seq(1 .. n + 1)
    BY <1>1, <2>1, SeqMore, ZenonT(30)
  <2> QED  BY <2>1, <2>2, AppendProperties
<1>11. joined' \in [Peers -> Seq(1 .. n + 1)]
  <2>1. 1 .. n \subseteq 1 .. n + 1
    BY <1>3
  <2>2. Seq(1 .. n) \subseteq Seq(1 .. n + 1)
    BY <2>1, SeqMore
  <2>3. \A q \in Peers : joined[q] \in Seq(1 .. n + 1)
    BY <1>1, <2>2
  <2> QED  BY <1>1, <1>4, <1>10, <2>3
<1>12. /\ joined'[p] = Append(joined[p], n + 1)
       /\ \A q \in Peers : q # p => joined'[q] = joined[q]
  BY <1>1, <1>4
<1>13. \A q \in Peers : /\ Len(joined[q]) \in Nat /\ DOMAIN joined[q] = 1 .. Len(joined[q])
                        /\ \A j \in DOMAIN joined[q] : joined[q][j] \in 1 .. n
  BY <1>1, LenProperties, ElementOfSeq
<1>14. DOMAIN joined'[p] = 1 .. Len(joined[p]) + 1
  <2>1. DOMAIN Append(joined[p], n + 1) = 1 .. Len(Append(joined[p], n + 1))
    BY <1>10, LenProperties
  <2> QED  BY <1>10, <1>12, <2>1
<1>15. ASSUME NEW q \in Peers, NEW a, NEW b, HasJoined(q, a, b)
       PROVE  HasJoined(q, a, b)'
  <2>1. PICK j \in DOMAIN joined[q] : outcomes[joined[q][j]] = Pair(q, a, b)
    BY <1>15 DEF HasJoined
  <2>2. joined[q][j] \in 1 .. n /\ outcomes'[joined[q][j]] = Pair(q, a, b)
    BY <1>5, <1>13, <2>1
  <2>3. j \in DOMAIN joined'[q] /\ joined'[q][j] = joined[q][j]
    <3>1. CASE q # p
      BY <1>12, <2>1, <3>1
    <3>2. CASE q = p
      <4>1. Len(joined[p]) \in Nat /\ j \in 1 .. Len(joined[p])
        BY <1>13, <2>1, <3>2
      <4>2. j \in 1 .. Len(joined[p]) + 1
        BY <4>1
      <4> QED  BY <1>10, <1>12, <1>14, <3>2, <4>1, <4>2
    <3> QED  BY <3>1, <3>2
  <2>4. \E z \in DOMAIN joined'[q] : outcomes'[joined'[q][z]] = Pair(q, a, b)
    BY <2>2, <2>3
  <2> QED  BY <2>4 DEF HasJoined, Pair
<1>16. HasJoined(p, our, their)'
  <2> DEFINE z == Len(joined[p]) + 1
  <2>1. z \in DOMAIN joined'[p] /\ joined'[p][z] = n + 1
    BY <1>10, <1>12, <1>13, <1>14
  <2>2. outcomes'[joined'[p][z]] = Pair(p, our, their)
    BY <1>5, <2>1 DEF w
  <2> HIDE DEF z
  <2> QED  BY <2>1, <2>2 DEF HasJoined, Pair
<1>17. ASSUME NEW q \in Peers, NEW a, NEW b, HasJoined(q, a, b)'
       PROVE  HasJoined(q, a, b) \/ (q = p /\ Pair(q, a, b) = w)
  <2>1. PICK j \in DOMAIN joined'[q] : outcomes'[joined'[q][j]] = Pair(q, a, b)
    BY <1>17 DEF HasJoined, Pair
  <2>2. CASE j \in DOMAIN joined[q]
    <3>1. joined'[q][j] = joined[q][j] /\ joined[q][j] \in 1 .. n
      BY <1>10, <1>12, <1>13, <2>2
    <3>2. outcomes[joined[q][j]] = Pair(q, a, b)
      BY <1>5, <2>1, <3>1
    <3> QED  BY <2>2, <3>2 DEF HasJoined
  <2>3. CASE j \notin DOMAIN joined[q]
    <3>1. q = p
      BY <1>12, <2>3
    <3>2. j = Len(joined[p]) + 1
      BY <1>13, <1>14, <2>1, <2>3, <3>1
    <3>3. outcomes'[joined'[q][j]] = w
      BY <1>5, <1>10, <1>12, <3>1, <3>2
    <3> QED  BY <2>1, <3>1, <3>3
  <2> QED  BY <2>2, <2>3
<1> QED  BY <1>5, <1>8, <1>9, <1>11, <1>15, <1>16, <1>17 DEF w, n, O

\* The effect of Joins.
LEMMA JoinsEffect ==
  ASSUME IInv, NEW p \in Peers, NEW our, NEW their, NEW e, Joins(p, our, their, e)
  PROVE  /\ joined' \in [Peers -> Seq(1 .. Len(outcomes'))]
         /\ \A q \in Peers : \A a, b : HasJoined(q, a, b) => HasJoined(q, a, b)'
         /\ HasJoined(p, our, their)'
         /\ \A q \in Peers : \A a, b : HasJoined(q, a, b)' =>
              HasJoined(q, a, b) \/ (q = p /\ Pair(q, a, b) = Pair(p, our, their))
<1> DEFINE w == Pair(p, our, their)
           N == 1 .. Len(outcomes)
<1>1. /\ outcomes \in Seq(Outcomes(keys)) /\ joined \in [Peers -> Seq(N)]
  BY DEF IInv, TypeInv
<1>2. e \in N /\ outcomes[e] = w /\ outcomes' = outcomes
      /\ joined' = [joined EXCEPT ![p] = Append(joined[p], e)]
  BY <1>1, LenProperties DEF Joins
<1> HIDE DEF w, N
<1>3. /\ Append(joined[p], e) \in Seq(N)
      /\ Len(Append(joined[p], e)) = Len(joined[p]) + 1
      /\ Append(joined[p], e)[Len(joined[p]) + 1] = e
      /\ \A j \in 1 .. Len(joined[p]) : Append(joined[p], e)[j] = joined[p][j]
  BY <1>1, <1>2, AppendProperties
<1>4. joined' \in [Peers -> Seq(N)]
  BY <1>1, <1>2, <1>3
<1>5. /\ joined'[p] = Append(joined[p], e)
      /\ \A q \in Peers : q # p => joined'[q] = joined[q]
  BY <1>1, <1>2
<1>6. \A q \in Peers : Len(joined[q]) \in Nat /\ DOMAIN joined[q] = 1 .. Len(joined[q])
  BY <1>1, LenProperties
<1>7. DOMAIN joined'[p] = 1 .. Len(joined[p]) + 1
  <2>1. DOMAIN Append(joined[p], e) = 1 .. Len(Append(joined[p], e))
    BY <1>3, LenProperties
  <2> QED  BY <1>3, <1>5, <2>1
<1>8. ASSUME NEW q \in Peers, NEW j \in DOMAIN joined[q]
      PROVE  j \in DOMAIN joined'[q] /\ joined'[q][j] = joined[q][j]
  <2>1. CASE q # p
    BY <1>5, <2>1
  <2>2. CASE q = p
    <3>1. Len(joined[p]) \in Nat /\ j \in 1 .. Len(joined[p])
      BY <1>6, <2>2
    <3>2. j \in 1 .. Len(joined[p]) + 1
      BY <3>1
    <3> QED  BY <1>3, <1>5, <1>7, <2>2, <3>1, <3>2
  <2> QED  BY <2>1, <2>2
<1>9. ASSUME NEW q \in Peers, NEW a, NEW b, HasJoined(q, a, b)
      PROVE  HasJoined(q, a, b)'
  <2>1. PICK j \in DOMAIN joined[q] : outcomes[joined[q][j]] = Pair(q, a, b)
    BY <1>9 DEF HasJoined
  <2>2. j \in DOMAIN joined'[q] /\ outcomes'[joined'[q][j]] = Pair(q, a, b)
    BY <1>2, <1>8, <2>1
  <2> QED  BY <2>2 DEF HasJoined, Pair
<1>10. HasJoined(p, our, their)'
  <2> DEFINE z == Len(joined[p]) + 1
  <2>1. z \in DOMAIN joined'[p] /\ joined'[p][z] = e
    BY <1>3, <1>5, <1>6, <1>7
  <2>2. outcomes'[joined'[p][z]] = Pair(p, our, their)
    BY <1>2, <2>1 DEF w
  <2> HIDE DEF z
  <2> QED  BY <2>1, <2>2 DEF HasJoined, Pair
<1>11. ASSUME NEW q \in Peers, NEW a, NEW b, HasJoined(q, a, b)'
       PROVE  HasJoined(q, a, b) \/ (q = p /\ Pair(q, a, b) = w)
  <2>1. PICK j \in DOMAIN joined'[q] : outcomes'[joined'[q][j]] = Pair(q, a, b)
    BY <1>11 DEF HasJoined, Pair
  <2>2. CASE j \in DOMAIN joined[q]
    <3>1. outcomes[joined[q][j]] = Pair(q, a, b)
      BY <1>2, <1>8, <2>1, <2>2
    <3> QED  BY <2>2, <3>1 DEF HasJoined
  <2>3. CASE j \notin DOMAIN joined[q]
    <3>1. q = p
      BY <1>5, <2>1, <2>3
    <3>2. j = Len(joined[p]) + 1
      BY <1>6, <1>7, <2>1, <2>3, <3>1
    <3>3. outcomes'[joined'[q][j]] = w
      BY <1>2, <1>3, <1>5, <3>1, <3>2
    <3> QED  BY <2>1, <3>1, <3>3
  <2> QED  BY <2>2, <2>3
<1> QED  BY <1>2, <1>4, <1>9, <1>10, <1>11 DEF w, N

\* What a Reveal Signature message makes of auth[p]: it has the key r, and whom it
\* waited for if r matches.
LEMMA Reads ==
  ASSUME NEW k \in Nat, NEW a \in Infos(k), NEW m \in Messages(k), m.type = "revealsig"
  PROVE  /\ TakeR(a, m) \in Infos(k)
         /\ TakeR(a, m).authstate = a.authstate /\ TakeR(a, m).our_dh = a.our_dh
         /\ TakeR(a, m).encgx = a.encgx /\ TakeR(a, m).lastauthmsg = a.lastauthmsg
         /\ a.authstate = "AWAITING_REVEALSIG" =>
              /\ Knows(TakeR(a, m), a.encgx) \in Infos(k)
              /\ Knows(TakeR(a, m), a.encgx).authstate = a.authstate
              /\ Knows(TakeR(a, m), a.encgx).our_dh = a.our_dh
              /\ Knows(TakeR(a, m), a.encgx).encgx = a.encgx
              /\ Knows(TakeR(a, m), a.encgx).their_pub = a.encgx
              /\ Knows(TakeR(a, m), a.encgx).lastauthmsg = a.lastauthmsg
<1> DEFINE s == a.authstate  d == a.our_dh  g == a.encgx  t == a.their_pub
           l == a.lastauthmsg  r == m.r
<1>1. /\ s \in AuthStates /\ d \in 0 .. k /\ g \in 0 .. k
      /\ t \in 0 .. k /\ l \in Messages(k) \cup {NoMsg}
      /\ s = "AWAITING_DHKEY" => d \in 1 .. k /\ a.r \in 1 .. k
      /\ s = "AWAITING_REVEALSIG" => d \in 1 .. k /\ g \in 1 .. k /\ l = DhKey(d)
      /\ s = "AWAITING_SIG" =>
           /\ d \in 1 .. k /\ t \in 1 .. k
           /\ \E z \in Nat : l = RevealSig(z, d, t)
  BY InfoTypes
<1>2. r \in 1 .. k
  BY MessageTypes
<1>3. TakeR(a, m) = Info(s, d, r, g, t, l)
  BY Makes
<1> HIDE DEF s, d, g, t, l, r
<1>4. Info(s, d, r, g, t, l) \in Infos(k)
  <2>1. r \in 0 .. k /\ r # NULL
    BY <1>2 DEF NULL
  <2>2. /\ s = "AWAITING_DHKEY" => NULL \notin {d, r}
        /\ s = "AWAITING_REVEALSIG" => NULL \notin {d, g} /\ l = DhKey(d)
        /\ s = "AWAITING_SIG" => NULL \notin {d, t} /\ \E z \in Nat : l = RevealSig(z, d, t)
    BY <1>1, <1>2 DEF NULL
  <2> QED  BY <1>1, <2>1, <2>2, MakesInfo
<1>5. ASSUME s = "AWAITING_REVEALSIG"
      PROVE  /\ Knows(TakeR(a, m), g) = Info(s, d, r, g, g, l)
             /\ Info(s, d, r, g, g, l) \in Infos(k)
  <2>1. Knows(TakeR(a, m), g) = Info(s, d, r, g, g, l)
    BY <1>3 DEF Knows, Info
  <2>2. r \in 0 .. k /\ NULL \notin {d, g} /\ l = DhKey(d)
    BY <1>1, <1>2, <1>5 DEF NULL
  <2>3. Info(s, d, r, g, g, l) \in Infos(k)
    BY <1>1, <1>5, <2>2, MakesInfo
  <2> QED  BY <2>1, <2>3
<1> QED  BY <1>3, <1>4, <1>5 DEF Info, s, d, g, t, l, r
\* Nobody is forgotten.
Grows == \A q \in Peers : \A a, b : HasJoined(q, a, b) => HasJoined(q, a, b)'

LEMMA EncryptedBooks ==
  ASSUME IInv, Grows, NEW p \in Peers, NEW our \in Nat \ {NULL}, NEW their \in Nat,
         HasJoined(p, our, their)', version' = version,
         \A q \in Peers : q # p =>
           auth'[q] = auth[q] /\ current'[q] = current[q] /\ msgstate'[q] = msgstate[q],
         current'[p] = <<our, their>>,
         auth'[p].lastauthmsg \in {Signature(our, their), NoMsg}
  PROVE  LastInv' /\ CurrentInv'
<1>1. LastInv'
  <2> SUFFICES ASSUME NEW q \in Peers
               PROVE  (/\ auth[q].lastauthmsg.type = "signature" =>
                            HasJoined(q, auth[q].lastauthmsg.from, auth[q].lastauthmsg.to)
                       /\ version = 3 => auth[q].lastauthmsg.type # "commit")'
    BY DEF LastInv
  <2>1. CASE q = p
    <3>1. CASE auth'[q].lastauthmsg = Signature(our, their)
      <4>1. /\ auth'[q].lastauthmsg.type = "signature"
            /\ auth'[q].lastauthmsg.from = our /\ auth'[q].lastauthmsg.to = their
        BY <3>1 DEF Signature, Msg
      <4> QED  BY <2>1, <4>1 DEF HasJoined, Pair
    <3>2. CASE auth'[q].lastauthmsg = NoMsg
      BY <3>2 DEF NoMsg, Msg
    <3> QED  BY <2>1, <3>1, <3>2
  <2>2. CASE q # p
    <3>1. PICK l : l = auth[q].lastauthmsg
      OBVIOUS
    <3>2. auth'[q].lastauthmsg = l /\ version' = version
      BY <2>2, <3>1
    <3>3. /\ l.type = "signature" => HasJoined(q, l.from, l.to)
          /\ version = 3 => l.type # "commit"
      BY <3>1 DEF IInv, LastInv
    <3>4. l.type = "signature" => HasJoined(q, l.from, l.to)'
      BY <3>3 DEF Grows
    <3> QED  BY <3>2, <3>3, <3>4 DEF HasJoined, Pair
  <2> QED  BY <2>1, <2>2
<1>2. CurrentInv'
  <2> SUFFICES ASSUME NEW q \in Peers
               PROVE  (/\ current[q] # Nobody => HasJoined(q, current[q][1], current[q][2])
                       /\ msgstate[q] = "ENCRYPTED" => current[q] # Nobody)'
    BY DEF CurrentInv
  <2>1. CASE q = p
    <3>1. current'[q][1] = our /\ current'[q][2] = their
      BY <2>1
    <3>2. current'[q] # Nobody
      BY <3>1 DEF Nobody
    <3> QED  BY <2>1, <3>1, <3>2 DEF HasJoined, Pair
  <2>2. CASE q # p
    <3>1. PICK c, d : c = current[q][1] /\ d = current[q][2]
      OBVIOUS
    <3>2. current'[q] = current[q] /\ msgstate'[q] = msgstate[q]
      BY <2>2
    <3>3. /\ current[q] # Nobody => HasJoined(q, c, d)
          /\ msgstate[q] = "ENCRYPTED" => current[q] # Nobody
      BY <3>1 DEF IInv, CurrentInv
    <3>4. current[q] # Nobody => HasJoined(q, c, d)'
      BY <3>3 DEF Grows
    <3> QED  BY <3>1, <3>2, <3>3, <3>4 DEF HasJoined, Pair, Nobody
  <2> QED  BY <2>1, <2>2
<1> QED  BY <1>1, <1>2

\* What is the case when a Reveal Signature message is accepted: p goes encrypted, and
\* answers with a Signature message.
Accepts(p, i, our, their, b) ==
  /\ auth[p].authstate = "AWAITING_REVEALSIG"
  /\ auth[p].our_dh = our /\ auth[p].encgx = their
  /\ Join(p, our, their)
  /\ auth' = [auth EXCEPT ![p] = b]
  /\ b.authstate = "NONE" /\ b.lastauthmsg = Signature(our, their)
  /\ Reply(p, i, <<Signature(our, their)>>)
  /\ UNCHANGED <<version, m_auth, keys, starts, dups, resent>>

\* p is the first to finish the exchange; its key is new, and so is the other's key
\* unless a message was repeated.
First(p) ==
  \E our, their \in Nat :
    /\ Meets(p, our, their) /\ auth[p].authstate = "AWAITING_REVEALSIG"
    /\ ~Used(p, our)
    /\ dups = 0 => ~Used(Other(p), their)

LEMMA AcceptStep ==
  ASSUME IInv, NEW p \in Peers, NEW i \in DOMAIN net[p],
         NEW our \in 1 .. keys, NEW their \in 1 .. keys, NEW b \in Infos(keys),
         Accepts(p, i, our, their, b)
  PROVE  IInv' /\ First(p)
<1> DEFINE o == Other(p)
           m == Signature(our, their)
           w == Pair(p, our, their)
<1>1. /\ TypeInv /\ Distinct /\ OfferInv /\ SignatureInv /\ LastInv /\ CurrentInv
      /\ CommitInv /\ SingleInv
  BY DEF IInv
<1>2. /\ keys \in Nat /\ our \in Nat \ {NULL} /\ their \in Nat /\ o \in Peers /\ o # p
      /\ Other(o) = p /\ \A q \in Peers : q = p \/ q = o
  <2>1. keys \in Nat
    BY <1>1 DEF TypeInv
  <2>2. our \in Nat \ {NULL} /\ their \in Nat
    BY <2>1 DEF NULL
  <2> QED  BY <2>1, <2>2, Ends
<1>3. w[p] = our /\ w[o] = their
      /\ \A c, d : Pair(p, our, their) = Pair(p, c, d) => our = c /\ their = d
  BY <1>2, Pairs
<1>4. Offers(p, our) /\ Answers(p, their)
  BY DEF Accepts, Offers, Answers
<1>5. ~Used(p, our) /\ ~Commit(o, our) /\ ~Answers(o, our)
  BY <1>1, <1>2, <1>4 DEF OfferInv
<1>6. \A c, d : ~(HasJoined(p, our, d) \/ HasJoined(o, c, our))
  <2>1. \A q \in Peers : \A n \in DOMAIN joined[q] : joined[q][n] \in DOMAIN outcomes
    BY <1>1, LenProperties, ElementOfSeq DEF TypeInv
  <2>2. ASSUME NEW c, NEW d, HasJoined(p, our, d)
        PROVE  FALSE
    <3>1. \E e \in DOMAIN outcomes : outcomes[e] = Pair(p, our, d)
      BY <2>1, <2>2 DEF HasJoined
    <3>2. Pair(p, our, d)[p] = our
      BY Pairs
    <3> QED  BY <1>5, <3>1, <3>2 DEF Used
  <2>3. ASSUME NEW c, NEW d, HasJoined(o, c, our)
        PROVE  FALSE
    <3>1. \E e \in DOMAIN outcomes : outcomes[e] = Pair(o, c, our)
      BY <1>2, <2>1, <2>3 DEF HasJoined
    <3>2. Pair(o, c, our)[p] = our
      BY <1>2, Pairs
    <3> QED  BY <1>5, <3>1, <3>2 DEF Used
  <2> QED  BY <2>2, <2>3
<1>7. Meets(p, our, their) /\ \A e \in DOMAIN outcomes : outcomes[e] # w
  <2>1. Join(p, our, their)
    BY DEF Accepts
  <2>2. ~HasJoined(p, our, their)
    BY <1>6
  <2>3. \A e : ~Joins(p, our, their, e)
    BY <1>3, <1>5 DEF Joins, Used
  <2> HIDE DEF w
  <2> QED  BY <1>2, <2>1, <2>2, <2>3, JoinCases DEF w
<1>8. dups = 0 => ~Used(o, their) /\ ~Commit(p, their)
  BY <1>1, <1>2, <1>4, Zenon DEF CommitInv
<1>9. First(p)
  BY <1>2, <1>5, <1>7, <1>8 DEF First, Accepts
<1>10. /\ outcomes' \in Seq(Outcomes(keys))
       /\ joined' \in [Peers -> Seq(1 .. Len(outcomes'))]
       /\ Distinct'
       /\ \A q \in Peers : \A k : Used(q, k)' => Used(q, k) \/ k = w[q]
       /\ \A q \in Peers : \A c, d : HasJoined(q, c, d) => HasJoined(q, c, d)'
       /\ HasJoined(p, our, their)'
       /\ \A q \in Peers : \A c, d : HasJoined(q, c, d)' =>
            HasJoined(q, c, d) \/ (q = p /\ Pair(q, c, d) = w)
  BY <1>7, MeetsEffect
<1> HIDE DEF o, w
<1>11. /\ m \in Messages(keys) /\ m.type = "signature" /\ m.from = our /\ m.to = their
       /\ m.type # "commit" /\ m # NoMsg
  <2>1. m \in Messages(keys)
    BY <1>2, MessageTypes
  <2> QED  BY <2>1 DEF Signature, Msg, NoMsg
<1> HIDE DEF m
<1>12. m \in Messages(keys) \cup {NoMsg} /\ Reply(p, i, Out(m)) /\ keys <= keys
  BY <1>2, <1>11 DEF Out, Accepts, m
<1>13. net' \in [Peers -> Seq(Messages(keys))] /\ Passed(p, i, m)
  BY <1>1, <1>2, <1>12, Replies
<1>14. /\ \A q \in Peers : \A x \in Nat : Commit(q, x)' => Commit(q, x)
       /\ dups = 0 => \A q \in Peers : One(net'[q], "commit")
  BY <1>11, <1>13, Delivered
<1>15. /\ auth' \in [Peers -> Infos(keys)] /\ auth'[p] = b
       /\ \A q \in Peers : q # p => auth'[q] = auth[q]
  BY <1>1 DEF Accepts, TypeInv
<1>16. b.authstate = "NONE" /\ b.lastauthmsg = m
  BY DEF Accepts, m
<1>17. UNCHANGED <<version, m_auth, keys, starts, dups, resent>>
  BY DEF Accepts
<1>18. /\ msgstate' = [msgstate EXCEPT ![p] = "ENCRYPTED"]
       /\ current' = [current EXCEPT ![p] = <<our, their>>]
  BY <1>7 DEF Meets
<1>19. TypeInv'
  <2>1. /\ msgstate' \in [Peers -> {"PLAINTEXT", "ENCRYPTED", "FINISHED"}]
        /\ current' \in [Peers -> (0 .. keys) \X (0 .. keys)]
    <3>1. <<our, their>> \in (0 .. keys) \X (0 .. keys)
      BY <1>2
    <3> QED  BY <1>1, <1>18, <3>1 DEF TypeInv
  <2>2. /\ keys' = keys /\ version' \in {2, 3} /\ starts' \in Nat /\ dups' \in Nat
        /\ resent' \in BOOLEAN /\ m_auth' \in [Peers -> Infos(keys)]
    BY <1>1, <1>17 DEF TypeInv
  <2> QED  BY <1>2, <1>10, <1>13, <1>15, <2>1, <2>2
       DEF TypeInv, Infos, RawInfos, Messages, Outcomes, Types
<1>20. \A q \in Peers : \A y : /\ Offers(q, y)' => q = o /\ Offers(q, y)
                               /\ Answers(q, y)' => q = o /\ Answers(q, y)
  BY <1>2, <1>15, <1>16 DEF Offers, Answers
<1>21. OfferInv'
  <2> SUFFICES ASSUME NEW q \in Peers, NEW y \in Nat, Offers(q, y)'
               PROVE  ~Used(q, y)' /\ ~Commit(Other(q), y)' /\ ~Answers(Other(q), y)'
    BY DEF OfferInv
  <2>1. q = o /\ Offers(o, y)
    BY <1>20
  <2>2. ~Used(o, y) /\ ~Commit(p, y) /\ ~Answers(p, y)
    BY <1>1, <1>2, <2>1 DEF OfferInv
  <2>3. y # their
    BY <1>4, <2>2
  <2>4. ~Used(o, y)' /\ ~Commit(p, y)' /\ ~Answers(p, y)'
    BY <1>2, <1>3, <1>10, <1>14, <1>20, <2>2, <2>3
  <2> QED  BY <1>2, <2>1, <2>4
<1>22. SignatureInv'
  <2> SUFFICES ASSUME NEW q \in Peers, NEW y \in Nat, NEW x \in Nat, Signed(q, y, x)'
               PROVE  HasJoined(Other(q), y, x)'
    BY DEF SignatureInv
  <2>1. CASE Signed(q, y, x)
    <3>1. HasJoined(Other(q), y, x) /\ Other(q) \in Peers
      BY <1>1, <2>1, Ends DEF SignatureInv
    <3> QED  BY <1>10, <3>1
  <2>2. CASE q = o /\ y = our /\ x = their
    BY <1>2, <1>10, <2>2
  <2> QED  BY <1>11, <1>13, <2>1, <2>2 DEF Passed, o
<1>23. LastInv' /\ CurrentInv'
  <2>1. Grows
    BY <1>10 DEF Grows
  <2>2. \A q \in Peers : q # p =>
          auth'[q] = auth[q] /\ current'[q] = current[q] /\ msgstate'[q] = msgstate[q]
    BY <1>1, <1>15, <1>18 DEF TypeInv
  <2>3. current'[p] = <<our, their>> /\ version' = version
    BY <1>1, <1>17, <1>18 DEF TypeInv
  <2>4. auth'[p].lastauthmsg \in {Signature(our, their), NoMsg}
    BY <1>15, <1>16 DEF m
  <2> QED  BY <1>2, <1>10, <2>1, <2>2, <2>3, <2>4, EncryptedBooks
<1>25. CommitInv'
  <2> SUFFICES ASSUME dups' = 0, NEW q \in Peers
               PROVE  /\ One(net'[q], "commit")
                      /\ \A x \in Nat : Commit(q, x)' => ~Answers(q, x)' /\ ~Used(Other(q), x)'
                      /\ \A x \in Nat : Answers(q, x)' => ~Used(Other(q), x)'
    BY DEF CommitInv, One
  <2>1. dups = 0 /\ One(net'[q], "commit")
    BY <1>14, <1>17
  <2>2. ASSUME NEW x \in Nat, Commit(q, x)'
        PROVE  ~Answers(q, x)' /\ ~Used(Other(q), x)'
    <3>1. Commit(q, x) /\ ~Answers(q, x) /\ ~Used(Other(q), x)
      BY <1>1, <1>14, <2>1, <2>2, Zenon DEF CommitInv
    <3>2. CASE q = p
      <4>1. x # their
        BY <1>8, <2>1, <3>1, <3>2
      <4> QED  BY <1>2, <1>3, <1>10, <1>20, <3>1, <3>2, <4>1 DEF o
    <3>3. CASE q = o
      <4>1. x # our
        BY <1>5, <3>1, <3>3
      <4> QED  BY <1>2, <1>3, <1>10, <1>20, <3>1, <3>3, <4>1
    <3> QED  BY <1>2, <3>2, <3>3
  <2>3. ASSUME NEW x \in Nat, Answers(q, x)'
        PROVE  ~Used(Other(q), x)'
    <3>1. q = o /\ Answers(o, x) /\ Other(q) = p
      BY <1>2, <1>20, <2>3
    <3>2. ~Used(p, x)
      BY <1>1, <1>2, <2>1, <3>1 DEF CommitInv
    <3>3. x # our
      BY <1>5, <3>1
    <3> QED  BY <1>3, <1>10, <3>1, <3>2, <3>3
  <2> QED  BY <2>1, <2>2, <2>3
<1>26. SingleInv'
  <2> SUFFICES ASSUME ~Repeated', NEW q \in Peers
               PROVE  /\ One(net'[q], "signature")
                      /\ \A y, x \in Nat : Signed(q, y, x)' => ~HasJoined(q, x, y)'
    BY DEF SingleInv, One
  <2>1. ~Repeated
    BY <1>17 DEF Repeated
  <2>2. ~In(net[o], "signature", our, their)
    <3>1. ~Signed(o, our, their)
      BY <1>1, <1>2, <1>6 DEF SignatureInv
    <3> QED  BY <3>1 DEF Signed
  <2>3. One(net'[q], "signature")
    <3>1. One(net[q], "signature")
      BY <1>1, <2>1 DEF SingleInv
    <3>2. "signature" \in Types
      BY DEF Types
    <3>3. q = o => ~In(net[q], "signature", m.from, m.to)
      BY <1>11, <2>2
    <3> QED  BY <1>13, <3>1, <3>2, <3>3 DEF Passed, o
  <2>4. ASSUME NEW y \in Nat, NEW x \in Nat, Signed(q, y, x)', HasJoined(q, x, y)'
        PROVE  FALSE
    <3>1. CASE q = o /\ y = our /\ x = their
      <4>1. HasJoined(o, their, our)
        BY <1>2, <1>10, <2>4, <3>1
      <4> QED  BY <1>6, <4>1
    <3>2. CASE Signed(q, y, x)
      <4>1. ~HasJoined(q, x, y) /\ HasJoined(Other(q), y, x)
        BY <1>1, <2>1, <3>2 DEF SingleInv, SignatureInv
      <4>2. q = p /\ Pair(p, x, y) = Pair(p, our, their)
        BY <1>10, <2>4, <4>1 DEF w
      <4>3. x = our
        BY <1>3, <4>2
      <4> QED  BY <1>6, <4>1, <4>2, <4>3 DEF o
    <3> QED  BY <1>11, <1>13, <2>4, <3>1, <3>2 DEF Passed, o
  <2> QED  BY <2>3, <2>4
<1> QED  BY <1>9, <1>10, <1>19, <1>21, <1>22, <1>23, <1>25, <1>26 DEF IInv

LEMMA RevealStep ==
  ASSUME IInv, NEW p \in Peers, NEW i \in DOMAIN net[p], ReceiveRevealSig(p, i)
  PROVE  /\ IInv' /\ UNCHANGED <<dups, resent>>
         /\ UNCHANGED <<outcomes, joined>> \/ First(p)
<1> DEFINE m == net[p][i]
           a == auth[p]
           read == TakeR(a, m)
           shared == Knows(read, read.encgx)
           reveals == read.authstate = "AWAITING_REVEALSIG" /\ HashMatches(read, m)
           sig == Signature(shared.our_dh, shared.their_pub)
           no == NoMsg
<1>1. /\ keys \in Nat /\ TypeInv /\ m \in Messages(keys) /\ a \in Infos(keys)
      /\ auth = [auth EXCEPT ![p] = a]
      /\ msgstate \in [Peers -> {"PLAINTEXT", "ENCRYPTED", "FINISHED"}]
      /\ resent \in BOOLEAN
  BY Received
<1>2. /\ m.type = "revealsig"
      /\ UNCHANGED <<version, m_auth, keys, starts, dups, resent>>
  BY DEF ReceiveRevealSig
<1>3. /\ read \in Infos(keys) /\ read.authstate = a.authstate
      /\ read.our_dh = a.our_dh /\ read.encgx = a.encgx
      /\ read.lastauthmsg = a.lastauthmsg
      /\ a.authstate = "AWAITING_REVEALSIG" =>
           /\ Knows(TakeR(a, m), a.encgx) \in Infos(keys)
           /\ Knows(TakeR(a, m), a.encgx).authstate = a.authstate
           /\ Knows(TakeR(a, m), a.encgx).our_dh = a.our_dh
           /\ Knows(TakeR(a, m), a.encgx).encgx = a.encgx
           /\ Knows(TakeR(a, m), a.encgx).their_pub = a.encgx
           /\ Knows(TakeR(a, m), a.encgx).lastauthmsg = a.lastauthmsg
  BY <1>1, <1>2, Reads
<1>4. a.authstate = "AWAITING_REVEALSIG" =>
        /\ shared \in Infos(keys) /\ shared.authstate = a.authstate
        /\ shared.our_dh = a.our_dh /\ shared.encgx = a.encgx
        /\ shared.their_pub = a.encgx /\ shared.lastauthmsg = a.lastauthmsg
  BY <1>3
<1>5. \/ /\ reveals
         /\ Join(p, shared.our_dh, shared.their_pub)
         /\ auth' = [auth EXCEPT ![p] = Finished(shared, sig)]
         /\ Reply(p, i, <<sig>>)
      \/ /\ auth' = [auth EXCEPT ![p] = IF reveals THEN shared ELSE read]
         /\ Reply(p, i, <<>>)
         /\ UNCHANGED <<msgstate, current, outcomes, joined>>
      \/ /\ Reply(p, i, <<>>)
         /\ UNCHANGED <<auth, msgstate, current, outcomes, joined>>
  BY DEF ReceiveRevealSig, Knows
<1>6. /\ Reply(p, i, <<>>) => Reply(p, i, Out(no))
      /\ no \in Messages(keys) \cup {NoMsg} /\ no.type # "commit" /\ no.type # "signature"
  BY DEF Out, NoMsg, Msg
<1>7. a.authstate = "AWAITING_REVEALSIG" => Offers(p, a.our_dh) /\ Answers(p, a.encgx)
  BY DEF Offers, Answers
<1> HIDE DEF no
<1>8. CASE /\ reveals
           /\ Join(p, shared.our_dh, shared.their_pub)
           /\ auth' = [auth EXCEPT ![p] = Finished(shared, sig)]
           /\ Reply(p, i, <<sig>>)
  <2> DEFINE our == a.our_dh
             their == a.encgx
             b == Finished(shared, sig)
             g == shared.r
             e == shared.their_pub
  <2>1. a.authstate = "AWAITING_REVEALSIG"
    BY <1>3, <1>8
  <2>2. /\ our \in 1 .. keys /\ their \in 1 .. keys
    BY <1>1, <2>1, InfoTypes
  <2>3. shared.our_dh = our /\ shared.their_pub = their /\ shared \in Infos(keys)
        /\ shared.encgx = their
    BY <1>4, <2>1
  <2>4. sig = Signature(our, their)
    BY <2>3
  <2>5. b = Info("NONE", our, g, their, their, sig)
    <3> HIDE DEF shared, sig
    <3> QED  BY <1>1, <2>3, Makes
  <2>6. g \in 0 .. keys
    <3> HIDE DEF shared
    <3> QED  BY <1>1, <2>3, InfoTypes
  <2> HIDE DEF sig, shared, g, b, read, reveals
  <2>7. sig \in Messages(keys)
    BY <1>1, <2>2, <2>4, MessageTypes
  <2>8. Info("NONE", our, g, their, their, sig) \in Infos(keys)
    <3>1. our \in 0 .. keys /\ their \in 0 .. keys
      BY <1>1, <2>2
    <3> HIDE DEF our, their
    <3> QED  BY <1>1, <2>6, <2>7, <3>1, MakesInfo DEF AuthStates
  <2>9. b \in Infos(keys) /\ b.authstate = "NONE" /\ b.lastauthmsg = Signature(our, their)
    BY <2>4, <2>5, <2>8 DEF Info
  <2>10. Accepts(p, i, our, their, b)
    BY <1>2, <1>8, <2>1, <2>3, <2>4, <2>9 DEF Accepts, b
  <2> HIDE DEF our, their, a
  <2>11. IInv' /\ First(p)
    BY <2>2, <2>9, <2>10, AcceptStep
  <2> QED  BY <1>2, <2>11
<1>9. ASSUME UNCHANGED <<msgstate, current, outcomes, joined>>, Reply(p, i, <<>>),
             NEW b \in Infos(keys), auth' = [auth EXCEPT ![p] = b],
             b.authstate = a.authstate, b.our_dh = a.our_dh, b.encgx = a.encgx,
             b.lastauthmsg = a.lastauthmsg
      PROVE  IInv'
  <2>1. Handles(p, i, b)
    BY <1>2, <1>7, <1>9 DEF Handles
  <2>2. /\ keys' = keys /\ keys <= keys /\ resent' \in BOOLEAN /\ (resent => resent')
        /\ msgstate' \in [Peers -> {"PLAINTEXT", "ENCRYPTED", "FINISHED"}]
        /\ \A q \in Peers : msgstate'[q] = "ENCRYPTED" => msgstate[q] = "ENCRYPTED"
    BY <1>1, <1>2, <1>9
  <2> QED  BY <1>1, <1>6, <1>9, <2>1, <2>2, HandledStep
<1>10. CASE /\ auth' = [auth EXCEPT ![p] = IF reveals THEN shared ELSE read]
            /\ Reply(p, i, <<>>)
            /\ UNCHANGED <<msgstate, current, outcomes, joined>>
  <2> DEFINE b == IF reveals THEN shared ELSE read
  <2>1. /\ b \in Infos(keys) /\ b.authstate = a.authstate /\ b.our_dh = a.our_dh
        /\ b.encgx = a.encgx /\ b.lastauthmsg = a.lastauthmsg
    BY <1>3, <1>4
  <2>2. auth' = [auth EXCEPT ![p] = b]
    BY <1>10
  <2> HIDE DEF b
  <2>3. IInv'
    BY <1>9, <1>10, <2>1, <2>2
  <2> QED  BY <1>2, <1>10, <2>3
<1>11. CASE /\ Reply(p, i, <<>>)
            /\ UNCHANGED <<auth, msgstate, current, outcomes, joined>>
  <2>1. auth' = [auth EXCEPT ![p] = a]
    BY <1>1, <1>11
  <2>2. IInv'
    BY <1>1, <1>9, <1>11, <2>1
  <2> QED  BY <1>2, <1>11, <2>2
<1> QED  BY <1>5, <1>8, <1>10, <1>11
\* p finishes an exchange that the other end has joined, for the first time unless a
\* message was repeated.
Second(p) ==
  \E our, their \in Nat, e \in Nat :
    /\ Joins(p, our, their, e)
    /\ HasJoined(Other(p), their, our)
    /\ ~Repeated => ~HasJoined(p, our, their)

LEMMA FollowStep ==
  ASSUME IInv, NEW p \in Peers, NEW i \in DOMAIN net[p], NEW our \in 1 .. keys,
         NEW their \in 1 .. keys, NEW b \in Infos(keys), NEW e, Joins(p, our, their, e),
         net[p][i].type = "signature", net[p][i].from = their, net[p][i].to = our,
         auth' = [auth EXCEPT ![p] = b], b.authstate = "NONE", b.lastauthmsg = NoMsg,
         Reply(p, i, Out(NoMsg)),
         UNCHANGED <<version, m_auth, keys, starts, dups, resent>>
  PROVE  IInv' /\ Second(p)
<1> DEFINE o == Other(p)
           w == Pair(p, our, their)
           no == NoMsg
<1>1. /\ TypeInv /\ Distinct /\ OfferInv /\ SignatureInv /\ LastInv /\ CurrentInv
      /\ CommitInv /\ SingleInv
  BY DEF IInv
<1>2. /\ keys \in Nat /\ our \in Nat \ {NULL} /\ their \in Nat /\ o \in Peers /\ o # p
      /\ Other(o) = p /\ \A q \in Peers : q = p \/ q = o
  <2>1. keys \in Nat
    BY <1>1 DEF TypeInv
  <2>2. our \in Nat \ {NULL} /\ their \in Nat
    BY <2>1 DEF NULL
  <2> QED  BY <2>1, <2>2, Ends
<1>3. \A c, d : Pair(p, our, their) = Pair(p, c, d) => our = c /\ their = d
  BY <1>2, Pairs
<1>4. Signed(p, their, our) /\ HasJoined(o, their, our)
  <2>1. Signed(p, their, our)
    BY DEF Signed, In
  <2> QED  BY <1>1, <1>2, <2>1 DEF SignatureInv
<1>5. ~Repeated => ~HasJoined(p, our, their) /\ One(net[p], "signature")
  BY <1>1, <1>2, <1>4, Zenon DEF SingleInv
<1>6. e \in Nat /\ outcomes' = outcomes
  <2>1. outcomes \in Seq(Outcomes(keys))
    BY <1>1 DEF TypeInv
  <2>2. e \in 1 .. Len(outcomes)
    BY <2>1, LenProperties DEF Joins
  <2> QED  BY <2>2 DEF Joins
<1>7. Second(p)
  BY <1>2, <1>4, <1>5, <1>6 DEF Second
<1>8. /\ joined' \in [Peers -> Seq(1 .. Len(outcomes'))]
      /\ \A q \in Peers : \A c, d : HasJoined(q, c, d) => HasJoined(q, c, d)'
      /\ HasJoined(p, our, their)'
      /\ \A q \in Peers : \A c, d : HasJoined(q, c, d)' =>
           HasJoined(q, c, d) \/ (q = p /\ Pair(q, c, d) = w)
  BY JoinsEffect
<1>9. no \in Messages(keys) \cup {NoMsg} /\ Reply(p, i, Out(no)) /\ keys <= keys
      /\ no.type = "none" /\ no.type # "commit" /\ no.type # "signature"
  BY <1>2 DEF NoMsg, Msg
<1> HIDE DEF o, w, no
<1>10. /\ net' \in [Peers -> Seq(Messages(keys))]
       /\ Passed(p, i, no)
       /\ One(net[p], net[p][i].type)
            => ~In(net'[p], net[p][i].type, net[p][i].from, net[p][i].to)
  BY <1>1, <1>2, <1>9, Replies
<1>11. /\ \A q \in Peers : \A x \in Nat : Commit(q, x)' => Commit(q, x)
       /\ dups = 0 => \A q \in Peers : One(net'[q], "commit")
       /\ no.type # "signature" =>
            /\ \A q \in Peers : \A y, x \in Nat : Signed(q, y, x)' => Signed(q, y, x)
            /\ ~Repeated => \A q \in Peers : One(net'[q], "signature")
  BY <1>9, <1>10, Delivered
<1>12. /\ auth' \in [Peers -> Infos(keys)] /\ auth'[p] = b
       /\ \A q \in Peers : q # p => auth'[q] = auth[q]
  BY <1>1 DEF TypeInv
<1>13. /\ msgstate' = [msgstate EXCEPT ![p] = "ENCRYPTED"]
       /\ current' = [current EXCEPT ![p] = <<our, their>>]
  BY DEF Joins
<1>14. TypeInv'
  <2>1. /\ msgstate' \in [Peers -> {"PLAINTEXT", "ENCRYPTED", "FINISHED"}]
        /\ current' \in [Peers -> (0 .. keys) \X (0 .. keys)]
    <3>1. <<our, their>> \in (0 .. keys) \X (0 .. keys)
      BY <1>2
    <3> QED  BY <1>1, <1>13, <3>1 DEF TypeInv
  <2>2. /\ keys' = keys /\ version' \in {2, 3} /\ starts' \in Nat /\ dups' \in Nat
        /\ resent' \in BOOLEAN /\ m_auth' \in [Peers -> Infos(keys)]
        /\ outcomes' \in Seq(Outcomes(keys))
    BY <1>1, <1>6 DEF TypeInv
  <2> QED  BY <1>2, <1>8, <1>10, <1>12, <2>1, <2>2
       DEF TypeInv, Infos, RawInfos, Messages, Outcomes, Types
<1>15. \A q \in Peers : \A y : /\ Offers(q, y)' => Offers(q, y)
                               /\ Answers(q, y)' => Answers(q, y)
  BY <1>2, <1>12 DEF Offers, Answers
<1>16. Keeps
  <2>1. \A q \in Peers : \A z \in Nat : Offers(q, z) => ~(z > keys)
    BY <1>1, <1>2, KeysInUse
  <2>2. dups = 0 => \A q \in Peers : \A x \in Nat : Commit(q, x) => ~Answers(q, x)
    BY <1>1 DEF CommitInv
  <2>3. Orderly
    BY <1>9, <1>11, <1>15, <2>1, <2>2, Zenon DEF Orderly
  <2> QED  BY <1>6, <1>8, <2>3 DEF Keeps
<1>17. Distinct' /\ OfferInv' /\ SignatureInv' /\ CommitInv'
  BY <1>16, Kept
<1>18. LastInv' /\ CurrentInv'
  <2>1. Grows
    BY <1>8 DEF Grows
  <2>2. \A q \in Peers : q # p =>
          auth'[q] = auth[q] /\ current'[q] = current[q] /\ msgstate'[q] = msgstate[q]
    BY <1>1, <1>12, <1>13 DEF TypeInv
  <2>3. current'[p] = <<our, their>> /\ version' = version
    BY <1>1, <1>13 DEF TypeInv
  <2>4. auth'[p].lastauthmsg \in {Signature(our, their), NoMsg}
    BY <1>12
  <2> QED  BY <1>2, <1>8, <2>1, <2>2, <2>3, <2>4, EncryptedBooks
<1>19. SingleInv'
  <2> SUFFICES ASSUME ~Repeated', NEW q \in Peers
               PROVE  /\ One(net'[q], "signature")
                      /\ \A y, x \in Nat : Signed(q, y, x)' => ~HasJoined(q, x, y)'
    BY DEF SingleInv, One
  <2>1. ~Repeated
    BY DEF Repeated
  <2>2. ASSUME NEW y \in Nat, NEW x \in Nat, Signed(q, y, x)', HasJoined(q, x, y)'
        PROVE  FALSE
    <3>1. Signed(q, y, x) /\ ~HasJoined(q, x, y)
      BY <1>1, <1>9, <1>11, <2>1, <2>2, Zenon DEF SingleInv
    <3>2. q = p /\ our = x /\ their = y
      BY <1>3, <1>8, <2>2, <3>1 DEF w
    <3>3. ~In(net'[p], "signature", their, our)
      BY <1>5, <1>10, <2>1
    <3>4. ~Signed(p, their, our)'
      BY <3>3 DEF Signed, In
    <3> QED  BY <2>2, <3>2, <3>4
  <2> QED  BY <1>9, <1>11, <2>1, <2>2
<1> QED  BY <1>7, <1>14, <1>17, <1>18, <1>19 DEF IInv

LEMMA SignatureStep ==
  ASSUME IInv, NEW p \in Peers, NEW i \in DOMAIN net[p], ReceiveSignature(p, i)
  PROVE  /\ IInv' /\ UNCHANGED <<dups, resent>>
         /\ UNCHANGED <<outcomes, joined>> \/ Second(p)
<1> DEFINE m == net[p][i]
           a == auth[p]
           our == a.our_dh
           their == a.their_pub
           no == NoMsg
           b == Finished(a, no)
<1>1. /\ keys \in Nat /\ TypeInv /\ m \in Messages(keys) /\ a \in Infos(keys)
      /\ auth = [auth EXCEPT ![p] = a]
      /\ msgstate \in [Peers -> {"PLAINTEXT", "ENCRYPTED", "FINISHED"}]
      /\ resent \in BOOLEAN
  BY Received
<1>2. /\ m.type = "signature" /\ Reply(p, i, Out(no))
      /\ UNCHANGED <<version, m_auth, keys, starts, dups, resent>>
      /\ \/ /\ a.authstate = "AWAITING_SIG" /\ m.to = our /\ m.from = their
            /\ Join(p, our, their)
            /\ auth' = [auth EXCEPT ![p] = b]
         \/ UNCHANGED <<auth, msgstate, current, outcomes, joined>>
  BY DEF ReceiveSignature, MacMatches, Out
<1>3. no \in Messages(keys) \cup {NoMsg} /\ no.type # "commit" /\ no.type # "signature"
      /\ no.type = "none" /\ no = NoMsg
  BY DEF NoMsg, Msg
<1>4. keys' = keys /\ keys <= keys /\ resent' \in BOOLEAN /\ (resent => resent')
  BY <1>1, <1>2
<1>5. b \in Infos(keys) /\ b.authstate = "NONE" /\ b.lastauthmsg = no
  <2> DEFINE r == a.r
             g == a.encgx
  <2>1. b = Info("NONE", our, r, g, their, no)
    BY <1>1, Makes
  <2>2. our \in 0 .. keys /\ r \in 0 .. keys /\ g \in 0 .. keys /\ their \in 0 .. keys
    BY <1>1, InfoTypes
  <2> HIDE DEF our, r, g, their, no, b
  <2>3. Info("NONE", our, r, g, their, no) \in Infos(keys)
    BY <1>1, <1>3, <2>2, MakesInfo DEF AuthStates
  <2> QED  BY <2>1, <2>3 DEF Info
<1>6. CASE UNCHANGED <<auth, msgstate, current, outcomes, joined>>
  <2>1. a.authstate = "AWAITING_REVEALSIG" => Offers(p, a.our_dh) /\ Answers(p, a.encgx)
    BY DEF Offers, Answers
  <2>2. Handles(p, i, a)
    BY <1>1, <1>2, <1>6, <2>1 DEF Handles
  <2>3. /\ msgstate' \in [Peers -> {"PLAINTEXT", "ENCRYPTED", "FINISHED"}]
        /\ \A q \in Peers : msgstate'[q] = "ENCRYPTED" => msgstate[q] = "ENCRYPTED"
    BY <1>1, <1>6
  <2> HIDE DEF no
  <2>4. IInv'
    BY <1>1, <1>2, <1>3, <1>4, <2>2, <2>3, HandledStep
  <2> QED  BY <1>2, <1>6, <2>4
<1>7. CASE /\ a.authstate = "AWAITING_SIG" /\ m.to = our /\ m.from = their
           /\ Join(p, our, their)
           /\ auth' = [auth EXCEPT ![p] = b]
  <2>1. our \in 1 .. keys /\ their \in 1 .. keys
    BY <1>1, <1>7, InfoTypes
  <2>2. our \in Nat \ {NULL} /\ their \in Nat
    BY <1>1, <2>1 DEF NULL
  <2> HIDE DEF our, their, b
  <2>3. CASE UNCHANGED <<msgstate, current, outcomes, joined>>
    <3>1. Handles(p, i, b)
      BY <1>2, <1>3, <1>5, <1>7, <2>3 DEF Handles
    <3>2. /\ msgstate' \in [Peers -> {"PLAINTEXT", "ENCRYPTED", "FINISHED"}]
          /\ \A q \in Peers : msgstate'[q] = "ENCRYPTED" => msgstate[q] = "ENCRYPTED"
      BY <1>1, <2>3
    <3> HIDE DEF no
    <3>3. IInv'
      BY <1>1, <1>2, <1>3, <1>4, <1>5, <3>1, <3>2, HandledStep
    <3> QED  BY <1>2, <2>3, <3>3
  <2>4. ASSUME NEW e, Joins(p, our, their, e)
        PROVE  IInv' /\ Second(p)
    BY <1>2, <1>5, <1>7, <2>1, <2>4, FollowStep
  <2>5. \E e \in DOMAIN outcomes : outcomes[e] = Pair(p, our, their)
    <3>1. HasJoined(Other(p), their, our)
      <4>1. Signed(p, their, our)
        BY <1>2, <1>7 DEF Signed, In
      <4> QED  BY <2>2, <4>1 DEF IInv, SignatureInv
    <3>2. \A n \in DOMAIN joined[Other(p)] : joined[Other(p)][n] \in DOMAIN outcomes
      BY <1>1, Ends, LenProperties, ElementOfSeq DEF TypeInv
    <3>3. Pair(Other(p), their, our) = Pair(p, our, their)
      BY PairTurned
    <3> QED  BY <3>1, <3>2, <3>3 DEF HasJoined
  <2> QED  BY <1>2, <1>7, <2>2, <2>3, <2>4, <2>5, JoinCases
<1> QED  BY <1>2, <1>6, <1>7
-----------------------------------------------------------------------------
(* All steps.                                                              *)

\* What a step of p comes to, as far as the outcomes are concerned.
Step(p) ==
  \/ UNCHANGED <<outcomes, joined>> /\ (Repeated' = Repeated \/ Repeated' = TRUE)
  \/ First(p) /\ Repeated' = Repeated
  \/ Second(p) /\ Repeated' = Repeated

LEMMA NextStep ==
  ASSUME IInv, NEW p \in Peers,
         Start(p) \/ Receive(p) \/ Poll(p) \/ Leave(p) \/ Repeat(p)
  PROVE  IInv' /\ Step(p)
<1>1. UNCHANGED <<dups, resent>> => Repeated' = Repeated
  BY DEF Repeated
<1>2. dups \in Nat /\ resent \in BOOLEAN
  BY DEF IInv, TypeInv
<1>3. CASE Start(p)
  BY <1>1, <1>3, StartStep DEF Step
<1>4. CASE Poll(p)
  BY <1>1, <1>4, PollStep DEF Step
<1>5. CASE Leave(p)
  BY <1>1, <1>5, LeaveStep DEF Step
<1>6. CASE Repeat(p)
  <2>1. IInv' /\ UNCHANGED <<outcomes, joined>> /\ Repeated'
    BY <1>6, RepeatStep
  <2>2. Repeated' = TRUE
    BY <2>1 DEF Repeated
  <2> QED  BY <2>1, <2>2 DEF Step
<1>7. CASE Receive(p)
  <2> SUFFICES ASSUME NEW i \in DOMAIN net[p],
                      \/ ReceiveCommit(p, i) \/ ReceiveKey(p, i)
                      \/ ReceiveRevealSig(p, i) \/ ReceiveSignature(p, i)
               PROVE  IInv' /\ Step(p)
    BY <1>7 DEF Receive
  <2>1. CASE ReceiveCommit(p, i)
    <3>1. IInv' /\ UNCHANGED <<outcomes, joined, dups>> /\ (resent => resent')
      BY <2>1, CommitStep
    <3>2. resent' \in BOOLEAN
      BY <3>1 DEF IInv, TypeInv
    <3>3. CASE resent' = resent
      BY <1>1, <3>1, <3>3 DEF Step
    <3>4. CASE resent' # resent
      <4>1. resent'
        BY <1>2, <3>1, <3>2, <3>4
      <4>2. Repeated' = TRUE
        BY <4>1 DEF Repeated
      <4> QED  BY <3>1, <4>2 DEF Step
    <3> QED  BY <3>3, <3>4
  <2>2. CASE ReceiveKey(p, i)
    BY <1>1, <2>2, KeyStep DEF Step
  <2>3. CASE ReceiveRevealSig(p, i)
    BY <1>1, <2>3, RevealStep DEF Step
  <2>4. CASE ReceiveSignature(p, i)
    BY <1>1, <2>4, SignatureStep DEF Step
  <2> QED  BY <2>1, <2>2, <2>3, <2>4
<1> QED  BY <1>3, <1>4, <1>5, <1>6, <1>7

\* The state of every exchange is accounted for: offers, commits and Signature
\* messages on their way, and the exchanges that were finished, agree.
THEOREM Invariance == Spec => []IInv
<1>1. Init => IInv
  BY InitHolds
<1>2. IInv /\ [Next]_vars => IInv'
  BY NextStep, StutterStep DEF Next
<1> QED  BY <1>1, <1>2, PTL DEF Spec

\* Every state of an exchange has at hand what its next step takes: the message it
\* may have to send again, and the keys that the answer is checked with.
LEMMA InfosAreReady ==
  ASSUME TypeInv, NEW a \in Infos(keys)
  PROVE  a \in AuthInfos /\ Ready(a)
<1> DEFINE T == {"none", "commit", "key", "revealsig", "signature"}
           M == [type : T, r : 0 .. keys, from : 0 .. keys, to : 0 .. keys]
<1>1. keys \in Nat
  BY DEF TypeInv
<1>2. Messages(keys) \cup {NoMsg} \subseteq M
  <2>1. NoMsg \in M
    BY <1>1 DEF NoMsg, Msg, NULL
  <2>2. 1 .. keys \subseteq 0 .. keys /\ Types \subseteq T
    BY <1>1 DEF Types
  <2>3. Messages(keys) \subseteq M
    BY <2>2 DEF Messages
  <2> QED  BY <2>1, <2>3
<1>3. a \in RawInfos(keys)
  BY DEF Infos
<1>4. a \in AuthInfos
  <2>1. RawInfos(keys) \subseteq [authstate : AuthStates, our_dh : 0 .. keys, r : 0 .. keys,
                                  encgx : 0 .. keys, their_pub : 0 .. keys, lastauthmsg : M]
    <3> HIDE DEF M, Messages
    <3> QED  BY <1>2 DEF RawInfos
  <2> QED  BY <1>3, <2>1 DEF AuthInfos
<1>5. /\ a.authstate \in AuthStates
      /\ a.lastauthmsg \in Messages(keys) \cup {NoMsg}
      /\ a.authstate = "AWAITING_DHKEY" => a.our_dh \in 1 .. keys /\ a.r \in 1 .. keys
      /\ a.authstate = "AWAITING_REVEALSIG" =>
           /\ a.our_dh \in 1 .. keys /\ a.encgx \in 1 .. keys
           /\ a.lastauthmsg = DhKey(a.our_dh)
      /\ a.authstate = "AWAITING_SIG" =>
           /\ a.our_dh \in 1 .. keys /\ a.their_pub \in 1 .. keys
           /\ \E r \in Nat : a.lastauthmsg = RevealSig(r, a.our_dh, a.their_pub)
  BY <1>1, InfoTypes
<1>6. a.authstate = "AWAITING_SIG" =>
        \E r \in 1 .. keys : a.lastauthmsg = RevealSig(r, a.our_dh, a.their_pub)
  <2> SUFFICES ASSUME NEW r \in Nat, a.lastauthmsg = RevealSig(r, a.our_dh, a.their_pub)
               PROVE  r \in 1 .. keys
    BY <1>5
  <2>1. a.lastauthmsg.type = "revealsig" /\ a.lastauthmsg.r = r
    BY DEF RevealSig, Msg
  <2>2. a.lastauthmsg \in Messages(keys)
    BY <1>5, <2>1 DEF NoMsg, Msg
  <2> QED  BY <1>1, <2>1, <2>2, MessageTypes
<1>7. Ready(a)
  <2>1. CASE a.authstate = "NONE"
    BY <2>1 DEF Ready
  <2>2. CASE a.authstate = "AWAITING_DHKEY"
    BY <1>5, <2>2 DEF Ready, NULL
  <2>3. CASE a.authstate = "AWAITING_REVEALSIG"
    BY <1>5, <2>3 DEF Ready, NULL
  <2>4. CASE a.authstate = "AWAITING_SIG"
    BY <1>5, <1>6, <2>4 DEF Ready, NULL
  <2> QED  BY <1>5, <2>1, <2>2, <2>3, <2>4 DEF AuthStates
<1> QED  BY <1>4, <1>7

\* Types, and what every state of an exchange has at hand for its next step.
THEOREM TypesOK == Spec => []TypeOK
<1>1. IInv => TypeOK
  <2> SUFFICES ASSUME IInv
               PROVE  TypeOK
    OBVIOUS
  <2>1. TypeInv /\ CurrentInv
    BY DEF IInv
  <2>2. Infos(keys) \subseteq AuthInfos /\ \A a \in Infos(keys) : Ready(a)
    BY <2>1, InfosAreReady
  <2> QED  BY <2>1, <2>2 DEF TypeOK, TypeInv, CurrentInv
<1> QED  BY <1>1, Invariance, PTL
-----------------------------------------------------------------------------
(* Who goes encrypted, and with what.                                      *)

LEMMA LastJoined ==
  ASSUME IInv, NEW p \in Peers, NEW e \in DOMAIN outcomes,
         joined' = [joined EXCEPT ![p] = Append(joined[p], e)]
  PROVE  joined'[p] = Append(joined[p], e) /\ Last(joined'[p]) = e
<1>1. joined \in [Peers -> Seq(1 .. Len(outcomes))] /\ e \in 1 .. Len(outcomes)
  BY LenProperties DEF IInv, TypeInv
<1>2. /\ Len(Append(joined[p], e)) = Len(joined[p]) + 1
      /\ Append(joined[p], e)[Len(joined[p]) + 1] = e
  BY <1>1, AppendProperties
<1>3. joined'[p] = Append(joined[p], e)
  BY <1>1
<1> QED  BY <1>2, <1>3 DEF Last

LEMMA SecondFollows ==
  ASSUME IInv, NEW p \in Peers, Second(p)
  PROVE  Last(joined'[p]) \in Range(joined[Other(p)])
<1>1. PICK our \in Nat, their \in Nat, e \in Nat :
        Joins(p, our, their, e) /\ HasJoined(Other(p), their, our)
  BY DEF Second
<1>2. e \in DOMAIN outcomes /\ outcomes[e] = Pair(p, our, their)
      /\ joined' = [joined EXCEPT ![p] = Append(joined[p], e)]
  BY <1>1 DEF Joins
<1>3. Last(joined'[p]) = e
  BY <1>2, LastJoined
<1>4. PICK n \in DOMAIN joined[Other(p)] :
        outcomes[joined[Other(p)][n]] = Pair(Other(p), their, our)
  BY <1>1 DEF HasJoined
<1>5. joined[Other(p)][n] \in DOMAIN outcomes
  BY <1>4, Ends, LenProperties, ElementOfSeq DEF IInv, TypeInv
<1>6. joined[Other(p)][n] = e
  <2>1. Pair(Other(p), their, our) = Pair(p, our, their)
    BY PairTurned
  <2> QED  BY <1>2, <1>4, <1>5, <2>1 DEF IInv, Distinct
<1> QED  BY <1>3, <1>4, <1>6 DEF Range

\* Whoever answers with a Signature message is secure before its correspondent: an end
\* that goes encrypted while it waits for one finds that the other end has joined the
\* same exchange, under the same keys (auth.c:1033, 1143).
THEOREM AnswererIsFirst == Spec => InitiatorIsLast
<1>1. ASSUME IInv, [Next]_vars
      PROVE  [\A p \in Peers :
                joined'[p] # joined[p] /\ auth[p].authstate = "AWAITING_SIG"
                => Last(joined'[p]) \in Range(joined[Other(p)])]_vars
  <2> SUFFICES ASSUME Next, NEW p \in Peers, joined'[p] # joined[p],
                      auth[p].authstate = "AWAITING_SIG"
               PROVE  Last(joined'[p]) \in Range(joined[Other(p)])
    BY <1>1
  <2>1. PICK q \in Peers : Step(q)
    BY <1>1, NextStep DEF Next
  <2>2. joined \in [Peers -> Seq(1 .. Len(outcomes))]
    BY <1>1 DEF IInv, TypeInv
  <2>3. CASE First(q)
    <3>1. joined' = [joined EXCEPT ![q] = Append(joined[q], Len(outcomes) + 1)]
          /\ auth[q].authstate = "AWAITING_REVEALSIG"
      BY <2>3 DEF First, Meets
    <3>2. q # p
      BY <3>1
    <3> QED  BY <2>2, <3>1, <3>2
  <2>4. CASE Second(q)
    <3>1. \E e : joined' = [joined EXCEPT ![q] = Append(joined[q], e)]
      BY <2>4 DEF Second, Joins
    <3>2. q = p
      BY <2>2, <3>1
    <3> QED  BY <1>1, <2>4, <3>2, SecondFollows
  <2>5. CASE UNCHANGED <<outcomes, joined>>
    BY <2>5
  <2> QED  BY <2>1, <2>3, <2>4, <2>5 DEF Step
<1> QED  BY <1>1, Invariance, PTL DEF Spec, InitiatorIsLast

LEMMA FirstIsMeet ==
  ASSUME IInv, NEW p \in Peers, First(p), Repeated' = Repeated
  PROVE  Agreement!Meet(p)
<1>1. PICK our \in Nat, their \in Nat :
        /\ Meets(p, our, their) /\ ~Used(p, our)
        /\ dups = 0 => ~Used(Other(p), their)
  BY DEF First
<1> DEFINE w == Pair(p, our, their)
<1>2. /\ outcomes' = Append(outcomes, w)
      /\ joined' = [joined EXCEPT ![p] = Append(joined[p], Len(outcomes) + 1)]
  BY <1>1 DEF Meets
<1>3. Len(outcomes') = Len(outcomes) + 1 /\ outcomes'[Len(outcomes) + 1] = w
  <2>1. outcomes \in Seq(Outcomes(keys)) /\ Outcomes(keys) \subseteq [Peers -> Nat]
    BY DEF IInv, TypeInv, Outcomes
  <2>2. outcomes \in Seq([Peers -> Nat])
    BY <2>1, SeqMore
  <2>3. w \in [Peers -> Nat]
    BY DEF Pair
  <2> HIDE DEF w
  <2> QED  BY <1>2, <2>2, <2>3, AppendProperties
<1>4. w[p] = our /\ w[Other(p)] = their
  BY Pairs
<1>5. Agreement!New(p, w[p]) /\ (~Repeated => Agreement!New(Other(p), w[Other(p)]))
  BY <1>1, <1>4 DEF Agreement!New, Used, Repeated, IInv, TypeInv
<1>6. IF Repeated THEN \E q \in Agreement!Peers : Agreement!New(q, w[q])
      ELSE \A q \in Agreement!Peers : Agreement!New(q, w[q])
  <2>1. Agreement!Peers = Peers
    BY DEF Agreement!Peers, Peers
  <2> HIDE DEF w
  <2> QED  BY <1>5, <2>1, Ends
<1> HIDE DEF w
<1> QED  BY <1>2, <1>3, <1>6 DEF Agreement!Meet

LEMMA SecondIsFollow ==
  ASSUME IInv, NEW p \in Peers, Second(p), Repeated' = Repeated
  PROVE  Agreement!Rejoin(p) \/ \E e \in DOMAIN outcomes : Agreement!Follow(p, e)
<1>1. PICK our \in Nat, their \in Nat, e \in Nat :
        Joins(p, our, their, e) /\ (~Repeated => ~HasJoined(p, our, their))
  BY DEF Second
<1>2. e \in DOMAIN outcomes /\ outcomes[e] = Pair(p, our, their) /\ outcomes' = outcomes
      /\ joined' = [joined EXCEPT ![p] = Append(joined[p], e)]
  BY <1>1 DEF Joins
<1>3. CASE \A n \in DOMAIN joined[p] : joined[p][n] # e
  BY <1>2, <1>3 DEF Agreement!Follow
<1>4. CASE \E n \in DOMAIN joined[p] : joined[p][n] = e
  <2>1. HasJoined(p, our, their)
    BY <1>2, <1>4 DEF HasJoined
  <2>2. Repeated
    BY <1>1, <2>1
  <2> QED  BY <1>2, <1>4, <2>2 DEF Agreement!Rejoin
<1> QED  BY <1>3, <1>4

\* What module DataKeys takes for granted of the exchange (message.c:594-627): the keys
\* of an outcome are new for both ends, and no end goes encrypted with them twice,
\* unless a message of the exchange has been repeated.
THEOREM AkeImplementsKeyAgreement == Spec => ImplementsKeyAgreement
<1>1. Init => Agreement!Init
  <2> SUFFICES ASSUME Init
               PROVE  Agreement!Init
    OBVIOUS
  <2>1. ~Repeated /\ Repeated = FALSE
    BY DEF Init, Repeated
  <2> QED  BY <2>1 DEF Init, Agreement!Init, Agreement!Peers, Peers
<1>2. ASSUME IInv, [Next]_vars
      PROVE  [Agreement!Next]_(Agreement!vars)
  <2>1. CASE UNCHANGED vars
    BY <2>1 DEF vars, Agreement!vars, Repeated
  <2>2. CASE Next
    <3>1. PICK p \in Peers : Step(p)
      BY <1>2, <2>2, NextStep DEF Next
    <3>2. p \in Agreement!Peers
      BY DEF Agreement!Peers, Peers
    <3>3. CASE UNCHANGED <<outcomes, joined>> /\ Repeated' = Repeated
      BY <3>3 DEF Agreement!vars
    <3>4. CASE UNCHANGED <<outcomes, joined>> /\ Repeated' = TRUE
      <4>1. Agreement!Repeat
        BY <3>4 DEF Agreement!Repeat
      <4> QED  BY <3>2, <4>1 DEF Agreement!Next
    <3>5. CASE First(p) /\ Repeated' = Repeated
      <4>1. Agreement!Meet(p)
        BY <1>2, <3>5, FirstIsMeet
      <4> QED  BY <3>2, <4>1 DEF Agreement!Next
    <3>6. CASE Second(p) /\ Repeated' = Repeated
      <4>1. Agreement!Rejoin(p) \/ \E e \in DOMAIN outcomes : Agreement!Follow(p, e)
        BY <1>2, <3>6, SecondIsFollow
      <4> QED  BY <3>2, <4>1 DEF Agreement!Next
    <3> QED  BY <3>1, <3>3, <3>4, <3>5, <3>6 DEF Step
  <2> QED  BY <1>2, <2>1, <2>2
<1> QED  BY <1>1, <1>2, Invariance, PTL DEF Spec, ImplementsKeyAgreement, Agreement!Spec
=============================================================================
