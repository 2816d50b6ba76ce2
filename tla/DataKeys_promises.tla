-------------------------- MODULE DataKeys_promises --------------------------
(***************************************************************************)
(* What the data phase promises across steps, from the invariants of the   *)
(* modules DataKeys_proofs and DataKeys_sessions: a round trip disposes of *)
(* the keys it used, and DataKeys implements SecureChannel.                *)
(***************************************************************************)
EXTENDS DataKeys_sessions

-----------------------------------------------------------------------------
(* Messages stay where they are.                                           *)

\* W is Y, or Y without its last elements.
Prefix(W, Y) == DOMAIN W \subseteq DOMAIN Y /\ \A n \in DOMAIN W : Y[n] = W[n]

\* An element at the end leaves the others where they are.
LEMMA AppendPrefix ==
  ASSUME NEW T, NEW s \in Seq(T), NEW x
  PROVE  Prefix(s, Append(s, x))
  BY DEF Prefix

\* S is as it was, or has one element more at the end of one sequence.
MayGrow(S) == S' = S \/ \E p \in Peers : \E x : S' = [S EXCEPT ![p] = Append(@, x)]

\* An action injects at most one message.
LEMMA InjectsOne == Next => MayGrow(wire)
<1> SUFFICES ASSUME Next PROVE MayGrow(wire)
  OBVIOUS
<1>1. CASE Agree
  BY <1>1 DEF Agree, MayGrow
<1>2. ASSUME NEW p \in Peers, NEW e \in DOMAIN ake, NEW resend \in BOOLEAN,
             GoEncrypted(p, e, resend)
      PROVE  MayGrow(wire)
  BY <1>2 DEF GoEncrypted, MayGrow
<1>3. ASSUME NEW p \in Peers, RekeyOnKey(p)
      PROVE  MayGrow(wire)
  BY <1>3 DEF RekeyOnKey, MayGrow
<1>4. ASSUME NEW p \in Peers, NEW kind \in Kinds, Send(p, kind)
      PROVE  MayGrow(wire)
  BY <1>4 DEF Send, MayGrow
<1>5. ASSUME NEW p \in Peers, Disconnect(p)
      PROVE  MayGrow(wire)
  BY <1>5 DEF Disconnect, MayGrow
<1>6. ASSUME NEW p \in Peers, NEW i \in DOMAIN wire[Other(p)], Refuse(p, i)
      PROVE  MayGrow(wire)
  BY <1>6 DEF Refuse, MayGrow
<1>7. ASSUME NEW p \in Peers, NEW i \in DOMAIN wire[Other(p)],
             NEW answer \in BOOLEAN, Accept(p, i, answer)
      PROVE  MayGrow(wire)
  BY <1>7 DEF Accept, MayGrow
<1> QED  BY <1>1, <1>2, <1>3, <1>4, <1>5, <1>6, <1>7 DEF Next

\* An action reads at most one message.
LEMMA ReadsOne == Next => MayGrow(inbox)
<1> SUFFICES ASSUME Next, inbox' # inbox PROVE MayGrow(inbox)
  BY DEF MayGrow
<1>1. ASSUME NEW p \in Peers, NEW i \in DOMAIN wire[Other(p)],
             NEW answer \in BOOLEAN, Accept(p, i, answer)
      PROVE  MayGrow(inbox)
  BY <1>1 DEF Accept, MayGrow
<1>2. \E p \in Peers : \E i \in DOMAIN wire[Other(p)] :
        \E answer \in BOOLEAN : Accept(p, i, answer)
  BY DEF Next, Agree, GoEncrypted, RekeyOnKey, Send, Disconnect, Refuse
<1> QED  BY <1>1, <1>2

\* No message that was sent or read is lost.
LEMMA MessagesStay ==
  ASSUME IInv, Next
  PROVE  \A q \in Peers : Prefix(wire[q], wire'[q]) /\ Prefix(inbox[q], inbox'[q])
<1> SUFFICES ASSUME NEW q \in Peers
             PROVE  Prefix(wire[q], wire'[q]) /\ Prefix(inbox[q], inbox'[q])
  OBVIOUS
<1>1. /\ wire \in [Peers -> Seq(Message)] /\ wire[q] \in Seq(Message)
      /\ inbox \in [Peers -> Seq(Nat)] /\ inbox[q] \in Seq(Nat)
  BY DEF IInv, TypeOK
<1>2. \A W : Prefix(W, W)
  BY DEF Prefix
<1>3. wire'[q] = wire[q] \/ \E m : wire'[q] = Append(wire[q], m)
  BY <1>1, InjectsOne DEF MayGrow
<1>4. inbox'[q] = inbox[q] \/ \E i : inbox'[q] = Append(inbox[q], i)
  BY <1>1, ReadsOne DEF MayGrow
<1> QED  BY <1>1, <1>2, <1>3, <1>4, AppendPrefix

-----------------------------------------------------------------------------
(* Forward secrecy.                                                        *)

\* The DH keys of p under which message i of the other end acknowledges messages.
Spent(p, i) ==
  LET q == Other(p)
  IN  {wire[p][inbox[q][n]].mac_key[1] : n \in 1..wire[q][i].after}

\* What a message acknowledges is there, and was not made with a key to come.
LEMMA SpentFacts ==
  ASSUME Inv, NEW p \in Peers, NEW q, q = Other(p), NEW i \in DOMAIN wire[q],
         NEW n \in 1..wire[q][i].after
  PROVE  /\ n \in DOMAIN inbox[q] /\ inbox[q][n] \in DOMAIN wire[p]
         /\ wire[p][inbox[q][n]].mac_key[1] \in (1..generated[p]) \ Pending(p)
<1>1. q \in Peers /\ Other(q) = p
  BY Ends
<1>2. /\ Acknowledged(wire[q], wire[p], inbox[q])
      /\ ReadSoFar(context_priv[q], session[q], joined[q], wire[p], inbox[q])
      /\ inbox[q] \in Seq(Nat)
  BY <1>1, EndParts
<1>3. wire[q][i].after \in 0..Len(inbox[q]) /\ Len(inbox[q]) \in Nat
      /\ DOMAIN inbox[q] = 1..Len(inbox[q])
  BY <1>2, SMTT(30) DEF Acknowledged
<1>4. n \in DOMAIN inbox[q]
  BY <1>3
<1>5. inbox[q][n] \in DOMAIN wire[p]
  BY <1>2, <1>4, Zenon DEF ReadSoFar
<1>6. SentBelow(context_priv[p], generated[p], Pending(p), Sent(p))
  BY EndFacts DEF Inv
<1> QED  BY <1>4, <1>5, <1>6 DEF SentBelow, Sent

\* What a message acknowledges never changes.
LEMMA SpentStays ==
  ASSUME Inv, NEW p \in Peers, NEW i \in DOMAIN wire[Other(p)],
         \A q \in Peers : Prefix(wire[q], wire'[q]) /\ Prefix(inbox[q], inbox'[q])
  PROVE  Spent(p, i)' = Spent(p, i)
<1> DEFINE q == Other(p)
<1>1. q \in Peers /\ wire'[q][i] = wire[q][i]
  BY Ends DEF Prefix
<1>2. ASSUME NEW n \in 1..wire[q][i].after
      PROVE  wire'[p][inbox'[q][n]] = wire[p][inbox[q][n]]
  BY <1>1, SpentFacts DEF Prefix
<1> QED  BY <1>1, <1>2 DEF Spent

\* An end that reads a message no longer holds the keys it acknowledges.
LEMMA SpentByAccepting ==
  ASSUME Inv, NEW p \in Peers, NEW i \in DOMAIN wire[Other(p)],
         NEW m, m = wire[Other(p)][i], NEW c, c = context_priv[p], Readable(c, m),
         NEW d, d = AfterAccept(c, m, generated[p] + 1)
  PROVE  Spent(p, i) \cap Ours(d) = {}
<1> DEFINE q == Other(p)
           e == session[p]
           g == generated[p]
<1> SUFFICES ASSUME NEW n \in 1..wire[q][i].after,
                    wire[p][inbox[q][n]].mac_key[1] \in Ours(d)
             PROVE  FALSE
  BY SMTT(20) DEF Spent
<1> DEFINE s == wire[p][inbox[q][n]]
           k == s.mac_key[1]
           t == Name(s.session, k, s.sender_keyid)
<1>1. n \in DOMAIN inbox[q] /\ inbox[q][n] \in DOMAIN wire[p] /\ k \in 1..g
  BY SpentFacts
<1>2. q \in Peers /\ Other(q) = p /\ g \in Nat /\ g + 1 \in DhKey
      /\ wire[p] \in Seq(Message)
  BY Ends, PeerFacts DEF Inv, DhKey, NULL
<1>3. /\ m \in Message /\ c.their_keyid # 0 /\ m.session = e
      /\ m.recipient_keyid \in Nat /\ s.sender_keyid \in Nat
  BY <1>1, <1>2, ReadableInSession, MessageFields DEF Inv
<1>4. /\ c \in ContextPriv /\ KeysPresent(c) /\ Ordered(c)
      /\ OursNamed(c, e, Exchanged(p), wire[p])
      /\ SentNamed(g, Pending(p), joined[p], Exchanged(p), Exchanged(q), wire[p],
                   wire[q])
      /\ Acknowledged(wire[q], wire[p], inbox[q])
  BY <1>2, EndFacts, EndParts DEF Inv
<1>5. /\ t \in Names(Exchanged(p), wire[p])
      /\ t.session = s.session /\ t.key = k /\ t.keyid = s.sender_keyid
  <2>1. inbox[q][n] \in DOMAIN wire[p]
    BY <1>1
  <2>2. SentNamed(g, Pending(p), joined[p], Exchanged(p), Exchanged(q), wire[p], wire[q])
    BY <1>4
  <2>3. t \in Names(Exchanged(p), wire[p])
    BY ONLY <2>1, <2>2 DEF SentNamed
  <2> QED  BY ONLY <2>3, NameFields
<1>6. s.session = e => s.sender_keyid < m.recipient_keyid
  <2>1. Acknowledged(wire[q], wire[p], inbox[q]) /\ i \in DOMAIN wire[q]
    BY <1>4
  <2>2. wire[p][inbox[q][n]].session = wire[q][i].session =>
          wire[p][inbox[q][n]].sender_keyid < wire[q][i].recipient_keyid
    BY ONLY <2>1, n \in 1..wire[q][i].after DEF Acknowledged
  <2> QED  BY <1>3, <2>2
<1>7. /\ d.our_dh_key = IF NeedsNewDhKey(c, m) THEN g + 1 ELSE c.our_dh_key
      /\ d.our_old_dh_key = IF NeedsNewDhKey(c, m) THEN c.our_dh_key
                            ELSE c.our_old_dh_key
  BY <1>2, <1>3, <1>4, AfterAcceptFields
<1>8. m.recipient_keyid = c.our_keyid \/ m.recipient_keyid + 1 = c.our_keyid
  BY SMTT(20) DEF Readable, MacVerifies, KnownKeyids
<1> HIDE DEF q, e, s, k, t, g
<1>9. k = c.our_dh_key \/ (~NeedsNewDhKey(c, m) /\ k = c.our_old_dh_key)
  <2>1. k \in Ours(d) /\ k # g + 1
    BY <1>1, <1>2, SMTT(20) DEF k, s, q
  <2> QED  BY <2>1, <1>7 DEF Ours
<1>10. CASE k = c.our_dh_key
  <2>1. t.session = e /\ t.keyid = c.our_keyid
    BY <1>3, <1>4, <1>5, <1>10, SMTT(20) DEF OursNamed
  <2> QED  BY <2>1, <1>3, <1>5, <1>6, <1>8, <1>4, ContextFacts
<1>11. CASE ~NeedsNewDhKey(c, m) /\ k = c.our_old_dh_key
  <2>1. t.session = e /\ t.keyid = c.our_keyid - 1
    BY <1>3, <1>4, <1>5, <1>11 DEF OursNamed
  <2>2. m.recipient_keyid + 1 = c.our_keyid
    BY <1>8, <1>11 DEF NeedsNewDhKey
  <2> QED  BY <2>1, <2>2, <1>3, <1>5, <1>6, <1>4, ContextFacts
<1> QED  BY <1>9, <1>10, <1>11
\* The keys of every message that p has read are gone from p's context c.
AllGone(p, c) == \A i \in Accepted(p) : Spent(p, i) \cap Ours(c) = {}

\* KeyGoneAfterRoundTrip, in terms of these.
LEMMA AllGoneMeans ==
  KeyGoneAfterRoundTrip <=> \A p \in Peers : AllGone(p, context_priv[p])
BY DEF KeyGoneAfterRoundTrip, AllGone, Spent, Ours

\* Likewise in the next state.
LEMMA AllGonePrimed ==
  ASSUME \A p \in Peers : \A i \in Accepted(p)' :
           Spent(p, i)' \cap Ours(context_priv'[p]) = {}
  PROVE  KeyGoneAfterRoundTrip'
BY DEF KeyGoneAfterRoundTrip, Spent, Ours

\* The keys that are gone are none that an end would take up now.
LEMMA SpentIsOld ==
  ASSUME Inv, NEW p \in Peers, NEW i \in DOMAIN wire[Other(p)]
  PROVE  Spent(p, i) \subseteq (1..generated[p]) \ Pending(p)
BY SpentFacts DEF Spent

\* A step after which p has context d, that reads no message.
LEMMA WithoutReading ==
  ASSUME Inv, KeyGoneAfterRoundTrip, Next, NEW p \in Peers, inbox' = inbox,
         NEW d, context_priv' = [context_priv EXCEPT ![p] = d], AllGone(p, d)
  PROVE  KeyGoneAfterRoundTrip'
<1> SUFFICES ASSUME NEW q \in Peers, NEW i \in Accepted(q)
             PROVE  Spent(q, i)' \cap Ours(context_priv'[q]) = {}
  BY AllGonePrimed DEF Accepted
<1>1. i \in DOMAIN wire[Other(q)]
  BY DEF Inv, IInv, WireInv
<1>2. Spent(q, i)' = Spent(q, i)
  BY <1>1, MessagesStay, SpentStays DEF Inv
<1>3. context_priv'[q] = IF q = p THEN d ELSE context_priv[q]
  BY DEF Inv, IInv, TypeOK
<1>4. Spent(q, i) \cap Ours(context_priv'[q]) = {}
  BY <1>3, AllGoneMeans DEF AllGone
<1> QED  BY <1>2, <1>4

\* Accepting a message leaves the keys that the session goes on with.
LEMMA AcceptedContext ==
  ASSUME IInv, NEW p \in Peers, NEW i \in DOMAIN wire[Other(p)],
         NEW m, m = wire[Other(p)][i], Readable(context_priv[p], m),
         NEW d, d = AfterAccept(context_priv[p], m, generated[p] + 1)
  PROVE  d \in ContextPriv /\ KeysPresent(d) /\ d.their_keyid # 0 /\ InSync(d)
<1> DEFINE c == context_priv[p]
           g == generated[p]
           a == AfterAccept(c, m, g + 1)
           h == IF NeedsNewDhKey(c, m) THEN g + 1 ELSE g
           F == Pending(p)
           R == Read(p)
           S == Sent(p)
           V == Revealed(p)
<1>1. /\ m \in Message /\ m.mac_key[1] < m.next_y
  BY PeerFacts, Ends DEF IInv, WireInv
<1>2. /\ c \in ContextPriv /\ KeysPresent(c) /\ g \in Nat
      /\ R \in SUBSET Message /\ S \in SUBSET Message /\ V \in SUBSET MacKey
      /\ KeyInv(c, g, F, R, S, V) /\ Readable(c, m)
  BY PeerFacts
<1> HIDE DEF c, g, F, R, S, V
<1>3. /\ a \in ContextPriv /\ KeysPresent(a) /\ a.their_keyid # 0
      /\ KeyInv(a, h, F, R \cup {m}, S, V)
  BY <1>1, <1>2, AfterAcceptKeepsInv
<1>4. d = a
  BY DEF c, g
<1> HIDE DEF a
<1> QED  BY <1>3, <1>4 DEF KeyInv

\* Accepting a message.
LEMMA AcceptGone ==
  ASSUME Inv, KeyGoneAfterRoundTrip, NEW p \in Peers, NEW x \in DOMAIN wire[Other(p)],
         NEW answer \in BOOLEAN, Accept(p, x, answer)
  PROVE  KeyGoneAfterRoundTrip'
<1> DEFINE c == context_priv[p]
           m == wire[Other(p)][x]
           a == AfterAccept(c, m, generated[p] + 1)
           d == IF m.kind = "disconnected" THEN BlankPriv
                ELSE IF answer THEN AfterCreate(a) ELSE a
<1>1. /\ Readable(c, m) /\ Next
      /\ context_priv' = [context_priv EXCEPT ![p] = d]
      /\ inbox' = [inbox EXCEPT ![p] = Append(@, x)]
  BY DEF Accept, Next
<1>2. Accepted(p)' = Accepted(p) \cup {x}
  <2>1. /\ inbox[p] \in Seq(Nat) /\ x \in Nat
        /\ inbox'[p] = Append(inbox[p], x)
    BY <1>1, PeerFacts, Ends, SMTT(20) DEF Inv, IInv, TypeOK
  <2> QED  BY <2>1, AppendFacts, SMTT(20) DEF Accepted
<1>3. \A q \in Peers : q # p => Accepted(q)' = Accepted(q)
  BY <1>1 DEF Accepted, Inv, IInv, TypeOK
<1>4. \A q \in Peers : context_priv'[q] = IF q = p THEN d ELSE context_priv[q]
  BY <1>1 DEF Inv, IInv, TypeOK
<1>5. ASSUME NEW i \in Accepted(p) \cup {x}
      PROVE  Spent(p, i) \cap Ours(d) = {}
  <2>1. i \in DOMAIN wire[Other(p)] /\ generated[p] \in Nat
    BY PeerFacts DEF Inv, IInv, WireInv
  <2>2. Spent(p, i) \subseteq 1..generated[p]
    BY <2>1, SpentIsOld
  <2>3. Spent(p, i) \cap Ours(a) = {}
    <3>1. CASE i = x
      BY <3>1, <1>1, SpentByAccepting
    <3>2. CASE i \in Accepted(p)
      <4>1. Spent(p, i) \cap Ours(c) = {}
        BY <3>2, AllGoneMeans DEF AllGone
      <4>2. Ours(a) \subseteq Ours(c) \cup {generated[p] + 1}
        <5>1. c \in ContextPriv /\ KeysPresent(c) /\ m \in Message
              /\ generated[p] + 1 \in DhKey
          BY <1>1, <2>1, PeerFacts, ReadableInSession DEF Inv, DhKey, NULL
        <5> QED  BY <5>1, <1>1, AfterAcceptFields DEF Ours
      <4> QED  BY <4>1, <4>2, <2>1, <2>2
    <3> QED  BY <3>1, <3>2
  <2>4. Ours(AfterCreate(a)) = Ours(a)
    <3>1. a \in ContextPriv /\ KeysPresent(a) /\ a.their_keyid # 0 /\ InSync(a)
      BY <1>1, AcceptedContext DEF Inv
    <3> HIDE DEF a
    <3> QED  BY <3>1, CreateSameReading DEF SameReading, Ours
  <2>5. 0 \notin Spent(p, i)
    BY <2>1, <2>2
  <2> HIDE DEF a, m
  <2> QED  BY <2>3, <2>4, <2>5 DEF BlankPriv, Ours, NULL
<1>6. \A q \in Peers : \A i \in Accepted(q)' :
        /\ i \in DOMAIN wire[Other(q)]
        /\ Spent(q, i) \cap Ours(context_priv'[q]) = {}
  <2> HIDE DEF d
  <2>1. \A q \in Peers : Accepted(q) \subseteq DOMAIN wire[Other(q)]
    BY DEF Inv, IInv, WireInv
  <2> QED  BY <2>1, <1>2, <1>3, <1>4, <1>5, AllGoneMeans DEF AllGone
<1>7. \A q \in Peers : \A i \in Accepted(q)' : Spent(q, i)' = Spent(q, i)
  BY <1>1, <1>6, MessagesStay, SpentStays DEF Inv
<1> QED  BY <1>6, <1>7, AllGonePrimed

\* Once p has read a message that was made after a message of p was read, p holds the
\* DH key of its own message no longer: accept_data rotates it out.
THEOREM RoundTripsDisposeOfKeys == Spec => []KeyGoneAfterRoundTrip
<1>1. Init => KeyGoneAfterRoundTrip
  BY DEF Init, KeyGoneAfterRoundTrip, Accepted
<1>2. Inv /\ KeyGoneAfterRoundTrip /\ [Next]_vars => KeyGoneAfterRoundTrip'
  <2> SUFFICES ASSUME Inv, KeyGoneAfterRoundTrip, [Next]_vars
               PROVE  KeyGoneAfterRoundTrip'
    OBVIOUS
  <2> DEFINE c(p) == context_priv[p]
  <2>1. \A p \in Peers : AllGone(p, c(p))
    BY AllGoneMeans
  <2>2. ASSUME NEW p \in Peers PROVE context_priv = [context_priv EXCEPT ![p] = c(p)]
    BY DEF Inv, IInv, TypeOK
  <2>3. \A p \in Peers : \A d : Ours(d) \subseteq Ours(c(p)) => AllGone(p, d)
    BY <2>1 DEF AllGone
  <2>4. CASE Agree
    <3>1. A \in Peers /\ Next /\ inbox' = inbox /\ context_priv' = context_priv
      BY <2>4 DEF Agree, Next, Peers
    <3> QED  BY <3>1, <2>1, <2>2, WithoutReading
  <2>5. ASSUME NEW p \in Peers, NEW e \in DOMAIN ake, NEW resend \in BOOLEAN,
               GoEncrypted(p, e, resend)
        PROVE  KeyGoneAfterRoundTrip'
    <3> DEFINE g == generated[p]
               b == Install(c(p), ake[e][p], ake[e][Other(p)], g + 1)
               d == IF resend THEN AfterCreate(b) ELSE b
    <3>1. /\ Next /\ inbox' = inbox /\ ake' = ake /\ e \in DOMAIN ake \ joined[p]
          /\ context_priv' = [context_priv EXCEPT ![p] = d]
          /\ joined' = [joined EXCEPT ![p] = joined[p] \cup {e}]
      BY <2>5 DEF GoEncrypted, Next
    <3>2. joined'[p] = joined[p] \cup {e}
      BY <3>1 DEF Inv, IInv, TypeOK
    <3>3. /\ ake[e][p] \in Pending(p)
          /\ b \in ContextPriv /\ KeysPresent(b) /\ b.their_keyid # 0
          /\ KeyInv(b, g + 1, Pending(p)', Read(p), Sent(p), Revealed(p))
      BY <3>1, <3>2, Installing DEF Inv
    <3>4. c(p) \in ContextPriv /\ g \in Nat
      BY PeerFacts DEF Inv
    <3>5. Ours(b) = {g + 1, ake[e][p]}
      BY <3>4, InstallFields DEF Ours
    <3> HIDE DEF b
    <3>6. Ours(d) = Ours(b)
      BY <3>3, CreateSameReading DEF SameReading, Ours, KeyInv
    <3>7. ASSUME NEW i \in Accepted(p)
          PROVE  Spent(p, i) \cap Ours(d) = {}
      <4>1. i \in DOMAIN wire[Other(p)]
        BY DEF Inv, IInv, WireInv
      <4>2. Spent(p, i) \subseteq (1..g) \ Pending(p)
        BY <4>1, SpentIsOld
      <4> QED  BY <4>2, <3>3, <3>4, <3>5, <3>6
    <3> HIDE DEF d
    <3>8. AllGone(p, d)
      BY <3>7 DEF AllGone
    <3> QED  BY <3>1, <3>8, WithoutReading
  <2>6. ASSUME NEW p \in Peers, RekeyOnKey(p)
        PROVE  KeyGoneAfterRoundTrip'
    <3>1. Next /\ inbox' = inbox /\ context_priv' = context_priv
      BY <2>6 DEF RekeyOnKey, Next
    <3> QED  BY <3>1, <2>1, <2>2, WithoutReading
  <2>7. ASSUME NEW p \in Peers, NEW kind \in Kinds, Send(p, kind)
        PROVE  KeyGoneAfterRoundTrip'
    <3>1. /\ Next /\ inbox' = inbox /\ c(p).their_keyid # 0
          /\ context_priv' = [context_priv EXCEPT ![p] = AfterCreate(c(p))]
      BY <2>7 DEF Send, CanCreateData, Next, Inv, IInv, TypeOK
    <3>2. c(p) \in ContextPriv /\ KeysPresent(c(p)) /\ InSync(c(p))
      BY EndParts
    <3> HIDE DEF c
    <3>3. Ours(AfterCreate(c(p))) = Ours(c(p))
      BY <3>1, <3>2, CreateSameReading DEF SameReading, Ours
    <3>4. AllGone(p, AfterCreate(c(p)))
      BY <3>3, <2>3
    <3> QED  BY <3>1, <3>4, WithoutReading
  <2>8. ASSUME NEW p \in Peers, Disconnect(p)
        PROVE  KeyGoneAfterRoundTrip'
    <3>1. /\ Next /\ inbox' = inbox
          /\ context_priv' = [context_priv EXCEPT ![p] = BlankPriv]
      BY <2>8 DEF Disconnect, Next
    <3>2. AllGone(p, BlankPriv)
      <4>1. \A i \in Accepted(p) : 0 \notin Spent(p, i)
        BY SpentIsOld, PeerFacts DEF Inv, IInv, WireInv
      <4> QED  BY <4>1 DEF AllGone, Ours, BlankPriv, NULL
    <3> QED  BY <3>1, <3>2, WithoutReading
  <2>9. ASSUME NEW p \in Peers, NEW i \in DOMAIN wire[Other(p)], Refuse(p, i)
        PROVE  KeyGoneAfterRoundTrip'
    <3> DEFINE m == wire[Other(p)][i]
               d == IF msgstate[p] = "ENCRYPTED" /\ MacVerifies(c(p), m)
                    THEN MarkMacUsed(c(p), m) ELSE c(p)
    <3>1. Next /\ inbox' = inbox /\ context_priv' = [context_priv EXCEPT ![p] = d]
      BY <2>9 DEF Refuse, Next, Inv, IInv, TypeOK
    <3>2. c(p) \in ContextPriv /\ KeysPresent(c(p)) /\ m \in Message
      BY PeerFacts, Ends DEF Inv
    <3>3. Ours(d) = Ours(c(p))
      BY <3>2, MarkSameReading DEF SameReading, Ours
    <3> HIDE DEF d
    <3>4. AllGone(p, d)
      BY <3>3, <2>3
    <3> QED  BY <3>1, <3>4, WithoutReading
  <2>10. ASSUME NEW p \in Peers, NEW i \in DOMAIN wire[Other(p)],
                NEW answer \in BOOLEAN, Accept(p, i, answer)
         PROVE  KeyGoneAfterRoundTrip'
    BY <2>10, AcceptGone, SMTT(20)
  <2>11. CASE UNCHANGED vars
    BY <2>11 DEF vars, KeyGoneAfterRoundTrip, Accepted
  <2> QED  BY <2>4, <2>5, <2>6, <2>7, <2>8, <2>9, <2>10, <2>11 DEF Next
<1> QED  BY <1>1, <1>2, SessionInvariance, PTL DEF Spec
-----------------------------------------------------------------------------
(* DataKeys implements SecureChannel.                                      *)

\* The sessions of some messages, in order.
SessionsOf(W) == [i \in DOMAIN W |-> W[i].session]

\* One message more, one session more.
LEMMA SessionsOfAppended ==
  ASSUME NEW W \in Seq(Message), NEW m \in Message
  PROVE  SessionsOf(Append(W, m)) = Append(SessionsOf(W), m.session)
<1>1. ASSUME NEW Y \in Seq(Message)
      PROVE  /\ SessionsOf(Y) \in Seq(Nat) /\ Len(SessionsOf(Y)) = Len(Y)
             /\ \A i \in 1..Len(Y) : SessionsOf(Y)[i] = Y[i].session
  <2>1. \A i \in 1..Len(Y) : Y[i] \in Message
    OBVIOUS
  <2>2. \A i \in 1..Len(Y) : Y[i].session \in Nat
    BY <2>1, MessageFields
  <2>3. Len(Y) \in Nat /\ DOMAIN Y = 1..Len(Y)
    OBVIOUS
  <2>4. SessionsOf(Y) \in [1..Len(Y) -> Nat]
    BY <2>2, <2>3 DEF SessionsOf
  <2>5. SessionsOf(Y) \in Seq(Nat)
    BY <2>3, <2>4, SeqDef
  <2> QED  BY <2>3, <2>4, <2>5 DEF SessionsOf
<1> DEFINE Y == Append(W, m)
           S == SessionsOf(Y)
           T == Append(SessionsOf(W), m.session)
<1>2. /\ Y \in Seq(Message) /\ Len(Y) = Len(W) + 1 /\ Len(W) \in Nat
      /\ m.session \in Nat
  BY MessageFields
<1>3. /\ S \in Seq(Nat) /\ Len(S) = Len(W) + 1
      /\ \A i \in 1..Len(Y) : S[i] = Y[i].session
  BY <1>1, <1>2
<1>4. T \in Seq(Nat) /\ Len(T) = Len(W) + 1
  BY <1>1, <1>2, AppendProperties
<1>5. \A i \in 1..(Len(W) + 1) : S[i] = T[i]
  <2> SUFFICES ASSUME NEW i \in 1..(Len(W) + 1) PROVE S[i] = T[i]
    OBVIOUS
  <2>1. CASE i = Len(W) + 1
    <3>1. Y[i] = m /\ T[i] = m.session
      BY <2>1, <1>1, <1>2
    <3> QED  BY <3>1, <1>2, <1>3
  <2>2. CASE i \in 1..Len(W)
    <3>1. Y[i] = W[i] /\ T[i] = SessionsOf(W)[i]
      BY <2>2, <1>1, <1>2
    <3> QED  BY <2>2, <3>1, <1>1, <1>2, <1>3
  <2>3. i = Len(W) + 1 \/ i \in 1..Len(W)
    BY <1>2
  <2> QED  BY <2>1, <2>2, <2>3
<1> HIDE DEF S, T
<1>6. S = T
  BY <1>3, <1>4, <1>5, SeqEqual
<1> QED  BY <1>6 DEF S, T

\* Each end of DataKeys as SecureChannel sees it.
Opened == [p \in Peers |-> msgstate[p] = "ENCRYPTED"]
SentIn == [p \in Peers |-> SessionsOf(wire[p])]

\* Injecting m of p.
LEMMA InjectedIn ==
  ASSUME IInv, NEW p \in Peers, NEW m \in Message,
         wire' = [wire EXCEPT ![p] = Append(@, m)]
  PROVE  SentIn' = [SentIn EXCEPT ![p] = Append(@, m.session)]
<1>1. wire \in [Peers -> Seq(Message)]
  BY DEF IInv, TypeOK
<1>2. SentIn' = [q \in Peers |-> SessionsOf(wire'[q])]
  BY DEF SentIn, SessionsOf
<1> QED  BY <1>1, <1>2, SessionsOfAppended DEF SentIn

\* A message that stays as it was is one of the session it was sent in.
LEMMA SentInSession ==
  ASSUME NEW p \in Peers, NEW i \in DOMAIN wire[p]
  PROVE  i \in DOMAIN SentIn[p] /\ SentIn[p][i] = wire[p][i].session
BY DEF SentIn, SessionsOf

\* A created message is of its type and names the session it was made in.
LEMMA CreatedMessage ==
  ASSUME NEW c \in ContextPriv, KeysPresent(c), c.their_keyid # 0, InSync(c),
         NEW kind \in Kinds, NEW e \in Nat, NEW n \in Nat
  PROVE  /\ DataMessage(c, kind, e, n) \in Message
         /\ DataMessage(c, kind, e, n).session = e
<1> DEFINE s == c.sesskeys[1][0]
<1>1. Live(c, 0) /\ s.our = c.our_old_dh_key /\ s.their = c.their_y
  BY DEF KeysPresent, Live, TheirY, OurKey, InSync, DhKey
<1>2. /\ s.sendctr \in Nat /\ c.our_keyid \in Nat /\ c.their_keyid \in Nat
      /\ c.our_keyid # 0
      /\ c.saved_mac_keys \in SUBSET MacKey
  BY ContextFacts DEF KeysPresent, ContextPriv
<1>3. SendMacKey(s) \in MacKey /\ c.our_dh_key \in DhKey
  BY <1>1 DEF SendMacKey, MacKey, KeysPresent
<1> HIDE DEF s
<1>4. c.our_keyid - 1 \in Nat /\ s.sendctr + 1 \in Nat
  BY <1>2
<1> QED  BY <1>2, <1>3, <1>4 DEF DataMessage, Message, s

\* Initially nothing is open and nothing was sent.
LEMMA InitChannel == Init => Channel!Init
<1> SUFFICES ASSUME Init PROVE Channel!Init
  OBVIOUS
<1>1. [i \in DOMAIN << >> |-> << >>[i].session] = << >>
  OBVIOUS
<1> QED  BY <1>1, Zenon DEF Init, Channel!Init, Channel!Peers, Peers

\* What SecureChannel says of a step, in terms of Opened and SentIn.
LEMMA ChannelStep ==
  ASSUME NEW p \in Peers,
         \/ Opened' = Opened /\ SentIn' = SentIn
              /\ joined' = joined /\ session' = session /\ inbox' = inbox
         \/ /\ session'[p] \in Nat \ (joined[p] \cup {0})
            /\ session' = [session EXCEPT ![p] = session'[p]]
            /\ joined' = [joined EXCEPT ![p] = @ \cup {session'[p]}]
            /\ Opened' = [Opened EXCEPT ![p] = TRUE]
            /\ SentIn' \in {SentIn, [SentIn EXCEPT ![p] = Append(@, session'[p])]}
            /\ inbox' = inbox
         \/ /\ Opened' = [Opened EXCEPT ![p] = FALSE]
            /\ SentIn' = SentIn
            /\ joined' = joined /\ session' = session /\ inbox' = inbox
         \/ /\ Opened[p]
            /\ SentIn' = [SentIn EXCEPT ![p] = Append(@, session[p])]
            /\ Opened' \in {Opened, [Opened EXCEPT ![p] = FALSE]}
            /\ joined' = joined /\ session' = session /\ inbox' = inbox
         \/ \E i \in DOMAIN SentIn[Other(p)] :
              /\ Opened[p]
              /\ SentIn[Other(p)][i] = session[p]
              /\ \A n \in DOMAIN inbox[p] : inbox[p][n] # i
              /\ inbox' = [inbox EXCEPT ![p] = Append(@, i)]
              /\ Opened' \in {Opened, [Opened EXCEPT ![p] = FALSE]}
              /\ SentIn' \in {SentIn, [SentIn EXCEPT ![p] = Append(@, session[p])]}
              /\ joined' = joined /\ session' = session
  PROVE  [Channel!Next]_(Channel!vars)
BY ZenonT(40) DEF Opened, SentIn, SessionsOf, Channel!Next, Channel!vars, Channel!Join,
       Channel!Leave, Channel!Send, Channel!Deliver, Channel!Say, Channel!MayLeave,
       Channel!Peers, Channel!Other, Peers, Other

\* What becomes of Opened as the msgstate of p does.
LEMMA OpenedAs ==
  ASSUME IInv, NEW p \in Peers, NEW s,
         msgstate' = [msgstate EXCEPT ![p] = s]
  PROVE  /\ s = "ENCRYPTED" => Opened' = [Opened EXCEPT ![p] = TRUE]
         /\ s # "ENCRYPTED" => Opened' = [Opened EXCEPT ![p] = FALSE]
BY DEF Opened, IInv, TypeOK

\* Every step of DataKeys is one of SecureChannel, or one that it does not see.
LEMMA Simulation ==
  ASSUME Inv, [Next]_vars
  PROVE  [Channel!Next]_(Channel!vars)
<1>1. IInv /\ NoReplay
  BY AcceptedIsDone DEF Inv
<1>2. msgstate \in [Peers -> MsgStates] /\ session \in [Peers -> Nat]
      /\ ake \in Seq([Peers -> DhKey])
  BY <1>1 DEF IInv, TypeOK
<1>3. ASSUME msgstate' = msgstate PROVE Opened' = Opened
  BY <1>3 DEF Opened
<1>4. ASSUME wire' = wire PROVE SentIn' = SentIn
  BY <1>4 DEF SentIn, SessionsOf
<1>5. ASSUME msgstate' = msgstate, wire' = wire, joined' = joined,
             session' = session, inbox' = inbox
      PROVE  [Channel!Next]_(Channel!vars)
  <2>1. A \in Peers
    BY DEF Peers
  <2> QED  BY <2>1, <1>3, <1>4, <1>5, ChannelStep
<1>6. CASE Agree
  BY <1>5, <1>6 DEF Agree
<1>7. ASSUME NEW p \in Peers, NEW e \in DOMAIN ake, NEW resend \in BOOLEAN,
             GoEncrypted(p, e, resend)
      PROVE  [Channel!Next]_(Channel!vars)
  <2> DEFINE b == Install(context_priv[p], ake[e][p], ake[e][Other(p)],
                          generated[p] + 1)
             m == DataMessage(b, "text", e, Len(inbox[p]))
  <2>1. /\ e \notin joined[p] /\ ake' = ake /\ inbox' = inbox
        /\ msgstate' = [msgstate EXCEPT ![p] = "ENCRYPTED"]
        /\ joined' = [joined EXCEPT ![p] = joined[p] \cup {e}]
        /\ session' = [session EXCEPT ![p] = e]
        /\ \/ wire' = wire
           \/ wire' = [wire EXCEPT ![p] = Append(@, m)]
    BY <1>7 DEF GoEncrypted
  <2>2. joined'[p] = joined[p] \cup {e} /\ session'[p] = e /\ e \in Nat \ {0}
    BY <1>1, <1>2, <2>1 DEF IInv, TypeOK
  <2>3. Opened' = [Opened EXCEPT ![p] = TRUE]
    BY <1>1, <2>1, OpenedAs
  <2>4. b \in ContextPriv /\ KeysPresent(b) /\ b.their_keyid # 0 /\ InSync(b)
    BY <1>1, <2>1, <2>2, Installing DEF KeyInv
  <2>5. "text" \in Kinds /\ Len(inbox[p]) \in Nat
    BY <1>1, PeerFacts DEF Kinds
  <2> HIDE DEF b
  <2>6. m \in Message /\ m.session = e
    BY <2>2, <2>4, <2>5, CreatedMessage
  <2> HIDE DEF m
  <2>7. SentIn' \in {SentIn, [SentIn EXCEPT ![p] = Append(@, session'[p])]}
    BY <1>1, <1>4, <2>1, <2>2, <2>6, InjectedIn
  <2> QED  BY <2>1, <2>2, <2>3, <2>7, ChannelStep
<1>8. ASSUME NEW p \in Peers, RekeyOnKey(p)
      PROVE  [Channel!Next]_(Channel!vars)
  <2>1. Opened' = [Opened EXCEPT ![p] = FALSE]
    <3> DEFINE s == "PLAINTEXT"
    <3>1. msgstate' = [msgstate EXCEPT ![p] = s] /\ s # "ENCRYPTED"
      BY <1>8 DEF RekeyOnKey
    <3> HIDE DEF s
    <3> QED  BY <3>1, <1>1, OpenedAs
  <2> QED  BY <1>4, <1>8, <2>1, ChannelStep DEF RekeyOnKey
<1>9. ASSUME NEW p \in Peers, NEW kind \in Kinds, CanCreateData(p),
             wire' = [wire EXCEPT ![p] = Append(@,
               DataMessage(context_priv[p], kind, session[p], Len(inbox[p])))]
      PROVE  Opened[p] /\ SentIn' = [SentIn EXCEPT ![p] = Append(@, session[p])]
  <2> DEFINE m == DataMessage(context_priv[p], kind, session[p], Len(inbox[p]))
  <2>1. /\ context_priv[p] \in ContextPriv /\ KeysPresent(context_priv[p])
        /\ InSync(context_priv[p]) /\ session[p] \in Nat /\ Len(inbox[p]) \in Nat
    BY <1>1, EndParts, PeerFacts
  <2>2. m \in Message /\ m.session = session[p]
    BY <1>9, <2>1, CreatedMessage DEF CanCreateData
  <2> HIDE DEF m
  <2> QED  BY <1>1, <1>9, <2>2, InjectedIn DEF m, CanCreateData, Opened
<1>10. ASSUME NEW p \in Peers, NEW kind \in Kinds, Send(p, kind)
       PROVE  [Channel!Next]_(Channel!vars)
  <2>1. Opened[p] /\ SentIn' = [SentIn EXCEPT ![p] = Append(@, session[p])]
    BY <1>9, <1>10 DEF Send
  <2> QED  BY <1>3, <1>10, <2>1, ChannelStep DEF Send
<1>11. ASSUME NEW p \in Peers, Disconnect(p)
       PROVE  [Channel!Next]_(Channel!vars)
  <2>1. Opened' = [Opened EXCEPT ![p] = FALSE]
    <3> DEFINE s == "PLAINTEXT"
    <3>1. msgstate' = [msgstate EXCEPT ![p] = s] /\ s # "ENCRYPTED"
      BY <1>11 DEF Disconnect
    <3> HIDE DEF s
    <3> QED  BY <3>1, <1>1, OpenedAs
  <2>2. joined' = joined /\ session' = session /\ inbox' = inbox
    BY <1>11 DEF Disconnect
  <2>3. CASE wire' = wire
    BY <1>4, <2>1, <2>2, <2>3, ChannelStep
  <2>4. CASE wire' # wire
    <3>1. "disconnected" \in Kinds
      BY DEF Kinds
    <3>2. Opened[p] /\ SentIn' = [SentIn EXCEPT ![p] = Append(@, session[p])]
      BY <1>9, <1>11, <2>4, <3>1 DEF Disconnect
    <3> QED  BY <2>1, <2>2, <3>2, ChannelStep
  <2> QED  BY <2>3, <2>4
<1>12. ASSUME NEW p \in Peers, NEW i \in DOMAIN wire[Other(p)], Refuse(p, i)
       PROVE  [Channel!Next]_(Channel!vars)
  BY <1>5, <1>12 DEF Refuse
<1>13. ASSUME NEW p \in Peers, NEW i \in DOMAIN wire[Other(p)],
              NEW answer \in BOOLEAN, Accept(p, i, answer)
       PROVE  [Channel!Next]_(Channel!vars)
  <2> DEFINE q == Other(p)
             m == wire[q][i]
             c == context_priv[p]
             a == AfterAccept(c, m, generated[p] + 1)
             kind == AnswerTo[m.kind]
             made == DataMessage(a, kind, session[p], Len(inbox[p]) + 1)
  <2>1. /\ msgstate[p] = "ENCRYPTED" /\ Readable(c, m)
        /\ joined' = joined /\ session' = session
        /\ inbox' = [inbox EXCEPT ![p] = Append(@, i)]
        /\ msgstate' = [msgstate EXCEPT ![p] =
                          IF m.kind = "disconnected" THEN "FINISHED" ELSE @]
        /\ answer => kind \in Kinds
        /\ IF answer THEN wire' = [wire EXCEPT ![p] = Append(@, made)]
                     ELSE wire' = wire
    <3>1. answer => m.kind \in DOMAIN AnswerTo
      BY <1>13 DEF Accept
    <3>2. answer => kind \in Kinds
      BY <3>1 DEF AnswerTo, Kinds
    <3> HIDE DEF kind
    <3>3. IF answer THEN wire' = [wire EXCEPT ![p] = Append(@, made)]
                    ELSE wire' = wire
      BY <1>13 DEF Accept, kind
    <3> QED  BY <1>13, <3>2, <3>3 DEF Accept
  <2>2. m.session = session[p]
    BY <2>1, ReadableInSession DEF Inv
  <2>3. q \in Peers /\ i \in DOMAIN SentIn[q] /\ SentIn[q][i] = session[p]
    BY <2>2, Ends, SentInSession
  <2>4. \A n \in DOMAIN inbox[p] : inbox[p][n] # i
    BY <1>1, <2>1 DEF NoReplay, Accepted
  <2>5. Opened[p] /\ Opened' \in {Opened, [Opened EXCEPT ![p] = FALSE]}
    <3>1. CASE m.kind = "disconnected"
      <4>1. msgstate' = [msgstate EXCEPT ![p] = "FINISHED"]
        BY <2>1, <3>1
      <4> QED  BY <1>1, <2>1, <4>1, OpenedAs, ZenonT(30) DEF Opened
    <3>2. CASE m.kind # "disconnected"
      <4>1. msgstate' = msgstate
        BY <1>2, <2>1, <3>2
      <4> QED  BY <1>3, <2>1, <4>1 DEF Opened
    <3> QED  BY <3>1, <3>2
  <2>6. SentIn' \in {SentIn, [SentIn EXCEPT ![p] = Append(@, session[p])]}
    <3>1. CASE ~answer
      BY <1>4, <2>1, <3>1
    <3>2. CASE answer
      <4>1. /\ a \in ContextPriv /\ KeysPresent(a) /\ a.their_keyid # 0 /\ InSync(a)
        BY <1>1, <2>1, AcceptedContext
      <4>2. /\ session[p] \in Nat /\ Len(inbox[p]) + 1 \in Nat
        BY <1>1, PeerFacts
      <4> HIDE DEF a, kind
      <4>3. made \in Message /\ made.session = session[p]
        BY <2>1, <3>2, <4>1, <4>2, CreatedMessage
      <4> HIDE DEF made
      <4> QED  BY <1>1, <2>1, <3>2, <4>3, InjectedIn
    <3> QED  BY <3>1, <3>2
  <2> HIDE DEF m
  <2> QED  BY <2>1, <2>3, <2>4, <2>5, <2>6, ChannelStep
<1>14. CASE UNCHANGED vars
  BY <1>5, <1>14 DEF vars
<1> QED  BY <1>6, <1>7, <1>8, <1>10, <1>11, <1>12, <1>13, <1>14 DEF Next

\* The data phase implements the channel: a message is read at most once, and only in
\* the session it was sent in, whatever the network does to it.
THEOREM DataKeysImplementChannel == Spec => ImplementsChannel
<1>1. Spec => Channel!Init
  BY InitChannel DEF Spec
<1>2. Inv /\ [Next]_vars => [Channel!Next]_(Channel!vars)
  BY Simulation
<1>3. Spec => [][Channel!Next]_(Channel!vars)
  BY <1>2, SessionInvariance, PTL DEF Spec
<1> QED  BY <1>1, <1>3, PTL DEF ImplementsChannel, Channel!Spec
=============================================================================
