-------------------------- MODULE DataKeys_sessions --------------------------
(***************************************************************************)
(* Proofs about DataKeys that relate its two ends, on top of those of      *)
(* module DataKeys_proofs: the ends mean the same DH keys by the same      *)
(* keyids, messages that arrive in order are read, a round trip disposes   *)
(* of the old keys, and DataKeys implements SecureChannel.                 *)
(*                                                                         *)
(* Each DH key gets its name, a session and a keyid, as it is handed out   *)
(* by a key exchange or first announced in a message.  SessionInv relates  *)
(* the keys of an end to these names.  It mentions the other end's         *)
(* messages, never its context: so a step of one end can disturb only what *)
(* is known of that end, and each operation on a context has one lemma.    *)
(***************************************************************************)
EXTENDS DataKeys_proofs

-----------------------------------------------------------------------------
(* The inductive invariant.                                                *)

Name(e, k, i) == [session |-> e, key |-> k, keyid |-> i]

\* The names of the keys of an end: ak are those of its key exchanges, W its
\* messages.
Names(ak, W) ==
  {Name(e, ak[e], 1) : e \in DOMAIN ak} \cup
  {Name(W[n].session, W[n].next_y, W[n].sender_keyid + 1) : n \in DOMAIN W}

NamesUnique(ak, W) ==
  \A s, t \in Names(ak, W) :
    s.session = t.session /\ s.keyid = t.keyid => s.key = t.key

\* The keys of ours that context c holds are of session e, the latest of it, and
\* no other key takes their names.
OursNamed(c, e, ak, W) ==
  c.their_keyid # 0 =>
    /\ c.our_keyid > 1
    /\ Name(e, c.our_old_dh_key, c.our_keyid - 1) \in Names(ak, W)
    /\ \A t \in Names(ak, W) :
         /\ t.key = c.our_dh_key => t.session = e /\ t.keyid = c.our_keyid
         /\ t.key = c.our_old_dh_key => t.session = e /\ t.keyid = c.our_keyid - 1
         /\ t.session = e =>
              /\ t.keyid <= c.our_keyid
              /\ t.keyid = c.our_keyid => t.key = c.our_dh_key
              /\ t.keyid = c.our_keyid - 1 => t.key = c.our_old_dh_key

\* Their keys in c are named as their end has named them: bk are those of its key
\* exchanges, X its messages.
TheirsNamed(c, e, bk, X) ==
  c.their_keyid # 0 =>
    /\ Name(e, c.their_y, c.their_keyid) \in Names(bk, X)
    /\ c.their_old_y = NULL <=> c.their_keyid = 1
    /\ c.their_old_y # NULL =>
         Name(e, c.their_old_y, c.their_keyid - 1) \in Names(bk, X)

\* A message names both keys it was made with, and uses a key of its sender's only
\* after the other end has.
SentNamed(g, F, J, ak, bk, W, X) ==
  \A n \in DOMAIN W :
    LET m == W[n]
    IN  /\ m.session \in J
        /\ m.sender_keyid > 0 /\ m.recipient_keyid > 0 /\ m.ctr > 0
        /\ m.next_y \in (1..g) \ F
        /\ Name(m.session, m.mac_key[1], m.sender_keyid) \in Names(ak, W)
        /\ Name(m.session, m.mac_key[2], m.recipient_keyid) \in Names(bk, X)
        /\ \/ m.sender_keyid = 1
           \/ \E k \in DOMAIN X : /\ X[k].session = m.session
                                  /\ X[k].recipient_keyid = m.sender_keyid

\* Within a session keyids only grow, and under one key so do counters.
SentInOrder(W) ==
  \A i, j \in DOMAIN W :
    i < j =>
      /\ W[i].session = W[j].session =>
           /\ W[i].sender_keyid <= W[j].sender_keyid
           /\ W[i].recipient_keyid <= W[j].recipient_keyid
      /\ W[i].mac_key = W[j].mac_key => W[i].ctr < W[j].ctr

SentUpToNow(c, e, W) ==
  c.their_keyid # 0 =>
    \A n \in DOMAIN W : W[n].session = e => W[n].recipient_keyid <= c.their_keyid

\* The messages read in session e, I by number, and no others, moved the keyids
\* and the counters to where they are.
ReadSoFar(c, e, J, X, I) ==
  /\ \A n \in DOMAIN I : I[n] \in DOMAIN X /\ X[I[n]].session \in J
  /\ c.their_keyid # 0 =>
       /\ \A n \in DOMAIN I :
            X[I[n]].session = e => X[I[n]].sender_keyid < c.their_keyid
       /\ c.their_keyid = 1 \/ \E n \in DOMAIN I :
            X[I[n]].session = e /\ X[I[n]].sender_keyid + 1 = c.their_keyid
       /\ c.our_keyid = 2 \/ \E n \in DOMAIN I :
            X[I[n]].session = e /\ X[I[n]].recipient_keyid + 1 = c.our_keyid
  /\ \A i, j \in 0..1 :
       LET s == c.sesskeys[i][j]
       IN  s.rcvctr = 0 \/ \E n \in DOMAIN I :
             X[I[n]].mac_key = RcvMacKey(s) /\ X[I[n]].ctr = s.rcvctr

\* A message acknowledges what its sender had read of the session.
Acknowledged(W, X, I) ==
  \A j \in DOMAIN W :
    /\ W[j].after \in 0..Len(I)
    /\ \A n \in 1..W[j].after :
         X[I[n]].session = W[j].session =>
           X[I[n]].sender_keyid < W[j].recipient_keyid

\* One end: its context c in session e, g keys generated, F of them in exchanges not
\* finished, J the exchanges joined.
EndInv(c, g, F, e, J, ak, bk, W, X, I) ==
  /\ J \subseteq DOMAIN ak
  /\ c.their_keyid # 0 => e \in J
  /\ NamesUnique(ak, W)
  /\ OursNamed(c, e, ak, W)
  /\ TheirsNamed(c, e, bk, X)
  /\ SentNamed(g, F, J, ak, bk, W, X)
  /\ SentInOrder(W)
  /\ SentUpToNow(c, e, W)
  /\ ReadSoFar(c, e, J, X, I)
  /\ Acknowledged(W, X, I)

Exchanged(p) == [e \in DOMAIN ake |-> ake[e][p]]

SessionInv ==
  \A p \in Peers :
    EndInv(context_priv[p], generated[p], Pending(p), session[p], joined[p],
           Exchanged(p), Exchanged(Other(p)), wire[p], wire[Other(p)], inbox[p])
-----------------------------------------------------------------------------
(* Names.                                                                  *)

\* An end's variables have their types, and no two of its key exchanges the same key.
EndTyped(c, g, e, ak, bk, W, X, I) ==
  /\ c \in ContextPriv /\ KeysPresent(c)
  /\ g \in Nat /\ e \in Nat
  /\ DOMAIN ak \subseteq Nat /\ DOMAIN bk = DOMAIN ak
  /\ \A x \in DOMAIN ak : ak[x] \in 1..g /\ bk[x] \in DhKey
  /\ \A x, y \in DOMAIN ak : ak[x] = ak[y] => x = y
  /\ W \in Seq(Message) /\ X \in Seq(Message) /\ I \in Seq(Nat)

\* What a message consists of.
LEMMA MessageFields ==
  ASSUME NEW m \in Message
  PROVE  /\ m.sender_keyid \in Nat /\ m.recipient_keyid \in Nat /\ m.ctr \in Nat
         /\ m.next_y \in Nat /\ m.next_y # 0 /\ m.session \in Nat /\ m.after \in Nat
         /\ m.mac_key \in MacKey
         /\ m.mac_key[1] \in Nat /\ m.mac_key[2] \in Nat
  BY DEF Message, MacKey, DhKey, NULL

\* A name is made of its three parts.
LEMMA NameParts ==
  ASSUME NEW ak, NEW W, NEW t \in Names(ak, W)
  PROVE  /\ t = Name(t.session, t.key, t.keyid)
         /\ \/ /\ t.session \in DOMAIN ak
               /\ t.key = ak[t.session] /\ t.keyid = 1
            \/ \E n \in DOMAIN W : /\ t.session = W[n].session /\ t.key = W[n].next_y
                                   /\ t.keyid = W[n].sender_keyid + 1
  BY DEF Names, Name

\* The key of a key exchange, and the key a message announces, have names.
LEMMA Named ==
  ASSUME NEW ak, NEW W
  PROVE  /\ \A x \in DOMAIN ak : Name(x, ak[x], 1) \in Names(ak, W)
         /\ \A n \in DOMAIN W :
              Name(W[n].session, W[n].next_y, W[n].sender_keyid + 1) \in Names(ak, W)
  BY DEF Names

\* A name's parts are what they were made of.
LEMMA NameFields ==
  ASSUME NEW e, NEW k, NEW i
  PROVE  Name(e, k, i).session = e /\ Name(e, k, i).key = k /\ Name(e, k, i).keyid = i
  BY DEF Name

\* More key exchanges and more messages only add names.
LEMMA NamesGrow ==
  ASSUME NEW ak, NEW W, NEW ak2, NEW W2,
         DOMAIN ak \subseteq DOMAIN ak2, \A x \in DOMAIN ak : ak2[x] = ak[x],
         DOMAIN W \subseteq DOMAIN W2, \A n \in DOMAIN W : W2[n] = W[n]
  PROVE  Names(ak, W) \subseteq Names(ak2, W2)
  BY DEF Names

-----------------------------------------------------------------------------
(* The operations on one end.                                              *)

\* What becomes of an end when the other one has injected more messages.
LEMMA HearingKeeps ==
  ASSUME NEW c, NEW g, NEW F, NEW e, NEW J, NEW ak, NEW bk, NEW W, NEW X, NEW I,
         NEW Y, DOMAIN X \subseteq DOMAIN Y, \A n \in DOMAIN X : Y[n] = X[n],
         EndTyped(c, g, e, ak, bk, W, X, I),
         EndInv(c, g, F, e, J, ak, bk, W, X, I)
  PROVE  EndInv(c, g, F, e, J, ak, bk, W, Y, I)
<1>1. Names(bk, X) \subseteq Names(bk, Y)
  BY NamesGrow
<1>2. TheirsNamed(c, e, bk, Y)
  BY <1>1 DEF EndInv, TheirsNamed
<1>3. SentNamed(g, F, J, ak, bk, W, Y)
  <2> SUFFICES ASSUME NEW n \in DOMAIN W
               PROVE  /\ Name(W[n].session, W[n].mac_key[2], W[n].recipient_keyid)
                           \in Names(bk, Y)
                      /\ \/ W[n].sender_keyid = 1
                         \/ \E k \in DOMAIN Y :
                              /\ Y[k].session = W[n].session
                              /\ Y[k].recipient_keyid = W[n].sender_keyid
    BY DEF EndInv, SentNamed
  <2>1. /\ Name(W[n].session, W[n].mac_key[2], W[n].recipient_keyid)
             \in Names(bk, X)
        /\ \/ W[n].sender_keyid = 1
           \/ \E k \in DOMAIN X : /\ X[k].session = W[n].session
                                  /\ X[k].recipient_keyid = W[n].sender_keyid
    BY DEF EndInv, SentNamed
  <2> QED  BY <2>1, <1>1
<1>4. \A n \in DOMAIN I : I[n] \in DOMAIN X /\ Y[I[n]] = X[I[n]]
  BY SMTT(20) DEF EndInv, ReadSoFar
<1>5. ReadSoFar(c, e, J, Y, I)
  BY <1>4 DEF EndInv, ReadSoFar
<1>6. Acknowledged(W, Y, I)
  <2> SUFFICES ASSUME NEW j \in DOMAIN W, NEW n \in 1..W[j].after,
                      Y[I[n]].session = W[j].session
               PROVE  Y[I[n]].sender_keyid < W[j].recipient_keyid
    BY DEF EndInv, Acknowledged
  <2>1. W[j].after \in 0..Len(I) /\ Len(I) \in Nat /\ DOMAIN I = 1..Len(I)
    BY DEF EndInv, Acknowledged, EndTyped
  <2>2. Y[I[n]] = X[I[n]]
    BY <2>1, <1>4
  <2> QED  BY <2>2 DEF EndInv, Acknowledged
<1> QED  BY <1>2, <1>3, <1>5, <1>6 DEF EndInv

\* What becomes of an end when a key exchange ends, s, with a key newer than all.
LEMMA AgreeingKeeps ==
  ASSUME NEW c, NEW g, NEW F, NEW e, NEW J, NEW ak, NEW bk, NEW W, NEW X, NEW I,
         NEW E, E \subseteq F \cup {g + 1}, NEW ak2, NEW bk2, NEW s,
         s \notin DOMAIN ak,
         DOMAIN ak2 = DOMAIN ak \cup {s}, \A x \in DOMAIN ak : ak2[x] = ak[x],
         DOMAIN bk2 = DOMAIN bk \cup {s}, \A x \in DOMAIN bk : bk2[x] = bk[x],
         ak2[s] = g + 1,
         EndTyped(c, g, e, ak, bk, W, X, I), KeysKnown(c, g, F),
         EndInv(c, g, F, e, J, ak, bk, W, X, I)
  PROVE  EndInv(c, g + 1, E, e, J, ak2, bk2, W, X, I)
<1>1. /\ Names(ak, W) \subseteq Names(ak2, W)
      /\ Names(bk, X) \subseteq Names(bk2, X)
  BY NamesGrow
<1>2. ASSUME NEW t \in Names(ak2, W)
      PROVE  \/ t \in Names(ak, W)
             \/ t.session = s /\ t.key = g + 1 /\ t.keyid = 1
  <2>1. CASE t.session \in DOMAIN ak /\ t.key = ak2[t.session] /\ t.keyid = 1
    BY <2>1, NameParts, Named
  <2>2. CASE t.session = s /\ t.key = ak2[s] /\ t.keyid = 1
    BY <2>2
  <2>3. ASSUME NEW n \in DOMAIN W, t.session = W[n].session, t.key = W[n].next_y,
               t.keyid = W[n].sender_keyid + 1
        PROVE  t \in Names(ak, W)
    BY <2>3, NameParts, Named
  <2> QED  BY <2>1, <2>2, <2>3, NameParts
<1>3. \A t \in Names(ak, W) : t.session # s
  BY NameParts DEF EndInv, SentNamed
<1>4. NamesUnique(ak2, W)
  BY <1>2, <1>3 DEF EndInv, NamesUnique
<1>5. OursNamed(c, e, ak2, W)
  <2>1. SUFFICES ASSUME c.their_keyid # 0
                 PROVE  OursNamed(c, e, ak2, W)
    BY DEF OursNamed
  <2>2. /\ c.our_dh_key \in 0..g /\ c.our_old_dh_key \in 0..g /\ e # s /\ g \in Nat
    BY <2>1 DEF EndInv, KeysKnown, Ours, EndTyped
  <2>3. \A t \in Names(ak2, W) \ Names(ak, W) :
          t.key # c.our_dh_key /\ t.key # c.our_old_dh_key /\ t.session # e
    BY <1>2, <2>2
  <2> QED  BY <2>1, <2>3, <1>1 DEF EndInv, OursNamed
<1>6. TheirsNamed(c, e, bk2, X)
  BY <1>1 DEF EndInv, TheirsNamed
<1>7. SentNamed(g + 1, E, J, ak2, bk2, W, X)
  <2>1. \A n \in DOMAIN W : W[n].next_y \in (1..(g + 1)) \ E
    BY DEF EndInv, SentNamed, EndTyped
  <2> QED  BY <2>1, <1>1 DEF EndInv, SentNamed
<1> QED  BY <1>4, <1>5, <1>6, <1>7 DEF EndInv

\* What go_encrypted does to each field.
LEMMA InstallFields ==
  ASSUME NEW c \in ContextPriv, NEW our, NEW their, NEW new
  PROVE  LET d == Install(c, our, their, new) IN
         /\ d.our_keyid = 2 /\ d.our_dh_key = new /\ d.our_old_dh_key = our
         /\ d.their_keyid = 1 /\ d.their_y = their /\ d.their_old_y = NULL
         /\ d.sesskeys[0][0] = DhSession(new, their)
         /\ d.sesskeys[1][0] = DhSession(our, their)
         /\ d.sesskeys[0][1] = c.sesskeys[0][1]
         /\ d.sesskeys[1][1] = c.sesskeys[1][1]
<1> DEFINE table == [i \in 0..1 |-> [j \in 0..1 |->
                       IF j = 1 THEN c.sesskeys[i][1]
                       ELSE DhSession(IF i = 0 THEN new ELSE our, their)]]
<1>1. /\ table[0][0] = DhSession(new, their) /\ table[1][0] = DhSession(our, their)
      /\ table[0][1] = c.sesskeys[0][1] /\ table[1][1] = c.sesskeys[1][1]
  OBVIOUS
<1> HIDE DEF table
<1>2. Install(c, our, their, new) =
        [c EXCEPT !.their_keyid = 1, !.their_y = their, !.their_old_y = NULL,
                  !.our_keyid = 2, !.our_dh_key = new,
                  !.our_old_dh_key = our, !.sesskeys = table]
  BY DEF Install, table
<1> QED  BY <1>1, <1>2 DEF ContextPriv

\* Going encrypted with key exchange x, which the end has not been in.
LEMMA InstallingKeeps ==
  ASSUME NEW c, NEW g, NEW F, NEW e, NEW J, NEW ak, NEW bk, NEW W, NEW X, NEW I,
         NEW x \in DOMAIN ak \ J, NEW E, E \subseteq F, ak[x] \in F,
         NEW d, d = Install(c, ak[x], bk[x], g + 1),
         EndTyped(c, g, e, ak, bk, W, X, I),
         EndInv(c, g, F, e, J, ak, bk, W, X, I)
  PROVE  EndInv(d, g + 1, E, x, J \cup {x}, ak, bk, W, X, I)
<1>1. /\ d.our_keyid = 2 /\ d.our_dh_key = g + 1 /\ d.our_old_dh_key = ak[x]
      /\ d.their_keyid = 1 /\ d.their_y = bk[x] /\ d.their_old_y = NULL
      /\ \A i \in 0..1 : d.sesskeys[i][0].rcvctr = 0
      /\ \A i \in 0..1 : d.sesskeys[i][1] = c.sesskeys[i][1]
  <2>1. c \in ContextPriv
    BY DEF EndTyped
  <2>2. /\ d.our_keyid = 2 /\ d.our_dh_key = g + 1 /\ d.our_old_dh_key = ak[x]
        /\ d.their_keyid = 1 /\ d.their_y = bk[x] /\ d.their_old_y = NULL
        /\ d.sesskeys[0][0] = DhSession(g + 1, bk[x])
        /\ d.sesskeys[1][0] = DhSession(ak[x], bk[x])
        /\ d.sesskeys[0][1] = c.sesskeys[0][1]
        /\ d.sesskeys[1][1] = c.sesskeys[1][1]
    BY <2>1, InstallFields
  <2> QED  BY <2>2 DEF DhSession
<1>2. /\ g \in Nat /\ \A y \in DOMAIN ak : ak[y] \in 1..g
      /\ \A y, z \in DOMAIN ak : ak[y] = ak[z] => y = z
      /\ DOMAIN bk = DOMAIN ak
  BY DEF EndTyped
<1>3. \A n \in DOMAIN W : /\ W[n].session \in J
                          /\ W[n].next_y \in (1..g) \ F
  BY DEF EndInv, SentNamed
<1>4. OursNamed(d, x, ak, W)
  <2>1. ASSUME NEW t \in Names(ak, W)
        PROVE  /\ t.key # g + 1
               /\ t.key = ak[x] => t.session = x /\ t.keyid = 1
               /\ t.session = x => t.keyid = 1 /\ t.key = ak[x]
    BY <1>2, <1>3, NameParts
  <2> QED  BY <2>1, <1>1, Named DEF OursNamed
<1>5. TheirsNamed(d, x, bk, X)
  BY <1>1, <1>2, Named DEF TheirsNamed
<1>6. SentNamed(g + 1, E, J \cup {x}, ak, bk, W, X)
  <2>1. \A n \in DOMAIN W : W[n].next_y \in (1..(g + 1)) \ E
    BY <1>2, <1>3
  <2> QED  BY <2>1 DEF EndInv, SentNamed
<1>7. SentUpToNow(d, x, W)
  BY <1>3, SMTT(20) DEF SentUpToNow
<1>8. ReadSoFar(d, x, J \cup {x}, X, I)
  <2>1. \A n \in DOMAIN I : I[n] \in DOMAIN X /\ X[I[n]].session \in J
    BY SMTT(20) DEF EndInv, ReadSoFar
  <2>2. ASSUME NEW i \in 0..1, NEW j \in 0..1, d.sesskeys[i][j].rcvctr # 0
        PROVE  \E n \in DOMAIN I :
                 /\ X[I[n]].mac_key = RcvMacKey(d.sesskeys[i][j])
                 /\ X[I[n]].ctr = d.sesskeys[i][j].rcvctr
    <3>1. j = 1 /\ d.sesskeys[i][j] = c.sesskeys[i][j]
      BY <2>2, <1>1
    <3> QED  BY <2>2, <3>1 DEF EndInv, ReadSoFar
  <2> QED  BY <2>1, <2>2, <1>1 DEF ReadSoFar
<1>9. J \cup {x} \subseteq DOMAIN ak
  BY DEF EndInv
<1> QED  BY <1>4, <1>5, <1>6, <1>7, <1>8, <1>9 DEF EndInv

\* d holds the keys and keyids of c, and its receiving counters.
SameReading(c, d) ==
  /\ d.our_keyid = c.our_keyid /\ d.their_keyid = c.their_keyid
  /\ d.our_dh_key = c.our_dh_key /\ d.our_old_dh_key = c.our_old_dh_key
  /\ d.their_y = c.their_y /\ d.their_old_y = c.their_old_y
  /\ \A i, j \in 0..1 :
       /\ d.sesskeys[i][j].our = c.sesskeys[i][j].our
       /\ d.sesskeys[i][j].their = c.sesskeys[i][j].their
       /\ d.sesskeys[i][j].rcvctr = c.sesskeys[i][j].rcvctr

\* Sending counters, marks and MAC keys to be revealed do not matter here.
LEMMA SameReadingKeeps ==
  ASSUME NEW c, NEW g, NEW F, NEW e, NEW J, NEW ak, NEW bk, NEW W, NEW X, NEW I,
         NEW d, SameReading(c, d),
         EndInv(c, g, F, e, J, ak, bk, W, X, I)
  PROVE  EndInv(d, g, F, e, J, ak, bk, W, X, I)
<1>1. OursNamed(d, e, ak, W)
  BY DEF SameReading, EndInv, OursNamed
<1>2. TheirsNamed(d, e, bk, X) /\ SentUpToNow(d, e, W)
  BY SMTT(20) DEF SameReading, EndInv, TheirsNamed, SentUpToNow
<1>3. ReadSoFar(d, e, J, X, I)
  <2>1. ASSUME NEW i \in 0..1, NEW j \in 0..1, d.sesskeys[i][j].rcvctr # 0
        PROVE  \E n \in DOMAIN I :
                 /\ X[I[n]].mac_key = RcvMacKey(d.sesskeys[i][j])
                 /\ X[I[n]].ctr = d.sesskeys[i][j].rcvctr
    <3>1. /\ RcvMacKey(d.sesskeys[i][j]) = RcvMacKey(c.sesskeys[i][j])
          /\ d.sesskeys[i][j].rcvctr = c.sesskeys[i][j].rcvctr
      BY DEF SameReading, RcvMacKey
    <3>2. \E n \in DOMAIN I : /\ X[I[n]].mac_key = RcvMacKey(c.sesskeys[i][j])
                              /\ X[I[n]].ctr = c.sesskeys[i][j].rcvctr
      BY <2>1, <3>1 DEF EndInv, ReadSoFar
    <3> QED  BY <3>1, <3>2
  <2>2. d.their_keyid = c.their_keyid /\ d.our_keyid = c.our_keyid
    BY DEF SameReading
  <2> QED  BY <2>1, <2>2 DEF EndInv, ReadSoFar
<1>4. d.their_keyid = c.their_keyid
  BY DEF SameReading
<1> QED  BY <1>1, <1>2, <1>3, <1>4 DEF EndInv

\* A context without keys.
LEMMA BlankKeeps ==
  ASSUME NEW c, NEW g, NEW F, NEW e, NEW J, NEW ak, NEW bk, NEW W, NEW X, NEW I,
         EndInv(c, g, F, e, J, ak, bk, W, X, I)
  PROVE  EndInv(BlankPriv, g, F, e, J, ak, bk, W, X, I)
<1>1. /\ BlankPriv.their_keyid = 0
      /\ \A i, j \in 0..1 : BlankPriv.sesskeys[i][j].rcvctr = 0
  BY SMTT(20) DEF BlankPriv, Blank
<1>2. ReadSoFar(BlankPriv, e, J, X, I)
  BY <1>1 DEF EndInv, ReadSoFar
<1> QED  BY <1>1, <1>2 DEF EndInv, OursNamed, TheirsNamed, SentUpToNow

\* Creating a message advances a sending counter only.
LEMMA CreateSameReading ==
  ASSUME NEW c \in ContextPriv, KeysPresent(c), c.their_keyid # 0, InSync(c)
  PROVE  SameReading(c, AfterCreate(c))
<1> DEFINE s == c.sesskeys[1][0]
           t == [s EXCEPT !.sendctr = s.sendctr + 1]
           b == WithSlot(c, 1, 0, t)
           d == AfterCreate(c)
<1>1. Live(c, 0) /\ s.our # NULL /\ s \in SessKeys
  BY ContextFacts DEF KeysPresent, Live, TheirY, OurKey, InSync, DhKey
<1>2. s \in [our : DhKey, their : DhKey, sendctr : Nat, rcvctr : Nat,
             rcvmacused : BOOLEAN]
  BY <1>1 DEF SessKeys, Blank
<1> HIDE DEF s
<1>3. /\ t \in SessKeys /\ t.our = s.our /\ t.their = s.their /\ t.rcvctr = s.rcvctr
  BY <1>2 DEF SessKeys
<1> HIDE DEF t
<1>4. b \in ContextPriv /\ SlotReplaced(c, b, 1, 0, t)
  BY <1>3, WithSlotFields
<1> HIDE DEF b
<1>5. d = [b EXCEPT !.saved_mac_keys = {}]
  BY DEF AfterCreate, b, WithSlot, t, s
<1>6. /\ d.our_keyid = c.our_keyid /\ d.their_keyid = c.their_keyid
      /\ d.our_dh_key = c.our_dh_key /\ d.our_old_dh_key = c.our_old_dh_key
      /\ d.their_y = c.their_y /\ d.their_old_y = c.their_old_y
      /\ d.sesskeys[1][0] = t
      /\ \A k, l \in 0..1 : k # 1 \/ l # 0 => d.sesskeys[k][l] = c.sesskeys[k][l]
  BY <1>4, <1>5 DEF ContextPriv, SlotReplaced
<1> HIDE DEF d
<1>7. ASSUME NEW k \in 0..1, NEW l \in 0..1
      PROVE  /\ d.sesskeys[k][l].our = c.sesskeys[k][l].our
             /\ d.sesskeys[k][l].their = c.sesskeys[k][l].their
             /\ d.sesskeys[k][l].rcvctr = c.sesskeys[k][l].rcvctr
  <2>1. CASE k = 1 /\ l = 0
    BY <2>1, <1>3, <1>6 DEF s
  <2>2. CASE k # 1 \/ l # 0
    BY <2>2, <1>6
  <2> QED  BY <2>1, <2>2
<1>8. SameReading(c, d)
  BY <1>6, <1>7 DEF SameReading
<1> QED  BY <1>8 DEF d

\* Marking a MAC key as used changes nothing else.
LEMMA MarkSameReading ==
  ASSUME NEW c \in ContextPriv, NEW m \in Message, KeysPresent(c), MacVerifies(c, m)
  PROVE  SameReading(c, MarkMacUsed(c, m))
<1> DEFINE i == SlotRow(c, m)
           j == SlotCol(c, m)
           used == [c.sesskeys[i][j] EXCEPT !.rcvmacused = TRUE]
           d == WithSlot(c, i, j, used)
<1>1. /\ i \in 0..1 /\ j \in 0..1 /\ used \in SessKeys
      /\ used.our = c.sesskeys[i][j].our /\ used.their = c.sesskeys[i][j].their
      /\ used.rcvctr = c.sesskeys[i][j].rcvctr
      /\ MarkMacUsed(c, m) = d
  BY SlotOfMessage
<1> HIDE DEF i, j, used
<1>2. SlotReplaced(c, d, i, j, used)
  BY <1>1, WithSlotFields
<1> HIDE DEF d
<1>3. SameReading(c, d)
  BY <1>1, <1>2, SMTT(20) DEF SlotReplaced, SameReading
<1> QED  BY <1>1, <1>3, SMTT(20)

\* Y is W with m at its end.
Appended(W, m, Y) ==
  /\ Len(W) \in Nat /\ Len(W) + 1 \notin DOMAIN W
  /\ Len(Y) = Len(W) + 1
  /\ DOMAIN Y = DOMAIN W \cup {Len(W) + 1}
  /\ \A n \in DOMAIN W : Y[n] = W[n] /\ n \in Nat /\ n <= Len(W)
  /\ Y[Len(W) + 1] = m

\* Creating the message m in the session the context is in, all of I read.
LEMMA CreatingKeeps ==
  ASSUME NEW c, NEW g, NEW F, NEW e, NEW J, NEW ak, NEW bk, NEW W, NEW X, NEW I,
         NEW kind, NEW m \in Message, m = DataMessage(c, kind, e, Len(I)),
         NEW Y, Appended(W, m, Y), NEW S, \A n \in DOMAIN W : W[n] \in S,
         c.their_keyid # 0, Ordered(c), InSync(c), KeysKnown(c, g, F),
         SentBelow(c, g, F, S),
         EndTyped(c, g, e, ak, bk, W, X, I),
         EndInv(c, g, F, e, J, ak, bk, W, X, I)
  PROVE  EndInv(AfterCreate(c), g, F, e, J, ak, bk, Y, X, I)
<1>1. /\ c \in ContextPriv /\ KeysPresent(c) /\ e \in J /\ g \in Nat
      /\ W \in Seq(Message) /\ I \in Seq(Nat)
  BY DEF EndTyped, EndInv
<1>2. /\ c.our_keyid \in Nat /\ c.our_keyid > 1 /\ c.their_keyid \in Nat
      /\ c.our_old_dh_key < c.our_dh_key /\ c.our_dh_key \in Nat
      /\ c.our_old_dh_key \in Nat
      /\ c.sesskeys[1][0].our = c.our_old_dh_key
      /\ c.sesskeys[1][0].their = c.their_y
      /\ c.sesskeys[1][0].sendctr \in Nat /\ Live(c, 0)
  BY <1>1, ContextFacts
  DEF Ordered, InSync, Live, TheirY, OurKey, KeysPresent, DhKey, EndInv, OursNamed
<1>3. /\ m.sender_keyid = c.our_keyid - 1 /\ m.recipient_keyid = c.their_keyid
      /\ m.next_y = c.our_dh_key /\ m.ctr = c.sesskeys[1][0].sendctr + 1
      /\ m.mac_key = SendMacKey(c.sesskeys[1][0])
      /\ m.mac_key[1] = c.our_old_dh_key /\ m.mac_key[2] = c.their_y
      /\ m.session = e /\ m.after = Len(I)
  BY <1>2 DEF DataMessage, SendMacKey
<1>4. /\ DOMAIN Y = DOMAIN W \cup {Len(W) + 1}
      /\ \A n \in DOMAIN W : Y[n] = W[n] /\ n \in Nat /\ n <= Len(W) /\ Y[n] \in Message
      /\ Y[Len(W) + 1] = m
      /\ Len(W) \in Nat
  BY <1>1 DEF Appended
<1>5. Names(ak, W) \subseteq Names(ak, Y)
  BY <1>4, NamesGrow
<1>6. ASSUME NEW t \in Names(ak, Y)
      PROVE  \/ t \in Names(ak, W)
             \/ t.session = e /\ t.key = c.our_dh_key /\ t.keyid = c.our_keyid
  <2>1. CASE t.session \in DOMAIN ak /\ t.key = ak[t.session] /\ t.keyid = 1
    BY <2>1, NameParts, Named
  <2>2. ASSUME NEW n \in DOMAIN W, t.session = Y[n].session, t.key = Y[n].next_y,
               t.keyid = Y[n].sender_keyid + 1
        PROVE  t \in Names(ak, W)
    BY <2>2, <1>4, NameParts, Named
  <2>3. t.session = m.session /\ t.key = m.next_y /\ t.keyid = m.sender_keyid + 1
          => t.session = e /\ t.key = c.our_dh_key /\ t.keyid = c.our_keyid
    BY <1>2, <1>3
  <2>4. \/ t.session \in DOMAIN ak /\ t.key = ak[t.session] /\ t.keyid = 1
        \/ \E n \in DOMAIN Y : /\ t.session = Y[n].session /\ t.key = Y[n].next_y
                               /\ t.keyid = Y[n].sender_keyid + 1
    BY NameParts
  <2>5. ASSUME NEW n \in DOMAIN Y, t.session = Y[n].session, t.key = Y[n].next_y,
               t.keyid = Y[n].sender_keyid + 1
        PROVE  \/ t \in Names(ak, W)
               \/ t.session = e /\ t.key = c.our_dh_key /\ t.keyid = c.our_keyid
    <3>1. CASE n \in DOMAIN W
      BY <3>1, <2>2, <2>5
    <3>2. CASE n = Len(W) + 1
      BY <3>2, <2>3, <2>5, <1>4
    <3> QED  BY <3>1, <3>2, <1>4
  <2> QED  BY <2>1, <2>4, <2>5
<1>7. OursNamed(c, e, ak, W) /\ NamesUnique(ak, W)
  BY DEF EndInv
<1>8. NamesUnique(ak, Y)
  <2> SUFFICES ASSUME NEW s \in Names(ak, Y), NEW t \in Names(ak, Y),
                      s.session = t.session, s.keyid = t.keyid
               PROVE  s.key = t.key
    BY DEF NamesUnique
  <2>1. \A u \in Names(ak, W) : u.session = e /\ u.keyid = c.our_keyid
                                  => u.key = c.our_dh_key
    BY <1>7 DEF OursNamed
  <2> QED  BY <2>1, <1>6, <1>7 DEF NamesUnique
<1>9. OursNamed(c, e, ak, Y)
  BY <1>2, <1>5, <1>6, <1>7 DEF OursNamed
<1>10. SentNamed(g, F, J, ak, bk, Y, X)
  <2> SUFFICES ASSUME NEW n \in DOMAIN Y
               PROVE
        LET k == Y[n]
        IN  /\ k.session \in J
            /\ k.sender_keyid > 0 /\ k.recipient_keyid > 0 /\ k.ctr > 0
            /\ k.next_y \in (1..g) \ F
            /\ Name(k.session, k.mac_key[1], k.sender_keyid) \in Names(ak, Y)
            /\ Name(k.session, k.mac_key[2], k.recipient_keyid) \in Names(bk, X)
            /\ \/ k.sender_keyid = 1
               \/ \E x \in DOMAIN X : /\ X[x].session = k.session
                                      /\ X[x].recipient_keyid = k.sender_keyid
    BY DEF SentNamed
  <2>1. CASE n \in DOMAIN W
    <3>1. SentNamed(g, F, J, ak, bk, W, X)
      BY DEF EndInv
    <3> QED  BY <2>1, <3>1, <1>4, <1>5 DEF SentNamed
  <2>2. CASE n = Len(W) + 1
    <3>1. Y[n] = m
      BY <2>2, <1>4
    <3>2. m.next_y \in (1..g) \ F
      BY <1>1, <1>2, <1>3, SMTT(20) DEF KeysKnown, Ours, KeysPresent, DhKey, NULL
    <3>3. Name(m.session, m.mac_key[1], m.sender_keyid) \in Names(ak, Y)
      BY <1>3, <1>5, <1>7 DEF OursNamed
    <3>4. Name(m.session, m.mac_key[2], m.recipient_keyid) \in Names(bk, X)
      BY <1>3 DEF EndInv, TheirsNamed
    <3>5. \/ m.sender_keyid = 1
          \/ \E x \in DOMAIN X : /\ X[x].session = m.session
                                 /\ X[x].recipient_keyid = m.sender_keyid
      <4>1. ReadSoFar(c, e, J, X, I)
        BY DEF EndInv
      <4>2. CASE c.our_keyid = 2
        BY <4>2, <1>3
      <4>3. ASSUME NEW x \in DOMAIN I, X[I[x]].session = e,
                   X[I[x]].recipient_keyid + 1 = c.our_keyid
            PROVE  /\ X[I[x]].session = m.session
                   /\ X[I[x]].recipient_keyid = m.sender_keyid
        <5>1. X[I[x]] \in Message
          BY <4>1 DEF ReadSoFar, EndTyped
        <5> QED  BY <4>3, <5>1, <1>2, <1>3, MessageFields, SMTT(20)
      <4> QED  BY <4>1, <4>2, <4>3 DEF ReadSoFar
    <3>6. m.session \in J /\ m.sender_keyid > 0 /\ m.recipient_keyid > 0 /\ m.ctr > 0
      <4>1. m.sender_keyid > 0
        BY <1>2, <1>3
      <4>2. m.recipient_keyid > 0
        BY <1>2, <1>3
      <4>3. m.ctr > 0
        BY <1>2, <1>3, SMTT(20)
      <4> QED  BY <4>1, <4>2, <4>3, <1>1, <1>3
    <3> QED  BY <3>1, <3>2, <3>3, <3>4, <3>5, <3>6
  <2> QED  BY <2>1, <2>2, <1>4
<1>11. SentInOrder(Y)
  <2> SUFFICES ASSUME NEW i \in DOMAIN Y, NEW j \in DOMAIN Y, i < j
               PROVE  /\ Y[i].session = Y[j].session =>
                           /\ Y[i].sender_keyid <= Y[j].sender_keyid
                           /\ Y[i].recipient_keyid <= Y[j].recipient_keyid
                      /\ Y[i].mac_key = Y[j].mac_key => Y[i].ctr < Y[j].ctr
    BY DEF SentInOrder
  <2>1. CASE j \in DOMAIN W
    <3>1. SentInOrder(W) /\ i \in DOMAIN W
      BY <2>1, <1>4 DEF EndInv
    <3> QED  BY <2>1, <3>1, <1>4 DEF SentInOrder
  <2>2. CASE j = Len(W) + 1
    <3>1. i \in DOMAIN W /\ Y[i] = W[i] /\ Y[j] = m /\ Y[i] \in Message /\ Y[i] \in S
      BY <2>2, <1>4
    <3>2. /\ Y[i].sender_keyid \in Nat /\ Y[i].recipient_keyid \in Nat
          /\ Y[i].ctr \in Nat
      BY <3>1, MessageFields
    <3>3. ASSUME Y[i].session = e
          PROVE  Y[i].sender_keyid + 1 <= c.our_keyid
      <4> DEFINE t == Name(Y[i].session, Y[i].next_y, Y[i].sender_keyid + 1)
      <4>1. t \in Names(ak, W)
        BY <3>1, Named
      <4>2. t.session = e /\ t.keyid = Y[i].sender_keyid + 1
        BY <3>3, NameFields
      <4> HIDE DEF t
      <4> QED  BY <4>1, <4>2, <1>7 DEF OursNamed
    <3>4. Y[i].session = e => Y[i].recipient_keyid <= c.their_keyid
      BY <3>1 DEF EndInv, SentUpToNow
    <3>5. Y[i].mac_key = m.mac_key => Y[i].ctr <= c.sesskeys[1][0].sendctr
      BY <3>1, <1>2, <1>3 DEF SentBelow
    <3>6. Y[i].session = m.session => /\ Y[i].sender_keyid <= m.sender_keyid
                                      /\ Y[i].recipient_keyid <= m.recipient_keyid
      BY <3>2, <3>3, <3>4, <1>2, <1>3
    <3>7. Y[i].mac_key = m.mac_key => Y[i].ctr < m.ctr
      BY <3>2, <3>5, <1>2, <1>3, SMTT(20)
    <3> QED  BY <3>1, <3>6, <3>7
  <2> QED  BY <2>1, <2>2, <1>4
<1>12. SentUpToNow(c, e, Y)
  BY <1>2, <1>3, <1>4 DEF EndInv, SentUpToNow
<1>13. Acknowledged(Y, X, I)
  <2> SUFFICES ASSUME NEW j \in DOMAIN Y
               PROVE  /\ Y[j].after \in 0..Len(I)
                      /\ \A n \in 1..Y[j].after :
                           X[I[n]].session = Y[j].session =>
                             X[I[n]].sender_keyid < Y[j].recipient_keyid
    BY DEF Acknowledged
  <2>1. CASE j \in DOMAIN W
    BY <2>1, <1>4 DEF EndInv, Acknowledged
  <2>2. CASE j = Len(W) + 1
    <3>1. Y[j] = m /\ DOMAIN I = 1..Len(I) /\ Len(I) \in Nat
      BY <2>2, <1>1, <1>4
    <3>2. \A n \in DOMAIN I : X[I[n]].session = e => X[I[n]].sender_keyid < c.their_keyid
      BY DEF EndInv, ReadSoFar
    <3> QED  BY <3>1, <3>2, <1>3
  <2> QED  BY <2>1, <2>2, <1>4
<1>14. EndInv(c, g, F, e, J, ak, bk, Y, X, I)
  BY <1>8, <1>9, <1>10, <1>11, <1>12, <1>13 DEF EndInv
<1>15. SameReading(c, AfterCreate(c))
  BY <1>1, CreateSameReading
<1> QED  BY <1>14, <1>15, SameReadingKeeps

\* Reading m advances the receiving counter of one slot and changes no key.
LEMMA AfterReadFields ==
  ASSUME NEW c \in ContextPriv, NEW m \in Message, KeysPresent(c), Readable(c, m)
  PROVE  LET d == AfterRead(c, m)
             i == SlotRow(c, m)
             j == SlotCol(c, m)
         IN  /\ i \in 0..1 /\ j \in 0..1 /\ Live(c, j) /\ c.their_keyid # 0
             /\ d \in ContextPriv /\ KeysPresent(d)
             /\ d.our_keyid = c.our_keyid /\ d.their_keyid = c.their_keyid
             /\ d.our_dh_key = c.our_dh_key /\ d.our_old_dh_key = c.our_old_dh_key
             /\ d.their_y = c.their_y /\ d.their_old_y = c.their_old_y
             /\ RcvMacKey(c.sesskeys[i][j]) = m.mac_key
             /\ RcvMacKey(d.sesskeys[i][j]) = m.mac_key
             /\ d.sesskeys[i][j].rcvctr = m.ctr
             /\ \A k, l \in 0..1 :
                  k # i \/ l # j => d.sesskeys[k][l] = c.sesskeys[k][l]
<1> DEFINE i == SlotRow(c, m)
           j == SlotCol(c, m)
           s == c.sesskeys[i][j]
           used == [s EXCEPT !.rcvmacused = TRUE]
           read == [used EXCEPT !.rcvctr = m.ctr]
           d == WithSlot(c, i, j, read)
<1>1. /\ i \in 0..1 /\ j \in 0..1 /\ Live(c, j) /\ c.their_keyid # 0
      /\ RcvMacKey(s) = m.mac_key
      /\ used \in SessKeys /\ read \in SessKeys
      /\ read.our = s.our /\ read.their = s.their /\ read.rcvctr = m.ctr
      /\ MarkMacUsed(c, m) = WithSlot(c, i, j, used)
  BY SlotOfMessage DEF Readable
<1> HIDE DEF i, j, s, used
<1>2. /\ WithSlot(c, i, j, used) \in ContextPriv
      /\ SlotReplaced(c, WithSlot(c, i, j, used), i, j, used)
  BY <1>1, WithSlotFields
<1>3. AfterRead(c, m) = WithSlot(WithSlot(c, i, j, used), i, j, read)
  BY <1>1, <1>2 DEF AfterRead, WithSlot, SlotReplaced, i, j
<1> HIDE DEF read
<1>4. AfterRead(c, m) = d
  BY <1>1, <1>3, WithSlotTwice
<1>5. d \in ContextPriv /\ SlotReplaced(c, d, i, j, read)
  BY <1>1, WithSlotFields
<1> HIDE DEF d
<1>6. KeysPresent(d)
  BY <1>5 DEF KeysPresent, SlotReplaced
<1>7. RcvMacKey(d.sesskeys[i][j]) = m.mac_key /\ d.sesskeys[i][j].rcvctr = m.ctr
  BY <1>1, <1>5 DEF SlotReplaced, RcvMacKey
<1>8. /\ d.our_keyid = c.our_keyid /\ d.their_keyid = c.their_keyid
      /\ d.our_dh_key = c.our_dh_key /\ d.our_old_dh_key = c.our_old_dh_key
      /\ d.their_y = c.their_y /\ d.their_old_y = c.their_old_y
      /\ \A k, l \in 0..1 : k # i \/ l # j => d.sesskeys[k][l] = c.sesskeys[k][l]
  BY <1>5 DEF SlotReplaced
<1> QED  BY <1>1, <1>4, <1>5, <1>6, <1>7, <1>8, SMTT(20) DEF i, j, s

\* Each slot of d is new or has the key and the receiving counter of one of r's.
Inherits(d, r) ==
  \A k, l \in 0..1 :
    \/ d.sesskeys[k][l].rcvctr = 0
    \/ \E x, y \in 0..1 :
         /\ RcvMacKey(d.sesskeys[k][l]) = RcvMacKey(r.sesskeys[x][y])
         /\ d.sesskeys[k][l].rcvctr = r.sesskeys[x][y].rcvctr

\* What accepting m does to each field.
LEMMA AfterAcceptFields ==
  ASSUME NEW c \in ContextPriv, NEW m \in Message, NEW new \in DhKey,
         KeysPresent(c), Readable(c, m)
  PROVE  LET d == AfterAccept(c, m, new) IN
         /\ d.our_keyid = IF NeedsNewDhKey(c, m) THEN c.our_keyid + 1
                          ELSE c.our_keyid
         /\ d.our_dh_key = IF NeedsNewDhKey(c, m) THEN new ELSE c.our_dh_key
         /\ d.our_old_dh_key = IF NeedsNewDhKey(c, m) THEN c.our_dh_key
                               ELSE c.our_old_dh_key
         /\ d.their_keyid = IF NeedsNewY(c, m) THEN c.their_keyid + 1
                            ELSE c.their_keyid
         /\ d.their_y = IF NeedsNewY(c, m) THEN m.next_y ELSE c.their_y
         /\ d.their_old_y = IF NeedsNewY(c, m) THEN c.their_y ELSE c.their_old_y
         /\ Inherits(d, AfterRead(c, m))
<1> DEFINE r == AfterRead(c, m)
           dh == IF NeedsNewDhKey(c, m) THEN RotateDhKeys(r, new) ELSE r
           d == IF NeedsNewY(c, m) THEN RotateYKeys(dh, m.next_y) ELSE dh
<1>1. AfterAccept(c, m, new) = d
  BY DEF AfterAccept, AfterRead
<1>2. /\ r \in ContextPriv /\ KeysPresent(r) /\ r.their_keyid # 0
      /\ r.our_keyid = c.our_keyid /\ r.their_keyid = c.their_keyid
      /\ r.our_dh_key = c.our_dh_key /\ r.our_old_dh_key = c.our_old_dh_key
      /\ r.their_y = c.their_y /\ r.their_old_y = c.their_old_y
  BY AfterReadFields
<1>3. m.next_y \in DhKey
  BY DEF Message
<1> HIDE DEF r
<1>4. /\ dh \in ContextPriv
      /\ dh.our_keyid = IF NeedsNewDhKey(c, m) THEN c.our_keyid + 1
                        ELSE c.our_keyid
      /\ dh.our_dh_key = IF NeedsNewDhKey(c, m) THEN new ELSE c.our_dh_key
      /\ dh.our_old_dh_key = IF NeedsNewDhKey(c, m) THEN c.our_dh_key
                             ELSE c.our_old_dh_key
      /\ dh.their_keyid = c.their_keyid
      /\ dh.their_y = c.their_y /\ dh.their_old_y = c.their_old_y
      /\ Inherits(dh, r)
  <2>1. CASE NeedsNewDhKey(c, m)
    <3>1. /\ dh \in ContextPriv
          /\ dh.our_keyid = r.our_keyid + 1
          /\ dh.our_dh_key = new /\ dh.our_old_dh_key = r.our_dh_key
          /\ dh.their_keyid = r.their_keyid
          /\ dh.their_y = r.their_y /\ dh.their_old_y = r.their_old_y
          /\ dh.sesskeys[1][0] = r.sesskeys[0][0]
          /\ dh.sesskeys[1][1] = r.sesskeys[0][1]
          /\ dh.sesskeys[0][0] = SessionWith(new, r.their_y)
          /\ dh.sesskeys[0][1] = SessionWith(new, r.their_old_y)
      BY <2>1, <1>2, RotateDhFields, RotateDhType
    <3>2. \A y : SessionWith(new, y).rcvctr = 0
      BY DEF SessionWith, DhSession, Blank
    <3>3. Inherits(dh, r)
      BY <3>1, <3>2 DEF Inherits
    <3> QED  BY <2>1, <3>1, <3>3, <1>2
  <2>2. CASE ~NeedsNewDhKey(c, m)
    <3>1. Inherits(r, r)
      BY DEF Inherits
    <3> QED  BY <2>2, <3>1, <1>2
  <2> QED  BY <2>1, <2>2
<1> HIDE DEF dh
<1>5. CASE NeedsNewY(c, m)
  <2>1. /\ d.our_keyid = dh.our_keyid
        /\ d.our_dh_key = dh.our_dh_key /\ d.our_old_dh_key = dh.our_old_dh_key
        /\ d.their_keyid = dh.their_keyid + 1
        /\ d.their_y = m.next_y /\ d.their_old_y = dh.their_y
        /\ d.sesskeys[0][0] = DhSession(dh.our_dh_key, m.next_y)
        /\ d.sesskeys[1][0] = DhSession(dh.our_old_dh_key, m.next_y)
        /\ d.sesskeys[0][1] = dh.sesskeys[0][0]
        /\ d.sesskeys[1][1] = dh.sesskeys[1][0]
    BY <1>5, <1>3, <1>4, RotateYFields
  <2>2. \A x, y : DhSession(x, y).rcvctr = 0
    BY DEF DhSession
  <2>3. Inherits(d, r)
    <3>1. \A k \in 0..1 : /\ d.sesskeys[k][0].rcvctr = 0
                         /\ d.sesskeys[k][1] = dh.sesskeys[k][0]
      BY <2>1, <2>2, SMTT(20)
    <3>2. ASSUME NEW k \in 0..1
          PROVE  \/ dh.sesskeys[k][0].rcvctr = 0
                 \/ \E x, y \in 0..1 :
                      /\ RcvMacKey(dh.sesskeys[k][0]) = RcvMacKey(r.sesskeys[x][y])
                      /\ dh.sesskeys[k][0].rcvctr = r.sesskeys[x][y].rcvctr
      BY <1>4 DEF Inherits
    <3> HIDE DEF d
    <3>3. ASSUME NEW k \in 0..1, NEW l \in 0..1
          PROVE  \/ d.sesskeys[k][l].rcvctr = 0
                 \/ \E x, y \in 0..1 :
                      /\ RcvMacKey(d.sesskeys[k][l]) = RcvMacKey(r.sesskeys[x][y])
                      /\ d.sesskeys[k][l].rcvctr = r.sesskeys[x][y].rcvctr
      <4>1. CASE l = 0
        BY <3>1, <4>1
      <4>2. CASE l = 1
        BY <3>1, <3>2, <4>2
      <4> QED  BY <4>1, <4>2
    <3> QED  BY ONLY <3>3 DEF Inherits
  <2> QED  BY <2>1, <2>3, <1>1, <1>4, <1>5 DEF r
<1>6. CASE ~NeedsNewY(c, m)
  BY <1>1, <1>4, <1>6 DEF r
<1> QED  BY <1>5, <1>6

\* A message that can be read belongs to the session the context is in, and is
\* under the keys it claims.
LEMMA ReadableNamed ==
  ASSUME NEW c, NEW g, NEW F, NEW e, NEW J, NEW ak, NEW bk, NEW W, NEW X, NEW I,
         NEW h, NEW G, NEW K, SentNamed(h, G, K, bk, ak, X, W),
         NEW m \in Message, NEW i \in DOMAIN X, m = X[i],
         Readable(c, m), InSync(c),
         EndTyped(c, g, e, ak, bk, W, X, I),
         EndInv(c, g, F, e, J, ak, bk, W, X, I)
  PROVE  /\ c.their_keyid # 0 /\ m.session = e
         /\ SlotRow(c, m) \in 0..1 /\ SlotCol(c, m) \in 0..1
         /\ m.mac_key[2] = OurKey(c, SlotRow(c, m))
         /\ m.mac_key[1] = TheirY(c, SlotCol(c, m))
         /\ Name(e, m.mac_key[2], m.recipient_keyid) \in Names(ak, W)
<1>1. c \in ContextPriv /\ KeysPresent(c)
  BY DEF EndTyped
<1>2. /\ SlotRow(c, m) \in 0..1 /\ SlotCol(c, m) \in 0..1
      /\ Live(c, SlotCol(c, m)) /\ c.their_keyid # 0
      /\ RcvMacKey(c.sesskeys[SlotRow(c, m)][SlotCol(c, m)]) = m.mac_key
  BY <1>1, AfterReadFields
<1>3. /\ m.mac_key[2] = OurKey(c, SlotRow(c, m))
      /\ m.mac_key[1] = TheirY(c, SlotCol(c, m))
  BY <1>2 DEF InSync, RcvMacKey
<1>4. Name(m.session, m.mac_key[2], m.recipient_keyid) \in Names(ak, W)
  BY DEF SentNamed
<1>5. m.session = e
  <2> DEFINE t == Name(m.session, m.mac_key[2], m.recipient_keyid)
  <2>1. t.session = m.session /\ t.key = m.mac_key[2] /\ t \in Names(ak, W)
    BY <1>4, NameFields
  <2> HIDE DEF t
  <2>2. t.key = c.our_dh_key \/ t.key = c.our_old_dh_key
    BY <2>1, <1>2, <1>3 DEF OurKey
  <2> QED  BY <2>1, <2>2, <1>2 DEF EndInv, OursNamed
<1> QED  BY <1>2, <1>3, <1>4, <1>5

\* Accepting message i of the other end.
LEMMA AcceptingKeeps ==
  ASSUME NEW c, NEW g, NEW F, NEW e, NEW J, NEW ak, NEW bk, NEW W, NEW X, NEW I,
         NEW h, NEW G, NEW K, SentNamed(h, G, K, bk, ak, X, W),
         NEW m \in Message, NEW i \in DOMAIN X, m = X[i],
         NEW Z, Appended(I, i, Z),
         NEW d, d = AfterAccept(c, m, g + 1),
         NEW n, n = IF NeedsNewDhKey(c, m) THEN g + 1 ELSE g,
         Readable(c, m), InSync(c), KeysKnown(c, g, F),
         EndTyped(c, g, e, ak, bk, W, X, I),
         EndInv(c, g, F, e, J, ak, bk, W, X, I)
  PROVE  EndInv(d, n, F, e, J, ak, bk, W, X, Z)
<1>1. /\ c \in ContextPriv /\ KeysPresent(c) /\ g \in Nat
      /\ \A x \in DOMAIN ak : ak[x] \in 1..g
      /\ W \in Seq(Message) /\ X \in Seq(Message)
  BY DEF EndTyped
<1>2. /\ c.their_keyid # 0 /\ m.session = e /\ e \in J
      /\ SlotRow(c, m) \in 0..1 /\ SlotCol(c, m) \in 0..1
      /\ m.mac_key[2] = OurKey(c, SlotRow(c, m))
      /\ m.mac_key[1] = TheirY(c, SlotCol(c, m))
      /\ Name(e, m.mac_key[2], m.recipient_keyid) \in Names(ak, W)
  BY ReadableNamed DEF EndInv
<1>3. /\ c.our_keyid \in Nat /\ c.their_keyid \in Nat /\ c.our_keyid > 1
      /\ m.sender_keyid \in Nat /\ m.recipient_keyid \in Nat
      /\ m.next_y \in Nat /\ m.next_y # 0 /\ c.their_y \in Nat /\ c.their_y # 0
      /\ c.our_keyid = m.recipient_keyid \/ c.our_keyid = m.recipient_keyid + 1
      /\ c.their_keyid = m.sender_keyid \/ c.their_keyid = m.sender_keyid + 1
      /\ m.recipient_keyid = c.our_keyid => m.mac_key[2] = c.our_dh_key
      /\ c.our_dh_key \in 0..g /\ c.our_old_dh_key \in 0..g
  <2>1. /\ c.our_keyid \in Nat /\ c.their_keyid \in Nat
        /\ m.sender_keyid \in Nat /\ m.recipient_keyid \in Nat
        /\ m.next_y \in Nat /\ m.next_y # 0
    BY <1>1, ContextFacts, MessageFields
  <2>2. c.their_y \in Nat /\ c.their_y # 0
    BY <1>1, <1>2 DEF KeysPresent, DhKey, NULL
  <2>3. c.our_keyid > 1
    BY <1>2 DEF EndInv, OursNamed
  <2>4. /\ c.our_keyid = m.recipient_keyid \/ c.our_keyid = m.recipient_keyid + 1
        /\ c.their_keyid = m.sender_keyid \/ c.their_keyid = m.sender_keyid + 1
    BY <2>1, <1>2 DEF SlotRow, SlotCol
  <2>5. m.recipient_keyid = c.our_keyid => m.mac_key[2] = c.our_dh_key
    BY <2>1, <1>2 DEF SlotRow, OurKey
  <2>6. c.our_dh_key \in 0..g /\ c.our_old_dh_key \in 0..g
    BY DEF KeysKnown, Ours
  <2> QED  BY <2>1, <2>2, <2>3, <2>4, <2>5, <2>6
<1>4. g + 1 \in DhKey
  BY <1>1 DEF DhKey, NULL
<1>5. /\ d.our_keyid = IF NeedsNewDhKey(c, m) THEN c.our_keyid + 1
                       ELSE c.our_keyid
      /\ d.our_dh_key = IF NeedsNewDhKey(c, m) THEN g + 1 ELSE c.our_dh_key
      /\ d.our_old_dh_key = IF NeedsNewDhKey(c, m) THEN c.our_dh_key
                            ELSE c.our_old_dh_key
      /\ d.their_keyid = IF NeedsNewY(c, m) THEN c.their_keyid + 1
                         ELSE c.their_keyid
      /\ d.their_y = IF NeedsNewY(c, m) THEN m.next_y ELSE c.their_y
      /\ d.their_old_y = IF NeedsNewY(c, m) THEN c.their_y ELSE c.their_old_y
      /\ Inherits(d, AfterRead(c, m))
  BY <1>1, <1>4, AfterAcceptFields
<1>6. /\ Len(I) \in Nat /\ Len(I) + 1 \notin DOMAIN I
      /\ DOMAIN Z = DOMAIN I \cup {Len(I) + 1} /\ Z[Len(I) + 1] = i
      /\ \A x \in DOMAIN I : Z[x] = I[x]
  BY DEF Appended
<1>7. OursNamed(d, e, ak, W)
  <2>1. OursNamed(c, e, ak, W)
    BY DEF EndInv
  <2>2. CASE NeedsNewDhKey(c, m)
    <3>1. /\ d.our_keyid = c.our_keyid + 1 /\ d.our_dh_key = g + 1
          /\ d.our_old_dh_key = c.our_dh_key
      BY <2>2, <1>5
    <3>2. Name(e, d.our_old_dh_key, d.our_keyid - 1) \in Names(ak, W)
      <4>1. m.recipient_keyid = c.our_keyid
        BY <2>2 DEF NeedsNewDhKey
      <4>2. d.our_keyid - 1 = m.recipient_keyid
        BY <4>1, <3>1, <1>3
      <4> QED  BY <4>1, <4>2, <3>1, <1>2, <1>3
    <3>3. ASSUME NEW t \in Names(ak, W)
          PROVE  /\ t.key = d.our_dh_key => FALSE
                 /\ t.key = d.our_old_dh_key
                      => t.session = e /\ t.keyid = d.our_keyid - 1
                 /\ t.session = e =>
                      /\ t.keyid <= d.our_keyid
                      /\ t.keyid # d.our_keyid
                      /\ t.keyid = d.our_keyid - 1 => t.key = d.our_old_dh_key
      <4>1. t.key \in 1..g /\ t.keyid \in Nat
        <5>1. \A x \in DOMAIN W : /\ W[x].next_y \in 1..g
                                  /\ W[x].sender_keyid + 1 \in Nat
          BY <1>1, MessageFields DEF EndInv, SentNamed
        <5>2. \/ t.session \in DOMAIN ak /\ t.key = ak[t.session] /\ t.keyid = 1
              \/ \E x \in DOMAIN W : /\ t.key = W[x].next_y
                                     /\ t.keyid = W[x].sender_keyid + 1
          BY NameParts
        <5> QED  BY <5>1, <5>2, <1>1
      <4>2. /\ t.key = c.our_dh_key => t.session = e /\ t.keyid = c.our_keyid
            /\ t.session = e =>
                 /\ t.keyid <= c.our_keyid
                 /\ t.keyid = c.our_keyid => t.key = c.our_dh_key
        BY <2>1, <1>2 DEF OursNamed
      <4>3. d.our_keyid - 1 = c.our_keyid
        BY <3>1, <1>3
      <4>4. t.key # d.our_dh_key
        BY <4>1, <3>1, <1>1
      <4>5. (t.keyid # d.our_keyid /\ t.keyid <= d.our_keyid) \/ t.session # e
        BY <4>1, <4>2, <3>1, <1>3
      <4> QED  BY <4>2, <4>3, <4>4, <4>5, <3>1
    <3> QED  BY <3>1, <3>2, <3>3, <1>3 DEF OursNamed
  <2>3. CASE ~NeedsNewDhKey(c, m)
    BY <2>1, <2>3, <1>2, <1>5 DEF OursNamed
  <2> QED  BY <2>2, <2>3
<1>8. TheirsNamed(d, e, bk, X)
  <2>1. TheirsNamed(c, e, bk, X)
    BY DEF EndInv
  <2>2. CASE NeedsNewY(c, m)
    <3>1. /\ d.their_keyid = c.their_keyid + 1 /\ m.sender_keyid = c.their_keyid
          /\ d.their_y = m.next_y /\ d.their_old_y = c.their_y
          /\ d.their_keyid - 1 = c.their_keyid
      BY <2>2, <1>3, <1>5 DEF NeedsNewY
    <3>2. Name(e, m.next_y, m.sender_keyid + 1) \in Names(bk, X)
      BY <1>2, Named
    <3>3. Name(e, c.their_y, c.their_keyid) \in Names(bk, X)
      BY <2>1, <1>2 DEF TheirsNamed
    <3> QED  BY <3>1, <3>2, <3>3, <1>2, <1>3 DEF TheirsNamed, NULL
  <2>3. CASE ~NeedsNewY(c, m)
    BY <2>1, <2>3, <1>5 DEF TheirsNamed
  <2> QED  BY <2>2, <2>3
<1>9. SentNamed(n, F, J, ak, bk, W, X)
  <2>1. \A x \in DOMAIN W : W[x].next_y \in (1..n) \ F
    BY <1>1 DEF EndInv, SentNamed
  <2> QED  BY <2>1 DEF EndInv, SentNamed
<1>10. SentUpToNow(d, e, W)
  <2>1. \A x \in DOMAIN W : W[x].session = e => W[x].recipient_keyid <= c.their_keyid
    BY <1>2 DEF EndInv, SentUpToNow
  <2>2. \A x \in DOMAIN W : W[x].recipient_keyid \in Nat
    BY <1>1, MessageFields, SMTT(20)
  <2> QED  BY <2>1, <2>2, <1>3, <1>5 DEF SentUpToNow
<1>11. ReadSoFar(d, e, J, X, Z)
  <2>1. ReadSoFar(c, e, J, X, I)
    BY DEF EndInv
  <2>2. \A x \in DOMAIN Z : Z[x] \in DOMAIN X /\ X[Z[x]].session \in J
    BY <2>1, <1>2, <1>6 DEF ReadSoFar
  <2>3. \A x \in DOMAIN I : X[I[x]].sender_keyid \in Nat
                            /\ X[I[x]].recipient_keyid \in Nat
    BY <2>1, <1>1, MessageFields DEF ReadSoFar
  <2>4. ASSUME NEW x \in DOMAIN Z, X[Z[x]].session = e
        PROVE  X[Z[x]].sender_keyid < d.their_keyid
    <3>1. CASE x \in DOMAIN I
      <4>1. X[I[x]].sender_keyid < c.their_keyid
        BY <2>1, <2>4, <3>1, <1>2, <1>6 DEF ReadSoFar
      <4>2. d.their_keyid = c.their_keyid \/ d.their_keyid = c.their_keyid + 1
        BY <1>5
      <4>3. X[I[x]].sender_keyid < d.their_keyid
        BY <4>1, <4>2, <3>1, <2>3, <1>3
      <4> QED  BY <3>1, <4>3, <1>6
    <3>2. CASE x = Len(I) + 1
      <4>1. X[Z[x]] = m
        BY <3>2, <1>6
      <4>2. m.sender_keyid < d.their_keyid
        BY <1>3, <1>5 DEF NeedsNewY
      <4> QED  BY <4>1, <4>2
    <3> QED  BY <3>1, <3>2, <1>6
  <2>5. d.their_keyid = 1 \/ \E x \in DOMAIN Z :
          X[Z[x]].session = e /\ X[Z[x]].sender_keyid + 1 = d.their_keyid
    <3>1. CASE NeedsNewY(c, m)
      <4>1. m.sender_keyid + 1 = d.their_keyid
        BY <3>1, <1>5 DEF NeedsNewY
      <4> QED  BY <4>1, <1>2, <1>6
    <3>2. CASE ~NeedsNewY(c, m)
      <4>1. c.their_keyid = 1 \/ \E x \in DOMAIN I :
              X[I[x]].session = e /\ X[I[x]].sender_keyid + 1 = c.their_keyid
        BY <2>1, <1>2 DEF ReadSoFar
      <4> QED  BY <3>2, <4>1, <1>5, <1>6
    <3> QED  BY <3>1, <3>2
  <2>6. d.our_keyid = 2 \/ \E x \in DOMAIN Z :
          X[Z[x]].session = e /\ X[Z[x]].recipient_keyid + 1 = d.our_keyid
    <3>1. CASE NeedsNewDhKey(c, m)
      <4>1. m.recipient_keyid + 1 = d.our_keyid
        BY <3>1, <1>5 DEF NeedsNewDhKey
      <4> QED  BY <4>1, <1>2, <1>6
    <3>2. CASE ~NeedsNewDhKey(c, m)
      <4>1. c.our_keyid = 2 \/ \E x \in DOMAIN I :
              X[I[x]].session = e /\ X[I[x]].recipient_keyid + 1 = c.our_keyid
        BY <2>1, <1>2 DEF ReadSoFar
      <4> QED  BY <3>2, <4>1, <1>5, <1>6
    <3> QED  BY <3>1, <3>2
  <2>7. ASSUME NEW k \in 0..1, NEW l \in 0..1, d.sesskeys[k][l].rcvctr # 0
        PROVE  \E x \in DOMAIN Z :
                 /\ X[Z[x]].mac_key = RcvMacKey(d.sesskeys[k][l])
                 /\ X[Z[x]].ctr = d.sesskeys[k][l].rcvctr
    <3> DEFINE r == AfterRead(c, m)
    <3>1. PICK y \in 0..1, z \in 0..1 :
            /\ RcvMacKey(d.sesskeys[k][l]) = RcvMacKey(r.sesskeys[y][z])
            /\ d.sesskeys[k][l].rcvctr = r.sesskeys[y][z].rcvctr
      BY <2>7, <1>5, ZenonT(30) DEF Inherits
    <3>2. CASE y = SlotRow(c, m) /\ z = SlotCol(c, m)
      <4>1. /\ RcvMacKey(r.sesskeys[y][z]) = m.mac_key
            /\ r.sesskeys[y][z].rcvctr = m.ctr
        BY <3>2, <1>1, AfterReadFields
      <4> HIDE DEF r
      <4> QED  BY <3>1, <4>1, <1>6
    <3>3. CASE y # SlotRow(c, m) \/ z # SlotCol(c, m)
      <4>1. r.sesskeys[y][z] = c.sesskeys[y][z]
        BY <3>3, <1>1, AfterReadFields
      <4> HIDE DEF r
      <4>2. \E x \in DOMAIN I : /\ X[I[x]].mac_key = RcvMacKey(c.sesskeys[y][z])
                                /\ X[I[x]].ctr = c.sesskeys[y][z].rcvctr
        BY <2>1, <2>7, <3>1, <4>1 DEF ReadSoFar
      <4> QED  BY <3>1, <4>1, <4>2, <1>6
    <3> QED  BY <3>2, <3>3, Zenon
  <2> QED  BY <2>2, <2>4, <2>5, <2>6, <2>7 DEF ReadSoFar
<1>12. Acknowledged(W, X, Z)
  <2> SUFFICES ASSUME NEW j \in DOMAIN W
               PROVE  /\ W[j].after \in 0..Len(Z)
                      /\ \A x \in 1..W[j].after :
                           X[Z[x]].session = W[j].session =>
                             X[Z[x]].sender_keyid < W[j].recipient_keyid
    BY DEF Acknowledged
  <2>1. /\ W[j].after \in 0..Len(I)
        /\ \A x \in 1..W[j].after :
             X[I[x]].session = W[j].session =>
               X[I[x]].sender_keyid < W[j].recipient_keyid
    BY DEF EndInv, Acknowledged
  <2>2. /\ DOMAIN I = 1..Len(I) /\ Len(Z) = Len(I) + 1
    BY <1>6 DEF EndTyped, Appended
  <2>3. \A x \in 1..W[j].after : Z[x] = I[x]
    BY <2>1, <2>2, <1>6
  <2> QED  BY <2>1, <2>2, <2>3, <1>6
<1>13. d.their_keyid # 0 => e \in J
  BY <1>2
<1> QED  BY <1>7, <1>8, <1>9, <1>10, <1>11, <1>12, <1>13 DEF EndInv
-----------------------------------------------------------------------------
(* The actions.                                                            *)

\* The invariant of both ends holds in the next state if that of each does.
LEMMA SessionPrimed ==
  ASSUME \A p \in Peers :
           EndInv(context_priv'[p], generated'[p], Pending(p)', session'[p],
                  joined'[p], Exchanged(p)', Exchanged(Other(p))', wire'[p],
                  wire'[Other(p)], inbox'[p])
  PROVE  SessionInv'
  BY DEF SessionInv, EndInv

\* What the invariants say of one end.
LEMMA EndFacts ==
  ASSUME IInv, SessionInv, NEW p \in Peers
  PROVE  /\ EndTyped(context_priv[p], generated[p], session[p], Exchanged(p),
                     Exchanged(Other(p)), wire[p], wire[Other(p)], inbox[p])
         /\ EndInv(context_priv[p], generated[p], Pending(p), session[p], joined[p],
                   Exchanged(p), Exchanged(Other(p)), wire[p], wire[Other(p)],
                   inbox[p])
         /\ KeysKnown(context_priv[p], generated[p], Pending(p))
         /\ Ordered(context_priv[p]) /\ InSync(context_priv[p])
         /\ SentBelow(context_priv[p], generated[p], Pending(p), Sent(p))
<1>1. /\ context_priv[p] \in ContextPriv /\ KeysPresent(context_priv[p])
      /\ generated[p] \in Nat /\ session[p] \in Nat
      /\ wire[p] \in Seq(Message) /\ wire[Other(p)] \in Seq(Message)
      /\ inbox[p] \in Seq(Nat)
      /\ KeyInv(context_priv[p], generated[p], Pending(p), Read(p), Sent(p),
                Revealed(p))
  BY PeerFacts, Ends
<1>2. /\ DOMAIN Exchanged(p) = DOMAIN ake
      /\ DOMAIN Exchanged(Other(p)) = DOMAIN ake
      /\ \A e \in DOMAIN ake : /\ Exchanged(p)[e] = ake[e][p]
                               /\ Exchanged(Other(p))[e] = ake[e][Other(p)]
      /\ DOMAIN ake \subseteq Nat
      /\ \A e \in DOMAIN ake : /\ ake[e][p] \in DhKey /\ ake[e][Other(p)] \in DhKey
                               /\ ake[e][p] <= generated[p]
  BY Ends DEF Exchanged, IInv, TypeOK, AkeInv
<1>3. ASSUME NEW x \in DOMAIN ake, NEW y \in DOMAIN ake, ake[x][p] = ake[y][p]
      PROVE  x = y
  <2>1. ~(x < y) /\ ~(y < x)
    BY <1>2, <1>3 DEF IInv, AkeInv, DhKey
  <2> QED  BY <2>1, <1>2
<1>4. \A e \in DOMAIN ake : ake[e][p] \in 1..generated[p]
  BY <1>1, <1>2 DEF DhKey, NULL
<1>5. EndTyped(context_priv[p], generated[p], session[p], Exchanged(p),
               Exchanged(Other(p)), wire[p], wire[Other(p)], inbox[p])
  BY <1>1, <1>2, <1>3, <1>4 DEF EndTyped
<1> QED  BY <1>1, <1>5 DEF SessionInv, KeyInv

\* A step of p leaves what is known of the other end as it was.
LEMMA OtherEndKeeps ==
  ASSUME IInv, SessionInv, NEW p \in Peers, NEW q \in Peers, q = Other(p),
         context_priv'[q] = context_priv[q], generated'[q] = generated[q],
         session'[q] = session[q], joined'[q] = joined[q], ake' = ake,
         wire'[q] = wire[q], inbox'[q] = inbox[q],
         DOMAIN wire[p] \subseteq DOMAIN wire'[p],
         \A n \in DOMAIN wire[p] : wire'[p][n] = wire[p][n]
  PROVE  EndInv(context_priv'[q], generated'[q], Pending(q)', session'[q],
                joined'[q], Exchanged(q)', Exchanged(Other(q))', wire'[q],
                wire'[Other(q)], inbox'[q])
<1>1. /\ Pending(q)' = Pending(q) /\ Exchanged(q)' = Exchanged(q)
      /\ Exchanged(Other(q))' = Exchanged(Other(q)) /\ Other(q) = p
  BY Ends DEF Pending, Exchanged
<1>2. EndInv(context_priv[q], generated[q], Pending(q), session[q], joined[q],
             Exchanged(q), Exchanged(Other(q)), wire[q], wire'[p], inbox[q])
  BY <1>1, EndFacts, HearingKeeps
<1> QED  BY <1>1, <1>2

\* Initially there are no messages and no keys.
LEMMA InitSession == Init => SessionInv
<1> SUFFICES ASSUME Init, NEW p \in Peers
             PROVE  EndInv(context_priv[p], generated[p], Pending(p), session[p],
                           joined[p], Exchanged(p), Exchanged(Other(p)), wire[p],
                           wire[Other(p)], inbox[p])
  BY DEF SessionInv
<1>1. /\ context_priv[p] = BlankPriv /\ joined[p] = {} /\ wire[p] = <<>>
      /\ wire[Other(p)] = <<>> /\ inbox[p] = <<>> /\ ake = <<>>
  BY Ends DEF Init
<1>2. /\ BlankPriv.their_keyid = 0
      /\ \A i, j \in 0..1 : BlankPriv.sesskeys[i][j].rcvctr = 0
  BY DEF BlankPriv, Blank
<1>3. Names(Exchanged(p), wire[p]) = {}
  BY <1>1 DEF Names, Exchanged
<1> QED  BY <1>1, <1>2, <1>3
         DEF EndInv, NamesUnique, OursNamed, TheirsNamed, SentNamed, SentInOrder,
             SentUpToNow, ReadSoFar, Acknowledged

\* A key exchange.
LEMMA AgreeSession == ASSUME IInv, SessionInv, Agree PROVE SessionInv'
<1> SUFFICES ASSUME NEW p \in Peers
             PROVE  EndInv(context_priv'[p], generated'[p], Pending(p)', session'[p],
                           joined'[p], Exchanged(p)', Exchanged(Other(p))', wire'[p],
                           wire'[Other(p)], inbox'[p])
  BY SessionPrimed
<1>1. /\ generated' = [q \in Peers |-> generated[q] + 1]
      /\ ake' = Append(ake, generated')
      /\ UNCHANGED <<msgstate, context_priv, joined, session, wire, inbox>>
  BY DEF Agree
<1> DEFINE s == Len(ake) + 1
<1>2. /\ s \notin DOMAIN ake /\ DOMAIN ake' = DOMAIN ake \cup {s}
      /\ \A e \in DOMAIN ake : ake'[e] = ake[e]
      /\ ake'[s] = generated'
  <2>1. generated' \in [Peers -> DhKey] /\ ake \in Seq([Peers -> DhKey])
    BY <1>1 DEF IInv, TypeOK, DhKey, NULL
  <2> QED  BY <2>1, <1>1, AppendFacts
<1> HIDE DEF s
<1>3. generated'[p] = generated[p] + 1 /\ Other(p) \in Peers
  BY <1>1, Ends
<1>4. Pending(p)' \subseteq Pending(p) \cup {generated[p] + 1}
  BY <1>1, <1>2, <1>3 DEF Pending
<1>5. \A q \in Peers :
        /\ DOMAIN Exchanged(q)' = DOMAIN Exchanged(q) \cup {s}
        /\ DOMAIN Exchanged(q) = DOMAIN ake
        /\ \A e \in DOMAIN Exchanged(q) : Exchanged(q)'[e] = Exchanged(q)[e]
        /\ Exchanged(q)'[s] = generated'[q]
  BY <1>2 DEF Exchanged
<1>6. EndInv(context_priv[p], generated[p] + 1, Pending(p)', session[p], joined[p],
             Exchanged(p)', Exchanged(Other(p))', wire[p], wire[Other(p)], inbox[p])
  <2> DEFINE ak == Exchanged(p)
             bk == Exchanged(Other(p))
             ak2 == Exchanged(p)'
             bk2 == Exchanged(Other(p))'
             E == Pending(p)'
  <2>1. /\ s \notin DOMAIN ak
        /\ DOMAIN ak2 = DOMAIN ak \cup {s} /\ \A x \in DOMAIN ak : ak2[x] = ak[x]
        /\ DOMAIN bk2 = DOMAIN bk \cup {s} /\ \A x \in DOMAIN bk : bk2[x] = bk[x]
        /\ ak2[s] = generated[p] + 1
    BY <1>2, <1>3, <1>5
  <2>2. E \subseteq Pending(p) \cup {generated[p] + 1}
    BY <1>4
  <2>3. /\ EndTyped(context_priv[p], generated[p], session[p], ak, bk, wire[p],
                    wire[Other(p)], inbox[p])
        /\ EndInv(context_priv[p], generated[p], Pending(p), session[p], joined[p],
                  ak, bk, wire[p], wire[Other(p)], inbox[p])
        /\ KeysKnown(context_priv[p], generated[p], Pending(p))
    BY EndFacts
  <2> HIDE DEF ak, bk, ak2, bk2, E
  <2>4. EndInv(context_priv[p], generated[p] + 1, E, session[p], joined[p],
               ak2, bk2, wire[p], wire[Other(p)], inbox[p])
    BY <2>1, <2>2, <2>3, AgreeingKeeps
  <2> QED  BY <2>4 DEF ak2, bk2, E
<1> QED  BY <1>1, <1>3, <1>6
\* A step of p that leaves the other end alone, key exchanges included.
StepOfOne(p) ==
  LET q == Other(p)
  IN  /\ ake' = ake
      /\ context_priv'[q] = context_priv[q] /\ generated'[q] = generated[q]
      /\ session'[q] = session[q] /\ joined'[q] = joined[q]
      /\ wire'[q] = wire[q] /\ inbox'[q] = inbox[q]
      /\ DOMAIN wire[p] \subseteq DOMAIN wire'[p]
      /\ \A n \in DOMAIN wire[p] : wire'[p][n] = wire[p][n]

\* Such a step preserves the invariant if the end that takes it keeps its own.
LEMMA OneEndSession ==
  ASSUME IInv, SessionInv, NEW p \in Peers, StepOfOne(p),
         EndInv(context_priv'[p], generated'[p], Pending(p)', session'[p], joined'[p],
                Exchanged(p), Exchanged(Other(p)), wire'[p], wire[Other(p)],
                inbox'[p])
  PROVE  SessionInv'
<1>1. /\ Exchanged(p)' = Exchanged(p) /\ Exchanged(Other(p))' = Exchanged(Other(p))
      /\ wire'[Other(p)] = wire[Other(p)]
  BY DEF StepOfOne, Exchanged
<1>2. EndInv(context_priv'[p], generated'[p], Pending(p)', session'[p], joined'[p],
             Exchanged(p)', Exchanged(Other(p))', wire'[p], wire'[Other(p)],
             inbox'[p])
  BY <1>1
<1> DEFINE q == Other(p)
<1>3. EndInv(context_priv'[q], generated'[q], Pending(q)', session'[q], joined'[q],
             Exchanged(q)', Exchanged(Other(q))', wire'[q], wire'[Other(q)],
             inbox'[q])
  <2>1. q \in Peers
    BY Ends
  <2> QED  BY <2>1, OtherEndKeeps DEF StepOfOne
<1>4. \A r \in Peers : r = p \/ r = q
  BY Ends
<1> HIDE DEF q
<1>5. \A r \in Peers :
        EndInv(context_priv'[r], generated'[r], Pending(r)', session'[r], joined'[r],
               Exchanged(r)', Exchanged(Other(r))', wire'[r], wire'[Other(r)],
               inbox'[r])
  BY <1>2, <1>3, <1>4
<1> QED  BY <1>5, SessionPrimed

\* p injects a message: its wire is longer, the other one as before.
LEMMA WireAppended ==
  ASSUME IInv, NEW p \in Peers, NEW m \in Message,
         wire' = [wire EXCEPT ![p] = Append(@, m)]
  PROVE  /\ Appended(wire[p], m, wire'[p]) /\ wire'[Other(p)] = wire[Other(p)]
         /\ DOMAIN wire[p] \subseteq DOMAIN wire'[p]
         /\ \A n \in DOMAIN wire[p] : wire'[p][n] = wire[p][n]
<1>1. wire \in [Peers -> Seq(Message)] /\ wire[p] \in Seq(Message)
  BY DEF IInv, TypeOK
<1>2. wire'[p] = Append(wire[p], m) /\ wire'[Other(p)] = wire[Other(p)]
  BY <1>1, Ends
<1>3. Len(wire'[p]) = Len(wire[p]) + 1
  BY <1>1, <1>2
<1> QED  BY <1>1, <1>2, <1>3, AppendFacts DEF Appended

\* p creates a message from context c, in session e, having read I.
LEMMA CreatingSession ==
  ASSUME IInv, NEW p \in Peers, NEW c, NEW g, NEW F, NEW R \in SUBSET Message,
         NEW e, NEW J, NEW I, NEW kind \in Kinds,
         NEW m, m = DataMessage(c, kind, e, Len(I)),
         wire' = [wire EXCEPT ![p] = Append(@, m)],
         c.their_keyid # 0, KeyInv(c, g, F, R, Sent(p), Revealed(p)),
         EndTyped(c, g, e, Exchanged(p), Exchanged(Other(p)), wire[p],
                  wire[Other(p)], I),
         EndInv(c, g, F, e, J, Exchanged(p), Exchanged(Other(p)), wire[p],
                wire[Other(p)], I)
  PROVE  /\ EndInv(AfterCreate(c), g, F, e, J, Exchanged(p), Exchanged(Other(p)),
                   wire'[p], wire[Other(p)], I)
         /\ wire'[Other(p)] = wire[Other(p)]
         /\ DOMAIN wire[p] \subseteq DOMAIN wire'[p]
         /\ \A n \in DOMAIN wire[p] : wire'[p][n] = wire[p][n]
<1>1. /\ c \in ContextPriv /\ KeysPresent(c) /\ g \in Nat /\ e \in Nat
      /\ Len(I) \in Nat /\ Sent(p) \in SUBSET Message
  BY PeerFacts DEF EndTyped
<1>2. m \in Message
  <2> DEFINE S == Sent(p)
             V == Revealed(p)
             n == Len(I)
  <2>1. S \in SUBSET Message /\ KeyInv(c, g, F, R, S, V) /\ n \in Nat
        /\ m = DataMessage(c, kind, e, n)
    BY <1>1
  <2> HIDE DEF S, V, n
  <2> QED  BY <2>1, <1>1, AfterCreateKeepsInv
<1>3. /\ Appended(wire[p], m, wire'[p]) /\ wire'[Other(p)] = wire[Other(p)]
      /\ DOMAIN wire[p] \subseteq DOMAIN wire'[p]
      /\ \A n \in DOMAIN wire[p] : wire'[p][n] = wire[p][n]
  BY <1>2, WireAppended
<1>4. /\ Ordered(c) /\ InSync(c) /\ KeysKnown(c, g, F) /\ SentBelow(c, g, F, Sent(p))
  BY DEF KeyInv
<1>5. \A n \in DOMAIN wire[p] : wire[p][n] \in Sent(p)
  BY DEF Sent
<1>6. EndInv(AfterCreate(c), g, F, e, J, Exchanged(p), Exchanged(Other(p)),
             wire'[p], wire[Other(p)], I)
  <2> DEFINE ak == Exchanged(p)
             bk == Exchanged(Other(p))
             W == wire[p]
             X == wire[Other(p)]
             Y == wire'[p]
             S == Sent(p)
  <2>1. /\ EndTyped(c, g, e, ak, bk, W, X, I) /\ EndInv(c, g, F, e, J, ak, bk, W, X, I)
        /\ Appended(W, m, Y) /\ \A n \in DOMAIN W : W[n] \in S
        /\ SentBelow(c, g, F, S)
    BY <1>3, <1>4, <1>5
  <2> HIDE DEF ak, bk, W, X, Y, S
  <2>2. EndInv(AfterCreate(c), g, F, e, J, ak, bk, Y, X, I)
    BY <2>1, <1>2, <1>4, CreatingKeeps
  <2> QED  BY <2>2 DEF ak, bk, W, X, Y
<1> QED  BY <1>3, <1>6

\* An end whose context, session and messages read change keeps its types.
LEMMA Retyped ==
  ASSUME NEW c, NEW g, NEW e, NEW ak, NEW bk, NEW W, NEW X, NEW I,
         EndTyped(c, g, e, ak, bk, W, X, I),
         NEW d \in ContextPriv, KeysPresent(d), NEW h \in Nat, h >= g,
         NEW f \in Nat, NEW Z \in Seq(Nat)
  PROVE  EndTyped(d, h, f, ak, bk, W, X, Z)
  BY DEF EndTyped

\* go_encrypted.
LEMMA GoEncryptedSession ==
  ASSUME IInv, SessionInv, NEW p \in Peers, NEW e \in DOMAIN ake,
         NEW resend \in BOOLEAN, GoEncrypted(p, e, resend)
  PROVE  SessionInv'
<1> DEFINE g == generated[p] + 1
           d == Install(context_priv[p], ake[e][p], ake[e][Other(p)], g)
           m == DataMessage(d, "text", e, Len(inbox[p]))
           ak == Exchanged(p)
           bk == Exchanged(Other(p))
           J == joined[p] \cup {e}
           F == Pending(p)'
           W == wire[p]
           X == wire[Other(p)]
           I == inbox[p]
<1>1. /\ e \notin joined[p]
      /\ context_priv' = [context_priv EXCEPT ![p] =
                            IF resend THEN AfterCreate(d) ELSE d]
      /\ generated' = [generated EXCEPT ![p] = g]
      /\ joined' = [joined EXCEPT ![p] = J]
      /\ session' = [session EXCEPT ![p] = e]
      /\ IF resend THEN wire' = [wire EXCEPT ![p] = Append(@, m)]
                   ELSE wire' = wire
      /\ ake' = ake /\ inbox' = inbox
  BY DEF GoEncrypted
<1>2. /\ context_priv \in [Peers -> ContextPriv] /\ generated \in [Peers -> Nat]
      /\ session \in [Peers -> Nat] /\ joined \in [Peers -> SUBSET Nat]
      /\ e \in Nat /\ g \in Nat /\ g >= generated[p]
  BY DEF IInv, TypeOK
<1>3. /\ generated'[p] = g /\ session'[p] = e /\ joined'[p] = J /\ inbox'[p] = I
      /\ context_priv'[p] = IF resend THEN AfterCreate(d) ELSE d
      /\ context_priv'[Other(p)] = context_priv[Other(p)]
      /\ generated'[Other(p)] = generated[Other(p)]
      /\ session'[Other(p)] = session[Other(p)]
      /\ joined'[Other(p)] = joined[Other(p)]
      /\ inbox'[Other(p)] = inbox[Other(p)]
  BY <1>1, <1>2, Ends
<1>4. /\ ake[e][p] \in Pending(p)
      /\ F \subseteq Pending(p) \ {ake[e][p]}
      /\ d \in ContextPriv /\ KeysPresent(d) /\ d.their_keyid # 0
      /\ KeyInv(d, g, F, Read(p), Sent(p), Revealed(p))
  BY <1>1, <1>3, Installing
<1>5. /\ Read(p) \in SUBSET Message /\ inbox[p] \in Seq(Nat)
      /\ EndTyped(context_priv[p], generated[p], session[p], ak, bk, W, X, I)
      /\ EndInv(context_priv[p], generated[p], Pending(p), session[p], joined[p],
                ak, bk, W, X, I)
  BY PeerFacts, EndFacts
<1>6. e \in DOMAIN ak /\ ak[e] = ake[e][p] /\ bk[e] = ake[e][Other(p)]
  BY DEF Exchanged
<1> HIDE DEF ak, bk, F, W, X
<1>7. EndTyped(d, g, e, ak, bk, W, X, I)
  BY <1>2, <1>4, <1>5, Retyped
<1>8. EndInv(d, g, F, e, J, ak, bk, W, X, I)
  <2>1. d = Install(context_priv[p], ak[e], bk[e], generated[p] + 1)
    BY <1>6
  <2>2. e \in DOMAIN ak \ joined[p] /\ F \subseteq Pending(p) /\ ak[e] \in Pending(p)
    BY <1>1, <1>4, <1>6
  <2> HIDE DEF d
  <2> QED  BY <2>1, <2>2, <1>5, InstallingKeeps
<1> HIDE DEF d, J, g
<1>9. /\ EndInv(context_priv'[p], g, F, e, J, ak, bk, wire'[p], X, I)
      /\ wire'[Other(p)] = wire[Other(p)]
      /\ DOMAIN wire[p] \subseteq DOMAIN wire'[p]
      /\ \A n \in DOMAIN wire[p] : wire'[p][n] = wire[p][n]
  <2>1. CASE resend
    <3>1. /\ wire' = [wire EXCEPT ![p] = Append(@, m)] /\ "text" \in Kinds
          /\ context_priv'[p] = AfterCreate(d)
      BY <2>1, <1>1, <1>3 DEF Kinds
    <3>2. /\ EndTyped(d, g, e, Exchanged(p), Exchanged(Other(p)), wire[p],
                      wire[Other(p)], inbox[p])
          /\ EndInv(d, g, F, e, J, Exchanged(p), Exchanged(Other(p)), wire[p],
                    wire[Other(p)], inbox[p])
      BY <1>7, <1>8 DEF ak, bk, W, X
    <3> HIDE DEF m, I
    <3>3. m = DataMessage(d, "text", e, Len(inbox[p]))
      BY DEF m, I
    <3>4. /\ EndInv(AfterCreate(d), g, F, e, J, Exchanged(p), Exchanged(Other(p)),
                    wire'[p], wire[Other(p)], inbox[p])
          /\ wire'[Other(p)] = wire[Other(p)]
          /\ DOMAIN wire[p] \subseteq DOMAIN wire'[p]
          /\ \A n \in DOMAIN wire[p] : wire'[p][n] = wire[p][n]
      BY <3>1, <3>2, <3>3, <1>4, <1>5, CreatingSession
    <3> QED  BY <3>1, <3>4 DEF ak, bk, X, I
  <2>2. CASE ~resend
    BY <2>2, <1>1, <1>3, <1>8 DEF W
  <2> QED  BY <2>1, <2>2
<1>10. StepOfOne(p)
  BY <1>1, <1>3, <1>9 DEF StepOfOne
<1>11. EndInv(context_priv'[p], generated'[p], Pending(p)', session'[p], joined'[p],
              Exchanged(p), Exchanged(Other(p)), wire'[p], wire[Other(p)],
              inbox'[p])
  BY <1>3, <1>9 DEF F, ak, bk, X
<1> QED  BY <1>10, <1>11, OneEndSession

\* A step of p that joins no session keeps what its key exchanges hold back.
LEMMA PendingKept ==
  ASSUME NEW p \in Peers, ake' = ake, joined' = joined
  PROVE  Pending(p)' = Pending(p)
  BY DEF Pending

\* A D-H Key message for a live context.
LEMMA RekeyOnKeySession ==
  ASSUME IInv, SessionInv, NEW p \in Peers, RekeyOnKey(p)
  PROVE  SessionInv'
<1>1. UNCHANGED <<context_priv, generated, ake, joined, session, wire, inbox>>
  BY DEF RekeyOnKey
<1>2. StepOfOne(p)
  BY <1>1 DEF StepOfOne
<1>3. EndInv(context_priv'[p], generated'[p], Pending(p)', session'[p], joined'[p],
             Exchanged(p), Exchanged(Other(p)), wire'[p], wire[Other(p)], inbox'[p])
  BY <1>1, PendingKept, EndFacts
<1> QED  BY <1>2, <1>3, OneEndSession

\* Sending a message.
LEMMA SendSession ==
  ASSUME IInv, SessionInv, NEW p \in Peers, NEW kind \in Kinds, Send(p, kind)
  PROVE  SessionInv'
<1> DEFINE c == context_priv[p]
           m == DataMessage(c, kind, session[p], Len(inbox[p]))
<1>1. /\ c.their_keyid # 0
      /\ wire' = [wire EXCEPT ![p] = Append(@, m)]
      /\ context_priv' = [context_priv EXCEPT ![p] = AfterCreate(c)]
      /\ UNCHANGED <<generated, ake, joined, session, inbox>>
  BY DEF Send, CanCreateData
<1>2. /\ context_priv'[p] = AfterCreate(c)
      /\ context_priv'[Other(p)] = context_priv[Other(p)]
  BY <1>1, Ends DEF IInv, TypeOK
<1>3. /\ Read(p) \in SUBSET Message
      /\ KeyInv(c, generated[p], Pending(p), Read(p), Sent(p), Revealed(p))
      /\ EndTyped(c, generated[p], session[p], Exchanged(p), Exchanged(Other(p)),
                  wire[p], wire[Other(p)], inbox[p])
      /\ EndInv(c, generated[p], Pending(p), session[p], joined[p], Exchanged(p),
                Exchanged(Other(p)), wire[p], wire[Other(p)], inbox[p])
  BY PeerFacts, EndFacts
<1> HIDE DEF c
<1>4. /\ EndInv(AfterCreate(c), generated[p], Pending(p), session[p], joined[p],
                Exchanged(p), Exchanged(Other(p)), wire'[p], wire[Other(p)], inbox[p])
      /\ wire'[Other(p)] = wire[Other(p)]
      /\ DOMAIN wire[p] \subseteq DOMAIN wire'[p]
      /\ \A n \in DOMAIN wire[p] : wire'[p][n] = wire[p][n]
  BY <1>1, <1>3, CreatingSession
<1>5. StepOfOne(p)
  BY <1>1, <1>2, <1>4 DEF StepOfOne
<1>6. EndInv(context_priv'[p], generated'[p], Pending(p)', session'[p], joined'[p],
             Exchanged(p), Exchanged(Other(p)), wire'[p], wire[Other(p)], inbox'[p])
  BY <1>1, <1>2, <1>4, PendingKept
<1> QED  BY <1>5, <1>6, OneEndSession

\* disconnect_context.
LEMMA DisconnectSession ==
  ASSUME IInv, SessionInv, NEW p \in Peers, Disconnect(p)
  PROVE  SessionInv'
<1> DEFINE c == context_priv[p]
           m == DataMessage(c, "disconnected", session[p], Len(inbox[p]))
<1>1. /\ \/ c.their_keyid # 0 /\ wire' = [wire EXCEPT ![p] = Append(@, m)]
         \/ wire' = wire
      /\ context_priv' = [context_priv EXCEPT ![p] = BlankPriv]
      /\ UNCHANGED <<generated, ake, joined, session, inbox>>
  BY DEF Disconnect, CanCreateData
<1>2. /\ context_priv'[p] = BlankPriv
      /\ context_priv'[Other(p)] = context_priv[Other(p)]
  BY <1>1, Ends DEF IInv, TypeOK
<1>3. /\ Read(p) \in SUBSET Message
      /\ KeyInv(c, generated[p], Pending(p), Read(p), Sent(p), Revealed(p))
      /\ EndTyped(c, generated[p], session[p], Exchanged(p), Exchanged(Other(p)),
                  wire[p], wire[Other(p)], inbox[p])
      /\ EndInv(c, generated[p], Pending(p), session[p], joined[p], Exchanged(p),
                Exchanged(Other(p)), wire[p], wire[Other(p)], inbox[p])
  BY PeerFacts, EndFacts
<1> HIDE DEF c
<1>4. /\ EndInv(BlankPriv, generated[p], Pending(p), session[p], joined[p],
                Exchanged(p), Exchanged(Other(p)), wire'[p], wire[Other(p)], inbox[p])
      /\ wire'[Other(p)] = wire[Other(p)]
      /\ DOMAIN wire[p] \subseteq DOMAIN wire'[p]
      /\ \A n \in DOMAIN wire[p] : wire'[p][n] = wire[p][n]
  <2>1. CASE c.their_keyid # 0 /\ wire' = [wire EXCEPT ![p] = Append(@, m)]
    <3>1. "disconnected" \in Kinds
      BY DEF Kinds
    <3>2. /\ EndInv(AfterCreate(c), generated[p], Pending(p), session[p], joined[p],
                    Exchanged(p), Exchanged(Other(p)), wire'[p], wire[Other(p)],
                    inbox[p])
          /\ wire'[Other(p)] = wire[Other(p)]
          /\ DOMAIN wire[p] \subseteq DOMAIN wire'[p]
          /\ \A n \in DOMAIN wire[p] : wire'[p][n] = wire[p][n]
      BY <2>1, <3>1, <1>3, CreatingSession
    <3> QED  BY <3>2, BlankKeeps
  <2>2. CASE wire' = wire
    BY <2>2, <1>3, BlankKeeps
  <2> QED  BY <1>1, <2>1, <2>2
<1>5. StepOfOne(p)
  BY <1>1, <1>2, <1>4 DEF StepOfOne
<1>6. EndInv(context_priv'[p], generated'[p], Pending(p)', session'[p], joined'[p],
             Exchanged(p), Exchanged(Other(p)), wire'[p], wire[Other(p)], inbox'[p])
  BY <1>1, <1>2, <1>4, PendingKept
<1> QED  BY <1>5, <1>6, OneEndSession

\* A message that is refused.
LEMMA RefuseSession ==
  ASSUME IInv, SessionInv, NEW p \in Peers, NEW i \in DOMAIN wire[Other(p)],
         Refuse(p, i)
  PROVE  SessionInv'
<1> DEFINE c == context_priv[p]
           m == wire[Other(p)][i]
           d == IF msgstate[p] = "ENCRYPTED" /\ MacVerifies(c, m)
                THEN MarkMacUsed(c, m) ELSE c
<1>1. /\ context_priv' = [context_priv EXCEPT ![p] = d]
      /\ UNCHANGED <<generated, ake, joined, session, wire, inbox>>
  BY DEF Refuse, IInv, TypeOK
<1>2. context_priv'[p] = d /\ context_priv'[Other(p)] = context_priv[Other(p)]
  BY <1>1, Ends DEF IInv, TypeOK
<1>3. m \in Message /\ c \in ContextPriv /\ KeysPresent(c)
  BY PeerFacts, Ends
<1>4. EndInv(c, generated[p], Pending(p), session[p], joined[p], Exchanged(p),
             Exchanged(Other(p)), wire[p], wire[Other(p)], inbox[p])
  BY EndFacts
<1> HIDE DEF c, m
<1>5. SameReading(c, d)
  <2>1. CASE MacVerifies(c, m) /\ d = MarkMacUsed(c, m)
    BY <2>1, <1>3, MarkSameReading
  <2>2. CASE d = c
    BY <2>2 DEF SameReading
  <2> QED  BY <2>1, <2>2
<1> HIDE DEF d
<1>6. EndInv(d, generated[p], Pending(p), session[p], joined[p], Exchanged(p),
             Exchanged(Other(p)), wire[p], wire[Other(p)], inbox[p])
  BY <1>4, <1>5, SameReadingKeeps
<1>7. StepOfOne(p)
  BY <1>1, <1>2 DEF StepOfOne
<1>8. EndInv(context_priv'[p], generated'[p], Pending(p)', session'[p], joined'[p],
             Exchanged(p), Exchanged(Other(p)), wire'[p], wire[Other(p)], inbox'[p])
  BY <1>1, <1>2, <1>6, PendingKept
<1> QED  BY <1>7, <1>8, OneEndSession

\* A message that can be read belongs to the session the end is in.
LEMMA ReadableInSession ==
  ASSUME IInv, SessionInv, NEW p \in Peers, NEW i \in DOMAIN wire[Other(p)],
         NEW m, m = wire[Other(p)][i], NEW c, c = context_priv[p], Readable(c, m)
  PROVE  /\ m \in Message /\ c.their_keyid # 0 /\ m.session = session[p]
         /\ SlotRow(c, m) \in 0..1 /\ SlotCol(c, m) \in 0..1
         /\ m.mac_key[2] = OurKey(c, SlotRow(c, m))
         /\ m.mac_key[1] = TheirY(c, SlotCol(c, m))
         /\ Name(session[p], m.mac_key[2], m.recipient_keyid)
              \in Names(Exchanged(p), wire[p])
<1> DEFINE q == Other(p)
           ak == Exchanged(p)
           bk == Exchanged(q)
           W == wire[p]
           X == wire[q]
<1>1. /\ m \in Message /\ i \in DOMAIN X /\ m = X[i]
      /\ q \in Peers /\ Other(q) = p
  BY PeerFacts, Ends
<1>2. SentNamed(generated[q], Pending(q), joined[q], bk, ak, X, W)
  BY <1>1, EndFacts DEF EndInv
<1>3. /\ EndTyped(c, generated[p], session[p], ak, bk, W, X, inbox[p])
      /\ EndInv(c, generated[p], Pending(p), session[p], joined[p], ak, bk, W, X,
                inbox[p])
      /\ InSync(c)
  BY EndFacts
<1> HIDE DEF q, ak, bk, W, X
<1>4. /\ c.their_keyid # 0 /\ m.session = session[p]
      /\ SlotRow(c, m) \in 0..1 /\ SlotCol(c, m) \in 0..1
      /\ m.mac_key[2] = OurKey(c, SlotRow(c, m))
      /\ m.mac_key[1] = TheirY(c, SlotCol(c, m))
      /\ Name(session[p], m.mac_key[2], m.recipient_keyid) \in Names(ak, W)
  BY <1>1, <1>2, <1>3, ReadableNamed
<1> QED  BY <1>1, <1>4 DEF ak, W

\* A message that is accepted.
LEMMA AcceptSession ==
  ASSUME IInv, SessionInv, NEW p \in Peers, NEW i \in DOMAIN wire[Other(p)],
         NEW answer \in BOOLEAN, Accept(p, i, answer)
  PROVE  SessionInv'
<1> DEFINE q == Other(p)
           c == context_priv[p]
           m == wire[q][i]
           g == generated[p]
           h == IF NeedsNewDhKey(c, m) THEN g + 1 ELSE g
           a == AfterAccept(c, m, g + 1)
           kind == AnswerTo[m.kind]
           Z == Append(inbox[p], i)
           made == DataMessage(a, kind, session[p], Len(inbox[p]) + 1)
           d == IF m.kind = "disconnected" THEN BlankPriv
                ELSE IF answer THEN AfterCreate(a) ELSE a
           ak == Exchanged(p)
           bk == Exchanged(q)
           F == Pending(p)
           e == session[p]
           J == joined[p]
           W == wire[p]
           X == wire[q]
<1>1. /\ Readable(c, m)
      /\ answer => m.kind # "disconnected" /\ kind \in Kinds
      /\ generated' = [generated EXCEPT ![p] = h]
      /\ context_priv' = [context_priv EXCEPT ![p] = d]
      /\ IF answer THEN wire' = [wire EXCEPT ![p] = Append(@, made)]
                   ELSE wire' = wire
      /\ inbox' = [inbox EXCEPT ![p] = Z]
      /\ ake' = ake /\ joined' = joined /\ session' = session
  BY DEF Accept, AnswerTo, Kinds
<1>2. /\ context_priv'[p] = d /\ generated'[p] = h /\ inbox'[p] = Z
      /\ context_priv'[q] = context_priv[q] /\ generated'[q] = generated[q]
      /\ inbox'[q] = inbox[q]
  BY <1>1, Ends DEF IInv, TypeOK
<1>3. /\ m \in Message /\ i \in DOMAIN X /\ m = X[i] /\ i \in Nat
      /\ m.mac_key[1] < m.next_y
      /\ q \in Peers /\ Other(q) = p
  BY PeerFacts, Ends DEF IInv, WireInv
<1>4. /\ Read(p) \cup {m} \in SUBSET Message /\ inbox[p] \in Seq(Nat)
      /\ g \in Nat /\ h \in Nat /\ h >= g /\ e \in Nat
      /\ c \in ContextPriv /\ KeysPresent(c)
  BY <1>3, PeerFacts
<1>5. /\ SentNamed(generated[q], Pending(q), joined[q], bk, ak, X, W)
      /\ EndTyped(c, g, e, ak, bk, W, X, inbox[p])
      /\ EndInv(c, g, F, e, J, ak, bk, W, X, inbox[p])
      /\ InSync(c) /\ KeysKnown(c, g, F)
  BY <1>3, EndFacts DEF EndInv
<1>6. Appended(inbox[p], i, Z) /\ Z \in Seq(Nat) /\ Len(Z) = Len(inbox[p]) + 1
  BY <1>3, <1>4, AppendFacts, SMTT(20) DEF Appended
<1>7. a \in ContextPriv /\ KeysPresent(a) /\ a.their_keyid # 0
      /\ KeyInv(a, h, F, Read(p) \cup {m}, Sent(p), Revealed(p))
  <2> DEFINE R == Read(p)
             S == Sent(p)
             V == Revealed(p)
  <2>1. /\ KeyInv(c, g, F, R, S, V) /\ S \in SUBSET Message /\ V \in SUBSET MacKey
        /\ R \in SUBSET Message
    BY PeerFacts
  <2> HIDE DEF F, R, S, V, c, m, g
  <2>2. a \in ContextPriv /\ KeysPresent(a) /\ a.their_keyid # 0
        /\ KeyInv(a, h, F, R \cup {m}, S, V)
    BY <2>1, <1>1, <1>3, <1>4, AfterAcceptKeepsInv
  <2> QED  BY <2>2 DEF R, S, V
<1> HIDE DEF q, c, m, g, h, a, kind, Z, ak, bk, F, e, J, W, X
<1>8. EndTyped(a, h, e, ak, bk, W, X, Z)
  BY <1>4, <1>5, <1>6, <1>7, Retyped
<1>9. EndInv(a, h, F, e, J, ak, bk, W, X, Z)
  <2>1. a = AfterAccept(c, m, g + 1) /\ h = IF NeedsNewDhKey(c, m) THEN g + 1 ELSE g
    BY DEF a, h
  <2> QED  BY <2>1, <1>1, <1>3, <1>5, <1>6, AcceptingKeeps
<1>10. /\ EndInv(d, h, F, e, J, ak, bk, wire'[p], X, Z)
       /\ wire'[q] = wire[q]
       /\ DOMAIN wire[p] \subseteq DOMAIN wire'[p]
       /\ \A n \in DOMAIN wire[p] : wire'[p][n] = wire[p][n]
  <2>1. CASE answer
    <3>1. /\ wire' = [wire EXCEPT ![p] = Append(@, made)] /\ kind \in Kinds
          /\ d = AfterCreate(a)
      BY <2>1, <1>1
    <3>2. made = DataMessage(a, kind, e, Len(Z))
      BY <1>6 DEF e
    <3> HIDE DEF made, d
    <3>3. /\ EndTyped(a, h, e, Exchanged(p), Exchanged(Other(p)), wire[p],
                      wire[Other(p)], Z)
          /\ EndInv(a, h, F, e, J, Exchanged(p), Exchanged(Other(p)), wire[p],
                    wire[Other(p)], Z)
      BY <1>8, <1>9 DEF ak, bk, W, X, q
    <3>4. /\ EndInv(AfterCreate(a), h, F, e, J, Exchanged(p), Exchanged(Other(p)),
                    wire'[p], wire[Other(p)], Z)
          /\ wire'[Other(p)] = wire[Other(p)]
          /\ DOMAIN wire[p] \subseteq DOMAIN wire'[p]
          /\ \A n \in DOMAIN wire[p] : wire'[p][n] = wire[p][n]
      BY <3>1, <3>2, <3>3, <1>4, <1>7, CreatingSession
    <3> QED  BY <3>1, <3>4 DEF ak, bk, X, q
  <2>2. CASE ~answer
    <3>1. wire' = wire /\ (d = a \/ d = BlankPriv)
      BY <2>2, <1>1
    <3> HIDE DEF d
    <3>2. EndInv(d, h, F, e, J, ak, bk, W, X, Z)
      BY <3>1, <1>9, BlankKeeps
    <3> QED  BY <3>1, <3>2 DEF W
  <2> QED  BY <2>1, <2>2
<1> HIDE DEF d
<1>11. StepOfOne(p)
  BY <1>1, <1>2, <1>10 DEF StepOfOne, q
<1>12. EndInv(context_priv'[p], generated'[p], Pending(p)', session'[p], joined'[p],
              Exchanged(p), Exchanged(Other(p)), wire'[p], wire[Other(p)], inbox'[p])
  BY <1>1, <1>2, <1>10, PendingKept DEF q, ak, bk, F, e, J, X
<1> QED  BY <1>11, <1>12, OneEndSession

\* Every step preserves the invariant of the two ends.
LEMMA NextSession == IInv /\ SessionInv /\ [Next]_vars => SessionInv'
<1> SUFFICES ASSUME IInv, SessionInv, [Next]_vars PROVE SessionInv'
  OBVIOUS
<1>1. CASE Agree
  BY <1>1, AgreeSession
<1>2. ASSUME NEW p \in Peers, NEW e \in DOMAIN ake, NEW resend \in BOOLEAN,
             GoEncrypted(p, e, resend)
      PROVE  SessionInv'
  BY <1>2, GoEncryptedSession
<1>3. ASSUME NEW p \in Peers, RekeyOnKey(p)
      PROVE  SessionInv'
  BY <1>3, RekeyOnKeySession
<1>4. ASSUME NEW p \in Peers, NEW kind \in Kinds, Send(p, kind)
      PROVE  SessionInv'
  BY <1>4, SendSession
<1>5. ASSUME NEW p \in Peers, Disconnect(p)
      PROVE  SessionInv'
  BY <1>5, DisconnectSession
<1>6. ASSUME NEW p \in Peers, NEW i \in DOMAIN wire[Other(p)], Refuse(p, i)
      PROVE  SessionInv'
  BY <1>6, RefuseSession
<1>7. ASSUME NEW p \in Peers, NEW i \in DOMAIN wire[Other(p)],
             NEW answer \in BOOLEAN, Accept(p, i, answer)
      PROVE  SessionInv'
  BY <1>7, AcceptSession
<1>8. CASE UNCHANGED vars
  <2> SUFFICES ASSUME NEW p \in Peers
               PROVE  EndInv(context_priv'[p], generated'[p], Pending(p)',
                             session'[p], joined'[p], Exchanged(p)',
                             Exchanged(Other(p))', wire'[p], wire'[Other(p)],
                             inbox'[p])
    BY SessionPrimed
  <2>1. /\ Pending(p)' = Pending(p) /\ Exchanged(p)' = Exchanged(p)
        /\ Exchanged(Other(p))' = Exchanged(Other(p))
    BY <1>8 DEF vars, Pending, Exchanged
  <2> QED  BY <2>1, <1>8, EndFacts DEF vars
<1> QED  BY <1>1, <1>2, <1>3, <1>4, <1>5, <1>6, <1>7, <1>8 DEF Next

-----------------------------------------------------------------------------
(* The theorems.                                                           *)

Inv == IInv /\ SessionInv

\* Both invariants hold in every reachable state: what an end knows of the
\* names of the keys is true of every message and every key exchange.
THEOREM SessionInvariance == Spec => []Inv
<1>1. Init => Inv
  BY InitIInv, InitSession DEF Inv
<1>2. Inv /\ [Next]_vars => Inv'
  BY NextIInv, NextSession DEF Inv
<1> QED  BY <1>1, <1>2, PTL DEF Spec

\* What the invariant of one end says, in terms of the variables.
LEMMA EndParts ==
  ASSUME Inv, NEW p \in Peers
  PROVE  /\ context_priv[p] \in ContextPriv /\ KeysPresent(context_priv[p])
         /\ InSync(context_priv[p])
         /\ wire[p] \in Seq(Message) /\ inbox[p] \in Seq(Nat)
         /\ NamesUnique(Exchanged(p), wire[p])
         /\ OursNamed(context_priv[p], session[p], Exchanged(p), wire[p])
         /\ TheirsNamed(context_priv[p], session[p], Exchanged(Other(p)),
                        wire[Other(p)])
         /\ SentNamed(generated[p], Pending(p), joined[p], Exchanged(p),
                      Exchanged(Other(p)), wire[p], wire[Other(p)])
         /\ SentInOrder(wire[p])
         /\ SentUpToNow(context_priv[p], session[p], wire[p])
         /\ ReadSoFar(context_priv[p], session[p], joined[p], wire[Other(p)],
                      inbox[p])
         /\ Acknowledged(wire[p], wire[Other(p)], inbox[p])
  BY EndFacts, PeerFacts DEF Inv, EndInv

\* Two ends in the same session are at most one rotation of their DH keys apart, and
\* mean the same DH key by the same keyid (rotate_dh_keys, rotate_y_keys).
THEOREM EndsAgreeOnKeyids == Spec => []KeyidsAgree
<1>1. Inv => KeyidsAgree
  <2> SUFFICES ASSUME Inv, NEW p \in Peers, HasKeys(p), HasKeys(Other(p)),
                      session[p] = session[Other(p)]
               PROVE  LET c == context_priv[p]
                          d == context_priv[Other(p)]
                      IN  \/ c.their_keyid = d.our_keyid /\ c.their_y = d.our_dh_key
                          \/ /\ c.their_keyid + 1 = d.our_keyid
                             /\ c.their_y = d.our_old_dh_key
    BY DEF KeyidsAgree
  <2> DEFINE q == Other(p)
             c == context_priv[p]
             d == context_priv[q]
             e == session[p]
             ak == Exchanged(q)
             W == wire[q]
             X == wire[p]
             I == inbox[q]
             t == Name(e, c.their_y, c.their_keyid)
  <2>1. /\ q \in Peers /\ Other(q) = p /\ session[q] = e
        /\ c.their_keyid # 0 /\ d.their_keyid # 0
    BY Ends DEF HasKeys
  <2>2. /\ c \in ContextPriv /\ d \in ContextPriv
        /\ TheirsNamed(c, e, ak, W) /\ SentUpToNow(c, e, X)
        /\ X \in Seq(Message)
        /\ OursNamed(d, e, ak, W) /\ ReadSoFar(d, e, joined[q], X, I)
    BY <2>1, EndParts
  <2> HIDE DEF q, c, d, e, ak, W, X, I
  <2>3. /\ c.their_keyid \in Nat /\ d.our_keyid \in Nat /\ d.our_keyid > 1
    BY <2>1, <2>2, ContextFacts DEF OursNamed
  <2>4. t \in Names(ak, W) /\ t.session = e /\ t.key = c.their_y
        /\ t.keyid = c.their_keyid
    BY <2>1, <2>2, NameFields DEF TheirsNamed
  <2> HIDE DEF t
  <2>5. /\ c.their_keyid <= d.our_keyid
        /\ c.their_keyid = d.our_keyid => c.their_y = d.our_dh_key
        /\ c.their_keyid = d.our_keyid - 1 => c.their_y = d.our_old_dh_key
    BY <2>1, <2>2, <2>4 DEF OursNamed
  <2>6. d.our_keyid <= c.their_keyid + 1
    <3>1. CASE d.our_keyid = 2
      BY <3>1, <2>1, <2>3
    <3>2. ASSUME NEW n \in DOMAIN I, X[I[n]].session = e,
                 X[I[n]].recipient_keyid + 1 = d.our_keyid
          PROVE  d.our_keyid <= c.their_keyid + 1
      <4>1. I[n] \in DOMAIN X
        BY <2>2 DEF ReadSoFar
      <4>2. X[I[n]].recipient_keyid \in Nat
        BY <4>1, <2>2, MessageFields
      <4>3. X[I[n]].recipient_keyid <= c.their_keyid
        BY <3>2, <4>1, <2>1, <2>2 DEF SentUpToNow
      <4> QED  BY <3>2, <4>2, <4>3, <2>3
    <3> QED  BY <3>1, <3>2, <2>1, <2>2 DEF ReadSoFar
  <2> QED  BY <2>3, <2>5, <2>6 DEF c, d, q
<1> QED  BY <1>1, SessionInvariance, PTL

\* accept_data accepts every message of the session it is in that is newer than those
\* it has accepted, whatever became of the messages in between.
THEOREM InOrderMessagesAreRead == Spec => []InOrderReadable
<1>1. Inv => InOrderReadable
  <2> SUFFICES ASSUME Inv, NEW p \in Peers, msgstate[p] = "ENCRYPTED",
                      NEW i \in DOMAIN wire[Other(p)],
                      wire[Other(p)][i].session = session[p],
                      \A j \in Accepted(p) : j < i
               PROVE  Readable(context_priv[p], wire[Other(p)][i])
    BY DEF InOrderReadable
  <2> DEFINE q == Other(p)
             c == context_priv[p]
             e == session[p]
             ak == Exchanged(p)
             bk == Exchanged(q)
             W == wire[p]
             X == wire[q]
             I == inbox[p]
             m == X[i]
  <2>1. /\ c \in ContextPriv /\ KeysPresent(c) /\ InSync(c)
        /\ W \in Seq(Message)
        /\ OursNamed(c, e, ak, W) /\ TheirsNamed(c, e, bk, X)
        /\ SentUpToNow(c, e, W) /\ ReadSoFar(c, e, joined[p], X, I)
    BY EndParts
  <2>2. /\ X \in Seq(Message)
        /\ NamesUnique(bk, X) /\ SentInOrder(X)
        /\ SentNamed(generated[q], Pending(q), joined[q], bk, ak, X, W)
    <3>1. q \in Peers /\ Other(q) = p
      BY Ends
    <3> QED  BY <3>1, EndParts
  <2>3. /\ c.their_keyid # 0 /\ m.session = e /\ i \in DOMAIN X
        /\ \A n \in DOMAIN I : I[n] < i
    BY DEF Inv, IInv, WireInv, Accepted
  <2> HIDE DEF q, c, e, ak, bk, W, X, I
  <2>4. /\ m \in Message
        /\ m.sender_keyid \in Nat /\ m.recipient_keyid \in Nat /\ m.ctr \in Nat
        /\ m.mac_key \in MacKey
        /\ c.our_keyid \in Nat /\ c.their_keyid \in Nat /\ c.our_keyid > 1
    BY <2>1, <2>2, <2>3, MessageFields, ContextFacts DEF OursNamed
  <2>5. /\ m.sender_keyid > 0 /\ m.recipient_keyid > 0 /\ m.ctr > 0
        /\ Name(e, m.mac_key[1], m.sender_keyid) \in Names(bk, X)
        /\ Name(e, m.mac_key[2], m.recipient_keyid) \in Names(ak, W)
        /\ \/ m.sender_keyid = 1
           \/ \E k \in DOMAIN W : /\ W[k].session = e
                                  /\ W[k].recipient_keyid = m.sender_keyid
    BY <2>2, <2>3 DEF SentNamed
  <2> HIDE DEF m
  <2>6. \A n \in DOMAIN I :
          /\ I[n] \in DOMAIN X /\ X[I[n]] \in Message
          /\ X[I[n]].session = e => /\ X[I[n]].sender_keyid <= m.sender_keyid
                                    /\ X[I[n]].recipient_keyid <= m.recipient_keyid
          /\ X[I[n]].mac_key = m.mac_key => X[I[n]].ctr < m.ctr
    <3> SUFFICES ASSUME NEW n \in DOMAIN I
                 PROVE  /\ I[n] \in DOMAIN X /\ X[I[n]] \in Message
                        /\ X[I[n]].session = e =>
                             /\ X[I[n]].sender_keyid <= m.sender_keyid
                             /\ X[I[n]].recipient_keyid <= m.recipient_keyid
                        /\ X[I[n]].mac_key = m.mac_key => X[I[n]].ctr < m.ctr
      OBVIOUS
    <3>1. I[n] \in DOMAIN X /\ I[n] < i
      BY <2>1, <2>3 DEF ReadSoFar
    <3> QED  BY <3>1, <2>2, <2>3 DEF SentInOrder, m
  <2>7. m.sender_keyid = c.their_keyid \/ m.sender_keyid + 1 = c.their_keyid
    <3>1. m.sender_keyid <= c.their_keyid
      <4>1. CASE m.sender_keyid = 1
        BY <4>1, <2>3, <2>4
      <4>2. ASSUME NEW k \in DOMAIN W, W[k].session = e,
                   W[k].recipient_keyid = m.sender_keyid
            PROVE  m.sender_keyid <= c.their_keyid
        BY <4>2, <2>1, <2>3 DEF SentUpToNow
      <4> QED  BY <4>1, <4>2, <2>5
    <3>2. c.their_keyid <= m.sender_keyid + 1
      <4>1. CASE c.their_keyid = 1
        BY <4>1, <2>4
      <4>2. ASSUME NEW n \in DOMAIN I, X[I[n]].session = e,
                   X[I[n]].sender_keyid + 1 = c.their_keyid
            PROVE  c.their_keyid <= m.sender_keyid + 1
        BY <4>2, <2>4, <2>6, MessageFields
      <4> QED  BY <4>1, <4>2, <2>1, <2>3 DEF ReadSoFar
    <3> QED  BY <3>1, <3>2, <2>4
  <2>8. \/ m.recipient_keyid = c.our_keyid /\ m.mac_key[2] = c.our_dh_key
        \/ m.recipient_keyid + 1 = c.our_keyid /\ m.mac_key[2] = c.our_old_dh_key
    <3> DEFINE t == Name(e, m.mac_key[2], m.recipient_keyid)
    <3>1. t \in Names(ak, W) /\ t.session = e /\ t.key = m.mac_key[2]
          /\ t.keyid = m.recipient_keyid
      BY <2>5, NameFields
    <3> HIDE DEF t
    <3>2. /\ m.recipient_keyid <= c.our_keyid
          /\ m.recipient_keyid = c.our_keyid => m.mac_key[2] = c.our_dh_key
          /\ m.recipient_keyid = c.our_keyid - 1 => m.mac_key[2] = c.our_old_dh_key
      BY <3>1, <2>1, <2>3 DEF OursNamed
    <3>3. c.our_keyid <= m.recipient_keyid + 1
      <4>1. CASE c.our_keyid = 2
        BY <4>1, <2>4, <2>5
      <4>2. ASSUME NEW n \in DOMAIN I, X[I[n]].session = e,
                   X[I[n]].recipient_keyid + 1 = c.our_keyid
            PROVE  c.our_keyid <= m.recipient_keyid + 1
        BY <4>2, <2>4, <2>6, MessageFields
      <4> QED  BY <4>1, <4>2, <2>1, <2>3 DEF ReadSoFar
    <3> QED  BY <3>2, <3>3, <2>4
  <2>9. /\ m.sender_keyid = c.their_keyid => m.mac_key[1] = c.their_y
        /\ m.sender_keyid + 1 = c.their_keyid =>
             m.mac_key[1] = c.their_old_y /\ c.their_old_y # NULL
    <3> DEFINE t == Name(e, m.mac_key[1], m.sender_keyid)
               u == Name(e, c.their_y, c.their_keyid)
               v == Name(e, c.their_old_y, c.their_keyid - 1)
    <3>1. /\ t \in Names(bk, X) /\ u \in Names(bk, X)
          /\ t.session = e /\ t.key = m.mac_key[1] /\ t.keyid = m.sender_keyid
          /\ u.session = e /\ u.key = c.their_y /\ u.keyid = c.their_keyid
          /\ v.session = e /\ v.key = c.their_old_y /\ v.keyid = c.their_keyid - 1
      BY <2>1, <2>3, <2>5, NameFields DEF TheirsNamed
    <3>2. /\ c.their_old_y = NULL <=> c.their_keyid = 1
          /\ c.their_old_y # NULL => v \in Names(bk, X)
      BY <2>1, <2>3 DEF TheirsNamed
    <3> HIDE DEF t, u, v
    <3>3. m.sender_keyid = c.their_keyid => m.mac_key[1] = c.their_y
      BY <3>1, <2>2 DEF NamesUnique
    <3>4. ASSUME m.sender_keyid + 1 = c.their_keyid
          PROVE  m.mac_key[1] = c.their_old_y /\ c.their_old_y # NULL
      <4>1. c.their_keyid # 1 /\ c.their_keyid - 1 = m.sender_keyid
        BY <3>4, <2>4, <2>5
      <4> QED  BY <4>1, <3>1, <3>2, <2>2 DEF NamesUnique
    <3> QED  BY <3>3, <3>4
  <2>10. KnownKeyids(c, m)
    <3>1. m.sender_keyid # 0 /\ m.recipient_keyid # 0
      BY <2>4, <2>5
    <3> QED  BY <3>1, <2>3, <2>7, <2>8, <2>9 DEF KnownKeyids
  <2> DEFINE k == SlotRow(c, m)
             l == SlotCol(c, m)
             s == c.sesskeys[k][l]
  <2>11. /\ k \in 0..1 /\ l \in 0..1
         /\ s.our = m.mac_key[2] /\ s.their = m.mac_key[1]
    <3>1. /\ k \in 0..1 /\ l \in 0..1 /\ Live(c, l)
      BY <2>1, <2>4, <2>10, KnownSlot
    <3>2. /\ k = 0 => m.recipient_keyid = c.our_keyid
          /\ k = 1 => m.recipient_keyid + 1 = c.our_keyid
          /\ l = 0 => m.sender_keyid = c.their_keyid
          /\ l = 1 => m.sender_keyid + 1 = c.their_keyid
      BY <2>4 DEF SlotRow, SlotCol
    <3> HIDE DEF k, l
    <3>3. OurKey(c, k) = m.mac_key[2]
      BY <3>1, <3>2, <2>4, <2>8 DEF OurKey
    <3>4. TheirY(c, l) = m.mac_key[1]
      BY <3>1, <3>2, <2>9 DEF TheirY
    <3> QED  BY <3>1, <3>3, <3>4, <2>1 DEF InSync
  <2>12. RcvMacKey(s) = m.mac_key
    BY <2>4, <2>11 DEF RcvMacKey, MacKey
  <2>13. m.ctr > s.rcvctr
    <3> HIDE DEF k, l
    <3>1. CASE s.rcvctr = 0
      BY <3>1, <2>5
    <3>2. ASSUME NEW n \in DOMAIN I, X[I[n]].mac_key = RcvMacKey(s),
                 X[I[n]].ctr = s.rcvctr
          PROVE  m.ctr > s.rcvctr
      BY <3>2, <2>4, <2>6, <2>12, MessageFields
    <3>3. s.rcvctr = 0 \/ \E n \in DOMAIN I : /\ X[I[n]].mac_key = RcvMacKey(s)
                                            /\ X[I[n]].ctr = s.rcvctr
      <4>1. \A x, y \in 0..1 :
              \/ c.sesskeys[x][y].rcvctr = 0
              \/ \E n \in DOMAIN I :
                   /\ X[I[n]].mac_key = RcvMacKey(c.sesskeys[x][y])
                   /\ X[I[n]].ctr = c.sesskeys[x][y].rcvctr
        BY <2>1 DEF ReadSoFar
      <4> QED  BY <4>1, <2>11
    <3> HIDE DEF s
    <3> QED  BY <3>1, <3>2, <3>3
  <2>14. Readable(c, m)
    BY <2>10, <2>12, <2>13 DEF Readable, MacVerifies, Slot
  <2> QED  BY <2>14 DEF c, m, X, q
<1> QED  BY <1>1, SessionInvariance, PTL
=============================================================================
