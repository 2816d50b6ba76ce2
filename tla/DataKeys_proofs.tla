--------------------------- MODULE DataKeys_proofs ---------------------------
(***************************************************************************)
(* Proofs about DataKeys, for any two ends and any bounds.                 *)
(*                                                                         *)
(* The argument is local to one end: KeyInv relates its context to the DH  *)
(* keys it has generated, to those its unfinished key exchanges hold back, *)
(* to the messages it has sent and accepted, and to the MAC keys it has    *)
(* revealed.  Every operation of DataKeys that changes a context preserves *)
(* KeyInv (one lemma each), hence every action does.                       *)
(***************************************************************************)
EXTENDS DataKeys, SequenceTheorems, TLAPS

-----------------------------------------------------------------------------
(* The inductive invariant.                                                *)

Ours(c) == {c.our_dh_key, c.our_old_dh_key}

\* Keys a session holds are there, and later keys have larger numbers.
Ordered(c) ==
  c.their_keyid # 0 =>
    /\ 0 < c.our_old_dh_key /\ c.our_old_dh_key < c.our_dh_key
    /\ c.their_old_y < c.their_y

InSync(c) ==
  \A i, j \in 0..1 :
    Live(c, j) => /\ c.sesskeys[i][j].our = OurKey(c, i)
                  /\ c.sesskeys[i][j].their = TheirY(c, j)

\* What go_encrypted leaves in the slots it does not write is of no live key.
StaleIsForeign(c) ==
  c.their_keyid # 0 /\ c.their_old_y = NULL =>
    \A i \in 0..1 : c.sesskeys[i][1].our \notin Ours(c)

\* g bounds the keys in use; those in F (key exchanges that have yet to
\* finish) are in use nowhere.
KeysKnown(c, g, F) ==
  /\ Ours(c) \subseteq 0..g
  /\ \A i, j \in 0..1 : c.sesskeys[i][j].our \in (0..g) \ F
  /\ F \subseteq 1..g
  /\ F \cap Ours(c) = {}

\* Accepted messages: none under a key pair still to come, and under a live
\* pair none above the counter.
AcceptedBelow(c, g, F, R) ==
  \A m \in R :
    /\ m.mac_key[2] \in (1..g) \ F
    /\ c.their_keyid # 0 /\ m.mac_key[2] \in Ours(c) =>
         m.mac_key[1] <= c.their_y
    /\ \A i, j \in 0..1 :
         Live(c, j) /\ RcvMacKey(c.sesskeys[i][j]) = m.mac_key =>
           m.ctr <= c.sesskeys[i][j].rcvctr

\* Sent messages, likewise.
SentBelow(c, g, F, S) ==
  \A m \in S :
    /\ m.mac_key[1] \in (1..g) \ F
    /\ c.their_keyid # 0 /\ m.mac_key[1] \in Ours(c) =>
         m.mac_key[2] <= c.their_y
    /\ \A i, j \in 0..1 :
         Live(c, j) /\ SendMacKey(c.sesskeys[i][j]) = m.mac_key =>
           m.ctr <= c.sesskeys[i][j].sendctr

\* Revealed MAC keys: of a DH key we still use only with keys of theirs that
\* we have rotated out.
RevealedBelow(c, g, F, V) ==
  \A v \in V :
    /\ v[2] \in (0..g) \ F
    /\ c.their_keyid # 0 /\ v[2] \in Ours(c) => v[1] < c.their_old_y

KeyInv(c, g, F, R, S, V) ==
  /\ Ordered(c)
  /\ InSync(c)
  /\ StaleIsForeign(c)
  /\ KeysKnown(c, g, F)
  /\ AcceptedBelow(c, g, F, R)
  /\ SentBelow(c, g, F, S)
  /\ RevealedBelow(c, g, F, V \cup c.saved_mac_keys)

\* The DH keys of p in key exchanges it has not finished.
Pending(p) == {ake[e][p] : e \in DOMAIN ake \ joined[p]}
Read(p) == {wire[Other(p)][i] : i \in Accepted(p)}
Sent(p) == {wire[p][i] : i \in DOMAIN wire[p]}
Revealed(p) == UNION {m.revealed : m \in Sent(p)}

ContextsInv ==
  \A p \in Peers :
    KeyInv(context_priv[p], generated[p], Pending(p), Read(p), Sent(p),
           Revealed(p))

\* A key exchange hands each end a key newer than those of earlier ones.
AkeInv ==
  \A p \in Peers :
    \A e \in DOMAIN ake :
      /\ ake[e][p] <= generated[p]
      /\ \A d \in DOMAIN ake : d < e => ake[d][p] < ake[e][p]

\* Every message announces a key newer than the one it was made with.
WireInv ==
  \A p \in Peers :
    /\ \A i \in DOMAIN wire[p] : wire[p][i].mac_key[1] < wire[p][i].next_y
    /\ Accepted(p) \subseteq DOMAIN wire[Other(p)]
    /\ msgstate[p] = "ENCRYPTED" => context_priv[p].their_keyid # 0

IInv == TypeOK /\ ContextsInv /\ AkeInv /\ WireInv /\ NoCounterReuse
-----------------------------------------------------------------------------
(* The operations on one context.                                          *)

\* Keys, keyids and counters are numbers.
LEMMA MessageFacts ==
  ASSUME NEW m \in Message
  PROVE  /\ m.mac_key[1] \in Nat /\ m.mac_key[2] \in Nat /\ m.ctr \in Nat
         /\ m.mac_key[1] # 0 /\ m.mac_key[2] # 0
  BY DEF Message, MacKey, DhKey, NULL

\* What the type of a context says of its fields.
LEMMA ContextFacts ==
  ASSUME NEW c \in ContextPriv
  PROVE  /\ c.our_keyid \in Nat /\ c.their_keyid \in Nat
         /\ c.our_dh_key \in Nat /\ c.our_old_dh_key \in Nat
         /\ c.their_y \in Nat /\ c.their_old_y \in Nat
         /\ \A i, j \in 0..1 :
              /\ c.sesskeys[i][j] \in SessKeys
              /\ c.sesskeys[i][j].our \in Nat /\ c.sesskeys[i][j].their \in Nat
              /\ c.sesskeys[i][j].sendctr \in Nat
              /\ c.sesskeys[i][j].rcvctr \in Nat
  BY DEF ContextPriv, SessKeys, Blank, DhKey, NULL

\* What rotate_dh_keys does to each field.
LEMMA RotateDhFields ==
  ASSUME NEW c \in ContextPriv, NEW new \in DhKey
  PROVE  LET d == RotateDhKeys(c, new) IN
         /\ d.our_keyid = c.our_keyid + 1
         /\ d.our_dh_key = new /\ d.our_old_dh_key = c.our_dh_key
         /\ d.their_keyid = c.their_keyid
         /\ d.their_y = c.their_y /\ d.their_old_y = c.their_old_y
         /\ d.saved_mac_keys = RevealMacs(c, LostByDhRotation(c))
         /\ d.sesskeys[1][0] = c.sesskeys[0][0]
         /\ d.sesskeys[1][1] = c.sesskeys[0][1]
         /\ d.sesskeys[0][0] = SessionWith(new, c.their_y)
         /\ d.sesskeys[0][1] = SessionWith(new, c.their_old_y)
  BY DEF RotateDhKeys, ContextPriv

\* What rotate_y_keys does to each field.
LEMMA RotateYFields ==
  ASSUME NEW c \in ContextPriv, NEW y \in DhKey
  PROVE  LET d == RotateYKeys(c, y) IN
         /\ d.our_keyid = c.our_keyid
         /\ d.our_dh_key = c.our_dh_key /\ d.our_old_dh_key = c.our_old_dh_key
         /\ d.their_keyid = c.their_keyid + 1
         /\ d.their_y = y /\ d.their_old_y = c.their_y
         /\ d.saved_mac_keys = RevealMacs(c, LostByYRotation(c))
         /\ d.sesskeys[0][0] = DhSession(c.our_dh_key, y)
         /\ d.sesskeys[1][0] = DhSession(c.our_old_dh_key, y)
         /\ d.sesskeys[0][1] = c.sesskeys[0][0]
         /\ d.sesskeys[1][1] = c.sesskeys[1][0]
  BY DEF RotateYKeys, ContextPriv

\* A used receiving MAC key is a pair of DH keys.
LEMMA RevealMacsType ==
  ASSUME NEW c \in ContextPriv, NEW slots \in SUBSET SessKeys
  PROVE  RevealMacs(c, slots) \in SUBSET MacKey
  BY DEF RevealMacs, RcvMacKey, SessKeys, ContextPriv, Blank, MacKey

\* rotate_dh_keys keeps the type of a context.
LEMMA RotateDhType ==
  ASSUME NEW c \in ContextPriv, NEW new \in DhKey,
         KeysPresent(c), c.their_keyid # 0
  PROVE  /\ RotateDhKeys(c, new) \in ContextPriv
         /\ KeysPresent(RotateDhKeys(c, new))
<1>1. RevealMacs(c, LostByDhRotation(c)) \in SUBSET MacKey
  BY RevealMacsType DEF LostByDhRotation, ContextPriv
<1>2. \A y \in Nat : SessionWith(new, y) \in SessKeys
  BY DEF SessionWith, SessKeys, DhSession, DhKey
<1>3. \A i, j \in 0..1 : c.sesskeys[i][j] \in SessKeys
  BY DEF ContextPriv
<1>4. /\ c.their_y \in Nat /\ c.their_old_y \in Nat /\ c.our_keyid + 1 \in Nat
      /\ c.our_dh_key \in Nat /\ new \in Nat
  BY DEF ContextPriv, DhKey
<1> DEFINE rotated ==
      [i \in 0..1 |-> [j \in 0..1 |->
         IF i = 1 THEN c.sesskeys[0][j]
         ELSE SessionWith(new, IF j = 0 THEN c.their_y ELSE c.their_old_y)]]
<1>4a. rotated \in [0..1 -> [0..1 -> SessKeys]]
  BY <1>2, <1>3, <1>4
<1> HIDE DEF rotated
<1>5. [c EXCEPT !.our_old_dh_key = c.our_dh_key, !.our_dh_key = new,
                !.our_keyid = c.our_keyid + 1,
                !.saved_mac_keys = RevealMacs(c, LostByDhRotation(c)),
                !.sesskeys = rotated] \in ContextPriv
  BY <1>1, <1>4, <1>4a DEF ContextPriv
<1>6. KeysPresent(RotateDhKeys(c, new))
  BY RotateDhFields, ContextFacts DEF KeysPresent
<1> QED  BY <1>5, <1>6 DEF RotateDhKeys, rotated

\* rotate_y_keys keeps the type of a context.
LEMMA RotateYType ==
  ASSUME NEW c \in ContextPriv, NEW y \in DhKey,
         KeysPresent(c), c.their_keyid # 0
  PROVE  /\ RotateYKeys(c, y) \in ContextPriv
         /\ KeysPresent(RotateYKeys(c, y))
<1>1. RevealMacs(c, LostByYRotation(c)) \in SUBSET MacKey
  BY RevealMacsType DEF LostByYRotation, ContextPriv
<1>3. \A i, j \in 0..1 : c.sesskeys[i][j] \in SessKeys
  BY DEF ContextPriv
<1>4. /\ c.their_y \in Nat /\ c.their_keyid + 1 \in Nat /\ y \in Nat
      /\ c.our_dh_key \in DhKey /\ c.our_old_dh_key \in DhKey
  BY DEF ContextPriv, DhKey, KeysPresent
<1>2. \A i \in 0..1 :
        DhSession(IF i = 0 THEN c.our_dh_key ELSE c.our_old_dh_key, y) \in SessKeys
  BY <1>4 DEF SessKeys, DhSession
<1> DEFINE rotated ==
      [i \in 0..1 |-> [j \in 0..1 |->
         IF j = 1 THEN c.sesskeys[i][0]
         ELSE DhSession(IF i = 0 THEN c.our_dh_key ELSE c.our_old_dh_key, y)]]
<1>4a. rotated \in [0..1 -> [0..1 -> SessKeys]]
  BY <1>2, <1>3, <1>4
<1> HIDE DEF rotated
<1>5. [c EXCEPT !.their_old_y = c.their_y, !.their_y = y,
                !.their_keyid = c.their_keyid + 1,
                !.saved_mac_keys = RevealMacs(c, LostByYRotation(c)),
                !.sesskeys = rotated] \in ContextPriv
  BY <1>1, <1>4, <1>4a DEF ContextPriv
<1>6. KeysPresent(RotateYKeys(c, y))
  BY RotateYFields DEF KeysPresent
<1> QED  BY <1>5, <1>6 DEF RotateYKeys, rotated

\* A new DH key of ours: it is in no message, so nothing can clash with it.
LEMMA RotateDhKeepsInv ==
  ASSUME NEW c \in ContextPriv, NEW g \in Nat, NEW F,
         NEW R \in SUBSET Message, NEW S \in SUBSET Message,
         NEW V \in SUBSET MacKey,
         KeysPresent(c), c.their_keyid # 0,
         KeyInv(c, g, F, R, S, V)
  PROVE  KeyInv(RotateDhKeys(c, g + 1), g + 1, F, R, S, V)
<1> DEFINE d == RotateDhKeys(c, g + 1)
<1>1. g + 1 \in DhKey
  BY DEF DhKey, NULL
<1>2. /\ d.our_dh_key = g + 1 /\ d.our_old_dh_key = c.our_dh_key
      /\ d.their_keyid = c.their_keyid
      /\ d.their_y = c.their_y /\ d.their_old_y = c.their_old_y
      /\ d.saved_mac_keys = RevealMacs(c, LostByDhRotation(c))
      /\ d.sesskeys[1][0] = c.sesskeys[0][0]
      /\ d.sesskeys[1][1] = c.sesskeys[0][1]
      /\ d.sesskeys[0][0] = SessionWith(g + 1, c.their_y)
      /\ d.sesskeys[0][1] = SessionWith(g + 1, c.their_old_y)
  BY <1>1, RotateDhFields
<1> HIDE DEF d
<1>3. /\ Ordered(c) /\ InSync(c) /\ StaleIsForeign(c) /\ KeysKnown(c, g, F)
      /\ AcceptedBelow(c, g, F, R) /\ SentBelow(c, g, F, S)
      /\ RevealedBelow(c, g, F, V \cup c.saved_mac_keys)
  BY DEF KeyInv
<1>4. /\ c.our_dh_key \in 1..g /\ c.our_old_dh_key \in 1..g
      /\ c.our_old_dh_key < c.our_dh_key
      /\ c.their_y \in Nat /\ c.their_old_y \in Nat /\ c.their_y # 0
      /\ c.their_old_y < c.their_y
  BY <1>3, ContextFacts DEF Ordered, KeysKnown, Ours
<1>5. /\ Ordered(d)
      /\ Live(c, 0) /\ Live(d, 0) /\ (Live(d, 1) <=> Live(c, 1))
      /\ Ours(d) = {g + 1, c.our_dh_key}
  BY <1>2, <1>4 DEF Ordered, Live, TheirY, NULL, Ours
<1>6. /\ d.sesskeys[0][0] = DhSession(g + 1, c.their_y)
      /\ d.sesskeys[0][1] = IF c.their_old_y = 0 THEN Blank
                            ELSE DhSession(g + 1, c.their_old_y)
  BY <1>2, <1>4 DEF SessionWith, NULL
<1>7. InSync(d)
  BY <1>2, <1>3, <1>4, <1>5, <1>6
  DEF InSync, OurKey, TheirY, DhSession, Live, NULL
<1>8. /\ KeysKnown(d, g + 1, F)
      /\ StaleIsForeign(d)
  <2>1. \A i, j \in 0..1 : d.sesskeys[i][j].our \in (0..(g + 1)) \ F
    BY <1>2, <1>3, <1>4, <1>6 DEF KeysKnown, DhSession, Blank, NULL
  <2>2. KeysKnown(d, g + 1, F)
    BY <2>1, <1>3, <1>4, <1>5 DEF KeysKnown, Ours
  <2>3. StaleIsForeign(d)
    <3>1. SUFFICES ASSUME c.their_old_y = 0
                   PROVE  /\ d.sesskeys[0][1].our \notin Ours(d)
                          /\ d.sesskeys[1][1].our \notin Ours(d)
      BY <1>2 DEF StaleIsForeign, NULL
    <3>2. d.sesskeys[0][1].our = 0
      BY <3>1, <1>6 DEF Blank, NULL
    <3>3. c.sesskeys[0][1].our \notin Ours(c) /\ c.sesskeys[0][1].our # g + 1
      BY <3>1, <1>3 DEF StaleIsForeign, KeysKnown, NULL
    <3> QED  BY <3>2, <3>3, <1>2, <1>4, <1>5 DEF Ours
  <2> QED  BY <2>2, <2>3
<1>9. AcceptedBelow(d, g + 1, F, R)
  <2> SUFFICES ASSUME NEW m \in R
               PROVE  /\ m.mac_key[2] \in (1..(g + 1)) \ F
                      /\ m.mac_key[2] \in Ours(d) => m.mac_key[1] <= d.their_y
                      /\ \A i, j \in 0..1 :
                           Live(d, j) /\ RcvMacKey(d.sesskeys[i][j]) = m.mac_key =>
                             m.ctr <= d.sesskeys[i][j].rcvctr
    BY DEF AcceptedBelow
  <2>1. m.mac_key[2] \in (1..g) \ F
    BY <1>3 DEF AcceptedBelow
  <2>2. m.mac_key[2] \in Ours(d) => m.mac_key[1] <= d.their_y
    BY <2>1, <1>2, <1>3, <1>5 DEF AcceptedBelow, Ours
  <2>3. ASSUME NEW j \in 0..1, Live(d, j), RcvMacKey(d.sesskeys[0][j]) = m.mac_key
        PROVE  FALSE
    <3>1. d.sesskeys[0][j].our = g + 1
      BY <2>3, <1>2, <1>7 DEF InSync, OurKey
    <3>2. m.mac_key[2] = g + 1
      BY <3>1, <2>3 DEF RcvMacKey
    <3> QED  BY <3>2, <2>1
  <2>4. ASSUME NEW j \in 0..1, Live(d, j), RcvMacKey(d.sesskeys[1][j]) = m.mac_key
        PROVE  m.ctr <= d.sesskeys[1][j].rcvctr
    BY <2>4, <1>2, <1>3, <1>5 DEF AcceptedBelow
  <2> QED  BY <2>1, <2>2, <2>3, <2>4
<1>10. SentBelow(d, g + 1, F, S)
  <2> SUFFICES ASSUME NEW m \in S
               PROVE  /\ m.mac_key[1] \in (1..(g + 1)) \ F
                      /\ m.mac_key[1] \in Ours(d) => m.mac_key[2] <= d.their_y
                      /\ \A i, j \in 0..1 :
                           Live(d, j) /\ SendMacKey(d.sesskeys[i][j]) = m.mac_key =>
                             m.ctr <= d.sesskeys[i][j].sendctr
    BY DEF SentBelow
  <2>1. m.mac_key[1] \in (1..g) \ F
    BY <1>3 DEF SentBelow
  <2>2. m.mac_key[1] \in Ours(d) => m.mac_key[2] <= d.their_y
    BY <2>1, <1>2, <1>3, <1>5 DEF SentBelow, Ours
  <2>3. ASSUME NEW j \in 0..1, Live(d, j), SendMacKey(d.sesskeys[0][j]) = m.mac_key
        PROVE  FALSE
    <3>1. d.sesskeys[0][j].our = g + 1
      BY <2>3, <1>2, <1>7 DEF InSync, OurKey
    <3>2. m.mac_key[1] = g + 1
      BY <3>1, <2>3 DEF SendMacKey
    <3> QED  BY <3>2, <2>1
  <2>4. ASSUME NEW j \in 0..1, Live(d, j), SendMacKey(d.sesskeys[1][j]) = m.mac_key
        PROVE  m.ctr <= d.sesskeys[1][j].sendctr
    BY <2>4, <1>2, <1>3, <1>5 DEF SentBelow
  <2> QED  BY <2>1, <2>2, <2>3, <2>4
<1>11. RevealedBelow(d, g + 1, F, V \cup d.saved_mac_keys)
  <2>1. ASSUME NEW v \in V \cup c.saved_mac_keys
        PROVE  /\ v[2] \in (0..(g + 1)) \ F
               /\ v[2] \in Ours(d) => v[1] < d.their_old_y
    <3>1. v[2] \in (0..g) \ F
      BY <1>3 DEF RevealedBelow
    <3>2. v[2] \in Ours(c) => v[1] < c.their_old_y
      BY <1>3 DEF RevealedBelow
    <3>3. v[2] \in Ours(d) => v[2] \in Ours(c)
      BY <3>1, <1>5 DEF Ours
    <3>4. v[2] \in (0..(g + 1)) \ F
      BY <3>1
    <3> QED  BY <3>2, <3>3, <3>4, <1>2
  <2>2. ASSUME NEW j \in 0..1
        PROVE  /\ c.sesskeys[1][j].our \in (0..(g + 1)) \ F
               /\ c.sesskeys[1][j].our \notin Ours(d)
    <3>1. c.sesskeys[1][j].our \in (0..g) \ F
      BY <1>3 DEF KeysKnown
    <3>2. c.sesskeys[1][j].our # c.our_dh_key
      <4>1. CASE Live(c, j)
        BY <4>1, <1>3, <1>4 DEF InSync, OurKey
      <4>2. CASE ~Live(c, j)
        BY <4>2, <1>3, <1>4 DEF StaleIsForeign, Live, TheirY, NULL, Ours
      <4> QED  BY <4>1, <4>2
    <3> QED  BY <3>1, <3>2, <1>3, <1>5 DEF KeysKnown, Ours
  <2>3. \A s \in LostByDhRotation(c) :
          RcvMacKey(s)[2] \in (0..(g + 1)) \ F /\ RcvMacKey(s)[2] \notin Ours(d)
    BY <2>2 DEF LostByDhRotation, RcvMacKey
  <2>4. \A v \in RevealMacs(c, LostByDhRotation(c)) \ c.saved_mac_keys :
          v[2] \in (0..(g + 1)) \ F /\ v[2] \notin Ours(d)
    BY <2>3 DEF RevealMacs
  <2> QED  BY <2>1, <2>4, <1>2 DEF RevealedBelow
<1> QED  BY <1>5, <1>7, <1>8, <1>9, <1>10, <1>11 DEF KeyInv, d

\* A new DH key of theirs: it is newer than those of every message so far.
LEMMA RotateYKeepsInv ==
  ASSUME NEW c \in ContextPriv, NEW y \in DhKey, NEW g \in Nat, NEW F,
         NEW R \in SUBSET Message, NEW S \in SUBSET Message,
         NEW V \in SUBSET MacKey,
         KeysPresent(c), c.their_keyid # 0, c.their_y < y,
         KeyInv(c, g, F, R, S, V)
  PROVE  KeyInv(RotateYKeys(c, y), g, F, R, S, V)
<1> DEFINE d == RotateYKeys(c, y)
<1>1. y \in Nat /\ y # 0
  BY DEF DhKey, NULL
<1>2. /\ d.our_dh_key = c.our_dh_key /\ d.our_old_dh_key = c.our_old_dh_key
      /\ d.their_keyid = c.their_keyid + 1
      /\ d.their_y = y /\ d.their_old_y = c.their_y
      /\ d.saved_mac_keys = RevealMacs(c, LostByYRotation(c))
      /\ d.sesskeys[0][0] = DhSession(c.our_dh_key, y)
      /\ d.sesskeys[1][0] = DhSession(c.our_old_dh_key, y)
      /\ d.sesskeys[0][1] = c.sesskeys[0][0]
      /\ d.sesskeys[1][1] = c.sesskeys[1][0]
  BY RotateYFields
<1> HIDE DEF d
<1>3. /\ Ordered(c) /\ InSync(c) /\ StaleIsForeign(c) /\ KeysKnown(c, g, F)
      /\ AcceptedBelow(c, g, F, R) /\ SentBelow(c, g, F, S)
      /\ RevealedBelow(c, g, F, V \cup c.saved_mac_keys)
  BY DEF KeyInv
<1>4. /\ c.our_dh_key \in 1..g /\ c.our_old_dh_key \in 1..g
      /\ c.our_old_dh_key < c.our_dh_key
      /\ c.their_y \in Nat /\ c.their_old_y \in Nat /\ c.their_y # 0
      /\ c.their_old_y < c.their_y /\ c.their_keyid \in Nat
  BY <1>3, ContextFacts DEF Ordered, KeysKnown, Ours
<1>5. /\ Ordered(d)
      /\ Live(c, 0) /\ Live(d, 0) /\ Live(d, 1)
      /\ Ours(d) = Ours(c)
  BY <1>1, <1>2, <1>4 DEF Ordered, Live, TheirY, NULL, Ours
<1>6. /\ InSync(d)
      /\ StaleIsForeign(d)
  BY <1>2, <1>3, <1>4, <1>5
  DEF InSync, StaleIsForeign, OurKey, TheirY, DhSession, Live, NULL
<1>7. KeysKnown(d, g, F)
  <2>1. \A i, j \in 0..1 : d.sesskeys[i][j].our \in (0..g) \ F
    <3>1. \A i \in 0..1 : d.sesskeys[i][1].our \in (0..g) \ F
      BY <1>2, <1>3 DEF KeysKnown
    <3>2. \A i \in 0..1 : d.sesskeys[i][0].our \in Ours(c)
      BY <1>2 DEF DhSession, Ours
    <3> QED  BY <3>1, <3>2, <1>3 DEF KeysKnown
  <2> QED  BY <2>1, <1>3, <1>5 DEF KeysKnown
<1>8. AcceptedBelow(d, g, F, R)
  <2> SUFFICES ASSUME NEW m \in R
               PROVE  /\ m.mac_key[2] \in (1..g) \ F
                      /\ m.mac_key[2] \in Ours(d) => m.mac_key[1] <= d.their_y
                      /\ \A i, j \in 0..1 :
                           Live(d, j) /\ RcvMacKey(d.sesskeys[i][j]) = m.mac_key =>
                             m.ctr <= d.sesskeys[i][j].rcvctr
    BY DEF AcceptedBelow
  <2>1. m.mac_key[2] \in (1..g) \ F
    BY <1>3 DEF AcceptedBelow
  <2>2. m.mac_key[2] \in Ours(c) => m.mac_key[1] <= c.their_y
    BY <1>3 DEF AcceptedBelow
  <2>3. ASSUME NEW i \in 0..1, RcvMacKey(d.sesskeys[i][0]) = m.mac_key
        PROVE  FALSE
    <3>1. m.mac_key[1] = y /\ m.mac_key[2] \in Ours(c)
      BY <2>3, <1>2 DEF DhSession, RcvMacKey, Ours
    <3> QED  BY <3>1, <2>2, <1>1, <1>4
  <2>4. ASSUME NEW i \in 0..1, RcvMacKey(d.sesskeys[i][1]) = m.mac_key
        PROVE  m.ctr <= d.sesskeys[i][1].rcvctr
    BY <2>4, <1>2, <1>3, <1>5 DEF AcceptedBelow
  <2> QED  BY <2>1, <2>2, <2>3, <2>4, <1>1, <1>2, <1>4, <1>5, MessageFacts
<1>9. SentBelow(d, g, F, S)
  <2> SUFFICES ASSUME NEW m \in S
               PROVE  /\ m.mac_key[1] \in (1..g) \ F
                      /\ m.mac_key[1] \in Ours(d) => m.mac_key[2] <= d.their_y
                      /\ \A i, j \in 0..1 :
                           Live(d, j) /\ SendMacKey(d.sesskeys[i][j]) = m.mac_key =>
                             m.ctr <= d.sesskeys[i][j].sendctr
    BY DEF SentBelow
  <2>1. m.mac_key[1] \in (1..g) \ F
    BY <1>3 DEF SentBelow
  <2>2. m.mac_key[1] \in Ours(c) => m.mac_key[2] <= c.their_y
    BY <1>3 DEF SentBelow
  <2>3. ASSUME NEW i \in 0..1, SendMacKey(d.sesskeys[i][0]) = m.mac_key
        PROVE  FALSE
    <3>1. m.mac_key[2] = y /\ m.mac_key[1] \in Ours(c)
      BY <2>3, <1>2 DEF DhSession, SendMacKey, Ours
    <3> QED  BY <3>1, <2>2, <1>1, <1>4
  <2>4. ASSUME NEW i \in 0..1, SendMacKey(d.sesskeys[i][1]) = m.mac_key
        PROVE  m.ctr <= d.sesskeys[i][1].sendctr
    BY <2>4, <1>2, <1>3, <1>5 DEF SentBelow
  <2> QED  BY <2>1, <2>2, <2>3, <2>4, <1>1, <1>2, <1>4, <1>5, MessageFacts
<1>10. RevealedBelow(d, g, F, V \cup d.saved_mac_keys)
  <2>1. ASSUME NEW v \in V \cup c.saved_mac_keys
        PROVE  /\ v[2] \in (0..g) \ F
               /\ v[2] \in Ours(d) => v[1] < d.their_old_y
    <3>1. v \in MacKey
      BY DEF ContextPriv
    <3>2. v[1] \in Nat
      BY <3>1 DEF MacKey, DhKey
    <3>3. /\ v[2] \in (0..g) \ F
          /\ v[2] \in Ours(c) => v[1] < c.their_old_y
      BY <1>3 DEF RevealedBelow
    <3> QED  BY <3>2, <3>3, <1>2, <1>4, <1>5
  <2>2. ASSUME NEW i \in 0..1
        PROVE  /\ c.sesskeys[i][1].our \in (0..g) \ F
               /\ c.sesskeys[i][1].our \in Ours(d) =>
                    c.sesskeys[i][1].their < d.their_old_y
    <3>1. c.sesskeys[i][1].our \in (0..g) \ F
      BY <1>3 DEF KeysKnown
    <3>2. CASE Live(c, 1)
      BY <3>1, <3>2, <1>2, <1>3, <1>4 DEF InSync, TheirY
    <3>3. CASE ~Live(c, 1)
      BY <3>1, <3>3, <1>3, <1>5 DEF StaleIsForeign, Live, TheirY, NULL
    <3> QED  BY <3>2, <3>3
  <2>3. \A s \in LostByYRotation(c) :
          /\ RcvMacKey(s)[2] \in (0..g) \ F
          /\ RcvMacKey(s)[2] \in Ours(d) => RcvMacKey(s)[1] < d.their_old_y
    BY <2>2 DEF LostByYRotation, RcvMacKey
  <2>4. \A v \in RevealMacs(c, LostByYRotation(c)) \ c.saved_mac_keys :
          /\ v[2] \in (0..g) \ F
          /\ v[2] \in Ours(d) => v[1] < d.their_old_y
    BY <2>3 DEF RevealMacs
  <2> QED  BY <2>1, <2>4, <1>2 DEF RevealedBelow
<1> QED  BY <1>5, <1>6, <1>7, <1>8, <1>9, <1>10 DEF KeyInv, d

\* d holds the keys of c, and its counters are not behind those of c.
SameKeys(c, d) ==
  /\ d.our_dh_key = c.our_dh_key /\ d.our_old_dh_key = c.our_old_dh_key
  /\ d.their_keyid = c.their_keyid
  /\ d.their_y = c.their_y /\ d.their_old_y = c.their_old_y
  /\ \A i, j \in 0..1 :
       /\ d.sesskeys[i][j].our = c.sesskeys[i][j].our
       /\ d.sesskeys[i][j].their = c.sesskeys[i][j].their
       /\ d.sesskeys[i][j].sendctr >= c.sesskeys[i][j].sendctr
       /\ d.sesskeys[i][j].rcvctr >= c.sesskeys[i][j].rcvctr

\* A context with the same keys and no smaller counters is as good as before.
LEMMA SameKeysKeepInv ==
  ASSUME NEW c \in ContextPriv, NEW d \in ContextPriv, NEW g \in Nat, NEW F,
         NEW R \in SUBSET Message, NEW S \in SUBSET Message, NEW V, NEW W,
         SameKeys(c, d), KeyInv(c, g, F, R, S, V),
         W \cup d.saved_mac_keys \subseteq V \cup c.saved_mac_keys
  PROVE  KeyInv(d, g, F, R, S, W)
<1>1. /\ Ordered(d) /\ InSync(d) /\ StaleIsForeign(d) /\ KeysKnown(d, g, F)
  BY SMTT(20) DEF KeyInv, SameKeys, Ordered, InSync, StaleIsForeign, KeysKnown, Ours,
         Live, TheirY, OurKey
<1>2. /\ \A j \in 0..1 : Live(d, j) <=> Live(c, j)
      /\ Ours(d) = Ours(c)
  BY DEF SameKeys, Live, TheirY, Ours
<1>3. ASSUME NEW i \in 0..1, NEW j \in 0..1
      PROVE  /\ RcvMacKey(d.sesskeys[i][j]) = RcvMacKey(c.sesskeys[i][j])
             /\ SendMacKey(d.sesskeys[i][j]) = SendMacKey(c.sesskeys[i][j])
             /\ d.sesskeys[i][j].sendctr \in Nat /\ c.sesskeys[i][j].sendctr \in Nat
             /\ d.sesskeys[i][j].rcvctr \in Nat /\ c.sesskeys[i][j].rcvctr \in Nat
             /\ d.sesskeys[i][j].sendctr >= c.sesskeys[i][j].sendctr
             /\ d.sesskeys[i][j].rcvctr >= c.sesskeys[i][j].rcvctr
  BY ContextFacts, Zenon DEF SameKeys, RcvMacKey, SendMacKey
<1>4. AcceptedBelow(d, g, F, R)
  <2> SUFFICES ASSUME NEW m \in R
               PROVE  /\ m.mac_key[2] \in (1..g) \ F
                      /\ d.their_keyid # 0 /\ m.mac_key[2] \in Ours(d) =>
                           m.mac_key[1] <= d.their_y
                      /\ \A i, j \in 0..1 :
                           Live(d, j) /\ RcvMacKey(d.sesskeys[i][j]) = m.mac_key =>
                             m.ctr <= d.sesskeys[i][j].rcvctr
    BY SMTT(20) DEF AcceptedBelow
  <2>1. /\ m.mac_key[2] \in (1..g) \ F
        /\ d.their_keyid # 0 /\ m.mac_key[2] \in Ours(d) => m.mac_key[1] <= d.their_y
    BY <1>2 DEF KeyInv, AcceptedBelow, SameKeys
  <2>2. ASSUME NEW i \in 0..1, NEW j \in 0..1,
               Live(d, j), RcvMacKey(d.sesskeys[i][j]) = m.mac_key
        PROVE  m.ctr <= d.sesskeys[i][j].rcvctr
    <3>1. m.ctr <= c.sesskeys[i][j].rcvctr
      BY <2>2, <1>2, <1>3 DEF KeyInv, AcceptedBelow
    <3> QED  BY <3>1, <1>3, MessageFacts, SMTT(20)
  <2> QED  BY <2>1, <2>2
<1>5. SentBelow(d, g, F, S)
  <2> SUFFICES ASSUME NEW m \in S
               PROVE  /\ m.mac_key[1] \in (1..g) \ F
                      /\ d.their_keyid # 0 /\ m.mac_key[1] \in Ours(d) =>
                           m.mac_key[2] <= d.their_y
                      /\ \A i, j \in 0..1 :
                           Live(d, j) /\ SendMacKey(d.sesskeys[i][j]) = m.mac_key =>
                             m.ctr <= d.sesskeys[i][j].sendctr
    BY SMTT(20) DEF SentBelow
  <2>1. /\ m.mac_key[1] \in (1..g) \ F
        /\ d.their_keyid # 0 /\ m.mac_key[1] \in Ours(d) => m.mac_key[2] <= d.their_y
    BY <1>2 DEF KeyInv, SentBelow, SameKeys
  <2>2. ASSUME NEW i \in 0..1, NEW j \in 0..1,
               Live(d, j), SendMacKey(d.sesskeys[i][j]) = m.mac_key
        PROVE  m.ctr <= d.sesskeys[i][j].sendctr
    <3>1. m.ctr <= c.sesskeys[i][j].sendctr
      BY <2>2, <1>2, <1>3 DEF KeyInv, SentBelow
    <3> QED  BY <3>1, <1>3, MessageFacts, SMTT(20)
  <2> QED  BY <2>1, <2>2
<1>6. RevealedBelow(d, g, F, W \cup d.saved_mac_keys)
  BY <1>2 DEF KeyInv, RevealedBelow, SameKeys
<1> QED  BY <1>1, <1>4, <1>5, <1>6, SMTT(20) DEF KeyInv

\* Live slots hold pairwise different keys.
LEMMA DistinctSlots ==
  ASSUME NEW c \in ContextPriv, Ordered(c), InSync(c),
         NEW i \in 0..1, NEW j \in 0..1, NEW k \in 0..1, NEW l \in 0..1,
         Live(c, j), Live(c, l),
         \/ RcvMacKey(c.sesskeys[i][j]) = RcvMacKey(c.sesskeys[k][l])
         \/ SendMacKey(c.sesskeys[i][j]) = SendMacKey(c.sesskeys[k][l])
  PROVE  i = k /\ j = l
<1>1. OurKey(c, i) = OurKey(c, k) /\ TheirY(c, j) = TheirY(c, l)
  BY DEF InSync, RcvMacKey, SendMacKey
<1>2. c.our_dh_key # c.our_old_dh_key /\ c.their_y # c.their_old_y
  BY ContextFacts DEF Ordered, Live
<1> QED  BY <1>1, <1>2 DEF OurKey, TheirY

\* The keyids of a message that the context knows select a live slot.
LEMMA KnownSlot ==
  ASSUME NEW c \in ContextPriv, NEW m \in Message,
         KeysPresent(c), KnownKeyids(c, m)
  PROVE  /\ SlotRow(c, m) \in 0..1 /\ SlotCol(c, m) \in 0..1
         /\ Live(c, SlotCol(c, m)) /\ c.their_keyid # 0
<1>1. /\ m.sender_keyid \in Nat /\ m.recipient_keyid \in Nat
  BY DEF Message
<1>2. c.their_y # 0 /\ c.their_keyid # 0
  BY DEF KnownKeyids, KeysPresent, DhKey, NULL
<1> QED  BY <1>1, <1>2, ContextFacts
         DEF KnownKeyids, SlotRow, SlotCol, Live, TheirY, NULL

\* A context with one slot replaced.
WithSlot(c, i, j, s) ==
  [c EXCEPT !.sesskeys =
     [c.sesskeys EXCEPT ![i] = [c.sesskeys[i] EXCEPT ![j] = s]]]

\* d is c with slot (i, j) replaced by s.
SlotReplaced(c, d, i, j, s) ==
  /\ d.our_keyid = c.our_keyid /\ d.their_keyid = c.their_keyid
  /\ d.our_dh_key = c.our_dh_key /\ d.our_old_dh_key = c.our_old_dh_key
  /\ d.their_y = c.their_y /\ d.their_old_y = c.their_old_y
  /\ d.saved_mac_keys = c.saved_mac_keys
  /\ d.sesskeys[i][j] = s
  /\ \A k, l \in 0..1 : k # i \/ l # j => d.sesskeys[k][l] = c.sesskeys[k][l]

\* Writing one slot of sesskeys leaves every other field and slot alone.
LEMMA WithSlotFields ==
  ASSUME NEW c \in ContextPriv, NEW i \in 0..1, NEW j \in 0..1,
         NEW s \in SessKeys
  PROVE  /\ WithSlot(c, i, j, s) \in ContextPriv
         /\ SlotReplaced(c, WithSlot(c, i, j, s), i, j, s)
<1> DEFINE row == [c.sesskeys[i] EXCEPT ![j] = s]
           table == [c.sesskeys EXCEPT ![i] = row]
           d == [c EXCEPT !.sesskeys = table]
<1>1. c.sesskeys \in [0..1 -> [0..1 -> SessKeys]]
  BY DEF ContextPriv
<1>2. /\ row \in [0..1 -> SessKeys] /\ row[j] = s
      /\ \A l \in 0..1 : l # j => row[l] = c.sesskeys[i][l]
  BY <1>1
<1> HIDE DEF row
<1>3. /\ table \in [0..1 -> [0..1 -> SessKeys]] /\ table[i] = row
      /\ \A k \in 0..1 : k # i => table[k] = c.sesskeys[k]
  BY <1>1, <1>2
<1> HIDE DEF table
<1>4. d \in ContextPriv /\ d.sesskeys = table
  BY <1>3 DEF ContextPriv
<1>5. /\ d.our_keyid = c.our_keyid /\ d.their_keyid = c.their_keyid
      /\ d.our_dh_key = c.our_dh_key /\ d.our_old_dh_key = c.our_old_dh_key
      /\ d.their_y = c.their_y /\ d.their_old_y = c.their_old_y
      /\ d.saved_mac_keys = c.saved_mac_keys
  BY DEF ContextPriv
<1>6. WithSlot(c, i, j, s) = d
  BY DEF WithSlot, table, row
<1> HIDE DEF d
<1>7. SlotReplaced(c, d, i, j, s)
  BY <1>2, <1>3, <1>4, <1>5 DEF SlotReplaced
<1> QED  BY <1>4, <1>6, <1>7

\* Writing the same slot of sesskeys twice is writing it once.
LEMMA WithSlotTwice ==
  ASSUME NEW c \in ContextPriv, NEW i \in 0..1, NEW j \in 0..1,
         NEW s \in SessKeys, NEW t \in SessKeys
  PROVE  WithSlot(WithSlot(c, i, j, s), i, j, t) = WithSlot(c, i, j, t)
<1> DEFINE row(u) == [c.sesskeys[i] EXCEPT ![j] = u]
           table(u) == [c.sesskeys EXCEPT ![i] = row(u)]
           d == [c EXCEPT !.sesskeys = table(s)]
<1>1. c.sesskeys \in [0..1 -> [0..1 -> SessKeys]]
  BY DEF ContextPriv
<1>2. [row(s) EXCEPT ![j] = t] = row(t)
  BY <1>1
<1>3. row(s) \in [0..1 -> SessKeys] /\ row(t) \in [0..1 -> SessKeys]
  BY <1>1
<1> HIDE DEF row
<1>4. table(s)[i] = row(s) /\ [table(s) EXCEPT ![i] = row(t)] = table(t)
  BY <1>1, <1>3
<1> HIDE DEF table
<1>5. d.sesskeys = table(s) /\ [d EXCEPT !.sesskeys = table(t)]
                               = [c EXCEPT !.sesskeys = table(t)]
  BY DEF ContextPriv
<1>6. /\ WithSlot(c, i, j, s) = d
      /\ WithSlot(c, i, j, t) = [c EXCEPT !.sesskeys = table(t)]
  BY DEF WithSlot, table, row
<1> HIDE DEF d
<1>7. WithSlot(d, i, j, t) = [d EXCEPT !.sesskeys = table(t)]
  BY <1>2, <1>4, <1>5 DEF WithSlot
<1> QED  BY <1>5, <1>6, <1>7

\* A slot whose keys are those of a message is not blank.
LEMMA SlotOfMessage ==
  ASSUME NEW c \in ContextPriv, NEW m \in Message, KeysPresent(c),
         MacVerifies(c, m)
  PROVE  LET i == SlotRow(c, m)
             j == SlotCol(c, m)
             s == c.sesskeys[i][j]
             used == [s EXCEPT !.rcvmacused = TRUE]
             read == [used EXCEPT !.rcvctr = m.ctr]
         IN  /\ i \in 0..1 /\ j \in 0..1 /\ Live(c, j) /\ c.their_keyid # 0
             /\ RcvMacKey(s) = m.mac_key
             /\ used \in SessKeys /\ read \in SessKeys
             /\ used.our = s.our /\ used.their = s.their
             /\ used.sendctr = s.sendctr /\ used.rcvctr = s.rcvctr
             /\ read.our = s.our /\ read.their = s.their
             /\ read.sendctr = s.sendctr /\ read.rcvctr = m.ctr
             /\ MarkMacUsed(c, m) = WithSlot(c, i, j, used)
<1> DEFINE i == SlotRow(c, m)
           j == SlotCol(c, m)
           s == c.sesskeys[i][j]
<1>1. i \in 0..1 /\ j \in 0..1 /\ Live(c, j) /\ c.their_keyid # 0
  BY KnownSlot DEF MacVerifies
<1>2. s \in SessKeys /\ RcvMacKey(s) = m.mac_key
  BY <1>1 DEF MacVerifies, Slot, ContextPriv
<1>3. s.our # 0
  BY <1>2, MessageFacts DEF RcvMacKey
<1>4. s \in [our : DhKey, their : DhKey, sendctr : Nat, rcvctr : Nat,
             rcvmacused : BOOLEAN]
  BY <1>2, <1>3 DEF SessKeys, Blank, NULL
<1>5. MarkMacUsed(c, m) = WithSlot(c, i, j, [s EXCEPT !.rcvmacused = TRUE])
  BY DEF MarkMacUsed, WithSlot
<1>6. m.ctr \in Nat
  BY MessageFacts
<1> HIDE DEF s, i, j
<1>7. LET used == [s EXCEPT !.rcvmacused = TRUE]
          read == [used EXCEPT !.rcvctr = m.ctr]
      IN  /\ used \in SessKeys /\ read \in SessKeys
          /\ used.our = s.our /\ used.their = s.their
          /\ used.sendctr = s.sendctr /\ used.rcvctr = s.rcvctr
          /\ read.our = s.our /\ read.their = s.their
          /\ read.sendctr = s.sendctr /\ read.rcvctr = m.ctr
  BY <1>4, <1>6 DEF SessKeys
<1> QED  BY <1>1, <1>2, <1>5, <1>7 DEF s, i, j

\* Marking a receiving MAC key as used disturbs nothing.
LEMMA MarkMacUsedKeepsInv ==
  ASSUME NEW c \in ContextPriv, NEW m \in Message, NEW g \in Nat, NEW F,
         NEW R \in SUBSET Message, NEW S \in SUBSET Message, NEW V,
         KeysPresent(c), MacVerifies(c, m), KeyInv(c, g, F, R, S, V)
  PROVE  LET d == MarkMacUsed(c, m) IN
         /\ d \in ContextPriv /\ KeysPresent(d)
         /\ d.their_keyid = c.their_keyid
         /\ KeyInv(d, g, F, R, S, V)
<1> DEFINE i == SlotRow(c, m)
           j == SlotCol(c, m)
           used == [c.sesskeys[i][j] EXCEPT !.rcvmacused = TRUE]
           d == WithSlot(c, i, j, used)
<1>1. /\ i \in 0..1 /\ j \in 0..1 /\ used \in SessKeys
      /\ used.our = c.sesskeys[i][j].our /\ used.their = c.sesskeys[i][j].their
      /\ used.sendctr = c.sesskeys[i][j].sendctr
      /\ used.rcvctr = c.sesskeys[i][j].rcvctr
      /\ MarkMacUsed(c, m) = d
  BY SlotOfMessage
<1> HIDE DEF i, j, used
<1>2. d \in ContextPriv /\ SlotReplaced(c, d, i, j, used)
  BY <1>1, WithSlotFields
<1> HIDE DEF d
<1>2a. d.their_keyid = c.their_keyid /\ d.saved_mac_keys = c.saved_mac_keys
  BY <1>2 DEF SlotReplaced
<1>3. KeysPresent(d)
  BY <1>2 DEF KeysPresent, SlotReplaced
<1>4. SameKeys(c, d)
  <2> SUFFICES ASSUME NEW k \in 0..1, NEW l \in 0..1
               PROVE  /\ d.sesskeys[k][l].our = c.sesskeys[k][l].our
                      /\ d.sesskeys[k][l].their = c.sesskeys[k][l].their
                      /\ d.sesskeys[k][l].sendctr >= c.sesskeys[k][l].sendctr
                      /\ d.sesskeys[k][l].rcvctr >= c.sesskeys[k][l].rcvctr
    BY <1>2, SMTT(20) DEF SameKeys, SlotReplaced
  <2>1. CASE k = i /\ l = j
    BY <2>1, <1>1, <1>2, ContextFacts DEF SlotReplaced
  <2>2. CASE k # i \/ l # j
    <3>1. d.sesskeys[k][l] = c.sesskeys[k][l]
      BY <2>2, <1>2 DEF SlotReplaced
    <3>2. c.sesskeys[k][l].sendctr \in Nat /\ c.sesskeys[k][l].rcvctr \in Nat
      BY ContextFacts, SMTT(20)
    <3> QED  BY <3>1, <3>2
  <2> QED  BY <2>1, <2>2
<1> QED  BY <1>1, <1>2, <1>2a, <1>3, <1>4, SameKeysKeepInv

\* The context after m has been read, before any rotation.
AfterRead(c, m) ==
  [MarkMacUsed(c, m) EXCEPT
     !.sesskeys[SlotRow(c, m)][SlotCol(c, m)].rcvctr = m.ctr]

\* Storing the counter of a message that was read disturbs nothing.
LEMMA AfterReadKeepsInv ==
  ASSUME NEW c \in ContextPriv, NEW m \in Message, NEW g \in Nat, NEW F,
         NEW R \in SUBSET Message, NEW S \in SUBSET Message, NEW V,
         KeysPresent(c), Readable(c, m), KeyInv(c, g, F, R, S, V)
  PROVE  LET d == AfterRead(c, m) IN
         /\ d \in ContextPriv /\ KeysPresent(d)
         /\ d.their_keyid = c.their_keyid /\ c.their_keyid # 0
         /\ d.their_y = c.their_y
         /\ KeyInv(d, g, F, R \cup {m}, S, V)
<1> DEFINE i == SlotRow(c, m)
           j == SlotCol(c, m)
           s == c.sesskeys[i][j]
           used == [s EXCEPT !.rcvmacused = TRUE]
           read == [used EXCEPT !.rcvctr = m.ctr]
           d == WithSlot(c, i, j, read)
<1>1. /\ i \in 0..1 /\ j \in 0..1 /\ Live(c, j) /\ c.their_keyid # 0
      /\ RcvMacKey(s) = m.mac_key
      /\ used \in SessKeys /\ read \in SessKeys
      /\ read.our = s.our /\ read.their = s.their
      /\ read.sendctr = s.sendctr /\ read.rcvctr = m.ctr
      /\ MarkMacUsed(c, m) = WithSlot(c, i, j, used)
  BY SlotOfMessage DEF Readable
<1>2. m.ctr > s.rcvctr
  BY DEF Readable, Slot
<1> HIDE DEF i, j, s
<1>3. AfterRead(c, m) = d
  <2> DEFINE e == WithSlot(c, i, j, used)
  <2>1. e.sesskeys[i][j] = used
    <3> HIDE DEF used
    <3>1. SlotReplaced(c, e, i, j, used)
      BY <1>1, WithSlotFields
    <3> QED  BY <3>1 DEF SlotReplaced
  <2>2. WithSlot(e, i, j, read) = d
    BY <1>1, WithSlotTwice
  <2> HIDE DEF e
  <2>3. [e EXCEPT !.sesskeys[i][j].rcvctr = m.ctr]
          = WithSlot(e, i, j, [e.sesskeys[i][j] EXCEPT !.rcvctr = m.ctr])
    BY DEF WithSlot
  <2>4. AfterRead(c, m) = [e EXCEPT !.sesskeys[i][j].rcvctr = m.ctr]
    BY <1>1 DEF AfterRead, e, i, j
  <2> QED  BY <2>1, <2>2, <2>3, <2>4
<1> HIDE DEF used, read
<1>4. d \in ContextPriv /\ SlotReplaced(c, d, i, j, read)
  BY <1>1, WithSlotFields
<1> HIDE DEF d
<1>5. KeysPresent(d)
  BY <1>4 DEF KeysPresent, SlotReplaced
<1>6. SameKeys(c, d)
  <2> SUFFICES ASSUME NEW k \in 0..1, NEW l \in 0..1
               PROVE  /\ d.sesskeys[k][l].our = c.sesskeys[k][l].our
                      /\ d.sesskeys[k][l].their = c.sesskeys[k][l].their
                      /\ d.sesskeys[k][l].sendctr >= c.sesskeys[k][l].sendctr
                      /\ d.sesskeys[k][l].rcvctr >= c.sesskeys[k][l].rcvctr
    BY <1>4 DEF SameKeys, SlotReplaced
  <2>1. CASE k = i /\ l = j
    BY <2>1, <1>1, <1>2, <1>4, ContextFacts, MessageFacts DEF SlotReplaced, s
  <2>2. CASE k # i \/ l # j
    <3>1. d.sesskeys[k][l] = c.sesskeys[k][l]
      BY <2>2, <1>4 DEF SlotReplaced
    <3>2. c.sesskeys[k][l].sendctr \in Nat /\ c.sesskeys[k][l].rcvctr \in Nat
      BY ContextFacts
    <3> QED  BY <3>1, <3>2
  <2> QED  BY <2>1, <2>2
<1>7. KeyInv(d, g, F, R, S, V)
  BY <1>4, <1>6, SameKeysKeepInv DEF SlotReplaced
<1>8. /\ m.mac_key[2] \in Ours(d) /\ m.mac_key[1] \in {d.their_y, d.their_old_y}
      /\ RcvMacKey(d.sesskeys[i][j]) = m.mac_key
  BY <1>1, <1>4 DEF KeyInv, InSync, OurKey, TheirY, Ours, RcvMacKey, SlotReplaced, s
<1>9. m.mac_key[2] \in (1..g) \ F /\ m.mac_key[1] <= d.their_y
  BY <1>8, <1>7, <1>1, <1>4, MessageFacts, ContextFacts
  DEF KeyInv, KeysKnown, Ordered, Ours, SlotReplaced
<1>10. ASSUME NEW k \in 0..1, NEW l \in 0..1,
              Live(d, l), RcvMacKey(d.sesskeys[k][l]) = m.mac_key
       PROVE  m.ctr <= d.sesskeys[k][l].rcvctr
  <2>1. Live(d, j)
    BY <1>1, <1>4 DEF Live, TheirY, SlotReplaced
  <2>2. k = i /\ l = j
    BY <2>1, <1>1, <1>4, <1>7, <1>8, <1>10, DistinctSlots DEF KeyInv
  <2> QED  BY <2>2, <1>1, <1>4, MessageFacts DEF SlotReplaced
<1>11. AcceptedBelow(d, g, F, R \cup {m})
  BY <1>7, <1>9, <1>10 DEF KeyInv, AcceptedBelow
<1> QED  BY <1>1, <1>3, <1>4, <1>5, <1>7, <1>11 DEF KeyInv, SlotReplaced

\* Reading a message and rotating as its keyids ask for.
LEMMA AfterAcceptKeepsInv ==
  ASSUME NEW c \in ContextPriv, NEW m \in Message, NEW g \in Nat, NEW F,
         NEW R \in SUBSET Message, NEW S \in SUBSET Message,
         NEW V \in SUBSET MacKey,
         KeysPresent(c), Readable(c, m), m.mac_key[1] < m.next_y,
         KeyInv(c, g, F, R, S, V)
  PROVE  LET d == AfterAccept(c, m, g + 1) IN
         /\ d \in ContextPriv /\ KeysPresent(d) /\ d.their_keyid # 0
         /\ KeyInv(d, IF NeedsNewDhKey(c, m) THEN g + 1 ELSE g,
                   F, R \cup {m}, S, V)
<1> DEFINE read == AfterRead(c, m)
           h == IF NeedsNewDhKey(c, m) THEN g + 1 ELSE g
           dh == IF NeedsNewDhKey(c, m) THEN RotateDhKeys(read, g + 1) ELSE read
           d == IF NeedsNewY(c, m) THEN RotateYKeys(dh, m.next_y) ELSE dh
<1>1. /\ read \in ContextPriv /\ KeysPresent(read)
      /\ read.their_keyid = c.their_keyid /\ c.their_keyid # 0
      /\ read.their_y = c.their_y
      /\ KeyInv(read, g, F, R \cup {m}, S, V)
  BY AfterReadKeepsInv
<1>2. AfterAccept(c, m, g + 1) = d
  BY DEF AfterAccept, AfterRead
<1> HIDE DEF read
<1>3. g + 1 \in DhKey /\ m.next_y \in DhKey /\ h \in Nat
  BY DEF DhKey, NULL, Message
<1>4. /\ dh \in ContextPriv /\ KeysPresent(dh)
      /\ dh.their_keyid = c.their_keyid /\ dh.their_y = c.their_y
      /\ KeyInv(dh, h, F, R \cup {m}, S, V)
  <2>1. CASE NeedsNewDhKey(c, m)
    <3>1. R \cup {m} \in SUBSET Message
      OBVIOUS
    <3>2. KeyInv(RotateDhKeys(read, g + 1), g + 1, F, R \cup {m}, S, V)
      BY <1>1, <3>1, RotateDhKeepsInv
    <3> QED  BY <2>1, <3>2, <1>1, <1>3, RotateDhType, RotateDhFields
  <2>2. CASE ~NeedsNewDhKey(c, m)
    BY <2>2, <1>1
  <2> QED  BY <2>1, <2>2
<1> HIDE DEF dh, h
<1>5. d \in ContextPriv /\ KeysPresent(d) /\ d.their_keyid # 0
      /\ KeyInv(d, h, F, R \cup {m}, S, V)
  <2>1. CASE NeedsNewY(c, m)
    <3>1. c.their_y < m.next_y
      <4>1. SlotCol(c, m) = 0 /\ SlotRow(c, m) \in 0..1 /\ Live(c, 0)
            /\ RcvMacKey(c.sesskeys[SlotRow(c, m)][0]) = m.mac_key
        <5>1. SlotCol(c, m) = 0
          BY <2>1, ContextFacts DEF SlotCol, NeedsNewY
        <5> QED  BY <5>1, SlotOfMessage DEF Readable
      <4>2. c.sesskeys[SlotRow(c, m)][0].their = c.their_y
        BY <4>1 DEF KeyInv, InSync, TheirY
      <4> QED  BY <4>1, <4>2, SMTT(20) DEF RcvMacKey
    <3>2. dh.their_y < m.next_y /\ dh.their_keyid # 0
      BY <3>1, <1>1, <1>4
    <3>3. R \cup {m} \in SUBSET Message
      OBVIOUS
    <3>4. KeyInv(RotateYKeys(dh, m.next_y), h, F, R \cup {m}, S, V)
      BY <3>2, <3>3, <1>3, <1>4, RotateYKeepsInv
    <3>5. RotateYKeys(dh, m.next_y).their_keyid = dh.their_keyid + 1
      BY <1>3, <1>4, RotateYFields
    <3>6. RotateYKeys(dh, m.next_y).their_keyid # 0
      BY <3>5, <1>4, ContextFacts
    <3> QED  BY <2>1, <3>2, <3>4, <3>6, <1>3, <1>4, RotateYType
  <2>2. CASE ~NeedsNewY(c, m)
    BY <2>2, <1>1, <1>4
  <2> QED  BY <2>1, <2>2
<1> HIDE DEF d
<1> QED  BY <1>2, <1>5 DEF h

\* Creating a message takes a counter value no message has used.
LEMMA AfterCreateKeepsInv ==
  ASSUME NEW c \in ContextPriv, NEW g \in Nat, NEW F,
         NEW R \in SUBSET Message, NEW S \in SUBSET Message, NEW V,
         NEW kind \in Kinds, NEW e \in Nat, NEW n \in Nat,
         NEW m, m = DataMessage(c, kind, e, n), NEW d, d = AfterCreate(c),
         KeysPresent(c), c.their_keyid # 0, KeyInv(c, g, F, R, S, V)
  PROVE  /\ m \in Message /\ m.mac_key[1] < m.next_y
         /\ \A k \in S : k.mac_key # m.mac_key \/ k.ctr # m.ctr
         /\ d \in ContextPriv /\ KeysPresent(d) /\ d.their_keyid # 0
         /\ KeyInv(d, g, F, R, S \cup {m}, V \cup m.revealed)
<1> DEFINE s == c.sesskeys[1][0]
           t == [s EXCEPT !.sendctr = s.sendctr + 1]
           b == WithSlot(c, 1, 0, t)
<1>1. Ordered(c) /\ InSync(c)
  BY DEF KeyInv
<1>2. /\ Live(c, 0) /\ s.our = c.our_old_dh_key /\ s.their = c.their_y
      /\ s \in SessKeys /\ s.our # 0 /\ s.their # 0 /\ s.sendctr \in Nat
      /\ c.our_keyid \in Nat \ {0} /\ c.their_keyid \in Nat
      /\ c.our_dh_key \in DhKey /\ c.our_old_dh_key \in DhKey
      /\ c.their_y \in DhKey /\ c.saved_mac_keys \in SUBSET MacKey
  BY <1>1, ContextFacts
  DEF KeysPresent, Live, TheirY, OurKey, InSync, DhKey, NULL, ContextPriv
<1>3. s \in [our : DhKey, their : DhKey, sendctr : Nat, rcvctr : Nat,
             rcvmacused : BOOLEAN]
  BY <1>2 DEF SessKeys, Blank, NULL
<1> HIDE DEF s
<1>4. /\ t \in SessKeys /\ t.our = s.our /\ t.their = s.their
      /\ t.sendctr = s.sendctr + 1 /\ t.rcvctr = s.rcvctr
      /\ s.sendctr \in Nat /\ s.rcvctr \in Nat
  BY <1>3 DEF SessKeys
<1>5. /\ m.kind = kind /\ m.next_y = c.our_dh_key /\ m.ctr = s.sendctr + 1
      /\ m.mac_key = SendMacKey(s) /\ m.revealed = c.saved_mac_keys
  BY DEF DataMessage, s
<1>6. m \in Message
  <2>1. SendMacKey(s) \in MacKey
    BY <1>2 DEF SendMacKey, MacKey
  <2>2. c.our_keyid - 1 \in Nat /\ s.sendctr + 1 \in Nat
    BY <1>2, <1>4
  <2> QED  BY <2>1, <2>2, <1>2 DEF DataMessage, Message, s
<1>7. m.mac_key[1] = c.our_old_dh_key /\ m.mac_key[2] = c.their_y
  BY <1>2, <1>5 DEF SendMacKey
<1>8. m.mac_key[1] < m.next_y
  BY <1>1, <1>5, <1>7 DEF Ordered
<1>9. \A k \in S : k.mac_key # m.mac_key \/ k.ctr # m.ctr
  <2> SUFFICES ASSUME NEW k \in S, k.mac_key = m.mac_key
               PROVE  k.ctr # m.ctr
    OBVIOUS
  <2>1. k.ctr <= s.sendctr
    BY <1>2, <1>5 DEF KeyInv, SentBelow, s
  <2> QED  BY <2>1, <1>4, <1>5, MessageFacts
<1> HIDE DEF t
<1>10. b \in ContextPriv /\ SlotReplaced(c, b, 1, 0, t)
  BY <1>4, WithSlotFields
<1> HIDE DEF b
<1>11. d = [b EXCEPT !.saved_mac_keys = {}]
  BY DEF AfterCreate, b, WithSlot, t, s
<1>12. /\ d \in ContextPriv /\ d.saved_mac_keys = {}
       /\ d.our_keyid = c.our_keyid /\ d.their_keyid = c.their_keyid
       /\ d.our_dh_key = c.our_dh_key /\ d.our_old_dh_key = c.our_old_dh_key
       /\ d.their_y = c.their_y /\ d.their_old_y = c.their_old_y
       /\ d.sesskeys[1][0] = t
       /\ \A k, l \in 0..1 : k # 1 \/ l # 0 => d.sesskeys[k][l] = c.sesskeys[k][l]
  BY <1>10, <1>11 DEF ContextPriv, SlotReplaced
<1>13. KeysPresent(d)
  BY <1>12 DEF KeysPresent
<1>14. SameKeys(c, d)
  <2> SUFFICES ASSUME NEW k \in 0..1, NEW l \in 0..1
               PROVE  /\ d.sesskeys[k][l].our = c.sesskeys[k][l].our
                      /\ d.sesskeys[k][l].their = c.sesskeys[k][l].their
                      /\ d.sesskeys[k][l].sendctr >= c.sesskeys[k][l].sendctr
                      /\ d.sesskeys[k][l].rcvctr >= c.sesskeys[k][l].rcvctr
    BY <1>12 DEF SameKeys
  <2>1. CASE k = 1 /\ l = 0
    BY <2>1, <1>4, <1>12 DEF s
  <2>2. CASE k # 1 \/ l # 0
    <3>1. d.sesskeys[k][l] = c.sesskeys[k][l]
      BY <2>2, <1>12
    <3>2. c.sesskeys[k][l].sendctr \in Nat /\ c.sesskeys[k][l].rcvctr \in Nat
      BY ContextFacts, SMTT(20)
    <3> QED  BY <3>1, <3>2
  <2> QED  BY <2>1, <2>2, SMTT(20)
<1>15. KeyInv(d, g, F, R, S, V \cup m.revealed)
  BY <1>5, <1>12, <1>14, SameKeysKeepInv
<1>16. m.mac_key[1] \in (1..g) \ F /\ m.mac_key[2] <= d.their_y
  BY <1>2, <1>7, <1>12, <1>15, ContextFacts DEF KeyInv, KeysKnown, Ours, DhKey, NULL
<1>17. ASSUME NEW k \in 0..1, NEW l \in 0..1,
              Live(d, l), SendMacKey(d.sesskeys[k][l]) = m.mac_key
       PROVE  m.ctr <= d.sesskeys[k][l].sendctr
  <2>1. Live(d, 0) /\ SendMacKey(d.sesskeys[1][0]) = m.mac_key
    BY <1>2, <1>4, <1>5, <1>12 DEF Live, TheirY, SendMacKey
  <2>2. k = 1 /\ l = 0
    BY <2>1, <1>12, <1>15, <1>17, DistinctSlots DEF KeyInv
  <2> QED  BY <2>2, <1>4, <1>5, <1>12
<1>18. SentBelow(d, g, F, S \cup {m})
  BY <1>15, <1>16, <1>17 DEF KeyInv, SentBelow
<1>19. KeyInv(d, g, F, R, S \cup {m}, V \cup m.revealed)
  BY <1>15, <1>18 DEF KeyInv
<1> QED  BY <1>6, <1>8, <1>9, <1>12, <1>13, <1>19

\* Installing the outcome of a key exchange: k is the key it held back for us.
LEMMA InstallKeepsInv ==
  ASSUME NEW c \in ContextPriv, NEW g \in Nat, NEW F, NEW E,
         NEW R \in SUBSET Message, NEW S \in SUBSET Message,
         NEW V \in SUBSET MacKey,
         NEW k \in F, NEW their \in DhKey, E \subseteq F \ {k},
         KeyInv(c, g, F, R, S, V)
  PROVE  LET d == Install(c, k, their, g + 1) IN
         /\ d \in ContextPriv /\ KeysPresent(d) /\ d.their_keyid # 0
         /\ KeyInv(d, g + 1, E, R, S, V)
<1> DEFINE table == [i \in 0..1 |-> [j \in 0..1 |->
                       IF j = 1 THEN c.sesskeys[i][1]
                       ELSE DhSession(IF i = 0 THEN g + 1 ELSE k, their)]]
           b == [c EXCEPT !.their_keyid = 1, !.their_y = their, !.their_old_y = NULL,
                          !.our_keyid = 2, !.our_dh_key = g + 1,
                          !.our_old_dh_key = k, !.sesskeys = table]
           d == Install(c, k, their, g + 1)
<1>1. d = b
  BY DEF Install
<1>2. /\ KeysKnown(c, g, F) /\ k \in 1..g /\ k \in DhKey /\ g + 1 \in DhKey
      /\ their \in Nat /\ their # 0
  BY DEF KeyInv, KeysKnown, DhKey, NULL
<1>3. \A i, j \in 0..1 : c.sesskeys[i][j] \in SessKeys
  BY DEF ContextPriv
<1>4. \A i \in 0..1 : DhSession(IF i = 0 THEN g + 1 ELSE k, their) \in SessKeys
  BY <1>2 DEF DhSession, SessKeys
<1>5. table \in [0..1 -> [0..1 -> SessKeys]]
  BY <1>3, <1>4
<1>6. /\ table[0][0] = DhSession(g + 1, their) /\ table[1][0] = DhSession(k, their)
      /\ table[0][1] = c.sesskeys[0][1] /\ table[1][1] = c.sesskeys[1][1]
  OBVIOUS
<1> HIDE DEF table
<1>7. /\ b \in ContextPriv
      /\ b.their_keyid = 1 /\ b.their_y = their /\ b.their_old_y = 0
      /\ b.our_dh_key = g + 1 /\ b.our_old_dh_key = k /\ b.our_keyid = 2
      /\ b.sesskeys = table /\ b.saved_mac_keys = c.saved_mac_keys
  BY <1>2, <1>5 DEF ContextPriv, DhKey, NULL
<1> HIDE DEF b
<1>8. KeysPresent(b) /\ b.their_keyid # 0
  BY <1>2, <1>7 DEF KeysPresent, DhKey, NULL
<1>9. /\ Ordered(b) /\ InSync(b)
      /\ Ours(b) = {g + 1, k}
      /\ ~Live(b, 1)
  BY <1>2, <1>6, <1>7
  DEF Ordered, InSync, Live, TheirY, OurKey, NULL, Ours, DhSession
<1>10. /\ StaleIsForeign(b) /\ KeysKnown(b, g + 1, E)
  <2>1. \A i \in 0..1 : c.sesskeys[i][1].our \in (0..g) \ F
    BY <1>2 DEF KeysKnown
  <2>2. \A i \in 0..1 : b.sesskeys[i][1] = c.sesskeys[i][1]
                        /\ b.sesskeys[i][0].our \in Ours(b)
    BY <1>6, <1>7, <1>9 DEF DhSession
  <2>3. StaleIsForeign(b)
    BY <2>1, <2>2, <1>9 DEF StaleIsForeign
  <2>4. \A i, j \in 0..1 : b.sesskeys[i][j].our \in (0..(g + 1)) \ E
    BY <2>1, <2>2, <1>2, <1>9 DEF KeysKnown
  <2>5. Ours(b) \subseteq 0..(g + 1) /\ E \subseteq 1..(g + 1) /\ E \cap Ours(b) = {}
    BY <1>2, <1>9 DEF KeysKnown
  <2> QED  BY <2>3, <2>4, <2>5 DEF KeysKnown
<1>11. AcceptedBelow(b, g + 1, E, R)
  <2> SUFFICES ASSUME NEW m \in R
               PROVE  /\ m.mac_key[2] \in (1..(g + 1)) \ E
                      /\ m.mac_key[2] \notin Ours(b)
                      /\ \A i \in 0..1 : RcvMacKey(b.sesskeys[i][0]) # m.mac_key
    BY <1>9 DEF AcceptedBelow
  <2>1. m.mac_key[2] \in (1..g) \ F
    BY DEF KeyInv, AcceptedBelow
  <2>2. m.mac_key[2] \notin Ours(b)
    BY <2>1, <1>9
  <2>3. \A i \in 0..1 : RcvMacKey(b.sesskeys[i][0])[2] \in Ours(b)
    BY <1>6, <1>7, <1>9 DEF DhSession, RcvMacKey
  <2> QED  BY <2>1, <2>2, <2>3
<1>12. SentBelow(b, g + 1, E, S)
  <2> SUFFICES ASSUME NEW m \in S
               PROVE  /\ m.mac_key[1] \in (1..(g + 1)) \ E
                      /\ m.mac_key[1] \notin Ours(b)
                      /\ \A i \in 0..1 : SendMacKey(b.sesskeys[i][0]) # m.mac_key
    BY <1>9 DEF SentBelow
  <2>1. m.mac_key[1] \in (1..g) \ F
    BY DEF KeyInv, SentBelow
  <2>2. m.mac_key[1] \notin Ours(b)
    BY <2>1, <1>9
  <2>3. \A i \in 0..1 : SendMacKey(b.sesskeys[i][0])[1] \in Ours(b)
    BY <1>6, <1>7, <1>9 DEF DhSession, SendMacKey
  <2> QED  BY <2>1, <2>2, <2>3
<1>13. RevealedBelow(b, g + 1, E, V \cup b.saved_mac_keys)
  <2> SUFFICES ASSUME NEW v \in V \cup c.saved_mac_keys
               PROVE  v[2] \in (0..(g + 1)) \ E /\ v[2] \notin Ours(b)
    BY <1>7 DEF RevealedBelow
  <2>1. v[2] \in (0..g) \ F
    BY DEF KeyInv, RevealedBelow
  <2> QED  BY <2>1, <1>9
<1> QED  BY <1>1, <1>7, <1>8, <1>9, <1>10, <1>11, <1>12, <1>13 DEF KeyInv

\* A context without keys is of its type.
LEMMA BlankType == BlankPriv \in ContextPriv /\ KeysPresent(BlankPriv)
  BY DEF BlankPriv, ContextPriv, SessKeys, Blank, KeysPresent, NULL

\* Forgetting all keys, and keys generated meanwhile, disturb nothing.
LEMMA BlankKeepsInv ==
  ASSUME NEW c, NEW g \in Nat, NEW F, NEW R, NEW S, NEW V,
         KeyInv(c, g, F, R, S, V)
  PROVE  KeyInv(BlankPriv, g, F, R, S, V)
<1>1. /\ BlankPriv.our_dh_key = 0 /\ BlankPriv.our_old_dh_key = 0
      /\ BlankPriv.their_keyid = 0 /\ BlankPriv.saved_mac_keys = {}
      /\ \A i, j \in 0..1 : BlankPriv.sesskeys[i][j].our = 0
  BY DEF BlankPriv, Blank, NULL
<1>2. \A j \in 0..1 : ~Live(BlankPriv, j)
  BY <1>1 DEF Live
<1>3. Ours(BlankPriv) = {0}
  BY <1>1 DEF Ours
<1>4. F \subseteq 1..g
  BY DEF KeyInv, KeysKnown
<1>5. KeysKnown(BlankPriv, g, F)
  BY <1>1, <1>3, <1>4 DEF KeysKnown
<1> QED  BY <1>1, <1>2, <1>5
         DEF KeyInv, Ordered, InSync, StaleIsForeign, AcceptedBelow,
             SentBelow, RevealedBelow

\* Generating more DH keys than the context uses disturbs nothing.
LEMMA GenerateKeepsInv ==
  ASSUME NEW c \in ContextPriv, NEW g \in Nat, NEW F, NEW E,
         NEW R, NEW S, NEW V,
         E \subseteq F \cup {g + 1}, KeyInv(c, g, F, R, S, V)
  PROVE  KeyInv(c, g + 1, E, R, S, V)
<1>1. KeysKnown(c, g, F)
  BY DEF KeyInv
<1>2. KeysKnown(c, g + 1, E)
  BY <1>1 DEF KeysKnown
<1>3. AcceptedBelow(c, g + 1, E, R)
  BY DEF KeyInv, AcceptedBelow
<1>4. SentBelow(c, g + 1, E, S)
  BY DEF KeyInv, SentBelow
<1>5. RevealedBelow(c, g + 1, E, V \cup c.saved_mac_keys)
  BY DEF KeyInv, RevealedBelow
<1> QED  BY <1>2, <1>3, <1>4, <1>5 DEF KeyInv

-----------------------------------------------------------------------------
(* The actions.                                                            *)

\* There are two ends, each the other of the other.
LEMMA Ends ==
  ASSUME NEW p \in Peers
  PROVE  /\ Other(p) \in Peers /\ Other(p) # p /\ Other(Other(p)) = p
         /\ \A q \in Peers : q = p \/ q = Other(p)
  BY TwoPeers DEF Peers, Other

\* What Append does to the length and to the elements of a sequence.
LEMMA AppendFacts ==
  ASSUME NEW T, NEW s \in Seq(T), NEW x \in T
  PROVE  /\ Append(s, x) \in Seq(T)
         /\ DOMAIN Append(s, x) = DOMAIN s \cup {Len(s) + 1}
         /\ Len(s) + 1 \notin DOMAIN s
         /\ \A i \in DOMAIN s : Append(s, x)[i] = s[i] /\ i \in Nat /\ i <= Len(s)
         /\ Append(s, x)[Len(s) + 1] = x
         /\ Len(s) \in Nat
  OBVIOUS

\* What the invariant says of one end.
LEMMA PeerFacts ==
  ASSUME IInv, NEW p \in Peers
  PROVE  /\ context_priv[p] \in ContextPriv /\ KeysPresent(context_priv[p])
         /\ generated[p] \in Nat /\ session[p] \in Nat
         /\ wire[p] \in Seq(Message) /\ inbox[p] \in Seq(Nat)
         /\ Read(p) \in SUBSET Message /\ Sent(p) \in SUBSET Message
         /\ Revealed(p) \in SUBSET MacKey
         /\ KeyInv(context_priv[p], generated[p], Pending(p), Read(p), Sent(p),
                   Revealed(p))
<1>1. /\ context_priv[p] \in ContextPriv /\ KeysPresent(context_priv[p])
      /\ generated[p] \in Nat /\ session[p] \in Nat
      /\ inbox[p] \in Seq(Nat)
  BY DEF IInv, TypeOK
<1>2. \A q \in Peers : wire[q] \in Seq(Message)
  BY DEF IInv, TypeOK
<1>3. \A q \in Peers : \A i \in DOMAIN wire[q] : wire[q][i] \in Message
  BY <1>2
<1>4. Sent(p) \in SUBSET Message
  BY <1>3 DEF Sent
<1>5. Read(p) \in SUBSET Message
  BY <1>3, Ends DEF Read, IInv, WireInv
<1>6. Revealed(p) \in SUBSET MacKey
  BY <1>4 DEF Revealed, Message
<1> QED  BY <1>1, <1>2, <1>4, <1>5, <1>6 DEF IInv, ContextsInv

\* The invariant of both contexts holds in the next state if that of each does.
LEMMA ContextsPrimed ==
  ASSUME \A p \in Peers :
           KeyInv(context_priv'[p], generated'[p], Pending(p)', Read(p)',
                  Sent(p)', Revealed(p)')
  PROVE  ContextsInv'
  BY DEF ContextsInv, KeyInv

\* A step that leaves an end's keys and messages alone keeps what is known
\* of it, whatever is appended to the messages of the other end.
LEMMA PeerUnchanged ==
  ASSUME IInv, NEW p \in Peers,
         context_priv'[p] = context_priv[p], generated'[p] = generated[p],
         ake' = ake, joined'[p] = joined[p],
         wire'[p] = wire[p], inbox'[p] = inbox[p],
         \A i \in DOMAIN wire[Other(p)] : wire'[Other(p)][i] = wire[Other(p)][i]
  PROVE  /\ Pending(p)' = Pending(p) /\ Sent(p)' = Sent(p)
         /\ Revealed(p)' = Revealed(p) /\ Read(p)' = Read(p)
         /\ KeyInv(context_priv'[p], generated'[p], Pending(p)', Read(p)',
                   Sent(p)', Revealed(p)')
<1>1. /\ Pending(p)' = Pending(p) /\ Sent(p)' = Sent(p)
  BY DEF Pending, Sent
<1>2. Revealed(p)' = Revealed(p)
  BY <1>1 DEF Revealed
<1>3. Read(p)' = Read(p)
  BY Ends DEF Read, Accepted, IInv, WireInv
<1>4. KeyInv(context_priv[p], generated[p], Pending(p), Read(p), Sent(p),
             Revealed(p))
  BY PeerFacts
<1> QED  BY <1>1, <1>2, <1>3, <1>4

\* p injects m.
LEMMA Injecting ==
  ASSUME IInv, NEW p \in Peers, NEW m \in Message,
         wire' = [wire EXCEPT ![p] = Append(@, m)],
         m.mac_key[1] < m.next_y,
         \A k \in Sent(p) : k.mac_key # m.mac_key \/ k.ctr # m.ctr
  PROVE  /\ wire' \in [Peers -> Seq(Message)]
         /\ wire'[Other(p)] = wire[Other(p)]
         /\ \A q \in Peers :
              /\ DOMAIN wire[q] \subseteq DOMAIN wire'[q]
              /\ \A i \in DOMAIN wire[q] : wire'[q][i] = wire[q][i]
              /\ \A i \in DOMAIN wire'[q] :
                   wire'[q][i].mac_key[1] < wire'[q][i].next_y
         /\ Sent(p)' = Sent(p) \cup {m}
         /\ Revealed(p)' = Revealed(p) \cup m.revealed
         /\ NoCounterReuse'
<1>1. wire \in [Peers -> Seq(Message)]
  BY DEF IInv, TypeOK
<1>2. /\ wire'[p] = Append(wire[p], m)
      /\ \A q \in Peers : q # p => wire'[q] = wire[q]
      /\ wire' \in [Peers -> Seq(Message)]
  BY <1>1, AppendFacts
<1>3. /\ DOMAIN wire'[p] = DOMAIN wire[p] \cup {Len(wire[p]) + 1}
      /\ \A i \in DOMAIN wire[p] : wire'[p][i] = wire[p][i]
      /\ wire'[p][Len(wire[p]) + 1] = m
  BY <1>1, <1>2, AppendFacts
<1>4. \A q \in Peers : \A i \in DOMAIN wire[q] :
        wire[q][i].mac_key[1] < wire[q][i].next_y
  BY DEF IInv, WireInv
<1>5. \A q \in Peers :
              /\ DOMAIN wire[q] \subseteq DOMAIN wire'[q]
              /\ \A i \in DOMAIN wire[q] : wire'[q][i] = wire[q][i]
              /\ \A i \in DOMAIN wire'[q] :
                   wire'[q][i].mac_key[1] < wire'[q][i].next_y
  BY <1>2, <1>3, <1>4
<1>6. Sent(p)' = Sent(p) \cup {m}
  BY <1>3 DEF Sent
<1>7. Revealed(p)' = Revealed(p) \cup m.revealed
  BY <1>6 DEF Revealed
<1>8. NoCounterReuse'
  <2> SUFFICES ASSUME NEW q \in Peers,
                      NEW i \in DOMAIN wire'[q], NEW j \in DOMAIN wire'[q], i # j
               PROVE  \/ wire'[q][i].mac_key # wire'[q][j].mac_key
                      \/ wire'[q][i].ctr # wire'[q][j].ctr
    BY DEF NoCounterReuse
  <2>1. CASE i \in DOMAIN wire[q] /\ j \in DOMAIN wire[q]
    BY <2>1, <1>5 DEF IInv, NoCounterReuse
  <2>2. CASE q = p /\ i = Len(wire[p]) + 1 /\ j \in DOMAIN wire[p]
    BY <2>2, <1>3 DEF Sent
  <2>3. CASE q = p /\ j = Len(wire[p]) + 1 /\ i \in DOMAIN wire[p]
    BY <2>3, <1>3 DEF Sent
  <2> QED  BY <2>1, <2>2, <2>3, <1>2, <1>3
<1> QED  BY <1>2, <1>5, <1>6, <1>7, <1>8, Ends

\* The inductive invariant holds initially.
LEMMA InitIInv == Init => IInv
<1> SUFFICES ASSUME Init PROVE IInv
  OBVIOUS
<1>1. /\ \A p \in Peers : wire[p] = <<>> /\ inbox[p] = <<>>
      /\ ake = <<>>
  BY DEF Init
<1>2. TypeOK
  <2>1. <<>> \in Seq(Message) /\ <<>> \in Seq(Nat) /\ <<>> \in Seq([Peers -> DhKey])
    OBVIOUS
  <2>2. \A p \in Peers : context_priv[p] = BlankPriv
    BY DEF Init
  <2>3. context_priv \in [Peers -> ContextPriv]
    BY BlankType DEF Init
  <2>4. \A p \in Peers : KeysPresent(context_priv[p])
    BY <2>2, BlankType
  <2> QED  BY <2>1, <2>3, <2>4 DEF Init, TypeOK, MsgStates
<1>3. AkeInv /\ WireInv /\ NoCounterReuse
  BY <1>1 DEF AkeInv, WireInv, NoCounterReuse, Accepted, Init
<1>4. ContextsInv
  <2>1. /\ BlankPriv.our_dh_key = 0 /\ BlankPriv.our_old_dh_key = 0
        /\ BlankPriv.their_keyid = 0 /\ BlankPriv.saved_mac_keys = {}
        /\ \A i, j \in 0..1 : BlankPriv.sesskeys[i][j].our = 0
    BY DEF BlankPriv, Blank, NULL
  <2>2. Ours(BlankPriv) = {0}
    BY <2>1 DEF Ours
  <2>3. KeyInv(BlankPriv, 0, {}, {}, {}, {})
    BY <2>1, <2>2
    DEF KeyInv, KeysKnown, Ordered, InSync, Live, StaleIsForeign,
        AcceptedBelow, SentBelow, RevealedBelow
  <2>4. ASSUME NEW p \in Peers
        PROVE  /\ Pending(p) = {} /\ Read(p) = {} /\ Sent(p) = {}
               /\ Revealed(p) = {}
    BY <1>1 DEF Pending, Read, Accepted, Sent, Revealed
  <2>5. \A p \in Peers : context_priv[p] = BlankPriv /\ generated[p] = 0
    BY DEF Init
  <2> QED  BY <2>3, <2>4, <2>5 DEF ContextsInv
<1> QED  BY <1>2, <1>3, <1>4 DEF IInv

\* A key exchange preserves the inductive invariant.
LEMMA AgreeStep == IInv /\ Agree => IInv'
<1> SUFFICES ASSUME IInv, Agree PROVE IInv'
  OBVIOUS
<1>1. /\ generated \in [Peers -> Nat]
      /\ ake \in Seq([Peers -> DhKey])
      /\ \A p \in Peers : generated[p] + 1 \in DhKey
  BY DEF IInv, TypeOK, DhKey, NULL
<1>2. /\ generated' = [p \in Peers |-> generated[p] + 1]
      /\ ake' = Append(ake, generated')
      /\ UNCHANGED <<msgstate, context_priv, joined, session, wire, inbox>>
  BY DEF Agree
<1>3. generated' \in [Peers -> DhKey] /\ generated' \in [Peers -> Nat]
  BY <1>1, <1>2
<1>4. /\ ake' \in Seq([Peers -> DhKey])
      /\ DOMAIN ake' = DOMAIN ake \cup {Len(ake) + 1}
      /\ \A e \in DOMAIN ake : ake'[e] = ake[e] /\ e \in Nat /\ e <= Len(ake)
      /\ ake'[Len(ake) + 1] = generated'
      /\ Len(ake) \in Nat
  BY <1>1, <1>2, <1>3, AppendFacts
<1>5. TypeOK'
  BY <1>2, <1>3, <1>4 DEF IInv, TypeOK
<1>6. ContextsInv'
  <2> SUFFICES ASSUME NEW p \in Peers
               PROVE  KeyInv(context_priv'[p], generated'[p], Pending(p)', Read(p)',
                             Sent(p)', Revealed(p)')
    BY ContextsPrimed
  <2>1. Read(p)' = Read(p) /\ Sent(p)' = Sent(p)
    BY <1>2 DEF Read, Sent, Accepted
  <2>2. Revealed(p)' = Revealed(p)
    BY <2>1 DEF Revealed
  <2>3. Pending(p)' \subseteq Pending(p) \cup {generated[p] + 1}
    BY <1>2, <1>4 DEF Pending
  <2> HIDE DEF Agree
  <2>4. KeyInv(context_priv[p], generated[p] + 1, Pending(p)', Read(p), Sent(p),
               Revealed(p))
    BY <2>3, PeerFacts, GenerateKeepsInv
  <2> QED  BY <2>1, <2>2, <2>4, <1>2
<1>7. AkeInv'
  <2> SUFFICES ASSUME NEW p \in Peers, NEW e \in DOMAIN ake'
               PROVE  /\ ake'[e][p] <= generated'[p]
                      /\ \A d \in DOMAIN ake' : d < e => ake'[d][p] < ake'[e][p]
    BY DEF AkeInv
  <2>1. \A d \in DOMAIN ake : ake[d][p] \in Nat /\ ake[d][p] <= generated[p]
    BY <1>1 DEF IInv, AkeInv, DhKey
  <2>2. generated'[p] = generated[p] + 1 /\ generated[p] \in Nat
    BY <1>1, <1>2
  <2>3. CASE e \in DOMAIN ake
    BY <2>1, <2>2, <2>3, <1>4 DEF IInv, AkeInv
  <2>4. CASE e = Len(ake) + 1
    BY <2>1, <2>2, <2>4, <1>4
  <2> QED  BY <2>3, <2>4, <1>4
<1>8. WireInv' /\ NoCounterReuse'
  BY <1>2 DEF IInv, WireInv, NoCounterReuse, Accepted
<1> QED  BY <1>5, <1>6, <1>7, <1>8 DEF IInv

\* p creates a message from context c, which has keys, and injects it.
LEMMA Creating ==
  ASSUME IInv, NEW p \in Peers, NEW c \in ContextPriv, NEW g \in Nat,
         NEW R \in SUBSET Message, NEW kind \in Kinds, NEW n \in Nat, NEW m,
         NEW e \in Nat, NEW F,
         m = DataMessage(c, kind, e, n),
         wire' = [wire EXCEPT ![p] = Append(@, m)],
         KeysPresent(c), c.their_keyid # 0,
         KeyInv(c, g, F, R, Sent(p), Revealed(p))
  PROVE  /\ AfterCreate(c) \in ContextPriv /\ KeysPresent(AfterCreate(c))
         /\ AfterCreate(c).their_keyid # 0
         /\ wire' \in [Peers -> Seq(Message)]
         /\ wire'[Other(p)] = wire[Other(p)]
         /\ \A q \in Peers :
              /\ DOMAIN wire[q] \subseteq DOMAIN wire'[q]
              /\ \A i \in DOMAIN wire[q] : wire'[q][i] = wire[q][i]
              /\ \A i \in DOMAIN wire'[q] :
                   wire'[q][i].mac_key[1] < wire'[q][i].next_y
         /\ NoCounterReuse'
         /\ KeyInv(AfterCreate(c), g, F, R, Sent(p)', Revealed(p)')
<1>1. Sent(p) \in SUBSET Message
  BY PeerFacts
<1>2. /\ m \in Message /\ m.mac_key[1] < m.next_y
      /\ \A k \in Sent(p) : k.mac_key # m.mac_key \/ k.ctr # m.ctr
      /\ AfterCreate(c) \in ContextPriv /\ KeysPresent(AfterCreate(c))
      /\ AfterCreate(c).their_keyid # 0
      /\ KeyInv(AfterCreate(c), g, F, R, Sent(p) \cup {m},
                Revealed(p) \cup m.revealed)
  <2> DEFINE S == Sent(p)
             V == Revealed(p)
             d == AfterCreate(c)
  <2>1. S \in SUBSET Message /\ m = DataMessage(c, kind, e, n)
        /\ KeyInv(c, g, F, R, S, V) /\ d = AfterCreate(c)
        /\ KeysPresent(c) /\ c.their_keyid # 0
    BY <1>1
  <2> HIDE DEF S, V, d
  <2>2. /\ m \in Message /\ m.mac_key[1] < m.next_y
        /\ \A k \in S : k.mac_key # m.mac_key \/ k.ctr # m.ctr
        /\ d \in ContextPriv /\ KeysPresent(d) /\ d.their_keyid # 0
        /\ KeyInv(d, g, F, R, S \cup {m}, V \cup m.revealed)
    BY <2>1, AfterCreateKeepsInv
  <2> QED  BY <2>2 DEF S, V, d
<1>3. /\ wire' \in [Peers -> Seq(Message)]
      /\ wire'[Other(p)] = wire[Other(p)]
      /\ \A q \in Peers :
           /\ DOMAIN wire[q] \subseteq DOMAIN wire'[q]
           /\ \A i \in DOMAIN wire[q] : wire'[q][i] = wire[q][i]
           /\ \A i \in DOMAIN wire'[q] :
                wire'[q][i].mac_key[1] < wire'[q][i].next_y
      /\ Sent(p)' = Sent(p) \cup {m}
      /\ Revealed(p)' = Revealed(p) \cup m.revealed
      /\ NoCounterReuse'
  BY <1>2, Injecting
<1> QED  BY <1>2, <1>3

\* p installs the outcome of key exchange e, its next DH key being a new one.
LEMMA Installing ==
  ASSUME IInv, NEW p \in Peers, NEW e \in DOMAIN ake \ joined[p],
         ake' = ake, joined'[p] = joined[p] \cup {e}, NEW d,
         d = Install(context_priv[p], ake[e][p], ake[e][Other(p)], generated[p] + 1)
  PROVE  /\ ake[e][p] \in Pending(p)
         /\ Pending(p)' \subseteq Pending(p) \ {ake[e][p]}
         /\ d \in ContextPriv /\ KeysPresent(d) /\ d.their_keyid # 0
         /\ KeyInv(d, generated[p] + 1, Pending(p)', Read(p), Sent(p), Revealed(p))
<1>1. \A x \in DOMAIN ake : /\ x \in Nat /\ ake[x][p] \in DhKey
                            /\ ake[x][Other(p)] \in DhKey
  BY Ends DEF IInv, TypeOK
<1>2. ake[e][p] \in Pending(p)
  BY DEF Pending
<1>3. Pending(p)' \subseteq Pending(p) \ {ake[e][p]}
  <2> SUFFICES ASSUME NEW x \in DOMAIN ake \ joined[p], x # e
               PROVE  ake[x][p] \in Pending(p) /\ ake[x][p] # ake[e][p]
    BY DEF Pending
  <2>1. x < e \/ e < x
    BY <1>1
  <2>2. ake[x][p] < ake[e][p] \/ ake[e][p] < ake[x][p]
    BY <2>1 DEF IInv, AkeInv
  <2>3. ake[x][p] \in Nat /\ ake[e][p] \in Nat
    BY <1>1 DEF DhKey
  <2> QED  BY <2>2, <2>3 DEF Pending
<1> DEFINE c == context_priv[p]
           g == generated[p]
           our == ake[e][p]
           their == ake[e][Other(p)]
           F == Pending(p)
           E == Pending(p)'
           R == Read(p)
           S == Sent(p)
           V == Revealed(p)
<1>4. /\ their \in DhKey /\ our \in F /\ E \subseteq F \ {our}
      /\ d = Install(c, our, their, g + 1)
  BY <1>1, <1>2, <1>3
<1>5. /\ c \in ContextPriv /\ g \in Nat /\ R \in SUBSET Message
      /\ S \in SUBSET Message /\ V \in SUBSET MacKey
      /\ KeyInv(c, g, F, R, S, V)
  BY PeerFacts
<1> HIDE DEF c, g, our, their, F, E, R, S, V
<1>6. /\ d \in ContextPriv /\ KeysPresent(d)
      /\ d.their_keyid # 0 /\ KeyInv(d, g + 1, E, R, S, V)
  <2> DEFINE b == Install(c, our, their, g + 1)
  <2>1. b \in ContextPriv /\ KeysPresent(b) /\ b.their_keyid # 0
        /\ KeyInv(b, g + 1, E, R, S, V)
    BY <1>4, <1>5, InstallKeepsInv
  <2> QED  BY <2>1, <1>4
<1> QED  BY <1>2, <1>3, <1>6 DEF g, E, R, S, V

\* go_encrypted preserves the inductive invariant.
LEMMA GoEncryptedStep ==
  ASSUME IInv, NEW p \in Peers, NEW e \in DOMAIN ake, NEW resend \in BOOLEAN,
         GoEncrypted(p, e, resend)
  PROVE  IInv'
<1> DEFINE c == context_priv[p]
           installed == Install(c, ake[e][p], ake[e][Other(p)], generated[p] + 1)
           n == Len(inbox[p])
           made == DataMessage(installed, "text", e, n)
           d == IF resend THEN AfterCreate(installed) ELSE installed
<1>1. /\ e \notin joined[p]
      /\ context_priv' = [context_priv EXCEPT ![p] = d]
      /\ generated' = [generated EXCEPT ![p] = generated[p] + 1]
      /\ msgstate' = [msgstate EXCEPT ![p] = "ENCRYPTED"]
      /\ joined' = [joined EXCEPT ![p] = joined[p] \cup {e}]
      /\ session' = [session EXCEPT ![p] = e]
      /\ IF resend THEN wire' = [wire EXCEPT ![p] = Append(@, made)]
                   ELSE wire' = wire
      /\ UNCHANGED <<ake, inbox>>
  BY DEF GoEncrypted
<1>2. /\ context_priv \in [Peers -> ContextPriv] /\ generated \in [Peers -> Nat]
      /\ msgstate \in [Peers -> MsgStates] /\ session \in [Peers -> Nat]
      /\ joined \in [Peers -> SUBSET Nat]
      /\ ake \in Seq([Peers -> DhKey]) /\ e \in Nat
      /\ \A x \in DOMAIN ake : ake[x] \in [Peers -> DhKey] /\ x \in Nat
      /\ Other(p) \in Peers /\ n \in Nat
  BY Ends DEF IInv, TypeOK
<1>3. /\ context_priv'[p] = d /\ generated'[p] = generated[p] + 1
      /\ joined'[p] = joined[p] \cup {e} /\ Other(p) # p
      /\ context_priv'[Other(p)] = context_priv[Other(p)]
      /\ generated'[Other(p)] = generated[Other(p)]
      /\ joined'[Other(p)] = joined[Other(p)]
      /\ msgstate'[p] = "ENCRYPTED" /\ msgstate'[Other(p)] = msgstate[Other(p)]
  BY <1>1, <1>2, Ends
<1>7. /\ installed \in ContextPriv /\ KeysPresent(installed)
      /\ installed.their_keyid # 0
      /\ KeyInv(installed, generated[p] + 1, Pending(p)', Read(p), Sent(p),
                Revealed(p))
  BY <1>1, <1>3, Installing
<1> HIDE DEF installed, made
<1>8. /\ d \in ContextPriv /\ KeysPresent(d) /\ d.their_keyid # 0
      /\ wire' \in [Peers -> Seq(Message)] /\ wire'[Other(p)] = wire[Other(p)]
      /\ \A q \in Peers :
           /\ DOMAIN wire[q] \subseteq DOMAIN wire'[q]
           /\ \A k \in DOMAIN wire[q] : wire'[q][k] = wire[q][k]
           /\ \A k \in DOMAIN wire'[q] :
                wire'[q][k].mac_key[1] < wire'[q][k].next_y
      /\ NoCounterReuse'
      /\ KeyInv(d, generated[p] + 1, Pending(p)', Read(p), Sent(p)', Revealed(p)')
  <2>1. Read(p) \in SUBSET Message /\ generated[p] + 1 \in Nat /\ "text" \in Kinds
    BY <1>2, PeerFacts DEF Kinds
  <2>2. CASE resend
    <3> DEFINE F == Pending(p)'
    <3>1. wire' = [wire EXCEPT ![p] = Append(@, made)] /\ d = AfterCreate(installed)
      BY <2>2, <1>1
    <3>2. made = DataMessage(installed, "text", e, n)
      BY DEF made
    <3>3. KeyInv(installed, generated[p] + 1, F, Read(p), Sent(p), Revealed(p))
      BY <1>7
    <3> HIDE DEF d, n, F
    <3>4. /\ AfterCreate(installed) \in ContextPriv
          /\ KeysPresent(AfterCreate(installed))
          /\ AfterCreate(installed).their_keyid # 0
          /\ wire' \in [Peers -> Seq(Message)] /\ wire'[Other(p)] = wire[Other(p)]
          /\ \A q \in Peers :
               /\ DOMAIN wire[q] \subseteq DOMAIN wire'[q]
               /\ \A k \in DOMAIN wire[q] : wire'[q][k] = wire[q][k]
               /\ \A k \in DOMAIN wire'[q] :
                    wire'[q][k].mac_key[1] < wire'[q][k].next_y
          /\ NoCounterReuse'
          /\ KeyInv(AfterCreate(installed), generated[p] + 1, F, Read(p),
                    Sent(p)', Revealed(p)')
      BY <3>1, <3>2, <3>3, <2>1, <1>2, <1>7, Creating
    <3> QED  BY <3>1, <3>4 DEF F
  <2>3. CASE ~resend
    <3>1. wire' = wire /\ d = installed
      BY <2>3, <1>1
    <3>2. Sent(p)' = Sent(p) /\ Revealed(p)' = Revealed(p)
      BY <3>1 DEF Sent, Revealed
    <3> QED  BY <3>1, <3>2, <1>7 DEF IInv, TypeOK, WireInv, NoCounterReuse
  <2> QED  BY <2>2, <2>3
<1> HIDE DEF d
<1>9. TypeOK'
  <2>1. context_priv' \in [Peers -> ContextPriv]
    BY <1>1, <1>2, <1>8
  <2>2. \A q \in Peers : KeysPresent(context_priv'[q])
    BY <1>3, <1>8, Ends DEF IInv, TypeOK
  <2>3. /\ msgstate' \in [Peers -> MsgStates] /\ generated' \in [Peers -> Nat]
        /\ session' \in [Peers -> Nat] /\ joined' \in [Peers -> SUBSET Nat]
    BY <1>1, <1>2 DEF MsgStates
  <2> QED  BY <2>1, <2>2, <2>3, <1>1, <1>8 DEF IInv, TypeOK
<1>10. \A q \in Peers : Accepted(q)' = Accepted(q)
  BY <1>1 DEF Accepted
<1>11. ContextsInv'
  <2>1. Read(p)' = Read(p)
    BY <1>8, <1>10 DEF Read
  <2>2. KeyInv(context_priv'[p], generated'[p], Pending(p)', Read(p)', Sent(p)',
               Revealed(p)')
    BY <2>1, <1>3, <1>8
  <2>3. KeyInv(context_priv'[Other(p)], generated'[Other(p)], Pending(Other(p))',
               Read(Other(p))', Sent(Other(p))', Revealed(Other(p))')
    BY <1>1, <1>2, <1>3, <1>8, PeerUnchanged, Ends, SMTT(30)
  <2> QED  BY <2>2, <2>3, Ends, ContextsPrimed
<1>12. AkeInv'
  <2>1. \A q \in Peers : generated'[q] >= generated[q] /\ generated[q] \in Nat
                         /\ generated'[q] \in Nat
    BY <1>1, <1>2
  <2>2. \A q \in Peers : \A x \in DOMAIN ake : ake[x][q] \in Nat
    BY <1>2 DEF DhKey
  <2> QED  BY <2>1, <2>2, <1>1 DEF IInv, AkeInv
<1>13. WireInv'
  <2>1. \A q \in Peers : Accepted(q)' \subseteq DOMAIN wire'[Other(q)]
    BY <1>8, <1>10, Ends DEF IInv, WireInv
  <2>2. \A q \in Peers :
          msgstate'[q] = "ENCRYPTED" => context_priv'[q].their_keyid # 0
    BY <1>3, <1>8, Ends DEF IInv, WireInv
  <2> QED  BY <2>1, <2>2, <1>8 DEF WireInv
<1> QED  BY <1>8, <1>9, <1>11, <1>12, <1>13 DEF IInv

\* A D-H Key message for a live context preserves the inductive invariant.
LEMMA RekeyOnKeyStep ==
  ASSUME IInv, NEW p \in Peers, RekeyOnKey(p)
  PROVE  IInv'
<1>1. /\ msgstate' = [msgstate EXCEPT ![p] = "PLAINTEXT"]
      /\ UNCHANGED <<context_priv, generated, ake, joined, session, wire, inbox>>
  BY DEF RekeyOnKey
<1>2. TypeOK'
  BY <1>1 DEF IInv, TypeOK, MsgStates
<1>3. ContextsInv'
  BY <1>1, PeerUnchanged, ContextsPrimed
<1>4. \A q \in Peers : msgstate'[q] = "ENCRYPTED" => msgstate[q] = "ENCRYPTED"
  BY <1>1 DEF IInv, TypeOK
<1>5. WireInv' /\ AkeInv' /\ NoCounterReuse'
  BY <1>1, <1>4 DEF IInv, WireInv, AkeInv, NoCounterReuse, Accepted
<1> QED  BY <1>2, <1>3, <1>5 DEF IInv

\* A step of p, outside the key exchanges, that leaves p with context d and g
\* generated keys, and injects messages of p only ...
StepOf(p, d, g) ==
  /\ context_priv' = [context_priv EXCEPT ![p] = d]
  /\ generated' = [generated EXCEPT ![p] = g]
  /\ g \in Nat /\ g >= generated[p]
  /\ ake' = ake /\ joined' = joined /\ session' = session
  /\ msgstate' \in [Peers -> MsgStates]
  /\ msgstate'[Other(p)] = msgstate[Other(p)]
  /\ inbox' \in [Peers -> Seq(Nat)]
  /\ inbox'[Other(p)] = inbox[Other(p)]
  /\ wire' \in [Peers -> Seq(Message)]
  /\ wire'[Other(p)] = wire[Other(p)]
  /\ \A q \in Peers :
       /\ DOMAIN wire[q] \subseteq DOMAIN wire'[q]
       /\ \A i \in DOMAIN wire[q] : wire'[q][i] = wire[q][i]
       /\ \A i \in DOMAIN wire'[q] :
            wire'[q][i].mac_key[1] < wire'[q][i].next_y

\* ... such that its keys and its messages fit together.
Fits(p, d, g) ==
  /\ d \in ContextPriv /\ KeysPresent(d)
  /\ msgstate'[p] = "ENCRYPTED" => d.their_keyid # 0
  /\ Accepted(p)' \subseteq DOMAIN wire[Other(p)]
  /\ NoCounterReuse'
  /\ KeyInv(d, g, Pending(p), Read(p)', Sent(p)', Revealed(p)')

\* A step that changes the keys of one end only preserves the inductive
\* invariant if the new keys of that end satisfy theirs.
LEMMA OneEndStep ==
  ASSUME IInv, NEW p \in Peers, NEW d, NEW g, StepOf(p, d, g), Fits(p, d, g)
  PROVE  IInv'
<1>1. /\ context_priv \in [Peers -> ContextPriv] /\ generated \in [Peers -> Nat]
      /\ session \in [Peers -> Nat] /\ joined \in [Peers -> SUBSET Nat]
      /\ ake \in Seq([Peers -> DhKey])
  BY DEF IInv, TypeOK
<1>2. /\ context_priv'[p] = d /\ generated'[p] = g /\ Other(p) # p
      /\ Other(p) \in Peers
      /\ context_priv'[Other(p)] = context_priv[Other(p)]
      /\ generated'[Other(p)] = generated[Other(p)]
  BY <1>1, Ends DEF StepOf
<1>3. TypeOK'
  <2>1. context_priv' \in [Peers -> ContextPriv] /\ generated' \in [Peers -> Nat]
    BY <1>1 DEF StepOf, Fits
  <2>2. \A q \in Peers : KeysPresent(context_priv'[q])
    BY <1>2, Ends DEF IInv, TypeOK, Fits
  <2> QED  BY <2>1, <2>2, <1>1 DEF TypeOK, StepOf
<1>4. ContextsInv'
  <2>1. Pending(p)' = Pending(p)
    BY DEF Pending, StepOf
  <2>2. KeyInv(context_priv'[p], generated'[p], Pending(p)', Read(p)', Sent(p)',
               Revealed(p)')
    BY <2>1, <1>2 DEF Fits
  <2>3. KeyInv(context_priv'[Other(p)], generated'[Other(p)], Pending(Other(p))',
               Read(Other(p))', Sent(Other(p))', Revealed(Other(p))')
    BY <1>2, PeerUnchanged, Ends DEF StepOf
  <2> QED  BY <2>2, <2>3, Ends, ContextsPrimed
<1>5. AkeInv'
  <2>1. \A q \in Peers : generated'[q] >= generated[q] /\ generated[q] \in Nat
                         /\ generated'[q] \in Nat
    BY <1>1, SMTT(20) DEF StepOf
  <2>2. \A q \in Peers : \A x \in DOMAIN ake : ake[x][q] \in Nat
    BY <1>1 DEF DhKey
  <2> QED  BY <2>1, <2>2 DEF IInv, AkeInv, StepOf
<1>6. WireInv'
  <2>1. Accepted(Other(p))' = Accepted(Other(p))
    BY DEF StepOf, Accepted
  <2>2. Accepted(Other(p))' \subseteq DOMAIN wire'[p]
    BY <2>1, <1>2, Ends DEF IInv, WireInv, StepOf
  <2>3. Accepted(p)' \subseteq DOMAIN wire'[Other(p)]
    BY DEF StepOf, Fits
  <2>4. /\ msgstate'[Other(p)] = "ENCRYPTED"
             => context_priv'[Other(p)].their_keyid # 0
        /\ msgstate'[p] = "ENCRYPTED" => context_priv'[p].their_keyid # 0
    BY <1>2 DEF IInv, WireInv, StepOf, Fits
  <2>5. \A q \in Peers :
          /\ Accepted(q)' \subseteq DOMAIN wire'[Other(q)]
          /\ msgstate'[q] = "ENCRYPTED" => context_priv'[q].their_keyid # 0
    BY <2>2, <2>3, <2>4, Ends
  <2> QED  BY <2>5 DEF WireInv, StepOf
<1> QED  BY <1>3, <1>4, <1>5, <1>6 DEF IInv, Fits

\* Sending a message preserves the inductive invariant.
LEMMA SendStep ==
  ASSUME IInv, NEW p \in Peers, NEW kind \in Kinds, Send(p, kind)
  PROVE  IInv'
<1> DEFINE c == context_priv[p]
           m == DataMessage(c, kind, session[p], Len(inbox[p]))
           d == AfterCreate(c)
<1>1. /\ msgstate[p] = "ENCRYPTED" /\ c.their_keyid # 0
      /\ wire' = [wire EXCEPT ![p] = Append(@, m)]
      /\ context_priv' = [context_priv EXCEPT ![p] = d]
      /\ UNCHANGED <<msgstate, generated, ake, joined, session, inbox>>
  BY DEF Send, CanCreateData
<1>2. /\ c \in ContextPriv /\ KeysPresent(c) /\ generated[p] \in Nat
      /\ Read(p) \in SUBSET Message /\ Len(inbox[p]) \in Nat /\ session[p] \in Nat
      /\ KeyInv(c, generated[p], Pending(p), Read(p), Sent(p), Revealed(p))
  BY PeerFacts
<1> HIDE DEF m, c
<1>3. /\ d \in ContextPriv /\ KeysPresent(d) /\ d.their_keyid # 0
      /\ wire' \in [Peers -> Seq(Message)] /\ wire'[Other(p)] = wire[Other(p)]
      /\ \A q \in Peers :
           /\ DOMAIN wire[q] \subseteq DOMAIN wire'[q]
           /\ \A i \in DOMAIN wire[q] : wire'[q][i] = wire[q][i]
           /\ \A i \in DOMAIN wire'[q] :
                wire'[q][i].mac_key[1] < wire'[q][i].next_y
      /\ NoCounterReuse'
      /\ KeyInv(d, generated[p], Pending(p), Read(p), Sent(p)', Revealed(p)')
  BY <1>1, <1>2, Creating DEF m
<1> HIDE DEF d
<1>4. Accepted(p)' = Accepted(p) /\ Accepted(p) \subseteq DOMAIN wire[Other(p)]
  BY <1>1 DEF Accepted, IInv, WireInv
<1>5. Read(p)' = Read(p)
  BY <1>3, <1>4 DEF Read
<1>6. StepOf(p, d, generated[p])
  BY <1>1, <1>2, <1>3 DEF IInv, TypeOK, StepOf
<1>7. Fits(p, d, generated[p])
  BY <1>3, <1>4, <1>5 DEF Fits
<1> QED  BY <1>6, <1>7, OneEndStep

\* disconnect_context preserves the inductive invariant.
LEMMA DisconnectStep ==
  ASSUME IInv, NEW p \in Peers, Disconnect(p)
  PROVE  IInv'
<1> DEFINE c == context_priv[p]
           m == DataMessage(c, "disconnected", session[p], Len(inbox[p]))
           g == generated[p]
<1>1. /\ \/ /\ CanCreateData(p)
            /\ wire' = [wire EXCEPT ![p] = Append(@, m)]
         \/ UNCHANGED wire
      /\ context_priv' = [context_priv EXCEPT ![p] = BlankPriv]
      /\ msgstate' = [msgstate EXCEPT ![p] = "PLAINTEXT"]
      /\ UNCHANGED <<generated, ake, joined, session, inbox>>
  BY DEF Disconnect
<1>2. /\ c \in ContextPriv /\ KeysPresent(c) /\ generated[p] \in Nat
      /\ Read(p) \in SUBSET Message /\ Len(inbox[p]) \in Nat /\ session[p] \in Nat
      /\ KeyInv(c, g, Pending(p), Read(p), Sent(p), Revealed(p))
  BY PeerFacts
<1> HIDE DEF m, c
<1>3. /\ wire' \in [Peers -> Seq(Message)] /\ wire'[Other(p)] = wire[Other(p)]
      /\ \A q \in Peers :
           /\ DOMAIN wire[q] \subseteq DOMAIN wire'[q]
           /\ \A i \in DOMAIN wire[q] : wire'[q][i] = wire[q][i]
           /\ \A i \in DOMAIN wire'[q] :
                wire'[q][i].mac_key[1] < wire'[q][i].next_y
      /\ NoCounterReuse'
      /\ KeyInv(BlankPriv, g, Pending(p), Read(p), Sent(p)', Revealed(p)')
  <2>1. CASE CanCreateData(p) /\ wire' = [wire EXCEPT ![p] = Append(@, m)]
    <3>1. "disconnected" \in Kinds /\ c.their_keyid # 0
      BY <2>1 DEF Kinds, CanCreateData, c
    <3>2. /\ wire' \in [Peers -> Seq(Message)] /\ wire'[Other(p)] = wire[Other(p)]
          /\ \A q \in Peers :
               /\ DOMAIN wire[q] \subseteq DOMAIN wire'[q]
               /\ \A i \in DOMAIN wire[q] : wire'[q][i] = wire[q][i]
               /\ \A i \in DOMAIN wire'[q] :
                    wire'[q][i].mac_key[1] < wire'[q][i].next_y
          /\ NoCounterReuse'
          /\ KeyInv(AfterCreate(c), g, Pending(p), Read(p), Sent(p)', Revealed(p)')
      BY <2>1, <3>1, <1>2, Creating DEF m
    <3> QED  BY <3>2, <1>2, BlankKeepsInv
  <2>2. CASE UNCHANGED wire
    <3>1. Sent(p)' = Sent(p) /\ Revealed(p)' = Revealed(p)
      BY <2>2 DEF Sent, Revealed
    <3>2. KeyInv(BlankPriv, g, Pending(p), Read(p), Sent(p)', Revealed(p)')
      BY <3>1, <1>2, BlankKeepsInv
    <3> QED  BY <2>2, <3>2 DEF IInv, TypeOK, WireInv, NoCounterReuse
  <2> QED  BY <1>1, <2>1, <2>2
<1>4. Accepted(p)' = Accepted(p) /\ Accepted(p) \subseteq DOMAIN wire[Other(p)]
  BY <1>1 DEF Accepted, IInv, WireInv
<1>5. Read(p)' = Read(p)
  BY <1>3, <1>4 DEF Read
<1>6. /\ msgstate' \in [Peers -> MsgStates] /\ msgstate'[p] = "PLAINTEXT"
      /\ msgstate'[Other(p)] = msgstate[Other(p)]
  BY <1>1, Ends DEF IInv, TypeOK, MsgStates
<1>7. StepOf(p, BlankPriv, g)
  BY <1>1, <1>2, <1>3, <1>6 DEF IInv, TypeOK, StepOf
<1>8. Fits(p, BlankPriv, g)
  BY <1>3, <1>4, <1>5, <1>6, BlankType DEF Fits
<1> QED  BY <1>7, <1>8, OneEndStep

\* A refused message preserves the inductive invariant.
LEMMA RefuseStep ==
  ASSUME IInv, NEW p \in Peers, NEW i \in DOMAIN wire[Other(p)], Refuse(p, i)
  PROVE  IInv'
<1> DEFINE c == context_priv[p]
           m == wire[Other(p)][i]
           d == IF msgstate[p] = "ENCRYPTED" /\ MacVerifies(c, m)
                THEN MarkMacUsed(c, m) ELSE c
<1>1. /\ context_priv' = [context_priv EXCEPT ![p] = d]
      /\ UNCHANGED <<msgstate, generated, ake, joined, session, wire, inbox>>
  BY DEF Refuse, IInv, TypeOK
<1>2. m \in Message
  BY PeerFacts, Ends
<1>3. /\ d \in ContextPriv /\ KeysPresent(d) /\ d.their_keyid = c.their_keyid
      /\ KeyInv(d, generated[p], Pending(p), Read(p), Sent(p), Revealed(p))
  BY <1>2, PeerFacts, MarkMacUsedKeepsInv
<1> HIDE DEF d
<1>4. /\ Read(p)' = Read(p) /\ Sent(p)' = Sent(p) /\ Revealed(p)' = Revealed(p)
      /\ Accepted(p)' = Accepted(p)
  BY <1>1 DEF Read, Sent, Revealed, Accepted
<1>5. /\ Accepted(p) \subseteq DOMAIN wire[Other(p)] /\ NoCounterReuse'
      /\ msgstate'[p] = "ENCRYPTED" => d.their_keyid # 0
  BY <1>1, <1>3 DEF IInv, WireInv, NoCounterReuse
<1>6. StepOf(p, d, generated[p])
  BY <1>1 DEF IInv, TypeOK, WireInv, StepOf
<1>7. Fits(p, d, generated[p])
  BY <1>3, <1>4, <1>5 DEF Fits
<1> QED  BY <1>6, <1>7, OneEndStep

\* An accepted message preserves the inductive invariant.
LEMMA AcceptStep ==
  ASSUME IInv, NEW p \in Peers, NEW i \in DOMAIN wire[Other(p)],
         NEW answer \in BOOLEAN, Accept(p, i, answer)
  PROVE  IInv'
<1> DEFINE c == context_priv[p]
           m == wire[Other(p)][i]
           g == generated[p]
           h == IF NeedsNewDhKey(c, m) THEN g + 1 ELSE g
           accepted == AfterAccept(c, m, g + 1)
           kind == AnswerTo[m.kind]
           made == DataMessage(accepted, kind, session[p], Len(inbox[p]) + 1)
           d == IF m.kind = "disconnected" THEN BlankPriv
                ELSE IF answer THEN AfterCreate(accepted)
                ELSE accepted
           R == Read(p) \cup {m}
<1>1. /\ msgstate[p] = "ENCRYPTED" /\ Readable(c, m)
      /\ answer => m.kind \in {"text", "tlvs"} /\ kind \in Kinds
      /\ generated' = [generated EXCEPT ![p] = h]
      /\ context_priv' = [context_priv EXCEPT ![p] = d]
      /\ msgstate' = [msgstate EXCEPT ![p] =
                        IF m.kind = "disconnected" THEN "FINISHED" ELSE @]
      /\ IF answer THEN wire' = [wire EXCEPT ![p] = Append(@, made)]
                      ELSE wire' = wire
      /\ inbox' = [inbox EXCEPT ![p] = Append(@, i)]
      /\ ake' = ake /\ joined' = joined /\ session' = session
  BY DEF Accept, AnswerTo, Kinds
<1>2. /\ c \in ContextPriv /\ KeysPresent(c) /\ g \in Nat
      /\ inbox[p] \in Seq(Nat) /\ Len(inbox[p]) + 1 \in Nat
      /\ Read(p) \in SUBSET Message /\ Sent(p) \in SUBSET Message
      /\ Revealed(p) \in SUBSET MacKey
      /\ KeyInv(c, g, Pending(p), Read(p), Sent(p), Revealed(p))
  BY PeerFacts
<1>3. m \in Message /\ m.mac_key[1] < m.next_y /\ i \in Nat
  BY PeerFacts, Ends DEF IInv, WireInv
<1>4. R \in SUBSET Message /\ h \in Nat /\ h >= g
  BY <1>2, <1>3
<1>5. /\ accepted \in ContextPriv /\ KeysPresent(accepted)
      /\ accepted.their_keyid # 0
      /\ KeyInv(accepted, h, Pending(p), R, Sent(p), Revealed(p))
  <2> DEFINE F == Pending(p)
             S == Sent(p)
             V == Revealed(p)
  <2> HIDE DEF F, S, V, c, m, g
  <2>1. KeyInv(c, g, F, Read(p), S, V) /\ S \in SUBSET Message /\ V \in SUBSET MacKey
    BY <1>2 DEF F, S, V
  <2>2. /\ accepted \in ContextPriv /\ KeysPresent(accepted)
        /\ accepted.their_keyid # 0
        /\ KeyInv(accepted, h, F, R, S, V)
    BY <2>1, <1>1, <1>2, <1>3, AfterAcceptKeepsInv
  <2> QED  BY <2>2 DEF F, S, V
<1> HIDE DEF c, m, g, h, accepted, kind, made, R
<1>6. /\ inbox' \in [Peers -> Seq(Nat)] /\ inbox'[Other(p)] = inbox[Other(p)]
      /\ Accepted(p)' = Accepted(p) \cup {i}
  <2>1. inbox \in [Peers -> Seq(Nat)] /\ inbox'[p] = Append(inbox[p], i)
    BY <1>1 DEF IInv, TypeOK
  <2>2. /\ inbox'[p] \in Seq(Nat)
        /\ DOMAIN inbox'[p] = DOMAIN inbox[p] \cup {Len(inbox[p]) + 1}
        /\ \A n \in DOMAIN inbox[p] : inbox'[p][n] = inbox[p][n]
        /\ inbox'[p][Len(inbox[p]) + 1] = i
    BY <2>1, <1>2, <1>3, AppendFacts
  <2>3. Accepted(p)' = Accepted(p) \cup {i}
    BY <2>2 DEF Accepted
  <2> QED  BY <2>1, <2>2, <2>3, <1>1, Ends
<1>7. /\ msgstate' \in [Peers -> MsgStates]
      /\ msgstate'[Other(p)] = msgstate[Other(p)]
      /\ m.kind = "disconnected" => msgstate'[p] = "FINISHED"
  BY <1>1, Ends DEF IInv, TypeOK, MsgStates
<1>8. /\ wire' \in [Peers -> Seq(Message)] /\ wire'[Other(p)] = wire[Other(p)]
      /\ \A q \in Peers :
           /\ DOMAIN wire[q] \subseteq DOMAIN wire'[q]
           /\ \A k \in DOMAIN wire[q] : wire'[q][k] = wire[q][k]
           /\ \A k \in DOMAIN wire'[q] :
                wire'[q][k].mac_key[1] < wire'[q][k].next_y
      /\ NoCounterReuse'
      /\ d \in ContextPriv /\ KeysPresent(d)
      /\ m.kind # "disconnected" => d.their_keyid # 0
      /\ KeyInv(d, h, Pending(p), R, Sent(p)', Revealed(p)')
  <2>1. CASE answer
    <3>1. kind \in Kinds /\ session[p] \in Nat
      BY <2>1, <1>1, PeerFacts
    <3>2. wire' = [wire EXCEPT ![p] = Append(@, made)] /\ d = AfterCreate(accepted)
      BY <2>1, <1>1
    <3> DEFINE n == Len(inbox[p]) + 1
    <3>3. n \in Nat /\ made = DataMessage(accepted, kind, session[p], n)
      BY <1>2 DEF made
    <3> HIDE DEF d, n
    <3>4. /\ AfterCreate(accepted) \in ContextPriv
          /\ KeysPresent(AfterCreate(accepted))
          /\ AfterCreate(accepted).their_keyid # 0
          /\ wire' \in [Peers -> Seq(Message)] /\ wire'[Other(p)] = wire[Other(p)]
          /\ \A q \in Peers :
               /\ DOMAIN wire[q] \subseteq DOMAIN wire'[q]
               /\ \A k \in DOMAIN wire[q] : wire'[q][k] = wire[q][k]
               /\ \A k \in DOMAIN wire'[q] :
                    wire'[q][k].mac_key[1] < wire'[q][k].next_y
          /\ NoCounterReuse'
          /\ KeyInv(AfterCreate(accepted), h, Pending(p), R, Sent(p)',
                    Revealed(p)')
      BY <3>1, <3>2, <3>3, <1>4, <1>5, Creating
    <3> QED  BY <3>2, <3>4
  <2>2. CASE ~answer
    <3>1. wire' = wire
      BY <2>2, <1>1
    <3>2. Sent(p)' = Sent(p) /\ Revealed(p)' = Revealed(p)
      BY <3>1 DEF Sent, Revealed
    <3>3. /\ d \in ContextPriv /\ KeysPresent(d)
          /\ m.kind # "disconnected" => d.their_keyid # 0
          /\ KeyInv(d, h, Pending(p), R, Sent(p), Revealed(p))
      BY <2>2, <1>4, <1>5, BlankType, BlankKeepsInv
    <3> QED  BY <3>1, <3>2, <3>3 DEF IInv, TypeOK, WireInv, NoCounterReuse
  <2> QED  BY <2>1, <2>2
<1> HIDE DEF d
<1>9. Read(p)' = R
  BY <1>6, <1>8 DEF Read, R, m
<1>10. StepOf(p, d, h)
  BY <1>1, <1>4, <1>6, <1>7, <1>8 DEF StepOf, g
<1>11. Fits(p, d, h)
  <2>1. Accepted(p)' \subseteq DOMAIN wire[Other(p)]
    BY <1>6 DEF IInv, WireInv
  <2> QED  BY <2>1, <1>7, <1>8, <1>9 DEF Fits
<1> QED  BY <1>10, <1>11, OneEndStep

-----------------------------------------------------------------------------
(* The theorems.                                                           *)

\* Every step preserves the inductive invariant.
LEMMA NextIInv == IInv /\ [Next]_vars => IInv'
<1> SUFFICES ASSUME IInv, [Next]_vars PROVE IInv'
  OBVIOUS
<1>1. CASE Agree
  BY <1>1, AgreeStep
<1>2. ASSUME NEW p \in Peers, NEW e \in DOMAIN ake, NEW resend \in BOOLEAN,
             GoEncrypted(p, e, resend)
      PROVE  IInv'
  BY <1>2, GoEncryptedStep
<1>3. ASSUME NEW p \in Peers, RekeyOnKey(p)
      PROVE  IInv'
  BY <1>3, RekeyOnKeyStep
<1>4. ASSUME NEW p \in Peers, NEW kind \in Kinds, Send(p, kind)
      PROVE  IInv'
  BY <1>4, SendStep
<1>5. ASSUME NEW p \in Peers, Disconnect(p)
      PROVE  IInv'
  BY <1>5, DisconnectStep
<1>6. ASSUME NEW p \in Peers, NEW i \in DOMAIN wire[Other(p)], Refuse(p, i)
      PROVE  IInv'
  BY <1>6, RefuseStep
<1>7. ASSUME NEW p \in Peers, NEW i \in DOMAIN wire[Other(p)],
             NEW answer \in BOOLEAN, Accept(p, i, answer)
      PROVE  IInv'
  BY <1>7, AcceptStep
<1>8. CASE UNCHANGED vars
  <2>1. ContextsInv'
    BY <1>8, PeerUnchanged, ContextsPrimed DEF vars
  <2>2. TypeOK' /\ AkeInv' /\ WireInv' /\ NoCounterReuse'
    BY <1>8 DEF vars, IInv, TypeOK, AkeInv, WireInv, NoCounterReuse, Accepted
  <2> QED  BY <2>1, <2>2 DEF IInv
<1> QED  BY <1>1, <1>2, <1>3, <1>4, <1>5, <1>6, <1>7, <1>8 DEF Next

\* The inductive invariant holds in every reachable state.
THEOREM Invariance == Spec => []IInv
BY InitIInv, NextIInv, PTL DEF Spec

\* Every variable keeps values of its type (the session keys of DH_sesskeys
\* are blank or made of two DH keys).
THEOREM TypeCorrect == Spec => []TypeOK
<1>1. IInv => TypeOK
  BY DEF IInv
<1> QED  BY <1>1, Invariance, PTL

\* rotate_dh_keys, rotate_y_keys and go_encrypted keep the sesskeys array in
\* sync with the DH keys, whatever messages come in whatever order.
THEOREM SessKeysStayInSync == Spec => []SlotsInSync
<1>1. IInv => SlotsInSync
  BY DEF IInv, ContextsInv, KeyInv, InSync, SlotsInSync
<1> QED  BY <1>1, Invariance, PTL

\* An accepted message is not above the counter of the slot that it selects.
LEMMA AcceptedIsDone == IInv => NoReplay
<1> SUFFICES ASSUME IInv, NEW p \in Peers, NEW i \in Accepted(p),
                    Readable(context_priv[p], wire[Other(p)][i])
             PROVE  FALSE
  BY DEF NoReplay
<1> DEFINE c == context_priv[p]
           m == wire[Other(p)][i]
<1>1. /\ c \in ContextPriv /\ KeysPresent(c) /\ m \in Read(p)
      /\ m \in Message
      /\ AcceptedBelow(c, generated[p], Pending(p), Read(p))
  BY PeerFacts DEF Read, KeyInv
<1> HIDE DEF c, m
<1>2. KnownKeyids(c, m) /\ RcvMacKey(Slot(c, m)) = m.mac_key
      /\ m.ctr > Slot(c, m).rcvctr
  BY DEF Readable, MacVerifies, c, m
<1>3. SlotRow(c, m) \in 0..1 /\ SlotCol(c, m) \in 0..1 /\ Live(c, SlotCol(c, m))
  BY <1>1, <1>2, KnownSlot
<1>4. m.ctr <= Slot(c, m).rcvctr
  BY <1>1, <1>2, <1>3 DEF AcceptedBelow, Slot
<1> QED  BY <1>1, <1>2, <1>3, <1>4, MessageFacts, ContextFacts DEF Slot

\* accept_data never accepts a message a second time.
THEOREM MessagesAreReadOnce == Spec => []NoReplay
BY AcceptedIsDone, Invariance, PTL

\* create_data never encrypts two messages with the same key and counter.
THEOREM CountersAreFresh == Spec => []NoCounterReuse
<1>1. IInv => NoCounterReuse
  BY SMTT(20) DEF IInv
<1> QED  BY <1>1, Invariance, PTL

\* reveal_macs only ever gives away keys that accept_data has done with.
THEOREM RevealedKeysStayDead == Spec => []RevealedMacKeysAreDead
<1>1. IInv => RevealedMacKeysAreDead
  <2> SUFFICES ASSUME IInv, NEW p \in Peers, NEW i \in 0..1, NEW j \in 0..1,
                      Live(context_priv[p], j),
                      RcvMacKey(context_priv[p].sesskeys[i][j])
                        \in Revealed(p) \cup context_priv[p].saved_mac_keys
               PROVE  FALSE
    <3>1. \A p \in Peers :
            UNION {wire[p][n].revealed : n \in DOMAIN wire[p]} = Revealed(p)
      BY DEF Revealed, Sent
    <3> QED  BY <3>1 DEF RevealedMacKeysAreDead
  <2> DEFINE c == context_priv[p]
             v == RcvMacKey(c.sesskeys[i][j])
  <2>1. /\ c \in ContextPriv
        /\ Ordered(c) /\ InSync(c)
        /\ RevealedBelow(c, generated[p], Pending(p),
                         Revealed(p) \cup c.saved_mac_keys)
    BY PeerFacts DEF KeyInv
  <2>2. v \in Revealed(p) \cup c.saved_mac_keys
    OBVIOUS
  <2>3. v[1] = TheirY(c, j) /\ v[2] \in Ours(c) /\ c.their_keyid # 0
    BY <2>1 DEF InSync, RcvMacKey, OurKey, Ours, Live
  <2>4. v[1] < c.their_old_y
    BY <2>1, <2>2, <2>3 DEF RevealedBelow
  <2>5. v[1] \in {c.their_y, c.their_old_y}
    BY <2>3 DEF TheirY
  <2> QED  BY <2>1, <2>3, <2>4, <2>5, ContextFacts DEF Ordered
<1> QED  BY <1>1, Invariance, PTL
=============================================================================
