------------------------------ MODULE DataKeys ------------------------------
(***************************************************************************)
(* The data phase of an OTR conversation: what two contexts do to their    *)
(* session keys while they exchange Data Messages.                         *)
(*                                                                         *)
(* Modelled from OTRL/proto.c (create_data, accept_data, reveal_macs,      *)
(* rotate_dh_keys, rotate_y_keys), OTRL/dh.c (session keys, counters),     *)
(* OTRL/context_priv.c and OTRL/context.c (force_finished, force_plaintext)*)
(* and the parts of OTRL/message.c that call them (go_encrypted, the DATA  *)
(* case of message_receiving, disconnect_context, the D-H Key case that    *)
(* re-keys a live context).                                                *)
(*                                                                         *)
(* A DH key pair is the serial number its owner's generator gave it; the   *)
(* key of a message is the pair of DH keys it is derived from.  The network*)
(* keeps every message ever injected and may deliver it at any time, any   *)
(* number of times or never: loss, duplication and reordering are all      *)
(* behaviours.  The key exchange is abstracted to what it hands to         *)
(* go_encrypted: one fresh DH key pair per side (variable ake).            *)
(***************************************************************************)
EXTENDS Naturals, Sequences, FiniteSets

CONSTANTS
  A, B,     \* the two ends of the conversation
  MaxAke,   \* bound: key exchanges in a behaviour
  MaxSend   \* bound: Data Messages of both ends, by the key exchanges so far

ASSUME TwoPeers == A # B
ASSUME BoundsAreNat == MaxAke \in Nat /\ MaxSend \in [1..MaxAke -> Nat]

VARIABLES
  msgstate,      \* ConnContext.msgstate of each end
  context_priv,  \* the key material of ConnContextPriv of each end
  generated,     \* DH key pairs each end's generator has produced so far
  ake,           \* outcomes of the key exchanges: the DH key of each end
  joined,        \* the outcomes each end has gone encrypted with
  session,       \* the last of them (0: none)
  wire,          \* Data Messages each end has injected, in order
  inbox          \* messages of the other end each end has accepted, in order

vars == <<msgstate, context_priv, generated, ake, joined, session, wire, inbox>>

Peers == {A, B}
Other(p) == IF p = A THEN B ELSE A

MsgStates == {"PLAINTEXT", "ENCRYPTED", "FINISHED"}

\* NULL stands for a DH public key or key pair that is not there.
NULL == 0

-----------------------------------------------------------------------------
(* Session keys: DH_sesskeys.  sendmacused is left out: nothing sets it.   *)

Blank == [our |-> NULL, their |-> NULL, sendctr |-> 0, rcvctr |-> 0,
          rcvmacused |-> FALSE]

\* otrl_dh_session: fresh keys for this pair, counters at zero.
DhSession(our, their) ==
  [our |-> our, their |-> their, sendctr |-> 0, rcvctr |-> 0,
   rcvmacused |-> FALSE]

\* The key under which s receives, named by <<sender's, receiver's>> DH key.
RcvMacKey(s) == <<s.their, s.our>>
SendMacKey(s) == <<s.our, s.their>>

BlankPriv ==
  [our_keyid |-> 0, our_dh_key |-> NULL, our_old_dh_key |-> NULL,
   their_keyid |-> 0, their_y |-> NULL, their_old_y |-> NULL,
   sesskeys |-> [i \in 0..1 |-> [j \in 0..1 |-> Blank]],
   saved_mac_keys |-> {}]

\* Session keys of our key with a key of theirs that may not be there yet.
SessionWith(our, their) ==
  IF their = NULL THEN Blank ELSE DhSession(our, their)

\* The used receiving MAC keys of the given slots join those to be revealed.
RevealMacs(c, slots) ==
  c.saved_mac_keys \cup {RcvMacKey(s) : s \in {t \in slots : t.rcvmacused}}

\* The slots whose keys a rotation of our DH key discards.
KeptByDhRotation(c) == {c.sesskeys[0][0], c.sesskeys[0][1]}
LostByDhRotation(c) == {c.sesskeys[1][0], c.sesskeys[1][1]}

\* Make a new DH key (new) and keep the sesskeys array in sync.
RotateDhKeys(c, new) ==
  [c EXCEPT
    !.our_old_dh_key = c.our_dh_key,
    !.our_dh_key = new,
    !.our_keyid = c.our_keyid + 1,
    !.saved_mac_keys = RevealMacs(c, LostByDhRotation(c)),
    !.sesskeys =
        [i \in 0..1 |-> [j \in 0..1 |->
           IF i = 1 THEN c.sesskeys[0][j]
           ELSE SessionWith(new, IF j = 0 THEN c.their_y ELSE c.their_old_y)]]]

\* The slots whose keys a rotation of their DH key discards.
LostByYRotation(c) == {c.sesskeys[0][1], c.sesskeys[1][1]}

\* Rotate in their next DH key and keep the sesskeys array in sync.
RotateRow0Only(c, new_y) ==
  [c EXCEPT
    !.their_old_y = c.their_y,
    !.their_y = new_y,
    !.their_keyid = c.their_keyid + 1,
    !.saved_mac_keys = RevealMacs(c, LostByYRotation(c)),
    !.sesskeys[0] = [j \in 0..1 |->
           IF j = 1 THEN c.sesskeys[0][0] ELSE DhSession(c.our_dh_key, new_y)]]
RotateYKeys(c, new_y) ==
  [c EXCEPT
    !.their_old_y = c.their_y,
    !.their_y = new_y,
    !.their_keyid = c.their_keyid + 1,
    !.saved_mac_keys = RevealMacs(c, LostByYRotation(c)),
    !.sesskeys =
        [i \in 0..1 |-> [j \in 0..1 |->
           IF j = 1 THEN c.sesskeys[i][0]
           ELSE DhSession(IF i = 0 THEN c.our_dh_key ELSE c.our_old_dh_key,
                          new_y)]]]

-----------------------------------------------------------------------------
(* Creating and accepting a Data Message.                                  *)

\* "text" has something to show the user; "tlvs" carries SMP or symmetric-key
\* TLVs only; a "heartbeat" carries nothing; "disconnected" carries that TLV.
Kinds == {"text", "tlvs", "heartbeat", "disconnected"}

\* What answers a message, if anything does: a heartbeat a text, the next
\* message of SMP the one before.
AnswerTo == [text |-> "heartbeat", tlvs |-> "tlvs"]

Injected == Len(wire[A]) + Len(wire[B])
BelowBound == Injected < MaxSend[Len(ake)]

CanCreateData(p) ==
  /\ msgstate[p] = "ENCRYPTED"
  /\ context_priv[p].their_keyid # 0
  /\ BelowBound

\* The message otrl_proto_create_data makes of context c.  session and after
\* (how many messages its sender had accepted) are history: the code does not
\* put them on the wire.
DataMessage(c, kind, e, n) ==
  [kind |-> kind,
   sender_keyid |-> c.our_keyid - 1,
   recipient_keyid |-> c.their_keyid,
   next_y |-> c.our_dh_key,
   ctr |-> c.sesskeys[1][0].sendctr + 1,
   mac_key |-> SendMacKey(c.sesskeys[1][0]),
   revealed |-> c.saved_mac_keys,
   session |-> e,
   after |-> n]

\* What it leaves behind: the counter advanced, the revealed keys forgotten.
CounterKept(c) == [c EXCEPT !.saved_mac_keys = {}]
AfterCreate(c) ==
  [c EXCEPT !.sesskeys[1][0].sendctr = @ + 1, !.saved_mac_keys = {}]

\* The keyids m claims are ones that c still holds keys for.
KnownKeyids(c, m) ==
  /\ c.their_keyid # 0
  /\ \/ m.sender_keyid = c.their_keyid
     \/ m.sender_keyid + 1 = c.their_keyid
  /\ \/ m.recipient_keyid = c.our_keyid
     \/ m.recipient_keyid + 1 = c.our_keyid
  /\ m.sender_keyid # 0
  /\ m.recipient_keyid # 0
  /\ m.sender_keyid + 1 = c.their_keyid => c.their_old_y # NULL

\* The slot of sesskeys that m's keyids select.
SlotRow(c, m) == c.our_keyid - m.recipient_keyid
SlotCol(c, m) == c.their_keyid - m.sender_keyid
Slot(c, m) == c.sesskeys[SlotRow(c, m)][SlotCol(c, m)]

MacVerifies(c, m) == KnownKeyids(c, m) /\ RcvMacKey(Slot(c, m)) = m.mac_key

\* otrl_proto_accept_data accepts m in context c.
ReplayAccepted(c, m) == MacVerifies(c, m) /\ m.ctr >= Slot(c, m).rcvctr
Readable(c, m) == MacVerifies(c, m) /\ m.ctr > Slot(c, m).rcvctr

\* A replay is noticed after its MAC key has been marked as used.
MarkMacUsed(c, m) ==
  [c EXCEPT !.sesskeys[SlotRow(c, m)][SlotCol(c, m)].rcvmacused = TRUE]

\* Our latest DH key was used: make another.  Their latest was: rotate theirs.
Never(c, m) == FALSE
Always(c, m) == TRUE
NeedsNewDhKey(c, m) == m.recipient_keyid = c.our_keyid
NeedsNewY(c, m) == m.sender_keyid = c.their_keyid

\* The context after an accepted message; new is the next DH key pair.
CounterNotStored(c, m, new) ==
  LET dh == IF NeedsNewDhKey(c, m) THEN RotateDhKeys(MarkMacUsed(c, m), new)
            ELSE MarkMacUsed(c, m)
  IN  IF NeedsNewY(c, m) THEN RotateYKeys(dh, m.next_y) ELSE dh
AfterAccept(c, m, new) ==
  LET read == [MarkMacUsed(c, m) EXCEPT
                 !.sesskeys[SlotRow(c, m)][SlotCol(c, m)].rcvctr = m.ctr]
      dh == IF NeedsNewDhKey(c, m) THEN RotateDhKeys(read, new) ELSE read
  IN  IF NeedsNewY(c, m) THEN RotateYKeys(dh, m.next_y) ELSE dh

-----------------------------------------------------------------------------
Init ==
  /\ msgstate = [p \in Peers |-> "PLAINTEXT"]
  /\ context_priv = [p \in Peers |-> BlankPriv]
  /\ generated = [p \in Peers |-> 0]
  /\ ake = <<>>
  /\ joined = [p \in Peers |-> {}]
  /\ session = [p \in Peers |-> 0]
  /\ wire = [p \in Peers |-> <<>>]
  /\ inbox = [p \in Peers |-> <<>>]

\* A key exchange both ends take part in: each contributes a new DH key.
Agree ==
  /\ Len(ake) < MaxAke /\ Injected <= MaxSend[Len(ake) + 1]
  /\ generated' = [p \in Peers |-> generated[p] + 1]
  /\ ake' = Append(ake, generated')
  /\ UNCHANGED <<msgstate, context_priv, joined, session, wire, inbox>>

OldKeyForgotten(c, our, their, new) ==
  [c EXCEPT
    !.their_keyid = 1, !.their_y = their, !.their_old_y = NULL,
    !.our_keyid = 2, !.our_dh_key = new,
    !.sesskeys[0][0] = DhSession(new, their),
    !.sesskeys[1][0] = DhSession(our, their)]
\* The context once go_encrypted has installed the outcome of a key exchange:
\* their key, ours, and the next one of ours (new).  The exchange's keys are
\* new to it, so neither the "refresh" branch nor the one that keeps our keys
\* is taken.  sesskeys[0][1] and [1][1] keep what they held.
Install(c, our, their, new) ==
  [c EXCEPT
    !.their_keyid = 1, !.their_y = their, !.their_old_y = NULL,
    !.our_keyid = 2, !.our_dh_key = new, !.our_old_dh_key = our,
    !.sesskeys =
        [i \in 0..1 |-> [j \in 0..1 |->
           IF j = 1 THEN c.sesskeys[i][1]
           ELSE DhSession(IF i = 0 THEN new ELSE our, their)]]]

\* go_encrypted: end p finishes key exchange e (not always the latest one: module
\* Ake).  maybe_resend then sends the
\* user's last message, if it was not sent or could not be read.
GoEncrypted(p, e, resend) ==
  LET installed == Install(context_priv[p], ake[e][p], ake[e][Other(p)],
                           generated[p] + 1)
  IN
  /\ e \notin joined[p]
  /\ resend => BelowBound
  /\ context_priv' = [context_priv EXCEPT ![p] =
       IF resend THEN AfterCreate(installed) ELSE installed]
  /\ generated' = [generated EXCEPT ![p] = @ + 1]
  /\ msgstate' = [msgstate EXCEPT ![p] = "ENCRYPTED"]
  /\ joined' = [joined EXCEPT ![p] = @ \cup {e}]
  /\ session' = [session EXCEPT ![p] = e]
  /\ wire' = IF resend
             THEN [wire EXCEPT ![p] =
                     Append(@, DataMessage(installed, "text", e, Len(inbox[p])))]
             ELSE wire
  /\ UNCHANGED <<ake, inbox>>

\* A D-H Key message reaches an instance context whose master sent a new
\* D-H Commit: the context takes the master's state (no master is ENCRYPTED
\* in protocol version 3) and keeps its keys until the exchange ends.
RekeyOnKey(p) ==
  /\ msgstate[p] = "ENCRYPTED"
  /\ msgstate' = [msgstate EXCEPT ![p] = "PLAINTEXT"]
  /\ UNCHANGED <<context_priv, generated, ake, joined, session, wire, inbox>>

\* A message with text from the user, or one that only carries TLVs.
Send(p, kind) ==
  /\ kind \in {"text", "tlvs"}
  /\ CanCreateData(p)
  /\ wire' = [wire EXCEPT ![p] =
       Append(@, DataMessage(context_priv[p], kind, session[p], Len(inbox[p])))]
  /\ context_priv' = [context_priv EXCEPT ![p] = AfterCreate(@)]
  /\ UNCHANGED <<msgstate, generated, ake, joined, session, inbox>>

\* disconnect_context: tell the other end if ENCRYPTED, then force_plaintext.
Disconnect(p) ==
  /\ \/ /\ CanCreateData(p)
        /\ wire' = [wire EXCEPT ![p] =
             Append(@, DataMessage(context_priv[p], "disconnected", session[p],
                                   Len(inbox[p])))]
     \/ /\ msgstate[p] # "ENCRYPTED"
        /\ UNCHANGED wire
  /\ context_priv' = [context_priv EXCEPT ![p] = BlankPriv]
  /\ msgstate' = [msgstate EXCEPT ![p] = "PLAINTEXT"]
  /\ UNCHANGED <<generated, ake, joined, session, inbox>>

\* Message i of the other end arrives and cannot be read: a Data Message is
\* ignored outside ENCRYPTED, refused when its keys or its counter are wrong.
Refuse(p, i) ==
  LET m == wire[Other(p)][i]
      c == context_priv[p]
  IN
  /\ msgstate[p] = "ENCRYPTED" => ~Readable(c, m)
  /\ context_priv' =
       IF msgstate[p] = "ENCRYPTED" /\ MacVerifies(c, m)
       THEN [context_priv EXCEPT ![p] = MarkMacUsed(c, m)]
       ELSE context_priv
  /\ UNCHANGED <<msgstate, generated, ake, joined, session, wire, inbox>>

\* Message i of the other end arrives and is accepted.  A disconnect notice
\* finishes the context.  Another message may be answered in the same step: a
\* text that finds p silent for HEARTBEAT_INTERVAL, or an SMP message.
Accept(p, i, answer) ==
  LET m == wire[Other(p)][i]
      c == context_priv[p]
      new == generated[p] + 1
      accepted == AfterAccept(c, m, new)
  IN
  /\ msgstate[p] = "ENCRYPTED"
  /\ Readable(c, m)
  /\ answer => m.kind \in DOMAIN AnswerTo /\ BelowBound
  /\ generated' = [generated EXCEPT ![p] = IF NeedsNewDhKey(c, m) THEN new ELSE @]
  /\ context_priv' = [context_priv EXCEPT ![p] =
       IF m.kind = "disconnected" THEN BlankPriv
       ELSE IF answer THEN AfterCreate(accepted)
       ELSE accepted]
  /\ msgstate' = [msgstate EXCEPT ![p] =
                    IF m.kind = "disconnected" THEN "FINISHED" ELSE @]
  /\ wire' = IF answer
             THEN [wire EXCEPT ![p] =
                     Append(@, DataMessage(accepted, AnswerTo[m.kind], session[p],
                                           Len(inbox[p]) + 1))]
             ELSE wire
  /\ inbox' = [inbox EXCEPT ![p] = Append(@, i)]
  /\ UNCHANGED <<ake, joined, session>>

Next ==
  \/ Agree
  \/ \E p \in Peers :
       \/ \E e \in DOMAIN ake, resend \in BOOLEAN : GoEncrypted(p, e, resend)
       \/ RekeyOnKey(p)
       \/ \E kind \in Kinds : Send(p, kind)
       \/ Disconnect(p)
       \/ \E i \in DOMAIN wire[Other(p)] :
            \/ Refuse(p, i)
            \/ \E answer \in BOOLEAN : Accept(p, i, answer)

Spec == Init /\ [][Next]_vars

-----------------------------------------------------------------------------
(* Properties.                                                             *)

DhKey == Nat \ {NULL}
MacKey == DhKey \X DhKey

SessKeys ==
  {Blank} \cup [our : DhKey, their : DhKey, sendctr : Nat, rcvctr : Nat,
                rcvmacused : BOOLEAN]

ContextPriv ==
  [our_keyid : Nat, our_dh_key : Nat, our_old_dh_key : Nat,
   their_keyid : Nat, their_y : Nat, their_old_y : Nat,
   sesskeys : [0..1 -> [0..1 -> SessKeys]],
   saved_mac_keys : SUBSET MacKey]

\* A context that holds a key of theirs holds both of its own.
KeysPresent(c) ==
  c.their_keyid # 0 =>
    /\ c.our_keyid # 0
    /\ {c.our_dh_key, c.our_old_dh_key, c.their_y} \subseteq DhKey

Message ==
  [kind : Kinds, sender_keyid : Nat, recipient_keyid : Nat, next_y : DhKey,
   ctr : Nat, mac_key : MacKey, revealed : SUBSET MacKey,
   session : Nat, after : Nat]

\* The type invariant: every variable holds values of its type; session keys
\* are made of two DH keys or blank, never of one (proto.c:165, dh.c:124).
TypeOK ==
  /\ msgstate \in [Peers -> MsgStates]
  /\ context_priv \in [Peers -> ContextPriv]
  /\ \A p \in Peers : KeysPresent(context_priv[p])
  /\ generated \in [Peers -> Nat]
  /\ ake \in Seq([Peers -> DhKey])
  /\ joined \in [Peers -> SUBSET Nat]
  /\ session \in [Peers -> Nat]
  /\ wire \in [Peers -> Seq(Message)]
  /\ inbox \in [Peers -> Seq(Nat)]

HasKeys(p) == context_priv[p].their_keyid # 0

OurKey(c, i) == IF i = 0 THEN c.our_dh_key ELSE c.our_old_dh_key
TheirY(c, j) == IF j = 0 THEN c.their_y ELSE c.their_old_y

\* An arriving message can select a slot of column j.
Live(c, j) == c.their_keyid # 0 /\ TheirY(c, j) # NULL

Accepted(p) == {inbox[p][n] : n \in DOMAIN inbox[p]}

\* "Be sure to keep the sesskeys array in sync" (proto.c:146, 195): whatever
\* sequence of rotations and re-keyings an end went through, the slot that a
\* pair of keyids selects holds the session keys of exactly those DH keys.
SlotsInSync ==
  \A p \in Peers :
    LET c == context_priv[p]
    IN  \A i, j \in 0..1 :
          Live(c, j) => /\ c.sesskeys[i][j].our = OurKey(c, i)
                        /\ c.sesskeys[i][j].their = TheirY(c, j)

\* Two ends that hold keys of the same key exchange never drift apart by more
\* than one rotation, and mean the same DH key by the same keyid, whatever
\* the network loses, repeats or reorders (proto.c:808, message.c:594).
KeyidsAgree ==
  \A p \in Peers :
    LET c == context_priv[p]
        d == context_priv[Other(p)]
    IN  HasKeys(p) /\ HasKeys(Other(p)) /\ session[p] = session[Other(p)] =>
          \/ c.their_keyid = d.our_keyid /\ c.their_y = d.our_dh_key
          \/ c.their_keyid + 1 = d.our_keyid /\ c.their_y = d.our_old_dh_key

\* A message that was accepted once is never readable again (proto.c:836):
\* not after rotations, not after the session was closed and set up anew.
NoReplay ==
  \A p \in Peers :
    msgstate[p] = "ENCRYPTED" =>
      \A i \in Accepted(p) : ~Readable(context_priv[p], wire[Other(p)][i])

\* No two messages are encrypted under the same key with the same counter
\* (proto.c:571), so no key stream of counter mode is used twice.
NoCounterReuse ==
  \A p \in Peers :
    \A i, j \in DOMAIN wire[p] :
      i # j => \/ wire[p][i].mac_key # wire[p][j].mac_key
               \/ wire[p][i].ctr # wire[p][j].ctr

\* A MAC key that has been published, or is queued to be (proto.c:103, 599),
\* is one its owner will not verify a message with any more.
RevealedMacKeysAreDead ==
  \A p \in Peers :
    LET c == context_priv[p]
        revealed == UNION {wire[p][i].revealed : i \in DOMAIN wire[p]}
    IN  \A i, j \in 0..1 :
          Live(c, j) =>
            RcvMacKey(c.sesskeys[i][j]) \notin revealed \cup c.saved_mac_keys

\* Losing, repeating and reordering earlier messages never makes a later one
\* unreadable: in the session it was made in, a message newer than all that
\* were accepted is accepted (proto.c:805-840).
InOrderReadable ==
  \A p \in Peers :
    msgstate[p] = "ENCRYPTED" =>
      \A i \in DOMAIN wire[Other(p)] :
        LET m == wire[Other(p)][i]
        IN  m.session = session[p] /\ (\A j \in Accepted(p) : j < i)
              => Readable(context_priv[p], m)

\* Forward secrecy (the purpose of proto.c:856-868): once p has accepted a
\* message that its correspondent made after reading a message of p, p no
\* longer holds the DH key that message of p was encrypted under.
KeyGoneAfterRoundTrip ==
  \A p \in Peers :
    LET q == Other(p)
        c == context_priv[p]
    IN  \A i \in Accepted(p) :
          \A n \in 1..wire[q][i].after :
            LET sent == wire[p][inbox[q][n]]
            IN  sent.mac_key[1] \notin {c.our_dh_key, c.our_old_dh_key}

\* The data phase implements a channel on which a message is read at most
\* once, and only in the session it was sent in (go_encrypted, accept_data,
\* force_finished together).
Channel == INSTANCE SecureChannel WITH
  open <- [p \in Peers |-> msgstate[p] = "ENCRYPTED"],
  joined <- joined,
  last <- session,
  sent <- [p \in Peers |-> [i \in DOMAIN wire[p] |-> wire[p][i].session]],
  shown <- inbox

ImplementsChannel == Channel!Spec
=============================================================================
