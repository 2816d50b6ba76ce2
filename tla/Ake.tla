--------------------------------- MODULE Ake ---------------------------------
(***************************************************************************)
(* The authenticated key exchange of protocol versions 2 and 3 between two *)
(* ends, each in either role.                                              *)
(*                                                                         *)
(* Modelled from OTRL/auth.c (start_v23 and the four message handlers,     *)
(* copy_on_key) and from OTRL/message.c (which context a message goes to,  *)
(* sending the reply, go_encrypted, otrl_message_poll).                    *)
(*                                                                         *)
(* In version 2 one context holds the exchange (auth).  In version 3 a     *)
(* D-H Commit is sent from the master context (m_auth) and everything else *)
(* happens in the instance context of the correspondent (auth), which is   *)
(* as good as created in state NONE with the first message it gets.        *)
(*                                                                         *)
(* A DH key pair is its serial number.  The key r of a D-H Commit is named *)
(* by the DH key it encrypts; a message that is authenticated under the    *)
(* shared secret of two DH keys carries both.                              *)
(***************************************************************************)
EXTENDS Naturals, Sequences, FiniteSets, SequencesExt

CONSTANTS
  A, B,       \* the two ends
  Versions,   \* protocol versions: the ends choose one of these, the same
  Starters,   \* the ends that start an exchange (a Query or a tag reached them)
  MaxStarts,  \* bound: exchanges the ends start in all
  MaxDup,     \* bound: messages the network repeats
  MaxEvents,  \* bound: exchanges started and messages repeated in all
  Faults      \* what else goes wrong in this instance

ASSUME TwoEnds == A # B
ASSUME VersionsAreSupported == Versions \subseteq {2, 3}
ASSUME StartersAreEnds == Starters \subseteq {A, B}
ASSUME BoundsAreNat == {MaxStarts, MaxDup, MaxEvents} \subseteq Nat

\* "reorder" of messages, which loses one when the others overtake it for good;
\* "slow": an answer may take more than MAX_AKE_WAIT_TIME; "noprivkey":
\* create_privkey may fail; "leave": a user ends the conversation.
ASSUME FaultsAreKnown ==
  Faults \subseteq {"reorder", "slow", "noprivkey", "leave"}

VARIABLES
  version,   \* the protocol version in use
  m_auth,    \* OtrlAuthInfo of the master context (version 3)
  auth,      \* OtrlAuthInfo of the context with the correspondent
  msgstate,  \* msgstate of that context
  current,   \* the DH keys <<ours, theirs>> it went encrypted with, or Nobody
  net,       \* net[p]: messages on their way to p
  keys,      \* DH key pairs generated so far
  starts,    \* exchanges the ends have started
  dups,      \* messages the network has repeated
  resent,    \* history: an end has sent a Signature message again
  outcomes,  \* history: the exchanges that an end has finished
  joined     \* history: the exchanges each end has finished, in order

vars == <<version, m_auth, auth, msgstate, current, net, keys, starts, dups,
          resent, outcomes, joined>>

Peers == {A, B}
Other(p) == IF p = A THEN B ELSE A

NULL == 0
Nobody == <<NULL, NULL>>

-----------------------------------------------------------------------------
(* Messages: from and to are DH keys, of the sender and of the receiver.   *)

Msg(type, r, from, to) == [type |-> type, r |-> r, from |-> from, to |-> to]

NoMsg == Msg("none", NULL, NULL, NULL)
DhCommit(x) == Msg("commit", NULL, x, NULL)
DhKey(y) == Msg("key", NULL, y, NULL)
RevealSig(r, x, y) == Msg("revealsig", r, x, y)
Signature(y, x) == Msg("signature", NULL, y, x)

-----------------------------------------------------------------------------
(* OtrlAuthInfo.  encgx is the encrypted g^x of a D-H Commit, ours or one  *)
(* we got; hashgx, the hash of the same g^x, is left out.                  *)

AuthStates == {"NONE", "AWAITING_DHKEY", "AWAITING_REVEALSIG", "AWAITING_SIG"}

Cleared ==
  [authstate |-> "NONE", our_dh |-> NULL, r |-> NULL, encgx |-> NULL,
   their_pub |-> NULL, lastauthmsg |-> NoMsg]

\* otrl_auth_start_v23, with the new key pair x.
Started(x) ==
  [Cleared EXCEPT
    !.our_dh = x, !.r = x, !.encgx = x, !.lastauthmsg = DhCommit(x),
    !.authstate = "AWAITING_DHKEY"]

\* otrl_auth_handle_commit: take the other end's parameters and answer with
\* the new key pair y.
Responding(m, y) ==
  [Cleared EXCEPT
    !.our_dh = y, !.encgx = m.from, !.lastauthmsg = DhKey(y),
    !.authstate = "AWAITING_REVEALSIG"]

\* otrl_auth_copy_on_key: the instance context takes over the master's commit.
CopyWithoutR(m, a) ==
  [a EXCEPT
    !.our_dh = m.our_dh, !.encgx = m.encgx, !.authstate = "AWAITING_DHKEY"]
CopyOnKey(m, a) ==
  [a EXCEPT
    !.our_dh = m.our_dh, !.r = m.r, !.encgx = m.encgx,
    !.authstate = "AWAITING_DHKEY"]

\* Crossing commits: ours stands if its hash is the greater one, except in a
\* master context.  Which of two hashes is greater is up to chance; here it is
\* that of the later key.
OursWins(a, m) == version = 3 /\ a.encgx > m.from

\* otrl_auth_handle_key in state AWAITING_DHKEY.
Revealing(a, m) ==
  [a EXCEPT
    !.their_pub = m.from, !.lastauthmsg = RevealSig(a.r, a.our_dh, m.from),
    !.authstate = "AWAITING_SIG"]

\* otrl_auth_handle_revealsig stores r before it looks at the state.
TakeR(a, m) == [a EXCEPT !.r = m.r]

\* The revealed r decrypts encgx to what its hash says.
HashMatches(a, m) == m.r = a.encgx

\* The state of an exchange that is over, and its last message.
StillWaiting(a, last) == [a EXCEPT !.lastauthmsg = last]
Finished(a, last) == [a EXCEPT !.authstate = "NONE", !.lastauthmsg = last]

\* MAC and signature are those of the shared secret of our_dh and their_pub.
Unchecked(a, m) == TRUE
MacMatches(a, m) == m.to = a.our_dh /\ m.from = a.their_pub

-----------------------------------------------------------------------------
Init ==
  /\ version \in Versions
  /\ m_auth = [p \in Peers |-> Cleared]
  /\ auth = [p \in Peers |-> Cleared]
  /\ msgstate = [p \in Peers |-> "PLAINTEXT"]
  /\ current = [p \in Peers |-> Nobody]
  /\ net = [p \in Peers |-> <<>>]
  /\ keys = 0
  /\ starts = 0
  /\ dups = 0
  /\ resent = FALSE
  /\ outcomes = <<>>
  /\ joined = [p \in Peers |-> <<>>]

\* p consumes the i-th message on its way and sends out.
Reply(p, i, out) ==
  net' = [q \in Peers |-> IF q = p THEN RemoveAt(net[p], i) ELSE net[q] \o out]

\* A Query (or a whitespace tag) has reached p: otrl_auth_start_v23 on the
\* context it arrived in, the master context in version 3.
Start(p) ==
  LET x == keys + 1
  IN
  /\ p \in Starters /\ starts < MaxStarts /\ starts + dups < MaxEvents
  /\ keys' = x
  /\ starts' = starts + 1
  /\ IF version = 3
     THEN m_auth' = [m_auth EXCEPT ![p] = Started(x)] /\ UNCHANGED auth
     ELSE auth' = [auth EXCEPT ![p] = Started(x)] /\ UNCHANGED m_auth
  /\ net' = [net EXCEPT ![Other(p)] = Append(@, DhCommit(x))]
  /\ UNCHANGED <<version, msgstate, current, dups, resent, outcomes, joined>>

\* go_encrypted.  The refresh of a session in place changes nothing.
Join(p, our, their) ==
  LET outcome == [q \in Peers |-> IF q = p THEN our ELSE their]
      known == {e \in DOMAIN outcomes : outcomes[e] = outcome}
  IN
  IF msgstate[p] = "ENCRYPTED" /\ current[p] = <<our, their>>
  THEN UNCHANGED <<msgstate, current, outcomes, joined>>
  ELSE /\ msgstate' = [msgstate EXCEPT ![p] = "ENCRYPTED"]
       /\ current' = [current EXCEPT ![p] = <<our, their>>]
       /\ outcomes' = IF known = {} THEN Append(outcomes, outcome) ELSE outcomes
       /\ joined' = [joined EXCEPT ![p] =
            Append(@, IF known = {} THEN Len(outcomes) + 1
                      ELSE CHOOSE e \in known : TRUE)]

ReceiveCommit(p, i) ==
  LET m == net[p][i]
      a == auth[p]
      ours == a.authstate = "AWAITING_DHKEY" /\ OursWins(a, m)
  IN
  /\ m.type = "commit"
  /\ \/ /\ a.authstate # "AWAITING_REVEALSIG" /\ ~ours
        /\ keys' = keys + 1
        /\ auth' = [auth EXCEPT ![p] = Responding(m, keys')]
        /\ Reply(p, i, <<DhKey(keys')>>)
        /\ UNCHANGED resent
     \/ /\ ours
        /\ Reply(p, i, IF a.lastauthmsg = NoMsg THEN <<>> ELSE <<a.lastauthmsg>>)
        /\ IF a.lastauthmsg.type = "signature" THEN resent' = TRUE
           ELSE UNCHANGED resent
        /\ UNCHANGED <<auth, keys>>
     \/ /\ a.authstate = "AWAITING_REVEALSIG"
        /\ auth' = [auth EXCEPT ![p].encgx = m.from]
        /\ Reply(p, i, <<a.lastauthmsg>>)
        /\ UNCHANGED <<keys, resent>>
  /\ UNCHANGED <<version, m_auth, msgstate, current, starts, dups, outcomes, joined>>

\* A D-H Key answers the master's commit: the instance context takes the
\* master's state and exchange over first, PLAINTEXT as the master is.
NeverTakesOver(p) == FALSE
TakesOver(p) ==
  /\ version = 3
  /\ m_auth[p].authstate = "AWAITING_DHKEY"
  /\ auth[p].authstate # "AWAITING_DHKEY"

ReceiveKey(p, i) ==
  LET m == net[p][i]
      a == IF TakesOver(p) THEN CopyOnKey(m_auth[p], auth[p]) ELSE auth[p]
      Handled(b, out) == auth' = [auth EXCEPT ![p] = b] /\ Reply(p, i, out)
  IN
  /\ m.type = "key"
  /\ msgstate' = IF TakesOver(p) THEN [msgstate EXCEPT ![p] = "PLAINTEXT"]
                 ELSE msgstate
  /\ \/ /\ a.authstate = "AWAITING_DHKEY"
        /\ Handled(Revealing(a, m), <<Revealing(a, m).lastauthmsg>>)
     \/ /\ a.authstate = "AWAITING_SIG" /\ m.from = a.their_pub
        /\ Handled(a, <<a.lastauthmsg>>)
     \/ /\ \/ a.authstate = "AWAITING_SIG" /\ m.from # a.their_pub
           \/ a.authstate \in {"NONE", "AWAITING_REVEALSIG"}
           \/ "noprivkey" \in Faults
        /\ Handled(a, <<>>)
  /\ UNCHANGED <<version, m_auth, current, keys, starts, dups, resent, outcomes, joined>>

ReceiveRevealSig(p, i) ==
  LET m == net[p][i]
      read == TakeR(auth[p], m)
      shared == [read EXCEPT !.their_pub = read.encgx]
      reveals == read.authstate = "AWAITING_REVEALSIG" /\ HashMatches(read, m)
      sig == Signature(shared.our_dh, shared.their_pub)
  IN
  /\ m.type = "revealsig"
  /\ \/ /\ reveals /\ MacMatches(shared, m)
        /\ Join(p, shared.our_dh, shared.their_pub)
        /\ auth' = [auth EXCEPT ![p] = Finished(shared, sig)]
        /\ Reply(p, i, <<sig>>)
     \/ /\ ~(reveals /\ MacMatches(shared, m))
        /\ auth' = [auth EXCEPT ![p] = IF reveals THEN shared ELSE read]
        /\ Reply(p, i, <<>>)
        /\ UNCHANGED <<msgstate, current, outcomes, joined>>
     \/ /\ "noprivkey" \in Faults
        /\ Reply(p, i, <<>>)
        /\ UNCHANGED <<auth, msgstate, current, outcomes, joined>>
  /\ UNCHANGED <<version, m_auth, keys, starts, dups, resent>>

ReceiveSignature(p, i) ==
  LET m == net[p][i]
      a == auth[p]
  IN
  /\ m.type = "signature"
  /\ \/ /\ a.authstate = "AWAITING_SIG" /\ MacMatches(a, m)
        /\ Join(p, a.our_dh, a.their_pub)
        /\ auth' = [auth EXCEPT ![p] = Finished(a, NoMsg)]
     \/ /\ ~(a.authstate = "AWAITING_SIG" /\ MacMatches(a, m))
        /\ UNCHANGED <<auth, msgstate, current, outcomes, joined>>
  /\ Reply(p, i, <<>>)
  /\ UNCHANGED <<version, m_auth, keys, starts, dups, resent>>

Receive(p) ==
  \E i \in DOMAIN net[p] :
    /\ i = 1 \/ "reorder" \in Faults
    /\ \/ ReceiveCommit(p, i)
       \/ ReceiveKey(p, i)
       \/ ReceiveRevealSig(p, i)
       \/ ReceiveSignature(p, i)

\* otrl_message_poll wipes the key of a commit that waited too long.
Poll(p) ==
  /\ "slow" \in Faults
  /\ m_auth[p].authstate = "AWAITING_DHKEY"
  /\ m_auth' = [m_auth EXCEPT ![p] = Cleared]
  /\ UNCHANGED <<version, auth, msgstate, current, net, keys, starts, dups,
                 resent, outcomes, joined>>

\* The conversation ends: by p's user, in whichever context is the better one,
\* or by the other's user and a notice to p.
Leave(p) ==
  LET End(state) ==
        /\ msgstate' = [msgstate EXCEPT ![p] = state]
        /\ auth' = [auth EXCEPT ![p] = Cleared]
        /\ current' = [current EXCEPT ![p] = Nobody]
        /\ UNCHANGED m_auth
  IN
  /\ "leave" \in Faults
  /\ \/ End("PLAINTEXT")
     \/ msgstate[p] = "ENCRYPTED" /\ End("FINISHED")
     \/ /\ version = 3 /\ msgstate[p] = "PLAINTEXT"
        /\ m_auth' = [m_auth EXCEPT ![p] = Cleared]
        /\ UNCHANGED <<auth, msgstate, current>>
  /\ UNCHANGED <<version, net, keys, starts, dups, resent, outcomes, joined>>

Repeat(p) ==
  /\ dups < MaxDup /\ starts + dups < MaxEvents
  /\ dups' = dups + 1
  /\ \E i \in DOMAIN net[p] : net' = [net EXCEPT ![p] = Append(@, @[i])]
  /\ UNCHANGED <<version, m_auth, auth, msgstate, current, keys, starts, resent,
                 outcomes, joined>>

Next ==
  \E p \in Peers :
    Start(p) \/ Receive(p) \/ Poll(p) \/ Leave(p) \/ Repeat(p)

Spec == Init /\ [][Next]_vars

\* The transport delivers what it has been given.
Fairness == \A p \in Peers : WF_vars(Receive(p))

FairSpec == Spec /\ Fairness

-----------------------------------------------------------------------------
AuthInfos ==
  [authstate : AuthStates, our_dh : 0 .. keys, r : 0 .. keys,
   encgx : 0 .. keys, their_pub : 0 .. keys,
   lastauthmsg : [type : {"none", "commit", "key", "revealsig", "signature"},
                  r : 0 .. keys, from : 0 .. keys, to : 0 .. keys]]

\* The fields an authstate relies on are there: the answer that the state may
\* have to repeat, and the keys its next message is checked with.
Ready(a) ==
  CASE a.authstate = "NONE" -> TRUE
    [] a.authstate = "AWAITING_DHKEY" -> NULL \notin {a.our_dh, a.r}
    [] a.authstate = "AWAITING_REVEALSIG" ->
         NULL \notin {a.our_dh, a.encgx} /\ a.lastauthmsg = DhKey(a.our_dh)
    [] a.authstate = "AWAITING_SIG" ->
         /\ NULL \notin {a.our_dh, a.their_pub}
         /\ \E r \in 1 .. keys :
              a.lastauthmsg = RevealSig(r, a.our_dh, a.their_pub)

\* Types, and what every state of an exchange has at hand for its next step.
TypeOK ==
  /\ m_auth \in [Peers -> AuthInfos] /\ auth \in [Peers -> AuthInfos]
  /\ \A p \in Peers : Ready(m_auth[p]) /\ Ready(auth[p])
  /\ msgstate \in [Peers -> {"PLAINTEXT", "ENCRYPTED", "FINISHED"}]
  /\ \A p \in Peers : msgstate[p] = "ENCRYPTED" => current[p] # Nobody

\* Whoever answers with a Signature message is secure before its correspondent
\* (auth.c:1033, 1143): an end that goes encrypted while it waits for one finds
\* that the other end has joined the same exchange, under the same keys.
InitiatorIsLast ==
  [][\A p \in Peers :
       joined'[p] # joined[p] /\ auth[p].authstate = "AWAITING_SIG"
       => Last(joined'[p]) \in Range(joined[Other(p)])]_vars

\* What module DataKeys takes for granted of the exchange (message.c:594-627): its
\* keys are fresh for both ends, and no end goes encrypted with them twice unless
\* a message of the exchange has been repeated: by the transport, or by an end that
\* answers a D-H Commit with its Signature of an exchange that is over, where it was
\* to resend its own commit (auth.c:375).
Repeated == dups > 0 \/ resent
Agreement == INSTANCE KeyAgreement WITH repeated <- Repeated

ImplementsKeyAgreement == Agreement!Spec

\* Both ends are encrypted with each other's keys and nothing is under way.
Secure ==
  /\ \A p \in Peers : msgstate[p] = "ENCRYPTED" /\ auth[p].authstate = "NONE"
  /\ current[B] = <<current[A][2], current[A][1]>>

\* One end starts exchanges, as often as it likes: when every message arrives,
\* both end up secure for good (message.c:1156-1266).
Settles == [](starts > 0 => <>[]Secure)

\* Two D-H Commits cross; "compare the hashgx values to see which one wins"
\* (auth.c:372-375): the winner's exchange is finished.
CommitsCross == \A p \in Peers : \E i \in DOMAIN net[p] : net[p][i].type = "commit"
OneCommitWins == [](CommitsCross => <>[]Secure)

\* "Ignore this message" (auth.c:1044-1049): a Reveal Signature message that
\* comes in another state leaves the exchange alone; in particular, an end
\* still reveals the r its own D-H Commit was encrypted with.
RevealsWhatItCommitted ==
  \A p \in Peers :
    auth[p].authstate = "AWAITING_DHKEY" => auth[p].r = auth[p].encgx
=============================================================================
