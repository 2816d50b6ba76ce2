--------------------------------- MODULE Smp ---------------------------------
(***************************************************************************)
(* The Socialist Millionaires' Protocol: two users find out whether they   *)
(* have typed the same secret, over the private conversation they are in,  *)
(* and thereby whether they may trust each other's fingerprint.            *)
(*                                                                         *)
(* Modelled from OTRL/sm.c (the steps), OTRL/message.c (starting, answer-  *)
(* ing, aborting, the SMP part of otrl_message_receiving, go_encrypted)    *)
(* and OTRL/context.c (force_finished).  The plugin leaves the SMP's       *)
(* events unanswered and offers none of its commands: the application at   *)
(* an end is any that uses the library as message.h says, or does not.     *)
(*                                                                         *)
(* A pair of secret exponents (x2, x3) is its serial number.  The proofs   *)
(* of knowledge verify for the values they were made of and no others.     *)
(* A private conversation is the number of the key exchange behind it; its *)
(* messages arrive in order or not at all and are unreadable in any other. *)
(***************************************************************************)
EXTENDS Naturals, Sequences

CONSTANTS
  A, B,         \* the two ends
  Secrets,      \* what a user may type
  Questions,    \* whether a run is started with a question: a set of Booleans
  Aborting,     \* the sets of ends whose application aborts as message.h asks
  Verified,     \* the keys that may be trusted from the start, at each end
  LeftOpen,     \* the prompts an earlier conversation may have left, at each end
  MaxRuns,      \* bound: runs started
  MaxEvents     \* bound: runs, key exchanges, aborts and restarts in all

ASSUME TwoEnds == A # B
ASSUME QuestionsAreBoolean == Questions \subseteq BOOLEAN
ASSUME AbortingAreEnds == \A s \in Aborting : s \subseteq {A, B}
ASSUME BoundsAreNat == MaxRuns \in Nat /\ MaxEvents \in Nat \ {0}
ASSUME VerifiedAreKeys == Verified \subseteq [{A, B} -> SUBSET {1}]
ASSUME LeftOpenAreBoolean == LeftOpen \subseteq [{A, B} -> BOOLEAN]

VARIABLES
  privkey,   \* the private key of each end
  sessions,  \* sessions[e][p]: the key p proved to have in the e-th exchange
  session,   \* the exchange an end is private with, or has been
  private,   \* whether it is (msgstate is ENCRYPTED)
  smstate,   \* OtrlSMState of the end's context
  asked,     \* the application is asking its user for the secret
  left,      \* it still is, though the conversation it asked in has ended
  trusted,   \* the keys of the other end that are marked as trusted
  net,       \* net[p]: messages on their way to p
  exponents, \* pairs of exponents drawn so far
  runs,      \* runs started
  events,    \* runs, key exchanges, aborts, ends and restarts so far, and whether
             \* there was a question before
  aborting,  \* the ends whose application aborts as message.h asks
  entered,   \* history: what each user typed, and for which comparison
  lost       \* history: a message was lost or unreadable, or an end vanished

vars == <<privkey, sessions, session, private, smstate, asked, left, trusted, net,
          exponents, runs, events, aborting, entered, lost>>
unchangedKeys == <<privkey, sessions, session, private>>
unchangedBounds == <<runs, events, aborting>>

Peers == {A, B}
Other(p) == IF p = A THEN B ELSE A

NULL == 0
NoSecret == <<>>
NoValue == <<{}, NoSecret>>

-----------------------------------------------------------------------------
(* The secret that is compared: the users' keys in the order of their      *)
(* roles, the session and what was typed, hashed.                          *)

WithoutSession(initiator, responder, e, typed) ==
  <<initiator, responder, NULL, typed>>
Combined(initiator, responder, e, typed) == <<initiator, responder, e, typed>>

-----------------------------------------------------------------------------
(* OtrlSMState.  g stands for g2 and g3, by the exponents of both ends in  *)
(* them; q for p and q, by the g and the secret in them; qab for pab and   *)
(* qab.  sm_prog_state is read only where it was just set.                 *)

Fresh ==
  [nextExpected |-> 1, received_question |-> FALSE, secret |-> NoSecret, x |-> NULL,
   g3o |-> NULL, g |-> {}, q |-> NoValue, qab |-> <<NoValue, NoValue>>]

Message(type, e, m) == [type |-> type, session |-> e, body |-> m]

\* otrl_sm_step1: a run begins with new exponents.
Step1(s, secret, x) ==
  [s EXCEPT !.secret = secret, !.received_question = FALSE, !.x = x]

\* otrl_sm_step2a: the other end's run begins.
Step2a(s, m, x) ==
  [s EXCEPT !.received_question = m.question, !.g3o = m.x,
            !.x = x, !.g = {m.x, x}]

\* otrl_sm_step2b: the secret has been typed.
Step2b(s, secret) == [s EXCEPT !.secret = secret, !.q = <<s.g, secret>>]

\* otrl_sm_step3: g3o and g are stored before the last proof is checked.  What was
\* made without g (it is 0 then) is no element of the group and not looked at.
Step3(s, m) ==
  LET g == {s.x, m.x}
      t == [s EXCEPT !.g3o = m.x, !.g = g]
  IN  IF m.q[1] = {} THEN s
      ELSE IF m.q[1] = g
      THEN [t EXCEPT !.q = <<g, s.secret>>, !.qab = <<<<g, s.secret>>, m.q>>]
      ELSE t
Unverified(s, m) == TRUE
Step3Verifies(s, m) == m.q[1] = {s.x, m.x}

\* otrl_sm_step4: the proof for q, then qab, then the proof for the answer.
Step4(s, m) == IF m.q[1] = s.g THEN [s EXCEPT !.qab = <<m.q, s.q>>] ELSE s
Step4Verifies(s, m) ==
  m.q[1] = s.g /\ m.qab = <<m.q, s.q>> /\ m.x = s.g3o

\* otrl_sm_step5.
Step5Verifies(s, m) == m.qab = s.qab /\ m.x = s.g3o

\* Rab = Pab: the secrets are the same.
SecretsMatch(s) == s.qab[1][2] = s.qab[2][2]

-----------------------------------------------------------------------------
\* A conversation has become private; fingerprints may have been verified before,
\* by comparing them, and a question of an earlier conversation may be open.
Init ==
  /\ privkey = [p \in Peers |-> 1]
  /\ sessions = <<privkey>>
  /\ session = [p \in Peers |-> 1]
  /\ private = [p \in Peers |-> TRUE]
  /\ smstate = [p \in Peers |-> Fresh]
  /\ asked = [p \in Peers |-> FALSE]
  /\ left \in LeftOpen
  /\ trusted \in Verified
  /\ net = [p \in Peers |-> <<>>]
  /\ exponents = 0
  /\ runs = 0
  /\ events = IF \E p \in Peers : left[p] THEN 1 ELSE 0
  /\ aborting \in Aborting
  /\ entered = [p \in Peers |-> <<>>]
  /\ lost = FALSE

\* active_fingerprint
Active(p) == sessions[session[p]][Other(p)]

\* otrl_proto_create_data and fragment_and_send: nothing goes out of a
\* conversation that is not private.
Sent(p, type, m) == IF private[p] THEN <<Message(type, session[p], m)>> ELSE <<>>

Send(p, out) == net' = [net EXCEPT ![Other(p)] = @ \o out]
Reply(p, out) ==
  net' = [q \in Peers |-> IF q = p THEN Tail(net[p]) ELSE net[q] \o out]

\* One of the events whose number is bounded.
Happens == events < MaxEvents /\ events' = events + 1

(* The user's commands: init_respond_smp and otrl_message_abort_smp.       *)

Typed(p, asker, question, typed) ==
  entered' = [entered EXCEPT ![p] = Append(@,
    [session |-> session[p], asker |-> asker, question |-> question,
     own |-> privkey[p], peer |-> Active(p), typed |-> typed])]

Initiate(p, question, typed) ==
  /\ private[p] /\ runs < MaxRuns
  /\ runs' = runs + 1
  /\ Happens
  /\ exponents' = exponents + 1
  /\ LET secret == Combined(privkey[p], Active(p), session[p], typed)
     IN  smstate' = [smstate EXCEPT ![p] =
                       [Step1(@, secret, exponents') EXCEPT !.nextExpected = 2]]
  /\ Send(p, Sent(p, "SMP1", [x |-> exponents', question |-> question]))
  /\ Typed(p, p, question, typed)
  /\ UNCHANGED <<unchangedKeys, asked, left, trusted, aborting, lost>>

\* Nothing is compared with what has been received since the user was asked.
Answer(p, typed) ==
  LET secret == Combined(Active(p), privkey[p], session[p], typed)
      s == Step2b(smstate[p], secret)
  IN
  /\ smstate' = [smstate EXCEPT ![p] = [s EXCEPT !.nextExpected = 3]]
  /\ Send(p, Sent(p, "SMP2", [x |-> s.x, q |-> s.q]))
  /\ Typed(p, Other(p), smstate[p].received_question, typed)
  /\ UNCHANGED <<unchangedKeys, trusted, exponents, unchangedBounds, lost>>

Respond(p, typed) ==
  /\ asked[p] /\ private[p]
  /\ asked' = [asked EXCEPT ![p] = FALSE] /\ UNCHANGED left
  /\ Answer(p, typed)

\* Nobody tells the application that the conversation it asks in has ended.  In a
\* later one the answer is made of what a run that p began itself has put there.
RespondLate(p, typed) ==
  /\ left[p] /\ private[p] /\ smstate[p].x # NULL
  /\ left' = [left EXCEPT ![p] = FALSE] /\ UNCHANGED asked
  /\ Answer(p, typed)

\* If nothing has been put there, the library computes with the values that the
\* end has freed: the program ends, and is started again.
Crash(p) ==
  /\ left[p] /\ private[p] /\ smstate[p].x = NULL
  /\ private' = [private EXCEPT ![p] = FALSE]
  /\ smstate' = [smstate EXCEPT ![p] = Fresh]
  /\ asked' = [asked EXCEPT ![p] = FALSE]
  /\ left' = [left EXCEPT ![p] = FALSE]
  /\ lost' = TRUE
  /\ UNCHANGED <<privkey, sessions, session, trusted, net, exponents,
                 unchangedBounds, entered>>

Abort(p) ==
  /\ Happens
  /\ asked' = [asked EXCEPT ![p] = FALSE]
  /\ left' = [left EXCEPT ![p] = FALSE]
  /\ smstate' = [smstate EXCEPT ![p].nextExpected = 1]
  /\ Send(p, Sent(p, "ABORT", <<>>))
  /\ UNCHANGED <<unchangedKeys, trusted, exponents, runs, aborting, entered, lost>>

(* A message arrives in the conversation it was sent in.                   *)

\* handle_smp_event for CHEATED and ERROR: the application aborts, or leaves
\* things as they are.
NoObjection(p) == <<>>
Objection(p) == IF p \in aborting THEN Sent(p, "ABORT", <<>>) ELSE <<>>
Unexpected(p) ==
  /\ smstate' = IF p \in aborting
                THEN [smstate EXCEPT ![p].nextExpected = 1] ELSE smstate
  /\ Reply(p, Objection(p))
  /\ UNCHANGED <<asked, left, trusted, exponents>>
Cheated(p, s) ==
  /\ smstate' = [smstate EXCEPT ![p] = [s EXCEPT !.nextExpected = 1]]
  /\ Reply(p, Objection(p))
  /\ UNCHANGED <<asked, left, exponents>>

\* set_smp_trust
Trusted(p, verdict) ==
  trusted' = [trusted EXCEPT ![p] =
                IF verdict THEN @ \cup {Active(p)} ELSE @ \ {Active(p)}]

\* A new question takes the place of one that was left open.
ReceiveSMP1(p, m) ==
  \/ /\ smstate[p].nextExpected = 1
     /\ exponents' = exponents + 1
     /\ smstate' = [smstate EXCEPT ![p] = Step2a(@, m, exponents')]
     /\ asked' = [asked EXCEPT ![p] = TRUE]
     /\ left' = [left EXCEPT ![p] = FALSE]
     /\ Reply(p, <<>>)
     /\ UNCHANGED trusted
  \/ smstate[p].nextExpected # 1 /\ Unexpected(p)

ReceiveSMP2(p, m) ==
  LET s == Step3(smstate[p], m)
  IN
  \/ /\ smstate[p].nextExpected = 2 /\ Step3Verifies(smstate[p], m)
     /\ smstate' = [smstate EXCEPT ![p] = [s EXCEPT !.nextExpected = 4]]
     /\ Reply(p, Sent(p, "SMP3", [x |-> s.x, q |-> s.q, qab |-> s.qab]))
     /\ UNCHANGED <<asked, left, trusted, exponents>>
  \/ /\ smstate[p].nextExpected = 2 /\ ~Step3Verifies(smstate[p], m)
     /\ Cheated(p, s) /\ UNCHANGED trusted
  \/ smstate[p].nextExpected # 2 /\ Unexpected(p)

\* An end that was asked a question does not learn who asked.
ReceiveSMP3(p, m) ==
  LET s == Step4(smstate[p], m)
      verified == Step4Verifies(smstate[p], m)
  IN
  \/ /\ smstate[p].nextExpected = 3
     /\ IF s.received_question THEN UNCHANGED trusted
        ELSE Trusted(p, verified /\ SecretsMatch(s))
     /\ \/ /\ verified
           /\ smstate' = [smstate EXCEPT ![p] = [s EXCEPT !.nextExpected = 1]]
           /\ Reply(p, Sent(p, "SMP4", [x |-> s.x, qab |-> s.qab]))
           /\ UNCHANGED <<asked, left, exponents>>
        \/ ~verified /\ Cheated(p, s)
  \/ smstate[p].nextExpected # 3 /\ Unexpected(p)

ReceiveSMP4(p, m) ==
  LET s == smstate[p]
      verified == Step5Verifies(s, m)
  IN
  \/ /\ s.nextExpected = 4
     /\ Trusted(p, verified /\ SecretsMatch(s))
     /\ \/ /\ verified
           /\ smstate' = [smstate EXCEPT ![p].nextExpected = 1]
           /\ Reply(p, <<>>)
           /\ UNCHANGED <<asked, left, exponents>>
        \/ ~verified /\ Cheated(p, s)
  \/ s.nextExpected # 4 /\ Unexpected(p)

ReceiveAbort(p) ==
  /\ smstate' = [smstate EXCEPT ![p].nextExpected = 1]
  /\ Reply(p, <<>>)
  /\ UNCHANGED <<asked, left, trusted, exponents>>

\* otrl_context_force_finished.  What the application asks it goes on asking.
ForceFinished(p) ==
  /\ private' = [private EXCEPT ![p] = FALSE]
  /\ smstate' = [smstate EXCEPT ![p] = Fresh]
  /\ asked' = [asked EXCEPT ![p] = FALSE]
  /\ left' = [left EXCEPT ![p] = @ \/ asked[p]]

ReceiveDisconnected(p) ==
  /\ ForceFinished(p)
  /\ Reply(p, <<>>)
  /\ UNCHANGED <<trusted, exponents>>

Readable(p, m) == private[p] /\ m.session = session[p]

Receive(p) ==
  LET m == Head(net[p])
  IN
  /\ net[p] # <<>> /\ Readable(p, m)
  /\ \/ /\ \/ m.type = "SMP1" /\ ReceiveSMP1(p, m.body)
           \/ m.type = "SMP2" /\ ReceiveSMP2(p, m.body)
           \/ m.type = "SMP3" /\ ReceiveSMP3(p, m.body)
           \/ m.type = "SMP4" /\ ReceiveSMP4(p, m.body)
           \/ m.type = "ABORT" /\ ReceiveAbort(p)
        /\ UNCHANGED private
     \/ m.type = "DISCONNECTED" /\ ReceiveDisconnected(p)
  /\ UNCHANGED <<privkey, sessions, session, unchangedBounds, entered, lost>>

\* A message that cannot be read, or one that the network loses.
Lose(p) ==
  /\ net[p] # <<>>
  /\ Reply(p, <<>>)
  /\ lost' = TRUE
  /\ UNCHANGED <<unchangedKeys, smstate, asked, left, trusted, exponents,
                 unchangedBounds, entered>>
Discard(p) == net[p] # <<>> /\ ~Readable(p, Head(net[p])) /\ Lose(p)

(* The conversation around it.                                             *)

\* go_encrypted, after an exchange that p is the first or the second to finish.
GoEncrypted(p) ==
  /\ \/ /\ Happens
        /\ sessions' = Append(sessions, privkey)
     \/ /\ session[p] < Len(sessions)
        /\ UNCHANGED <<sessions, events>>
  /\ session' = [session EXCEPT ![p] = Len(sessions')]
  /\ private' = [private EXCEPT ![p] = TRUE]
  /\ UNCHANGED <<privkey, smstate, asked, left, trusted, net, exponents, runs,
                 aborting, entered, lost>>

\* otrl_message_disconnect, by p's user.
Disconnect(p) ==
  /\ private[p]
  /\ Happens
  /\ ForceFinished(p)
  /\ Send(p, Sent(p, "DISCONNECTED", <<>>))
  /\ UNCHANGED <<privkey, sessions, session, trusted, exponents,
                 runs, aborting, entered, lost>>

\* p comes back, on another computer or with its files gone but for the stored
\* fingerprints, and with another private key.
Restart(p) ==
  /\ Happens
  /\ private' = [private EXCEPT ![p] = FALSE]
  /\ smstate' = [smstate EXCEPT ![p] = Fresh]
  /\ asked' = [asked EXCEPT ![p] = FALSE]
  /\ left' = [left EXCEPT ![p] = FALSE]
  /\ privkey' = [privkey EXCEPT ![p] = @ + 1]
  /\ lost' = TRUE
  /\ UNCHANGED <<sessions, session, trusted, net, exponents, runs, aborting,
                 entered>>

Next ==
  \E p \in Peers :
    \/ \E question \in Questions, typed \in Secrets : Initiate(p, question, typed)
    \/ \E typed \in Secrets : Respond(p, typed) \/ RespondLate(p, typed)
    \/ Crash(p) \/ Abort(p)
    \/ Receive(p) \/ Lose(p)
    \/ GoEncrypted(p) \/ Disconnect(p) \/ Restart(p)

Spec == Init /\ [][Next]_vars

\* The transport delivers; users answer what they are asked.
Fairness ==
  \A p \in Peers :
    /\ WF_vars(Receive(p) \/ Discard(p))
    /\ WF_vars(\E typed \in Secrets : Respond(p, typed))

FairSpec == Spec /\ Fairness

-----------------------------------------------------------------------------
\* Types; and the values are there that the next message is computed with, and the
\* answer to a question of the conversation that is still on (message.c:782-786,
\* 1512, 1567, 1627).  They need not be for an answer given late, which ends the
\* program (Crash): what is claimed is that such an answer leaves no other step to
\* meet a value never made.
TypeOK ==
  /\ private \in [Peers -> BOOLEAN] /\ {asked, left} \subseteq [Peers -> BOOLEAN]
  /\ \A p \in Peers :
       LET s == smstate[p]
       IN  /\ s.nextExpected \in 1 .. 4 /\ s.received_question \in BOOLEAN
           /\ {s.x, s.g3o} \cup s.g \subseteq 0 .. exponents
           /\ session[p] \in DOMAIN sessions /\ trusted[p] \subseteq 1 .. MaxEvents + 1
           /\ asked[p] => NULL \notin {s.x, s.g3o} /\ s.g # {}
           /\ s.nextExpected # 1 => s.x # NULL /\ s.secret # NoSecret
           /\ s.nextExpected = 3 => s.q = <<s.g, s.secret>>
           /\ s.nextExpected = 4 => s.qab[1] = <<s.g, s.secret>> /\ s.g3o # NULL

\* Trust comes from secrets that agree and is withdrawn because of secrets that
\* do not (message.c:1570-1573, 1630-1631): whatever runs and conversations were
\* begun, crossed, abandoned or lost, and whatever keys were changed meanwhile.
Comparison == INSTANCE SecretComparison WITH
  waiting <- [p \in Peers |-> IF smstate[p].nextExpected = 1 THEN 0
                              ELSE Len(entered[p])]

ImplementsComparison == Comparison!Spec

\* Applications that abort as message.h:182-192 asks: no end waits for the other
\* for ever, whoever began, if no message is lost (message.c:1463, 859).
NobodyWaits ==
  \A p \in Peers :
    (smstate[p].nextExpected # 1 /\ aborting = Peers)
      ~> (smstate[p].nextExpected = 1 \/ lost)
=============================================================================
