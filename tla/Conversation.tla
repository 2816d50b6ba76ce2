---------------------------- MODULE Conversation ----------------------------
(***************************************************************************)
(* One user's conversation with one correspondent: the contexts it is made *)
(* of, which of them a typed text goes to, and what becomes of the text.   *)
(*                                                                         *)
(* Modelled from wtwOTRmessaging.cpp (onCELBeforeSend_cb, the message      *)
(* events, otrg_finish_private_conversation), OTRL/message.c (sending, the *)
(* choice of context in receiving, maybe_resend), OTRL/context.c (the BEST *)
(* instance, force_finished) and ChatBroker.cpp (authenticatePeer).        *)
(*                                                                         *)
(* The correspondent uses clients that have an instance tag, each with a   *)
(* context of its own behind the master context, and clients of protocol   *)
(* version 2, whose context is the master.  Their messages come in any     *)
(* order at any time; cryptography is abstracted to whether a message is   *)
(* the one that the context's authstate waits for.                         *)
(***************************************************************************)
EXTENDS Naturals, Sequences, FiniteSets

CONSTANTS
  N,          \* the number of clients with an instance tag
  ClientSets, \* the sets of clients of which the correspondent uses one
  Policies,   \* Policies[s]: what the user chooses from if these are the clients
  Owned,      \* whether the pool had a WtwOtrContext left for the correspondent
  Slow,       \* whether an exchange may take longer than RESEND_INTERVAL
  MaxTexts,   \* MaxTexts[s], a bound: texts the user types
  MaxErrors   \* MaxErrors[s], a bound: OTR error messages that arrive

Master == 0
Instances == 1 .. N
Contexts == {Master} \cup Instances  \* in the order of the context list

ASSUME BoundsAreNat ==
  N \in Nat /\ {MaxTexts, MaxErrors} \subseteq [ClientSets -> Nat]
ASSUME ClientsHaveContexts == \A s \in ClientSets : s \subseteq Contexts
ASSUME PoliciesAreKnown ==
  Policies \in [ClientSets -> SUBSET {"NEVER", "MANUAL", "OPPORTUNISTIC", "ALWAYS"}]
ASSUME ChancesAreBoolean == Owned \subseteq BOOLEAN /\ Slow \in BOOLEAN

VARIABLES
  clients,   \* the clients the correspondent uses
  policy,    \* the user's policy for the correspondent
  context,   \* the ConnContext of each client
  otr_offer, \* otr_offer of the master context (no other is ever rejected)
  trusted,   \* the clients whose fingerprint is trusted
  owned,     \* the correspondent has a WtwOtrContext
  privateConverstationEnded,  \* its flag of that name
  texts,     \* history: what the user typed, and where it went
  errors     \* history: OTR error messages that arrived

vars == <<clients, policy, context, otr_offer, trusted, owned,
          privateConverstationEnded, texts, errors>>

\* No text: nothing was stored, or the empty text of a heartbeat.
NULL == 0

\* active: active_fingerprint and the keys of a session are there.
NewContext ==
  [exists |-> FALSE, msgstate |-> "PLAINTEXT", authstate |-> "NONE",
   active |-> FALSE, lastmessage |-> NULL, may_retransmit |-> 0, lastrecv |-> 0]

Requires == policy = "ALWAYS"
SendsTags == policy = "OPPORTUNISTIC"
AnswersTags == policy \in {"OPPORTUNISTIC", "ALWAYS"}

-----------------------------------------------------------------------------
(* The BEST instance: otrl_context_find_recent_secure_instance.            *)

IsTrusted(c) == context[c].active /\ c \in trusted

FinishedImproves(c, best) ==
  context[c].msgstate # "PLAINTEXT" /\ context[best].msgstate # context[c].msgstate
Improves(c, best) ==
  \/ context[c].msgstate = "ENCRYPTED" /\ context[best].msgstate # "ENCRYPTED"
  \/ context[c].msgstate = "FINISHED" /\ context[best].msgstate = "PLAINTEXT"

Beats(c, best) ==
  /\ context[c].exists
  /\ Improves(c, best) \/ context[c].msgstate = context[best].msgstate
  /\ IsTrusted(best) => IsTrusted(c)
  /\ \/ Improves(c, best)
     \/ IsTrusted(c) /\ ~IsTrusted(best)
     \/ context[c].lastrecv >= context[best].lastrecv

Best ==
  LET best[c \in Contexts] ==
        IF c = Master THEN Master
        ELSE IF Beats(c, best[c - 1]) THEN c ELSE best[c - 1]
  IN  best[N]

-----------------------------------------------------------------------------
(* What calls do to a context list f.                                      *)

\* lastrecv of c becomes now, which may be the second of the latest message.
\* Times are ranks; 0 is "never".
Stamp(f, c, tie) ==
  LET latest == CHOOSE t \in {f[d].lastrecv : d \in Contexts} :
                  \A d \in Contexts : f[d].lastrecv <= t
      time == [d \in Contexts |->
                 IF d # c THEN f[d].lastrecv
                 ELSE IF tie /\ latest > 0 THEN latest ELSE latest + 1]
  IN  [d \in Contexts |-> [f[d] EXCEPT
         !.lastrecv = Cardinality({time[e] : e \in Contexts} \cap 1 .. time[d])]]

\* otrl_proto_create_data replaces lastmessage by the text it encrypts.
StillMarked(f, c, text) == [f EXCEPT ![c].lastmessage = text]
AfterData(f, c, text) ==
  [f EXCEPT ![c].lastmessage = text, ![c].may_retransmit = 0]

\* otrl_context_force_finished and force_plaintext.
OnlyKeysCleared(f, c, state) ==
  [f EXCEPT ![c] = [@ EXCEPT !.active = FALSE, !.authstate = "NONE",
                             !.lastmessage = NULL, !.may_retransmit = 0]]
Forced(f, c, state) ==
  [f EXCEPT ![c] = [@ EXCEPT !.msgstate = state,
                             !.active = FALSE, !.authstate = "NONE",
                             !.lastmessage = NULL, !.may_retransmit = 0]]

\* go_encrypted.
Secured(f, c) ==
  [f EXCEPT ![c].msgstate = "ENCRYPTED", ![c].active = TRUE, ![c].authstate = "NONE"]

\* A new instance context takes the master's state, and the text that waits
\* there to be sent.
MarkStays(f, c) ==
  [f EXCEPT
    ![c].exists = TRUE, ![c].msgstate = f[Master].msgstate,
    ![c].lastmessage = f[Master].lastmessage,
    ![c].may_retransmit = f[Master].may_retransmit,
    ![Master].lastmessage =
        IF f[Master].may_retransmit # 0 THEN NULL ELSE f[Master].lastmessage]
Adopted(f, c) ==
  LET added == [f EXCEPT ![c].exists = TRUE, ![c].msgstate = f[Master].msgstate]
  IN  IF f[Master].may_retransmit = 0 THEN added
      ELSE [added EXCEPT
             ![c].lastmessage = f[Master].lastmessage,
             ![c].may_retransmit = f[Master].may_retransmit,
             ![Master].lastmessage = NULL, ![Master].may_retransmit = 0]

\* A D-H Key answers the master's D-H Commit: the instance context takes over.
TakenOver(f, c) ==
  IF c # Master /\ f[Master].authstate = "AWAITING_DHKEY"
  THEN [f EXCEPT ![c].msgstate = f[Master].msgstate,
                 ![c].authstate = "AWAITING_DHKEY"]
  ELSE f

\* The contexts that are ENCRYPTED, with nothing to encrypt with.
Keyless == {c \in Contexts : context[c].msgstate = "ENCRYPTED" /\ ~context[c].active}

-----------------------------------------------------------------------------
\* The master context is there from the start: it is made with the first
\* message, or was read with the stored fingerprints.
AtStart == [c \in Contexts |-> [NewContext EXCEPT !.exists = (c = Master)]]

Init ==
  /\ clients \in ClientSets
  /\ policy \in Policies[clients]
  /\ context = AtStart
  /\ otr_offer = "NOT"
  /\ trusted = {}
  /\ owned \in Owned
  /\ privateConverstationEnded = FALSE
  /\ texts = <<>>
  /\ errors = 0

(* The user types a text: onCELBeforeSend_cb and otrl_message_sending.     *)

\* A text of which OTR made nothing, or an empty message, goes out as it was
\* typed unless the flag is set.
LetOut(ended) == FALSE
Swallows(ended) == owned /\ ended
Unaltered(ended) == IF Swallows(ended) THEN "dropped" ELSE "clear"

Typed(went) ==
  /\ Len(texts) < MaxTexts[clients]
  /\ texts' = Append(texts, [required |-> Requires, went |-> went,
                             copies |-> IF went = "sent" THEN 1 ELSE 0])
  /\ UNCHANGED <<clients, policy, trusted, owned, errors>>

\* Tags are appended until a client has answered without OTR.
Tags == SendsTags /\ (Best = Master => otr_offer # "REJECTED")

\* Only the master's otr_offer can become REJECTED; the others' are left out.
OfferSent == otr_offer' = IF Best = Master THEN "SENT" ELSE otr_offer

TypePlain ==
  /\ \/ policy = "NEVER"
     \/ context[Best].msgstate = "PLAINTEXT" /\ ~Requires /\ ~Tags
  /\ Typed(Unaltered(privateConverstationEnded))
  /\ UNCHANGED <<context, otr_offer, privateConverstationEnded>>

TypeTagged ==
  /\ context[Best].msgstate = "PLAINTEXT" /\ Tags
  /\ Typed("clear")
  /\ OfferSent
  /\ UNCHANGED <<context, privateConverstationEnded>>

\* A Query goes out in its place, and the user is told that it will be sent.
TypeRequired ==
  /\ context[Best].msgstate = "PLAINTEXT" /\ Requires
  /\ Typed("held")
  /\ OfferSent
  /\ context' = [context EXCEPT ![Best].lastmessage = Len(texts'),
                                ![Best].may_retransmit = 2]
  /\ UNCHANGED privateConverstationEnded

TypeEncrypted ==
  /\ policy # "NEVER" /\ context[Best].msgstate = "ENCRYPTED" /\ Best \notin Keyless
  /\ Typed("sent")
  /\ context' = AfterData(context, Best, Len(texts'))
  /\ UNCHANGED <<otr_offer, privateConverstationEnded>>

\* The length of the plugin's otr_error_message, which is null, is taken: the
\* program ends, and is started again.
TypeKeyless ==
  /\ policy # "NEVER" /\ Best \in Keyless
  /\ Typed("lost")
  /\ context' = AtStart
  /\ otr_offer' = "NOT"
  /\ privateConverstationEnded' = FALSE

\* OTRL_MSGEVENT_CONNECTION_ENDED sets the flag of the WtwOtrContext.
TypeFinished ==
  /\ policy # "NEVER" /\ context[Best].msgstate = "FINISHED"
  /\ privateConverstationEnded' = (privateConverstationEnded \/ owned)
  /\ Typed(Unaltered(privateConverstationEnded'))
  /\ UNCHANGED <<context, otr_offer>>

Type ==
  \/ TypePlain \/ TypeTagged \/ TypeRequired
  \/ TypeEncrypted \/ TypeKeyless \/ TypeFinished

(* The user's other commands.                                              *)

\* Ask for a private conversation: a Query, sent like a typed text.
Ask ==
  /\ policy # "NEVER"
  /\ OfferSent
  /\ UNCHANGED <<clients, policy, context, trusted, owned,
                 privateConverstationEnded, texts, errors>>

\* otrg_finish_private_conversation.
Finish ==
  /\ privateConverstationEnded' = FALSE
  /\ context' = Forced(context, Best, "PLAINTEXT")
  /\ UNCHANGED <<clients, policy, otr_offer, trusted, owned, texts, errors>>

SetPolicy ==
  /\ policy' \in Policies[clients]
  /\ UNCHANGED <<clients, context, otr_offer, trusted, owned,
                 privateConverstationEnded, texts, errors>>

\* authenticatePeer, with the fingerprint compared found right or wrong.
Authenticate ==
  /\ context[Best].active
  /\ \E approval \in BOOLEAN :
       trusted' = IF approval THEN trusted \cup {Best} ELSE trusted \ {Best}
  /\ UNCHANGED <<clients, policy, context, otr_offer, owned,
                 privateConverstationEnded, texts, errors>>

(* A message of client c arrives: otrl_message_receiving, with the context *)
(* list f in which c's context has been found and its lastrecv set.        *)

ReceiveCommit(f, c) ==
  /\ context' = [f EXCEPT ![c].authstate = "AWAITING_REVEALSIG"]
  /\ UNCHANGED texts

ReceiveKey(f, c) ==
  LET g == TakenOver(f, c)
  IN
  /\ context' = [g EXCEPT ![c].authstate =
                   IF @ = "AWAITING_DHKEY" THEN "AWAITING_SIG" ELSE @]
  /\ UNCHANGED texts

\* maybe_resend: the text that waits goes out under the new keys.
Resends(f, c) == f[c].may_retransmit # 0 /\ f[c].lastmessage # NULL

ReceiveRevealSig(f, c) ==
  /\ f[c].authstate = "AWAITING_REVEALSIG"
  /\ \E recent \in (IF Slow THEN BOOLEAN ELSE {TRUE}) :
       IF Resends(f, c) /\ recent
       THEN /\ context' = AfterData(Secured(f, c), c, f[c].lastmessage)
            /\ texts' = [texts EXCEPT ![f[c].lastmessage].copies = @ + 1]
       ELSE context' = Secured(f, c) /\ UNCHANGED texts

ReceiveSignature(f, c) ==
  /\ f[c].authstate = "AWAITING_SIG"
  /\ context' = Secured(f, c)
  /\ UNCHANGED texts

\* A text or an SMP message may be answered by a message without text.  Without
\* keys nothing can be read.
ReceiveData(f, c) ==
  /\ f[c].msgstate = "ENCRYPTED" /\ f[c].active
  /\ context' \in {f, AfterData(f, c, NULL)}
  /\ UNCHANGED texts

ReceiveDisconnect(f, c) ==
  /\ f[c].msgstate = "ENCRYPTED" /\ f[c].active
  /\ context' = Forced(f, c, "FINISHED")
  /\ UNCHANGED texts

\* A message that the context cannot use.
Ignore(f) == context' = f /\ UNCHANGED texts

Replied == otr_offer' = IF SendsTags THEN "ACCEPTED" ELSE otr_offer

\* A client that has no context yet gets one; if its message starts no
\* exchange, that is all.
Receive(c) ==
  LET f == IF context[c].exists THEN context ELSE Adopted(context, c)
  IN
  /\ policy # "NEVER"
  /\ Replied
  /\ \/ ~context[c].exists /\ Ignore(f)
     \/ \E tie \in BOOLEAN :
          LET g == Stamp(f, c, tie)
          IN  \/ ReceiveCommit(g, c)
              \/ ReceiveKey(g, c)
              \/ /\ context[c].exists
                 /\ \/ ReceiveRevealSig(g, c)
                    \/ ReceiveSignature(g, c)
                    \/ ReceiveData(g, c)
                    \/ ReceiveDisconnect(g, c)
                    \/ Ignore(g)
  /\ UNCHANGED <<clients, policy, trusted, owned, privateConverstationEnded, errors>>

\* What carries no instance tag is the master's.  A Query starts an exchange,
\* and so does a tag if the policy says so.
Starts(f) == [f EXCEPT ![Master].authstate = "AWAITING_DHKEY"]

ReceiveQuery(f) == context' = Starts(f) /\ Replied /\ UNCHANGED errors

ReceiveTagged(f) ==
  /\ context' = IF AnswersTags /\ f[Master].msgstate # "ENCRYPTED"
                THEN Starts(f) ELSE f
  /\ Replied
  /\ UNCHANGED errors

ReceivePlain(f) ==
  /\ context' = f
  /\ otr_offer' = IF SendsTags /\ otr_offer = "SENT" THEN "REJECTED" ELSE otr_offer
  /\ UNCHANGED errors

ReceiveError(f) ==
  /\ errors < MaxErrors[clients]
  /\ errors' = errors + 1
  /\ context' = IF f[Master].msgstate = "ENCRYPTED"
                THEN [f EXCEPT ![Master].may_retransmit = 1] ELSE f
  /\ Replied

ReceiveUntagged ==
  /\ policy # "NEVER"
  /\ \E tie \in BOOLEAN :
       LET f == Stamp(context, Master, tie)
       IN  ReceiveQuery(f) \/ ReceiveTagged(f) \/ ReceivePlain(f) \/ ReceiveError(f)
  /\ UNCHANGED <<clients, policy, trusted, owned, privateConverstationEnded, texts>>

\* otrl_message_poll gives up a D-H Commit of protocol version 3.
Poll ==
  /\ clients # {Master} /\ context[Master].authstate = "AWAITING_DHKEY"
  /\ context' = [context EXCEPT ![Master].authstate = "NONE"]
  /\ UNCHANGED <<clients, policy, otr_offer, trusted, owned,
                 privateConverstationEnded, texts, errors>>

Next ==
  \/ Type
  \/ Ask \/ Finish \/ SetPolicy \/ Authenticate
  \/ \E c \in clients : Receive(c)
  \/ ReceiveUntagged
  \/ Poll

Spec == Init /\ [][Next]_vars

-----------------------------------------------------------------------------
(* Properties.                                                             *)

\* The type invariant; a mark to retransmit comes with the text it is about,
\* except for the mark that an OTR error message leaves (message.c:326, 1099, 1775).
TypeOK ==
  /\ context \in [Contexts ->
       [exists : BOOLEAN, msgstate : {"PLAINTEXT", "ENCRYPTED", "FINISHED"},
        authstate : {"NONE", "AWAITING_DHKEY", "AWAITING_REVEALSIG", "AWAITING_SIG"},
        active : BOOLEAN, lastmessage : 0 .. Len(texts), may_retransmit : 0 .. 2,
        lastrecv : 0 .. N + 1]]
  /\ \A c \in Contexts : context[c].may_retransmit = 2 => context[c].lastmessage # NULL
  /\ otr_offer \in {"NOT", "SENT", "ACCEPTED", "REJECTED"}
  /\ trusted \subseteq Contexts
  /\ owned \in BOOLEAN /\ privateConverstationEnded \in BOOLEAN
  /\ texts \in Seq([required : BOOLEAN, went : {"clear", "held", "sent", "dropped", "lost"},
                    copies : Nat])

\* "Currently in an encrypted conversation" (context.h:40): a context of that
\* state has the keys and the fingerprint of a session to encrypt with.
EncryptedHasKeys == Keyless = {}

\* A context is left without keys in one way only: as a client's context that
\* takes the state of a master that has some (message.c:1097, 1124).  No end of
\* a conversation, no lost or late handshake and no restart strips one of its
\* keys, or the master of its own, and a context without keys passes on no state.
KeylessIsInherited ==
  [][\A c \in Keyless' \ Keyless :
       /\ c # Master /\ context[Master].msgstate = "ENCRYPTED"
       /\ Master \notin Keyless]_vars

\* A text typed under the policy ALWAYS is never let out in the clear, whatever
\* state the conversation is in (message.c:308, wtwOTRmessaging.cpp:1125), so
\* long as the correspondent has a WtwOtrContext to keep the flag in.
RequiredNeverInClear ==
  owned => \A k \in DOMAIN texts : texts[k].required => texts[k].went # "clear"

\* A text is sent a second time only if an OTR error message said that one was
\* not read: marks to retransmit are neither left behind nor copied (proto.c:620,
\* message.c:1099, 1775).
SentOncePerError ==
  \A k \in DOMAIN texts : texts[k].copies <= 1 + errors

\* If a client's context is private, the one a text goes to is private or
\* authenticated (context.c:197-246): a walk over the contexts in list order,
\* each compared with the best so far only, loses no private one to less.
PrivateIsBest ==
  (\E c \in Contexts : context[c].msgstate = "ENCRYPTED")
    => context[Best].msgstate = "ENCRYPTED" \/ IsTrusted(Best)

\* "When it happens your message will be sent" (wtwOTRmessaging.cpp:567-569):
\* once the conversation is private, no text is still waiting for it.
HeldIsSentWhenPrivate ==
  \A c \in clients :
    context[c].msgstate = "ENCRYPTED"
      => \A d \in Contexts : context[d].may_retransmit # 2

\* "Do not let an unencrypted message out" (wtwOTRmessaging.cpp:582): with the
\* flag set, nothing the user types leaves in the clear.
EndedLetsNothingOut ==
  [][privateConverstationEnded /\ Len(texts') > Len(texts)
       => texts'[Len(texts')].went # "clear"]_vars
=============================================================================
