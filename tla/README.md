# wtwOTRmessaging: a verification project

wtwOTRmessaging is a plugin for the WTW instant messenger (Windows, C++) that
holds off-the-record conversations. It puts the OTR library (`OTRL/`, libotr 4
in C) between the messenger's chat windows and its transports. This directory
holds TLA+ models of the protocol code and of the plugin's use of it, TLC runs
that check them on small instances, and TLAPS proofs about each of them, for all
values of the constants. The repository has no tests and no documentation of its own; what "should" happen is
taken from comments in the code and from the messages shown to the user.

Line numbers below refer to files of the repository.

## 1. The system

| Component | Code | State | Operations |
|---|---|---|---|
| Data phase | `OTRL/proto.c`, `dh.c`, `context_priv.c`, parts of `message.c` | `ConnContextPriv`: two DH key pairs of ours, two public keys of theirs, keyids, the 2x2 table `sesskeys` with counters, `saved_mac_keys` | create and accept a Data Message, rotate keys, `go_encrypted`, `force_finished`, `force_plaintext` |
| Key exchange (AKE) | `OTRL/auth.c`, the four handshake cases of `message.c` | `OtrlAuthInfo` of the master and of each instance context | start, four message handlers in two roles, `copy_on_key`, `otrl_message_poll` |
| Conversations | `message.c`, `context.c`, `wtwOTRmessaging.cpp`, `PeerPolicy.cpp`, `ChatBroker.cpp` | the list of contexts of a correspondent (`msgstate`, `authstate`, `lastmessage`, `may_retransmit`, `lastrecv`, trust), `otr_offer`, the plugin's `WtwOtrContext` with `privateConverstationEnded` | a text is typed, a message arrives, ask, end, set the policy, authenticate, poll |
| Socialist Millionaires' Protocol (SMP) | `OTRL/sm.c`, the SMP cases of `message.c` | `OtrlSMState` of a context | four messages, abort. The plugin offers no command for it; its callbacks are stubs, so only a correspondent can start it |
| Fragments | `fragment_create`, `fragment_accumulate` (`proto.c`), `fragment_and_send` (`message.c`) | `fragment`, `fragment_n`, `fragment_k` of a context | cut, send, collect |
| Timer | `message.c:494`, `:2021`, `wtwOTRmessaging.cpp` | `timer_running`, the host's timer | start, stop, poll |
| Policies | `PeerPolicy.cpp`, `PluginSettings.cpp` | a cache over the settings file | get, set |
| Stored keys, tags, fingerprints | `OTRL/privkey.c`, `instag.c`, `userstate.c` | the lists of the `OtrlUserState`, three files, rewritten in place | read, write, generate, forget |
| Windows and dialogs | `ChatBroker.cpp`, `SettingsBroker.cpp` | menus, icons, dialogs | the user's commands |
| TLVs, encodings, secure memory | `OTRL/tlv.c`, `b64.c`, `mem.c` | none that outlives a call | |
| Logging, utilities | `Logger.cpp`, `utils.cpp`, `stdafx.cpp` | a log file | |
| Third-party code | `libgcrypt/`, `libgpg-error`, `wtwapi/` | | |

**How they interact.** Everything runs in the messenger's main thread. The
messenger calls two hooks. `onCELBeforeSend_cb` is given each outgoing text; it
calls `otrl_message_sending` for the BEST instance of the correspondent and
replaces the text, empties it, or lets it pass. The receive hook passes every
incoming message to `otrl_message_receiving`, which finds the context, runs the
handshake or the data phase, and calls back into the plugin: to inject a message
(`inject_message`), to report an event (`handle_msg_event`), to ask for the
policy, to save fingerprints, to set the timer. The concurrency is therefore
that of two programs and a network: two ends, several clients of one
correspondent, messages that are lost, repeated or reordered, a user who types,
ends and starts conversations between any two messages, and a timer.

**What is hard.** (1) Keys rotate under messages that are still on their way,
and a new key exchange may cut in between any two messages. (2) Both ends may
start an exchange at once, twice, or while a conversation is private; version 3
splits an exchange between the master context and an instance context. (3) A
text may wait for a conversation that becomes private through another context,
another exchange, or not at all. (4) The fate of a text depends on state kept in
four places: the policy, `msgstate` of the best context, `otr_offer`, and the
plugin's own flag. (5) Two users answer, abort and restart a comparison of
secrets while the conversation under it is begun anew. (6) What is learnt, made
and trusted must agree with files that are rewritten in place, with objects that
are freed while others point to them, and with a dialog that stays open while
messages arrive. `PROJECT.json` lists 39 hazards, each at its line, with the
properties that cover it or the reason why none does.

**What makes each component correct.**

- Data phase: the session-key table always matches the keyids; no key and counter
  are used twice; no message is read twice or in another session; a published MAC
  key verifies nothing any more; in-order messages stay readable; old keys go
  away.
- Key exchange: both ends finish with the same fresh keys, the responder first;
  each outcome is joined once; with a transport that delivers, an exchange ends.
- Conversations: no text that requires encryption leaves in the clear; no text
  is sent twice without cause; a private context keeps its keys; the BEST
  instance is no worse than any other; a text that was promised to be sent is sent.
- SMP: trust is given only for a secret both users typed in one comparison, in
  one session and under the keys in use, and withdrawn only after two that
  differ; with applications that abort, no end waits for ever.
- Fragments: what is handed on is a message that was sent; pieces that arrive in
  order are put together.
- Stored state: a private conversation has its fingerprint; a key is trusted just
  if the user said so; the files have what the program knows; an account keeps
  its key and tag; no slot of the pool is lost; an unanswered commit expires.

## 2. Modules

```
  SecureChannel     <== implemented by ==  DataKeys       DataKeys_proofs, _sessions, _promises
  KeyAgreement      <== implemented by ==  Ake            Ake_proofs
  SecretComparison  <== implemented by ==  Smp            Smp_proofs
                                           Conversation   Conversation_proofs
                                           Fragments      Fragments_proofs
                  UserState + Accounts  =  OtrlUserState  OtrlUserState_proofs
  MCDataKeys, MCAke, MCConversation, MCSmp, MCFragments, MCOtrlUserState:
  what TLC needs (symmetry, functions and sets of sets as constants)
```

`DataKeys` uses the key exchange only through what `KeyAgreement` states: each
outcome gives both ends a fresh key, and each end joins an outcome at most once
while no message of an exchange is repeated.
`Ake` is shown to provide just that. `Conversation` abstracts both to "the
message is, or is not, the one this context waits for".

### DataKeys

Two ends `A` and `B`; `context_priv[p]` has the fields of `ConnContextPriv`. A DH
key pair is its serial number; a session key is the pair of DH keys it is
derived from. `wire[p]` holds every Data Message `p` ever injected, and any of
them may arrive at any time, any number of times: loss, duplication and
reordering are behaviours of the model.

| Action | Code |
|---|---|
| `Agree` | an exchange in progress: each end has a new key (the view `KeyAgreement` gives of `Ake`) |
| `GoEncrypted` | `go_encrypted` and, when a text waits, `maybe_resend` (message.c:519-722) |
| `RekeyOnKey` | a D-H Key makes an ENCRYPTED context PLAINTEXT again (message.c:1118-1129) |
| `Send` | `otrl_proto_create_data` (proto.c) |
| `Disconnect` | `disconnect_context` (message.c:1891): notice, then `force_plaintext` |
| `Accept` | `otrl_proto_accept_data`, both rotations, a heartbeat or an SMP answer, a DISCONNECTED TLV |
| `Refuse` | the message cannot be read; nothing of the context changes but what was changed before the check |

Left out: `sendmacused` (nothing sets it); the refresh and "talking to ourselves"
branches of `go_encrypted`, which fresh outcomes never take; version 1;
allocation and libgcrypt errors. The plugin's `otr_error_message` returns no
text, so no OTR error answers an unreadable message. A heartbeat answers texts
only, and an SMP message is answered only by an SMP message. `joined`,
`session`, the fields `session` and `after` of a message, and `inbox` are history:
guards of the code never read them, with one exception, the guard of `GoEncrypted`
that each outcome is joined once, which is `KeyAgreement`'s promise.

### SecureChannel

Sessions are joined and left; a message is read at most once, and only in the
session it was sent in. `DataKeys!ImplementsChannel` maps `open` to ENCRYPTED,
`last` to the session, `shown` to the accepted messages.

### Ake

`m_auth` and `auth` are the `OtrlAuthInfo` of the master and of the instance
context; version 2 has `auth` alone. `ReceiveCommit`, `ReceiveKey`,
`ReceiveRevealSig`, `ReceiveSignature` are the four handlers with their error
branches, `Join` is `go_encrypted`, `TakesOver` with `CopyOnKey` is
message.c:1118-1129. `Poll` and `Leave` interrupt. An instance's faults are
chosen by `Faults`; a message is lost by being overtaken for good. `MaxStarts` and
`MaxDup` bound exchanges and repeated messages, `MaxEvents` both together. `resent`
is history: an end whose D-H Commit won has sent, in its place, the Signature
message of an earlier exchange (section 4).

Which of two crossing D-H Commits has the greater hash is up to chance; here the
later key has it. Key numbers are given in the order the ends draw them, so both
outcomes of the comparison occur. An instance context in state NONE stands for
one that has not been created. Data Messages are left out.

### KeyAgreement

`Meet`: the first end finishes an exchange with keys new to both. `Follow`: the
other finishes it, once. After `Repeat` an end may `Rejoin` what it has joined, with
the keys it was agreed upon, and a repeated D-H Commit, answered anew, makes an
outcome in which one end has a DH key it had before. `Ake` maps `repeated` to
`Repeated`: the transport has repeated a message, or an end has (`resent`).

### Conversation

One user and one correspondent, who uses clients `1..N` with instance tags, each
with a context behind the master, and clients of protocol version 2, whose
context is the master itself (number 0). Which clients he has is chosen at the
start; policies, texts and errors may differ with that choice. `Best` is the walk
of `otrl_context_find_recent_secure_instance` over the list.

| Action | Code |
|---|---|
| `TypePlain`, `TypeTagged`, `TypeRequired`, `TypeEncrypted`, `TypeFinished` | the cases of `otrl_message_sending` together with what `onCELBeforeSend_cb` makes of the result |
| `TypeKeyless` | a text for a context that is ENCRYPTED without keys: `otrl_proto_create_data` refuses, the error path takes the length of the null that the plugin's `otr_error_message` returns, and the program ends (proto.c:505-509, message.c:398-425, wtwOTRmessaging.cpp:509-513) |
| `Receive(c)` | `otrl_message_receiving` for a message of client `c`: a context is made or found (`Adopted`, `TakenOver`), then the handler |
| `ReceiveUntagged` | Query, tagged text, plain text, OTR error: the master's |
| `Poll` | `otrl_message_poll` |
| `Ask`, `Finish`, `SetPolicy`, `Authenticate` | the plugin's menu commands and dialog |

Messages of the correspondent may arrive in any order at any time, which
over-approximates his behaviour; whether cryptography accepts one depends on the
context's `authstate` only. Abstractions:

- `lastrecv` is a rank with ties (the code's clock has seconds);
  `RESEND_INTERVAL` is a choice (`Slow`).
- `lastmessage = NULL` also stands for the empty text of a heartbeat: it can be
  retransmitted, but no one can tell.
- The master context exists from the start: it is made with the first message or
  read with the stored fingerprints. Only the master's `otr_offer` can become
  REJECTED, so the others' are left out.
- `Ask` sends a Query through the same hook as a typed text (hence OFFER_SENT).
- Every commit is answered with a D-H Key: an instance context never waits for
  one between two calls, and a master context always yields (auth.c:380). The
  private key is there.
- `Authenticate` is one step; the dialog that stays open is in `UserState`.
- `owned`: a `WtwOtrContext` of the pool of 16 was left for the correspondent.
  The runs take it as given, and `RequiredNeverInClear` is stated under it.

### Smp

Two ends with their `OtrlSMState`, in a conversation whose sessions are numbered.
The exponents of a run are its serial number, a value of the protocol is what it
was made of, and a proof verifies for just that; the secret is compared with the
keys, the roles and the session in it, as `init_respond_smp` hashes them
(message.c:753-779).

| Action | Code |
|---|---|
| `Initiate`, `Respond` | `init_respond_smp` with `otrl_sm_step1` and `step2b` |
| `RespondLate`, `Crash` | `Respond` to a prompt of a conversation that has ended (below) |
| `Abort` | `otrl_message_abort_smp`, by the user |
| `ReceiveSMP1` ... `ReceiveSMP4`, `ReceiveAbort` | the SMP TLVs in `otrl_message_receiving` (message.c:1427-1673) with `step2a`, `step3`, `step4`, `step5`, out of order included |
| `ReceiveDisconnected`, `Disconnect` | `otrl_context_force_finished` and its notice |
| `GoEncrypted` | a new session; the SMP state stays (message.c:584-631) |
| `Restart` | an end comes back with a new private key |
| `Lose` | a message is lost; `Discard`: it belongs to another session |

Messages of one end arrive in order, or not at all: the data phase refuses one
that was overtaken (counters), and `DataKeys` shows it. The plugin's
`handle_smp_event` is a stub (wtwOTRmessaging.cpp:535), so the applications here
are any that use the library: `aborting` has those that abort on an unexpected
message as message.h:182-192 asks. The run has both, and neither.

`asked[p]` is a prompt of the conversation that is on, `left[p]` one that has
been left open. When a conversation ends, `otrl_context_force_finished` clears the
SMP state (context.c:418-428), and nothing tells the application, which may go on
asking (message.c:1404-1409). An answer typed once a later conversation is
private passes message.c:751, and `otrl_sm_step2b` is run on whatever is there.
If this end has begun a run of its own, that run's values are used
(`RespondLate`); the answer is then one to a question nobody asked, and the model
follows what it does to both ends. If not, the values have been freed, the
library computes with null pointers and the program ends (`Crash`, sm.c:730-778).
`TypeOK` thus claims the values of arriving messages and of answers in
time, and that a late answer breaks nothing else. An application is taken to have
one prompt at a time for a correspondent: a new question takes the place
of the old prompt. `LeftOpen` has the prompts that a conversation before the
first one of the model may have left.

### SecretComparison

What each user typed is an entry with the session and the keys it was typed
under. A verdict consumes an entry; it adds trust only if the other user's entry
for the same comparison agrees with it, and takes trust away only if it does not.

### Fragments

Clients of protocol versions 2 and 3 send messages of several lengths; `Count` and
`Piece` are `fragment_and_send` and `otrl_proto_fragment_create`, `Accumulate`,
`Complete` and `Context` are `otrl_proto_fragment_accumulate` and the choice of
the context before it (message.c:990-1018). Pieces are lost, repeated or overtaken, or
the conversation ends while some are collected; `Faults` says which of these go
together. A piece that arrives under the policy NEVER is shown to the user as it
is: for the rest it is lost.

Two messages of equally many pieces can be mixed, for only `k` and `n` tell pieces
apart. A mix carries the first piece's header, so in the data phase it fails its
MAC; `MixesNeedLosses` says what it takes to get one. The plugin reports a maximum
size of 1000 (wtwOTRmessaging.cpp:487-498). The length of
a header and its form follow from two fields (proto.c:1001, :1045) that the model
takes to be equal.

### UserState, Accounts and OtrlUserState

`UserState` has the actions on what the plugin keeps of correspondents: contexts
and the plugin's slots for them, fingerprints as objects that may be freed while
a context points to them, the trust in them, their file, the dialog of
`authenticatePeer`, and the timer. `Accounts` has the private key and instance tag
of each account and their two files. `OtrlUserState` joins both where the
code does and is the specification that is checked.

| Action | Code |
|---|---|
| `Populate` | the head of `otrl_message_sending` and `_receiving`: find the context, `populate_context_instag`, `OTRL_create_instag_cb` |
| `NeedKey` | message.c:1211-1256 with `OTRL_create_privkey_cb`, `generate_start`, `generate_finish` |
| `GoEncrypted` | `go_encrypted`: find or add the fingerprint, write the file |
| `SendCommit`, `ReceiveKey`, `ReceiveCommit` | `send_or_error_auth` with the timer; instance contexts made at message.c:1080-1130 |
| `CloseContext` | `force_plaintext`, `force_finished` |
| `ForgetFingerprint` | `ui_forget_fingerprint`, `otrl_context_forget_fingerprint`, `otrl_context_forget` |
| `OpenDialog`, `CloseDialog`, `CancelDialog` | `authenticatePeer`, with everything else in between |
| `Age`, `Poll` | time passes; `otrl_timer_callback`, `otrl_message_poll` |
| `RestartAll` | `initializeOTRL` |

Writing a file comes to "done"; to "unopened", when `fopen` fails; or to "cut",
when the program ends before all of it is written. A fingerprint or tag file that
is cut loses lines, the key file all of its keys, since it is one S-expression. A
file that exists can be read at the start. `Populate` is a step of its own because
a plain text does just that much; the handlers that follow it in the code need
it to have happened. What the code does with a freed context or fingerprint in
`authenticatePeer` is undefined: here nothing comes of it, or the program ends.

What the model shows besides its properties:

- After a failure to open the key file the account stays in the list of pending
  keys (privkey.c:577 returns before the entry is removed), and no key can be made
  for it until the next start: each attempt is answered with EEXIST, which
  privkey.c:474-477 describes as a creation that "is already in progress". There
  is none. The failure and the refusal are steps of `Accounts`; a property would
  only repeat the one step in which they disagree with that comment.
- After a failure to open the tag file the contexts of an account have tags of
  their own, or none; version 3 conversations fail until the next start
  (`Speaks`). `OneTag` excepts these accounts.
- A context made PLAINTEXT by a D-H Key keeps its fingerprint, which the user may
  then forget (context.c:447); `ActiveIsKnown` excepts these contexts.
- An answer given in the dialog after the key in use was changed goes to the new
  key. `unsure` records it, and `TrustIsTheUsers` excepts these keys.
- If the fingerprint file could not be opened, trust that was revoked is back after
  the next start; a file that is cut only loses trust.
- If the timer cannot be created `timer_running` is set all the same, no poll comes,
  and no later commit creates one (message.c:494). `CommitsExpire` excepts it.
- A context made while the pool is used up never gets a slot, even when one becomes
  free.

## 3. Runs

All runs end by exhausting the state space (`expect: pass`) or by a
counterexample (`expect: violation`).

| Run | Instance | Checks |
|---|---|---|
| `rekey` | 5 messages of both ends with 1 exchange, 3 if there is a second | `TypeOK`, `SlotsInSync`, `KeyidsAgree`, `InOrderReadable`, `KeyGoneAfterRoundTrip`, `NoReplay`, `NoCounterReuse`, `RevealedMacKeysAreDead`, `ImplementsChannel` |
| `ake_agreement` | versions 2 and 3, 3 starts and repeated messages in all, at most 1 repeated, all faults | `TypeOK` (with `Ready`: each authstate has the data its next message needs), `InitiatorIsLast`, `ImplementsKeyAgreement` |
| `ake_settles` | version 3, one end starts 4 times, order kept, fairness | `Settles` |
| `ake_crossing` | version 3, both start, order kept, fairness | `OneCommitWins` fails |
| `ake_ignored` | version 2, both start | `RevealsWhatItCommitted` fails |
| `conv_texts` | one client, old or new: 4 policies, 2 texts, 1 OTR error; two clients, both new, or an old and a new one: ALWAYS, 1 text | `TypeOK`, `RequiredNeverInClear`, `SentOncePerError`, `KeylessIsInherited`, `PrivateIsBest` |
| `conv_inherits` | an old and a new client, ALWAYS | `EncryptedHasKeys` fails |
| `conv_promised` | one client, ALWAYS | `HeldIsSentWhenPrivate` fails |
| `conv_ended` | one client, OPPORTUNISTIC | `EndedLetsNothingOut` fails |
| `smp` | 2 secrets, with and without a question, 2 runs, 3 runs, exchanges, aborts, ends and restarts in all, a prompt that is open from before counted as one; A has verified B's key | `TypeOK`, `ImplementsComparison`, `NobodyWaits` |
| `fragments` | a client of each version, 3 messages of 1, 2 or 3 pieces, 3 lost pieces, 1 repeated or overtaking message | `TypeOK`, `MixesNeedLosses`, `Arrives` |
| `user_state` | 2 accounts with a correspondent each, old and new, 2 keys, 2 slots, all outcomes of writing, 4 events | `StateOK`, `ActiveIsKnown`, `FileIsMemory`, `TrustIsTheUsers`, `OneTag`, `CommitsExpire`, `IdentityLasts` |

**Why these bounds are enough to be interesting.** With five messages, however
they are shared out, DH keys are announced, acknowledged, rotated in and rotated
out again at both ends; a second exchange, at any point of the first three, lets
one be cut off by the other at either end. Two starts
make crossing commits, a third makes an exchange meet the leftovers of two
others. Two clients are enough for the walk over the contexts to have something
to lose: three contexts, the master included. Two texts are needed for one to
wait or be marked while the other is sent. Two runs of the SMP can cross, or one
can be met by what an abandoned one has left, and the third event is the abort, the
exchange or the restart between them. Three fragmented messages of up to three pieces, with as many
pieces lost, are what a mix takes, and two clients are what it takes for one to disturb the
other. Two slots are fewer than the four contexts there can be. Four events are a
conversation, a second one that changes the key, an answer about it and a
restart; what has no effect of its own (making a key or a tag that succeeds,
closing a dialog, time) is not counted. `PROJECT.json` has, for every property
of a passing run, a mutant: a plausible bug in a definition that makes the
property fail under the run's own bounds.

**Fairness.** Weak fairness, and of these actions only:

- `Ake`, `Fragments`, `Smp`: the receiver's action. The transport delivers what it
  was given and the messenger calls the receive hook.
- `Smp`: `Respond`. A user who is asked for a secret types one some time;
  `NobodyWaits` is about ends whose applications abort as message.h asks.
- `OtrlUserState`: `Age` and `Poll`. Time passes, and the host calls the timer it
  has, as long as the program runs.

Nothing is assumed of users otherwise, of starting an exchange or a run, or of
`Poll` in `Ake`. `CHECK_DEADLOCK FALSE` is there where the system may stop: an
exchange, a run of the SMP or a message in pieces ends, and no further one is
started within the bounds.

## 4. What the failing runs show

Five statements in the repository are contradicted by the code (`findings` in
`PROJECT.json` quote both sides).

1. `ake_crossing`. auth.c:372 says that of two crossing D-H Commits one wins. In
   version 3 each commit is compared with the instance context, which is in
   NONE, so both ends answer; then message.c:1118-1129 has both take over their
   own commit. Both wait for a Signature message for ever.
2. `ake_ignored`. auth.c:941 copies `r` out of a Reveal Signature message before
   it looks at the state in which the message is to be ignored.
3. `conv_promised`. The user is told that a text will be sent once the
   conversation is private. `handle_signature` reports that there is no message
   to send (auth.c:1155), and that skips `maybe_resend`: for the initiator the
   text stays unsent.
4. `conv_ended`. With `privateConverstationEnded` set, nothing is to go out in
   the clear (wtwOTRmessaging.cpp:582). When the correspondent begins anew, his
   D-H Key makes the FINISHED context PLAINTEXT (message.c:1124); a text typed
   now is tagged, and the hook sends a non-empty result without a look at the
   flag.

5. `conv_inherits`. context.h:40 says of OTRL_MSGSTATE_ENCRYPTED "Currently in an
   encrypted conversation". The correspondent has a private conversation with a
   version 2 client, so the master is ENCRYPTED. The first message of a version 3
   client makes an instance context, which copies `msgstate` from the master and
   no keys (message.c:1097; message.c:1124 does the same to one that is there). It
   may be the BEST context now; the next text typed meets `TypeKeyless` and ends
   the program. What does hold is `KeylessIsInherited`: there is no other
   way to such a context.

What no run singles out, but a proof brought to light: auth.c:380 says of two commits
of which ours wins that we "resend the same D-H Commit message again". What is
sent is `lastauthmsg`, and `otrl_auth_copy_on_key` (auth.c:1447), which gave the
instance context its commit, does not copy that. If no private key could be made
for the answer, the instance context waits on with no last message, or with that
of an earlier exchange: nothing is sent then, or an old Signature message. The
history `resent` of `Ake` records the latter.

Repeated messages are no finding: `KeyAgreement` says what they lead to
(`Rejoin`). `DataKeys` has an end join each outcome once, so what it and its proofs
say of a session holds for exchanges of which no message is repeated, by the
transport or as above. With a repeated D-H Key and Signature message the test of go_encrypted
for a mere refresh (message.c:557) is passed by, since the takeover has set
`msgstate` to PLAINTEXT, and a session starts anew under the keys it had.

## 5. Proofs

Each theorem holds for every value of the constants that meets the `ASSUME`s of
its module: two different ends, any bounds in `Nat`, any sets of clients,
correspondents, keys, policies, sizes and faults. The bounds, TLC's need, are thus
no restriction; `Smp` asks for `MaxEvents` of at least 1, since a prompt left open
before counts as one. No theorem assumes fairness.

| Module | Theorem | States |
|---|---|---|
| `DataKeys_proofs` | `Invariance` | `Spec => []IInv` |
| | `TypeCorrect`, `SessKeysStayInSync`, `MessagesAreReadOnce`, `CountersAreFresh`, `RevealedKeysStayDead` | `TypeOK`, `SlotsInSync`, `NoReplay`, `NoCounterReuse`, `RevealedMacKeysAreDead` |
| `DataKeys_sessions` | `SessionInvariance` | `Spec => []Inv` |
| | `EndsAgreeOnKeyids`, `InOrderMessagesAreRead` | `KeyidsAgree`, `InOrderReadable` |
| `DataKeys_promises` | `RoundTripsDisposeOfKeys` | `KeyGoneAfterRoundTrip` |
| | `DataKeysImplementChannel` | `ImplementsChannel` |
| `Ake_proofs` | `Invariance`, `TypesOK` | `Spec => []IInv`, `TypeOK` |
| | `AnswererIsFirst`, `AkeImplementsKeyAgreement` | `InitiatorIsLast`, `ImplementsKeyAgreement` |
| `Conversation_proofs` | `Invariance`, `TypesOK` | `Spec => []IInv`, `TypeOK` |
| | `KeysAreNotLost`, `RequiredStaysHeld`, `ErrorsBoundCopies`, `WalkFindsPrivate` | `KeylessIsInherited`, `RequiredNeverInClear`, `SentOncePerError`, `PrivateIsBest` |
| `Smp_proofs` | `Invariance`, `TypesOK` | `Spec => [](IInv /\ LateInv)`, `TypeOK` |
| | `SmpImplementsComparison` | `ImplementsComparison` |
| `Fragments_proofs` | `Invariance`, `TypesOK`, `MixesCostLosses` | `Spec => []IInv`, `TypeOK`, `MixesNeedLosses` |
| `OtrlUserState_proofs` | `Invariance`, `StateIsOK` | `SpecAll => []IInv`, `StateOK` |
| | `ActiveStaysKnown`, `FileHoldsMemory`, `TrustFollowsTheUser` | `ActiveIsKnown`, `FileIsMemory`, `TrustIsTheUsers` |
| | `ContextsHaveOneTag`, `IdentitiesLast` | `OneTag`, `IdentityLasts` |

Hardly one of the properties is inductive. The rest of this section says, module
by module, what must be added and why.

### DataKeys_proofs: one end

That a counter is not used twice, say,
needs more than the counter of the slot in use: a rotation may drop the slot, a
key exchange may build one for the same two DH keys again. The invariant

    IInv == TypeOK /\ ContextsInv /\ AkeInv /\ WireInv /\ NoCounterReuse

is local to one end. `KeyInv(c, g, F, R, S, V)` relates a context `c` to the
number `g` of DH keys the end has generated, the keys `F` that unfinished
exchanges hold back, and the messages it has read (`R`), sent (`S`) and the MAC
keys it has revealed (`V`):

- `Ordered`: the keys a context holds have increasing numbers, old before new;
- `InSync`: a slot an arriving message can select holds the matching keys;
- `StaleIsForeign`: what `go_encrypted` leaves in the column it does not write is
  of no DH key in use, so that a later rotation reveals nothing alive;
- `KeysKnown`: keys of exchanges still to be finished are in no slot;
- `AcceptedBelow`, `SentBelow`: under a key pair that is live, no message read or
  sent has a counter above the slot's; under our keys, none is with a key of
  theirs that has yet to come. So a slot that is built anew with counters at zero
  is of a pair no message was ever made with;
- `RevealedBelow`: a revealed MAC key of a DH key still in use belongs to a key of
  theirs that has been rotated out.

There is a lemma for every operation on a context (`RotateDhKeepsInv`,
`RotateYKeepsInv`, `MarkMacUsedKeepsInv`, `AfterAcceptKeepsInv`,
`AfterCreateKeepsInv`, `InstallKeepsInv`, ...), one for every action
(`GoEncryptedStep`, `SendStep`, `AcceptStep`, ...), and `NextIInv` puts them
together. `AkeInv` (a later exchange hands out later keys) is where the
freshness that `KeyAgreement` promises enters.

### DataKeys_sessions and DataKeys_promises: both ends

What the ends have in common is said through names. A DH key is given its name, a
session and a keyid, once: as a key exchange hands it out, with keyid 1, or as a
message announces it. `EndInv`, of one end, says that

- no name is given to two keys (`NamesUnique`), the keys held are the latest of
  the session (`OursNamed`), and theirs are held under the names their end gave
  them (`TheirsNamed`);
- a message uses two keys by their names, and its sender's key only if the other
  end has used it before (`SentNamed`), which it can only have read of a message;
- keyids and counters of what is sent grow (`SentInOrder`, `SentUpToNow`);
- keyids of what is held are where the messages read have moved them, and so are
  the counters (`ReadSoFar`); a message acknowledges what was read before it
  (`Acknowledged`).

It mentions the other end's messages, never its context, so a step of one end can
disturb only what is known of that end. `KeyidsAgree` follows by comparing two
names, `InOrderReadable` by the counters, and `KeyGoneAfterRoundTrip`, which is an
invariant over the past, by induction over steps. The refinement maps each action to
`Join`, `Send`, `Deliver`, `Leave` or a stutter of `SecureChannel`.

### Ake_proofs

The invariant follows the two keys of an exchange. A key that is offered in a D-H
Key is used in no outcome, and nobody has committed to it (`OfferInv`). Whoever's
Signature message is on its way, or is kept to be sent again, has joined the
exchange (`SignatureInv`, `LastInv`), which is `InitiatorIsLast`; so has whoever is
private (`CurrentInv`). As long as the transport repeats nothing, a D-H Commit is
on its way, is being answered, or has led to an outcome, one of these at a time
(`CommitInv`), and while no end does either, so it is with the Signature
message (`SingleInv`). A step of `Ake` leaves the outcomes and what is joined alone,
or is `Meet`, `Follow`, `Rejoin` or `Repeat`; which of the first three a Reveal
Signature or Signature message leads to is what the invariant decides.

The first attempt failed, with the mapping of `repeated` to `dups > 0`. `SingleInv`
was not inductive where a commit wins at an instance context. There it
is the last message that is sent, and that may be a Signature message of an
exchange that is over (section 4). `ake_agreement` has that step, but its three
exchanges are too few for harm. With four starts in version 3, no repetition and
`Faults` `{"reorder", "noprivkey"}`, TLC refutes the old mapping: three
commits of one end are answered by the same D-H Key, the end finishes the exchange,
takes it over from its master again at the next D-H Key, and the old Signature
message makes it join what it has joined. `Repeated` now says which
exchanges the promise is about.

### Conversation_proofs

Three predicates judge a list of contexts. `Private`: only a context that exists is
ENCRYPTED, and the master, which inherits from nobody, only with keys. That a
context without keys has inherited its state (`KeysAreNotLost`) is then shown
action by action. `Marks`: no text is kept by two contexts, and one with a
mark has gone out no oftener than errors came in. `Sent`: what the texts
typed have become of. Each operator that makes a list preserves them, hence each
action. `Best` is a recursive walk; that it ends at a private or an authenticated
context if there is one is proved by the least client at which it would not,
which needs no induction over data.

### Smp_proofs

What a verdict is worth depends on what the other end's message was made of, which is
a matter of which run it belongs to. The invariant gives each exponent its owner
(`\E o \in Ownerships`; the model has no variable for it), and has two numbers for
each message: its sender's exponent and the one it answers to. Both grow along
what is on the way to an end (`InOrder`, `ReceivedInv`, `AnsweredInv`). An SMP3
that is expected is then the answer to the SMP2 that was sent last
(`ResponderInv`), and an SMP4 to the SMP3 (`InitiatorInv`): neither fails its
proofs of knowledge, so no verdict comes of a run left behind. The secret in each
state and message was typed by its end's user, with the session and the keys of
that time (`StateInv`, `MessageInv`, `LogInv`); two that are equal were typed in
one session and name the same keys. Late answers have an invariant of their own,
`LateInv`: while `p` may give one, or has given one made of nothing, no SMP3
is on its way to `p`, and no SMP2 that `p` has sent was made for the run the other
end is in. Such an answer thus ends the program, or a run, and never leads to a
verdict. One made of the values of a run of `p`'s own is covered by `RunInv`, as
any SMP2 is. A step of `Smp` changes nothing that
`SecretComparison` has, enters, gives up or concludes.

### Fragments_proofs

Pieces of a message end where the arithmetic of `otrl_proto_fragment_create` puts
them (`Divide` and the lemmas after it: no piece is empty, the last one ends the
message). In what is on the way from a client, a piece is followed by the next or
by the first of a later message (`OrderInv`). What a context has collected is the
beginning of one message, or cost as many pieces as it claims to have
(`CollectInv`). The first of these lasts as long as the pieces that can no longer
arrive are counted among the lost (`Missing`), and when it ends their number has
come to that of the pieces.

### OtrlUserState_proofs

What the file holds decides what the next run knows. `FileInv` relates the
file to the list of fingerprints for each outcome of its latest writing: the same if
it was done, less if it was cut off. `TrustInv` relates the list to the
user's answers, also when the program has ended. `DialogInv` says which context a
dialog is about, for as long as it is not forgotten; `ContextsInv` that a
correspondent has one context in which he may be private, and that it points to
fingerprints of his own. `AccountsInv` relates keys and tags to their files, with
the key file empty as the one exception (it is lost as a whole), and `TagInv` a
context's tag to its account's.

### Left to TLC

Liveness (`Settles`, `NobodyWaits`, `Arrives`, `CommitsExpire`): it needs
fairness, and `ENABLED`, which this prover does not handle. `OneCommitWins`,
`RevealsWhatItCommitted`, `HeldIsSentWhenPrivate`, `EndedLetsNothingOut` and
`EncryptedHasKeys` are false. All else that a run checks is proved.

## 6. Not modelled

- Cryptography is perfect: a MAC verifies under its own key only, nothing is
  forged. The byte layout of messages, TLVs and encodings is abstracted away.
- Allocation and libgcrypt failures. Two hazards live there: `reveal_macs`
  failing half way through a rotation, and the hook that tells the user a text
  was not sent and then lets it out unchanged (wtwOTRmessaging.cpp:1133).
- Protocol version 1, whose key exchange has handlers of its own.
- In `Smp`: an application with several prompts at a time for one correspondent,
  and what an answer computed with freed values would do if it did not end the
  program.
- In `Conversation`: forgetting fingerprints (it is in `UserState`, where nothing is
  said of texts), ending all conversations at exit, how a received text is
  displayed.
- A stored file that exists and cannot be opened at the start: the next write then
  replaces it by what is known without it.
- The cache of `PeerPolicy` over the host's settings: what the host keeps in memory
  and what on disk is not in the repository.
- The fragment policy `SEND_ALL_BUT_FIRST`, which the plugin does not use, and a
  failing `inject_message`: the callback reports no failure.
- Menus, icons, layout, logging.
- Third-party code. Most of the repository's lines are libgcrypt, libgpg-error and
  the host's API headers; the project is about the library's protocol code and the
  plugin, and takes cryptographic operations as perfect.

## 7. Plan

Done: 1. `DataKeys`, `SecureChannel`, `DataKeys_proofs`; 2. `Ake`,
`KeyAgreement`; 3. `Conversation`; 4. `Fragments`; 5. `Smp`, `SecretComparison`;
6. `UserState`, `Accounts`, `OtrlUserState`.

Proved: types and every safety invariant and action property that a passing run
checks, and the three refinements (section 5). What a further round could add, in
this order:

1. `Ake` without repetitions: that both ends of an outcome have joined it, or one
   is still to be sent the Signature message, which `KeyAgreement` leaves open.
2. `SecureChannel`, `KeyAgreement` and `SecretComparison`: what follows from each
   alone (a message is read in one session only, the sessions of an end are in
   the order of its outcomes), so that a reader can take it from there.

## 8. How to run

    tlc -workers 2 -config DataKeys_rekey.cfg MCDataKeys
    tlapm DataKeys_proofs.tla

Each proof module takes between half a minute and ten minutes from nothing.
`PROJECT.json` has the module and configuration of each run.
